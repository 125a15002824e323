------------------------ MODULE ScanSignatureProofs ------------------------
(***************************************************************************)
(* Proofs about ScanSignature, for every memory, division into regions,     *)
(* signature, range and size of the windows; and the types of all the parts *)
(* of MCMemory side by side.                                                *)
(***************************************************************************)
EXTENDS MCMemory, MemoryProofs, SharedSiteProofs, WellFoundedInduction, TLAPS

AllReadable == ~execOnly /\ CanRead(start, end)

(* An occurrence RegionsAreSearched or ReadableIsSearched speaks of.         *)
Occurrence(a) ==
  /\ Candidate(a)
  /\ Scanned(a)
  /\ a + Length <= mem.next[a] \/ AllReadable

(* Everything below b has been searched.                                     *)
SearchedTo(b) == \A a \in Addrs : a < b => ~Occurrence(a)

Started ==
  at \in {"query", "read", "find"} => Length > 0 /\ Length <= size /\ match = 0

InRegion ==
  at \in {"read", "find"} =>
    /\ cursor \in Addrs /\ start <= cursor /\ cursor < end /\ cursor <= chunk
    /\ Scanned(cursor)
    /\ regionEnd = MinOf(end, mem.next[cursor])
    /\ SearchedTo(MinOf(chunk, regionEnd))

InWindow ==
  at = "find" =>
    /\ chunk < regionEnd
    /\ bufEnd <= end
    /\ bufEnd = limit \/ (bufEnd = regionEnd /\ ~CanRead(chunk, limit))
    /\ CanRead(chunk, bufEnd)
    /\ chunk + Length <= bufEnd
    /\ chunk <= pos
    /\ pos + Length <= bufEnd \/ \E i \in 1..Length : IsAnchor(i)
    /\ \A a \in chunk..(pos - 1) : ~Matches(a)

Progress ==
  /\ at = "query" => start <= cursor /\ SearchedTo(cursor)
  /\ at = "begin" => match = 0 /\ cursor = start
  /\ match # 0 => at = "done" /\ Candidate(match) /\ SearchedTo(match)
  /\ at = "done" /\ match = 0 => SearchedTo(Top + 1)

IInv == ScanTypeOK /\ Started /\ InRegion /\ InWindow /\ Progress

-----------------------------------------------------------------------------
(* The arguments of the call as numbers, and what a layout says.             *)
LEMMA InputFacts ==
  ASSUME ScanTypeOK
  PROVE  /\ Top \in Nat /\ Chunk \in Nat /\ Chunk > 0
         /\ Length \in Nat /\ start \in Addrs /\ start \in Nat /\ size \in Nat /\ end \in Nat
         /\ limit \in Int /\ limit <= end
         /\ \A i \in 1..Length : pattern[i] \in Bytes \cup {Any}
         /\ \A a \in Addrs :
              /\ mem.next[a] \in Nat /\ a < mem.next[a] /\ mem.next[a] <= Top + 1
              /\ \A b \in a..(mem.next[a] - 1) :
                   b \in Addrs /\ mem.kind[b] = mem.kind[a] /\ mem.next[b] = mem.next[a]
<1>1. Top \in Nat /\ Chunk \in Nat /\ Chunk > 0
  BY ScanAssumption DEF ScanAssumption
<1>2. pattern \in Seq(Bytes \cup {Any})
  BY ScanAssumption DEF ScanAssumption, ScanTypeOK
<1>3. Length \in Nat /\ \A i \in 1..Length : pattern[i] \in Bytes \cup {Any}
  BY <1>2 DEF Length
<1>4. start \in Addrs /\ size \in Nat
  BY ScanAssumption DEF ScanAssumption, ScanTypeOK
<1>5. start \in Nat /\ end \in Nat
  BY <1>1, <1>4 DEF Addrs, end
<1>6. limit \in Int /\ limit <= end
  <2>1. chunk \in Int /\ chunk + Chunk + Length - 1 \in Int
    BY <1>1, <1>3 DEF ScanTypeOK
  <2> QED
    BY <2>1, <1>5 DEF limit, MinOf
<1>7. IsLayout(mem)
  BY ScanAssumption DEF ScanAssumption, ScanTypeOK
<1>8. ASSUME NEW a \in Addrs
      PROVE  /\ mem.next[a] \in Nat /\ a < mem.next[a] /\ mem.next[a] <= Top + 1
             /\ \A b \in a..(mem.next[a] - 1) :
                  b \in Addrs /\ mem.kind[b] = mem.kind[a] /\ mem.next[b] = mem.next[a]
  <2>1. mem.next[a] \in 2..(Top + 1) /\ a < mem.next[a] /\ a \in 1..Top
    BY <1>7, <1>8, <1>1 DEF IsLayout, Addrs
  <2>2. \A b \in a..(mem.next[a] - 1) : b \in Addrs
    BY <2>1, <1>1 DEF Addrs
  <2> QED
    BY <2>1, <2>2, <1>1, <1>7, <1>8 DEF IsLayout
<1> QED
  BY <1>1, <1>3, <1>4, <1>5, <1>6, <1>8

LEMMA InitInv == ScanInit => IInv
<1> SUFFICES ASSUME ScanInit PROVE IInv
  OBVIOUS
<1>1. ScanTypeOK
  <2>1. Ranges \subseteq Addrs \X Nat /\ Top \in Nat /\ Chunk \in Nat
    BY ScanAssumption DEF ScanAssumption
  <2>2. PICK r \in Ranges : start = r[1] /\ size = r[2]
    BY DEF ScanInit
  <2>3. r = <<start, size>> /\ start \in Addrs
    BY <2>1, <2>2
  <2>4. cursor = start /\ regionEnd = 0 /\ chunk = 0 /\ bufEnd = 0 /\ pos = 0 /\ match = 0
    BY DEF ScanInit
  <2>5. cursor \in 1..(Top + 1) /\ regionEnd \in 0..(Top + 1) /\ chunk \in 0..(Top + Chunk)
    BY <2>1, <2>3, <2>4 DEF Addrs
  <2> QED
    BY <2>2, <2>3, <2>4, <2>5 DEF ScanInit, ScanTypeOK
<1> QED
  BY <1>1 DEF ScanInit, IInv, Started, InRegion, InWindow, Progress

(* Every step leaves the arguments alone, and with them what is said of them. *)
LEMMA InputsStay ==
  ASSUME UNCHANGED inputVars
  PROVE  /\ Length' = Length /\ end' = end /\ start' = start /\ size' = size
         /\ mem' = mem /\ byte' = byte /\ pattern' = pattern /\ execOnly' = execOnly
         /\ \A a : Scanned(a)' <=> Scanned(a)
         /\ \A a : Matches(a)' <=> Matches(a)
         /\ \A a : Candidate(a)' <=> Candidate(a)
         /\ \A a : Occurrence(a)' <=> Occurrence(a)
         /\ \A i : IsAnchor(i)' <=> IsAnchor(i)
         /\ \A a, b : CanRead(a, b)' <=> CanRead(a, b)
<1> USE DEF inputVars
<1>1. Length' = Length /\ end' = end
  BY DEF Length, end
<1>2. \A a : Scanned(a)' <=> Scanned(a)
  BY DEF Scanned
<1>3. \A a : Matches(a)' <=> Matches(a)
  BY <1>1 DEF Matches
<1>4. \A i : IsAnchor(i)' <=> IsAnchor(i)
  BY <1>1 DEF IsAnchor
<1>5. \A a, b : CanRead(a, b)' <=> CanRead(a, b)
  BY DEF CanRead
<1>6. \A a : Candidate(a)' <=> Candidate(a)
  BY <1>1, <1>3, <1>5 DEF Candidate
<1>7. \A a : Occurrence(a)' <=> Occurrence(a)
  BY <1>1, <1>2, <1>5, <1>6 DEF Occurrence, AllReadable
<1> QED
  BY <1>1, <1>2, <1>3, <1>4, <1>5, <1>6, <1>7

LEMMA CandidateFacts ==
  ASSUME ScanTypeOK, NEW a, Candidate(a)
  PROVE  /\ a \in Addrs /\ a \in Nat /\ start <= a /\ a + Length <= end /\ Length > 0
         /\ a < end
<1>1. Length > 0 /\ a \in start..(end - Length) /\ CanRead(a, a + Length)
  BY DEF Candidate
<1>2. a \in Int
  BY <1>1, InputFacts
<1>3. a \in Addrs
  <2> DEFINE b == a + Length
  <2>1. CanRead(a, a + Length) /\ a \in a..(b - 1)
    BY <1>1, <1>2, InputFacts
  <2>2. \A x \in a..(b - 1) : x \in Addrs
    <3> HIDE DEF b
    <3>1. CanRead(a, b)
      BY <2>1 DEF b
    <3> QED
      BY <3>1 DEF CanRead
  <2> HIDE DEF b
  <2> QED
    BY <2>1, <2>2
<1> QED
  BY <1>1, <1>3, InputFacts DEF Addrs

LEMMA BeginInv ==
  ASSUME IInv, Begin
  PROVE  IInv'
<1> USE DEF IInv
<1>0. UNCHANGED <<inputVars, cursor, regionEnd, chunk, bufEnd, pos>>
  BY DEF Begin
<1>1. CASE Length = 0 \/ size < Length
  <2>1. at' = "done" /\ match' = 0
    BY <1>1 DEF Begin, Return
  <2>2. \A a \in Addrs : ~Occurrence(a)
    BY <1>1, CandidateFacts, InputFacts DEF Occurrence, end
  <2>3. ScanTypeOK'
    BY <2>1, <1>0 DEF ScanTypeOK, inputVars
  <2>4. SearchedTo(Top + 1)'
    BY <1>0, <2>2, InputsStay DEF SearchedTo
  <2> QED
    BY <2>1, <2>3, <2>4 DEF Started, InRegion, InWindow, Progress
<1>2. CASE ~(Length = 0 \/ size < Length)
  <2>1. at' = "query" /\ match' = 0 /\ cursor' = start'
    BY <1>0, <1>2 DEF Begin, Progress, inputVars
  <2>2. ScanTypeOK'
    BY <2>1, <1>0 DEF ScanTypeOK, inputVars
  <2>3. Length' > 0 /\ Length' <= size'
    BY <1>0, <1>2, InputFacts, InputsStay
  <2>4. SearchedTo(start)'
    BY <1>0, CandidateFacts, InputFacts, InputsStay DEF SearchedTo, Occurrence
  <2>5. start' <= cursor'
    BY <2>1, <1>0, InputFacts DEF inputVars
  <2> QED
    BY <2>1, <2>2, <2>3, <2>4, <2>5 DEF Started, InRegion, InWindow, Progress
<1> QED
  BY <1>1, <1>2

LEMMA QueryPastInv ==
  ASSUME IInv, QueryPast
  PROVE  IInv'
<1> USE DEF IInv
<1>0. UNCHANGED inputVars /\ at = "query" /\ at' = "done" /\ match' = 0 /\ cursor \in Nat
  BY InputFacts DEF QueryPast, Return, ScanTypeOK
<1>1. \A a \in Addrs : ~Occurrence(a)
  <2> SUFFICES ASSUME NEW a \in Addrs, Occurrence(a) PROVE FALSE
    OBVIOUS
  <2>1. a < end /\ a \in Nat /\ a <= Top
    BY CandidateFacts, InputFacts DEF Occurrence, Addrs
  <2>2. cursor >= end \/ cursor > Top
    BY DEF QueryPast
  <2>3. a < cursor
    BY <2>1, <2>2, <1>0, InputFacts
  <2> QED
    BY <2>3, <1>0 DEF Progress, SearchedTo
<1>2. ScanTypeOK'
  BY <1>0 DEF QueryPast, ScanTypeOK, inputVars
<1>3. SearchedTo(Top + 1)'
  BY <1>0, <1>1, InputsStay DEF SearchedTo
<1> QED
  BY <1>0, <1>2, <1>3 DEF Started, InRegion, InWindow, Progress

LEMMA QueryRegionInv ==
  ASSUME IInv, QueryRegion
  PROVE  IInv'
<1> USE DEF IInv
<1>0. /\ UNCHANGED <<inputVars, bufEnd, pos, match>> /\ at = "query"
      /\ cursor < end /\ cursor \in Addrs /\ cursor \in Nat
      /\ regionEnd' = MinOf(end, mem.next[cursor])
      /\ start <= cursor /\ SearchedTo(cursor)
  BY InputFacts DEF QueryRegion, ScanTypeOK, Addrs, Progress
<1>1. /\ cursor < regionEnd' /\ regionEnd' \in 0..(Top + 1)
      /\ regionEnd' <= mem.next[cursor]
  BY <1>0, InputFacts DEF MinOf
<1>2. Started'
  BY <1>0, InputsStay DEF QueryRegion, Started
<1>3. CASE Scanned(cursor)
  <2>1. at' = "read" /\ chunk' = cursor /\ cursor' = cursor
    BY <1>3 DEF QueryRegion
  <2>2. chunk' \in 0..(Top + Chunk)
    BY <2>1, <1>0, InputFacts DEF Addrs
  <2>3. ScanTypeOK'
    BY <2>1, <2>2, <1>0, <1>1 DEF ScanTypeOK, inputVars
  <2>4. MinOf(chunk, regionEnd)' = cursor
    BY <2>1, <1>0, <1>1, InputFacts DEF MinOf
  <2>5. InRegion'
    <3>1. SearchedTo(MinOf(chunk, regionEnd))'
      BY <2>4, <1>0, InputsStay DEF SearchedTo
    <3>2. regionEnd' = MinOf(end', mem'.next[cursor'])
      BY <2>1, <1>0, InputsStay
    <3>3. /\ cursor' \in Addrs /\ start' <= cursor' /\ cursor' < end' /\ cursor' <= chunk'
          /\ Scanned(cursor)'
      <4>1. Scanned(cursor)'
        BY <1>3, <2>1, <1>0 DEF Scanned, inputVars
      <4> QED
        BY <4>1, <2>1, <1>0, InputsStay
    <3> QED
      BY <3>1, <3>2, <3>3 DEF InRegion
  <2> QED
    BY <2>1, <2>3, <2>5, <1>0, <1>2, InputsStay DEF InWindow, Progress
<1>4. CASE ~Scanned(cursor)
  <2>1. at' = "query" /\ cursor' = regionEnd' /\ chunk' = chunk
    BY <1>0, <1>4 DEF QueryRegion
  <2>2. cursor' \in 1..(Top + 1)
    BY <2>1, <1>0, <1>1, InputFacts DEF Addrs
  <2>3. ScanTypeOK'
    BY <2>1, <2>2, <1>0, <1>1 DEF ScanTypeOK, inputVars
  <2>4. \A a \in Addrs : a < regionEnd' => ~Occurrence(a)
    <3> SUFFICES ASSUME NEW a \in Addrs, a < regionEnd', Occurrence(a) PROVE FALSE
      OBVIOUS
    <3>1. a >= cursor
      BY <1>0, InputFacts DEF SearchedTo, Addrs
    <3>2. a \in cursor..(mem.next[cursor] - 1)
      BY <3>1, <1>0, <1>1, InputFacts DEF Addrs
    <3>3. mem.kind[a] = mem.kind[cursor]
      BY <3>2, <1>0, InputFacts
    <3> QED
      BY <3>3, <1>4 DEF Occurrence, Scanned
  <2>5. SearchedTo(cursor)'
    <3>1. \A a \in Addrs : a < regionEnd' => ~Occurrence(a)'
      BY <2>4, <1>0, InputsStay
    <3> QED
      BY <3>1, <2>1 DEF SearchedTo
  <2>6. start' <= cursor'
    BY <2>1, <1>0, <1>1, InputFacts, InputsStay
  <2> QED
    BY <2>1, <2>3, <2>5, <2>6, <1>0, <1>2 DEF InRegion, InWindow, Progress, Started
<1> QED
  BY <1>3, <1>4

(* The windows of a region, as all steps of "read" and "find" know them.     *)
LEMMA RegionFacts ==
  ASSUME IInv, at \in {"read", "find"}
  PROVE  /\ cursor \in Nat /\ regionEnd \in Nat /\ chunk \in Nat
         /\ cursor < regionEnd /\ regionEnd <= end /\ regionEnd <= mem.next[cursor]
         /\ regionEnd <= Top + 1
         /\ \A a \in Addrs : Occurrence(a) /\ a < regionEnd =>
              chunk <= a /\ (a + Length <= regionEnd \/ AllReadable)
<1> USE DEF IInv
<1>1. /\ cursor \in Addrs /\ cursor < end /\ cursor <= chunk
      /\ Scanned(cursor) /\ regionEnd = MinOf(end, mem.next[cursor])
      /\ SearchedTo(MinOf(chunk, regionEnd))
  BY DEF InRegion
<1>2. cursor \in Nat /\ regionEnd \in Nat /\ chunk \in Nat
  BY <1>1, InputFacts DEF ScanTypeOK, Addrs
<1>3. /\ cursor < regionEnd /\ regionEnd <= end /\ regionEnd <= mem.next[cursor]
      /\ regionEnd <= Top + 1
  BY <1>1, <1>2, InputFacts DEF MinOf
<1>4. ASSUME NEW a \in Addrs, Occurrence(a), a < regionEnd
      PROVE  chunk <= a /\ (a + Length <= regionEnd \/ AllReadable)
  <2>1. a \in Nat /\ a + Length <= end /\ (a + Length <= mem.next[a] \/ AllReadable)
    BY <1>4, CandidateFacts, InputFacts DEF Occurrence
  <2>2. ~(a < MinOf(chunk, regionEnd))
    BY <1>1, <1>4 DEF SearchedTo
  <2>3. chunk <= a
    BY <2>1, <2>2, <1>2, <1>4 DEF MinOf
  <2>4. a \in cursor..(mem.next[cursor] - 1)
    BY <2>1, <2>3, <1>1, <1>2, <1>3, <1>4, InputFacts
  <2>5. mem.next[a] = mem.next[cursor]
    BY <2>4, <1>1, InputFacts
  <2> QED
    BY <2>1, <2>3, <2>5, <1>1, <1>2, InputFacts DEF MinOf
<1> QED
  BY <1>2, <1>3, <1>4

LEMMA RegionDoneInv ==
  ASSUME IInv, RegionDone
  PROVE  IInv'
<1> USE DEF IInv
<1>0. /\ UNCHANGED <<inputVars, regionEnd, chunk, bufEnd, pos, match>>
      /\ at = "read" /\ at' = "query" /\ cursor' = regionEnd
      /\ chunk >= regionEnd \/ limit - chunk < Length
  BY DEF RegionDone
<1>1. /\ cursor \in Addrs /\ cursor \in Nat /\ regionEnd \in Nat /\ chunk \in Nat
      /\ cursor < regionEnd /\ regionEnd <= end /\ regionEnd <= Top + 1 /\ start <= cursor
  BY <1>0, RegionFacts DEF InRegion
<1>2. \A a \in Addrs : a < regionEnd => ~Occurrence(a)
  <2> SUFFICES ASSUME NEW a \in Addrs, a < regionEnd, Occurrence(a) PROVE FALSE
    OBVIOUS
  <2>1. chunk <= a /\ a + Length <= end /\ a \in Nat
    BY <1>0, RegionFacts, CandidateFacts DEF Occurrence
  <2>2. limit - chunk < Length
    BY <2>1, <1>0, <1>1
  <2>3. limit = end \/ limit = chunk + Chunk + Length - 1
    BY DEF limit, MinOf
  <2> QED
    BY <2>1, <2>2, <2>3, <1>1, InputFacts
<1>3. ScanTypeOK'
  BY <1>0, <1>1, InputFacts DEF ScanTypeOK, inputVars, Addrs
<1>4. Progress'
  <2>1. start' <= cursor' /\ SearchedTo(cursor)'
    BY <1>0, <1>1, <1>2, InputFacts, InputsStay DEF SearchedTo
  <2>2. match' = 0
    BY <1>0 DEF Started
  <2> QED
    BY <2>1, <2>2, <1>0 DEF Progress
<1>5. Started'
  BY <1>0, InputsStay DEF Started
<1> QED
  BY <1>0, <1>3, <1>4, <1>5 DEF InRegion, InWindow

(* What holds of the region goes on holding while it is read.                *)
LEMMA SameRegion ==
  ASSUME IInv, at \in {"read", "find"}, UNCHANGED <<inputVars, cursor, regionEnd>>,
         SearchedTo(MinOf(chunk', regionEnd)), cursor <= chunk'
  PROVE  InRegion'
<1>1. SearchedTo(MinOf(chunk, regionEnd))'
  <2>1. MinOf(chunk, regionEnd)' = MinOf(chunk', regionEnd)
    BY DEF MinOf
  <2> QED
    BY <2>1, InputsStay DEF SearchedTo
<1>2. regionEnd' = MinOf(end, mem.next[cursor])'
  <2>1. regionEnd = MinOf(end, mem.next[cursor])
    BY DEF IInv, InRegion
  <2> QED
    BY <2>1, InputsStay DEF MinOf
<1>3. Scanned(cursor)'
  BY DEF IInv, InRegion, Scanned, inputVars
<1> QED
  BY <1>1, <1>2, <1>3, InputsStay DEF IInv, InRegion

(* A region that is scanned can be read to its end.                          *)
LEMMA RegionReadable ==
  ASSUME IInv, at \in {"read", "find"}
  PROVE  CanRead(chunk, regionEnd)
<1>1. cursor \in Addrs /\ cursor <= chunk /\ Scanned(cursor)
  BY DEF IInv, InRegion
<1>2. ScanTypeOK
  BY DEF IInv
<1>3. ASSUME NEW x \in chunk..(regionEnd - 1)
      PROVE  x \in Addrs /\ mem.kind[x] # "gap"
  <2>1. x \in cursor..(mem.next[cursor] - 1)
    BY <1>1, <1>2, <1>3, RegionFacts, InputFacts
  <2>2. x \in Addrs /\ mem.kind[x] = mem.kind[cursor]
    BY <2>1, <1>1, <1>2, InputFacts
  <2>3. mem.kind[cursor] # "gap"
    BY <1>1 DEF Scanned
  <2> QED
    BY <2>2, <2>3
<1> QED
  BY <1>3 DEF CanRead

(* Both ways to read a window begin FindPattern's search at its start.       *)
LEMMA FindFromInv ==
  ASSUME IInv, at = "read", chunk < regionEnd,
         NEW b \in {limit, regionEnd}, b = limit \/ ~CanRead(chunk, limit),
         CanRead(chunk, b), b <= end, b - chunk >= Length,
         FindFrom(chunk, b)
  PROVE  IInv'
<1> USE DEF IInv
<1>0. /\ UNCHANGED <<inputVars, cursor, regionEnd, chunk, match>>
      /\ at' = "find" /\ pos' = chunk /\ bufEnd' = b
  BY DEF FindFrom
<1>1. chunk \in Nat /\ regionEnd \in Nat /\ cursor \in Nat
  BY RegionFacts
<1>2. b \in Int /\ chunk + Length <= b
  BY <1>1, InputFacts
<1>3. ScanTypeOK'
  BY <1>0, <1>1, <1>2, InputFacts DEF ScanTypeOK, inputVars
<1>4. InRegion'
  <2>1. SearchedTo(MinOf(chunk', regionEnd)) /\ cursor <= chunk'
    BY <1>0 DEF InRegion
  <2> QED
    BY <2>1, <1>0, SameRegion
<1>5. InWindow'
  <2>1. limit' = limit
    BY <1>0, InputsStay DEF limit, MinOf
  <2>2. CanRead(chunk, bufEnd)'
    BY <1>0 DEF CanRead, inputVars
  <2>3. chunk' + Length' <= bufEnd' /\ pos' + Length' <= bufEnd' /\ chunk' <= pos'
    BY <1>0, <1>1, <1>2, InputsStay
  <2>4. bufEnd' <= end' /\ chunk' < regionEnd'
    BY <2>1, <1>0, InputsStay
  <2>6. bufEnd' = limit' \/ (bufEnd' = regionEnd' /\ ~CanRead(chunk, limit)')
    BY <2>1, <1>0 DEF CanRead, inputVars
  <2>5. \A a \in chunk'..(pos' - 1) : ~Matches(a)'
    BY <1>0, <1>1
  <2> QED
    BY <2>2, <2>3, <2>4, <2>5, <2>6 DEF InWindow
<1>6. Started'
  BY <1>0, InputsStay DEF Started
<1>7. Progress'
  BY <1>0 DEF Progress, Started
<1> QED
  BY <1>3, <1>4, <1>5, <1>6, <1>7

LEMMA WindowReadInv ==
  ASSUME IInv, WindowRead
  PROVE  IInv'
<1>1. at = "read" /\ chunk < regionEnd /\ limit - chunk >= Length
  BY DEF WindowRead
<1>2. CanRead(chunk, limit) /\ FindFrom(chunk, limit)
  BY DEF WindowRead
<1>3. limit <= end
  BY InputFacts DEF IInv
<1> QED
  BY <1>1, <1>2, <1>3, FindFromInv

LEMMA OwnPartReadInv ==
  ASSUME IInv, OwnPartRead
  PROVE  IInv'
<1>1. /\ at = "read" /\ chunk < regionEnd /\ regionEnd - chunk >= Length
      /\ ~CanRead(chunk, limit) /\ FindFrom(chunk, regionEnd)
  BY DEF OwnPartRead
<1>2. regionEnd <= end
  BY <1>1, RegionFacts
<1>3. CanRead(chunk, regionEnd)
  BY <1>1, RegionReadable
<1> QED
  BY <1>1, <1>2, <1>3, FindFromInv

LEMMA NextWindowInv ==
  ASSUME IInv, at \in {"read", "find"}, chunk < regionEnd, NextWindow,
         \A a \in Addrs : a < MinOf(chunk + Chunk, regionEnd) => ~Occurrence(a)
  PROVE  IInv'
<1> USE DEF IInv
<1>0. /\ UNCHANGED <<inputVars, cursor, regionEnd, bufEnd, pos, match>>
      /\ at' = "read" /\ chunk' = chunk + Chunk
  BY DEF NextWindow
<1>1. chunk \in Nat /\ regionEnd \in Nat /\ cursor \in Nat /\ regionEnd <= Top + 1
  BY RegionFacts
<1>2. chunk' \in 0..(Top + Chunk)
  BY <1>0, <1>1, InputFacts
<1>3. ScanTypeOK'
  BY <1>0, <1>2 DEF ScanTypeOK, inputVars
<1>4. InRegion'
  <2>1. SearchedTo(MinOf(chunk', regionEnd))
    BY <1>0 DEF SearchedTo
  <2>2. cursor <= chunk
    BY DEF InRegion
  <2>3. cursor <= chunk'
    BY <2>2, <1>0, <1>1, InputFacts
  <2> QED
    BY <2>1, <2>3, <1>0, SameRegion
<1>5. Started' /\ Progress' /\ InWindow'
  BY <1>0, InputsStay DEF Started, Progress, InWindow
<1> QED
  BY <1>3, <1>4, <1>5

(* Where all of the range can be read every window can.                      *)
LEMMA ReadableWindow ==
  ASSUME IInv, at \in {"read", "find"}, AllReadable
  PROVE  CanRead(chunk, limit)
<1>1. start <= chunk /\ start \in Nat /\ chunk \in Nat /\ end \in Nat /\ limit \in Int /\ limit <= end
  BY RegionFacts, InputFacts DEF IInv, InRegion
<1>2. \A x \in chunk..(limit - 1) : x \in start..(end - 1)
  BY <1>1
<1> QED
  BY <1>2 DEF AllReadable, CanRead

LEMMA NothingReadInv ==
  ASSUME IInv, NothingRead
  PROVE  IInv'
<1> USE DEF IInv
<1>1. /\ at = "read" /\ chunk < regionEnd /\ ~CanRead(chunk, limit) /\ NextWindow
      /\ ~(limit > regionEnd /\ regionEnd - chunk >= Length)
  BY DEF NothingRead
<1>2. ASSUME NEW a \in Addrs, a < regionEnd, Occurrence(a) PROVE FALSE
  <2>1. chunk <= a /\ (a + Length <= regionEnd \/ AllReadable) /\ a \in Nat
    BY <1>1, <1>2, RegionFacts, InputFacts DEF Addrs
  <2>2. a + Length <= regionEnd /\ limit <= regionEnd
    BY <2>1, <1>1, ReadableWindow, RegionFacts, InputFacts
  <2>3. limit \in Int /\ regionEnd \in Nat /\ chunk \in Nat
    BY <1>1, RegionFacts, InputFacts
  <2>4. \A x \in chunk..(limit - 1) : x \in chunk..(regionEnd - 1)
    BY <2>2, <2>3
  <2>5. CanRead(chunk, limit)
    BY <2>4, <1>1, RegionReadable DEF CanRead
  <2> QED
    BY <2>5, <1>1
<1>3. \A a \in Addrs : a < MinOf(chunk + Chunk, regionEnd) => ~Occurrence(a)
  BY <1>1, <1>2, RegionFacts, InputFacts DEF MinOf, Addrs
<1> QED
  BY <1>1, <1>3, NextWindowInv

(* A place inside the window where the signature stands, with none before it *)
(* in the window, is what the scan may return.                               *)
LEMMA ReturnInv ==
  ASSUME IInv, at = "find", NEW p \in Int, pos <= p, p + Length <= bufEnd,
         Matches(p), \A a \in chunk..(p - 1) : ~Matches(a),
         Return(p), UNCHANGED <<inputVars, cursor, regionEnd, chunk, bufEnd, pos>>
  PROVE  IInv'
<1> USE DEF IInv
<1>0. at' = "done" /\ match' = p
  BY DEF Return
<1>1. /\ cursor \in Nat /\ regionEnd \in Nat /\ chunk \in Nat /\ start \in Nat
      /\ start <= cursor /\ cursor <= chunk /\ Length \in Nat /\ Length > 0
      /\ chunk < regionEnd /\ chunk <= pos /\ bufEnd <= end /\ CanRead(chunk, bufEnd)
      /\ bufEnd \in Nat /\ pos \in Nat /\ end \in Nat
  BY RegionFacts, InputFacts DEF InRegion, InWindow, Started, ScanTypeOK
<1>2. Candidate(p)
  <2>1. p \in start..(end - Length)
    BY <1>1
  <2>2. \A x \in p..(p + Length - 1) : x \in chunk..(bufEnd - 1)
    BY <1>1
  <2>3. CanRead(p, p + Length)
    BY <2>2, <1>1 DEF CanRead
  <2> QED
    BY <1>1, <2>1, <2>3 DEF Candidate
<1>3. SearchedTo(p)
  <2> SUFFICES ASSUME NEW a \in Addrs, a < p, Occurrence(a) PROVE FALSE
    BY DEF SearchedTo
  <2>1. a \in Nat
    BY InputFacts DEF Addrs
  <2>2. chunk <= a
    BY <2>1, <1>1, RegionFacts
  <2>3. a \in chunk..(p - 1)
    BY <2>1, <2>2, <1>1
  <2> QED
    BY <2>3 DEF Occurrence, Candidate
<1>4. p \in Addrs
  BY <1>2, CandidateFacts
<1>5. ScanTypeOK'
  BY <1>0, <1>4 DEF ScanTypeOK, inputVars
<1>6. Candidate(match)' /\ SearchedTo(match)'
  <2>1. Candidate(match)'
    BY <1>0, <1>2 DEF Candidate, CanRead, Matches, Length, end, inputVars
  <2>2. SearchedTo(match)'
    BY <1>0, <1>3, InputsStay DEF SearchedTo
  <2> QED
    BY <2>1, <2>2
<1>7. match' # 0
  BY <1>0, <1>4, InputFacts DEF Addrs
<1> QED
  BY <1>0, <1>5, <1>6, <1>7 DEF Started, InRegion, InWindow, Progress

(* A signature without an anchor is one of wildcards only.                   *)
LEMMA NoAnchor ==
  ASSUME ScanTypeOK, \A i \in 1..Length : ~IsAnchor(i)
  PROVE  \A i \in 1..Length : pattern[i] = Any
<1> DEFINE T == {i \in 1..Length : pattern[i] # Any}
<1> DEFINE R == OpToRel(<, Nat)
<1>1. SUFFICES ASSUME T # {} PROVE FALSE
  OBVIOUS
<1>2. Length \in Nat /\ T \subseteq Nat
  BY InputFacts
<1>3. IsWellFoundedOn(R, Nat)
  BY NatLessThanWellFounded
<1>4. PICK i \in T : \A j \in T : <<j, i>> \notin R
  <2> HIDE DEF R, T
  <2> QED
    BY <1>1, <1>2, <1>3, WFMin
<1>5. \A j \in T : ~(j < i)
  <2>1. \A j \in T : j < i => <<j, i>> \in R
    BY <1>2 DEF OpToRel
  <2> QED
    BY <2>1, <1>4
<1>6. \A j \in 1..(i - 1) : pattern[j] = Any
  <2> SUFFICES ASSUME NEW j \in 1..(i - 1), pattern[j] # Any PROVE FALSE
    OBVIOUS
  <2>1. j \in T /\ j < i
    BY <1>2
  <2> QED
    BY <2>1, <1>5
<1>7. IsAnchor(i)
  BY <1>6 DEF IsAnchor
<1> QED
  BY <1>7

LEMMA FindAnyInv ==
  ASSUME IInv, FindAny
  PROVE  IInv'
<1> USE DEF IInv
<1>1. /\ at = "find" /\ \A i \in 1..Length : ~IsAnchor(i)
      /\ Return(pos) /\ UNCHANGED <<inputVars, cursor, regionEnd, chunk, bufEnd, pos>>
  BY DEF FindAny
<1>2. Matches(pos)
  BY <1>1, NoAnchor DEF Matches
<1>3. pos + Length <= bufEnd /\ pos <= pos /\ pos \in Int
  BY <1>1 DEF InWindow, ScanTypeOK
<1>4. \A a \in chunk..(pos - 1) : ~Matches(a)
  BY <1>1 DEF InWindow
<1> QED
  BY <1>1, <1>2, <1>3, <1>4, ReturnInv

(* Where the anchor's byte does not stand the signature does not.            *)
LEMMA AnchorAbsent ==
  ASSUME NEW i \in 1..Length, IsAnchor(i), NEW a, byte[a + i - 1] # pattern[i]
  PROVE  ~Matches(a)
BY DEF IsAnchor, Matches

LEMMA FindHitInv ==
  ASSUME IInv, FindHit
  PROVE  IInv'
<1> USE DEF IInv
<1>0. at = "find" /\ UNCHANGED <<inputVars, cursor, regionEnd, chunk, bufEnd>>
  BY DEF FindHit
<1>1. PICK i \in 1..Length, p \in pos..(bufEnd - Length) :
         /\ IsAnchor(i)
         /\ \A q \in pos..(p - 1) : byte[q + i - 1] # pattern[i]
         /\ IF Matches(p)
            THEN Return(p) /\ UNCHANGED pos
            ELSE pos' = p + 1 /\ UNCHANGED <<at, match>>
  BY DEF FindHit
<1>2. /\ pos \in Nat /\ bufEnd \in Nat /\ chunk \in Nat /\ Length \in Nat
      /\ p \in Int /\ pos <= p /\ p + Length <= bufEnd
  BY <1>0, <1>1, RegionFacts, InputFacts DEF ScanTypeOK
<1>3. \A a \in chunk..(p - 1) : ~Matches(a)
  <2>1. \A a \in pos..(p - 1) : ~Matches(a)
    BY <1>1, AnchorAbsent
  <2>2. \A a \in chunk..(pos - 1) : ~Matches(a)
    BY <1>0 DEF InWindow
  <2> QED
    BY <2>1, <2>2, <1>2
<1>4. CASE Matches(p)
  BY <1>0, <1>1, <1>2, <1>3, <1>4, ReturnInv
<1>5. CASE ~Matches(p)
  <2>1. pos' = p + 1 /\ UNCHANGED <<at, match>>
    BY <1>1, <1>5
  <2>2. ScanTypeOK'
    BY <2>1, <1>0, <1>2 DEF ScanTypeOK, inputVars
  <2>3. InRegion'
    <3>1. SearchedTo(MinOf(chunk', regionEnd)) /\ cursor <= chunk'
      BY <1>0 DEF InRegion
    <3> QED
      BY <3>1, <1>0, SameRegion
  <2>4. InWindow'
    <3>1. limit' = limit
      BY <1>0, InputsStay DEF limit, MinOf
    <3>2. CanRead(chunk, bufEnd)'
      BY <1>0 DEF CanRead, inputVars, InWindow
    <3>3. \E j \in 1..Length' : IsAnchor(j)'
      BY <1>0, <1>1, InputsStay
    <3>4. \A a \in chunk'..(pos' - 1) : ~Matches(a)'
      <4>1. \A a \in chunk..p : ~Matches(a)
        BY <1>2, <1>3, <1>5
      <4>2. \A a \in chunk..p : ~Matches(a)'
        BY <4>1, <1>0, InputsStay
      <4> QED
        BY <4>2, <2>1, <1>0, <1>2
    <3>5. /\ chunk' < regionEnd' /\ bufEnd' <= end'
          /\ chunk' + Length' <= bufEnd' /\ chunk' <= pos'
      BY <2>1, <1>0, <1>2, InputsStay DEF InWindow
    <3>6. bufEnd' = limit' \/ (bufEnd' = regionEnd' /\ ~CanRead(chunk, limit)')
      BY <3>1, <1>0 DEF InWindow, CanRead, inputVars
    <3> QED
      BY <3>2, <3>3, <3>4, <3>5, <3>6 DEF InWindow
  <2>5. Started' /\ Progress'
    BY <2>1, <1>0, InputsStay DEF Started, Progress
  <2> QED
    BY <2>2, <2>3, <2>4, <2>5
<1> QED
  BY <1>4, <1>5

LEMMA FindNothingInv ==
  ASSUME IInv, FindNothing
  PROVE  IInv'
<1> USE DEF IInv
<1>0. at = "find" /\ NextWindow
  BY DEF FindNothing
<1>1. /\ pos \in Nat /\ bufEnd \in Nat /\ chunk \in Nat /\ regionEnd \in Nat
      /\ Length \in Nat /\ chunk < regionEnd
      /\ bufEnd = limit \/ (bufEnd = regionEnd /\ ~AllReadable)
  BY <1>0, RegionFacts, ReadableWindow, InputFacts DEF ScanTypeOK, InWindow
<1>2. \A a \in chunk..(bufEnd - Length) : ~Matches(a)
  <2>1. PICK i \in 1..Length :
           /\ IsAnchor(i)
           /\ \A p \in pos..(bufEnd - Length) : byte[p + i - 1] # pattern[i]
    BY DEF FindNothing
  <2>2. \A a \in pos..(bufEnd - Length) : ~Matches(a)
    BY <2>1, AnchorAbsent
  <2>3. \A a \in chunk..(pos - 1) : ~Matches(a)
    BY <1>0 DEF InWindow
  <2> QED
    BY <2>2, <2>3, <1>1
<1>3. ASSUME NEW a \in Addrs, a < MinOf(chunk + Chunk, regionEnd), Occurrence(a)
      PROVE  FALSE
  <2>1. a \in Nat /\ a < regionEnd /\ a < chunk + Chunk
    BY <1>1, <1>3, InputFacts DEF Addrs, MinOf
  <2>2. chunk <= a /\ a + Length <= end /\ (a + Length <= regionEnd \/ AllReadable)
    BY <2>1, <1>0, <1>3, RegionFacts, CandidateFacts DEF Occurrence
  <2>3. limit = end \/ limit = chunk + Chunk + Length - 1
    BY DEF limit, MinOf
  <2>4. a + Length <= bufEnd
    BY <2>1, <2>2, <2>3, <1>1, InputFacts
  <2>5. a \in chunk..(bufEnd - Length)
    BY <2>1, <2>2, <2>4, <1>1
  <2> QED
    BY <2>5, <1>2, <1>3 DEF Occurrence, Candidate
<1>4. \A a \in Addrs : a < MinOf(chunk + Chunk, regionEnd) => ~Occurrence(a)
  BY <1>3
<1> QED
  BY <1>0, <1>1, <1>4, NextWindowInv

LEMMA NextInv == IInv /\ [ScanNext]_scanVars => IInv'
<1> SUFFICES ASSUME IInv, [ScanNext]_scanVars PROVE IInv'
  OBVIOUS
<1>1. CASE UNCHANGED scanVars
  <2>1. UNCHANGED inputVars
    BY <1>1 DEF scanVars
  <2>2. /\ cursor' = cursor /\ regionEnd' = regionEnd /\ chunk' = chunk /\ bufEnd' = bufEnd
        /\ pos' = pos /\ at' = at /\ match' = match
    BY <1>1 DEF scanVars
  <2> QED
    BY <2>1, <2>2, InputsStay DEF IInv, ScanTypeOK, Started, InRegion, InWindow, Progress,
      SearchedTo, MinOf, limit, CanRead, inputVars
<1>2. CASE ScanNext
  <2>1. CASE ScanDone
    BY <1>1, <2>1 DEF ScanDone
  <2> QED
    BY <1>2, <2>1, BeginInv, QueryPastInv, QueryRegionInv, RegionDoneInv, WindowReadInv,
      OwnPartReadInv, NothingReadInv, FindAnyInv, FindHitInv, FindNothingInv DEF ScanNext
<1> QED
  BY <1>1, <1>2

LEMMA Inductive == ScanSpec => []IInv
BY InitInv, NextInv, PTL DEF ScanSpec

-----------------------------------------------------------------------------
(* Every variable of the scan keeps its type; in particular the cursor never *)
(* leaves the address space.                                                 *)
THEOREM ScanTypeCorrect == ScanSpec => []ScanTypeOK
<1>1. IInv => ScanTypeOK
  BY DEF IInv
<1> QED
  BY <1>1, Inductive, PTL

(* FindPattern's result is an occurrence of the whole signature inside the   *)
(* range asked for, every byte of which could be read.                       *)
THEOREM FoundStands == ScanSpec => []FoundIsThere
<1>1. IInv => FoundIsThere
  BY DEF IInv, Progress, FoundIsThere
<1> QED
  BY <1>1, Inductive, PTL

LEMMA AllSearched ==
  ASSUME IInv, at = "done", NEW a \in Addrs, Occurrence(a)
  PROVE  match # 0 /\ match <= a
<1> USE DEF IInv
<1>1. a \in Nat /\ a < Top + 1 /\ match \in Nat
  BY InputFacts DEF Addrs, ScanTypeOK
<1>2. match # 0
  BY <1>1 DEF Progress, SearchedTo
<1>3. SearchedTo(match)
  BY <1>2 DEF Progress
<1> QED
  BY <1>1, <1>2, <1>3 DEF SearchedTo

(* Windows, their overlap, the shorter read before an unreadable region and  *)
(* memchr's jumps pass over no occurrence that lies in one region.           *)
THEOREM NothingOverlooked == ScanSpec => []RegionsAreSearched
<1>1. IInv => RegionsAreSearched
  BY AllSearched DEF RegionsAreSearched, Occurrence
<1> QED
  BY <1>1, Inductive, PTL

(* Both together: what a scan returns is there, and in a region it is to     *)
(* scan it is the first.                                                     *)
THEOREM ScanExact == ScanSpec => []ScanIsExact
BY FoundStands, NothingOverlooked, PTL DEF ScanIsExact

(* In a range that can be read throughout the first occurrence is returned,  *)
(* also where it crosses the border of two regions or of two windows.        *)
THEOREM FirstIsFound == ScanSpec => []ReadableIsSearched
<1>1. IInv => ReadableIsSearched
  <2> SUFFICES ASSUME IInv, at = "done", ~execOnly, CanRead(start, end),
                      NEW a \in Addrs, Candidate(a)
               PROVE  match # 0 /\ match <= a
    BY DEF ReadableIsSearched
  <2>1. start <= a /\ a < end /\ a \in Nat /\ start \in Nat /\ end \in Nat
    BY CandidateFacts, InputFacts DEF IInv
  <2>2. mem.kind[a] # "gap"
    BY <2>1 DEF CanRead
  <2>3. mem.kind[a] \in Kinds
    BY ScanAssumption DEF IInv, ScanTypeOK, ScanAssumption, IsLayout
  <2>4. Occurrence(a)
    BY <2>2, <2>3 DEF Occurrence, Scanned, Kinds, AllReadable
  <2> QED
    BY <2>4, AllSearched
<1> QED
  BY <1>1, Inductive, PTL

-----------------------------------------------------------------------------
(* The scan ends: how far it has come, in the order of regions, windows of   *)
(* a region, steps of a window and jumps inside it.                          *)
Window == IF at \in {"begin", "query"} THEN cursor ELSE chunk

Stage ==
  CASE at = "begin" -> 0
    [] at = "query" -> 1
    [] at = "read"  -> 2
    [] at = "find"  -> 3
    [] at = "done"  -> 4

Advances ==
  /\ at # "done"
  /\ \/ at' = "done"
     \/ cursor < cursor'
     \/ cursor' = cursor /\ Window < Window'
     \/ cursor' = cursor /\ Window' = Window /\ Stage < Stage'
     \/ cursor' = cursor /\ Window' = Window /\ Stage' = Stage /\ pos < pos' /\ pos' <= end'

LEMMA NextWindowAdvances ==
  ASSUME ScanTypeOK, at \in {"read", "find"}, NextWindow
  PROVE  Advances
<1>1. chunk \in Nat /\ Chunk \in Nat /\ Chunk > 0
  BY InputFacts DEF ScanTypeOK
<1>2. Window = chunk /\ Window' = chunk + Chunk /\ cursor' = cursor
  BY DEF NextWindow, Window
<1> QED
  BY <1>1, <1>2 DEF Advances

LEMMA StepAdvances ==
  ASSUME IInv, ScanNext
  PROVE  Advances \/ UNCHANGED scanVars
<1> USE DEF IInv
<1>0. cursor \in Nat /\ chunk \in Nat /\ pos \in Nat /\ Length \in Nat /\ end \in Nat
  BY InputFacts DEF ScanTypeOK
<1>1. CASE Begin
  <2>1. CASE at' = "done"
    BY <1>1, <2>1 DEF Begin, Advances
  <2>2. CASE at' # "done"
    <3>1. at = "begin" /\ at' = "query" /\ cursor' = cursor
      BY <1>1, <2>2 DEF Begin, Return
    <3>2. Window' = Window /\ Stage = 0 /\ Stage' = 1
      BY <3>1 DEF Window, Stage
    <3> QED
      BY <3>1, <3>2 DEF Advances
  <2> QED
    BY <2>1, <2>2
<1>2. CASE QueryPast
  BY <1>2 DEF QueryPast, Return, Advances
<1>3. CASE QueryRegion
  <2>1. at = "query" /\ cursor \in Addrs /\ cursor < end
    BY <1>0, <1>3, InputFacts DEF QueryRegion, Addrs, ScanTypeOK
  <2>2. CASE Scanned(cursor)
    <3>1. at' = "read" /\ chunk' = cursor /\ cursor' = cursor
      BY <1>3, <2>2 DEF QueryRegion
    <3>2. Window' = Window /\ Stage = 1 /\ Stage' = 2
      BY <2>1, <3>1 DEF Window, Stage
    <3> QED
      BY <2>1, <3>1, <3>2 DEF Advances
  <2>3. CASE ~Scanned(cursor)
    <3>1. cursor' = MinOf(end, mem.next[cursor])
      BY <1>3, <2>3 DEF QueryRegion
    <3>2. cursor < cursor'
      BY <1>0, <2>1, <3>1, InputFacts DEF MinOf
    <3> QED
      BY <2>1, <3>2 DEF Advances
  <2> QED
    BY <2>2, <2>3
<1>4. CASE RegionDone
  <2>1. at = "read" /\ cursor' = regionEnd
    BY <1>4 DEF RegionDone
  <2>2. cursor < regionEnd
    BY <2>1, RegionFacts
  <2> QED
    BY <2>1, <2>2 DEF Advances
<1>5. ASSUME at = "read", NEW a, NEW b, FindFrom(a, b) PROVE Advances
  <2>1. at' = "find" /\ cursor' = cursor /\ chunk' = chunk
    BY <1>5 DEF FindFrom
  <2>2. Window' = Window /\ Stage = 2 /\ Stage' = 3
    BY <1>5, <2>1 DEF Window, Stage
  <2> QED
    BY <1>5, <2>1, <2>2 DEF Advances
<1>6. CASE WindowRead \/ OwnPartRead
  BY <1>5, <1>6 DEF WindowRead, OwnPartRead
<1>7. CASE NothingRead \/ FindNothing
  BY <1>7, NextWindowAdvances DEF NothingRead, FindNothing
<1>8. CASE FindAny
  BY <1>8 DEF FindAny, Return, Advances
<1>9. CASE FindHit
  <2>1. CASE at' = "done"
    BY <1>9, <2>1 DEF FindHit, Advances
  <2>2. CASE at' # "done"
    <3>1. at = "find" /\ UNCHANGED <<inputVars, cursor, regionEnd, chunk, bufEnd>>
      BY <1>9 DEF FindHit
    <3>2. PICK p \in pos..(bufEnd - Length) : pos' = p + 1 /\ at' = at
      BY <1>9, <2>2 DEF FindHit, Return
    <3>3. Window' = Window /\ Stage' = Stage
      BY <3>1, <3>2 DEF Window, Stage
    <3>4. Length > 0 /\ bufEnd <= end /\ bufEnd \in Nat
      BY <3>1 DEF Started, InWindow, ScanTypeOK
    <3>5. pos < pos' /\ pos' <= end
      BY <1>0, <3>2, <3>4
    <3>6. end' = end
      BY <3>1, InputsStay
    <3> QED
      BY <3>1, <3>3, <3>5, <3>6 DEF Advances
  <2> QED
    BY <2>1, <2>2
<1>10. CASE ScanDone
  BY <1>10 DEF ScanDone
<1> QED
  BY <1>1, <1>2, <1>3, <1>4, <1>6, <1>7, <1>8, <1>9, <1>10 DEF ScanNext

(* Every step of a scan brings it forward: to the next region, else to the   *)
(* next window, else to the search in it, else to a later place, which is    *)
(* inside the range; and no number of these exceeds what ScanTypeCorrect     *)
(* bounds it by.  So none of the three nested loops turns for ever, whatever *)
(* the memory, its regions and the size of the windows                       *)
(* (MemoryAccess.cpp:226, 263, 279).                                         *)
THEOREM ScanIsBounded ==
  ScanSpec => [](Window \in 0..(Top + Chunk)) /\ [][Advances]_scanVars
<1>1. IInv => Window \in 0..(Top + Chunk)
  BY InputFacts DEF IInv, ScanTypeOK, Window
<1>2. IInv /\ [ScanNext]_scanVars => [Advances]_scanVars
  BY StepAdvances
<1> QED
  BY Inductive, <1>1, <1>2, PTL DEF ScanSpec

-----------------------------------------------------------------------------
(* The four parts of the memory side by side; three of them rest.            *)
MemoryTypes ==
  /\ MCTypeOK
  /\ part = "scan" => IInv
  /\ part = "alloc" => Below
  /\ PageInv

LEMMA IdleTypes ==
  /\ ScanIdle => ScanTypeOK
  /\ AllocIdle => AllocTypeOK
  /\ ValueIdle => ValueTypeOK
<1>1. ASSUME ScanIdle PROVE ScanTypeOK
  <2>1. mem \in Layouts
    BY <1>1, RestAssumption DEF ScanIdle, RestAssumption
  <2>2. byte \in [Addrs -> Bytes]
    BY <1>1, RestAssumption DEF ScanIdle, RestAssumption
  <2>3. <<start, size>> \in Ranges /\ pattern \in Patterns
    BY <1>1, RestAssumption DEF ScanIdle, RestAssumption
  <2>4. cursor \in 1..(Top + 1) /\ regionEnd \in 0..(Top + 1) /\ chunk \in 0..(Top + Chunk)
    BY <1>1, ScanAssumption DEF ScanIdle, ScanAssumption
  <2> QED
    BY <1>1, <2>1, <2>2, <2>3, <2>4 DEF ScanIdle, ScanTypeOK
<1>2. ASSUME AllocIdle PROVE AllocTypeOK
  <2>1. Memory \in Nat /\ 6 \in 0..(Memory - 1)
    BY RestAssumption, AllocAssumption DEF RestAssumption, AllocAssumption
  <2> QED
    BY <1>2, <2>1, RestAssumption DEF AllocIdle, AllocTypeOK, RestAssumption
<1>3. ASSUME ValueIdle PROVE ValueTypeOK
  <2>1. (CHOOSE p \in GamePids : TRUE) \in GamePids
    BY RestAssumption DEF RestAssumption
  <2>2. gamePid \in [Instances -> GamePids \cup {None}]
    BY <1>3, <2>1 DEF ValueIdle
  <2>3. MaxStarts \in Nat /\ MaxMoves \in Nat /\ Derefs \in Nat
    BY ValueAssumption DEF ValueAssumption
  <2>4. link \in [Places -> Objects \cup {Broken}] /\ moduleAt \in [Instances -> Bases \cup {None}]
    BY <1>3 DEF ValueIdle
  <2>5. /\ started \in 0..MaxStarts /\ moves \in 0..MaxMoves /\ handle \in 0..started
        /\ opened \in 0..started /\ left \in 0..(Derefs + 1) /\ current \in Places
    BY <1>3, <2>3 DEF ValueIdle, Places, None
  <2>6. /\ alive \in {None, started} /\ held \subseteq Places /\ knownPid \in GamePids \cup {None}
        /\ {stopped, freeze, active} \subseteq BOOLEAN
        /\ basePid \in GamePids \cup {None} /\ modBase \in Bases \cup {None}
        /\ doing = "nothing" /\ opened = None
    BY <1>3 DEF ValueIdle
  <2> QED
    BY <2>2, <2>4, <2>5, <2>6 DEF ValueTypeOK
<1> QED
  BY <1>1, <1>2, <1>3

(* Every variable of the game's memory and of the calls that search it and   *)
(* write to it keeps its type.                                               *)
THEOREM MemoryTypeCorrect == MCSpec => []MCTypeOK
<1>1. MCInit => MemoryTypes
  <2> SUFFICES ASSUME MCInit PROVE MemoryTypes
    OBVIOUS
  <2>1. PageInv /\ PageTypeOK
    BY PageInvInit DEF MCInit, PageIdle, PageInv
  <2>2. ScanTypeOK /\ (part = "scan" => IInv)
    BY IdleTypes, InitInv DEF MCInit, IInv
  <2>3. AllocTypeOK /\ (part = "alloc" => Below)
    BY IdleTypes, AllocTypeInit DEF MCInit
  <2>4. ValueTypeOK
    BY IdleTypes, ValueTypeInit DEF MCInit
  <2>5. SiteTypeOK
    BY SiteInitType DEF MCInit, SiteIdle
  <2> QED
    BY <2>1, <2>2, <2>3, <2>4, <2>5 DEF MemoryTypes, MCTypeOK
<1>2. MemoryTypes /\ [MCNext]_MCVars => MemoryTypes'
  <2> SUFFICES ASSUME MemoryTypes, [MCNext]_MCVars PROVE MemoryTypes'
    OBVIOUS
  <2>1. /\ [ScanNext]_scanVars /\ [AllocNext]_allocVars /\ [ValueNext]_valueVars
        /\ [PageNext]_pageVars /\ [SiteNext]_siteVars
        /\ part' = part
        /\ part # "scan" => UNCHANGED scanVars
        /\ part # "alloc" => UNCHANGED allocVars
    BY DEF MCNext, Rest, MCVars
  <2>2. ScanTypeOK' /\ (part' = "scan" => IInv')
    <3>1. CASE part = "scan"
      BY <2>1, <3>1, NextInv DEF MemoryTypes, IInv
    <3>2. CASE part # "scan"
      BY <2>1, <3>2 DEF MemoryTypes, MCTypeOK, ScanTypeOK, scanVars, inputVars
    <3> QED
      BY <3>1, <3>2
  <2>3. AllocTypeOK' /\ (part' = "alloc" => Below')
    <3>1. CASE part = "alloc"
      BY <2>1, <3>1, AllocTypeStep DEF MemoryTypes, MCTypeOK
    <3>2. CASE part # "alloc"
      BY <2>1, <3>2 DEF MemoryTypes, MCTypeOK, AllocTypeOK, allocVars
    <3> QED
      BY <3>1, <3>2
  <2>4. ValueTypeOK'
    BY <2>1, ValueTypeStep DEF MemoryTypes, MCTypeOK
  <2>5. PageInv' /\ PageTypeOK'
    BY <2>1, PageInvStep DEF MemoryTypes, PageInv
  <2>6. SiteTypeOK'
    BY <2>1, SiteNextType DEF MemoryTypes, MCTypeOK
  <2> QED
    BY <2>2, <2>3, <2>4, <2>5, <2>6 DEF MemoryTypes, MCTypeOK
<1>3. MemoryTypes => MCTypeOK
  BY DEF MemoryTypes
<1> QED
  BY <1>1, <1>2, <1>3, PTL DEF MCSpec
=============================================================================
