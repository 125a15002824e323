--------------------------- MODULE ScanSignature ---------------------------
(***************************************************************************)
(* MemoryAccess::ScanSignature (core/MemoryAccess.cpp): the search for a    *)
(* signature with wildcards in a range of the game's memory, region by      *)
(* region, in windows that overlap, and FindPattern inside a window.  The   *)
(* memory holds still while it is scanned.  Address 0 means "not found".    *)
(***************************************************************************)
EXTENDS Integers, Sequences

CONSTANTS
  Top,       \* bound: the addresses are 1..Top, nothing is mapped above
  Bytes,
  Any,       \* the wildcard of a signature
  Chunk,     \* SCAN_CHUNK
  Layouts,   \* how the memory may be divided into regions
  Patterns,  \* the signatures to look for
  Ranges     \* the ranges to look in: <<start, size>>

Addrs == 1..Top

(* "code" can be read and executed, "data" only read, "gap" neither.         *)
Kinds == {"code", "data", "gap"}

(* What VirtualQueryEx tells of an address: the kind of its region and the   *)
(* first address after it.                                                   *)
IsLayout(m) ==
  /\ m \in [kind: [Addrs -> Kinds], next: [Addrs -> 2..(Top + 1)]]
  /\ \A a \in Addrs :
       /\ m.next[a] > a
       /\ \A b \in a..(m.next[a] - 1) :
            m.kind[b] = m.kind[a] /\ m.next[b] = m.next[a]

ASSUME ScanAssumption ==
  /\ Top \in Nat
  /\ Any \notin Bytes
  /\ Chunk \in Nat \ {0}
  /\ \A m \in Layouts : IsLayout(m)
  /\ Patterns \subseteq Seq(Bytes \cup {Any})
  /\ Ranges \subseteq Addrs \X Nat

VARIABLES
  mem,        \* the regions
  byte,       \* byte[a]: what address a holds
  start,      \* the arguments of the call
  size,
  pattern,
  execOnly,   \* executableOnly
  cursor,     \* the locals: where the next region is queried
  regionEnd,
  chunk,      \* where the window begins
  bufEnd,     \* where the bytes read for the window end
  pos,        \* FindPattern's position, as an address
  at,         \* the next step: "begin", "query", "read", "find", "done"
  match       \* the address returned

inputVars == <<mem, byte, start, size, pattern, execOnly>>
scanVars == <<inputVars, cursor, regionEnd, chunk, bufEnd, pos, at, match>>

Length == Len(pattern)
end == start + size

ScanTypeOK ==
  /\ mem \in Layouts
  /\ byte \in [Addrs -> Bytes]
  /\ <<start, size>> \in Ranges
  /\ pattern \in Patterns
  /\ execOnly \in BOOLEAN
  /\ cursor \in 1..(Top + 1)
  /\ regionEnd \in 0..(Top + 1)
  /\ chunk \in 0..(Top + Chunk)
  /\ bufEnd \in Nat
  /\ pos \in Nat
  /\ at \in {"begin", "query", "read", "find", "done"}
  /\ match \in Addrs \cup {0}

ScanInit ==
  /\ mem \in Layouts
  /\ byte \in [Addrs -> Bytes]
  /\ \E r \in Ranges : start = r[1] /\ size = r[2]
  /\ pattern \in Patterns
  /\ execOnly \in BOOLEAN
  /\ cursor = start
  /\ regionEnd = 0
  /\ chunk = 0
  /\ bufEnd = 0
  /\ pos = 0
  /\ at = "begin"
  /\ match = 0

-----------------------------------------------------------------------------
(* What the steps look at.                                                   *)

Matches(a) == \A i \in 1..Length : pattern[i] \in {Any, byte[a + i - 1]}

(* The first byte of the signature that is no wildcard, which FindPattern    *)
(* looks for with memchr.                                                    *)
IsAnchor(i) ==
  /\ i \in 1..Length
  /\ pattern[i] # Any
  /\ \A j \in 1..(i - 1) : pattern[j] = Any

(* IsReadable, IsExecutable.                                                 *)
Scanned(a) == mem.kind[a] \in (IF execOnly THEN {"code"} ELSE {"code", "data"})

(* ReadProcessMemory gives all the bytes from a to b or fails.               *)
CanRead(a, b) == \A x \in a..(b - 1) : x \in Addrs /\ mem.kind[x] # "gap"

MinOf(a, b) == IF a <= b THEN a ELSE b

(* The end of the window, which may lie beyond the region.                   *)
limit == MinOf(end, chunk + Chunk + Length - 1)

Return(a) ==
  /\ match' = a
  /\ at' = "done"

-----------------------------------------------------------------------------
Begin ==
  /\ at = "begin"
  /\ IF Length = 0 \/ size < Length
     THEN Return(0)
     ELSE at' = "query" /\ UNCHANGED match
  /\ UNCHANGED <<inputVars, cursor, regionEnd, chunk, bufEnd, pos>>

(* The end of the range, or of the address space.                            *)
QueryPast ==
  /\ at = "query"
  /\ cursor >= end \/ cursor > Top
  /\ Return(0)
  /\ UNCHANGED <<inputVars, cursor, regionEnd, chunk, bufEnd, pos>>

QueryRegion ==
  /\ at = "query"
  /\ cursor < end /\ cursor <= Top
  /\ regionEnd' = MinOf(end, mem.next[cursor])
  /\ IF Scanned(cursor)
     THEN at' = "read" /\ chunk' = cursor /\ UNCHANGED cursor
     ELSE cursor' = regionEnd' /\ UNCHANGED <<at, chunk>>
  /\ UNCHANGED <<inputVars, bufEnd, pos, match>>

(* MUTANT of RegionDone: the next region is looked for where the last window *)
(* ended.                                                                    *)
RegionDone_AtWindow ==
  /\ at = "read"
  /\ chunk >= regionEnd \/ limit - chunk < Length
  /\ at' = "query"
  /\ cursor' = chunk
  /\ UNCHANGED <<inputVars, regionEnd, chunk, bufEnd, pos, match>>

(* The loop over the windows of a region ends, or is left because too little *)
(* remains of the range.                                                     *)
RegionDone ==
  /\ at = "read"
  /\ chunk >= regionEnd \/ limit - chunk < Length
  /\ at' = "query"
  /\ cursor' = regionEnd
  /\ UNCHANGED <<inputVars, regionEnd, chunk, bufEnd, pos, match>>

FindFrom(a, b) ==
  /\ at' = "find"
  /\ pos' = a
  /\ bufEnd' = b
  /\ UNCHANGED <<inputVars, cursor, regionEnd, chunk, match>>

(* MUTANT of WindowRead: the window does not reach beyond its chunk.         *)
WindowRead_NoOverlap ==
  /\ at = "read"
  /\ chunk < regionEnd /\ limit - chunk >= Length
  /\ CanRead(chunk, MinOf(end, chunk + Chunk))
  /\ FindFrom(chunk, MinOf(end, chunk + Chunk))

WindowRead ==
  /\ at = "read"
  /\ chunk < regionEnd /\ limit - chunk >= Length
  /\ CanRead(chunk, limit)
  /\ FindFrom(chunk, limit)

(* What follows the region cannot be read: only its own bytes are.           *)
OwnPartRead ==
  /\ at = "read"
  /\ chunk < regionEnd /\ limit - chunk >= Length
  /\ ~CanRead(chunk, limit)
  /\ limit > regionEnd /\ regionEnd - chunk >= Length
  /\ FindFrom(chunk, regionEnd)

NextWindow ==
  /\ at' = "read"
  /\ chunk' = chunk + Chunk
  /\ UNCHANGED <<inputVars, cursor, regionEnd, bufEnd, pos, match>>

NothingRead ==
  /\ at = "read"
  /\ chunk < regionEnd /\ limit - chunk >= Length
  /\ ~CanRead(chunk, limit)
  /\ ~(limit > regionEnd /\ regionEnd - chunk >= Length)
  /\ NextWindow

(* FindPattern of wildcards only.                                            *)
FindAny ==
  /\ at = "find"
  /\ ~ \E i \in 1..Length : IsAnchor(i)
  /\ Return(pos)
  /\ UNCHANGED <<inputVars, cursor, regionEnd, chunk, bufEnd, pos>>

(* MUTANT of FindHit: the search goes on behind the bytes compared.          *)
FindHit_SkipsCompared ==
  /\ at = "find"
  /\ \E i \in 1..Length : \E p \in pos..(bufEnd - Length) :
         /\ IsAnchor(i)
         /\ byte[p + i - 1] = pattern[i]
         /\ \A q \in pos..(p - 1) : byte[q + i - 1] # pattern[i]
         /\ IF Matches(p)
            THEN Return(p) /\ UNCHANGED pos
            ELSE pos' = p + i + 1 /\ UNCHANGED <<at, match>>
  /\ UNCHANGED <<inputVars, cursor, regionEnd, chunk, bufEnd>>

(* FindPattern, one turn of its loop: memchr finds the anchor.               *)
FindHit ==
  /\ at = "find"
  /\ \E i \in 1..Length : \E p \in pos..(bufEnd - Length) :
         /\ IsAnchor(i)
         /\ byte[p + i - 1] = pattern[i]
         /\ \A q \in pos..(p - 1) : byte[q + i - 1] # pattern[i]
         /\ IF Matches(p)
            THEN Return(p) /\ UNCHANGED pos
            ELSE pos' = p + 1 /\ UNCHANGED <<at, match>>
  /\ UNCHANGED <<inputVars, cursor, regionEnd, chunk, bufEnd>>

(* FindPattern returns SIZE_MAX.                                             *)
FindNothing ==
  /\ at = "find"
  /\ \E i \in 1..Length :
       /\ IsAnchor(i)
       /\ \A p \in pos..(bufEnd - Length) : byte[p + i - 1] # pattern[i]
  /\ NextWindow

ScanDone ==
  /\ at = "done"
  /\ UNCHANGED scanVars

ScanNext ==
  \/ Begin
  \/ QueryPast
  \/ QueryRegion
  \/ RegionDone
  \/ WindowRead
  \/ OwnPartRead
  \/ NothingRead
  \/ FindAny
  \/ FindHit
  \/ FindNothing
  \/ ScanDone

ScanSpec == ScanInit /\ [][ScanNext]_scanVars

-----------------------------------------------------------------------------
(* A place where the whole signature stands, inside the range.               *)
Candidate(a) ==
  /\ Length > 0
  /\ a \in start..(end - Length)
  /\ CanRead(a, a + Length)
  /\ Matches(a)

(* What is returned is a place where the signature stands, every byte of it  *)
(* inside the range asked for and readable.                                  *)
FoundIsThere == match # 0 => Candidate(match)

(* No occurrence inside one region that is to be scanned is overlooked, and  *)
(* none is passed over for a later one: windows, their overlap, the shorter  *)
(* read before an unreadable region and the jumps of memchr lose nothing.    *)
RegionsAreSearched ==
  at = "done" =>
    \A a \in Addrs :
      Candidate(a) /\ Scanned(a) /\ a + Length <= mem.next[a] =>
        match # 0 /\ match <= a

(* A scan returns an occurrence, and in a region it is to scan the first.    *)
ScanIsExact == FoundIsThere /\ RegionsAreSearched

(* Where everything in the range can be read, as in the image of a module,   *)
(* the first occurrence is returned, over the borders of regions too.        *)
ReadableIsSearched ==
  at = "done" /\ ~execOnly /\ CanRead(start, end) =>
    \A a \in Addrs : Candidate(a) => match # 0 /\ match <= a

(* core/MemoryAccess.h:122-124: unreadable parts are skipped, and memory is  *)
(* read in overlapping pieces "so that a match across a border of regions is *)
(* found too".                                                               *)
BordersAreSearched ==
  at = "done" =>
    \A a \in Addrs :
      Candidate(a) /\ (\A x \in a..(a + Length - 1) : Scanned(x)) =>
        match # 0 /\ match <= a

(* The scan ends.                                                            *)
ScanEnds == <>(at = "done")
=============================================================================
