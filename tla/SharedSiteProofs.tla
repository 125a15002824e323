-------------------------- MODULE SharedSiteProofs --------------------------
(***************************************************************************)
(* Proofs about SharedSite, for every registry of options: what a Guarded   *)
(* registry gains, whatever the order options are switched in.              *)
(***************************************************************************)
EXTENDS SharedSite, TLAPS

(* Value v is what patches 1..n of option o leave at place i over the game's *)
(* own byte: the mark of the last of them that writes there.                 *)
Layer(o, n, i, v) ==
  \/ v = Orig /\ \A k \in 1..n : i \notin Site(o, k)
  \/ \E k \in 1..n : /\ v = <<o, k>> /\ i \in Site(o, k)
                     /\ \A m \in (k + 1)..n : i \notin Site(o, m)

(* Where an option stands its patches are in layers, nobody else's between.  *)
Layered ==
  \A o \in Options : \A i \in SitePlaces :
    (\E j \in 1..depth[o] : i \in Site(o, j)) => Layer(o, depth[o], i, bytes[i])

(* What a patch that stands remembers is the layer below it.                 *)
SavedBelow ==
  \A o \in Options : \A j \in 1..depth[o] : \A i \in Site(o, j) :
    Layer(o, j - 1, i, saved[<<o, j>>][i])

SiteInv == SiteTypeOK /\ OffMeansOriginal /\ Layered /\ SavedBelow

-----------------------------------------------------------------------------
LEMMA PatchSeqFacts ==
  ASSUME NEW o \in Options
  PROVE  /\ Len(PatchSeq[o]) \in Nat
         /\ \A j \in 1..Len(PatchSeq[o]) :
              /\ Site(o, j) \subseteq SitePlaces /\ Checks(o, j) \subseteq SitePlaces
              /\ <<o, j>> \in Ids
<1>1. PatchSeq[o] \in Seq(Patch)
  BY SiteAssumption DEF SiteAssumption
<1>2. Len(PatchSeq[o]) \in Nat
  BY <1>1
<1>3. ASSUME NEW j \in 1..Len(PatchSeq[o])
      PROVE  /\ Site(o, j) \subseteq SitePlaces /\ Checks(o, j) \subseteq SitePlaces
             /\ <<o, j>> \in Ids
  <2>1. PatchSeq[o][j] \in Patch
    BY <1>1, <1>3
  <2>2. Site(o, j) \subseteq SitePlaces /\ Checks(o, j) \subseteq SitePlaces
    BY <2>1 DEF Patch, Site, Checks
  <2>3. <<o, j>> \in Ids
    <3>1. <<o, j>> \in {o} \X (1..Len(PatchSeq[o]))
      BY <1>3
    <3> QED
      BY <3>1, Zenon DEF Ids
  <2> QED
    BY <2>2, <2>3
<1> QED
  BY <1>2, <1>3

-----------------------------------------------------------------------------
(* Type correctness; it needs nothing of the registry.                       *)

LEMMA SiteInitType == SiteInit => SiteTypeOK
<1> SUFFICES ASSUME SiteInit PROVE SiteTypeOK
  OBVIOUS
<1>1. \A o \in Options : depth[o] = 0 /\ 0 <= Len(PatchSeq[o])
  <2>1. \A o \in Options : Len(PatchSeq[o]) \in Nat
    BY PatchSeqFacts
  <2>2. \A o \in Options : depth[o] = 0
    BY DEF SiteInit
  <2>3. \A n \in Nat : 0 <= n
    OBVIOUS
  <2> QED
    BY <2>1, <2>2, <2>3
<1>2. bytes \in [SitePlaces -> Values] /\ saved \in [Ids -> [SitePlaces -> Values]]
  BY DEF SiteInit, Values
<1>3. depth \in [Options -> Nat] /\ \A o \in Options : depth[o] <= Len(PatchSeq[o])
  BY <1>1 DEF SiteInit
<1>4. busy = NoOption
  BY DEF SiteInit
<1> QED
  BY <1>2, <1>3, <1>4 DEF SiteTypeOK

(* A step that only decides what to do next.                                 *)
LEMMA FrameType ==
  ASSUME SiteTypeOK, UNCHANGED <<bytes, depth, saved>>,
         busy' \in {NoOption} \cup [opt: Options, way: {"on", "back", "off"}]
  PROVE  SiteTypeOK'
BY DEF SiteTypeOK

LEMMA ApplyType ==
  ASSUME SiteTypeOK, ApplyNext
  PROVE  SiteTypeOK'
<1> DEFINE o == busy.opt
           j == depth[o] + 1
<1>1. /\ o \in Options /\ j \in Nat /\ j \in 1..Len(PatchSeq[o])
      /\ saved' = [saved EXCEPT ![<<o, j>>] = bytes]
      /\ bytes' = [i \in SitePlaces |-> IF i \in Site(o, j) THEN <<o, j>> ELSE bytes[i]]
      /\ depth' = [depth EXCEPT ![o] = j]
      /\ busy' = busy
  <2>1. o \in Options
    BY DEF ApplyNext, SiteTypeOK, NoOption
  <2>2. depth[o] \in Nat /\ Len(PatchSeq[o]) \in Nat
    BY <2>1, PatchSeqFacts DEF SiteTypeOK
  <2> QED
    BY <2>1, <2>2 DEF ApplyNext
<1>2. <<o, j>> \in Ids
  BY <1>1, PatchSeqFacts
<1>3. depth' \in [Options -> Nat] /\ \A q \in Options : depth'[q] <= Len(PatchSeq[q])
  BY <1>1, PatchSeqFacts DEF SiteTypeOK
<1>4. bytes' \in [SitePlaces -> Values]
  BY <1>1 DEF SiteTypeOK, Values
<1>5. saved' \in [Ids -> [SitePlaces -> Values]]
  BY <1>1, <1>2 DEF SiteTypeOK
<1> QED
  BY <1>1, <1>3, <1>4, <1>5 DEF SiteTypeOK

LEMMA RestoreType ==
  ASSUME SiteTypeOK, RestoreNext
  PROVE  SiteTypeOK'
<1> DEFINE o == busy.opt
           j == depth[o]
<1>1. /\ o \in Options /\ j \in Nat /\ j \in 1..Len(PatchSeq[o])
      /\ bytes' = [i \in SitePlaces |-> IF i \in Site(o, j) THEN saved[<<o, j>>][i] ELSE bytes[i]]
      /\ depth' = [depth EXCEPT ![o] = j - 1]
      /\ saved' = saved /\ busy' = busy
  <2>1. o \in Options
    BY DEF RestoreNext, SiteTypeOK, NoOption
  <2>2. depth[o] \in Nat /\ depth[o] <= Len(PatchSeq[o]) /\ Len(PatchSeq[o]) \in Nat
    BY <2>1, PatchSeqFacts DEF SiteTypeOK
  <2> QED
    BY <2>1, <2>2 DEF RestoreNext
<1>2. <<o, j>> \in Ids
  BY <1>1, PatchSeqFacts
<1>3. depth' \in [Options -> Nat] /\ \A q \in Options : depth'[q] <= Len(PatchSeq[q])
  BY <1>1, PatchSeqFacts DEF SiteTypeOK
<1>4. bytes' \in [SitePlaces -> Values]
  BY <1>1, <1>2 DEF SiteTypeOK
<1> QED
  BY <1>1, <1>3, <1>4 DEF SiteTypeOK

LEMMA GameEndsType ==
  ASSUME SiteTypeOK, GameEnds
  PROVE  SiteTypeOK'
<1>1. \A o \in Options : depth'[o] = 0 /\ 0 <= Len(PatchSeq[o])
  <2>1. \A o \in Options : Len(PatchSeq[o]) \in Nat
    BY PatchSeqFacts
  <2> QED
    BY <2>1 DEF GameEnds
<1> QED
  BY <1>1 DEF GameEnds, SiteTypeOK, Values

LEMMA SiteNextType == SiteTypeOK /\ [SiteNext]_siteVars => SiteTypeOK'
<1> SUFFICES ASSUME SiteTypeOK, [SiteNext]_siteVars PROVE SiteTypeOK'
  OBVIOUS
<1>0. busy \in {NoOption} \cup [opt: Options, way: {"on", "back", "off"}]
  BY DEF SiteTypeOK
<1>1. CASE \E o \in Options : TurnOn(o) \/ TurnOff(o)
  BY <1>1, FrameType DEF TurnOn, TurnOff
<1>2. CASE ApplyFails
  <2>1. busy \in [opt: Options, way: {"on", "back", "off"}]
    BY <1>0, <1>2 DEF ApplyFails, NoOption
  <2> QED
    BY <2>1, <1>2, FrameType DEF ApplyFails
<1>3. CASE SwitchedOn \/ SwitchedOff
  BY <1>3, FrameType DEF SwitchedOn, SwitchedOff
<1>4. CASE UNCHANGED siteVars
  BY <1>0, <1>4, FrameType DEF siteVars
<1> QED
  BY <1>1, <1>2, <1>3, <1>4, ApplyType, RestoreType, GameEndsType DEF SiteNext

(* In every registry, guarded or not, a patch of an option is applied only   *)
(* if it has one, and taken back only if it stands.                          *)
THEOREM SiteTypeCorrect == SiteSpec => []SiteTypeOK
<1> QED
  BY SiteInitType, SiteNextType, PTL DEF SiteSpec

-----------------------------------------------------------------------------
(* The bytes, in a guarded registry.                                         *)

LEMMA SiteInitInv == SiteInit => SiteInv
<1> SUFFICES ASSUME SiteInit PROVE SiteInv
  OBVIOUS
<1>1. \A o \in Options : depth[o] = 0 /\ 0 <= Len(PatchSeq[o])
  <2>1. \A o \in Options : Len(PatchSeq[o]) \in Nat
    BY PatchSeqFacts
  <2>2. \A o \in Options : depth[o] = 0
    BY DEF SiteInit
  <2>3. \A n \in Nat : 0 <= n
    OBVIOUS
  <2> QED
    BY <2>1, <2>2, <2>3
<1>2. SiteTypeOK
  BY SiteInitType
<1>3. OffMeansOriginal
  BY DEF SiteInit, OffMeansOriginal
<1>4. Layered /\ SavedBelow
  BY <1>1 DEF Layered, SavedBelow
<1> QED
  BY <1>2, <1>3, <1>4 DEF SiteInv

(* A step that only decides what to do next.                                 *)
LEMMA FrameInv ==
  ASSUME SiteInv, UNCHANGED <<bytes, depth, saved>>,
         busy' \in {NoOption} \cup [opt: Options, way: {"on", "back", "off"}]
  PROVE  SiteInv'
BY DEF SiteInv, SiteTypeOK, OffMeansOriginal, Layered, SavedBelow, Layer

LEMMA ApplyInv ==
  ASSUME Guarded, SiteInv, ApplyNext
  PROVE  SiteInv'
<1> DEFINE o == busy.opt
           j == depth[o] + 1
<1>1. /\ o \in Options /\ depth[o] \in Nat /\ j \in Nat /\ j \in 1..Len(PatchSeq[o])
      /\ Located(o, j)
      /\ saved' = [saved EXCEPT ![<<o, j>>] = bytes]
      /\ bytes' = [i \in SitePlaces |-> IF i \in Site(o, j) THEN <<o, j>> ELSE bytes[i]]
      /\ depth' = [depth EXCEPT ![o] = j]
      /\ busy' = busy
  <2>1. o \in Options
    BY DEF ApplyNext, SiteInv, SiteTypeOK, NoOption
  <2>2. depth[o] \in Nat /\ Len(PatchSeq[o]) \in Nat
    BY <2>1, PatchSeqFacts DEF SiteInv, SiteTypeOK
  <2> QED
    BY <2>1, <2>2 DEF ApplyNext
<1>2. /\ Site(o, j) \subseteq SitePlaces /\ Checks(o, j) \subseteq SitePlaces /\ <<o, j>> \in Ids
  BY <1>1, PatchSeqFacts
<1>3. /\ \A q \in Options : depth[q] \in Nat /\ depth[q] <= Len(PatchSeq[q]) /\ Len(PatchSeq[q]) \in Nat
      /\ depth'[o] = j
      /\ \A q \in Options : q # o => depth'[q] = depth[q]
      /\ \A i \in SitePlaces : bytes'[i] = IF i \in Site(o, j) THEN <<o, j>> ELSE bytes[i]
      /\ \A p \in Ids : saved'[p] = IF p = <<o, j>> THEN bytes ELSE saved[p]
  BY <1>1, <1>2, PatchSeqFacts DEF SiteInv, SiteTypeOK
<1>4. SiteTypeOK'
  BY ApplyType DEF SiteInv
(* Nobody else stands where the new patch writes.                            *)
<1>5. ASSUME NEW q \in Options, q # o, NEW k \in 1..depth[q]
      PROVE  Site(q, k) \cap Site(o, j) = {}
  <2> SUFFICES ASSUME Site(q, k) \cap Site(o, j) # {} PROVE FALSE
    OBVIOUS
  <2>1. k \in 1..Len(PatchSeq[q])
    BY <1>3
  <2>2. PICK i : i \in Site(q, k) /\ i \in Checks(o, j)
    BY <2>1, <1>1, <1>5 DEF Guarded
  <2>3. i \in SitePlaces /\ bytes[i] = Orig
    BY <2>2, <1>1, <1>2 DEF Located
  <2>4. Layer(q, depth[q], i, bytes[i])
    BY <2>2, <2>3 DEF SiteInv, Layered
  <2> QED
    BY <2>2, <2>3, <2>4, <1>3, SiteAssumption DEF Layer, SiteAssumption
<1>6. \A i \in Site(o, j) : Layer(o, depth[o], i, bytes[i])
  <2> SUFFICES ASSUME NEW i \in Site(o, j) PROVE Layer(o, depth[o], i, bytes[i])
    OBVIOUS
  <2>0. i \in SitePlaces
    BY <1>2
  <2>1. CASE \E k \in 1..depth[o] : i \in Site(o, k)
    BY <2>0, <2>1, <1>1 DEF SiteInv, Layered
  <2>2. CASE ~ \E k \in 1..depth[o] : i \in Site(o, k)
    <3>1. \A q \in Options : \A k \in 1..depth[q] : i \notin Site(q, k)
      BY <1>5, <2>2
    <3>2. bytes[i] = Orig
      BY <3>1, <2>0 DEF SiteInv, OffMeansOriginal
    <3> QED
      BY <3>2, <2>2 DEF Layer
  <2> QED
    BY <2>1, <2>2
<1> HIDE DEF o, j
<1>7. OffMeansOriginal'
  <2> SUFFICES ASSUME NEW i \in SitePlaces, bytes'[i] # Orig
               PROVE  \E q \in Options : \E k \in 1..depth'[q] : bytes'[i] = <<q, k>> /\ i \in Site(q, k)
    BY DEF OffMeansOriginal
  <2>1. CASE i \in Site(o, j)
    <3>1. bytes'[i] = <<o, j>> /\ j \in 1..depth'[o]
      BY <2>1, <1>1, <1>3
    <3> QED
      BY <2>1, <3>1, <1>1
  <2>2. CASE i \notin Site(o, j)
    <3>1. PICK q \in Options : \E k \in 1..depth[q] : bytes'[i] = <<q, k>> /\ i \in Site(q, k)
      BY <2>2, <1>3 DEF SiteInv, OffMeansOriginal
    <3>2. PICK k \in 1..depth[q] : bytes'[i] = <<q, k>> /\ i \in Site(q, k)
      BY <3>1
    <3>3. k \in 1..depth'[q]
      BY <1>1, <1>3, <3>2 DEF j
    <3> QED
      BY <3>2, <3>3
  <2> QED
    BY <2>1, <2>2
<1>8. Layered'
  <2> SUFFICES ASSUME NEW q \in Options, NEW i \in SitePlaces,
                      NEW k \in 1..depth'[q], i \in Site(q, k)
               PROVE  Layer(q, depth'[q], i, bytes'[i])
    BY DEF Layered, Layer
  <2>1. CASE q # o
    <3>1. k \in 1..depth[q] /\ depth'[q] = depth[q]
      BY <2>1, <1>3
    <3>2. bytes'[i] = bytes[i]
      BY <2>1, <3>1, <1>3, <1>5
    <3>3. Layer(q, depth[q], i, bytes[i])
      BY <3>1 DEF SiteInv, Layered
    <3> QED
      BY <3>1, <3>2, <3>3
  <2>2. CASE q = o /\ i \in Site(o, j)
    <3>1. bytes'[i] = <<o, j>> /\ j \in 1..j /\ \A m \in (j + 1)..j : i \notin Site(o, m)
      BY <2>2, <1>1, <1>3
    <3> QED
      BY <3>1, <2>2, <1>3 DEF Layer
  <2>3. CASE q = o /\ i \notin Site(o, j)
    <3>1. k \in 1..depth[o]
      BY <2>3, <1>1, <1>3 DEF j
    <3>2. Layer(o, depth[o], i, bytes[i]) /\ bytes'[i] = bytes[i]
      BY <3>1, <2>3, <1>1, <1>3 DEF SiteInv, Layered
    <3>3. Layer(o, j, i, bytes[i])
      BY <3>2, <2>3, <1>1 DEF Layer, j
    <3> QED
      BY <3>2, <3>3, <2>3, <1>3
  <2> QED
    BY <2>1, <2>2, <2>3
<1>9. SavedBelow'
  <2> SUFFICES ASSUME NEW q \in Options, NEW k \in 1..depth'[q], NEW i \in Site(q, k)
               PROVE  Layer(q, k - 1, i, saved'[<<q, k>>][i])
    BY DEF SavedBelow, Layer
  <2>1. CASE q = o /\ k = j
    <3>1. saved'[<<q, k>>] = bytes /\ k - 1 = depth[o]
      BY <2>1, <1>1, <1>2, <1>3 DEF j
    <3> QED
      BY <3>1, <2>1, <1>6
  <2>2. CASE ~(q = o /\ k = j)
    <3>1. k \in 1..depth[q]
      BY <2>2, <1>1, <1>3 DEF j
    <3>2. <<q, k>> \in Ids /\ <<q, k>> # <<o, j>>
      BY <3>1, <2>2, <1>3, PatchSeqFacts
    <3>3. saved'[<<q, k>>] = saved[<<q, k>>]
      BY <3>2, <1>3
    <3>4. Layer(q, k - 1, i, saved[<<q, k>>][i])
      BY <3>1 DEF SiteInv, SavedBelow
    <3> QED
      BY <3>3, <3>4
  <2> QED
    BY <2>1, <2>2
<1> QED
  BY <1>4, <1>7, <1>8, <1>9 DEF SiteInv

LEMMA RestoreInv ==
  ASSUME SiteInv, RestoreNext
  PROVE  SiteInv'
<1> DEFINE o == busy.opt
           j == depth[o]
<1>1. /\ o \in Options /\ j \in Nat /\ j \in 1..Len(PatchSeq[o])
      /\ bytes' = [i \in SitePlaces |-> IF i \in Site(o, j) THEN saved[<<o, j>>][i] ELSE bytes[i]]
      /\ depth' = [depth EXCEPT ![o] = j - 1]
      /\ saved' = saved /\ busy' = busy
  <2>1. o \in Options
    BY DEF RestoreNext, SiteInv, SiteTypeOK, NoOption
  <2>2. depth[o] \in Nat /\ depth[o] <= Len(PatchSeq[o]) /\ Len(PatchSeq[o]) \in Nat
    BY <2>1, PatchSeqFacts DEF SiteInv, SiteTypeOK
  <2> QED
    BY <2>1, <2>2 DEF RestoreNext
<1>2. Site(o, j) \subseteq SitePlaces /\ <<o, j>> \in Ids
  BY <1>1, PatchSeqFacts
<1>3. /\ \A q \in Options : depth[q] \in Nat /\ depth[q] <= Len(PatchSeq[q]) /\ Len(PatchSeq[q]) \in Nat
      /\ depth'[o] = j - 1
      /\ \A q \in Options : q # o => depth'[q] = depth[q]
      /\ \A i \in SitePlaces : bytes'[i] = IF i \in Site(o, j) THEN saved[<<o, j>>][i] ELSE bytes[i]
  BY <1>1, <1>2, PatchSeqFacts DEF SiteInv, SiteTypeOK
<1>4. SiteTypeOK'
  BY RestoreType DEF SiteInv
(* The bytes given back are those of the patches below.                      *)
<1>5. \A i \in Site(o, j) : Layer(o, j - 1, i, bytes'[i])
  BY <1>1, <1>2, <1>3 DEF SiteInv, SavedBelow
<1>6. \A i \in SitePlaces \ Site(o, j) : bytes'[i] = bytes[i]
  BY <1>3
<1>7. \A i \in Site(o, j) : \E k \in 1..j : bytes[i] = <<o, k>>
  <2> SUFFICES ASSUME NEW i \in Site(o, j) PROVE \E k \in 1..j : bytes[i] = <<o, k>>
    OBVIOUS
  <2>1. Layer(o, j, i, bytes[i])
    BY <1>1, <1>2 DEF SiteInv, Layered
  <2> QED
    BY <2>1, <1>1 DEF Layer
<1> HIDE DEF o
<1>8. OffMeansOriginal'
  <2> SUFFICES ASSUME NEW i \in SitePlaces, bytes'[i] # Orig
               PROVE  \E q \in Options : \E k \in 1..depth'[q] : bytes'[i] = <<q, k>> /\ i \in Site(q, k)
    BY DEF OffMeansOriginal
  <2>1. CASE i \in Site(o, j)
    <3>1. PICK k \in 1..(j - 1) : bytes'[i] = <<o, k>> /\ i \in Site(o, k)
      BY <2>1, <1>5 DEF Layer
    <3> QED
      BY <3>1, <1>1, <1>3
  <2>2. CASE i \notin Site(o, j)
    <3>1. PICK q \in Options : \E k \in 1..depth[q] : bytes'[i] = <<q, k>> /\ i \in Site(q, k)
      BY <2>2, <1>3 DEF SiteInv, OffMeansOriginal
    <3>2. PICK k \in 1..depth[q] : bytes'[i] = <<q, k>> /\ i \in Site(q, k)
      BY <3>1
    <3>3. k \in 1..depth'[q]
      BY <2>2, <1>1, <1>3, <3>2
    <3> QED
      BY <3>2, <3>3
  <2> QED
    BY <2>1, <2>2
<1>9. Layered'
  <2> SUFFICES ASSUME NEW q \in Options, NEW i \in SitePlaces,
                      NEW k \in 1..depth'[q], i \in Site(q, k)
               PROVE  Layer(q, depth'[q], i, bytes'[i])
    BY DEF Layered, Layer
  <2>0. k \in 1..depth[q]
    BY <1>1, <1>3
  <2>1. Layer(q, depth[q], i, bytes[i])
    BY <2>0 DEF SiteInv, Layered
  <2>2. CASE q # o
    <3>1. i \notin Site(o, j)
      <4>1. \E m \in 1..depth[q] : bytes[i] = <<q, m>>
        BY <2>0, <2>1, <1>3 DEF Layer
      <4> QED
        BY <4>1, <2>2, <1>7
    <3> QED
      BY <2>1, <2>2, <3>1, <1>3, <1>6
  <2>3. CASE q = o /\ i \in Site(o, j)
    BY <2>3, <1>3, <1>5
  <2>4. CASE q = o /\ i \notin Site(o, j)
    <3>1. Layer(o, j - 1, i, bytes[i])
      BY <2>1, <2>4, <1>1 DEF Layer
    <3> QED
      BY <3>1, <2>4, <1>3, <1>6
  <2> QED
    BY <2>2, <2>3, <2>4
<1>10. SavedBelow'
  <2> SUFFICES ASSUME NEW q \in Options, NEW k \in 1..depth'[q], NEW i \in Site(q, k)
               PROVE  Layer(q, k - 1, i, saved[<<q, k>>][i])
    BY <1>1 DEF SavedBelow, Layer
  <2>1. k \in 1..depth[q]
    BY <1>1, <1>3
  <2> QED
    BY <2>1 DEF SiteInv, SavedBelow
<1> QED
  BY <1>4, <1>8, <1>9, <1>10 DEF SiteInv

LEMMA GameEndsInv ==
  ASSUME SiteInv, GameEnds
  PROVE  SiteInv'
<1>1. \A o \in Options : depth'[o] = 0 /\ 0 <= Len(PatchSeq[o])
  <2>1. \A o \in Options : Len(PatchSeq[o]) \in Nat
    BY PatchSeqFacts
  <2> QED
    BY <2>1 DEF GameEnds
<1>2. SiteTypeOK'
  BY GameEndsType DEF SiteInv
<1>3. OffMeansOriginal' /\ Layered' /\ SavedBelow'
  BY <1>1 DEF GameEnds, OffMeansOriginal, Layered, SavedBelow
<1> QED
  BY <1>2, <1>3 DEF SiteInv

LEMMA SiteNextInv == Guarded /\ SiteInv /\ [SiteNext]_siteVars => SiteInv'
<1> SUFFICES ASSUME Guarded, SiteInv, [SiteNext]_siteVars PROVE SiteInv'
  OBVIOUS
<1>0. busy \in {NoOption} \cup [opt: Options, way: {"on", "back", "off"}]
  BY DEF SiteInv, SiteTypeOK
<1>1. CASE \E o \in Options : TurnOn(o) \/ TurnOff(o)
  BY <1>1, FrameInv DEF TurnOn, TurnOff
<1>2. CASE ApplyFails
  <2>1. busy \in [opt: Options, way: {"on", "back", "off"}]
    BY <1>0, <1>2 DEF ApplyFails, NoOption
  <2> QED
    BY <2>1, <1>2, FrameInv DEF ApplyFails
<1>3. CASE SwitchedOn \/ SwitchedOff
  BY <1>3, FrameInv DEF SwitchedOn, SwitchedOff
<1>4. CASE UNCHANGED siteVars
  BY <1>0, <1>4, FrameInv DEF siteVars
<1> QED
  BY <1>1, <1>2, <1>3, <1>4, ApplyInv, RestoreInv, GameEndsInv DEF SiteNext

LEMMA SiteInvAlways ==
  ASSUME Guarded
  PROVE  SiteSpec => []SiteInv
<1>1. SiteInv /\ [SiteNext]_siteVars => SiteInv'
  BY SiteNextInv
<1> QED
  BY <1>1, SiteInitInv, PTL DEF SiteSpec

(* In a guarded registry the code of the game comes back byte for byte,       *)
(* whatever the order options are switched on and off in.                     *)
THEOREM OffRestoresCode ==
  ASSUME Guarded
  PROVE  SiteSpec => []OffMeansOriginal
<1>1. SiteInv => OffMeansOriginal
  BY DEF SiteInv
<1> QED
  BY <1>1, SiteInvAlways, PTL

(* In a guarded registry no option disturbs another one that is on.           *)
THEOREM OnIsUndisturbed ==
  ASSUME Guarded
  PROVE  SiteSpec => []OnMeansUndisturbed
<1>1. SiteInv => OnMeansUndisturbed
  <2> SUFFICES ASSUME SiteInv, NEW o \in Options, NEW j \in 1..depth[o], NEW i \in Site(o, j)
               PROVE  \E k \in j..depth[o] : bytes[i] = <<o, k>>
    BY DEF OnMeansUndisturbed
  <2>1. depth[o] \in Nat /\ depth[o] <= Len(PatchSeq[o]) /\ Len(PatchSeq[o]) \in Nat
    BY PatchSeqFacts DEF SiteInv, SiteTypeOK
  <2>2. i \in SitePlaces
    <3>1. j \in 1..Len(PatchSeq[o])
      BY <2>1
    <3> QED
      BY <3>1, PatchSeqFacts
  <2>3. Layer(o, depth[o], i, bytes[i])
    BY <2>2 DEF SiteInv, Layered
  <2>4. PICK k \in 1..depth[o] : bytes[i] = <<o, k>> /\ \A m \in (k + 1)..depth[o] : i \notin Site(o, m)
    BY <2>3 DEF Layer
  <2> QED
    BY <2>1, <2>4
<1> QED
  BY <1>1, SiteInvAlways, PTL

=============================================================================
