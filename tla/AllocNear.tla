----------------------------- MODULE AllocNear -----------------------------
(***************************************************************************)
(* MemoryAccess::AllocNear (core/MemoryAccess.cpp): the search for a free   *)
(* place for a cave near the code it is jumped to from, upwards from the    *)
(* target, then downwards, then anywhere; and the length of the jump        *)
(* (CavePatch::CalculateJumpBytes) that place allows.  The memory map holds *)
(* still meanwhile.  Address 0 means "none".                                *)
(***************************************************************************)
EXTENDS Integers

CONSTANTS
  Memory,     \* bound: the addresses are 0..Memory-1
  PageSize,
  Granule,    \* dwAllocationGranularity
  Maps,       \* the sets of pages that may be free
  Targets,    \* the addresses a cave may be wanted near
  Amount,     \* CAVE_SIZE
  RANGE,
  Reach,      \* a short jump reaches from -Reach to Reach - 1
  Short       \* the length of a short jump

(* A page is named by its first address; no place below the first granule    *)
(* is ever given.                                                            *)
Pages == {p \in 0..(Memory - 1) : p % PageSize = 0}

ASSUME AllocAssumption ==
  /\ {Memory, PageSize, Granule, Amount, Short} \subseteq Nat \ {0}
  /\ Granule % PageSize = 0
  /\ Memory % PageSize = 0
  /\ Maps \subseteq SUBSET {p \in Pages : p >= Granule}
  /\ Targets \subseteq 0..(Memory - 1)
  /\ PageSize > 1
  /\ RANGE \in Nat /\ RANGE >= PageSize
  /\ Reach \in Nat
  /\ RANGE + Amount + Short <= Reach

VARIABLES
  free,     \* the free pages
  target,   \* the argument
  probe,    \* the address to be queried next
  way,      \* "up", "down", "anywhere" or "done"
  block     \* the address returned

allocVars == <<free, target, probe, way, block>>

AllocTypeOK ==
  /\ free \in Maps
  /\ target \in Targets
  /\ probe \in 0..Memory
  /\ way \in {"up", "down", "anywhere", "done"}
  /\ block \in 0..(Memory - 1)

AllocInit ==
  /\ free \in Maps
  /\ target \in Targets
  /\ probe = target
  /\ way = "up"
  /\ block = 0

low == IF target > RANGE THEN target - RANGE ELSE 0
high == target + RANGE

AlignDown(a) == a - (a % Granule)
AlignUp(a) == AlignDown(a + Granule - 1)

(* VirtualQueryEx: the page an address lies in and the end of the run of     *)
(* pages, from there on, that are free or not like it.                       *)
base == probe - (probe % PageSize)

RunEnd(p) ==
  CHOOSE e \in (Pages \cup {Memory}) :
    /\ e > p
    /\ \A q \in Pages : p <= q /\ q < e => (q \in free <=> p \in free)
    /\ e = Memory \/ ~(e \in free <=> p \in free)

(* VirtualAllocEx gives the block that begins at a.                          *)
Usable(a) ==
  /\ a % Granule = 0
  /\ \A q \in Pages : q + PageSize > a /\ q < a + Amount => q \in free
  /\ a + Amount <= Memory

(* tryAt.                                                                    *)
Fits(a) == low <= AlignUp(a) /\ AlignUp(a) < high /\ Usable(AlignUp(a))

Give(a) ==
  /\ block' = a
  /\ way' = "done"
  /\ UNCHANGED <<free, target, probe>>

FreeRun == base \in free /\ RunEnd(base) - base >= Amount

-----------------------------------------------------------------------------
UpTakes ==
  /\ way = "up"
  /\ probe < high /\ probe < Memory
  /\ FreeRun
  /\ Fits(base)
  /\ Give(AlignUp(base))

(* A region that is taken, or too small, is passed as a whole.               *)
UpSkips ==
  /\ way = "up"
  /\ probe < high /\ probe < Memory
  /\ ~(FreeRun /\ Fits(base))
  /\ probe' = RunEnd(base)
  /\ UNCHANGED <<free, target, way, block>>

UpEnds ==
  /\ way = "up"
  /\ probe >= high \/ probe >= Memory
  /\ way' = "down"
  /\ probe' = target
  /\ UNCHANGED <<free, target, block>>

(* The end of the region is nearer to the target.                            *)
Nearer ==
  LET last == RunEnd(base) - Amount
  IN IF last > base THEN AlignDown(last) ELSE base

DownTakes ==
  /\ way = "down"
  /\ probe > low
  /\ FreeRun
  /\ \/ Fits(Nearer) /\ Give(AlignUp(Nearer))
     \/ ~Fits(Nearer) /\ Fits(base) /\ Give(AlignUp(base))

(* MUTANT of DownSkips: the first granule is not the end.                    *)
DownSkips_NoBreak ==
  /\ way = "down"
  /\ probe > low
  /\ ~(FreeRun /\ (Fits(Nearer) \/ Fits(base)))
  /\ probe' = base - 1
  /\ UNCHANGED <<free, target, way, block>>

(* MUTANT of DownSkips: the loop goes back by one allocation unit.           *)
DownSkips_Granule ==
  /\ way = "down"
  /\ probe > low
  /\ ~(FreeRun /\ (Fits(Nearer) \/ Fits(base)))
  /\ IF base < Granule
     THEN way' = "anywhere" /\ UNCHANGED probe
     ELSE probe' = base - Granule /\ UNCHANGED way
  /\ UNCHANGED <<free, target, block>>

(* MUTANT of DownSkips: the page is looked at again.                         *)
DownSkips_Stays ==
  /\ way = "down"
  /\ probe > low
  /\ ~(FreeRun /\ (Fits(Nearer) \/ Fits(base)))
  /\ IF base < Granule
     THEN way' = "anywhere" /\ UNCHANGED probe
     ELSE probe' = base /\ UNCHANGED way
  /\ UNCHANGED <<free, target, block>>

(* Downwards the query begins at the page, so the loop goes page by page.    *)
DownSkips ==
  /\ way = "down"
  /\ probe > low
  /\ ~(FreeRun /\ (Fits(Nearer) \/ Fits(base)))
  /\ IF base < Granule
     THEN way' = "anywhere" /\ UNCHANGED probe
     ELSE probe' = base - 1 /\ UNCHANGED way
  /\ UNCHANGED <<free, target, block>>

DownEnds ==
  /\ way = "down"
  /\ probe <= low
  /\ way' = "anywhere"
  /\ UNCHANGED <<free, target, probe, block>>

(* Windows chooses, or has nothing left.                                     *)
TakeAnywhere ==
  /\ way = "anywhere"
  /\ \/ \E a \in Pages : Usable(a) /\ Give(a)
     \/ (\A a \in Pages : ~Usable(a)) /\ Give(0)

AllocDone ==
  /\ way = "done"
  /\ UNCHANGED allocVars

AllocNext ==
  \/ UpTakes
  \/ UpSkips
  \/ UpEnds
  \/ DownTakes
  \/ DownSkips
  \/ DownEnds
  \/ TakeAnywhere
  \/ AllocDone

AllocSpec == AllocInit /\ [][AllocNext]_allocVars

-----------------------------------------------------------------------------
(* CalculateJumpBytes in a 64-bit game: whether the short form is chosen.    *)
IsShort(from, to) ==
  LET delta == to - (from + Short)
  IN -Reach <= delta /\ delta < Reach

(* As long as there is a place within RANGE of the target a cave is put      *)
(* there, and both its jumps are short: the one to it, and the one back from *)
(* any place in it to the code behind the target.                            *)
NearIsShort ==
  way = "done" /\ (\E a \in Pages : low <= a /\ a < high /\ Usable(a)) =>
    /\ block # 0
    /\ IsShort(target, block)
    /\ \A i, j \in 0..Amount : IsShort(block + i, target + j)

(* The search ends.                                                          *)
AllocEnds == <>(way = "done")
=============================================================================
