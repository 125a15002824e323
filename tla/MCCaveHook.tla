----------------------------- MODULE MCCaveHook -----------------------------
(* A cave for TLC: a behaviour is either the steps of CaveHook in the game,  *)
(* where the threads are interchangeable, or one construction of CaveCode.   *)
EXTENDS CaveHook, CaveCode, TLC

MCSymmetry == Permutations(Threads)

(* An instruction of every kind, with fields at the ends of their range.     *)
MCInstructions ==
  [len: {1, 3}, kind: {"plain"}, disp: {0}]
    \cup [len: {2}, kind: {"odd"}, disp: {1}]
    \cup [len: {2}, kind: {"rip"}, disp: {-16, 5, 15}]
    \cup [len: {2}, kind: {"near"}, disp: {-16, 0, 9}]
    \cup [len: {1}, kind: {"short"}, disp: {-4, 0, 3}]

At(i, p) == [pos |-> p, len |-> i.len, kind |-> i.kind, disp |-> i.disp]

MCPrograms ==
  UNION {{<<At(a, 0)>>, <<At(a, 0), At(b, a.len)>>,
          <<At([len |-> 1, kind |-> "plain", disp |-> 0], 0), At(a, 1), At(b, 1 + a.len)>>} :
           a, b \in MCInstructions}

(* Caves below and above the site, within reach of all fields, of some and   *)
(* of none; in the 32-bit target also around the end of the addresses.       *)
MCPlaces ==
  [wide: {TRUE}, site: {40}, cave: {20, 26, 34, 43, 54, 90}]
    \cup [wide: {FALSE}, site: {10}, cave: {0, 12, 20}]

MCPatches ==
  [size: {1}, writes: {<<>>}, preserve: {FALSE}]
    \cup [size: {2}, writes: {<<"rsp", "rax", "r8", "rax">>}, preserve: BOOLEAN]

Resting ==
  [place |-> [wide |-> TRUE, site |-> 40, cave |-> 54],
   program |-> <<At([len |-> 3, kind |-> "plain", disp |-> 0], 0)>>,
   patch |-> [size |-> 1, writes |-> <<>>, preserve |-> FALSE],
   keep |-> FALSE]

(* CaveHook moves, or CaveCode on any job but Resting.                       *)
MCInit == Init /\ CaveCodeInit

MCNext ==
  \/ Next /\ job = Resting /\ UNCHANGED caveCodeVars
  \/ CaveCodeNext /\ job # Resting /\ UNCHANGED vars

(* The variables have their types.                                           *)
MCTypeOK == TypeOK /\ CaveCodeTypeOK

MCSpec == MCInit /\ [][MCNext]_<<vars, caveCodeVars>>
=============================================================================
