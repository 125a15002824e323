------------------------------- MODULE Detour -------------------------------
(***************************************************************************)
(* What a cave patch promises to the program it is installed in, whose      *)
(* threads may run through the patched place at any moment: control is      *)
(* diverted only to a block that is complete, and a block is given back     *)
(* only while nothing is diverted to it.                                    *)
(***************************************************************************)
CONSTANTS
  Blocks,   \* blocks of memory a detour may lead to
  NoBlock   \* the place holds its own code

VARIABLES
  target,   \* where control goes from the place
  complete  \* the blocks that hold complete code

detourVars == <<target, complete>>

Init ==
  /\ target = NoBlock
  /\ complete = {}

Prepare(b) ==
  /\ target # b
  /\ complete' = complete \cup {b}
  /\ UNCHANGED target

Divert(b) ==
  /\ b \in complete
  /\ target' = b
  /\ UNCHANGED complete

Undo ==
  /\ target' = NoBlock
  /\ UNCHANGED complete

Release(b) ==
  /\ target # b
  /\ complete' = complete \ {b}
  /\ UNCHANGED target

(* The program ends, and all its memory with it.                             *)
End ==
  /\ target' = NoBlock
  /\ complete' = {}

Next ==
  \/ \E b \in Blocks : Prepare(b) \/ Divert(b) \/ Release(b)
  \/ Undo
  \/ End

Spec == Init /\ [][Next]_detourVars
=============================================================================
