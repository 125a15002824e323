----------------------------- MODULE MCTrainer -----------------------------
(* Values of the constants of Trainer for TLC.                               *)
EXTENDS Trainer

(* Option 1: two code patches, switched by clicks and by a hotkey.           *)
(* Option 2: a freeze that switches itself off.                              *)
MCPatches == {"nop", "cave", "freeze"}
MCKind == [p \in MCPatches |-> IF p = "freeze" THEN "freeze" ELSE "code"]
MCPatchSeq == <<<<"nop", "cave">>, <<"freeze">>>>

(* Option 1: a code patch and a one-shot write; option 2: a one-shot write.  *)
MixedPatches == {"nop", "poke", "set"}
MixedKind == [p \in MixedPatches |-> IF p = "nop" THEN "code" ELSE "write"]
MixedPatchSeq == <<<<"nop", "poke">>, <<"set">>>>
=============================================================================
