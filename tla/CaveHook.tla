------------------------------ MODULE CaveHook ------------------------------
(***************************************************************************)
(* patches/CavePatch.cpp step by step: one cave patch installed in and      *)
(* removed from a running game.  Every read, allocation, write and release  *)
(* in the game is a step of its own; between any two of them the game's     *)
(* threads run through the patched place, and the game may end.  The caller *)
(* is CheatOption: Apply, Restore, and Reset when the game is gone.         *)
(***************************************************************************)
EXTENDS Naturals

CONSTANTS
  Caves,          \* the blocks AllocNear can find close enough to the site
  Orig,           \* the bytes of the game itself at the site
  Threads,        \* threads of the game
  RestoreMayFail, \* whether a write that brings code back may fail in a live game
  MaxGames        \* bound: games started

ASSUME CaveAssumption ==
  /\ Orig \notin Caves
  /\ RestoreMayFail \in BOOLEAN
  /\ MaxGames \in Nat
  /\ Caves \cap {"out", "site", "crashed", "none"} = {}

VARIABLES
  game,    \* the process the handle is open on: "none", "alive" or "dead"
  games,   \* games started so far
  code,    \* the site: Orig, or the cave its jump leads to
  cave,    \* cave[c]: "free", "blank" (allocated) or "ready" (written)
  at,      \* at[t]: "out", "site" (between stolen instructions), a cave, "crashed"
  caught,  \* caught[t]: memory under thread t was changed while it was there
  step,    \* the next step of Apply or Restore, or "idle"
  alloc,   \* allocatedAddress, or "none"
  hooked,  \* originalSize > 0
  saved,   \* originalBytes
  stuck    \* in this game a write of the original bytes has failed

gameVars == <<game, games>>
memVars == <<code, cave>>
threadVars == <<at, caught>>
patchVars == <<step, alloc, hooked, saved>>
vars == <<gameVars, memVars, threadVars, patchVars, stuck>>

ApplySteps == {"alloc", "fill", "jump", "giveUp"}
RestoreSteps == {"code", "free"}

TypeOK ==
  /\ game \in {"none", "alive", "dead"}
  /\ games \in 0..MaxGames
  /\ code \in Caves \cup {Orig}
  /\ cave \in [Caves -> {"free", "blank", "ready"}]
  /\ at \in [Threads -> {"out", "site", "crashed"} \cup Caves]
  /\ caught \in [Threads -> BOOLEAN]
  /\ step \in {"idle"} \cup ApplySteps \cup RestoreSteps
  /\ alloc \in Caves \cup {"none"}
  /\ hooked \in BOOLEAN
  /\ saved \in Caves \cup {Orig}
  /\ stuck \in BOOLEAN

Init ==
  /\ game = "none"
  /\ games = 0
  /\ code = Orig
  /\ cave = [c \in Caves |-> "free"]
  /\ at = [t \in Threads |-> "out"]
  /\ caught = [t \in Threads |-> FALSE]
  /\ step = "idle"
  /\ alloc = "none"
  /\ hooked = FALSE
  /\ saved = Orig
  /\ stuck = FALSE

-----------------------------------------------------------------------------
(* The game.                                                                 *)

Attach ==
  /\ game = "none"
  /\ games < MaxGames
  /\ game' = "alive"
  /\ games' = games + 1
  /\ UNCHANGED <<memVars, threadVars, patchVars, stuck>>

GameEnds ==
  /\ game = "alive"
  /\ game' = "dead"
  /\ code' = Orig
  /\ cave' = [c \in Caves |-> "free"]
  /\ at' = [t \in Threads |-> "out"]
  /\ caught' = [t \in Threads |-> FALSE]
  /\ UNCHANGED <<games, patchVars, stuck>>

(* A thread reaches the site: it starts on the game's own instructions, or   *)
(* it jumps, which is fatal unless complete code is there.                   *)
Enter(t) ==
  /\ game = "alive"
  /\ at[t] = "out"
  /\ at' = [at EXCEPT ![t] = IF code = Orig THEN "site"
                             ELSE IF cave[code] = "ready" THEN code ELSE "crashed"]
  /\ UNCHANGED <<gameVars, memVars, caught, patchVars, stuck>>

(* It runs on; what it is standing on must still be code.                    *)
Leave(t) ==
  /\ game = "alive"
  /\ at[t] \in Caves \cup {"site"}
  /\ LET safe == IF at[t] = "site" THEN code = Orig ELSE cave[at[t]] = "ready"
     IN /\ at' = [at EXCEPT ![t] = IF safe THEN "out" ELSE "crashed"]
        /\ caught' = [caught EXCEPT ![t] = IF safe THEN FALSE ELSE @]
  /\ UNCHANGED <<gameVars, memVars, patchVars, stuck>>

-----------------------------------------------------------------------------
(* Writes into the game.                                                     *)

Catch(place) == caught' = [t \in Threads |-> caught[t] \/ at[t] = place]

WriteSite(bytes) ==
  /\ game = "alive"
  /\ code' = bytes
  /\ Catch("site")
  /\ UNCHANGED <<cave, at>>

(* FreeCave: nothing happens in a game that is gone.                         *)
FreeCave ==
  /\ IF game = "alive" /\ alloc # "none"
     THEN /\ cave' = [cave EXCEPT ![alloc] = "free"]
          /\ Catch(alloc)
     ELSE UNCHANGED <<cave, caught>>
  /\ alloc' = "none"
  /\ hooked' = FALSE
  /\ UNCHANGED <<code, at>>

-----------------------------------------------------------------------------
(* Apply.                                                                    *)

(* The site is located and its bytes are read; failing leaves all as it was. *)
ApplyLocate ==
  /\ step = "idle"
  /\ ~hooked
  /\ game = "alive"
  /\ saved' = code
  /\ step' = "alloc"
  /\ UNCHANGED <<gameVars, memVars, threadVars, alloc, hooked, stuck>>

(* MUTANT of ApplyAlloc: the jump is written before the cave.                *)
ApplyAlloc_JumpFirst ==
  /\ step = "alloc"
  /\ \E c \in Caves :
       /\ cave[c] = "free"
       /\ game = "alive"
       /\ code' = c
       /\ cave' = [cave EXCEPT ![c] = "blank"]
       /\ Catch("site")
       /\ UNCHANGED at
       /\ alloc' = c
       /\ hooked' = TRUE
       /\ step' = "fill"
  /\ UNCHANGED <<gameVars, saved, stuck>>

(* MUTANT of ApplyAlloc: a failed allocation is not noticed.                 *)
ApplyAlloc_Unchecked ==
  /\ step = "alloc"
  /\ alloc' = "none"
  /\ step' = "jump"
  /\ UNCHANGED <<gameVars, memVars, threadVars, hooked, saved, stuck>>

(* AllocNear; a cave kept by a failed Restore is forgotten here.             *)
ApplyAlloc ==
  /\ step = "alloc"
  /\ \/ \E c \in Caves :
          /\ game = "alive"
          /\ cave[c] = "free"
          /\ cave' = [cave EXCEPT ![c] = "blank"]
          /\ alloc' = c
          /\ step' = "fill"
     \/ /\ alloc' = "none"
        /\ step' = "idle"
        /\ UNCHANGED cave
  /\ UNCHANGED <<gameVars, code, threadVars, hooked, saved, stuck>>

(* The instructions are relocated and the cave is written, or one of the     *)
(* refusals in between sends Apply to FreeCave.                              *)
ApplyFill ==
  /\ step = "fill"
  /\ \/ /\ game = "alive"
        /\ cave' = [cave EXCEPT ![alloc] = "ready"]
        /\ step' = "jump"
     \/ /\ step' = "giveUp"
        /\ UNCHANGED cave
  /\ UNCHANGED <<gameVars, code, threadVars, alloc, hooked, saved, stuck>>

ApplyJump ==
  /\ step = "jump"
  /\ \/ /\ WriteSite(alloc)
        /\ hooked' = TRUE
        /\ step' = "idle"
     \/ /\ step' = "giveUp"
        /\ UNCHANGED <<memVars, threadVars, hooked>>
  /\ UNCHANGED <<gameVars, alloc, saved, stuck>>

(* MUTANT of ApplyGiveUp: the block is not freed.                            *)
ApplyGiveUp_KeepsCave ==
  /\ step = "giveUp"
  /\ alloc' = "none"
  /\ hooked' = FALSE
  /\ step' = "idle"
  /\ UNCHANGED <<gameVars, memVars, threadVars, saved, stuck>>

ApplyGiveUp ==
  /\ step = "giveUp"
  /\ FreeCave
  /\ step' = "idle"
  /\ UNCHANGED <<gameVars, saved, stuck>>

-----------------------------------------------------------------------------
(* Restore and Reset.                                                        *)

RestoreBegin ==
  /\ step = "idle"
  /\ hooked
  /\ IF game = "alive"
     THEN /\ step' = "code"
          /\ UNCHANGED <<alloc, hooked>>
     ELSE /\ alloc' = "none"
          /\ hooked' = FALSE
          /\ UNCHANGED step
  /\ UNCHANGED <<gameVars, memVars, threadVars, saved, stuck>>

(* MUTANT of RestoreCode: the cave is freed even when the code is not back.  *)
RestoreCode_FreesAnyway ==
  /\ step = "code"
  /\ \/ WriteSite(saved)
     \/ UNCHANGED <<memVars, threadVars>>
  /\ step' = "free"
  /\ UNCHANGED <<gameVars, alloc, hooked, saved, stuck>>

(* The code first; if that fails the cave is kept, but the patch counts as   *)
(* removed.                                                                  *)
RestoreCode ==
  /\ step = "code"
  /\ \/ /\ WriteSite(saved)
        /\ step' = "free"
        /\ UNCHANGED <<hooked, stuck>>
     \/ /\ game = "alive" => RestoreMayFail
        /\ hooked' = FALSE
        /\ step' = "idle"
        /\ stuck' = (stuck \/ game = "alive")
        /\ UNCHANGED <<memVars, threadVars>>
  /\ UNCHANGED <<gameVars, alloc, saved>>

RestoreFree ==
  /\ step = "free"
  /\ FreeCave
  /\ step' = "idle"
  /\ UNCHANGED <<gameVars, saved, stuck>>

(* MUTANT of Reset: the patch still counts as installed.                     *)
Reset_StaysHooked ==
  /\ step = "idle"
  /\ game = "dead"
  /\ game' = "none"
  /\ alloc' = "none"
  /\ stuck' = FALSE
  /\ UNCHANGED <<games, memVars, threadVars, step, hooked, saved>>

Reset ==
  /\ step = "idle"
  /\ game = "dead"
  /\ game' = "none"
  /\ alloc' = "none"
  /\ hooked' = FALSE
  /\ stuck' = FALSE
  /\ UNCHANGED <<games, memVars, threadVars, step, saved>>

Next ==
  \/ Attach
  \/ GameEnds
  \/ \E t \in Threads : Enter(t) \/ Leave(t)
  \/ ApplyLocate
  \/ ApplyAlloc
  \/ ApplyFill
  \/ ApplyJump
  \/ ApplyGiveUp
  \/ RestoreBegin
  \/ RestoreCode
  \/ RestoreFree
  \/ Reset

Spec == Init /\ [][Next]_vars

-----------------------------------------------------------------------------
(* The jump in the game's code always leads to a complete cave: at every     *)
(* step of Apply and Restore, failed ones included (the order of the two     *)
(* writes, and of restoring and freeing, CavePatch.cpp:214 and :242).        *)
JumpNeverDangling == code # Orig => cave[code] = "ready"

(* A thread is lost only if memory was changed under it: it stood between    *)
(* two stolen instructions when the site was written, or in the cave when    *)
(* the cave was freed.  A thread that reaches the site at any other moment   *)
(* of an installation or a removal passes.                                   *)
OnlyCaughtThreadsCrash == \A t \in Threads : at[t] = "crashed" => caught[t]

(* Between two operations a patch that is not installed has left nothing in  *)
(* the game, neither a jump nor a block of memory, unless a write of the     *)
(* original bytes has failed there.                                          *)
CleanWhenRemoved ==
  step = "idle" /\ ~hooked /\ ~stuck =>
    /\ code = Orig
    /\ \A c \in Caves : cave[c] = "free"

(* Between two operations an installed patch can be removed: the site jumps  *)
(* to the very block the patch will free, and what it will write back is the *)
(* game's own code, unless a write of the original bytes has failed there.   *)
RemovableWhenInstalled ==
  step = "idle" /\ hooked /\ game = "alive" =>
    /\ code = alloc
    /\ stuck \/ saved = Orig

(* Installing and removing a cave is a detour in the sense of module Detour. *)
ReadyCaves == {c \in Caves : cave[c] = "ready"}

Detoured == INSTANCE Detour WITH
  Blocks <- Caves, NoBlock <- Orig, target <- code, complete <- ReadyCaves

ImplementsDetour == Detoured!Spec
=============================================================================
