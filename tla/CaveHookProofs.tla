--------------------------- MODULE CaveHookProofs ---------------------------
(***************************************************************************)
(* Proofs about CaveHook, for every set of caves and of threads and every   *)
(* number of games.                                                         *)
(***************************************************************************)
EXTENDS CaveHook, TLAPS

Allocated == step \in {"fill", "jump", "giveUp"}

(* Outside a running game nothing is in memory; without a handle no          *)
(* operation is under way.                                                   *)
NoGameNoMemory ==
  /\ game # "alive" => code = Orig /\ \A c \in Caves : cave[c] = "free"
  /\ game = "none" => step = "idle" /\ ~hooked

(* What the patch knows of its block while Apply is under way.               *)
ApplyInv ==
  /\ Allocated => alloc \in Caves /\ ~hooked
  /\ step = "alloc" => ~hooked
  /\ game = "alive" /\ step \in ApplySteps => saved = code
  /\ game = "alive" /\ Allocated => code # alloc
  /\ game = "alive" /\ step = "jump" => cave[alloc] = "ready"

(* What it knows while it is installed and while Restore is under way.       *)
RestoreInv ==
  /\ step \in RestoreSteps => hooked
  /\ game = "alive" /\ hooked =>
       /\ alloc \in Caves
       /\ cave[alloc] = "ready"
       /\ saved # alloc
       /\ saved # Orig => cave[saved] = "ready"
       /\ code = IF step = "free" THEN saved ELSE alloc

IInv ==
  /\ TypeOK
  /\ JumpNeverDangling
  /\ NoGameNoMemory
  /\ ApplyInv
  /\ RestoreInv

USE DEF ApplySteps, RestoreSteps, CaveAssumption

LEMMA InitIInv == Init => IInv
<1> SUFFICES ASSUME Init PROVE IInv
  OBVIOUS
<1>1. TypeOK
  <2>1. games \in 0..MaxGames
    BY CaveAssumption DEF Init
  <2>2. at \in [Threads -> {"out", "site", "crashed"} \cup Caves]
    BY DEF Init
  <2> QED
    BY <2>1, <2>2 DEF Init, TypeOK
<1>2. JumpNeverDangling /\ NoGameNoMemory
  BY DEF Init, JumpNeverDangling, NoGameNoMemory
<1>3. ApplyInv /\ RestoreInv
  BY DEF Init, ApplyInv, RestoreInv, Allocated
<1> QED
  BY <1>1, <1>2, <1>3 DEF IInv

(* The type invariant of CaveHook is kept by every step that starts where    *)
(* the rest of the inductive invariant holds too.                            *)
LEMMA TypeStep == IInv /\ [Next]_vars => TypeOK'
<1> SUFFICES ASSUME IInv, [Next]_vars PROVE TypeOK'
  OBVIOUS
<1> USE CaveAssumption DEF IInv, TypeOK
<1>1. CASE Attach
  BY <1>1 DEF Attach, memVars, threadVars, patchVars
<1>2. CASE GameEnds
  BY <1>2 DEF GameEnds, patchVars
<1>3. ASSUME NEW t \in Threads, Enter(t) PROVE TypeOK'
  BY <1>3 DEF Enter, gameVars, memVars, patchVars
<1>4. ASSUME NEW t \in Threads, Leave(t) PROVE TypeOK'
  BY <1>4 DEF Leave, gameVars, memVars, patchVars
<1>5. CASE ApplyLocate
  BY <1>5 DEF ApplyLocate, gameVars, memVars, threadVars
<1>6. CASE ApplyAlloc
  BY <1>6 DEF ApplyAlloc, gameVars, threadVars
<1>7. CASE ApplyFill
  BY <1>7 DEF ApplyFill, gameVars, threadVars
<1>8. CASE ApplyJump
  BY <1>8 DEF ApplyJump, WriteSite, Catch, gameVars, memVars, threadVars, ApplyInv, Allocated
<1>9. CASE ApplyGiveUp
  BY <1>9 DEF ApplyGiveUp, FreeCave, Catch, gameVars
<1>10. CASE RestoreBegin
  BY <1>10 DEF RestoreBegin, gameVars, memVars, threadVars
<1>11. CASE RestoreCode
  BY <1>11 DEF RestoreCode, WriteSite, Catch, gameVars, memVars, threadVars
<1>12. CASE RestoreFree
  BY <1>12 DEF RestoreFree, FreeCave, Catch, gameVars
<1>13. CASE Reset
  BY <1>13 DEF Reset, memVars, threadVars
<1>14. CASE UNCHANGED vars
  BY <1>14 DEF vars, gameVars, memVars, threadVars, patchVars
<1> QED
  BY <1>1, <1>2, <1>3, <1>4, <1>5, <1>6, <1>7, <1>8, <1>9, <1>10, <1>11, <1>12, <1>13, <1>14
     DEF Next

LEMMA IInvStep == IInv /\ [Next]_vars => IInv'
<1> SUFFICES ASSUME IInv, [Next]_vars PROVE IInv'
  OBVIOUS
<1>0. TypeOK'
  BY TypeStep
<1> DEFINE Rest == JumpNeverDangling /\ NoGameNoMemory /\ ApplyInv /\ RestoreInv
<1> SUFFICES Rest'
  BY <1>0 DEF IInv
<1>a. CASE UNCHANGED vars
  BY <1>a DEF vars, gameVars, memVars, threadVars, patchVars, IInv, TypeOK, JumpNeverDangling,
              NoGameNoMemory, ApplyInv, RestoreInv, Allocated
<1> SUFFICES ASSUME Next PROVE Rest'
  BY <1>a
<1> USE CaveAssumption DEF IInv, TypeOK, JumpNeverDangling, NoGameNoMemory, ApplyInv,
                           RestoreInv, Allocated
<1>1. CASE Attach
  BY <1>1 DEF Attach, memVars, threadVars, patchVars
<1>2. CASE GameEnds
  BY <1>2 DEF GameEnds, patchVars
<1>3. ASSUME NEW t \in Threads, Enter(t) PROVE Rest'
  BY <1>3 DEF Enter, gameVars, memVars, patchVars
<1>4. ASSUME NEW t \in Threads, Leave(t) PROVE Rest'
  BY <1>4 DEF Leave, gameVars, memVars, patchVars
<1>5. CASE ApplyLocate
  BY <1>5 DEF ApplyLocate, gameVars, memVars, threadVars
<1>6. CASE ApplyAlloc
  BY <1>6 DEF ApplyAlloc, gameVars, threadVars
<1>7. CASE ApplyFill
  BY <1>7 DEF ApplyFill, gameVars, threadVars
<1>8. CASE ApplyJump
  BY <1>8 DEF ApplyJump, WriteSite, gameVars, memVars, threadVars
<1>9. CASE ApplyGiveUp
  BY <1>9 DEF ApplyGiveUp, FreeCave, gameVars
<1>10. CASE RestoreBegin
  BY <1>10 DEF RestoreBegin, gameVars, memVars, threadVars
<1>11. CASE RestoreCode
  BY <1>11 DEF RestoreCode, WriteSite, gameVars, memVars, threadVars
<1>12. CASE RestoreFree
  BY <1>12 DEF RestoreFree, FreeCave, gameVars
<1>13. CASE Reset
  BY <1>13 DEF Reset, memVars, threadVars
<1> HIDE DEF Rest, IInv, TypeOK, JumpNeverDangling, NoGameNoMemory, ApplyInv, RestoreInv,
             Allocated, ApplySteps, RestoreSteps
<1> QED
  BY <1>1, <1>2, <1>3, <1>4, <1>5, <1>6, <1>7, <1>8, <1>9, <1>10, <1>11, <1>12, <1>13 DEF Next

LEMMA IInvAlways == Spec => []IInv
BY InitIInv, IInvStep, PTL DEF Spec

(* CavePatch and the game stay within their types.                           *)
THEOREM TypeCorrect == Spec => []TypeOK
BY IInvAlways, PTL DEF IInv

(* At every step of Apply and Restore the jump at the site, if there is one, *)
(* leads to a complete cave, however many times writes fail.                 *)
THEOREM JumpSafe == Spec => []JumpNeverDangling
BY IInvAlways, PTL DEF IInv

-----------------------------------------------------------------------------
(* Every step of CaveHook is a step of Detour or leaves it unchanged.        *)

LEMMA DetourStep == IInv /\ [Next]_vars => [Detoured!Next]_(Detoured!detourVars)
<1> SUFFICES ASSUME IInv, [Next]_vars, ~UNCHANGED <<code, ReadyCaves>>
             PROVE Detoured!Next
  BY DEF Detoured!detourVars
<1> USE CaveAssumption DEF IInv, TypeOK
<1>1. ASSUME UNCHANGED memVars PROVE FALSE
  BY <1>1 DEF memVars, ReadyCaves
<1>2. CASE GameEnds
  <2>1. code' = Orig /\ ReadyCaves' = {}
    BY <1>2 DEF GameEnds, ReadyCaves
  <2> QED
    BY <2>1 DEF Detoured!Next, Detoured!End
<1>3. CASE ApplyAlloc
  <2>1. code' = code /\ ReadyCaves' = ReadyCaves
    BY <1>3 DEF ApplyAlloc, ReadyCaves
  <2> QED
    BY <2>1
<1>4. CASE ApplyFill
  <2>1. CASE UNCHANGED cave
    BY <2>1, <1>1, <1>4 DEF ApplyFill, memVars
  <2>2. CASE cave' = [cave EXCEPT ![alloc] = "ready"] /\ game = "alive"
    <3>1. alloc \in Caves /\ code # alloc
      BY <1>4, <2>2 DEF ApplyFill, ApplyInv, Allocated
    <3>2. code' = code /\ ReadyCaves' = ReadyCaves \cup {alloc}
      BY <1>4, <2>2, <3>1 DEF ApplyFill, ReadyCaves
    <3> QED
      BY <3>1, <3>2 DEF Detoured!Next, Detoured!Prepare
  <2> QED
    BY <1>4, <2>1, <2>2 DEF ApplyFill
<1>5. CASE ApplyJump
  <2>1. CASE UNCHANGED memVars
    BY <2>1, <1>1
  <2>2. CASE WriteSite(alloc)
    <3>1. alloc \in ReadyCaves
      BY <1>5, <2>2 DEF ApplyJump, WriteSite, ApplyInv, Allocated, ReadyCaves
    <3>2. code' = alloc /\ ReadyCaves' = ReadyCaves
      BY <2>2 DEF WriteSite, ReadyCaves
    <3>3. alloc \in Caves
      BY <3>1 DEF ReadyCaves
    <3> QED
      BY <3>1, <3>2, <3>3 DEF Detoured!Next, Detoured!Divert
  <2> QED
    BY <1>5, <2>1, <2>2 DEF ApplyJump
<1>6. CASE RestoreCode
  <2>1. CASE UNCHANGED memVars
    BY <2>1, <1>1
  <2>2. CASE WriteSite(saved)
    <3>1. code' = saved /\ ReadyCaves' = ReadyCaves
      BY <2>2 DEF WriteSite, ReadyCaves
    <3>2. CASE saved = Orig
      BY <3>1, <3>2 DEF Detoured!Next, Detoured!Undo
    <3>3. CASE saved # Orig
      <4>1. saved \in Caves /\ saved \in ReadyCaves
        BY <1>6, <2>2, <3>3 DEF RestoreCode, WriteSite, RestoreInv, ReadyCaves
      <4> QED
        BY <3>1, <4>1 DEF Detoured!Next, Detoured!Divert
    <3> QED
      BY <3>2, <3>3
  <2> QED
    BY <1>6, <2>1, <2>2 DEF RestoreCode
<1>7. CASE ApplyGiveUp \/ RestoreFree
  <2>1. FreeCave
    BY <1>7 DEF ApplyGiveUp, RestoreFree
  <2>2. CASE ~(game = "alive" /\ alloc # "none")
    BY <2>1, <2>2, <1>1 DEF FreeCave, memVars
  <2>3. CASE game = "alive" /\ alloc # "none"
    <3>1. alloc \in Caves /\ code # alloc
      BY <1>7, <2>3 DEF ApplyGiveUp, RestoreFree, ApplyInv, RestoreInv, Allocated
    <3>2. code' = code /\ ReadyCaves' = ReadyCaves \ {alloc}
      BY <2>1, <2>3, <3>1 DEF FreeCave, ReadyCaves
    <3> QED
      BY <3>1, <3>2 DEF Detoured!Next, Detoured!Release
  <2> QED
    BY <2>2, <2>3
<1>8. ASSUME NEW t \in Threads, Enter(t) \/ Leave(t) PROVE FALSE
  BY <1>1, <1>8 DEF Enter, Leave
<1>9. ASSUME Attach \/ ApplyLocate \/ RestoreBegin \/ Reset \/ UNCHANGED vars PROVE FALSE
  BY <1>1, <1>9 DEF Attach, ApplyLocate, RestoreBegin, Reset, vars
<1> QED
  BY <1>2, <1>3, <1>4, <1>5, <1>6, <1>7, <1>8, <1>9 DEF Next

(* A cave patch is a detour: control is diverted only to complete code, and  *)
(* no block is given back while control goes there.                          *)
THEOREM CaveHookImplementsDetour == Spec => ImplementsDetour
<1>1. Init => Detoured!Init
  BY DEF Init, Detoured!Init, ReadyCaves
<1> QED
  BY <1>1, IInvAlways, DetourStep, PTL DEF Spec, ImplementsDetour, Detoured!Spec

-----------------------------------------------------------------------------
(* Threads.                                                                  *)

(* Wherever a thread is, the ground under it is sound unless it was changed  *)
(* while the thread stood there.                                             *)
ThreadInv ==
  \A t \in Threads :
    \/ caught[t]
    \/ at[t] = "out"
    \/ at[t] = "site" /\ code = Orig
    \/ at[t] \in Caves /\ cave[at[t]] = "ready"

LEMMA ThreadStep == IInv /\ ThreadInv /\ [Next]_vars => ThreadInv'
<1> SUFFICES ASSUME IInv, ThreadInv, [Next]_vars, NEW t \in Threads
             PROVE (\/ caught[t]
                    \/ at[t] = "out"
                    \/ at[t] = "site" /\ code = Orig
                    \/ at[t] \in Caves /\ cave[at[t]] = "ready")'
  BY DEF ThreadInv
<1> USE CaveAssumption DEF IInv, TypeOK, ThreadInv
<1>1. CASE UNCHANGED <<memVars, threadVars>>
  BY <1>1 DEF memVars, threadVars
<1>2. CASE GameEnds
  BY <1>2 DEF GameEnds
<1>3. ASSUME NEW u \in Threads, Enter(u)
      PROVE (\/ caught[t]
             \/ at[t] = "out"
             \/ at[t] = "site" /\ code = Orig
             \/ at[t] \in Caves /\ cave[at[t]] = "ready")'
  BY <1>3 DEF Enter, memVars, JumpNeverDangling
<1>4. ASSUME NEW u \in Threads, Leave(u)
      PROVE (\/ caught[t]
             \/ at[t] = "out"
             \/ at[t] = "site" /\ code = Orig
             \/ at[t] \in Caves /\ cave[at[t]] = "ready")'
  BY <1>4 DEF Leave, memVars
<1>5. CASE ApplyAlloc
  BY <1>5 DEF ApplyAlloc, threadVars
<1>6. CASE ApplyFill
  BY <1>6 DEF ApplyFill, threadVars
<1>7. CASE ApplyJump
  BY <1>1, <1>7 DEF ApplyJump, WriteSite, Catch
<1>8. CASE RestoreCode
  BY <1>1, <1>8 DEF RestoreCode, WriteSite, Catch
<1>9. CASE ApplyGiveUp \/ RestoreFree
  BY <1>9 DEF ApplyGiveUp, RestoreFree, FreeCave, Catch
<1>10. CASE Attach \/ ApplyLocate \/ RestoreBegin \/ Reset \/ UNCHANGED vars
  BY <1>1, <1>10 DEF Attach, ApplyLocate, RestoreBegin, Reset, vars
<1> QED
  BY <1>2, <1>3, <1>4, <1>5, <1>6, <1>7, <1>8, <1>9, <1>10 DEF Next

(* A thread of the game is lost only if memory was changed under it.         *)
THEOREM ThreadsSafe == Spec => []OnlyCaughtThreadsCrash
<1>1. Init => ThreadInv
  BY DEF Init, ThreadInv
<1>2. ThreadInv => OnlyCaughtThreadsCrash
  BY CaveAssumption DEF ThreadInv, OnlyCaughtThreadsCrash
<1> QED
  BY <1>1, <1>2, IInvAlways, ThreadStep, PTL DEF Spec

-----------------------------------------------------------------------------
(* Nothing is left behind, and what is installed can be removed.             *)

(* As long as no write of the original bytes has failed in this game the     *)
(* patch knows of every block and of the game's own code.                    *)
OwnershipInv ==
  game = "alive" /\ ~stuck =>
    /\ \A c \in Caves : cave[c] # "free" => alloc = c /\ (hooked \/ Allocated)
    /\ ~hooked => code = Orig
    /\ hooked => saved = Orig

LEMMA OwnershipStep == IInv /\ OwnershipInv /\ [Next]_vars => OwnershipInv'
<1> SUFFICES ASSUME IInv, OwnershipInv, [Next]_vars PROVE OwnershipInv'
  OBVIOUS
<1> USE CaveAssumption DEF IInv, TypeOK, OwnershipInv, Allocated
<1>1. CASE Attach
  BY <1>1 DEF Attach, memVars, patchVars, NoGameNoMemory
<1>2. CASE GameEnds \/ Reset
  BY <1>2 DEF GameEnds, Reset
<1>3. ASSUME NEW t \in Threads, Enter(t) PROVE OwnershipInv'
  BY <1>3 DEF Enter, gameVars, memVars, patchVars
<1>4. ASSUME NEW t \in Threads, Leave(t) PROVE OwnershipInv'
  BY <1>4 DEF Leave, gameVars, memVars, patchVars
<1>5. CASE ApplyLocate
  BY <1>5 DEF ApplyLocate, gameVars, memVars
<1>6. CASE ApplyAlloc
  BY <1>6 DEF ApplyAlloc, gameVars, ApplyInv
<1>7. CASE ApplyFill
  BY <1>7 DEF ApplyFill, gameVars, ApplyInv
<1>8. CASE ApplyJump
  BY <1>8 DEF ApplyJump, WriteSite, gameVars, memVars, ApplyInv
<1>9. CASE ApplyGiveUp
  BY <1>9 DEF ApplyGiveUp, FreeCave, gameVars, ApplyInv
<1>10. CASE RestoreBegin
  BY <1>10 DEF RestoreBegin, gameVars, memVars
<1>11. CASE RestoreCode
  <2>1. CASE UNCHANGED <<hooked, stuck>> /\ WriteSite(saved)
    BY <1>11, <2>1 DEF RestoreCode, WriteSite, gameVars, RestoreInv
  <2>2. CASE stuck' = (stuck \/ game = "alive")
    BY <1>11, <2>2 DEF RestoreCode, gameVars
  <2> QED
    BY <1>11, <2>1, <2>2 DEF RestoreCode
<1>12. CASE RestoreFree
  BY <1>12 DEF RestoreFree, FreeCave, gameVars, RestoreInv
<1>13. CASE UNCHANGED vars
  BY <1>13 DEF vars, gameVars, memVars, patchVars
<1> QED
  BY <1>1, <1>2, <1>3, <1>4, <1>5, <1>6, <1>7, <1>8, <1>9, <1>10, <1>11, <1>12, <1>13 DEF Next

LEMMA OwnershipAlways == Spec => []OwnershipInv
<1>1. Init => OwnershipInv
  BY DEF Init, OwnershipInv
<1> QED
  BY <1>1, IInvAlways, OwnershipStep, PTL DEF Spec

(* A patch that is not installed has left nothing in the game.               *)
THEOREM RemovalIsClean == Spec => []CleanWhenRemoved
<1>1. IInv /\ OwnershipInv => CleanWhenRemoved
  BY DEF IInv, TypeOK, OwnershipInv, CleanWhenRemoved, NoGameNoMemory, Allocated
<1> QED
  BY <1>1, IInvAlways, OwnershipAlways, PTL

(* An installed patch holds what it needs to be removed.                     *)
THEOREM InstalledIsRemovable == Spec => []RemovableWhenInstalled
<1>1. IInv /\ OwnershipInv => RemovableWhenInstalled
  BY DEF IInv, TypeOK, OwnershipInv, RemovableWhenInstalled, RestoreInv
<1> QED
  BY <1>1, IInvAlways, OwnershipAlways, PTL
=============================================================================
