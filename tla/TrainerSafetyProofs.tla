------------------------ MODULE TrainerSafetyProofs ------------------------
(***************************************************************************)
(* More proofs about Trainer: the switches, the deadlines, what stands at   *)
(* the sites in the game, the end of the program and the tasks, for every   *)
(* registry of options and patches and all bounds.                          *)
(***************************************************************************)
EXTENDS TrainerProofs, FiniteSetTheorems

USE DEF sessionVars, inputVars, userVars

N(o) == Len(PatchSeq[o])
P(o, i) == PatchSeq[o][i]

-----------------------------------------------------------------------------
(* The kinds of steps.                                                       *)

(* The first step of a call, whoever makes it.                               *)
Switching ==
  \E by \in Callers, o \in Options, want \in BOOLEAN :
    SetEnabled(by, o, want, processId, OpenHandles)

Steady == UNCHANGED <<enabled, autoOff, patchIn, saved, call>>

LEMMA OpenHandlesType ==
  ASSUME TypeInv
  PROVE  OpenHandles \in SUBSET Handles
BY TypeInvParts, ProcAssumption
DEF ProcAssumption, OptionTypeOK, TrainerTypeOK, NoProc, Handles, OpenHandles, NoCall

LEMMA StepKinds ==
  ASSUME TypeInv, [Next]_vars
  PROVE  \/ Switching /\ UNCHANGED <<procVars, mem, processId>>
         \/ CallSteps /\ UNCHANGED <<procVars, mem, processId, pc, cur, ui, batch, queue>>
         \/ WorkerLosesGame
         \/ \E o \in Options : Timer(o)
         \/ Steady
<1>0. /\ TrainerTypeOK /\ Phases /\ NumOptions \in Nat /\ Options = 1..NumOptions
  BY TypeInvParts, OptionAssumption DEF OptionAssumption, Options
<1>1. CASE UNCHANGED vars
  BY <1>1 DEF vars, optionVars, patchVars, Steady
<1>2. CASE Environment
  BY <1>2 DEF Environment, Start, GameExits, GameWrites, Steady, optionVars, patchVars
<1>3. CASE Worker
  <2>1. CASE WorkerHotkey
    <3>1. cur \in Options /\ (IsOneShot(cur) \/ ~enabled[cur]) \in BOOLEAN
      BY <2>1, <1>0 DEF WorkerHotkey, TrainerTypeOK
    <3>2. SetEnabled("hotkey", cur, IsOneShot(cur) \/ ~enabled[cur], processId, OpenHandles)
      BY <2>1 DEF WorkerHotkey, ToggleByHotkey
    <3>3. Switching
      BY <3>1, <3>2 DEF Switching, Callers
    <3> QED
      BY <2>1, <3>3 DEF WorkerHotkey
  <2>2. CASE WorkerAutoOff
    <3>1. cur \in Options
      BY <2>2, <1>0 DEF WorkerAutoOff, Phases
    <3>2. Switching
      BY <2>2, <3>1 DEF WorkerAutoOff, AutoOff, Switching, Callers
    <3> QED
      BY <2>2, <3>2 DEF WorkerAutoOff
  <2>3. CASE WorkerTick
    BY <2>3 DEF WorkerTick, TickPatches, optionVars, patchVars, Steady
  <2> QED
    BY <1>3, <2>1, <2>2, <2>3
    DEF Worker, WorkerStops, WorkerKeepsGame, WorkerSkipsSearch, WorkerSearches, WorkerOpens,
        WorkerSwaps, WorkerTasksDone, WorkerNoHotkey, WorkerNext, optionVars, patchVars, Steady
<1>4. CASE RunTask
  <2>1. Head(batch) \in Tasks
    BY <1>4, <1>0 DEF RunTask, TrainerTypeOK
  <2>2. Head(batch).opt \in Options /\ Head(batch).want \in BOOLEAN
    BY <2>1 DEF Tasks
  <2>3. Switching
    BY <1>4, <2>2 DEF RunTask, Switching, Callers
  <2> QED
    BY <1>4, <2>3 DEF RunTask, workerVars
<1>5. CASE CallStep
  BY <1>5 DEF CallStep, CallSteps, workerVars, taskVars
<1>6. CASE UiProgress
  <2>1. CASE UiDisable
    <3>1. cur \in Options
      BY <2>1, <1>0 DEF UiDisable, TrainerTypeOK
    <3>2. Switching \/ UNCHANGED optionVars
      BY <2>1, <3>1 DEF UiDisable, Switching, Callers
    <3> QED
      BY <2>1, <3>2 DEF UiDisable, workerVars, optionVars, patchVars, Steady
  <2> QED
    BY <1>6, <2>1
    DEF UiProgress, UiPost, UiJoin, UiTasksDone, UiExit, optionVars, patchVars, Steady
<1>7. CASE User
  BY <1>7 DEF User, UiStart, UiClick, UiClose, optionVars, patchVars, Steady
<1> QED
  BY <1>1, <1>2, <1>3, <1>4, <1>5, <1>6, <1>7 DEF Next, Exited

(* What Return and Continue leave of a call.                                 *)
LEMMA CallEffect ==
  ASSUME NEW by, NEW o \in Options
  PROVE  /\ Return(by, o) => call' = NoCall
         /\ \A step, at, h :
              Continue(by, o, step, at, h) =>
                /\ call' # NoCall
                /\ call'.opt = o /\ call'.step = step /\ call'.at = at /\ call'.mem = h
<1>1. ASSUME NEW step, NEW at, NEW h, Continue(by, o, step, at, h)
      PROVE  /\ call' = [by |-> by, opt |-> o, step |-> step, at |-> at, mem |-> h]
  BY <1>1 DEF Continue
<1>2. o # NoCall.opt
  BY OptionAssumption DEF OptionAssumption, Options, NoCall
<1> QED
  BY <1>1, <1>2 DEF Return

(* What the first step of a call may be: nothing to do, a refusal, the       *)
(* first patch, the patches forgotten with their process, the last patch,    *)
(* or just the switch.                                                       *)
LEMMA SetEnabledCases ==
  ASSUME TypeInv, NEW by, NEW o \in Options, NEW want, NEW pid, NEW hs,
         SetEnabled(by, o, want, pid, hs)
  PROVE  /\ call = NoCall /\ UNCHANGED <<site, saved>>
         /\ \/ UNCHANGED <<enabled, autoOff, patchIn>> /\ Return(by, o)
            \/ /\ UNCHANGED <<enabled, autoOff, patchIn>>
               /\ ~(enabled[o] /\ ~IsOneShot(o))
               /\ \E h \in OpenResults(pid, hs) : h # NoProc /\ Continue(by, o, "apply", 1, h)
            \/ /\ autoOff' = [autoOff EXCEPT ![o] = "none"]
               /\ \/ /\ enabled' = [enabled EXCEPT ![o] = FALSE]
                     /\ NoProc \in OpenResults(pid, hs)
                     /\ ResetPatches(PatchesOf(o))
                     /\ Return(by, o)
                  \/ /\ UNCHANGED <<enabled, patchIn>>
                     /\ enabled[o] /\ ~IsOneShot(o)
                     /\ \E h \in OpenResults(pid, hs) :
                          h # NoProc /\ Continue(by, o, "restore", N(o), h)
                  \/ /\ enabled' = [enabled EXCEPT ![o] = FALSE]
                     /\ ~(enabled[o] /\ ~IsOneShot(o))
                     /\ UNCHANGED patchIn
                     /\ Return(by, o)
<1>1. CASE Enable(by, o, pid, hs)
  <2>1. call = NoCall /\ UNCHANGED <<site, saved, enabled, autoOff, patchIn>>
    BY <1>1 DEF SetEnabled, Enable
  <2>2. CASE enabled[o] /\ ~IsOneShot(o)
    BY <1>1, <2>1, <2>2 DEF Enable
  <2>3. CASE ~(enabled[o] /\ ~IsOneShot(o))
    <3>1. PICK h \in OpenResults(pid, hs) :
            IF h = NoProc THEN Return(by, o) ELSE Continue(by, o, "apply", 1, h)
      BY <1>1, <2>3 DEF Enable
    <3> QED
      BY <2>1, <2>3, <3>1
  <2> QED
    BY <2>2, <2>3
<1>2. CASE Disable(by, o, pid, hs)
  <2>1. call = NoCall /\ UNCHANGED <<site, saved>> /\ autoOff' = [autoOff EXCEPT ![o] = "none"]
    BY <1>2 DEF SetEnabled, Disable
  <2>2. CASE enabled[o] /\ ~IsOneShot(o)
    <3>1. PICK h \in OpenResults(pid, hs) :
            IF h = NoProc
            THEN /\ ResetPatches(PatchesOf(o))
                 /\ enabled' = [enabled EXCEPT ![o] = FALSE]
                 /\ Return(by, o)
            ELSE /\ Continue(by, o, "restore", Len(PatchSeq[o]), h)
                 /\ UNCHANGED <<enabled, patchIn>>
      BY <1>2, <2>2 DEF Disable
    <3> QED
      BY <2>1, <2>2, <3>1 DEF N
  <2>3. CASE ~(enabled[o] /\ ~IsOneShot(o))
    BY <1>2, <2>1, <2>3 DEF Disable
  <2> QED
    BY <2>2, <2>3
<1> QED
  BY <1>1, <1>2 DEF SetEnabled

-----------------------------------------------------------------------------
(* Deadlines.  One goes before its switch does.                              *)

Deadlines ==
  /\ DeadlineBelongsToSwitch
  /\ call.step = "restore" => autoOff[call.opt] = "none"

LEMMA SwitchingDeadlines ==
  ASSUME TypeInv, Deadlines, Switching
  PROVE  Deadlines'
<1>0. OptionTypeOK
  BY TypeInvParts
<1>1. PICK by \in Callers, o \in Options, want \in BOOLEAN :
        SetEnabled(by, o, want, processId, OpenHandles)
  BY DEF Switching
<1>2. CASE UNCHANGED <<enabled, autoOff>> /\ (call' = NoCall \/ call'.step = "apply")
  BY <1>2 DEF Deadlines, DeadlineBelongsToSwitch, NoCall
<1>3. CASE /\ autoOff' = [autoOff EXCEPT ![o] = "none"]
           /\ enabled' = [enabled EXCEPT ![o] = FALSE]
           /\ call' = NoCall
  <2>1. \A q \in Options : autoOff'[q] # "none" => enabled'[q]
    BY <1>0, <1>3 DEF Deadlines, DeadlineBelongsToSwitch, OptionTypeOK
  <2> QED
    BY <2>1, <1>3 DEF Deadlines, DeadlineBelongsToSwitch, NoCall
<1>4. CASE /\ autoOff' = [autoOff EXCEPT ![o] = "none"]
           /\ UNCHANGED enabled
           /\ call'.opt = o
  <2>1. \A q \in Options : autoOff'[q] # "none" => enabled'[q]
    BY <1>0, <1>4 DEF Deadlines, DeadlineBelongsToSwitch, OptionTypeOK
  <2> QED
    BY <2>1, <1>0, <1>4 DEF Deadlines, DeadlineBelongsToSwitch, OptionTypeOK
<1>5. \/ UNCHANGED <<enabled, autoOff>> /\ (call' = NoCall \/ call'.step = "apply")
      \/ /\ autoOff' = [autoOff EXCEPT ![o] = "none"]
         /\ \/ enabled' = [enabled EXCEPT ![o] = FALSE] /\ call' = NoCall
            \/ UNCHANGED enabled /\ call'.opt = o
  <2>1. ASSUME NEW h, NEW i, Continue(by, o, "apply", i, h)
        PROVE  call'.step = "apply"
    BY <2>1, CallEffect
  <2>2. ASSUME NEW h, NEW i, Continue(by, o, "restore", i, h)
        PROVE  call'.opt = o
    BY <2>2, CallEffect
  <2>3. Return(by, o) => call' = NoCall
    BY CallEffect
  <2> QED
    BY <1>1, <2>1, <2>2, <2>3, SetEnabledCases, Zenon
<1> QED
  BY <1>2, <1>3, <1>4, <1>5

LEMMA CallStepsDeadlines ==
  ASSUME TypeInv, Deadlines, CallSteps
  PROVE  Deadlines'
<1>0. OptionTypeOK
  BY TypeInvParts
<1>1. call.opt \in Options
  BY <1>0 DEF CallSteps, ApplyPatch, FinishEnable, RestorePatch, FinishRollback, FinishDisable,
              OptionTypeOK, NoCall
<1>2. CASE ApplyPatch \/ RestorePatch
  <2>1. UNCHANGED <<enabled, autoOff>> /\ call'.opt = call.opt
    BY <1>2 DEF ApplyPatch, RestorePatch, Continue
  <2>2. call'.step = "restore" => call.step = "restore"
    BY <1>2 DEF ApplyPatch, RestorePatch, Continue
  <2> QED
    BY <2>1, <2>2 DEF Deadlines, DeadlineBelongsToSwitch
<1>3. CASE FinishEnable
  <2>1. /\ enabled' = [enabled EXCEPT ![call.opt] = TRUE]
        /\ \A q \in Options : q # call.opt => autoOff'[q] = autoOff[q]
        /\ call' = NoCall
    BY <1>0, <1>3 DEF FinishEnable, Return, OptionTypeOK
  <2>2. \A q \in Options : autoOff'[q] # "none" => enabled'[q]
    BY <1>0, <2>1 DEF Deadlines, DeadlineBelongsToSwitch, OptionTypeOK
  <2> QED
    BY <2>1, <2>2 DEF Deadlines, DeadlineBelongsToSwitch, NoCall
<1>4. CASE FinishRollback
  BY <1>4 DEF FinishRollback, Return, Deadlines, DeadlineBelongsToSwitch, NoCall
<1>5. CASE FinishDisable
  <2>1. /\ enabled' = [enabled EXCEPT ![call.opt] = FALSE]
        /\ UNCHANGED autoOff /\ autoOff[call.opt] = "none"
        /\ call' = NoCall
    BY <1>5 DEF FinishDisable, Return, Deadlines
  <2>2. \A q \in Options : autoOff'[q] # "none" => enabled'[q]
    BY <1>0, <2>1 DEF Deadlines, DeadlineBelongsToSwitch, OptionTypeOK
  <2> QED
    BY <2>1, <2>2 DEF Deadlines, DeadlineBelongsToSwitch, NoCall
<1> QED
  BY <1>2, <1>3, <1>4, <1>5 DEF CallSteps

LEMMA DeadlinesNext == TypeInv /\ Session /\ Deadlines /\ [Next]_vars => Deadlines'
<1> SUFFICES ASSUME TypeInv, Session, Deadlines, [Next]_vars PROVE Deadlines'
  OBVIOUS
<1>0. OptionTypeOK
  BY TypeInvParts
<1>1. CASE WorkerLosesGame
  <2>1. call = NoCall /\ call' = call
    BY <1>1 DEF WorkerLosesGame, ProcessLost, Session, WorkerCalls
  <2>2. \A o \in Options : autoOff'[o] = "none"
    BY <1>1 DEF WorkerLosesGame, ProcessLost
  <2> QED
    BY <2>1, <2>2 DEF Deadlines, DeadlineBelongsToSwitch, NoCall
<1>2. ASSUME NEW o \in Options, Timer(o)
      PROVE  Deadlines'
  <2>1. /\ autoOff[o] # "none" /\ autoOff' = [autoOff EXCEPT ![o] = "due"]
        /\ UNCHANGED <<enabled, call>>
    BY <1>2 DEF Timer, TimerElapses
  <2>2. \A q \in Options : autoOff'[q] # "none" <=> autoOff[q] # "none"
    BY <1>0, <2>1 DEF OptionTypeOK
  <2>3. call.step = "restore" => call.opt \in Options
    BY <1>0 DEF OptionTypeOK, NoCall
  <2> QED
    BY <2>1, <2>2, <2>3 DEF Deadlines, DeadlineBelongsToSwitch
<1>3. CASE Steady
  BY <1>3 DEF Steady, Deadlines, DeadlineBelongsToSwitch
<1> QED
  BY <1>1, <1>2, <1>3, StepKinds, SwitchingDeadlines, CallStepsDeadlines

(* A deadline never outlives the switch it belongs to, so it cannot switch   *)
(* off a later activation (CheatOption.cpp, m_autoOffPending).               *)
THEOREM DeadlinesBelong == Spec => []DeadlineBelongsToSwitch
<1>1. Init => Deadlines
  BY DEF Init, OptionInit, Deadlines, DeadlineBelongsToSwitch, NoCall
<1>2. Deadlines => DeadlineBelongsToSwitch
  BY DEF Deadlines
<1> QED
  BY <1>1, <1>2, DeadlinesNext, SessionAlways, PTL DEF Spec

-----------------------------------------------------------------------------
(* Switches.  How far the patches of an option are applied: all when it is   *)
(* on, none when it is off, those the call has come to when it is being      *)
(* switched.                                                                 *)

(* One-shot writes are not remembered, and a patch of no option is not used. *)
Untouched ==
  \A p \in Patches :
    Kind[p] = "write" \/ (\A o \in Options : p \notin PatchesOf(o)) => patchIn[p] = NoProc

OnIsApplied ==
  \A o \in Options : call.opt # o /\ enabled[o] =>
    \A i \in 1..N(o) : Kind[P(o, i)] # "write" => patchIn[P(o, i)] # NoProc

OffIsRemoved ==
  \A o \in Options : call.opt # o /\ ~enabled[o] =>
    \A i \in 1..N(o) : patchIn[P(o, i)] = NoProc

(* Applied below n, and not from n on.                                       *)
AppliedBelow(o, n) ==
  \A i \in 1..N(o) : i < n /\ Kind[P(o, i)] # "write" => patchIn[P(o, i)] # NoProc

RemovedFrom(o, n) == \A i \in 1..N(o) : i >= n => patchIn[P(o, i)] = NoProc

CallProgress ==
  call # NoCall =>
    /\ call.step = "apply" => AppliedBelow(call.opt, call.at) /\ RemovedFrom(call.opt, call.at)
    /\ call.step # "apply" => RemovedFrom(call.opt, call.at + 1)
    /\ call.step = "restore" <=> enabled[call.opt] /\ ~IsOneShot(call.opt)

Switches == Untouched /\ OnIsApplied /\ OffIsRemoved /\ CallProgress

LEMMA OwnPatches ==
  ASSUME NEW o \in Options
  PROVE  /\ N(o) \in Nat
         /\ \A i \in 1..N(o) : P(o, i) \in Patches /\ P(o, i) \in PatchesOf(o)
         /\ \A p \in PatchesOf(o) : \E i \in 1..N(o) : p = P(o, i)
         /\ \A q \in Options : \A i \in 1..N(o), j \in 1..N(q) :
              P(o, i) = P(q, j) => o = q /\ i = j
<1>1. \A q \in Options : \A i \in 1..N(o), j \in 1..N(q) : P(o, i) = P(q, j) => o = q /\ i = j
  BY OptionAssumption DEF OptionAssumption, N, P
<1> QED
  BY <1>1, PatchSeqType DEF N, P, PatchesOf

LEMMA NoCallOption == NoCall.opt \notin Options
BY OptionAssumption DEF OptionAssumption, Options, NoCall

LEMMA SwitchingSwitches ==
  ASSUME TypeInv, Switches, Switching
  PROVE  Switches'
<1>0. OptionTypeOK
  BY TypeInvParts
<1>1. PICK by \in Callers, o \in Options, want \in BOOLEAN :
        SetEnabled(by, o, want, processId, OpenHandles)
  BY DEF Switching
<1>2. call = NoCall /\ call.opt \notin Options
  BY <1>1, NoCallOption, SetEnabledCases
<1>3. CASE UNCHANGED <<enabled, patchIn>> /\ call' = NoCall
  BY <1>2, <1>3 DEF Switches, Untouched, OnIsApplied, OffIsRemoved, CallProgress
(* A one-shot option that is on has nothing remembered either.               *)
<1>4. ASSUME ~(enabled[o] /\ ~IsOneShot(o))
      PROVE  \A i \in 1..N(o) : patchIn[P(o, i)] = NoProc
  <2>1. CASE ~enabled[o]
    BY <1>2, <2>1 DEF Switches, OffIsRemoved
  <2>2. CASE IsOneShot(o)
    BY <2>2, OwnPatches DEF Switches, Untouched, IsOneShot
  <2> QED
    BY <1>4, <2>1, <2>2
<1>5. CASE /\ UNCHANGED <<enabled, patchIn>>
           /\ ~(enabled[o] /\ ~IsOneShot(o))
           /\ call'.opt = o /\ call'.step = "apply" /\ call'.at = 1
  <2>1. Untouched' /\ OnIsApplied' /\ OffIsRemoved'
    BY <1>2, <1>5 DEF Switches, Untouched, OnIsApplied, OffIsRemoved
  <2>2. RemovedFrom(o, 1)' /\ AppliedBelow(o, 1)'
    BY <1>4, <1>5, OwnPatches DEF RemovedFrom, AppliedBelow
  <2>3. CallProgress'
    BY <1>5, <2>2 DEF CallProgress, RemovedFrom, AppliedBelow
  <2> QED
    BY <2>1, <2>3 DEF Switches
<1>6. CASE /\ enabled' = [enabled EXCEPT ![o] = FALSE]
           /\ call' = NoCall
           /\ ResetPatches(PatchesOf(o)) \/ (UNCHANGED patchIn /\ ~(enabled[o] /\ ~IsOneShot(o)))
  <2>1. \A i \in 1..N(o) : patchIn'[P(o, i)] = NoProc
    BY <1>4, <1>6, OwnPatches DEF ResetPatches
  <2>2. \A q \in Options : q # o => \A i \in 1..N(q) : patchIn'[P(q, i)] = patchIn[P(q, i)]
    <3>1. CASE UNCHANGED patchIn
      BY <3>1
    <3>2. CASE ResetPatches(PatchesOf(o))
      <4>1. ASSUME NEW q \in Options, q # o, NEW i \in 1..N(q)
            PROVE  P(q, i) \in Patches \ PatchesOf(o)
        BY <4>1, OwnPatches
      <4> QED
        BY <3>2, <4>1 DEF ResetPatches
    <3> QED
      BY <1>6, <3>1, <3>2
  <2>3. \A p \in Patches : patchIn'[p] \in {patchIn[p], NoProc}
    BY <1>6 DEF ResetPatches
  <2>4. Untouched'
    BY <2>3 DEF Switches, Untouched
  <2>5. \A q \in Options : enabled'[q] = (q # o /\ enabled[q])
    BY <1>0, <1>6 DEF OptionTypeOK
  <2>6. OnIsApplied'
    BY <1>2, <2>2, <2>5 DEF Switches, OnIsApplied
  <2>7. OffIsRemoved'
    BY <1>2, <2>1, <2>2, <2>5 DEF Switches, OffIsRemoved
  <2>8. CallProgress'
    BY <1>6 DEF CallProgress
  <2> QED
    BY <2>4, <2>6, <2>7, <2>8 DEF Switches
<1>7. CASE /\ UNCHANGED <<enabled, patchIn>>
           /\ enabled[o] /\ ~IsOneShot(o)
           /\ call'.opt = o /\ call'.step = "restore" /\ call'.at = N(o)
  <2>1. Untouched' /\ OnIsApplied' /\ OffIsRemoved'
    BY <1>2, <1>7 DEF Switches, Untouched, OnIsApplied, OffIsRemoved
  <2>2. RemovedFrom(o, N(o) + 1)'
    BY OwnPatches DEF RemovedFrom
  <2>3. CallProgress'
    BY <1>7, <2>2 DEF CallProgress, RemovedFrom
  <2> QED
    BY <2>1, <2>3 DEF Switches
<1>8. \A h, i, step :
        Continue(by, o, step, i, h) => call'.opt = o /\ call'.step = step /\ call'.at = i
  BY CallEffect
<1>9. Return(by, o) => call' = NoCall
  BY CallEffect
<1> QED
  BY <1>1, <1>3, <1>5, <1>6, <1>7, <1>8, <1>9, SetEnabledCases, Zenon

(* A call under way is about an option and stands at one of its patches.     *)
LEMMA CallUnderWay ==
  ASSUME TypeInv, Session, CallSteps
  PROVE  /\ call # NoCall /\ call.opt \in Options /\ call.mem # NoProc /\ call.mem \in Handles
         /\ call.at \in Nat /\ call.by \in Callers
         /\ ApplyPatch => call.at \in 1..N(call.opt)
         /\ FinishEnable => call.at = N(call.opt) + 1
         /\ RestorePatch => call.at \in 1..N(call.opt)
<1>1. /\ call # NoCall /\ call \in CallType
      /\ call.step \in {"apply", "rollback", "restore"}
  BY TypeInvParts
  DEF CallSteps, ApplyPatch, FinishEnable, RestorePatch, FinishRollback, FinishDisable,
      OptionTypeOK, CallType, NoCall, Steps
<1>2. /\ call.opt \in Options /\ call.at \in Nat /\ N(call.opt) \in Nat /\ call.mem \in Handles
      /\ call.by \in Callers
  BY <1>1, OwnPatches DEF CallType
<1>3. CallBounds /\ call.mem # NoProc
  BY <1>1, TypeInvParts DEF Session, WorkerCalls
<1> QED
  BY <1>1, <1>2, <1>3 DEF CallBounds, ApplyPatch, FinishEnable, RestorePatch, N

(* One patch of the call's option is applied or taken back.                  *)
LEMMA OnePatchSwitches ==
  ASSUME TypeInv, Switches, call # NoCall, call.opt \in Options,
         NEW n \in 1..N(call.opt), NEW v,
         UNCHANGED enabled, call'.opt = call.opt,
         \A q \in Patches : patchIn'[q] = IF q = P(call.opt, n) THEN v ELSE patchIn[q],
         Kind[P(call.opt, n)] = "write" => v = NoProc
  PROVE  Untouched' /\ OnIsApplied' /\ OffIsRemoved'
<1>1. P(call.opt, n) \in Patches /\ P(call.opt, n) \in PatchesOf(call.opt)
  BY OwnPatches
<1>2. ASSUME NEW q \in Options, q # call.opt, NEW i \in 1..N(q)
      PROVE  patchIn'[P(q, i)] = patchIn[P(q, i)]
  BY <1>2, OwnPatches
<1>3. Untouched'
  BY <1>1 DEF Switches, Untouched
<1>4. OnIsApplied' /\ OffIsRemoved'
  BY <1>2 DEF Switches, OnIsApplied, OffIsRemoved
<1> QED
  BY <1>3, <1>4

LEMMA CallStepsSwitches ==
  ASSUME TypeInv, Session, Switches, CallSteps
  PROVE  Switches'
<1>p. PICK o \in Options, at \in Nat, by \in Callers, h \in Handles :
        o = call.opt /\ at = call.at /\ by = call.by /\ h = call.mem
  BY CallUnderWay
<1>0. /\ call # NoCall /\ o = call.opt /\ at = call.at /\ h = call.mem /\ h # NoProc
      /\ N(o) \in Nat /\ OptionTypeOK
  BY <1>p, CallUnderWay, OwnPatches, TypeInvParts
<1>1. CASE ApplyPatch
  <2> DEFINE p == P(o, at)
  <2>1. /\ at \in 1..N(o) /\ call.step = "apply" /\ UNCHANGED enabled /\ p \in Patches
    BY <1>0, <1>1, CallUnderWay, OwnPatches DEF ApplyPatch
  <2>2. /\ AppliedBelow(o, at) /\ RemovedFrom(o, at) /\ ~(enabled[o] /\ ~IsOneShot(o))
        /\ patchIn[p] = NoProc
    BY <1>0, <2>1 DEF Switches, CallProgress, RemovedFrom
  <2>3. CASE /\ PatchApplies(p, h)
             /\ Continue(by, o, "apply", at + 1, h)
    <3>1. /\ call' # NoCall /\ call'.opt = o /\ call'.step = "apply" /\ call'.at = at + 1
      BY <2>3, CallEffect
    <3>2. \A q \in Patches : patchIn'[q] =
            IF q = p THEN (IF Kind[p] = "write" THEN NoProc ELSE h) ELSE patchIn[q]
      BY <1>0, <2>1, <2>2, <2>3 DEF PatchApplies, OptionTypeOK
    <3>3. Untouched' /\ OnIsApplied' /\ OffIsRemoved'
      BY <1>0, <2>1, <3>1, <3>2, OnePatchSwitches
    <3>4. \A i \in 1..N(o) : i # at => patchIn'[P(o, i)] = patchIn[P(o, i)]
      BY <1>0, <2>1, <3>2, OwnPatches
    <3>5. AppliedBelow(o, at + 1)'
      BY <1>0, <2>1, <2>2, <3>2, <3>4 DEF AppliedBelow
    <3>6. RemovedFrom(o, at + 1)'
      BY <1>0, <2>1, <2>2, <3>4 DEF RemovedFrom
    <3>7. CallProgress'
      BY <3>1, <3>5, <3>6, <2>1, <2>2 DEF CallProgress, AppliedBelow, RemovedFrom
    <3> QED
      BY <3>3, <3>7 DEF Switches
  <2>4. CASE /\ UNCHANGED patchIn
             /\ Continue(by, o, "rollback", at - 1, h)
    <3>1. /\ call'.opt = o /\ call'.step = "rollback" /\ call'.at = at - 1
      BY <2>4, CallEffect
    <3>2. Untouched' /\ OnIsApplied' /\ OffIsRemoved'
      BY <1>0, <2>1, <2>4, <3>1 DEF Switches, Untouched, OnIsApplied, OffIsRemoved
    <3>3. (at - 1) + 1 = at
      BY <1>0
    <3>4. CallProgress'
      BY <2>1, <2>2, <2>4, <3>1, <3>3 DEF CallProgress, RemovedFrom
    <3> QED
      BY <3>2, <3>4 DEF Switches
  <2>5. ~AlreadyApplied(p)
    BY <2>2 DEF AlreadyApplied
  <2> QED
    BY <1>p, <1>1, <2>3, <2>4, <2>5 DEF ApplyPatch, P
<1>2. CASE RestorePatch
  <2> DEFINE p == P(o, at)
  <2>1. /\ at \in 1..N(o) /\ call.step \in {"rollback", "restore"} /\ UNCHANGED enabled
        /\ p \in Patches
    BY <1>0, <1>2, CallUnderWay, OwnPatches DEF RestorePatch
  <2>2. RemovedFrom(o, at + 1) /\ (call.step = "restore" <=> enabled[o] /\ ~IsOneShot(o))
    BY <1>0, <2>1 DEF Switches, CallProgress
  <2>3. \A q \in Patches : patchIn'[q] = IF q = p THEN NoProc ELSE patchIn[q]
    BY <1>0, <1>2, <2>1 DEF RestorePatch, PatchRestores, OptionTypeOK, P
  <2>4. call'.opt = o /\ call'.step = call.step /\ call'.at = at - 1
    <3>1. Continue(by, o, call.step, at - 1, h)
      BY <1>p, <1>2 DEF RestorePatch
    <3> QED
      BY <3>1, CallEffect
  <2>5. Untouched' /\ OnIsApplied' /\ OffIsRemoved'
    BY <1>0, <2>1, <2>3, <2>4, OnePatchSwitches
  <2>6. (at - 1) + 1 = at
    BY <1>0
  <2>7. RemovedFrom(o, at)'
    <3>1. ASSUME NEW i \in 1..N(o), i >= at PROVE patchIn'[P(o, i)] = NoProc
      BY <1>0, <2>2, <2>3, <3>1, OwnPatches DEF RemovedFrom
    <3> QED
      BY <3>1 DEF RemovedFrom
  <2>8. CallProgress'
    BY <2>1, <2>2, <2>4, <2>6, <2>7 DEF CallProgress, RemovedFrom
  <2> QED
    BY <2>5, <2>8 DEF Switches
<1>3. CASE FinishEnable
  <2>1. /\ call.step = "apply" /\ at = N(o) + 1 /\ call' = NoCall /\ UNCHANGED patchIn
        /\ enabled' = [enabled EXCEPT ![o] = TRUE]
    BY <1>0, <1>3, CallUnderWay, CallEffect DEF FinishEnable
  <2>2. \A i \in 1..N(o) : Kind[P(o, i)] # "write" => patchIn[P(o, i)] # NoProc
    BY <1>0, <2>1 DEF Switches, CallProgress, AppliedBelow
  <2>3. \A q \in Options : enabled'[q] = (q = o \/ enabled[q])
    BY <1>0, <2>1 DEF OptionTypeOK
  <2>4. Untouched' /\ CallProgress'
    BY <2>1 DEF Switches, Untouched, CallProgress
  <2>5. OnIsApplied'
    BY <1>0, <2>1, <2>2, <2>3 DEF Switches, OnIsApplied
  <2>6. OffIsRemoved'
    BY <1>0, <2>1, <2>3 DEF Switches, OffIsRemoved
  <2> QED
    BY <2>4, <2>5, <2>6 DEF Switches
<1>4. CASE FinishRollback \/ FinishDisable
  <2>1. /\ call.step \in {"rollback", "restore"} /\ at = 0 /\ call' = NoCall /\ UNCHANGED patchIn
    BY <1>0, <1>4, CallEffect DEF FinishRollback, FinishDisable
  <2>2. \A i \in 1..N(o) : patchIn[P(o, i)] = NoProc
    BY <1>0, <2>1 DEF Switches, CallProgress, RemovedFrom
  <2>3. Untouched' /\ CallProgress'
    BY <2>1 DEF Switches, Untouched, CallProgress
  <2>4. \A q \in Options : enabled'[q] => enabled[q] /\ (q = o => IsOneShot(q))
    <3>1. CASE FinishDisable
      BY <1>0, <3>1 DEF FinishDisable, OptionTypeOK
    <3>2. CASE FinishRollback
      BY <1>0, <3>2 DEF FinishRollback, Switches, CallProgress
    <3> QED
      BY <1>4, <3>1, <3>2
  <2>5. \A q \in Options : q # o => enabled'[q] = enabled[q]
    BY <1>0, <1>4 DEF FinishRollback, FinishDisable, OptionTypeOK
  <2>6. OnIsApplied'
    <3>1. IsOneShot(o) => \A i \in 1..N(o) : Kind[P(o, i)] = "write"
      BY <1>0, OwnPatches DEF IsOneShot
    <3> QED
      BY <1>0, <2>1, <2>4, <3>1 DEF Switches, OnIsApplied
  <2>7. OffIsRemoved'
    BY <1>0, <2>1, <2>2, <2>5 DEF Switches, OffIsRemoved
  <2> QED
    BY <2>3, <2>6, <2>7 DEF Switches
<1> QED
  BY <1>1, <1>2, <1>3, <1>4 DEF CallSteps

LEMMA SwitchesNext == TypeInv /\ Session /\ Switches /\ [Next]_vars => Switches'
<1> SUFFICES ASSUME TypeInv, Session, Switches, [Next]_vars PROVE Switches'
  OBVIOUS
<1>1. CASE WorkerLosesGame
  <2>1. /\ call = NoCall /\ call' = call
        /\ \A p \in Patches : patchIn'[p] = NoProc
        /\ \A o \in Options : ~enabled'[o]
    BY <1>1 DEF WorkerLosesGame, ProcessLost, Session, WorkerCalls
  <2> QED
    BY <2>1, OwnPatches
    DEF Switches, Untouched, OnIsApplied, OffIsRemoved, CallProgress
<1>2. CASE UNCHANGED <<enabled, patchIn, call>>
  BY <1>2
  DEF Switches, Untouched, OnIsApplied, OffIsRemoved, CallProgress, AppliedBelow, RemovedFrom
<1>3. ASSUME NEW o \in Options, Timer(o)
      PROVE  UNCHANGED <<enabled, patchIn, call>>
  BY <1>3 DEF Timer, TimerElapses
<1>4. Steady => UNCHANGED <<enabled, patchIn, call>>
  BY DEF Steady
<1> QED
  BY <1>1, <1>2, <1>3, <1>4, StepKinds, SwitchingSwitches, CallStepsSwitches

LEMMA SwitchesInit == Init => Switches
<1> SUFFICES ASSUME Init PROVE Switches
  OBVIOUS
<1>1. /\ call = NoCall /\ \A p \in Patches : patchIn[p] = NoProc
      /\ \A o \in Options : ~enabled[o]
  BY DEF Init, OptionInit
<1> QED
  BY <1>1, OwnPatches DEF Switches, Untouched, OnIsApplied, OffIsRemoved, CallProgress

LEMMA SwitchesAlways == Spec => [](TypeInv /\ Session /\ Switches)
<1> QED
  BY SwitchesInit, SwitchesNext, SessionAlways, PTL DEF Spec

-----------------------------------------------------------------------------
(* What stands at the sites of the code patches.                             *)

(* A step that is about neither the process nor the patches.                 *)
Apart ==
  /\ UNCHANGED <<enabled, patchIn, saved, call, procVars, processId>>
  /\ mem' \in {mem, NoProc}
  /\ \A p \in Patches : Kind[p] = "code" => site'[p] = site[p]

LEMMA SiteKinds ==
  ASSUME TypeInv, [Next]_vars
  PROVE  \/ Switching /\ UNCHANGED <<procVars, mem, processId>>
         \/ CallSteps /\ UNCHANGED <<procVars, mem, processId>>
         \/ WorkerLosesGame
         \/ WorkerOpens
         \/ \E pid \in Pids, sort \in ProcSorts : Start(pid, sort)
         \/ GameExits
         \/ Apart
<1>0. ProcTypeOK /\ TrainerTypeOK
  BY TypeInvParts
<1>1. CASE WorkerTick
  <2>1. PICK W \in SUBSET ActiveFreezes(cur) :
          site' = [p \in Patches |-> IF p \in W THEN "mod" ELSE site[p]]
    BY <1>1 DEF WorkerTick, TickPatches
  <2>2. \A p \in W : Kind[p] = "freeze"
    BY DEF ActiveFreezes
  <2>3. \A p \in Patches : Kind[p] = "code" => site'[p] = site[p]
    BY <2>1, <2>2
  <2> QED
    BY <1>1, <2>3 DEF WorkerTick, TickPatches, optionVars, patchVars, Apart
<1>2. ASSUME NEW p \in Patches, GameWrites(p) PROVE Apart
  BY <1>0, <1>2 DEF GameWrites, GameOverwrites, ProcTypeOK, workerVars, optionVars, patchVars, Apart
<1>3. ASSUME NEW o \in Options, Timer(o) PROVE Apart
  BY <1>3 DEF Timer, TimerElapses, workerVars, Apart
<1>4. CASE UNCHANGED vars
  BY <1>4 DEF vars, workerVars, optionVars, patchVars, Apart
<1>5. CASE Environment
  BY <1>2, <1>3, <1>5 DEF Environment
<1>6. CASE User
  BY <1>6 DEF User, UiStart, UiClick, UiClose, workerVars, optionVars, patchVars, Apart
<1>7. CASE UiPost \/ UiJoin \/ UiTasksDone \/ UiExit
  BY <1>7 DEF UiPost, UiJoin, UiTasksDone, UiExit, workerVars, optionVars, patchVars, Apart
<1>8. CASE UiDisable
  <2>1. UNCHANGED <<procVars, mem, processId>>
    BY <1>8 DEF UiDisable, workerVars
  <2>2. UNCHANGED <<optionVars, site>> \/ Switching
    <3>1. cur \in Options
      BY <1>0, <1>8, OptionAssumption DEF OptionAssumption, UiDisable, TrainerTypeOK, Options
    <3> QED
      BY <1>8, <3>1 DEF UiDisable, Switching, Callers
  <2> QED
    BY <2>1, <2>2 DEF optionVars, patchVars, Apart
<1>9. CASE RunTask \/ WorkerHotkey \/ WorkerAutoOff \/ CallStep
  <2>1. UNCHANGED <<procVars, mem, processId>>
    BY <1>9 DEF RunTask, WorkerHotkey, WorkerAutoOff, CallStep, workerVars
  <2>2. CASE Steady
    <3>1. CASE RunTask \/ WorkerHotkey \/ WorkerAutoOff
      <4>1. site' = site
        BY <3>1 DEF RunTask, WorkerHotkey, ToggleByHotkey, WorkerAutoOff, AutoOff, SetEnabled
      <4> QED
        BY <2>1, <2>2, <4>1 DEF Steady, Apart
    <3>2. CASE CallStep
      BY <2>1, <3>2 DEF CallStep, CallSteps
    <3> QED
      BY <1>9, <3>1, <3>2
  <2> QED
    BY <1>3, <2>1, <2>2, StepKinds
<1>10. CASE Worker
  BY <1>1, <1>9, <1>10
  DEF Worker, WorkerStops, WorkerKeepsGame, WorkerSkipsSearch, WorkerSearches,
      WorkerSwaps, WorkerTasksDone, WorkerNoHotkey, WorkerNext, optionVars, patchVars, Apart
<1> QED
  BY <1>4, <1>5, <1>6, <1>7, <1>8, <1>9, <1>10 DEF Next, UiProgress, Exited

(* A patch that stands in the running game is at its site.                   *)
StandsModified ==
  \A p \in Patches :
    Kind[p] = "code" /\ patchIn[p] # NoProc /\ patchIn[p] = live => site[p] = "mod"

(* Patches stand in processes the trainer could open, under the PID it       *)
(* remembers; and the handle of a call keeps that PID.                       *)
Known ==
  /\ \A p \in Patches : patchIn[p] # NoProc =>
       /\ patchIn[p] \in 1..born
       /\ proc[patchIn[p]].pid = processId
       /\ proc[patchIn[p]].sort # "elevated"
  /\ mem # NoProc => proc[mem].sort # "elevated"
  /\ call # NoCall =>
       /\ call.mem # NoProc
       /\ proc[call.mem].pid = processId
       /\ proc[call.mem].sort # "elevated"
       /\ live # NoProc /\ proc[live].pid = processId => live = call.mem

LEMMA SessionFacts ==
  ASSUME TypeInv, Session
  PROVE  /\ born \in Nat /\ NoProc = 0 /\ live \in {NoProc, born}
         /\ ProcTypeOK /\ OptionTypeOK /\ TrainerTypeOK
         /\ mem \in 0..born /\ call.mem \in 0..born
BY TypeInvParts, ProcAssumption DEF ProcAssumption, ProcTypeOK, NoProc, Session, Births

LEMMA BirthKeeps ==
  ASSUME TypeInv, Session, NEW pid \in Pids, NEW sort \in ProcSorts, Start(pid, sort)
  PROVE  /\ live = NoProc /\ live' = born + 1 /\ born' = born + 1 /\ PidFree(pid, OpenHandles)
         /\ proc'[born + 1].pid = pid
         /\ \A i \in 1..born : proc'[i] = proc[i]
         /\ UNCHANGED <<patchIn, saved, call, mem, processId, enabled, site, ui>>
<1>1. /\ live = NoProc /\ live' = born + 1 /\ born' = born + 1 /\ PidFree(pid, OpenHandles)
      /\ proc' = [proc EXCEPT ![born + 1] = [pid |-> pid, sort |-> sort]]
      /\ born < MaxProcs /\ site' = site
      /\ UNCHANGED <<patchIn, saved, call, mem, processId, enabled, ui>>
  BY DEF Start, StartProcess, optionVars, patchVars, workerVars
<1>2. born + 1 \in Procs /\ 1..born \subseteq Procs
  BY <1>1, SessionFacts, ProcAssumption DEF ProcAssumption, ProcTypeOK, Procs
<1> QED
  BY <1>1, <1>2, SessionFacts DEF ProcTypeOK

LEMMA SwitchingKnown ==
  ASSUME TypeInv, Session, Known, Switching, UNCHANGED <<procVars, mem, processId>>
  PROVE  Known'
<1>0. /\ born \in Nat /\ NoProc = 0 /\ live \in {NoProc, born} /\ mem \in 0..born
      /\ processId \in Pids \cup {0}
  BY SessionFacts DEF TrainerTypeOK
<1>1. PICK by \in Callers, o \in Options, want \in BOOLEAN :
        SetEnabled(by, o, want, processId, OpenHandles)
  BY DEF Switching
<1>2. /\ call' = NoCall \/ \E h \in OpenResults(processId, OpenHandles) : h # NoProc /\ call'.mem = h
      /\ \A p \in Patches : patchIn'[p] \in {patchIn[p], NoProc}
      /\ call = NoCall
  BY <1>1, SetEnabledEffect DEF SetEnabled
<1>3. ASSUME call' # NoCall
      PROVE  /\ call'.mem # NoProc
             /\ proc[call'.mem].pid = processId
             /\ proc[call'.mem].sort # "elevated"
             /\ live # NoProc /\ proc[live].pid = processId => live = call'.mem
  <2>1. PICK h \in OpenResults(processId, OpenHandles) : h # NoProc /\ call'.mem = h
    BY <1>2, <1>3
  <2>2. CASE live # NoProc /\ proc[live].pid = processId
    BY <2>1, <2>2 DEF OpenResults
  <2>3. CASE ~(live # NoProc /\ proc[live].pid = processId)
    <3>1. h \in OpenHandles /\ proc[h].pid = processId
      BY <2>1, <2>3 DEF OpenResults
    <3>2. h = mem
      BY <1>0, <1>2, <2>1, <3>1 DEF OpenHandles, NoCall
    <3> QED
      BY <2>1, <2>3, <3>1, <3>2 DEF Known
  <2> QED
    BY <2>2, <2>3
<1> QED
  BY <1>2, <1>3 DEF Known, procVars

LEMMA KnownNext == TypeInv /\ Session /\ Known /\ [Next]_vars => Known'
<1> SUFFICES ASSUME TypeInv, Session, Known, [Next]_vars PROVE Known'
  OBVIOUS
<1>0. /\ born \in Nat /\ NoProc = 0 /\ live \in {NoProc, born} /\ mem \in 0..born
      /\ call.mem \in 0..born
  BY SessionFacts
<1>1. CASE CallSteps /\ UNCHANGED <<procVars, mem, processId>>
  <2>1. /\ call # NoCall
        /\ call' = NoCall \/ call'.mem = call.mem
        /\ \A p \in Patches :
             \/ patchIn'[p] \in {patchIn[p], NoProc}
             \/ patchIn'[p] = call.mem /\ IsAlive(call.mem)
    BY <1>1, CallStepsEffect
  <2> QED
    BY <1>0, <1>1, <2>1 DEF Known, procVars, IsAlive
<1>2. CASE WorkerLosesGame
  <2>1. /\ \A p \in Patches : patchIn'[p] = NoProc
        /\ mem' = NoProc /\ call' = NoCall
    BY <1>2 DEF WorkerLosesGame, ProcessLost, Session, WorkerCalls
  <2> QED
    BY <2>1 DEF Known
<1>3. CASE WorkerOpens
  <2>1. /\ \A p \in Patches : patchIn'[p] = NoProc
        /\ call' = NoCall /\ UNCHANGED procVars
    BY <1>3 DEF WorkerOpens, Session, WorkerCalls, NoCrossInstanceState, optionVars, patchVars
  <2>2. mem' # NoProc => proc[mem'].sort # "elevated"
    <3>1. PICK h \in OpenResults(foundPid, OpenHandles) : mem' = IF h = NoProc THEN mem ELSE h
      BY <1>3 DEF WorkerOpens
    <3>2. mem = NoProc /\ call = NoCall
      BY <1>3 DEF WorkerOpens, Session, WorkerCalls
    <3> QED
      BY <1>0, <3>1, <3>2 DEF OpenResults, OpenHandles, NoCall, Known
  <2> QED
    BY <2>1, <2>2 DEF Known, procVars
<1>4. ASSUME NEW pid \in Pids, NEW sort \in ProcSorts, Start(pid, sort)
      PROVE  Known'
  <2>1. /\ live' = born + 1 /\ born' = born + 1 /\ PidFree(pid, OpenHandles)
        /\ proc'[born + 1].pid = pid
        /\ \A i \in 1..born : proc'[i] = proc[i]
        /\ UNCHANGED <<patchIn, call, mem, processId>>
    BY <1>4, BirthKeeps
  <2>2. call # NoCall => call.mem \in 1..born /\ proc[call.mem].pid # pid
    BY <1>0, <2>1 DEF Known, PidFree, OpenHandles
  <2> QED
    BY <1>0, <2>1, <2>2 DEF Known
<1>5. CASE GameExits
  <2>1. /\ live' = NoProc
        /\ UNCHANGED <<proc, born, patchIn, call, mem, processId>>
    BY <1>5 DEF GameExits, ExitProcess, optionVars, patchVars, workerVars
  <2> QED
    BY <2>1 DEF Known
<1>6. CASE Apart
  BY <1>6 DEF Apart, Known, procVars
<1> QED
  BY <1>1, <1>2, <1>3, <1>4, <1>5, <1>6, SwitchingKnown, SiteKinds

LEMMA KnownInit == Init => Known
BY DEF Init, ProcInit, OptionInit, Known

LEMMA StandsModifiedNext ==
  TypeInv /\ Session /\ Known /\ StandsModified /\ [Next]_vars => StandsModified'
<1> SUFFICES ASSUME TypeInv, Session, Known, StandsModified, [Next]_vars PROVE StandsModified'
  OBVIOUS
<1>0. /\ born \in Nat /\ NoProc = 0 /\ live \in {NoProc, born} /\ OptionTypeOK /\ ProcTypeOK
  BY SessionFacts
<1>1. CASE Switching /\ UNCHANGED <<procVars, mem, processId>>
  <2>1. site' = site /\ \A p \in Patches : patchIn'[p] \in {patchIn[p], NoProc}
    BY <1>1, SetEnabledEffect DEF Switching
  <2> QED
    BY <1>1, <2>1 DEF StandsModified, procVars
<1>2. CASE CallSteps /\ UNCHANGED <<procVars, mem, processId>>
  <2>1. CASE UNCHANGED <<patchIn, site>>
    BY <1>2, <2>1 DEF StandsModified, procVars
  <2>2. ASSUME NEW q, PatchApplies(q, call.mem) PROVE StandsModified'
    BY <1>0, <1>2, <2>2 DEF PatchApplies, StandsModified, procVars, OptionTypeOK, ProcTypeOK
  <2>3. ASSUME NEW q, PatchRestores(q, call.mem) PROVE StandsModified'
    <3>1. \A p \in Patches : p # q => patchIn'[p] = patchIn[p] /\ site'[p] = site[p]
      BY <1>0, <2>3 DEF PatchRestores, OptionTypeOK, ProcTypeOK
    <3>2. \A p \in Patches : p = q => patchIn'[p] = NoProc
      BY <1>0, <2>3 DEF PatchRestores, OptionTypeOK
    <3> QED
      BY <1>2, <3>1, <3>2 DEF StandsModified, procVars
  <2> QED
    BY <1>2, <2>1, <2>2, <2>3
    DEF CallSteps, ApplyPatch, FinishEnable, RestorePatch, FinishRollback, FinishDisable
<1>3. CASE WorkerLosesGame
  BY <1>3 DEF WorkerLosesGame, ProcessLost, StandsModified
<1>4. CASE WorkerOpens
  BY <1>4 DEF WorkerOpens, StandsModified, optionVars, patchVars, procVars
<1>5. ASSUME NEW pid \in Pids, NEW sort \in ProcSorts, Start(pid, sort)
      PROVE  StandsModified'
  BY <1>0, <1>5, BirthKeeps DEF StandsModified, Known
<1>6. CASE GameExits
  BY <1>6 DEF GameExits, ExitProcess, StandsModified
<1>7. CASE Apart
  BY <1>7 DEF Apart, StandsModified, procVars
<1> QED
  BY <1>1, <1>2, <1>3, <1>4, <1>5, <1>6, <1>7, SiteKinds

LEMMA StandsInit == Init => StandsModified
BY DEF Init, ProcInit, OptionInit, StandsModified

LEMMA StandsAlways == Spec => [](TypeInv /\ Session /\ Switches /\ Known /\ StandsModified)
<1>1. Init => Known /\ StandsModified
  BY KnownInit, StandsInit
<1> QED
  BY <1>1, KnownNext, StandsModifiedNext, SwitchesAlways, PTL DEF Spec

(* A switch that is on is on in the game: every code patch of it stands in   *)
(* the process it was applied to, every freeze is active, whatever calls,    *)
(* refusals, failed writes and ends of games came before (CheatOption.cpp,   *)
(* SetEnabled).                                                              *)
THEOREM EnabledIsPatched == Spec => []EnabledMeansPatched
<1>1. TypeInv /\ Switches /\ StandsModified => EnabledMeansPatched
  <2> SUFFICES ASSUME Switches, StandsModified, NEW o \in Options,
                      enabled[o] /\ call.opt # o, NEW p \in PatchesOf(o), Kind[p] # "write"
               PROVE  /\ patchIn[p] # NoProc
                      /\ Kind[p] = "code" /\ patchIn[p] = live => site[p] = "mod"
    BY DEF EnabledMeansPatched
  <2>1. PICK i \in 1..N(o) : p = P(o, i) /\ p \in Patches
    BY OwnPatches
  <2>2. patchIn[p] # NoProc
    BY <2>1 DEF Switches, OnIsApplied
  <2> QED
    BY <2>1, <2>2 DEF StandsModified
<1> QED
  BY <1>1, StandsAlways, PTL

-----------------------------------------------------------------------------
(* The game's own code comes back, when writing it back does not fail and    *)
(* no other process gets the PID of the last game.                           *)

SitesFollow ==
  \A p \in Patches : Kind[p] = "code" =>
    /\ patchIn[p] = NoProc \/ patchIn[p] # live => site[p] = "orig"
    /\ patchIn[p] # NoProc => saved[p] = "orig"

LEMMA SwitchingSites ==
  ASSUME TypeInv, Session, Known, SitesFollow, Switching, UNCHANGED procVars
  PROVE  SitesFollow'
<1>1. PICK by \in Callers, o \in Options, want \in BOOLEAN :
        SetEnabled(by, o, want, processId, OpenHandles)
  BY DEF Switching
<1>2. UNCHANGED <<site, saved>>
  BY <1>1, SetEnabledCases
<1>3. CASE UNCHANGED patchIn
  BY <1>2, <1>3 DEF SitesFollow, procVars
<1>4. CASE NoProc \in OpenResults(processId, OpenHandles) /\ ResetPatches(PatchesOf(o))
  <2>1. \A p \in Patches : patchIn[p] # NoProc => patchIn[p] # live
    BY <1>4 DEF Known, OpenResults
  <2>2. \A p \in Patches : patchIn'[p] \in {patchIn[p], NoProc}
    BY <1>4 DEF ResetPatches
  <2> QED
    BY <1>2, <2>1, <2>2 DEF SitesFollow, procVars
<1> QED
  BY <1>1, <1>3, <1>4, SetEnabledCases, Zenon

LEMMA CallStepsSites ==
  ASSUME ~RestoreMayFail, TypeInv, Session, HomePid, Known, SitesFollow, CallSteps,
         UNCHANGED procVars
  PROVE  SitesFollow'
<1>0. /\ born \in Nat /\ NoProc = 0 /\ live \in {NoProc, born} /\ OptionTypeOK /\ ProcTypeOK
      /\ call # NoCall /\ call.opt \in Options
  BY SessionFacts, CallUnderWay
<1>1. CASE UNCHANGED <<patchIn, saved, site>>
  BY <1>1 DEF SitesFollow, procVars
<1>2. ASSUME NEW q, PatchApplies(q, call.mem) PROVE SitesFollow'
  BY <1>0, <1>2
  DEF PatchApplies, AlreadyApplied, IsAlive, SitesFollow, procVars, OptionTypeOK, ProcTypeOK
<1>3. ASSUME NEW q \in Patches, PatchRestores(q, call.mem) PROVE SitesFollow'
  <2>1. \A p \in Patches : p # q => patchIn'[p] = patchIn[p] /\ site'[p] = site[p]
    BY <1>0, <1>3 DEF PatchRestores, OptionTypeOK, ProcTypeOK
  <2>2. patchIn'[q] = NoProc /\ saved' = saved
    BY <1>0, <1>3 DEF PatchRestores, OptionTypeOK
  <2>3. ASSUME Kind[q] = "code" PROVE site'[q] = "orig"
    <3>1. CASE AlreadyApplied(q) /\ IsAlive(call.mem)
      <4>1. patchIn[q] = call.mem
        BY <1>0, <3>1 DEF AlreadyApplied, IsAlive, Known, HomePid
      <4>2. site' = [site EXCEPT ![q] = saved[q]]
        BY <1>3, <3>1, <4>1 DEF PatchRestores
      <4>3. saved[q] = "orig"
        BY <2>3, <3>1 DEF SitesFollow, AlreadyApplied
      <4> QED
        BY <1>0, <4>2, <4>3 DEF ProcTypeOK
    <3>2. CASE ~(AlreadyApplied(q) /\ IsAlive(call.mem))
      <4>1. site' = site
        BY <1>3, <3>2 DEF PatchRestores
      <4>2. patchIn[q] = NoProc \/ patchIn[q] # live
        BY <1>0, <2>3, <3>2 DEF AlreadyApplied, IsAlive, Known
      <4> QED
        BY <2>3, <4>1, <4>2 DEF SitesFollow
    <3> QED
      BY <3>1, <3>2
  <2> QED
    BY <2>1, <2>2, <2>3 DEF SitesFollow, procVars
<1>4. CASE RestorePatch
  <2>1. P(call.opt, call.at) \in Patches
    BY <1>0, <1>4, CallUnderWay, OwnPatches
  <2> QED
    BY <1>3, <1>4, <2>1 DEF RestorePatch, P
<1> QED
  BY <1>1, <1>2, <1>4 DEF CallSteps, ApplyPatch, FinishEnable, FinishRollback, FinishDisable

LEMMA SitesFollowNext ==
  ASSUME ~RestoreMayFail
  PROVE  TypeInv /\ Session /\ HomePid /\ Known /\ SitesFollow /\ [Next]_vars => SitesFollow'
<1> SUFFICES ASSUME TypeInv, Session, HomePid, Known, SitesFollow, [Next]_vars
             PROVE  SitesFollow'
  OBVIOUS
<1>0. /\ born \in Nat /\ NoProc = 0 /\ live \in {NoProc, born}
  BY SessionFacts
<1>1. CASE WorkerLosesGame
  <2>1. /\ \A p \in Patches : patchIn'[p] = NoProc /\ patchIn[p] \in {NoProc, mem}
        /\ mem # live /\ UNCHANGED site
    BY <1>1 DEF WorkerLosesGame, ProcessLost, IsAlive, Session, NoCrossInstanceState
  <2> QED
    BY <2>1 DEF SitesFollow
<1>2. CASE WorkerOpens
  BY <1>2 DEF WorkerOpens, SitesFollow, optionVars, patchVars, procVars
<1>3. ASSUME NEW pid \in Pids, NEW sort \in ProcSorts, Start(pid, sort)
      PROVE  SitesFollow'
  <2>1. live = NoProc /\ UNCHANGED <<patchIn, saved, site>>
    BY <1>3, BirthKeeps
  <2> QED
    BY <2>1 DEF SitesFollow
<1>4. CASE GameExits
  <2>1. \A p \in Patches : site'[p] = "orig"
    BY <1>4 DEF GameExits, ExitProcess
  <2>2. UNCHANGED <<patchIn, saved>>
    BY <1>4 DEF GameExits, optionVars, patchVars
  <2> QED
    BY <2>1, <2>2 DEF SitesFollow
<1>5. CASE Apart
  BY <1>5 DEF Apart, SitesFollow, procVars
<1> QED
  BY <1>1, <1>2, <1>3, <1>4, <1>5, SwitchingSites, CallStepsSites, SiteKinds

LEMMA SitesAlways ==
  ASSUME ~RestoreMayFail, ~ReuseAfterStop
  PROVE  Spec => [](TypeInv /\ Session /\ Switches /\ Known /\ SitesFollow)
<1>1. Init => HomePid /\ SitesFollow
  BY HomeInit DEF Init, ProcInit, OptionInit, SitesFollow
<1>2. TypeInv /\ Session /\ HomePid /\ [Next]_vars => HomePid'
  BY HomeNext
<1>3. TypeInv /\ Session /\ HomePid /\ Known /\ SitesFollow /\ [Next]_vars => SitesFollow'
  BY SitesFollowNext
<1> QED
  BY <1>1, <1>2, <1>3, StandsAlways, PTL DEF Spec

(* A switch that is off left nothing behind, after a normal switch-off, a    *)
(* failed switch-on and its rollback, or the end of the game at any point of *)
(* either (CheatOption.cpp, ApplyAll and RestoreAll).                        *)
THEOREM DisabledIsClean ==
  ASSUME ~RestoreMayFail, ~ReuseAfterStop
  PROVE  Spec => []DisabledMeansClean
<1>1. Switches /\ SitesFollow => DisabledMeansClean
  <2> SUFFICES ASSUME Switches, SitesFollow, NEW o \in Options,
                      ~enabled[o] /\ call.opt # o, NEW p \in PatchesOf(o)
               PROVE  patchIn[p] = NoProc /\ (Kind[p] = "code" => site[p] = "orig")
    BY DEF DisabledMeansClean
  <2>1. PICK i \in 1..N(o) : p = P(o, i) /\ p \in Patches
    BY OwnPatches
  <2>2. patchIn[p] = NoProc
    BY <2>1 DEF Switches, OffIsRemoved
  <2> QED
    BY <2>1, <2>2 DEF SitesFollow
<1> QED
  BY <1>1, SitesAlways, PTL

-----------------------------------------------------------------------------
(* The end of the program: what DisableAll has passed is off.                *)

Off(o) == ~enabled[o] \/ IsOneShot(o)

Shutting ==
  /\ ui = "disableAll" =>
       /\ call # NoCall => call.step = "restore" /\ call.opt < cur
       /\ \A o \in Options : o < cur /\ call.opt # o => Off(o)
  /\ ui = "exited" => call = NoCall /\ \A p \in Patches : patchIn[p] = NoProc

LEMMA DisableShutting ==
  ASSUME TypeInv, Shutting, UiDisable
  PROVE  Shutting'
<1>0. /\ cur \in Options /\ cur \in Nat /\ call = NoCall /\ ui = "disableAll" /\ ui' = ui
      /\ cur' = cur + 1 /\ OptionTypeOK /\ Options = 1..NumOptions /\ NumOptions \in Nat
  BY TypeInvParts, OptionAssumption DEF OptionAssumption, UiDisable, TrainerTypeOK, Options
<1>1. \A o \in Options : o < cur => Off(o)
  BY <1>0, NoCallOption DEF Shutting
<1>2. CASE UNCHANGED optionVars
  <2>1. Off(cur)
    <3>1. CASE enabled[cur] /\ ~IsOneShot(cur)
      <4>1. autoOff' = autoOff /\ call' = NoCall /\ enabled' = enabled
        BY <1>0, <1>2 DEF optionVars
      <4>2. Disable("exit", cur, processId, OpenHandles)
        BY <3>1 DEF UiDisable, SetEnabled
      <4>3. PICK h \in OpenResults(processId, OpenHandles) :
              IF h = NoProc
              THEN /\ enabled' = [enabled EXCEPT ![cur] = FALSE]
                   /\ Return("exit", cur)
              ELSE Continue("exit", cur, "restore", Len(PatchSeq[cur]), h)
        BY <3>1, <4>2 DEF Disable
      <4>4. CASE h = NoProc
        BY <1>0, <3>1, <4>1, <4>3, <4>4 DEF OptionTypeOK
      <4>5. CASE h # NoProc
        BY <1>0, <4>1, <4>3, <4>5, CallEffect
      <4> QED
        BY <4>4, <4>5
    <3> QED
      BY <3>1 DEF Off
  <2>2. UNCHANGED <<enabled, call>>
    BY <1>2 DEF optionVars
  <2> QED
    BY <1>0, <1>1, <2>1, <2>2 DEF Shutting, Off
<1>3. CASE SetEnabled("exit", cur, FALSE, processId, OpenHandles) /\ enabled[cur] /\ ~IsOneShot(cur)
  <2>1. Disable("exit", cur, processId, OpenHandles)
    BY <1>3 DEF SetEnabled
  <2>2. PICK h \in OpenResults(processId, OpenHandles) :
          IF h = NoProc
          THEN /\ enabled' = [enabled EXCEPT ![cur] = FALSE]
               /\ Return("exit", cur)
          ELSE /\ Continue("exit", cur, "restore", Len(PatchSeq[cur]), h)
               /\ UNCHANGED enabled
    BY <1>3, <2>1 DEF Disable
  <2>3. CASE h = NoProc
    <3>1. call' = NoCall /\ \A o \in Options : enabled'[o] = (o # cur /\ enabled[o])
      BY <1>0, <2>2, <2>3, CallEffect DEF OptionTypeOK
    <3>2. ASSUME NEW o \in Options, o < cur' PROVE ~enabled'[o] \/ IsOneShot(o)
      <4>1. o = cur \/ o < cur
        BY <1>0, <3>2
      <4> QED
        BY <1>1, <3>1, <4>1 DEF Off
    <3> QED
      BY <1>0, <3>1, <3>2 DEF Shutting, Off
  <2>4. CASE h # NoProc
    <3>1. call'.opt = cur /\ call'.step = "restore" /\ UNCHANGED enabled
      BY <1>0, <2>2, <2>4, CallEffect
    <3> QED
      BY <1>0, <1>1, <3>1 DEF Shutting, Off
  <2> QED
    BY <2>3, <2>4
<1> QED
  BY <1>2, <1>3 DEF UiDisable

LEMMA ShuttingNext ==
  TypeInv /\ Session /\ Switches /\ Known /\ Shutting /\ [Next]_vars => Shutting'
<1> SUFFICES ASSUME TypeInv, Session, Switches, Known, Shutting, [Next]_vars PROVE Shutting'
  OBVIOUS
<1>0. /\ Phases /\ TrainerTypeOK /\ OptionTypeOK
      /\ Options = 1..NumOptions /\ NumOptions \in Nat
  BY TypeInvParts, OptionAssumption DEF OptionAssumption, Options
<1>1. CASE UNCHANGED <<ui, cur, call, enabled, patchIn>>
  BY <1>1 DEF Shutting, Off
<1>2. CASE ui' = ui /\ ui \notin {"disableAll", "exited"}
  BY <1>2 DEF Shutting
<1>3. CASE Environment \/ UNCHANGED vars
  <2>1. UNCHANGED <<ui, cur, call, enabled, patchIn>>
    BY <1>3
    DEF Environment, Start, GameExits, GameWrites, Timer, TimerElapses, vars, optionVars, patchVars
  <2> QED
    BY <2>1, <1>1
<1>4. CASE Worker
  <2>1. ui' = ui /\ pc # "done"
    BY <1>4
    DEF Worker, WorkerStops, WorkerLosesGame, WorkerKeepsGame, WorkerSkipsSearch, WorkerSearches,
        WorkerOpens, WorkerSwaps, WorkerTasksDone, WorkerHotkey, WorkerNoHotkey, WorkerAutoOff,
        WorkerTick, WorkerNext
  <2> QED
    BY <1>0, <1>2, <2>1 DEF Phases
<1>5. CASE RunTask
  BY <1>0, <1>2, <1>5 DEF RunTask, Phases
<1>6. CASE CallStep
  <2>1. /\ ui' = ui /\ cur' = cur /\ CallSteps
    BY <1>6 DEF CallStep, CallSteps
  <2>2. call # NoCall /\ call.opt \in Options
    BY <2>1, CallUnderWay
  <2>3. CASE ui = "disableAll"
    <3>1. /\ call.step = "restore" /\ call.opt < cur
          /\ \A o \in Options : o < cur /\ call.opt # o => Off(o)
      BY <2>2, <2>3 DEF Shutting
    <3>2. CASE RestorePatch
      <4>1. /\ call'.opt = call.opt /\ call'.step = "restore" /\ UNCHANGED enabled
        BY <3>1, <3>2 DEF RestorePatch, Continue
      <4> QED
        BY <2>1, <2>3, <3>1, <4>1 DEF Shutting, Off
    <3>3. CASE FinishDisable
      <4>1. call' = NoCall /\ \A o \in Options : enabled'[o] = (o # call.opt /\ enabled[o])
        BY <1>0, <2>2, <3>3 DEF FinishDisable, Return, OptionTypeOK
      <4> QED
        BY <2>1, <2>3, <3>1, <4>1 DEF Shutting, Off
    <3> QED
      BY <2>1, <3>1, <3>2, <3>3 DEF CallSteps, ApplyPatch, FinishEnable, FinishRollback
  <2>4. CASE ui = "exited"
    BY <2>2, <2>4 DEF Shutting
  <2> QED
    BY <1>2, <2>1, <2>3, <2>4
<1>7. CASE UiTasksDone
  <2>1. /\ call = NoCall /\ call' = NoCall /\ cur' = 1 /\ patchIn' = patchIn
        /\ ui' = IF processId = 0 THEN "exited" ELSE "disableAll"
    BY <1>7 DEF UiTasksDone, optionVars, patchVars
  <2>2. processId = 0 => \A p \in Patches : patchIn[p] = NoProc
    BY ProcAssumption DEF ProcAssumption, Known, Session, Births
  <2>3. \A o \in Options : ~(o < 1)
    BY <1>0
  <2> QED
    BY <2>1, <2>2, <2>3 DEF Shutting
<1>8. CASE UiExit
  <2>1. /\ call = NoCall /\ call' = NoCall /\ ui = "disableAll" /\ cur > NumOptions
        /\ ui' = "exited" /\ patchIn' = patchIn
    BY <1>8 DEF UiExit, optionVars, patchVars
  <2>2. \A o \in Options : Off(o) /\ call.opt # o
    BY <1>0, <2>1, NoCallOption DEF Shutting, TrainerTypeOK
  <2>3. ASSUME NEW p \in Patches PROVE patchIn[p] = NoProc
    <3>1. CASE \A o \in Options : p \notin PatchesOf(o)
      BY <3>1 DEF Switches, Untouched
    <3>2. ASSUME NEW o \in Options, p \in PatchesOf(o) PROVE patchIn[p] = NoProc
      <4>1. PICK i \in 1..N(o) : p = P(o, i)
        BY <3>2, OwnPatches
      <4>2. CASE ~enabled[o]
        BY <2>2, <4>1, <4>2 DEF Switches, OffIsRemoved
      <4>3. CASE IsOneShot(o)
        BY <3>2, <4>3 DEF IsOneShot, Switches, Untouched
      <4> QED
        BY <2>2, <4>2, <4>3 DEF Off
    <3> QED
      BY <3>1, <3>2
  <2> QED
    BY <2>1, <2>3 DEF Shutting
<1>9. CASE User \/ UiPost \/ UiJoin
  <2>1. CASE UiPost
    BY <1>1, <2>1 DEF UiPost, patchVars
  <2>2. CASE User \/ UiJoin
    BY <1>1, <2>2
    DEF User, UiStart, UiClick, UiClose, UiJoin, Shutting, optionVars, patchVars
  <2> QED
    BY <1>9, <2>1, <2>2
<1> QED
  BY <1>3, <1>4, <1>5, <1>6, <1>7, <1>8, <1>9, DisableShutting DEF Next, UiProgress, Exited

(* When the trainer has exited the game that runs has its own code: clicks   *)
(* posted before the window closed are carried out first and then undone     *)
(* with the rest (CheatOptionManager.cpp, DisableAll).                       *)
THEOREM ExitIsClean ==
  ASSUME ~RestoreMayFail, ~ReuseAfterStop
  PROVE  Spec => []CleanAtExit
<1>1. Init => Shutting
  BY DEF Init, Shutting
<1>2. Shutting /\ SitesFollow => CleanAtExit
  BY DEF Shutting, SitesFollow, CleanAtExit
<1> QED
  BY <1>1, <1>2, ShuttingNext, SitesAlways, PTL DEF Spec

-----------------------------------------------------------------------------
(* The tasks.                                                                *)

LEMMA TasksForType ==
  ASSUME NEW o, NEW s \in Seq(Tasks)
  PROVE  IsFiniteSet({i \in DOMAIN s : s[i].opt = o}) /\ TasksFor(o, s) \in Nat
<1>1. IsFiniteSet(1..Len(s)) /\ DOMAIN s = 1..Len(s)
  BY FS_Interval
<1>2. IsFiniteSet({i \in DOMAIN s : s[i].opt = o})
  BY <1>1, FS_Subset
<1> QED
  BY <1>2, FS_CardinalityType DEF TasksFor

LEMMA TasksForEmpty ==
  ASSUME NEW o
  PROVE  TasksFor(o, <<>>) = 0
<1>1. {i \in DOMAIN <<>> : <<>>[i].opt = o} = {}
  OBVIOUS
<1> QED
  BY <1>1, FS_EmptySet DEF TasksFor

(* A task posted is one more for its option.                                 *)
LEMMA TasksForAppend ==
  ASSUME NEW o, NEW s \in Seq(Tasks), NEW t \in Tasks
  PROVE  TasksFor(o, Append(s, t)) = TasksFor(o, s) + IF t.opt = o THEN 1 ELSE 0
<1> DEFINE S == {i \in DOMAIN s : s[i].opt = o}
           T == {i \in DOMAIN Append(s, t) : Append(s, t)[i].opt = o}
<1>0. TasksFor(o, s) = Cardinality(S) /\ TasksFor(o, Append(s, t)) = Cardinality(T)
  BY DEF TasksFor
<1>1. IsFiniteSet(S) /\ Len(s) + 1 \notin S /\ Cardinality(S) \in Nat
  <2>1. Len(s) + 1 \notin S
    OBVIOUS
  <2> QED
    BY <1>0, <2>1, TasksForType
<1>2. T = IF t.opt = o THEN S \cup {Len(s) + 1} ELSE S
  <2>1. /\ DOMAIN Append(s, t) = 1..(Len(s) + 1) /\ DOMAIN s = 1..Len(s) /\ Len(s) \in Nat
        /\ Append(s, t)[Len(s) + 1] = t
        /\ \A i \in 1..Len(s) : Append(s, t)[i] = s[i]
    OBVIOUS
  <2>2. ASSUME NEW i PROVE i \in T <=> i \in S \/ (i = Len(s) + 1 /\ t.opt = o)
    BY <2>1
  <2> QED
    BY <2>2
<1> HIDE DEF S, T
<1>3. CASE t.opt = o
  <2>1. Cardinality(S \cup {Len(s) + 1}) = Cardinality(S) + 1
    BY <1>1, FS_AddElement
  <2> QED
    BY <1>0, <1>2, <1>3, <2>1
<1>4. CASE t.opt # o
  BY <1>0, <1>1, <1>2, <1>4
<1> QED
  BY <1>3, <1>4

(* The task taken from a batch is one less for its option.                   *)
LEMMA TasksForTail ==
  ASSUME NEW o, NEW s \in Seq(Tasks), s # <<>>
  PROVE  TasksFor(o, s) = TasksFor(o, Tail(s)) + IF Head(s).opt = o THEN 1 ELSE 0
<1> DEFINE S == {i \in DOMAIN s : s[i].opt = o}
           R == {i \in DOMAIN Tail(s) : Tail(s)[i].opt = o}
           f == [i \in R |-> i + 1]
<1>0. /\ Len(s) \in Nat /\ Len(s) # 0 /\ DOMAIN s = 1..Len(s) /\ Head(s) = s[1]
      /\ Tail(s) \in Seq(Tasks) /\ DOMAIN Tail(s) = 1..(Len(s) - 1)
      /\ \A i \in 1..(Len(s) - 1) : Tail(s)[i] = s[i + 1]
  OBVIOUS
<1>c. TasksFor(o, s) = Cardinality(S) /\ TasksFor(o, Tail(s)) = Cardinality(R)
  BY DEF TasksFor
<1>1. IsFiniteSet(S) /\ Cardinality(S) \in Nat
  BY TasksForType, FS_CardinalityType
<1>2. IsFiniteSet(R) /\ Cardinality(R) \in Nat
  BY <1>0, TasksForType, FS_CardinalityType
<1>3. Cardinality(S \ {1}) = Cardinality(R)
  <2>1. \A i \in R : i \in Nat /\ i + 1 \in S \ {1}
    BY <1>0
  <2>2. f \in [R -> S \ {1}] /\ \A i \in R : f[i] = i + 1
    BY <2>1
  <2>3. IsInjective(f)
    <3>1. \A a, b \in R : a + 1 = b + 1 => a = b
      BY <2>1
    <3> QED
      BY <2>2, <3>1 DEF IsInjective
  <2>4. ASSUME NEW j \in S \ {1} PROVE \E i \in R : f[i] = j
    <3>1. j \in 2..Len(s) /\ s[j].opt = o
      BY <1>0
    <3>2. j - 1 \in 1..(Len(s) - 1) /\ (j - 1) + 1 = j
      BY <1>0, <3>1
    <3>3. j - 1 \in R
      BY <1>0, <3>1, <3>2
    <3> QED
      BY <2>2, <3>2, <3>3
  <2>5. f \in Bijection(R, S \ {1})
    BY <2>2, <2>3, <2>4 DEF Bijection, Injection, Surjection
  <2> QED
    BY <1>2, <2>5, FS_Bijection DEF ExistsBijection
<1>4. 1 \in S <=> Head(s).opt = o
  BY <1>0
<1> HIDE DEF S, R
<1>5. Cardinality(S \ {1}) = IF 1 \in S THEN Cardinality(S) - 1 ELSE Cardinality(S)
  BY <1>1, FS_RemoveElement
<1>6. CASE Head(s).opt = o
  BY <1>c, <1>1, <1>2, <1>3, <1>4, <1>5, <1>6
<1>7. CASE Head(s).opt # o
  BY <1>c, <1>1, <1>2, <1>3, <1>4, <1>5, <1>7
<1> QED
  BY <1>6, <1>7

(* The call at work for a click of option o.                                 *)
InHand(c, o) == IF c.by = "task" /\ c.opt = o THEN 1 ELSE 0

(* Tasks are swapped out only when the batch before has been run.            *)
BatchInHand ==
  /\ batch # <<>> => pc = "tasks" \/ ui = "tasks"
  /\ ui = "init" => pc = "idle"

(* The first step of a call: its task is in hand or already settled.         *)
LEMMA SetEnabledCounts ==
  ASSUME TypeInv, NEW by \in Callers, NEW o \in Options, NEW want, NEW pid, NEW hs,
         SetEnabled(by, o, want, pid, hs)
  PROVE  /\ call = NoCall
         /\ \A q \in Options :
              pending'[q] + (IF by = "task" /\ q = o THEN 1 ELSE 0)
                = pending[q] + InHand(call', q)
<1>0. OptionTypeOK /\ call = NoCall
  BY TypeInvParts DEF SetEnabled
<1>1. \/ Return(by, o)
      \/ \E step, at, h : Continue(by, o, step, at, h)
  BY DEF SetEnabled, Enable, Disable
<1>2. CASE Return(by, o)
  <2>1. \A q \in Options : InHand(call', q) = 0
    BY <1>2, NoCallOption DEF Return, InHand, NoCall
  <2>2. ASSUME NEW q \in Options
        PROVE  pending[q] \in Int /\ pending'[q] = pending[q] - IF by = "task" /\ q = o THEN 1 ELSE 0
    BY <1>0, <1>2 DEF Return, OptionTypeOK
  <2> QED
    BY <1>0, <2>1, <2>2
<1>3. CASE \E step, at, h : Continue(by, o, step, at, h)
  <2>1. pending' = pending /\ call'.by = by /\ call'.opt = o
    BY <1>3 DEF Continue
  <2>2. \A q \in Options : InHand(call', q) = IF by = "task" /\ q = o THEN 1 ELSE 0
    BY <2>1 DEF InHand
  <2> QED
    BY <1>0, <2>1, <2>2
<1> QED
  BY <1>0, <1>1, <1>2, <1>3

(* A later step of a call keeps its task in hand or settles it.              *)
LEMMA CallStepCounts ==
  ASSUME TypeInv, Session, CallSteps
  PROVE  \A q \in Options : pending'[q] + InHand(call, q) = pending[q] + InHand(call', q)
<1>0. PICK o \in Options, by \in Callers : o = call.opt /\ by = call.by
  BY CallUnderWay
<1>1. OptionTypeOK
  BY TypeInvParts
<1>2. \/ Return(by, o)
      \/ \E step, at, h : Continue(by, o, step, at, h)
  BY <1>0 DEF CallSteps, ApplyPatch, FinishEnable, RestorePatch, FinishRollback, FinishDisable
<1>3. CASE Return(by, o)
  <2>1. \A q \in Options : InHand(call', q) = 0
    BY <1>3, NoCallOption DEF Return, InHand, NoCall
  <2> QED
    BY <1>0, <1>1, <1>3, <2>1 DEF Return, OptionTypeOK, InHand
<1>4. CASE \E step, at, h : Continue(by, o, step, at, h)
  <2>1. pending' = pending /\ call'.by = by /\ call'.opt = o
    BY <1>4 DEF Continue
  <2> QED
    BY <1>0, <1>1, <2>1 DEF InHand, OptionTypeOK
<1> QED
  BY <1>2, <1>3, <1>4

Counted ==
  /\ PendingMatchesQueue
  /\ BatchInHand

LEMMA CountedInit == Init => Counted
<1> SUFFICES ASSUME Init PROVE Counted
  OBVIOUS
<1>1. /\ queue = <<>> /\ batch = <<>> /\ \A o \in Options : pending[o] = 0
      /\ call.by = "none"
  BY DEF Init, OptionInit, NoCall
<1> QED
  BY <1>1, TasksForEmpty DEF Counted, PendingMatchesQueue, BatchInHand, Init

(* The sum behind a busy counter, of the tasks and the call that is given.   *)
Owed(q, b, c, o) == TasksFor(o, q) + TasksFor(o, b) + InHand(c, o)

LEMMA CountedSums == PendingMatchesQueue <=>
                       \A o \in Options : pending[o] = Owed(queue, batch, call, o)
BY DEF PendingMatchesQueue, Owed, InHand

LEMMA CountedSumsNext == PendingMatchesQueue' <=>
                           \A o \in Options : pending'[o] = Owed(queue', batch', call', o)
BY DEF PendingMatchesQueue, Owed, InHand

LEMMA CountedTypes ==
  ASSUME TypeInv, Session
  PROVE  /\ queue \in Seq(Tasks) /\ batch \in Seq(Tasks)
         /\ \A o \in Options : /\ pending[o] \in Int
                               /\ InHand(NoCall, o) = 0
                               /\ \A c : InHand(c, o) \in {0, 1}
                               /\ TasksFor(o, queue) \in Nat /\ TasksFor(o, batch) \in Nat
<1>1. OptionTypeOK /\ TrainerTypeOK
  BY TypeInvParts
<1>2. queue \in Seq(Tasks) /\ batch \in Seq(Tasks) /\ \A o \in Options : pending[o] \in Int
  BY <1>1 DEF OptionTypeOK, TrainerTypeOK
<1>3. \A o \in Options : InHand(NoCall, o) = 0 /\ \A c : InHand(c, o) \in {0, 1}
  BY DEF InHand, NoCall
<1> QED
  BY <1>2, <1>3, TasksForType

(* The worker and the shutdown take a task, switch, or swap the queue.       *)
LEMMA PendingNext ==
  ASSUME TypeInv, Session, Counted, [Next]_vars
  PROVE  PendingMatchesQueue'
<1>1. \A o \in Options : pending[o] = Owed(queue, batch, call, o)
  BY CountedSums DEF Counted
<1>2. /\ queue \in Seq(Tasks) /\ batch \in Seq(Tasks)
      /\ \A o \in Options : /\ pending[o] \in Int
                            /\ InHand(NoCall, o) = 0
                            /\ \A c : InHand(c, o) \in {0, 1}
                            /\ TasksFor(o, queue) \in Nat /\ TasksFor(o, batch) \in Nat
  BY CountedTypes
<1> SUFFICES ASSUME NEW o \in Options
             PROVE  pending'[o] = Owed(queue', batch', call', o)
  BY CountedSumsNext
<1>t. pending'[o] \in Int /\ queue' \in Seq(Tasks) /\ batch' \in Seq(Tasks)
  <2>1. OptionTypeOK' /\ TrainerTypeOK'
    BY TypeNext, TypeInvParts DEF TypeInv, TypeOK, OptionTypeOK, TrainerTypeOK
  <2> QED
    BY <2>1 DEF OptionTypeOK, TrainerTypeOK
<1>v. /\ InHand(call, o) \in Int /\ InHand(call', o) \in Int /\ pending[o] \in Int
      /\ TasksFor(o, queue) \in Int /\ TasksFor(o, batch) \in Int
  BY <1>2
<1>u. TasksFor(o, queue') \in Nat /\ TasksFor(o, batch') \in Nat
  BY <1>t, TasksForType
<1>3. CASE UNCHANGED <<pending, queue, batch, call>>
  BY <1>1, <1>3
<1>4. CASE UNCHANGED <<queue, batch>> /\ CallSteps
  <2>1. pending'[o] + InHand(call, o) = pending[o] + InHand(call', o)
    BY <1>4, CallStepCounts
  <2>2. pending[o] = TasksFor(o, queue) + TasksFor(o, batch) + InHand(call, o)
    BY <1>1 DEF Owed
  <2>3. pending'[o] = TasksFor(o, queue) + TasksFor(o, batch) + InHand(call', o)
    BY <1>t, <1>v, <2>1, <2>2
  <2> QED
    BY <1>4, <2>3 DEF Owed
<1>5. CASE /\ UNCHANGED <<queue, batch>>
           /\ \E by \in Callers \ {"task"}, x \in Options, want \in BOOLEAN :
                SetEnabled(by, x, want, processId, OpenHandles)
  <2>1. PICK by \in Callers \ {"task"}, x \in Options, want \in BOOLEAN :
                SetEnabled(by, x, want, processId, OpenHandles)
    BY <1>5
  <2>2. call = NoCall /\ pending'[o] + 0 = pending[o] + InHand(call', o)
    BY <2>1, SetEnabledCounts
  <2> QED
    BY <1>1, <1>2, <1>t, <1>5, <2>2 DEF Owed
<1>6. CASE RunTask
  <2>1. Head(batch) \in Tasks /\ batch # <<>> /\ batch' = Tail(batch) /\ queue' = queue
    BY <1>2, <1>6 DEF RunTask
  <2>2. PICK t \in Tasks : t = Head(batch)
    BY <2>1
  <2>3. t.opt \in Options /\ t.want \in BOOLEAN
    BY DEF Tasks
  <2>4. SetEnabled("task", t.opt, t.want, processId, OpenHandles)
    BY <1>6, <2>2 DEF RunTask
  <2>5. /\ call = NoCall
        /\ pending'[o] + (IF o = t.opt THEN 1 ELSE 0) = pending[o] + InHand(call', o)
    BY <2>3, <2>4, SetEnabledCounts DEF Callers
  <2>6. TasksFor(o, batch) = TasksFor(o, batch') + (IF t.opt = o THEN 1 ELSE 0)
    BY <1>2, <2>1, <2>2, TasksForTail
  <2>7. pending[o] = TasksFor(o, queue) + TasksFor(o, batch) + InHand(call, o) /\ InHand(call, o) = 0
    BY <1>1, <1>2, <2>5 DEF Owed
  <2>8. pending'[o] = TasksFor(o, queue) + TasksFor(o, batch') + InHand(call', o)
    <3>1. CASE o = t.opt
      BY <1>t, <1>u, <1>v, <2>5, <2>6, <2>7, <3>1
    <3>2. CASE o # t.opt
      BY <1>t, <1>u, <1>v, <2>5, <2>6, <2>7, <3>2
    <3> QED
      BY <3>1, <3>2
  <2> QED
    BY <2>1, <2>8 DEF Owed
<1>7. CASE UiPost
  <2>1. /\ click \in Tasks /\ queue' = Append(queue, click) /\ UNCHANGED <<batch, call>>
        /\ pending'[o] = pending[o] + (IF o = click.opt THEN 1 ELSE 0)
    BY <1>2, <1>7, TypeInvParts DEF UiPost, TrainerTypeOK, OptionTypeOK
  <2>2. TasksFor(o, queue') = TasksFor(o, queue) + (IF click.opt = o THEN 1 ELSE 0)
    BY <1>2, <2>1, TasksForAppend
  <2>3. pending[o] = TasksFor(o, queue) + TasksFor(o, batch) + InHand(call, o)
    BY <1>1 DEF Owed
  <2>4. pending'[o] = TasksFor(o, queue') + TasksFor(o, batch) + InHand(call, o)
    <3>1. CASE o = click.opt
      BY <1>t, <1>u, <1>v, <2>1, <2>2, <2>3, <3>1
    <3>2. CASE o # click.opt
      BY <1>t, <1>u, <1>v, <2>1, <2>2, <2>3, <3>2
    <3> QED
      BY <3>1, <3>2
  <2> QED
    BY <2>1, <2>4 DEF Owed
<1>8. CASE WorkerSwaps \/ UiJoin
  <2>1. batch = <<>>
    BY <1>8, TypeInvParts DEF Counted, BatchInHand, WorkerSwaps, UiJoin, Phases
  <2>2. batch' = queue /\ queue' = <<>> /\ UNCHANGED <<pending, call>>
    BY <1>8 DEF WorkerSwaps, UiJoin, optionVars
  <2> QED
    BY <1>1, <1>2, <2>1, <2>2, TasksForEmpty DEF Owed
<1> QED
  <2>1. CASE Environment \/ UNCHANGED vars
    BY <1>3, <2>1
    DEF Environment, Start, GameExits, GameWrites, Timer, TimerElapses, vars, optionVars, taskVars
  <2>2. CASE Worker
    <3>1. CASE WorkerHotkey
      <4>1. cur \in Options /\ SetEnabled("hotkey", cur, IsOneShot(cur) \/ ~enabled[cur], processId, OpenHandles)
        BY <3>1, TypeInvParts, OptionAssumption
        DEF WorkerHotkey, ToggleByHotkey, TrainerTypeOK, OptionAssumption, Options
      <4> QED
        BY <1>5, <3>1, <4>1 DEF WorkerHotkey, Callers, taskVars
    <3>2. CASE WorkerAutoOff
      BY <1>5, <3>2, TypeInvParts DEF WorkerAutoOff, AutoOff, Phases, Callers, taskVars
    <3> QED
      BY <1>3, <1>8, <2>2, <3>1, <3>2
      DEF Worker, WorkerStops, WorkerLosesGame, ProcessLost, WorkerKeepsGame, WorkerSkipsSearch,
          WorkerSearches, WorkerOpens, WorkerTasksDone, WorkerNoHotkey, WorkerTick, TickPatches,
          WorkerNext, optionVars, taskVars
  <2>3. CASE CallStep
    BY <1>4, <2>3 DEF CallStep, CallSteps, taskVars
  <2>4. CASE UiDisable
    <3>1. cur \in Options
      BY <2>4, TypeInvParts, OptionAssumption DEF UiDisable, TrainerTypeOK, OptionAssumption, Options
    <3>2. SetEnabled("exit", cur, FALSE, processId, OpenHandles) \/ UNCHANGED optionVars
      BY <2>4 DEF UiDisable
    <3> QED
      BY <1>3, <1>5, <2>4, <3>1, <3>2 DEF UiDisable, Callers, optionVars, taskVars
  <2>5. CASE UiTasksDone \/ UiExit \/ User
    BY <1>3, <2>5 DEF UiTasksDone, UiExit, User, UiStart, UiClick, UiClose, optionVars, taskVars
  <2> QED
    BY <1>6, <1>7, <1>8, <2>1, <2>2, <2>3, <2>4, <2>5 DEF Next, UiProgress, Exited

LEMMA BatchNext ==
  ASSUME TypeInv, BatchInHand, [Next]_vars
  PROVE  BatchInHand'
<1>0. Phases
  BY TypeInvParts
<1>1. CASE UNCHANGED <<batch, pc, ui>>
  BY <1>1 DEF BatchInHand
<1>2. CASE Environment \/ CallStep \/ UiPost \/ UiDisable \/ Exited \/ UNCHANGED vars
  BY <1>1, <1>2
  DEF Environment, Start, GameExits, GameWrites, Timer, CallStep, UiPost, UiDisable, Exited, vars,
      workerVars, taskVars
<1>3. CASE Worker
  BY <1>3 DEF BatchInHand,
    Worker, WorkerStops, WorkerLosesGame, WorkerKeepsGame, WorkerSkipsSearch,
    WorkerSearches, WorkerOpens, WorkerSwaps, WorkerTasksDone, WorkerHotkey, WorkerNoHotkey,
    WorkerAutoOff, WorkerTick, WorkerNext, taskVars
<1>4. CASE RunTask
  BY <1>4 DEF RunTask, BatchInHand, workerVars
<1>5. CASE UiJoin \/ UiTasksDone \/ UiExit \/ User
  BY <1>0, <1>5
  DEF UiJoin, UiTasksDone, UiExit, User, UiStart, UiClick, UiClose, BatchInHand, Phases,
      workerVars, taskVars
<1> QED
  BY <1>1, <1>2, <1>3, <1>4, <1>5 DEF Next, UiProgress

(* The busy counter of an option is the number of clicks on it that are not  *)
(* carried out, whoever carries them out (CheatOption.cpp, BeginPending and  *)
(* EndPending).                                                              *)
THEOREM PendingIsExact == Spec => []PendingMatchesQueue
<1>1. TypeInv /\ Session /\ Counted /\ [Next]_vars => Counted'
  BY PendingNext, BatchNext DEF Counted
<1>2. Counted => PendingMatchesQueue
  BY DEF Counted
<1> QED
  BY <1>1, <1>2, CountedInit, TypeInit, TypeNext, SessionInit, SessionNext, PTL DEF Spec
-----------------------------------------------------------------------------
(* The trainer as a switchboard.                                             *)

(* The queue stays empty after the last swap, the batch after the last task; *)
(* what is decided is posted before the window closes; and a switch that is  *)
(* on explains nothing and needs a game.                                     *)
Served ==
  /\ ui # "open" => click = NoClick
  /\ ui \in {"tasks", "disableAll", "exited"} => queue = <<>>
  /\ ui \in {"disableAll", "exited"} => batch = <<>> /\ call.by # "task"

NoReason == \A o \in Options : enabled[o] /\ failed[o] => IsOneShot(o)

OnNeedsGame == processId = 0 => \A o \in Options : ~enabled[o]

(* The first step of a call settles the switch or leaves it to the next.     *)
LEMMA SetEnabledObeys ==
  ASSUME OptionTypeOK, NoReason, NEW by, NEW o \in Options, NEW want \in BOOLEAN, NEW pid, NEW hs,
         SetEnabled(by, o, want, pid, hs)
  PROVE  \/ Return(by, o) /\ Board!Obeys(o, want)
         \/ /\ UNCHANGED <<enabled, failed>>
            /\ \E step \in Steps : \E at, h :
                 Continue(by, o, step, at, h) /\ (want <=> step # "restore")
<1>1. CASE want
  <2>1. Enable(by, o, pid, hs)
    BY <1>1 DEF SetEnabled
  <2>2. CASE enabled[o] /\ ~IsOneShot(o)
    <3>1. Return(by, o) /\ UNCHANGED <<enabled, failed>>
      BY <2>1, <2>2 DEF Enable
    <3>2. failed[o] = FALSE
      BY <2>2 DEF NoReason, OptionTypeOK
    <3>3. enabled' = [enabled EXCEPT ![o] = TRUE] /\ failed' = [failed EXCEPT ![o] = FALSE]
      BY <2>2, <3>1, <3>2 DEF OptionTypeOK
    <3> QED
      BY <1>1, <3>1, <3>3 DEF Board!Obeys
  <2>3. CASE ~(enabled[o] /\ ~IsOneShot(o))
    <3>1. /\ UNCHANGED enabled
          /\ \/ failed' = [failed EXCEPT ![o] = TRUE] /\ Return(by, o)
             \/ \E h : Continue(by, o, "apply", 1, h) /\ UNCHANGED failed
      BY <2>1, <2>3 DEF Enable
    <3>2. CASE failed' = [failed EXCEPT ![o] = TRUE] /\ Return(by, o)
      BY <1>1, <2>3, <3>1, <3>2 DEF Board!Obeys
    <3> QED
      BY <1>1, <3>1, <3>2 DEF Steps
  <2> QED
    BY <2>2, <2>3
<1>2. CASE ~want
  <2>1. Disable(by, o, pid, hs)
    BY <1>2 DEF SetEnabled
  <2>2. /\ failed' = failed
        /\ \/ enabled' = [enabled EXCEPT ![o] = FALSE] /\ Return(by, o)
           \/ \E h : Continue(by, o, "restore", Len(PatchSeq[o]), h) /\ UNCHANGED enabled
    BY <2>1 DEF Disable
  <2>3. want = FALSE
    BY <1>2
  <2>4. CASE enabled' = [enabled EXCEPT ![o] = FALSE] /\ Return(by, o)
    BY <2>2, <2>3, <2>4 DEF Board!Obeys
  <2> QED
    BY <2>2, <2>3, <2>4 DEF Steps
<1> QED
  BY <1>1, <1>2

(* So does every later step.                                                 *)
LEMMA CallStepObeys ==
  ASSUME TypeInv, Session, Switches, CallSteps
  PROVE  \/ Return(call.by, call.opt) /\ Board!Obeys(call.opt, call.step # "restore")
         \/ /\ UNCHANGED <<enabled, failed>>
            /\ \E step \in Steps : \E at, h :
                 /\ Continue(call.by, call.opt, step, at, h)
                 /\ call.step # "restore" <=> step # "restore"
<1>0. /\ call # NoCall /\ call.opt \in Options
  BY CallUnderWay
<1>1. CASE ApplyPatch
  BY <1>1 DEF ApplyPatch, Steps
<1>2. CASE RestorePatch
  BY <1>2 DEF RestorePatch, Steps
<1>3. CASE FinishEnable
  BY <1>3 DEF FinishEnable, Board!Obeys
<1>4. CASE FinishRollback
  <2>1. enabled[call.opt] => IsOneShot(call.opt)
    BY <1>0, <1>4 DEF Switches, CallProgress, FinishRollback
  <2> QED
    BY <1>0, <1>4, <2>1 DEF FinishRollback, Board!Obeys
<1>5. CASE FinishDisable
  BY <1>5 DEF FinishDisable, Board!Obeys
<1> QED
  BY <1>1, <1>2, <1>3, <1>4, <1>5 DEF CallSteps

(* A step about neither the switches nor the clicks.                         *)
BoardRests == UNCHANGED <<enabled, failed, pending, call, batch, queue>>

LEMMA BoardKinds ==
  ASSUME TypeInv, Session, [Next]_vars
  PROVE  \/ BoardRests /\ (ui' = "exited" <=> ui = "exited")
         \/ UiPost
         \/ RunTask
         \/ WorkerLosesGame
         \/ WorkerSwaps \/ UiJoin
         \/ UiTasksDone \/ UiExit
         \/ CallSteps /\ UNCHANGED <<batch, queue, ui>>
         \/ /\ UNCHANGED <<batch, queue, ui>> /\ ui # "exited"
            /\ \E by \in Callers \ {"task"}, o \in Options, want \in BOOLEAN :
                 SetEnabled(by, o, want, processId, OpenHandles)
<1>0. /\ TrainerTypeOK /\ Phases /\ NumOptions \in Nat /\ Options = 1..NumOptions
  BY TypeInvParts, OptionAssumption DEF OptionAssumption, Options
<1>1. CASE UNCHANGED vars \/ Environment \/ User \/ Exited
  BY <1>1
  DEF vars, Environment, Start, GameExits, GameWrites, Timer, TimerElapses, User, UiStart, UiClick,
      UiClose, Exited, BoardRests, optionVars, patchVars, taskVars
<1>2. CASE UiDisable
  <2>1. cur \in Options
    BY <1>0, <1>2 DEF UiDisable, TrainerTypeOK
  <2> QED
    BY <1>2, <2>1 DEF UiDisable, Callers, BoardRests, optionVars, taskVars
<1>3. CASE WorkerHotkey \/ WorkerAutoOff
  <2>1. cur \in Options /\ (IsOneShot(cur) \/ ~enabled[cur]) \in BOOLEAN
    BY <1>0, <1>3 DEF WorkerHotkey, WorkerAutoOff, Phases, TrainerTypeOK
  <2>2. UNCHANGED <<batch, queue, ui>> /\ ui # "exited"
    BY <1>0, <1>3 DEF WorkerHotkey, WorkerAutoOff, Phases, taskVars
  <2> QED
    BY <1>3, <2>1, <2>2 DEF WorkerHotkey, WorkerAutoOff, ToggleByHotkey, AutoOff, Callers
<1>4. CASE CallStep
  BY <1>4 DEF CallStep, CallSteps, taskVars
<1>5. CASE WorkerStops \/ WorkerKeepsGame \/ WorkerSkipsSearch \/ WorkerSearches \/ WorkerOpens
           \/ WorkerTasksDone \/ WorkerNoHotkey \/ WorkerTick \/ WorkerNext
  BY <1>5
  DEF WorkerStops, WorkerKeepsGame, WorkerSkipsSearch, WorkerSearches, WorkerOpens, WorkerTasksDone,
      WorkerNoHotkey, WorkerTick, TickPatches, WorkerNext, BoardRests, optionVars, patchVars, taskVars
<1> QED
  BY <1>1, <1>2, <1>3, <1>4, <1>5 DEF Next, Worker, UiProgress

LEMMA NoReasonNext ==
  ASSUME TypeInv, Session, Switches, NoReason, [Next]_vars
  PROVE  NoReason'
<1>0. OptionTypeOK /\ TrainerTypeOK
  BY TypeInvParts
<1>1. CASE UNCHANGED <<enabled, failed>>
  BY <1>1 DEF NoReason
<1>2. ASSUME NEW o \in Options, NEW want \in BOOLEAN, Board!Obeys(o, want) PROVE NoReason'
  BY <1>0, <1>2 DEF Board!Obeys, NoReason, OptionTypeOK
<1>3. CASE CallSteps
  <2>1. call.opt \in Options /\ (call.step # "restore") \in BOOLEAN
    BY <1>3, CallUnderWay
  <2> QED
    BY <1>1, <1>2, <1>3, <2>1, CallStepObeys
<1>4. ASSUME NEW by \in Callers, NEW o \in Options, NEW want \in BOOLEAN,
             SetEnabled(by, o, want, processId, OpenHandles)
      PROVE  NoReason'
  BY <1>0, <1>1, <1>2, <1>4, SetEnabledObeys
<1>5. CASE RunTask
  <2>1. Head(batch) \in Tasks
    BY <1>0, <1>5 DEF RunTask, TrainerTypeOK
  <2> QED
    BY <1>4, <1>5, <2>1 DEF RunTask, Tasks, Callers
<1>6. CASE WorkerLosesGame
  BY <1>6 DEF WorkerLosesGame, ProcessLost, NoReason
<1>7. CASE UiPost \/ WorkerSwaps \/ UiJoin \/ UiTasksDone \/ UiExit \/ BoardRests
  BY <1>1, <1>7
  DEF UiPost, WorkerSwaps, UiJoin, UiTasksDone, UiExit, BoardRests, optionVars, patchVars
<1> QED
  BY <1>3, <1>4, <1>5, <1>6, <1>7, BoardKinds

LEMMA OnNeedsGameNext ==
  ASSUME TypeInv, Session, Session', Known, OnNeedsGame, [Next]_vars
  PROVE  OnNeedsGame'
<1>0. OptionTypeOK /\ TrainerTypeOK /\ 0 \notin Pids /\ ProcTypeOK
  BY TypeInvParts, ProcAssumption DEF ProcAssumption
<1>1. CASE processId' = processId /\ \A o \in Options : enabled'[o] => enabled[o]
  BY <1>1 DEF OnNeedsGame
<1>2. CASE WorkerLosesGame
  BY <1>2 DEF WorkerLosesGame, ProcessLost, OnNeedsGame
<1>3. CASE WorkerOpens
  <2>1. pc' # "done" /\ enabled' = enabled
    BY <1>3 DEF WorkerOpens, optionVars
  <2>2. CASE processId' # 0
    BY <2>2 DEF OnNeedsGame
  <2>3. CASE processId' = 0
    <3>1. mem' = NoProc
      BY <2>1, <2>3 DEF Session, PidMatchesHandle
    <3>2. processId' = processId
      BY <1>3, <3>1 DEF WorkerOpens
    <3> QED
      BY <1>1, <2>1, <3>2
  <2> QED
    BY <2>2, <2>3
<1>4. CASE CallSteps /\ UNCHANGED processId
  <2>1. call # NoCall /\ call.opt \in Options
    BY <1>4, CallUnderWay
  <2>2. processId # 0
    BY <1>0, <2>1, SessionFacts DEF Known, ProcTypeOK, Session, Births, NoProc
  <2> QED
    BY <1>4, <2>2 DEF OnNeedsGame
<1>5. CASE Switching /\ UNCHANGED processId
  <2>1. PICK o \in Options : enabled' = enabled \/ enabled' = [enabled EXCEPT ![o] = FALSE]
    BY <1>5, SetEnabledCases DEF Switching
  <2> QED
    BY <1>0, <1>1, <1>5, <2>1 DEF OptionTypeOK
<1>6. CASE (\E pid \in Pids, sort \in ProcSorts : Start(pid, sort)) \/ GameExits
  BY <1>1, <1>6 DEF Start, GameExits, workerVars, optionVars
<1>7. CASE Apart
  BY <1>1, <1>7 DEF Apart
<1> QED
  BY <1>2, <1>3, <1>4, <1>5, <1>6, <1>7, SiteKinds

LEMMA ServedNext ==
  ASSUME TypeInv, Session, Switches, Shutting, BatchInHand, Served, [Next]_vars
  PROVE  Served'
<1>0. Phases /\ TrainerTypeOK /\ NoCall.by # "task"
  BY TypeInvParts DEF NoCall
<1>1. CASE UNCHANGED <<ui, click, queue, batch, call>>
  BY <1>1 DEF Served
<1>2. CASE Environment \/ Exited \/ UNCHANGED vars
  BY <1>1, <1>2
  DEF Environment, Start, GameExits, GameWrites, Timer, TimerElapses, Exited, vars, optionVars,
      patchVars, taskVars
<1>3. CASE Worker
  <2>1. ui \notin {"tasks", "disableAll", "exited"} /\ UNCHANGED <<ui, click>>
    BY <1>0, <1>3
    DEF Phases, Worker, WorkerStops, WorkerLosesGame, WorkerKeepsGame, WorkerSkipsSearch,
        WorkerSearches, WorkerOpens, WorkerSwaps, WorkerTasksDone, WorkerHotkey, WorkerNoHotkey,
        WorkerAutoOff, WorkerTick, WorkerNext
  <2> QED
    BY <2>1 DEF Served
<1>4. CASE RunTask
  <2>1. UNCHANGED <<ui, click, queue>> /\ ui \notin {"disableAll", "exited"}
    BY <1>0, <1>4 DEF RunTask, Phases
  <2> QED
    BY <2>1 DEF Served
<1>5. CASE CallStep
  <2>1. UNCHANGED <<ui, click, queue, batch>> /\ CallSteps
    BY <1>5 DEF CallStep, CallSteps, taskVars
  <2>2. call'.by \in {call.by, "none"}
    BY <2>1, CallStepObeys DEF Return, Continue, NoCall
  <2> QED
    BY <2>1, <2>2 DEF Served
<1>6. CASE UiPost
  BY <1>6 DEF UiPost, Served
<1>7. CASE UiJoin \/ User
  BY <1>7
  DEF UiJoin, User, UiStart, UiClick, UiClose, Served, optionVars, taskVars
<1>8. CASE UiTasksDone \/ UiExit
  BY <1>0, <1>8 DEF UiTasksDone, UiExit, Served, optionVars, taskVars
<1>9. CASE UiDisable
  <2>1. UNCHANGED <<ui, click, queue, batch>> /\ cur \in Options
    BY <1>0, <1>9, OptionAssumption
    DEF OptionAssumption, UiDisable, TrainerTypeOK, Options, taskVars
  <2>2. call'.by \in {"exit", "none"}
    BY <1>0, <1>9 DEF UiDisable, SetEnabled, Disable, Return, Continue, NoCall, optionVars
  <2> QED
    BY <2>1, <2>2 DEF Served
<1> QED
  BY <1>2, <1>3, <1>4, <1>5, <1>6, <1>7, <1>8, <1>9 DEF Next, UiProgress

LEMMA BatchHead ==
  ASSUME NEW b \in Seq(Tasks), b # <<>>
  PROVE  /\ Head(b) \in Tasks /\ Tail(b) \in Seq(Tasks)
         /\ b = <<Head(b)>> \o Tail(b)
OBVIOUS

LEMMA FirstRequest ==
  ASSUME NEW r \in Tasks, NEW s \in Seq(Tasks)
  PROVE  /\ <<r>> \o s # <<>>
         /\ Head(<<r>> \o s) = r
         /\ Tail(<<r>> \o s) = s
OBVIOUS

LEMMA Regrouped ==
  ASSUME NEW s \in Seq(Tasks), NEW t \in Seq(Tasks)
  PROVE  /\ <<>> \o s \o t = s \o t
         /\ \A r \in Tasks : <<r>> \o s \o t = <<r>> \o (s \o t)
OBVIOUS

LEMMA RequestTypes ==
  ASSUME TypeInv
  PROVE  /\ TaskInHand \in Seq(Tasks) /\ batch \in Seq(Tasks) /\ queue \in Seq(Tasks)
         /\ call.by = "task" => [opt |-> call.opt, want |-> call.step # "restore"] \in Tasks
<1>1. OptionTypeOK /\ TrainerTypeOK
  BY TypeInvParts
<1>2. call.by = "task" => [opt |-> call.opt, want |-> call.step # "restore"] \in Tasks
  BY <1>1 DEF OptionTypeOK, NoCall, Tasks
<1> QED
  BY <1>1, <1>2 DEF TrainerTypeOK, TaskInHand

LEMMA RequestsSplit ==
  ASSUME TypeInv
  PROVE  /\ call.by = "task" =>
              Requests = <<[opt |-> call.opt, want |-> call.step # "restore"]>> \o (batch \o queue)
         /\ call.by # "task" => Requests = batch \o queue
         /\ call.by # "task" /\ batch # <<>> =>
              Requests = <<[opt |-> Head(batch).opt, want |-> Head(batch).want]>> \o (Tail(batch) \o queue)
<1>1. call.by # "task" => Requests = batch \o queue
  BY RequestTypes DEF Requests, TaskInHand
<1>2. ASSUME call.by = "task"
      PROVE  Requests = <<[opt |-> call.opt, want |-> call.step # "restore"]>> \o (batch \o queue)
  <2> DEFINE r == [opt |-> call.opt, want |-> call.step # "restore"]
  <2>1. r \in Tasks
    BY <1>2, RequestTypes
  <2>2. Requests = <<r>> \o batch \o queue
    BY <1>2 DEF Requests, TaskInHand
  <2> HIDE DEF r
  <2>3. <<r>> \o batch \o queue = <<r>> \o (batch \o queue)
    BY <2>1, RequestTypes
  <2> QED
    BY <2>2, <2>3 DEF r
<1>3. ASSUME call.by # "task", batch # <<>>
      PROVE  Requests = <<[opt |-> Head(batch).opt, want |-> Head(batch).want]>> \o (Tail(batch) \o queue)
  <2>1. /\ Head(batch) \in Tasks /\ Tail(batch) \in Seq(Tasks)
        /\ batch = <<Head(batch)>> \o Tail(batch)
    BY <1>3, BatchHead, RequestTypes
  <2>2. Head(batch) = [opt |-> Head(batch).opt, want |-> Head(batch).want]
    BY <2>1 DEF Tasks
  <2>3. ASSUME NEW r \in Tasks, NEW t \in Seq(Tasks) PROVE (<<r>> \o t) \o queue = <<r>> \o (t \o queue)
    BY RequestTypes
  <2> QED
    BY <1>1, <1>3, <2>1, <2>2, <2>3
<1> QED
  BY <1>1, <1>2, <1>3

(* Whoever settles a switch serves the first request, or nobody's.           *)
LEMMA SettlingServes ==
  ASSUME TypeInv, ui # "exited", ui' = ui, queue' = queue,
         NEW by \in Callers, NEW o \in Options, NEW want \in BOOLEAN,
         by = "task" => Requests = <<[opt |-> o, want |-> want]>> \o (batch' \o queue),
         by # "task" => call.by # "task" /\ batch' = batch,
         batch' \in Seq(Tasks),
         Return(by, o), Board!Obeys(o, want)
  PROVE  Board!Next
<1>0. /\ batch \in Seq(Tasks) /\ queue \in Seq(Tasks) /\ batch' \o queue \in Seq(Tasks)
      /\ [opt |-> o, want |-> want] \in Tasks
  BY RequestTypes DEF Tasks
<1>1. TaskInHand' = <<>>
  BY DEF Return, NoCall, TaskInHand
<1>2. Requests' = batch' \o queue
  BY <1>0, <1>1 DEF Requests
<1>3. CASE by = "task"
  <2>1. /\ Requests # <<>> /\ Requests' = Tail(Requests)
        /\ Head(Requests).opt = o /\ Head(Requests).want = want
    BY <1>0, <1>2, <1>3, FirstRequest
  <2>2. pending' = [pending EXCEPT ![Head(Requests).opt] = @ - 1]
    BY <1>3, <2>1 DEF Return
  <2>3. Board!Obeys(Head(Requests).opt, Head(Requests).want)
    BY <2>1
  <2>4. Board!Serve
    BY <2>1, <2>2, <2>3 DEF Board!Serve
  <2> QED
    BY <2>4 DEF Board!Next
<1>4. CASE by # "task"
  <2>1. Requests = batch \o queue
    BY <1>4, RequestsSplit
  <2>2. Board!Unasked(o, want)
    BY <1>2, <1>4, <2>1 DEF Board!Unasked, Return
  <2> QED
    BY <2>2 DEF Board!Next
<1> QED
  BY <1>3, <1>4

(* Whoever takes one up for more steps leaves the requests as they are.      *)
LEMMA ContinuingWaits ==
  ASSUME TypeInv, ui' = ui, queue' = queue, UNCHANGED <<enabled, failed>>,
         NEW by \in Callers, NEW o \in Options, NEW want \in BOOLEAN,
         by = "task" => Requests = <<[opt |-> o, want |-> want]>> \o (batch' \o queue),
         by # "task" => call.by # "task" /\ batch' = batch,
         batch' \in Seq(Tasks),
         NEW step, NEW at, NEW h, Continue(by, o, step, at, h), want <=> step # "restore"
  PROVE  UNCHANGED Board!boardVars
<1>0. /\ batch \in Seq(Tasks) /\ queue \in Seq(Tasks)
      /\ [opt |-> o, want |-> want] \in Tasks
  BY RequestTypes DEF Tasks
<1>1. TaskInHand' = IF by = "task" THEN <<[opt |-> o, want |-> want]>> ELSE <<>>
  <2>1. call'.by = by /\ call'.opt = o /\ call'.step = step
    BY DEF Continue
  <2>2. want = (call'.step # "restore")
    BY <2>1
  <2> QED
    BY <2>1, <2>2 DEF TaskInHand
<1>2. ASSUME by = "task" PROVE Requests' = Requests
  <2>1. Requests' = <<[opt |-> o, want |-> want]>> \o batch' \o queue'
    BY <1>1, <1>2 DEF Requests
  <2> QED
    BY <1>0, <1>2, <2>1, Regrouped
<1>3. ASSUME by # "task" PROVE Requests' = Requests
  <2>1. Requests' = <<>> \o batch \o queue
    BY <1>1, <1>3 DEF Requests
  <2> QED
    BY <1>0, <1>3, <2>1, Regrouped, RequestsSplit
<1>4. Requests' = Requests
  BY <1>2, <1>3
<1> QED
  BY <1>4 DEF Board!boardVars, Continue

(* Every step of the trainer is one of the switchboard or none.              *)
BoardInv ==
  TypeInv /\ Session /\ Switches /\ Known /\ Shutting /\ BatchInHand /\ Served /\ NoReason /\ OnNeedsGame

LEMMA ClosingCloses ==
  ASSUME BoardInv, UiTasksDone \/ UiExit
  PROVE  [Board!Next]_(Board!boardVars)
<1>0. /\ Requests' = Requests /\ UNCHANGED <<enabled, failed, pending>> /\ call = NoCall
  BY DEF UiTasksDone, UiExit, Requests, TaskInHand, optionVars, taskVars
<1>1. ui # "exited" /\ queue = <<>> /\ batch = <<>>
  BY DEF BoardInv, UiTasksDone, UiExit, Served
<1>2. Requests = <<>>
  BY <1>0, <1>1 DEF Requests, TaskInHand, NoCall
<1>3. ASSUME ui' = "exited", NEW o \in Options, enabled[o] PROVE IsOneShot(o)
  <2>1. CASE UiTasksDone
    BY <1>3, <2>1 DEF UiTasksDone, BoardInv, OnNeedsGame
  <2>2. CASE UiExit
    <3>1. o < cur
      BY <2>2, TypeInvParts, OptionAssumption
      DEF BoardInv, UiExit, OptionAssumption, Options, TrainerTypeOK
    <3> QED
      BY <1>3, <2>2, <3>1, NoCallOption DEF UiExit, BoardInv, Shutting, Off
  <2> QED
    BY <2>1, <2>2
<1>4. CASE ui' = "exited"
  <2>1. Board!Close
    BY <1>0, <1>2, <1>3, <1>4 DEF Board!Close
  <2> QED
    BY <2>1 DEF Board!Next
<1>5. CASE ui' # "exited"
  BY <1>0, <1>1, <1>5 DEF Board!boardVars
<1> QED
  BY <1>4, <1>5

LEMMA ClickClicks ==
  ASSUME BoardInv, UiPost
  PROVE  Board!Next
<1>0. /\ click.opt \in Options /\ click.want \in BOOLEAN /\ click \in Tasks
      /\ click = [opt |-> click.opt, want |-> click.want]
  BY TypeInvParts DEF BoardInv, TrainerTypeOK, UiPost, Tasks
<1>1. ui # "exited" /\ ui' # "exited"
  BY DEF BoardInv, UiPost, Served
<1>2. Requests' = Append(Requests, click)
  <2>1. TaskInHand' = TaskInHand /\ batch' = batch /\ queue' = Append(queue, click)
    BY DEF UiPost, TaskInHand
  <2> QED
    BY <1>0, <2>1, RequestTypes DEF BoardInv, Requests
<1>3. Board!Click(click.opt, click.want)
  BY <1>0, <1>1, <1>2 DEF UiPost, Board!Click
<1> QED
  BY <1>0, <1>3 DEF Board!Next

LEMMA BoardStep ==
  ASSUME BoardInv, [Next]_vars
  PROVE  [Board!Next]_(Board!boardVars)
<1>0. /\ TypeInv /\ Session /\ Switches /\ NoReason /\ Phases /\ OptionTypeOK /\ TrainerTypeOK
      /\ NoCall.by = "none" /\ batch \in Seq(Tasks)
  BY TypeInvParts DEF BoardInv, NoCall, TrainerTypeOK
<1>1. CASE BoardRests /\ (ui' = "exited" <=> ui = "exited")
  BY <1>1 DEF BoardRests, Board!boardVars, Requests, TaskInHand
<1>2. CASE UiPost
  BY <1>2, ClickClicks
<1>3. CASE UiTasksDone \/ UiExit
  BY <1>3, ClosingCloses
<1>4. CASE WorkerLosesGame
  <2>1. /\ ui # "exited" /\ ui' = ui /\ Requests' = Requests
        /\ enabled' = [o \in Options |-> FALSE] /\ UNCHANGED <<failed, pending>>
    BY <1>0, <1>4 DEF Phases, WorkerLosesGame, ProcessLost, Requests, TaskInHand, taskVars
  <2>2. Board!GameLost
    BY <2>1 DEF Board!GameLost
  <2> QED
    BY <2>2 DEF Board!Next
<1>5. CASE WorkerSwaps \/ UiJoin
  <2>1. /\ batch = <<>> /\ batch' = queue /\ queue' = <<>> /\ call' = call
        /\ UNCHANGED <<enabled, failed, pending>>
    BY <1>0, <1>5 DEF BoardInv, BatchInHand, WorkerSwaps, UiJoin, Phases, optionVars, patchVars
  <2>2. Requests' = Requests
    BY <1>0, <2>1, RequestTypes DEF Requests, TaskInHand
  <2>3. ui' = "exited" <=> ui = "exited"
    BY <1>5 DEF WorkerSwaps, UiJoin
  <2> QED
    BY <2>1, <2>2, <2>3 DEF Board!boardVars
<1>6. CASE RunTask
  <2> DEFINE t == Head(batch)
  <2>1. /\ t.opt \in Options /\ t.want \in BOOLEAN /\ Tail(batch) \in Seq(Tasks) /\ batch # <<>>
        /\ batch' = Tail(batch) /\ queue' = queue /\ ui' = ui /\ ui # "exited"
        /\ SetEnabled("task", t.opt, t.want, processId, OpenHandles) /\ call = NoCall
    BY <1>0, <1>6, BatchHead DEF RunTask, Tasks, Phases, SetEnabled
  <2>2. Requests = <<[opt |-> t.opt, want |-> t.want]>> \o (batch' \o queue)
    BY <1>0, <2>1, RequestsSplit
  <2> HIDE DEF t
  <2>3. CASE Return("task", t.opt) /\ Board!Obeys(t.opt, t.want)
    BY <1>0, <2>1, <2>2, <2>3, SettlingServes DEF Callers
  <2>4. ASSUME UNCHANGED <<enabled, failed>>, NEW step \in Steps, NEW at, NEW h,
               Continue("task", t.opt, step, at, h), t.want <=> step # "restore"
        PROVE  UNCHANGED Board!boardVars
    BY <1>0, <2>1, <2>2, <2>4, ContinuingWaits DEF Callers
  <2> QED
    BY <1>0, <2>1, <2>3, <2>4, SetEnabledObeys
<1>7. CASE CallSteps /\ UNCHANGED <<batch, queue, ui>>
  <2>1. call # NoCall /\ call.opt \in Options /\ call.by \in Callers /\ (call.step # "restore") \in BOOLEAN
    BY <1>0, <1>7, CallUnderWay
  <2>2. ui # "exited"
    BY <2>1 DEF BoardInv, Shutting
  <2>3. CASE Return(call.by, call.opt) /\ Board!Obeys(call.opt, call.step # "restore")
    BY <1>0, <1>7, <2>1, <2>2, <2>3, RequestsSplit, SettlingServes
  <2>4. ASSUME UNCHANGED <<enabled, failed>>, NEW step \in Steps, NEW at, NEW h,
               Continue(call.by, call.opt, step, at, h), call.step # "restore" <=> step # "restore"
        PROVE  UNCHANGED Board!boardVars
    BY <1>0, <1>7, <2>1, <2>4, RequestsSplit, ContinuingWaits
  <2> QED
    BY <1>0, <1>7, <2>3, <2>4, CallStepObeys
<1>8. ASSUME UNCHANGED <<batch, queue, ui>>, ui # "exited",
             NEW by \in Callers \ {"task"}, NEW o \in Options, NEW want \in BOOLEAN,
             SetEnabled(by, o, want, processId, OpenHandles)
      PROVE  [Board!Next]_(Board!boardVars)
  <2>1. call.by # "task"
    BY <1>0, <1>8 DEF SetEnabled
  <2>2. CASE Return(by, o) /\ Board!Obeys(o, want)
    BY <1>0, <1>8, <2>1, <2>2, SettlingServes
  <2>3. ASSUME UNCHANGED <<enabled, failed>>, NEW step \in Steps, NEW at, NEW h,
               Continue(by, o, step, at, h), want <=> step # "restore"
        PROVE  UNCHANGED Board!boardVars
    BY <1>0, <1>8, <2>1, <2>3, ContinuingWaits
  <2> QED
    BY <1>0, <1>8, <2>2, <2>3, SetEnabledObeys
<1> QED
  BY <1>0, <1>1, <1>2, <1>3, <1>4, <1>5, <1>6, <1>7, <1>8, BoardKinds

LEMMA BoardAlways == Spec => []BoardInv
<1>1. Init => Shutting /\ BatchInHand /\ Served /\ NoReason /\ OnNeedsGame
  BY DEF Init, OptionInit, Shutting, BatchInHand, Served, NoReason, OnNeedsGame
<1>2. BoardInv /\ Session' /\ [Next]_vars =>
        Shutting' /\ BatchInHand' /\ Served' /\ NoReason' /\ OnNeedsGame'
  BY ShuttingNext, BatchNext, ServedNext, NoReasonNext, OnNeedsGameNext DEF BoardInv
<1>3. BoardInv <=> /\ TypeInv /\ Session /\ Switches /\ Known /\ Shutting
                   /\ BatchInHand /\ Served /\ NoReason /\ OnNeedsGame
  BY DEF BoardInv
<1> QED
  BY <1>1, <1>2, <1>3, StandsAlways, PTL DEF Spec

(* Clicks are carried out one by one in the order they were made, by the     *)
(* worker and after it by the window's thread, each once and with its effect *)
(* or a reason; the trainer ends with none left and no switch on that stays  *)
(* on (Cheat.cpp, Post and Stop; CheatOptionManager.cpp, DisableAll).        *)
THEOREM TrainerIsASwitchboard == Spec => ImplementsSwitchboard
<1>1. Init => Board!Init
  BY DEF Init, OptionInit, Board!Init, Requests, TaskInHand, NoCall
<1>2. BoardInv /\ [Next]_vars => [Board!Next]_(Board!boardVars)
  BY BoardStep
<1> QED
  BY <1>1, <1>2, BoardAlways, PTL DEF Spec, ImplementsSwitchboard, Board!Spec

=============================================================================
