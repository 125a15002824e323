--------------------------- MODULE TrainerProofs ---------------------------
(***************************************************************************)
(* Proofs about Trainer, for every registry of options and patches, every   *)
(* set of PIDs and all bounds.                                              *)
(***************************************************************************)
EXTENDS Trainer, TLAPS

USE DEF sessionVars, inputVars, userVars

(* What the list of an option holds are patches.                             *)
LEMMA PatchSeqType ==
  ASSUME NEW o \in Options
  PROVE  /\ PatchSeq[o] \in Seq(Patches)
         /\ Len(PatchSeq[o]) \in Nat
         /\ \A i \in 1..Len(PatchSeq[o]) : PatchSeq[o][i] \in Patches
<1>1. PatchSeq[o] \in Seq(Patches)
  BY OptionAssumption DEF OptionAssumption
<1>2. Len(PatchSeq[o]) \in Nat
  BY <1>1
<1>3. ASSUME NEW i \in 1..Len(PatchSeq[o]) PROVE PatchSeq[o][i] \in Patches
  BY <1>1
<1> QED
  BY <1>1, <1>2, <1>3

(* The handles OpenProcess returns are handles.                              *)
LEMMA OpenResultsType ==
  ASSUME NEW pid, NEW hs \in SUBSET Handles, live \in Handles
  PROVE  OpenResults(pid, hs) \subseteq Handles
<1>1. NoProc \in Handles
  BY ProcAssumption DEF ProcAssumption, NoProc, Handles
<1>2. ASSUME NEW h \in OpenResults(pid, hs) PROVE h \in {NoProc, live} \cup hs
  BY <1>2 DEF OpenResults
<1> QED
  BY <1>1, <1>2

(* The call under way never leaves the list of its option.                   *)
CallBounds ==
  call # NoCall =>
    /\ call.step = "apply" => call.at \in 1..(Len(PatchSeq[call.opt]) + 1)
    /\ call.step # "apply" => call.at \in 0..Len(PatchSeq[call.opt])

CallType == [by: Callers, opt: Options, step: Steps, at: Nat, mem: Handles]

-----------------------------------------------------------------------------
(* Types, component by component.                                            *)

LEMMA ReturnType ==
  ASSUME OptionTypeOK, NEW by, NEW o \in Options, Return(by, o)
  PROVE  call' = NoCall /\ pending' \in [Options -> Int]
BY DEF Return, OptionTypeOK

LEMMA ContinueType ==
  ASSUME OptionTypeOK, NEW by \in Callers, NEW o \in Options, NEW s \in Steps,
         NEW i \in Nat, NEW h \in Handles, Continue(by, o, s, i, h)
  PROVE  call' \in CallType /\ pending' \in [Options -> Int]
BY DEF Continue, OptionTypeOK, CallType

LEMMA SetEnabledType ==
  ASSUME OptionTypeOK, ProcTypeOK, CallBounds,
         NEW by \in Callers, NEW o \in Options, NEW want \in BOOLEAN, NEW pid,
         NEW hs \in SUBSET Handles, SetEnabled(by, o, want, pid, hs)
  PROVE  OptionTypeOK' /\ CallBounds' /\ site' = site
<1> USE DEF OptionTypeOK, CallType
<1>0. live \in Handles /\ NoProc \in Handles /\ site' = site
  BY ProcAssumption DEF ProcTypeOK, Handles, NoProc, SetEnabled, ProcAssumption
<1>1. ASSUME want, Enable(by, o, pid, hs) PROVE OptionTypeOK' /\ CallBounds'
  <2>1. UNCHANGED <<enabled, autoOff, patchIn, saved>>
    BY <1>1 DEF Enable
  <2>2. CASE Return(by, o) /\ (failed' = failed \/ failed' = [failed EXCEPT ![o] = TRUE])
    BY <2>1, <2>2, ReturnType DEF CallBounds
  <2>3. CASE UNCHANGED failed /\ \E h \in OpenResults(pid, hs) : Continue(by, o, "apply", 1, h)
    <3>1. PICK h \in Handles : Continue(by, o, "apply", 1, h)
      BY <2>3, <1>0, OpenResultsType
    <3>2. call' \in CallType /\ pending' \in [Options -> Int]
      BY <3>1, ContinueType DEF Steps
    <3>3. CallBounds'
      BY <3>1, PatchSeqType DEF CallBounds, Continue
    <3> QED
      BY <2>1, <2>3, <3>2, <3>3
  <2> QED
    BY <1>1, <2>2, <2>3 DEF Enable
<1>2. ASSUME ~want, Disable(by, o, pid, hs) PROVE OptionTypeOK' /\ CallBounds'
  <2>1. UNCHANGED <<failed, saved>> /\ autoOff' \in [Options -> {"none", "armed", "due"}]
    BY <1>2 DEF Disable
  <2>2. CASE /\ Return(by, o)
             /\ enabled' = [enabled EXCEPT ![o] = FALSE]
             /\ patchIn' = patchIn \/ ResetPatches(PatchesOf(o))
    <3>1. patchIn' \in [Patches -> Handles]
      BY <2>2, <1>0 DEF ResetPatches
    <3> QED
      BY <2>1, <2>2, <3>1, ReturnType DEF CallBounds
  <2>3. CASE /\ UNCHANGED <<enabled, patchIn>>
             /\ \E h \in OpenResults(pid, hs) : Continue(by, o, "restore", Len(PatchSeq[o]), h)
    <3>1. PICK h \in Handles : Continue(by, o, "restore", Len(PatchSeq[o]), h)
      BY <2>3, <1>0, OpenResultsType
    <3>2. call' \in CallType /\ pending' \in [Options -> Int]
      BY <3>1, ContinueType, PatchSeqType DEF Steps
    <3>3. CallBounds'
      BY <3>1, PatchSeqType DEF CallBounds, Continue
    <3> QED
      BY <2>1, <2>3, <3>2, <3>3
  <2> QED
    BY <1>2, <2>2, <2>3 DEF Disable
<1> QED
  BY <1>0, <1>1, <1>2 DEF SetEnabled

(* The step of PatchApplies and PatchRestores on a patch.                    *)
LEMMA PatchStepType ==
  ASSUME OptionTypeOK, ProcTypeOK, NEW p \in Patches, NEW h \in Handles,
         PatchApplies(p, h) \/ PatchRestores(p, h)
  PROVE  /\ patchIn' \in [Patches -> Handles]
         /\ saved' \in [Patches -> SiteValues]
         /\ site' \in [Patches -> SiteValues]
<1> USE ProcAssumption DEF ProcAssumption, OptionTypeOK, ProcTypeOK, SiteValues, Handles, NoProc
<1>1. CASE PatchApplies(p, h)
  <2>1. patchIn' \in [Patches -> Handles]
    BY <1>1 DEF PatchApplies
  <2>2. saved' \in [Patches -> SiteValues]
    BY <1>1 DEF PatchApplies
  <2>3. site' \in [Patches -> SiteValues]
    BY <1>1 DEF PatchApplies
  <2> QED
    BY <2>1, <2>2, <2>3
<1>2. CASE PatchRestores(p, h)
  <2>1. patchIn' \in [Patches -> Handles] /\ saved' \in [Patches -> SiteValues]
    BY <1>2 DEF PatchRestores
  <2>2. site' \in [Patches -> SiteValues]
    BY <1>2 DEF PatchRestores
  <2> QED
    BY <2>1, <2>2
<1> QED
  BY <1>1, <1>2

CallSteps ==
  ApplyPatch \/ FinishEnable \/ RestorePatch \/ FinishRollback \/ FinishDisable

LEMMA CallStepsType ==
  ASSUME OptionTypeOK, ProcTypeOK, CallBounds, CallSteps
  PROVE  OptionTypeOK' /\ CallBounds' /\ site' \in [Patches -> SiteValues]
<1>0. /\ call # NoCall /\ call \in CallType
      /\ call.opt \in Options /\ call.by \in Callers /\ call.mem \in Handles
      /\ call.at \in Nat /\ call.step \in Steps
  BY DEF CallSteps, ApplyPatch, FinishEnable, RestorePatch, FinishRollback, FinishDisable,
         OptionTypeOK, CallType, NoCall, Steps
<1> DEFINE o == call.opt
<1>1. Len(PatchSeq[o]) \in Nat /\ \A i \in 1..Len(PatchSeq[o]) : PatchSeq[o][i] \in Patches
  BY <1>0, PatchSeqType
<1>2. CASE ApplyPatch
  <2> DEFINE p == PatchSeq[o][call.at]
  <2>1. call.step = "apply" /\ call.at \in 1..Len(PatchSeq[o])
    BY <1>2, <1>0, <1>1 DEF ApplyPatch, CallBounds
  <2>2. p \in Patches
    BY <2>1, <1>1
  <2>3. UNCHANGED <<enabled, autoOff, failed>>
    BY <1>2 DEF ApplyPatch
  <2>4. \/ PatchApplies(p, call.mem)
        \/ UNCHANGED <<patchIn, saved, site>>
    BY <1>2 DEF ApplyPatch
  <2>5. /\ patchIn' \in [Patches -> Handles]
        /\ saved' \in [Patches -> SiteValues]
        /\ site' \in [Patches -> SiteValues]
    BY <2>2, <2>4, <1>0, PatchStepType DEF OptionTypeOK, ProcTypeOK
  <2>6. \/ Continue(call.by, o, "apply", call.at + 1, call.mem)
        \/ Continue(call.by, o, "rollback", call.at - 1, call.mem)
    BY <1>2 DEF ApplyPatch
  <2>7. call' \in CallType /\ pending' \in [Options -> Int]
    BY <2>1, <2>6, <1>0, <1>1, ContinueType DEF Steps
  <2>8. CallBounds'
    BY <2>1, <2>6, <1>1 DEF CallBounds, Continue
  <2> QED
    BY <2>3, <2>5, <2>7, <2>8 DEF OptionTypeOK, CallType
<1>3. CASE FinishEnable
  <2>1. failed' = [failed EXCEPT ![o] = TRUE] \/ failed' = [failed EXCEPT ![o] = FALSE]
    BY <1>3 DEF FinishEnable
  <2>2. enabled' = [enabled EXCEPT ![o] = TRUE] /\ UNCHANGED <<patchIn, saved, site>>
    BY <1>3 DEF FinishEnable
  <2>3. autoOff' \in [Options -> {"none", "armed", "due"}]
    BY <1>3, <1>0 DEF FinishEnable, OptionTypeOK
  <2>4. call' = NoCall /\ pending' \in [Options -> Int]
    BY <1>3, <1>0, ReturnType DEF FinishEnable
  <2> QED
    BY <2>1, <2>2, <2>3, <2>4, <1>0 DEF OptionTypeOK, ProcTypeOK, CallBounds
<1>4. CASE RestorePatch
  <2> DEFINE p == PatchSeq[o][call.at]
  <2>1. call.step \in {"rollback", "restore"} /\ call.at \in 1..Len(PatchSeq[o])
    BY <1>4, <1>0, <1>1 DEF RestorePatch, CallBounds
  <2>2. p \in Patches
    BY <2>1, <1>1
  <2>3. UNCHANGED <<enabled, autoOff, failed>> /\ PatchRestores(p, call.mem)
    BY <1>4 DEF RestorePatch
  <2>4. /\ patchIn' \in [Patches -> Handles]
        /\ saved' \in [Patches -> SiteValues]
        /\ site' \in [Patches -> SiteValues]
    BY <2>2, <2>3, <1>0, PatchStepType
  <2>5. Continue(call.by, o, call.step, call.at - 1, call.mem)
    BY <1>4 DEF RestorePatch
  <2>6. call' \in CallType /\ pending' \in [Options -> Int]
    BY <2>1, <2>5, <1>0, <1>1, ContinueType DEF Steps
  <2>7. CallBounds'
    BY <2>1, <2>5, <1>1 DEF CallBounds, Continue
  <2> QED
    BY <2>3, <2>4, <2>6, <2>7 DEF OptionTypeOK, CallType
<1>5. CASE FinishRollback
  <2>1. call' = NoCall /\ pending' \in [Options -> Int]
    BY <1>5, <1>0, ReturnType DEF FinishRollback
  <2> QED
    BY <1>5, <2>1, <1>0 DEF FinishRollback, OptionTypeOK, ProcTypeOK, CallBounds
<1>6. CASE FinishDisable
  <2>1. call' = NoCall /\ pending' \in [Options -> Int]
    BY <1>6, <1>0, ReturnType DEF FinishDisable
  <2> QED
    BY <1>6, <2>1, <1>0 DEF FinishDisable, OptionTypeOK, ProcTypeOK, CallBounds
<1> QED
  BY <1>2, <1>3, <1>4, <1>5, <1>6 DEF CallSteps

-----------------------------------------------------------------------------
(* Types of the whole trainer.                                               *)

(* DisableAll runs after the worker; Process is about an option.             *)
Phases ==
  /\ ui \in {"swap", "tasks", "disableAll", "exited"} => pc = "done"
  /\ pc = "tick" => cur \in Options

TypeInv == TypeOK /\ CallBounds /\ Phases

trainerVars == <<pc, cur, mem, processId, deniedPid, accessDenied, foundPid, running,
                 queue, batch, ui, click, clicks, presses>>

TrainerTypeOK ==
  /\ pc \in WorkerPcs
  /\ cur \in 1..(NumOptions + 1)
  /\ mem \in Handles
  /\ processId \in Pids \cup {0}
  /\ deniedPid \in Pids \cup {0}
  /\ accessDenied \in BOOLEAN
  /\ foundPid \in Pids \cup {0}
  /\ running \in BOOLEAN
  /\ queue \in Seq(Tasks)
  /\ batch \in Seq(Tasks)
  /\ ui \in UiPcs
  /\ click \in Tasks \cup {NoClick}
  /\ clicks \in Nat
  /\ presses \in Nat

LEMMA TypeInvParts ==
  TypeInv <=> ProcTypeOK /\ OptionTypeOK /\ TrainerTypeOK /\ CallBounds /\ Phases
BY DEF TypeInv, TypeOK, TrainerTypeOK

(* A step that leaves the component alone leaves its type alone.             *)
LEMMA OptionFrame ==
  ASSUME OptionTypeOK, CallBounds, UNCHANGED optionVars
  PROVE  OptionTypeOK' /\ CallBounds'
BY DEF OptionTypeOK, CallBounds, optionVars, patchVars

LEMMA ProcFrame ==
  ASSUME ProcTypeOK, UNCHANGED procVars, site' \in [Patches -> SiteValues]
  PROVE  ProcTypeOK'
BY DEF ProcTypeOK, procVars

LEMMA EnvironmentType ==
  ASSUME TypeInv, Environment
  PROVE  TypeInv'
<1>0. ProcTypeOK /\ OptionTypeOK /\ TrainerTypeOK /\ CallBounds /\ Phases
  BY TypeInvParts
<1>1. UNCHANGED trainerVars
  BY DEF Environment, Start, GameExits, GameWrites, Timer, workerVars, taskVars, trainerVars
<1>2. TrainerTypeOK' /\ Phases'
  BY <1>0, <1>1 DEF TrainerTypeOK, Phases, trainerVars
<1>3. OptionTypeOK' /\ CallBounds'
  <2>1. CASE \E o \in Options : Timer(o)
    BY <2>1, <1>0 DEF Timer, TimerElapses, OptionTypeOK, CallBounds
  <2>2. CASE UNCHANGED optionVars
    BY <2>2, <1>0, OptionFrame
  <2>3. ASSUME NEW pid \in Pids, NEW sort \in ProcSorts, Start(pid, sort)
        PROVE  UNCHANGED optionVars
    BY <2>3 DEF Start
  <2>4. CASE GameExits
    BY <2>2, <2>4 DEF GameExits
  <2>5. ASSUME NEW p \in Patches, GameWrites(p)
        PROVE  UNCHANGED optionVars
    BY <2>5 DEF GameWrites
  <2> QED
    BY <2>1, <2>2, <2>3, <2>4, <2>5 DEF Environment
<1>4. ProcTypeOK'
  <2>1. ASSUME NEW pid \in Pids, NEW sort \in ProcSorts, Start(pid, sort)
        PROVE  ProcTypeOK'
    <3>1. /\ live = NoProc /\ born < MaxProcs /\ born' = born + 1 /\ live' = born + 1
          /\ proc' = [proc EXCEPT ![born + 1] = [pid |-> pid, sort |-> sort]]
          /\ site' = site
      BY <2>1 DEF Start, StartProcess
    <3>2. born + 1 \in Procs /\ born' \in 0..MaxProcs /\ live' \in {NoProc, born'}
      BY <3>1, <1>0, ProcAssumption DEF ProcAssumption, ProcTypeOK, Procs, NoProc
    <3>3. proc' \in [Procs -> [pid: Pids \cup {0}, sort: ProcSorts \cup {"unborn"}]]
      BY <3>1, <3>2, <1>0 DEF ProcTypeOK
    <3> QED
      BY <3>1, <3>2, <3>3, <1>0 DEF ProcTypeOK
  <2>2. CASE GameExits
    BY <2>2, <1>0 DEF GameExits, ExitProcess, ProcTypeOK, NoProc, SiteValues
  <2>3. ASSUME NEW p \in Patches, GameWrites(p)
        PROVE  ProcTypeOK'
    BY <2>3, <1>0 DEF GameWrites, GameOverwrites, ProcTypeOK, procVars, SiteValues
  <2>4. ASSUME NEW o \in Options, Timer(o)
        PROVE  ProcTypeOK'
    BY <2>4, <1>0, ProcFrame DEF Timer, TimerElapses, ProcTypeOK
  <2> QED
    BY <2>1, <2>2, <2>3, <2>4 DEF Environment
<1> QED
  BY <1>2, <1>3, <1>4 DEF TypeInv, TypeOK, TrainerTypeOK

(* Each of the remaining groups of actions leaves the processes alone.       *)
LEMMA WorkerType ==
  ASSUME TypeInv, Worker
  PROVE  TypeInv'
<1>0. ProcTypeOK /\ OptionTypeOK /\ TrainerTypeOK /\ CallBounds /\ Phases
  BY TypeInvParts
<1>1. live \in Handles /\ NoProc \in Handles /\ OpenHandles \in SUBSET Handles
  BY <1>0, ProcAssumption
  DEF ProcAssumption, ProcTypeOK, OptionTypeOK, TrainerTypeOK, NoProc, Handles, OpenHandles, NoCall
<1>2. NumOptions \in Nat /\ Options = 1..NumOptions
  BY OptionAssumption DEF OptionAssumption, Options
<1>q. ASSUME UNCHANGED <<procVars, site, optionVars>>, TrainerTypeOK', Phases'
      PROVE  TypeInv'
  <2>1. ProcTypeOK'
    BY <1>q, <1>0 DEF ProcTypeOK, procVars
  <2>2. OptionTypeOK' /\ CallBounds'
    BY <1>q, <1>0, OptionFrame
  <2> QED
    BY <1>q, <2>1, <2>2 DEF TypeInv, TypeOK, TrainerTypeOK
<1>s. ASSUME UNCHANGED procVars, OptionTypeOK', CallBounds', site' \in [Patches -> SiteValues],
             TrainerTypeOK', Phases'
      PROVE  TypeInv'
  <2>1. ProcTypeOK'
    BY <1>s, <1>0, ProcFrame
  <2> QED
    BY <1>s, <2>1 DEF TypeInv, TypeOK, TrainerTypeOK
<1>3. CASE WorkerStops
  BY <1>3, <1>0, <1>1, <1>q DEF WorkerStops, TrainerTypeOK, Phases, taskVars, WorkerPcs
<1>4. CASE WorkerLosesGame
  <2>1. TrainerTypeOK' /\ Phases'
    BY <1>4, <1>0, <1>1 DEF WorkerLosesGame, TrainerTypeOK, Phases, taskVars, WorkerPcs
  <2>2. OptionTypeOK' /\ CallBounds' /\ site' = site
    BY <1>4, <1>0, <1>1 DEF WorkerLosesGame, ProcessLost, OptionTypeOK, CallBounds
  <2> QED
    BY <2>1, <2>2, <1>4, <1>0, <1>s DEF WorkerLosesGame, ProcTypeOK
<1>5. CASE WorkerKeepsGame
  BY <1>5, <1>0, <1>q DEF WorkerKeepsGame, TrainerTypeOK, Phases, taskVars, WorkerPcs
<1>6. CASE WorkerSkipsSearch
  BY <1>6, <1>0, <1>q DEF WorkerSkipsSearch, TrainerTypeOK, Phases, taskVars, WorkerPcs
<1>7. CASE WorkerSearches
  <2>1. FoundPid \in Pids \cup {0}
    <3>1. live \in Procs \/ live = NoProc
      BY <1>1 DEF Handles, Procs, NoProc
    <3> QED
      BY <3>1, <1>0 DEF FoundPid, ProcTypeOK
  <2> QED
    BY <1>7, <2>1, <1>0, <1>q DEF WorkerSearches, TrainerTypeOK, Phases, taskVars, WorkerPcs
<1>8. CASE WorkerOpens
  <2>1. OpenResults(foundPid, OpenHandles) \subseteq Handles
    BY <1>1, OpenResultsType
  <2>2. /\ mem' \in Handles /\ processId' \in Pids \cup {0}
        /\ deniedPid' \in Pids \cup {0} /\ accessDenied' \in BOOLEAN
    BY <1>8, <2>1, <1>0 DEF WorkerOpens, TrainerTypeOK
  <2>3. /\ foundPid' = 0 /\ pc' = "swap"
        /\ UNCHANGED <<procVars, site, optionVars, cur, running, taskVars, ui, click, clicks, presses>>
    BY <1>8 DEF WorkerOpens
  <2>4. ui \notin {"swap", "tasks", "disableAll", "exited"}
    BY <1>8, <1>0 DEF WorkerOpens, Phases
  <2> QED
    BY <2>2, <2>3, <2>4, <1>0, <1>q DEF TrainerTypeOK, Phases, taskVars, WorkerPcs
<1>9. CASE WorkerSwaps
  <2>1. <<>> \in Seq(Tasks)
    OBVIOUS
  <2> QED
    BY <1>9, <2>1, <1>0, <1>q DEF WorkerSwaps, TrainerTypeOK, Phases, WorkerPcs
<1>10. CASE WorkerTasksDone
  BY <1>10, <1>0, <1>2, <1>q DEF WorkerTasksDone, TrainerTypeOK, Phases, taskVars, WorkerPcs
<1>11. CASE WorkerHotkey
  <2>1. cur \in Options
    BY <1>11, <1>0, <1>2 DEF WorkerHotkey, TrainerTypeOK
  <2>2. TrainerTypeOK' /\ Phases'
    BY <1>11, <2>1, <1>0, <1>2 DEF WorkerHotkey, TrainerTypeOK, Phases, taskVars, WorkerPcs
  <2>3. ToggleByHotkey(cur, processId, OpenHandles)
    BY <1>11 DEF WorkerHotkey
  <2>4. PICK want \in BOOLEAN : SetEnabled("hotkey", cur, want, processId, OpenHandles)
    <3>1. CASE IsOneShot(cur) \/ ~enabled[cur]
      <4>1. SetEnabled("hotkey", cur, TRUE, processId, OpenHandles)
        BY <2>3, <3>1 DEF ToggleByHotkey, SetEnabled
      <4> QED
        BY <4>1
    <3>2. CASE ~(IsOneShot(cur) \/ ~enabled[cur])
      <4>1. SetEnabled("hotkey", cur, FALSE, processId, OpenHandles)
        BY <2>3, <3>2 DEF ToggleByHotkey, SetEnabled
      <4> QED
        BY <4>1
    <3> QED
      BY <3>1, <3>2
  <2>5. OptionTypeOK' /\ CallBounds' /\ site' = site
    BY <2>1, <2>4, <1>0, <1>1, SetEnabledType DEF Callers
  <2> QED
    BY <2>2, <2>5, <1>11, <1>0, <1>s DEF WorkerHotkey, ProcTypeOK
<1>12. CASE WorkerNoHotkey
  BY <1>12, <1>0, <1>2, <1>q DEF WorkerNoHotkey, TrainerTypeOK, Phases, taskVars, WorkerPcs
<1>13. CASE WorkerAutoOff
  <2>1. cur \in Options
    BY <1>13, <1>0 DEF WorkerAutoOff, Phases
  <2>2. TrainerTypeOK' /\ Phases'
    BY <1>13, <2>1, <1>0, <1>2 DEF WorkerAutoOff, TrainerTypeOK, Phases, taskVars, WorkerPcs
  <2>3. SetEnabled("autooff", cur, FALSE, processId, OpenHandles)
    BY <1>13 DEF WorkerAutoOff, AutoOff
  <2>5. OptionTypeOK' /\ CallBounds' /\ site' = site
    BY <2>1, <2>3, <1>0, <1>1, SetEnabledType DEF Callers
  <2> QED
    BY <2>2, <2>5, <1>13, <1>0, <1>s DEF WorkerAutoOff, ProcTypeOK
<1>14. CASE WorkerTick
  <2>1. cur \in Options
    BY <1>14, <1>0 DEF WorkerTick, Phases
  <2>2. TrainerTypeOK' /\ Phases'
    BY <1>14, <2>1, <1>0, <1>2 DEF WorkerTick, TrainerTypeOK, Phases, taskVars, WorkerPcs
  <2>3. PICK W : site' = [p \in Patches |-> IF p \in W THEN "mod" ELSE site[p]]
    BY <1>14 DEF WorkerTick, TickPatches
  <2>4. site' \in [Patches -> SiteValues]
    BY <2>3, <1>0 DEF ProcTypeOK, SiteValues
  <2>5. OptionTypeOK' /\ CallBounds'
    BY <1>14, <1>0, OptionFrame DEF WorkerTick, TickPatches
  <2> QED
    BY <2>2, <2>4, <2>5, <1>14, <1>s DEF WorkerTick
<1>15. CASE WorkerNext
  BY <1>15, <1>0, <1>q DEF WorkerNext, TrainerTypeOK, Phases, taskVars, WorkerPcs
<1> QED
  BY <1>3, <1>4, <1>5, <1>6, <1>7, <1>8, <1>9, <1>10, <1>11, <1>12, <1>13, <1>14, <1>15
  DEF Worker

LEMMA UiType ==
  ASSUME TypeInv, UiProgress \/ User
  PROVE  TypeInv'
<1>0. ProcTypeOK /\ OptionTypeOK /\ TrainerTypeOK /\ CallBounds /\ Phases
  BY TypeInvParts
<1>1. live \in Handles /\ NoProc \in Handles /\ OpenHandles \in SUBSET Handles
  BY <1>0, ProcAssumption
  DEF ProcAssumption, ProcTypeOK, OptionTypeOK, TrainerTypeOK, NoProc, Handles, OpenHandles, NoCall
<1>2. NumOptions \in Nat /\ Options = 1..NumOptions
  BY OptionAssumption DEF OptionAssumption, Options
<1>q. ASSUME UNCHANGED <<procVars, site, optionVars>>, TrainerTypeOK', Phases'
      PROVE  TypeInv'
  <2>1. ProcTypeOK'
    BY <1>q, <1>0 DEF ProcTypeOK, procVars
  <2>2. OptionTypeOK' /\ CallBounds'
    BY <1>q, <1>0, OptionFrame
  <2> QED
    BY <1>q, <2>1, <2>2 DEF TypeInv, TypeOK, TrainerTypeOK
<1>3. CASE UiPost
  <2>1. click \in Tasks /\ click.opt \in Options
    BY <1>3, <1>0 DEF UiPost, TrainerTypeOK, Tasks
  <2>2. queue' \in Seq(Tasks)
    BY <1>3, <2>1, <1>0 DEF UiPost, TrainerTypeOK
  <2>3. TrainerTypeOK' /\ Phases'
    BY <1>3, <2>2, <1>0 DEF UiPost, TrainerTypeOK, Phases, workerVars
  <2>4. OptionTypeOK' /\ CallBounds'
    <3>1. pending' \in [Options -> Int]
      BY <1>3, <2>1, <1>0 DEF UiPost, OptionTypeOK
    <3> QED
      BY <1>3, <3>1, <1>0 DEF UiPost, OptionTypeOK, CallBounds, patchVars
  <2>5. ProcTypeOK'
    BY <1>3, <1>0 DEF UiPost, ProcTypeOK, procVars
  <2> QED
    BY <2>3, <2>4, <2>5 DEF TypeInv, TypeOK, TrainerTypeOK
<1>4. CASE UiJoin
  <2>1. <<>> \in Seq(Tasks)
    OBVIOUS
  <2> QED
    BY <1>4, <2>1, <1>0, <1>q DEF UiJoin, TrainerTypeOK, Phases, workerVars, UiPcs
<1>5. CASE UiTasksDone
  BY <1>5, <1>0, <1>2, <1>q DEF UiTasksDone, TrainerTypeOK, Phases, workerVars, taskVars, UiPcs
<1>6. CASE UiDisable
  <2>1. cur \in Options
    BY <1>6, <1>0, <1>2 DEF UiDisable, TrainerTypeOK
  <2>2. TrainerTypeOK' /\ Phases'
    BY <1>6, <2>1, <1>0, <1>2 DEF UiDisable, TrainerTypeOK, Phases, workerVars, taskVars
  <2>3. \/ SetEnabled("exit", cur, FALSE, processId, OpenHandles)
        \/ UNCHANGED <<optionVars, site>>
    BY <1>6 DEF UiDisable
  <2>4. CASE SetEnabled("exit", cur, FALSE, processId, OpenHandles)
    <3>1. OptionTypeOK' /\ CallBounds' /\ site' = site
      BY <2>1, <2>4, <1>0, <1>1, SetEnabledType DEF Callers
    <3>2. ProcTypeOK'
      BY <3>1, <1>6, <1>0 DEF UiDisable, ProcTypeOK, procVars
    <3> QED
      BY <2>2, <3>1, <3>2 DEF TypeInv, TypeOK, TrainerTypeOK
  <2>5. CASE UNCHANGED <<optionVars, site>>
    BY <2>2, <2>5, <1>6, <1>q DEF UiDisable
  <2> QED
    BY <2>3, <2>4, <2>5
<1>7. CASE UiExit
  BY <1>7, <1>0, <1>q DEF UiExit, TrainerTypeOK, Phases, workerVars, taskVars, UiPcs
<1>8. CASE UiStart
  BY <1>8, <1>0, <1>q DEF UiStart, TrainerTypeOK, Phases, taskVars, UiPcs, WorkerPcs
<1>9. ASSUME NEW o \in Options, UiClick(o)
      PROVE  TypeInv'
  <2>1. (IsOneShot(o) \/ ~enabled[o]) \in BOOLEAN
    OBVIOUS
  <2>2. click' \in Tasks
    BY <1>9, <2>1 DEF UiClick, Tasks
  <2>3. clicks' \in Nat
    BY <1>9, <1>0 DEF UiClick, TrainerTypeOK
  <2> QED
    BY <1>9, <2>2, <2>3, <1>0, <1>q DEF UiClick, TrainerTypeOK, Phases, workerVars, taskVars
<1>10. CASE UiClose
  BY <1>10, <1>0, <1>q DEF UiClose, TrainerTypeOK, Phases, workerVars, taskVars, UiPcs
<1> QED
  BY <1>3, <1>4, <1>5, <1>6, <1>7, <1>8, <1>9, <1>10 DEF UiProgress, User

LEMMA TaskAndCallType ==
  ASSUME TypeInv, RunTask \/ CallStep
  PROVE  TypeInv'
<1>0. ProcTypeOK /\ OptionTypeOK /\ TrainerTypeOK /\ CallBounds /\ Phases
  BY TypeInvParts
<1>1. live \in Handles /\ NoProc \in Handles /\ OpenHandles \in SUBSET Handles
  BY <1>0, ProcAssumption
  DEF ProcAssumption, ProcTypeOK, OptionTypeOK, TrainerTypeOK, NoProc, Handles, OpenHandles, NoCall
<1>s. ASSUME UNCHANGED procVars, OptionTypeOK', CallBounds', site' \in [Patches -> SiteValues],
             TrainerTypeOK', Phases'
      PROVE  TypeInv'
  <2>1. ProcTypeOK'
    BY <1>s, <1>0, ProcFrame
  <2> QED
    BY <1>s, <2>1 DEF TypeInv, TypeOK, TrainerTypeOK
<1>2. CASE RunTask
  <2>1. batch \in Seq(Tasks) /\ batch # <<>>
    BY <1>2, <1>0 DEF RunTask, TrainerTypeOK
  <2>2. Head(batch) \in Tasks /\ Tail(batch) \in Seq(Tasks)
    BY <2>1
  <2>3. Head(batch).opt \in Options /\ Head(batch).want \in BOOLEAN
    BY <2>2 DEF Tasks
  <2>4. TrainerTypeOK' /\ Phases'
    BY <1>2, <2>2, <1>0 DEF RunTask, TrainerTypeOK, Phases, workerVars
  <2>5. SetEnabled("task", Head(batch).opt, Head(batch).want, processId, OpenHandles)
    BY <1>2 DEF RunTask
  <2>6. OptionTypeOK' /\ CallBounds' /\ site' = site
    BY <2>3, <2>5, <1>0, <1>1, SetEnabledType DEF Callers
  <2> QED
    BY <2>4, <2>6, <1>2, <1>0, <1>s DEF RunTask, ProcTypeOK
<1>3. CASE CallStep
  <2>1. TrainerTypeOK' /\ Phases'
    BY <1>3, <1>0 DEF CallStep, TrainerTypeOK, Phases, workerVars, taskVars
  <2>2. CallSteps
    BY <1>3 DEF CallStep, CallSteps
  <2>3. OptionTypeOK' /\ CallBounds' /\ site' \in [Patches -> SiteValues]
    BY <2>2, <1>0, CallStepsType
  <2> QED
    BY <2>1, <2>3, <1>3, <1>s DEF CallStep
<1> QED
  BY <1>2, <1>3

LEMMA TypeInit == Init => TypeInv
<1> SUFFICES ASSUME Init PROVE TypeInv
  OBVIOUS
<1>1. ProcTypeOK
  BY ProcAssumption
  DEF ProcAssumption, Init, ProcInit, ProcTypeOK, NoProc, ProcSorts, SiteValues, Procs
<1>2. OptionTypeOK /\ CallBounds
  BY ProcAssumption
  DEF ProcAssumption, Init, OptionInit, OptionTypeOK, CallBounds, NoProc, Handles, SiteValues
<1>3. TrainerTypeOK /\ Phases
  <2>1. <<>> \in Seq(Tasks)
    OBVIOUS
  <2>2. NumOptions \in Nat /\ NoProc \in Handles
    BY OptionAssumption, ProcAssumption DEF OptionAssumption, ProcAssumption, NoProc, Handles
  <2>3. running \in BOOLEAN /\ accessDenied \in BOOLEAN
    BY DEF Init
  <2>4. /\ pc \in WorkerPcs /\ ui \in UiPcs /\ click \in Tasks \cup {NoClick}
        /\ queue \in Seq(Tasks) /\ batch \in Seq(Tasks) /\ mem \in Handles
    BY <2>1, <2>2 DEF Init, WorkerPcs, UiPcs
  <2>5. /\ cur \in 1..(NumOptions + 1)
        /\ processId \in Pids \cup {0} /\ deniedPid \in Pids \cup {0} /\ foundPid \in Pids \cup {0}
        /\ clicks \in Nat /\ presses \in Nat
    BY <2>2 DEF Init
  <2>6. Phases
    BY DEF Init, Phases
  <2> QED
    BY <2>3, <2>4, <2>5, <2>6 DEF TrainerTypeOK
<1> QED
  BY <1>1, <1>2, <1>3 DEF TypeInv, TypeOK, TrainerTypeOK

LEMMA TypeNext == TypeInv /\ [Next]_vars => TypeInv'
<1> SUFFICES ASSUME TypeInv, [Next]_vars PROVE TypeInv'
  OBVIOUS
<1>1. CASE UNCHANGED vars
  <2>1. ProcTypeOK /\ OptionTypeOK /\ TrainerTypeOK /\ CallBounds /\ Phases
    BY TypeInvParts
  <2>2. OptionTypeOK' /\ CallBounds'
    BY <1>1, <2>1, OptionFrame DEF vars
  <2>3. ProcTypeOK'
    BY <1>1, <2>1 DEF vars, procVars, ProcTypeOK
  <2>4. TrainerTypeOK' /\ Phases'
    BY <1>1, <2>1 DEF vars, workerVars, taskVars, TrainerTypeOK, Phases
  <2> QED
    BY <2>2, <2>3, <2>4 DEF TypeInv, TypeOK, TrainerTypeOK
<1> QED
  BY <1>1, EnvironmentType, WorkerType, UiType, TaskAndCallType DEF Next, Exited

(* Every variable keeps its type in every reachable state: no call of         *)
(* SetEnabled runs off its list of patches (CheatOption.cpp, ApplyAll and     *)
(* RestoreAll), and no step of Cheat::Run is about an option that is not      *)
(* there.                                                                     *)
THEOREM TypeCorrect == Spec => []TypeOK
<1>1. TypeInv => TypeOK
  BY DEF TypeInv
<1> QED
  BY TypeInit, TypeNext, <1>1, PTL DEF Spec

-----------------------------------------------------------------------------
(* The session: the process the worker has open, and what the options know   *)
(* of it.                                                                    *)

(* Every started process has a PID; handles are of started processes.        *)
Births ==
  /\ \A i \in 1..born : proc[i].pid \in Pids
  /\ mem \in 0..born
  /\ call.mem \in 0..born

(* Where the worker is tells whether it executes a call, and on what.        *)
WorkerCalls ==
  /\ ui = "init" => pc = "idle"
  /\ pc \in {"idle", "top", "search", "open", "swap", "hotkey"} => call = NoCall
  /\ pc = "open" => mem = NoProc /\ foundPid # 0
  /\ call # NoCall => call.mem # NoProc
  /\ pc # "done" /\ call # NoCall => call.mem = mem

(* An open handle keeps its PID from being given to another process.         *)
PidHeld == mem # NoProc /\ live # NoProc /\ proc[live].pid = proc[mem].pid => live = mem

Session == Births /\ WorkerCalls /\ PidHeld /\ PidMatchesHandle /\ NoCrossInstanceState

(* After the worker has stopped, the PID it left still means its process.    *)
HomePid ==
  /\ call # NoCall => proc[call.mem].pid = processId
  /\ \A p \in Patches :
       /\ patchIn[p] # NoProc /\ live # NoProc /\ proc[live].pid = processId
            => patchIn[p] = live
       /\ saved[p] # "alien"
       /\ site[p] # "alien"

(* What opening a process by the PID the trainer remembers can return.       *)
LEMMA OpenedHandle ==
  ASSUME TypeInv, Births, NEW pid \in Pids \cup {0}, NEW h \in OpenResults(pid, OpenHandles),
         h # NoProc
  PROVE  /\ h \in 1..born
         /\ proc[h].pid = pid
         /\ pid # 0
         /\ h = live \/ h \in OpenHandles
<1>1. born \in Nat /\ live \in {NoProc, born} /\ NoProc = 0 /\ 0 \notin Pids
  BY ProcAssumption, TypeInvParts DEF ProcAssumption, ProcTypeOK, NoProc
<1>2. OpenHandles \subseteq 0..born
  BY <1>1 DEF OpenHandles, Births
<1>3. (h = live /\ proc[h].pid = pid) \/ (h \in OpenHandles /\ proc[h].pid = pid)
  BY DEF OpenResults
<1>4. h \in 1..born
  <2>1. h \in {NoProc, born} \/ h \in 0..born
    BY <1>1, <1>2, <1>3
  <2>2. h \in 0..born
    BY <2>1, <1>1
  <2> QED
    BY <2>2, <1>1
<1> QED
  BY <1>1, <1>3, <1>4 DEF Births

(* The first step of a call forgets patches, and changes nothing else in the *)
(* game or in what the patches know.                                         *)
LEMMA SetEnabledEffect ==
  ASSUME TypeInv, NEW by \in Callers, NEW o \in Options, NEW want, NEW pid, NEW hs,
         SetEnabled(by, o, want, pid, hs)
  PROVE  /\ UNCHANGED <<site, saved>>
         /\ call' = NoCall \/ \E h \in OpenResults(pid, hs) : h # NoProc /\ call'.mem = h
         /\ \A p \in Patches : patchIn'[p] \in {patchIn[p], NoProc}
<1>1. CASE Enable(by, o, pid, hs)
  <2>1. UNCHANGED <<site, saved, patchIn>>
    BY <1>1 DEF SetEnabled, Enable
  <2>2. call' = NoCall \/ \E h \in OpenResults(pid, hs) : h # NoProc /\ call'.mem = h
    BY <1>1 DEF Enable, Return, Continue
  <2> QED
    BY <2>1, <2>2
<1>2. CASE Disable(by, o, pid, hs)
  <2>1. UNCHANGED <<site, saved>>
    BY <1>2 DEF SetEnabled, Disable
  <2>2. call' = NoCall \/ \E h \in OpenResults(pid, hs) : h # NoProc /\ call'.mem = h
    BY <1>2 DEF Disable, Return, Continue
  <2>3. patchIn' = patchIn \/ ResetPatches(PatchesOf(o))
    BY <1>2 DEF Disable
  <2>4. \A p \in Patches : patchIn'[p] \in {patchIn[p], NoProc}
    BY <2>3, TypeInvParts DEF ResetPatches, OptionTypeOK
  <2> QED
    BY <2>1, <2>2, <2>4
<1> QED
  BY <1>1, <1>2 DEF SetEnabled

(* Every further step keeps the handle of the call.                          *)
LEMMA CallStepsEffect ==
  ASSUME TypeInv, CallSteps
  PROVE  /\ call # NoCall
         /\ call' = NoCall \/ call'.mem = call.mem
         /\ \A p \in Patches :
              \/ patchIn'[p] \in {patchIn[p], NoProc}
              \/ patchIn'[p] = call.mem /\ IsAlive(call.mem)
<1>0. ProcTypeOK /\ OptionTypeOK /\ TrainerTypeOK /\ CallBounds /\ Phases
  BY TypeInvParts
<1>1. call # NoCall
  BY DEF CallSteps, ApplyPatch, FinishEnable, RestorePatch, FinishRollback, FinishDisable,
         NoCall
<1>2. call' = NoCall \/ call'.mem = call.mem
  BY DEF CallSteps, ApplyPatch, FinishEnable, RestorePatch, FinishRollback, FinishDisable,
         Return, Continue
<1>3. ASSUME NEW p \in Patches
      PROVE  \/ patchIn'[p] \in {patchIn[p], NoProc}
             \/ patchIn'[p] = call.mem /\ IsAlive(call.mem)
  <2>1. CASE UNCHANGED patchIn
    BY <2>1
  <2>2. ASSUME NEW q, PatchApplies(q, call.mem)
        PROVE  \/ patchIn'[p] \in {patchIn[p], NoProc}
               \/ patchIn'[p] = call.mem /\ IsAlive(call.mem)
    BY <2>2, <1>0 DEF PatchApplies, OptionTypeOK
  <2>3. ASSUME NEW q, PatchRestores(q, call.mem)
        PROVE  patchIn'[p] \in {patchIn[p], NoProc}
    BY <2>3, <1>0 DEF PatchRestores, OptionTypeOK
  <2> QED
    BY <2>1, <2>2, <2>3
    DEF CallSteps, ApplyPatch, FinishEnable, RestorePatch, FinishRollback, FinishDisable
<1> QED
  BY <1>1, <1>2, <1>3

LEMMA SessionInit == Init => Session
<1> SUFFICES ASSUME Init PROVE Session
  OBVIOUS
<1>1. born = 0 /\ mem = NoProc /\ call = NoCall /\ NoProc = 0 /\ call.mem = 0
  BY DEF Init, ProcInit, OptionInit, NoProc, NoCall
<1>2. pc = "idle" /\ ui = "init" /\ processId = 0 /\ live = NoProc
  BY DEF Init, ProcInit
<1>3. \A p \in Patches : patchIn[p] = NoProc
  BY DEF Init, OptionInit
<1> QED
  BY <1>1, <1>2, <1>3
  DEF Session, Births, WorkerCalls, PidHeld, PidMatchesHandle, NoCrossInstanceState

LEMMA EnvironmentSession ==
  ASSUME TypeInv, Session, Environment
  PROVE  Session'
<1>0. ProcTypeOK /\ OptionTypeOK /\ TrainerTypeOK /\ CallBounds /\ Phases
  BY TypeInvParts
<1>1. UNCHANGED <<trainerVars, patchIn, call>>
  BY DEF Environment, Start, GameExits, GameWrites, Timer, workerVars, taskVars, trainerVars,
         optionVars, patchVars, TimerElapses
<1>2. WorkerCalls' /\ NoCrossInstanceState'
  BY <1>1 DEF Session, WorkerCalls, NoCrossInstanceState, trainerVars
<1>3. CASE UNCHANGED procVars
  BY <1>1, <1>2, <1>3
  DEF Session, Births, PidHeld, PidMatchesHandle, trainerVars, procVars
<1>4. CASE GameExits
  <2>1. live' = NoProc /\ UNCHANGED <<proc, born>>
    BY <1>4 DEF GameExits, ExitProcess
  <2> QED
    BY <1>1, <1>2, <2>1 DEF Session, Births, PidHeld, PidMatchesHandle, trainerVars
<1>5. ASSUME NEW pid \in Pids, NEW sort \in ProcSorts, Start(pid, sort)
      PROVE  Session'
  <2>1. /\ born' = born + 1 /\ live' = born + 1 /\ PidFree(pid, OpenHandles)
        /\ proc' = [proc EXCEPT ![born + 1] = [pid |-> pid, sort |-> sort]]
        /\ born < MaxProcs
    BY <1>5 DEF Start, StartProcess
  <2>2. born \in Nat /\ born + 1 \in Procs /\ 1..born \subseteq Procs
    BY <2>1, <1>0, ProcAssumption DEF ProcAssumption, ProcTypeOK, Procs
  <2>3. \A i \in 1..born : proc'[i] = proc[i]
    BY <2>1, <2>2, <1>0 DEF ProcTypeOK
  <2>4. proc'[born + 1].pid = pid
    BY <2>1, <2>2, <1>0 DEF ProcTypeOK
  <2>5. Births'
    BY <1>1, <2>1, <2>2, <2>3, <2>4 DEF Session, Births, trainerVars
  <2>6. mem # NoProc => mem \in 1..born
    BY <2>2 DEF Session, Births, NoProc
  <2>7. PidHeld'
    BY <1>1, <2>1, <2>3, <2>4, <2>6 DEF PidHeld, PidFree, OpenHandles, trainerVars
  <2>8. PidMatchesHandle'
    BY <1>1, <2>3, <2>6 DEF Session, PidMatchesHandle, trainerVars
  <2> QED
    BY <1>2, <2>5, <2>7, <2>8 DEF Session
<1> QED
  BY <1>3, <1>4, <1>5 DEF Environment, GameWrites, GameOverwrites, Timer

(* A call of SetEnabled begins with the worker's own process, if any.        *)
LEMMA SetEnabledSession ==
  ASSUME TypeInv, Session, NEW by \in Callers, NEW o \in Options, NEW want,
         SetEnabled(by, o, want, processId, OpenHandles)
  PROVE  /\ call' # NoCall => call'.mem # NoProc
         /\ call'.mem \in 0..born
         /\ pc # "done" /\ call' # NoCall => call'.mem = mem
         /\ call' # NoCall => proc[call'.mem].pid = processId
         /\ pc # "done" => \A p \in Patches : patchIn'[p] \in {NoProc, mem}
<1>0. /\ processId \in Pids \cup {0} /\ NoProc = 0
      /\ born \in Nat /\ call = NoCall /\ NoCall.mem = NoProc /\ live \in {NoProc, born}
      /\ Births /\ WorkerCalls /\ PidHeld /\ PidMatchesHandle /\ NoCrossInstanceState
  BY TypeInvParts, ProcAssumption
  DEF ProcAssumption, TrainerTypeOK, ProcTypeOK, NoProc, SetEnabled, NoCall, Session
<1>1. /\ call' = NoCall \/ \E h \in OpenResults(processId, OpenHandles) : h # NoProc /\ call'.mem = h
      /\ \A p \in Patches : patchIn'[p] \in {patchIn[p], NoProc}
  BY SetEnabledEffect
<1>2. ASSUME call' # NoCall
      PROVE  /\ call'.mem \in 1..born
             /\ proc[call'.mem].pid = processId /\ processId # 0
             /\ call'.mem = live \/ call'.mem = mem
  <2>1. PICK h \in OpenResults(processId, OpenHandles) : h # NoProc /\ call'.mem = h
    BY <1>1, <1>2
  <2>2. /\ h \in 1..born /\ proc[h].pid = processId /\ processId # 0
        /\ h = live \/ h \in OpenHandles
    BY <2>1, <1>0, OpenedHandle
  <2> QED
    BY <2>1, <2>2, <1>0 DEF OpenHandles
<1>3. ASSUME call' # NoCall, pc # "done"
      PROVE  call'.mem = mem
  <2>1. mem # NoProc /\ proc[mem].pid = processId
    BY <1>2, <1>3, <1>0 DEF PidMatchesHandle
  <2> QED
    BY <2>1, <1>2, <1>3, <1>0 DEF PidHeld
<1>4. ASSUME pc # "done", NEW p \in Patches
      PROVE  patchIn'[p] \in {NoProc, mem}
  BY <1>0, <1>1, <1>4 DEF NoCrossInstanceState
<1> QED
  BY <1>0, <1>2, <1>3, <1>4

LEMMA WorkerSession ==
  ASSUME TypeInv, Session, Worker
  PROVE  Session'
<1>0. /\ ProcTypeOK /\ OptionTypeOK /\ TrainerTypeOK /\ Phases
      /\ Births /\ WorkerCalls /\ PidHeld /\ PidMatchesHandle /\ NoCrossInstanceState
      /\ born \in Nat /\ NoProc = 0 /\ live \in {NoProc, born}
  BY TypeInvParts, ProcAssumption DEF ProcAssumption, ProcTypeOK, NoProc, Session
<1>1. UNCHANGED <<procVars, ui>>
  BY DEF Worker, WorkerStops, WorkerLosesGame, WorkerKeepsGame, WorkerSkipsSearch, WorkerSearches,
         WorkerOpens, WorkerSwaps, WorkerTasksDone, WorkerHotkey, WorkerNoHotkey, WorkerAutoOff,
         WorkerTick, WorkerNext
<1>q. ASSUME UNCHANGED <<patchIn, call, mem, processId>>, pc # "done", pc # "idle",
             WorkerCalls'
      PROVE  Session'
  BY <1>q, <1>0, <1>1
  DEF Session, Births, PidHeld, PidMatchesHandle, NoCrossInstanceState, procVars
<1>n. ui # "init" \/ pc = "idle"
  BY <1>0 DEF WorkerCalls
<1>3. CASE WorkerStops
  <2>1. /\ pc = "top" /\ pc' = "done" /\ mem' = NoProc /\ call' = call /\ call = NoCall
    BY <1>3, <1>0 DEF WorkerStops, optionVars, WorkerCalls
  <2> QED
    BY <2>1, <1>0, <1>1, <1>n
    DEF Session, Births, WorkerCalls, PidHeld, PidMatchesHandle, NoCrossInstanceState, procVars
<1>4. CASE WorkerLosesGame
  <2>1. /\ pc = "top" /\ pc' = "search" /\ mem' = NoProc /\ processId' = 0
        /\ call' = call /\ call = NoCall /\ patchIn' = [p \in Patches |-> NoProc]
    BY <1>4, <1>0 DEF WorkerLosesGame, ProcessLost, WorkerCalls
  <2> QED
    BY <2>1, <1>0, <1>1, <1>n
    DEF Session, Births, WorkerCalls, PidHeld, PidMatchesHandle, NoCrossInstanceState, procVars
<1>5. CASE WorkerKeepsGame \/ WorkerSkipsSearch
  BY <1>5, <1>0, <1>1, <1>n, <1>q
  DEF WorkerKeepsGame, WorkerSkipsSearch, WorkerCalls, optionVars, patchVars
<1>7. CASE WorkerSearches
  <2>1. /\ pc = "search" /\ mem = NoProc /\ foundPid' = FoundPid
        /\ pc' = IF FoundPid # 0 /\ FoundPid # deniedPid THEN "open" ELSE "swap"
        /\ UNCHANGED <<patchIn, call, mem, processId>>
    BY <1>7 DEF WorkerSearches, optionVars, patchVars
  <2>2. WorkerCalls'
    BY <2>1, <1>0, <1>1, <1>n DEF WorkerCalls
  <2> QED
    BY <2>1, <2>2, <1>q
<1>8. CASE WorkerOpens
  <2>1. /\ pc = "open" /\ pc' = "swap" /\ UNCHANGED <<patchIn, call>>
        /\ mem = NoProc /\ foundPid # 0 /\ call = NoCall /\ foundPid \in Pids \cup {0}
    BY <1>8, <1>0 DEF WorkerOpens, WorkerCalls, optionVars, patchVars, TrainerTypeOK
  <2>2. WorkerCalls'
    BY <2>1, <1>0, <1>1, <1>n DEF WorkerCalls
  <2>3. CASE UNCHANGED <<mem, processId>>
    BY <2>1, <2>2, <2>3, <1>q
  <2>4. ASSUME NEW h \in OpenResults(foundPid, OpenHandles), h # NoProc,
               mem' = h, processId' = foundPid
        PROVE  Session'
    <3>1. h \in 1..born /\ proc[h].pid = foundPid /\ (h = live \/ h \in OpenHandles)
      BY <2>1, <2>4, <1>0, OpenedHandle
    <3>2. h = live
      BY <3>1, <2>1, <2>4 DEF OpenHandles, NoCall, NoProc
    <3>3. Births'
      BY <3>1, <2>1, <2>4, <1>0, <1>1 DEF Births, procVars
    <3>4. PidHeld'
      BY <3>2, <2>4, <1>1 DEF PidHeld, procVars
    <3>5. PidMatchesHandle'
      BY <3>1, <2>1, <2>4, <1>0, <1>1 DEF PidMatchesHandle, procVars
    <3>6. NoCrossInstanceState'
      BY <2>1, <2>4, <1>0 DEF NoCrossInstanceState
    <3> QED
      BY <2>2, <3>3, <3>4, <3>5, <3>6 DEF Session
  <2> QED
    BY <1>8, <2>3, <2>4 DEF WorkerOpens
<1>9. CASE WorkerSwaps \/ WorkerTasksDone \/ WorkerNoHotkey \/ WorkerTick \/ WorkerNext
  BY <1>9, <1>0, <1>1, <1>n, <1>q
  DEF WorkerSwaps, WorkerTasksDone, WorkerNoHotkey, WorkerTick, WorkerNext, TickPatches,
      WorkerCalls, optionVars, patchVars
<1>s. ASSUME NEW by \in Callers, NEW want, SetEnabled(by, cur, want, processId, OpenHandles),
             cur \in Options, pc \in {"hotkey", "tick"}, pc' \in {"tick", "next"},
             UNCHANGED <<mem, processId>>
      PROVE  Session'
  <2>1. /\ call' # NoCall => call'.mem # NoProc
        /\ call'.mem \in 0..born
        /\ call' # NoCall => call'.mem = mem
        /\ \A p \in Patches : patchIn'[p] \in {NoProc, mem}
    BY <1>s, <1>0, SetEnabledSession
  <2>2. WorkerCalls'
    BY <2>1, <1>s, <1>0, <1>1, <1>n DEF WorkerCalls
  <2>3. Births'
    BY <2>1, <1>s, <1>0, <1>1 DEF Births, procVars
  <2>4. PidHeld' /\ PidMatchesHandle'
    BY <1>s, <1>0, <1>1 DEF PidHeld, PidMatchesHandle, procVars
  <2>5. NoCrossInstanceState'
    BY <2>1, <1>s, <1>0 DEF NoCrossInstanceState
  <2> QED
    BY <2>2, <2>3, <2>4, <2>5 DEF Session
<1>10. CASE WorkerHotkey
  <2>1. cur \in Options
    BY <1>10, <1>0, OptionAssumption DEF OptionAssumption, WorkerHotkey, TrainerTypeOK, Options
  <2>2. PICK want : SetEnabled("hotkey", cur, want, processId, OpenHandles)
    BY <1>10 DEF WorkerHotkey, ToggleByHotkey
  <2> QED
    BY <1>10, <2>1, <2>2, <1>s DEF WorkerHotkey, Callers
<1>11. CASE WorkerAutoOff
  <2>1. cur \in Options
    BY <1>11, <1>0 DEF WorkerAutoOff, Phases
  <2>2. SetEnabled("autooff", cur, FALSE, processId, OpenHandles)
    BY <1>11 DEF WorkerAutoOff, AutoOff
  <2> QED
    BY <1>11, <2>1, <2>2, <1>s DEF WorkerAutoOff, Callers
<1> QED
  BY <1>3, <1>4, <1>5, <1>7, <1>8, <1>9, <1>10, <1>11 DEF Worker

LEMMA UiSession ==
  ASSUME TypeInv, Session, UiProgress \/ User
  PROVE  Session'
<1>0. /\ Phases /\ Births /\ WorkerCalls /\ PidHeld /\ PidMatchesHandle
      /\ NoCrossInstanceState /\ TrainerTypeOK
      /\ NumOptions \in Nat /\ Options = 1..NumOptions
  BY TypeInvParts, OptionAssumption DEF OptionAssumption, Session, Options
<1>1. UNCHANGED <<procVars, mem, processId, foundPid>>
  BY DEF UiProgress, User, UiPost, UiJoin, UiTasksDone, UiDisable, UiExit, UiStart, UiClick,
         UiClose, workerVars
<1>q. ASSUME UNCHANGED <<patchIn, call>>, pc' = pc \/ (pc = "idle" /\ pc' = "top"), WorkerCalls'
      PROVE  Session'
  BY <1>q, <1>0, <1>1
  DEF Session, Births, PidHeld, PidMatchesHandle, NoCrossInstanceState, procVars
<1>2. CASE UiPost
  BY <1>2, <1>0, <1>1, <1>q DEF UiPost, WorkerCalls, workerVars, patchVars
<1>3. CASE UiJoin \/ UiTasksDone \/ UiExit \/ UiClose
  BY <1>3, <1>0, <1>1, <1>q
  DEF UiJoin, UiTasksDone, UiExit, UiClose, WorkerCalls, workerVars, optionVars, patchVars
<1>4. CASE UiStart
  BY <1>4, <1>0, <1>1, <1>q DEF UiStart, WorkerCalls, optionVars, patchVars
<1>5. CASE \E o \in Options : UiClick(o)
  BY <1>5, <1>0, <1>1, <1>q DEF UiClick, WorkerCalls, workerVars, optionVars, patchVars
<1>6. CASE UiDisable
  <2>1. pc = "done" /\ pc' = pc /\ ui' = ui /\ cur \in Options
    BY <1>6, <1>0 DEF UiDisable, Phases, workerVars, TrainerTypeOK
  <2>2. CASE UNCHANGED optionVars
    BY <2>1, <2>2, <1>0, <1>1, <1>q DEF WorkerCalls, optionVars, patchVars
  <2>3. CASE SetEnabled("exit", cur, FALSE, processId, OpenHandles)
    <3>1. (call' # NoCall => call'.mem # NoProc) /\ call'.mem \in 0..born
      BY <2>1, <2>3, SetEnabledSession DEF Callers
    <3>2. WorkerCalls'
      BY <2>1, <3>1, <1>0, <1>1 DEF WorkerCalls
    <3> QED
      BY <2>1, <3>1, <3>2, <1>0, <1>1
      DEF Session, Births, PidHeld, PidMatchesHandle, NoCrossInstanceState, procVars
  <2> QED
    BY <1>6, <2>2, <2>3 DEF UiDisable
<1> QED
  BY <1>2, <1>3, <1>4, <1>5, <1>6 DEF UiProgress, User

LEMMA TaskAndCallSession ==
  ASSUME TypeInv, Session, RunTask \/ CallStep
  PROVE  Session'
<1>0. /\ Phases /\ Births /\ WorkerCalls /\ PidHeld /\ PidMatchesHandle
      /\ NoCrossInstanceState /\ TrainerTypeOK /\ born \in Nat /\ NoCall.mem = 0
  BY TypeInvParts, ProcAssumption DEF ProcAssumption, ProcTypeOK, Session, NoCall, NoProc
<1>1. UNCHANGED <<procVars, mem, processId, foundPid, ui, pc>>
  BY DEF RunTask, CallStep, workerVars
<1>2. CASE RunTask
  <2>1. Head(batch).opt \in Options
    <3>1. Head(batch) \in Tasks
      BY <1>2, <1>0 DEF RunTask, TrainerTypeOK
    <3> QED
      BY <3>1 DEF Tasks
  <2>2. SetEnabled("task", Head(batch).opt, Head(batch).want, processId, OpenHandles)
    BY <1>2 DEF RunTask
  <2>3. /\ call' # NoCall => call'.mem # NoProc
        /\ call'.mem \in 0..born
        /\ pc # "done" /\ call' # NoCall => call'.mem = mem
        /\ pc # "done" => \A p \in Patches : patchIn'[p] \in {NoProc, mem}
    BY <2>1, <2>2, <1>0, SetEnabledSession DEF Callers
  <2>4. pc \in {"tasks", "done"} /\ ui # "init"
    BY <1>2, <1>0 DEF RunTask, Phases, WorkerCalls
  <2>5. WorkerCalls'
    BY <2>3, <2>4, <1>1 DEF WorkerCalls
  <2> QED
    BY <2>3, <2>5, <1>0, <1>1
    DEF Session, Births, PidHeld, PidMatchesHandle, NoCrossInstanceState, procVars
<1>3. CASE CallStep
  <2>1. /\ call # NoCall
        /\ call' = NoCall \/ call'.mem = call.mem
        /\ \A p \in Patches :
             \/ patchIn'[p] \in {patchIn[p], NoProc}
             \/ patchIn'[p] = call.mem /\ IsAlive(call.mem)
    BY <1>3, CallStepsEffect DEF CallStep, CallSteps
  <2>2. WorkerCalls'
    BY <2>1, <1>0, <1>1 DEF WorkerCalls
  <2>3. Births'
    BY <2>1, <1>0, <1>1 DEF Births, procVars
  <2>4. NoCrossInstanceState'
    BY <2>1, <1>0, <1>1 DEF NoCrossInstanceState, WorkerCalls
  <2>5. PidHeld' /\ PidMatchesHandle'
    BY <1>0, <1>1 DEF PidHeld, PidMatchesHandle, procVars
  <2> QED
    BY <2>2, <2>3, <2>4, <2>5 DEF Session
<1> QED
  BY <1>2, <1>3

LEMMA SessionNext == TypeInv /\ Session /\ [Next]_vars => Session'
<1> SUFFICES ASSUME TypeInv, Session, [Next]_vars PROVE Session'
  OBVIOUS
<1>1. CASE UNCHANGED vars
  BY <1>1
  DEF vars, Session, Births, WorkerCalls, PidHeld, PidMatchesHandle, NoCrossInstanceState,
      procVars, workerVars, optionVars, patchVars
<1> QED
  BY <1>1, EnvironmentSession, WorkerSession, UiSession, TaskAndCallSession DEF Next, Exited

LEMMA SessionAlways == Spec => [](TypeInv /\ Session)
BY TypeInit, TypeNext, SessionInit, SessionNext, PTL DEF Spec

(* The handle of Cheat::Run and _processId, which the tasks open their own   *)
(* handle by, always name the same process while the worker runs.            *)
THEOREM HandleAndPidAgree == Spec => []PidMatchesHandle
<1>1. Session => PidMatchesHandle
  BY DEF Session
<1> QED
  BY SessionAlways, <1>1, PTL

(* No patch carries what it knows of a game that has ended over to the next  *)
(* one: OnProcessLost is in time, wherever the game ends.                    *)
THEOREM SessionsAreSeparate == Spec => []NoCrossInstanceState
<1>1. Session => NoCrossInstanceState
  BY DEF Session
<1> QED
  BY SessionAlways, <1>1, PTL

-----------------------------------------------------------------------------
(* Bytes return home, as long as the PID of the last game is not given to    *)
(* another process between the end of the worker and DisableAll.             *)

LEMMA HomeFrame ==
  ASSUME HomePid, UNCHANGED <<procVars, site, patchIn, saved, call, processId>>
  PROVE  HomePid'
BY DEF HomePid, procVars

LEMMA EnvironmentHome ==
  ASSUME TypeInv, Session, HomePid, ~ReuseAfterStop, Environment
  PROVE  HomePid'
<1>0. /\ ProcTypeOK /\ Births /\ WorkerCalls /\ PidMatchesHandle /\ born \in Nat /\ NoProc = 0
  BY TypeInvParts, ProcAssumption DEF ProcAssumption, ProcTypeOK, Session, NoProc
<1>1. UNCHANGED <<patchIn, saved, call, processId>>
  BY DEF Environment, Start, GameExits, GameWrites, Timer, workerVars, optionVars, patchVars,
         TimerElapses
<1>2. ASSUME NEW pid \in Pids, NEW sort \in ProcSorts, Start(pid, sort)
      PROVE  HomePid'
  <2>1. /\ live' = born + 1 /\ PidFree(pid, OpenHandles) /\ site' = site
        /\ proc' = [proc EXCEPT ![born + 1] = [pid |-> pid, sort |-> sort]]
        /\ pc = "done" => pid # processId
        /\ born < MaxProcs
    BY <1>2 DEF Start, StartProcess
  <2>2. born + 1 \in Procs /\ 1..born \subseteq Procs
    BY <2>1, <1>0, ProcAssumption DEF ProcAssumption, ProcTypeOK, Procs
  <2>3. proc'[born + 1].pid = pid /\ \A i \in 1..born : proc'[i] = proc[i]
    BY <2>1, <2>2, <1>0 DEF ProcTypeOK
  <2>4. pid # processId
    <3>1. CASE pc = "done"
      BY <3>1, <2>1
    <3>2. CASE pc # "done" /\ mem = NoProc
      BY <3>2, <1>0, ProcAssumption DEF ProcAssumption, PidMatchesHandle
    <3>3. CASE pc # "done" /\ mem # NoProc
      <4>1. mem \in 1..born /\ proc[mem].pid = processId
        BY <3>3, <1>0 DEF Births, PidMatchesHandle
      <4> QED
        BY <4>1, <2>1 DEF PidFree, OpenHandles
    <3> QED
      BY <3>1, <3>2, <3>3
  <2>5. call # NoCall => call.mem \in 1..born
    BY <1>0 DEF Births, WorkerCalls
  <2> QED
    BY <1>1, <2>1, <2>3, <2>4, <2>5 DEF HomePid
<1>3. CASE GameExits
  BY <1>1, <1>3 DEF GameExits, ExitProcess, HomePid
<1>4. ASSUME NEW p \in Patches, GameWrites(p)
      PROVE  HomePid'
  BY <1>1, <1>4, <1>0 DEF GameWrites, GameOverwrites, HomePid, procVars, ProcTypeOK
<1>5. ASSUME NEW o \in Options, Timer(o)
      PROVE  HomePid'
  BY <1>1, <1>5, HomeFrame DEF Timer, TimerElapses
<1> QED
  BY <1>2, <1>3, <1>4, <1>5 DEF Environment

LEMMA SetEnabledHome ==
  ASSUME TypeInv, Session, HomePid, NEW by \in Callers, NEW o \in Options, NEW want,
         SetEnabled(by, o, want, processId, OpenHandles), UNCHANGED <<procVars, processId>>
  PROVE  HomePid'
<1>1. /\ UNCHANGED <<site, saved>>
      /\ call' # NoCall => proc[call'.mem].pid = processId
      /\ \A p \in Patches : patchIn'[p] \in {patchIn[p], NoProc}
  BY SetEnabledEffect, SetEnabledSession
<1> QED
  BY <1>1 DEF HomePid, procVars

LEMMA CallStepsHome ==
  ASSUME TypeInv, Session, HomePid, CallSteps, UNCHANGED <<procVars, processId>>
  PROVE  HomePid'
<1>0. ProcTypeOK /\ OptionTypeOK /\ NoProc = 0
  BY TypeInvParts DEF NoProc
<1>1. /\ call # NoCall
      /\ call' = NoCall \/ call'.mem = call.mem
      /\ \A p \in Patches :
           \/ patchIn'[p] \in {patchIn[p], NoProc}
           \/ patchIn'[p] = call.mem /\ IsAlive(call.mem)
  BY CallStepsEffect
<1>2. call' # NoCall => proc'[call'.mem].pid = processId'
  BY <1>1 DEF HomePid, procVars
<1>3. \A p \in Patches :
        patchIn'[p] # NoProc /\ live' # NoProc /\ proc'[live'].pid = processId' => patchIn'[p] = live'
  BY <1>1 DEF HomePid, procVars, IsAlive
<1>4. \A p \in Patches : saved'[p] # "alien" /\ site'[p] # "alien"
  <2>1. CASE UNCHANGED <<saved, site>>
    BY <2>1 DEF HomePid
  <2>2. ASSUME NEW q, PatchApplies(q, call.mem)
        PROVE  \A p \in Patches : saved'[p] # "alien" /\ site'[p] # "alien"
    BY <2>2, <1>0 DEF PatchApplies, HomePid, OptionTypeOK, ProcTypeOK
  <2>3. ASSUME NEW q, PatchRestores(q, call.mem), q \in Patches
        PROVE  \A p \in Patches : saved'[p] # "alien" /\ site'[p] # "alien"
    <3>1. AlreadyApplied(q) /\ IsAlive(call.mem) => patchIn[q] = call.mem
      BY <2>3, <1>1 DEF AlreadyApplied, IsAlive, HomePid
    <3>2. site' = site \/ site' = [site EXCEPT ![q] = saved[q]]
      BY <2>3, <3>1 DEF PatchRestores
    <3>3. saved' = saved
      BY <2>3 DEF PatchRestores
    <3> QED
      BY <2>3, <3>2, <3>3, <1>0 DEF HomePid, ProcTypeOK
  <2>4. CASE RestorePatch
    <3>1. PatchSeq[call.opt][call.at] \in Patches
      <4>1. call.opt \in Options /\ call.at \in 1..Len(PatchSeq[call.opt])
        BY <2>4, <1>0, <1>1, TypeInvParts
        DEF RestorePatch, CallBounds, OptionTypeOK
      <4> QED
        BY <4>1, PatchSeqType
    <3> QED
      BY <2>3, <2>4, <3>1 DEF RestorePatch
  <2> QED
    BY <2>1, <2>2, <2>4
    DEF CallSteps, ApplyPatch, FinishEnable, FinishRollback, FinishDisable
<1> QED
  BY <1>2, <1>3, <1>4 DEF HomePid

LEMMA HomeInit == Init => HomePid
BY DEF Init, ProcInit, OptionInit, HomePid

LEMMA HomeNext == ~ReuseAfterStop /\ TypeInv /\ Session /\ HomePid /\ [Next]_vars => HomePid'
<1> SUFFICES ASSUME ~ReuseAfterStop, TypeInv, Session, HomePid, [Next]_vars PROVE HomePid'
  OBVIOUS
<1>0. /\ TrainerTypeOK /\ ProcTypeOK /\ Phases /\ WorkerCalls /\ NoCrossInstanceState
      /\ OptionTypeOK /\ NumOptions \in Nat /\ Options = 1..NumOptions
  BY TypeInvParts, OptionAssumption DEF OptionAssumption, Session, Options
<1>1. CASE UNCHANGED vars
  BY <1>1, HomeFrame DEF vars, optionVars, workerVars, patchVars
<1>2. CASE RunTask
  <2>1. Head(batch).opt \in Options
    <3>1. Head(batch) \in Tasks
      BY <1>2, <1>0 DEF RunTask, TrainerTypeOK
    <3> QED
      BY <3>1 DEF Tasks
  <2> QED
    BY <1>2, <2>1, SetEnabledHome DEF RunTask, workerVars, Callers
<1>3. CASE CallStep
  BY <1>3, CallStepsHome DEF CallStep, CallSteps, workerVars
<1>4. CASE UiProgress \/ User
  <2>1. CASE UiDisable
    <3>1. UNCHANGED <<procVars, processId>> /\ cur \in Options
      BY <2>1, <1>0 DEF UiDisable, workerVars, TrainerTypeOK
    <3>2. SetEnabled("exit", cur, FALSE, processId, OpenHandles) \/ UNCHANGED <<optionVars, site>>
      BY <2>1 DEF UiDisable
    <3> QED
      BY <3>1, <3>2, HomeFrame, SetEnabledHome DEF Callers, optionVars, patchVars
  <2>2. CASE UNCHANGED <<procVars, site, patchIn, saved, call, processId>>
    BY <2>2, HomeFrame
  <2> QED
    BY <1>4, <2>1, <2>2
    DEF UiProgress, User, UiPost, UiJoin, UiTasksDone, UiExit, UiStart, UiClick, UiClose,
        workerVars, optionVars, patchVars
<1>5. CASE Worker
  <2>1. CASE WorkerLosesGame
    <3>1. /\ patchIn' = [p \in Patches |-> NoProc] /\ call = NoCall /\ call' = call
          /\ UNCHANGED <<site, saved>>
      BY <2>1, <1>0 DEF WorkerLosesGame, ProcessLost, WorkerCalls
    <3> QED
      BY <3>1 DEF HomePid
  <2>2. CASE WorkerOpens
    <3>1. /\ call = NoCall /\ \A p \in Patches : patchIn[p] = NoProc
          /\ UNCHANGED <<patchIn, saved, site, call>>
      BY <2>2, <1>0
      DEF WorkerOpens, WorkerCalls, NoCrossInstanceState, optionVars, patchVars
    <3> QED
      BY <3>1 DEF HomePid
  <2>3. CASE WorkerHotkey
    <3>1. cur \in Options
      BY <2>3, <1>0 DEF WorkerHotkey, TrainerTypeOK
    <3> QED
      BY <2>3, <3>1, SetEnabledHome DEF WorkerHotkey, ToggleByHotkey, Callers
  <2>4. CASE WorkerAutoOff
    BY <2>4, <1>0, SetEnabledHome DEF WorkerAutoOff, AutoOff, Phases, Callers
  <2>5. CASE WorkerTick
    <3>1. UNCHANGED <<procVars, patchIn, saved, call, processId>>
      BY <2>5 DEF WorkerTick, TickPatches, optionVars, patchVars
    <3>2. PICK W : site' = [p \in Patches |-> IF p \in W THEN "mod" ELSE site[p]]
      BY <2>5 DEF WorkerTick, TickPatches
    <3> QED
      BY <3>1, <3>2 DEF HomePid, procVars
  <2>6. CASE UNCHANGED <<procVars, site, patchIn, saved, call, processId>>
    BY <2>6, HomeFrame
  <2> QED
    BY <1>5, <2>1, <2>2, <2>3, <2>4, <2>5, <2>6
    DEF Worker, WorkerStops, WorkerKeepsGame, WorkerSkipsSearch, WorkerSearches, WorkerSwaps,
        WorkerTasksDone, WorkerNoHotkey, WorkerNext, optionVars, patchVars
<1>6. CASE Environment
  BY <1>6, EnvironmentHome
<1> QED
  BY <1>1, <1>2, <1>3, <1>4, <1>5, <1>6 DEF Next, Exited

(* Unless Windows gives the PID of the last game to a new process after the  *)
(* worker has ended, bytes of one process are never written into another:    *)
(* not by a restore, not by a rollback, not by DisableAll.                   *)
THEOREM HomeBytes ==
  ASSUME ~ReuseAfterStop
  PROVE  Spec => []BytesReturnHome
<1>1. Init => HomePid
  BY HomeInit
<1>2. TypeInv /\ Session /\ HomePid /\ [Next]_vars => HomePid'
  BY HomeNext
<1>3. HomePid => BytesReturnHome
  BY DEF HomePid, BytesReturnHome
<1> QED
  BY <1>1, <1>2, <1>3, SessionAlways, PTL DEF Spec

=============================================================================
