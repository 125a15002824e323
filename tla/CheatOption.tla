---------------------------- MODULE CheatOption ----------------------------
(***************************************************************************)
(* cheats/CheatOption.cpp with the patches it owns (patches/): one option   *)
(* of the trainer, a switch over a list of patches.  SetEnabled is one call *)
(* of many steps; the game may end between any two of them.  The thread     *)
(* that executes the call is the business of module Trainer.                *)
(***************************************************************************)
EXTENDS TargetProcess

CONSTANTS
  NumOptions,     \* the options are 1..NumOptions, in registry order
  PatchSeq,       \* PatchSeq[o]: the patches of option o, in order
  Timed,          \* the options with autoOffMs > 0
  RestoreMayFail  \* whether writing the original bytes back may fail

Options == 1..NumOptions

(* A patch belongs to one option and stands once in its list.                *)
ASSUME OptionAssumption ==
  /\ NumOptions \in Nat
  /\ PatchSeq \in [Options -> Seq(Patches)]
  /\ Timed \subseteq Options
  /\ RestoreMayFail \in BOOLEAN
  /\ \A o1, o2 \in Options : \A i \in 1..Len(PatchSeq[o1]), j \in 1..Len(PatchSeq[o2]) :
       PatchSeq[o1][i] = PatchSeq[o2][j] => o1 = o2 /\ i = j

VARIABLES
  enabled,   \* m_enabled
  autoOff,   \* m_autoOffPending with m_autoOffAt: "none", "armed", "due"
  failed,    \* m_failedAtTicks # 0
  pending,   \* m_pending
  patchIn,   \* the instance a patch believes to be applied in, or NoProc
             \* (m_applied, originalSize > 0, m_active)
  saved,     \* originalBytes of a code patch
  call       \* the SetEnabled call being executed, or NoCall

patchVars == <<patchIn, saved>>
optionVars == <<enabled, autoOff, failed, pending, patchIn, saved, call>>

Callers == {"task", "hotkey", "autooff", "exit"}
Steps == {"apply", "rollback", "restore"}

NoCall == [by |-> "none", opt |-> 0, step |-> "none", at |-> 0, mem |-> NoProc]

PatchesOf(o) == {PatchSeq[o][i] : i \in 1..Len(PatchSeq[o])}

(* CheatOption::IsOneShot: at least one patch, and one-shot writes only.     *)
IsOneShot(o) ==
  /\ PatchSeq[o] # <<>>
  /\ \A p \in PatchesOf(o) : Kind[p] = "write"

OptionTypeOK ==
  /\ enabled \in [Options -> BOOLEAN]
  /\ autoOff \in [Options -> {"none", "armed", "due"}]
  /\ failed \in [Options -> BOOLEAN]
  /\ pending \in [Options -> Int]
  /\ patchIn \in [Patches -> Handles]
  /\ saved \in [Patches -> SiteValues]
  /\ call \in {NoCall} \cup
       [by: Callers, opt: Options, step: Steps, at: Nat, mem: Handles]

OptionInit ==
  /\ enabled = [o \in Options |-> FALSE]
  /\ autoOff = [o \in Options |-> "none"]
  /\ failed = [o \in Options |-> FALSE]
  /\ pending = [o \in Options |-> 0]
  /\ patchIn = [p \in Patches |-> NoProc]
  /\ saved = [p \in Patches |-> "orig"]
  /\ call = NoCall

-----------------------------------------------------------------------------
(* Patches: one step per patch.  Apply of NopPatch and CavePatch is all or   *)
(* nothing towards the game's code; the steps inside it belong to CaveHook.  *)

(* Patch::Reset of every patch in P: forget, write nothing.                  *)
ResetPatches(P) == patchIn' = [p \in Patches |-> IF p \in P THEN NoProc ELSE patchIn[p]]

AlreadyApplied(p) == Kind[p] = "code" /\ patchIn[p] # NoProc

(* A successful Apply: the game's bytes are remembered and replaced, or the  *)
(* value written.  A signature is not found in a foreign program.            *)
PatchApplies(p, h) ==
  /\ IsAlive(h)
  /\ ~AlreadyApplied(p)
  /\ Kind[p] = "code" => proc[h].sort # "other"
  /\ site' = [site EXCEPT ![p] = "mod"]
  /\ saved' = IF Kind[p] = "code" THEN [saved EXCEPT ![p] = site[p]] ELSE saved
  /\ patchIn' = IF Kind[p] = "write" THEN patchIn ELSE [patchIn EXCEPT ![p] = h]

(* Restore: the patch counts as removed whatever becomes of the write.       *)
PatchRestores(p, h) ==
  /\ patchIn' = [patchIn EXCEPT ![p] = NoProc]
  /\ UNCHANGED saved
  /\ IF AlreadyApplied(p) /\ IsAlive(h)
     THEN \/ site' = [site EXCEPT ![p] = IF patchIn[p] = h THEN saved[p] ELSE "alien"]
          \/ /\ RestoreMayFail \/ patchIn[p] # h
             /\ UNCHANGED site
     ELSE UNCHANGED site

-----------------------------------------------------------------------------
(* SetEnabled.  Return ends a call; the task that made it then runs          *)
(* EndPending (CheatOptionManager::SetEnabled).                              *)

(* MUTANT of Return: EndPending is forgotten.                                *)
Return_StaysBusy(by, o) ==
  /\ call' = NoCall
  /\ UNCHANGED pending

Return(by, o) ==
  /\ call' = NoCall
  /\ pending' = IF by = "task" THEN [pending EXCEPT ![o] = @ - 1] ELSE pending

Continue(by, o, step, at, h) ==
  /\ call' = [by |-> by, opt |-> o, step |-> step, at |-> at, mem |-> h]
  /\ UNCHANGED pending

Disable(by, o, pid, openHandles) ==
  /\ autoOff' = [autoOff EXCEPT ![o] = "none"]
  /\ UNCHANGED <<failed, saved>>
  /\ IF enabled[o] /\ ~IsOneShot(o)
     THEN \E h \in OpenResults(pid, openHandles) :
            IF h = NoProc
            THEN /\ ResetPatches(PatchesOf(o))
                 /\ enabled' = [enabled EXCEPT ![o] = FALSE]
                 /\ Return(by, o)
            ELSE /\ Continue(by, o, "restore", Len(PatchSeq[o]), h)
                 /\ UNCHANGED <<enabled, patchIn>>
     ELSE /\ enabled' = [enabled EXCEPT ![o] = FALSE]
          /\ UNCHANGED patchIn
          /\ Return(by, o)

Enable(by, o, pid, openHandles) ==
  /\ UNCHANGED <<enabled, autoOff, patchIn, saved>>
  /\ IF enabled[o] /\ ~IsOneShot(o)
     THEN /\ Return(by, o)
          /\ UNCHANGED failed
     ELSE \E h \in OpenResults(pid, openHandles) :
            IF h = NoProc
            THEN /\ failed' = [failed EXCEPT ![o] = TRUE]
                 /\ Return(by, o)
            ELSE /\ Continue(by, o, "apply", 1, h)
                 /\ UNCHANGED failed

SetEnabled(by, o, want, pid, openHandles) ==
  /\ call = NoCall
  /\ IF want THEN Enable(by, o, pid, openHandles)
             ELSE Disable(by, o, pid, openHandles)
  /\ UNCHANGED site

(* MUTANT of ApplyPatch: a patch that fails is passed over.                  *)
ApplyPatch_IgnoresFailure ==
  /\ call.step = "apply"
  /\ call.at <= Len(PatchSeq[call.opt])
  /\ LET p == PatchSeq[call.opt][call.at]
     IN \/ PatchApplies(p, call.mem)
        \/ UNCHANGED <<patchIn, saved, site>>
  /\ Continue(call.by, call.opt, "apply", call.at + 1, call.mem)
  /\ UNCHANGED <<enabled, autoOff, failed>>

(* MUTANT of ApplyPatch: the patches applied so far are not rolled back.     *)
ApplyPatch_NoRollback ==
  /\ call.step = "apply"
  /\ call.at <= Len(PatchSeq[call.opt])
  /\ LET p == PatchSeq[call.opt][call.at]
     IN \/ /\ PatchApplies(p, call.mem)
           /\ Continue(call.by, call.opt, "apply", call.at + 1, call.mem)
        \/ /\ Continue(call.by, call.opt, "rollback", 0, call.mem)
           /\ UNCHANGED <<patchIn, saved, site>>
  /\ UNCHANGED <<enabled, autoOff, failed>>

(* ApplyAll: the next patch of the list.                                     *)
ApplyPatch ==
  /\ call.step = "apply"
  /\ call.at <= Len(PatchSeq[call.opt])
  /\ LET p == PatchSeq[call.opt][call.at]
         next == Continue(call.by, call.opt, "apply", call.at + 1, call.mem)
     IN \/ /\ AlreadyApplied(p)
           /\ next
           /\ UNCHANGED <<patchIn, saved, site>>
        \/ /\ PatchApplies(p, call.mem)
           /\ next
        \/ /\ ~AlreadyApplied(p)
           /\ Continue(call.by, call.opt, "rollback", call.at - 1, call.mem)
           /\ UNCHANGED <<patchIn, saved, site>>
  /\ UNCHANGED <<enabled, autoOff, failed>>

(* All applied.  A one-shot option switches itself off after a flash.        *)
FinishEnable ==
  /\ call.step = "apply"
  /\ call.at > Len(PatchSeq[call.opt])
  /\ LET o == call.opt
     IN /\ failed' = [failed EXCEPT ![o] = FALSE]
        /\ enabled' = [enabled EXCEPT ![o] = TRUE]
        /\ autoOff' = IF o \in Timed \/ IsOneShot(o)
                      THEN [autoOff EXCEPT ![o] = "armed"] ELSE autoOff
        /\ Return(call.by, o)
  /\ UNCHANGED <<patchIn, saved, site>>

(* ApplyAll after a failure, and RestoreAll: the patches in reverse order.   *)
RestorePatch ==
  /\ call.step \in {"rollback", "restore"}
  /\ call.at > 0
  /\ PatchRestores(PatchSeq[call.opt][call.at], call.mem)
  /\ Continue(call.by, call.opt, call.step, call.at - 1, call.mem)
  /\ UNCHANGED <<enabled, autoOff, failed>>

(* MUTANT of FinishRollback: the failure is not recorded.                    *)
FinishRollback_Silent ==
  /\ call.step = "rollback"
  /\ call.at = 0
  /\ Return(call.by, call.opt)
  /\ UNCHANGED <<enabled, autoOff, failed, patchIn, saved, site>>

FinishRollback ==
  /\ call.step = "rollback"
  /\ call.at = 0
  /\ failed' = [failed EXCEPT ![call.opt] = TRUE]
  /\ Return(call.by, call.opt)
  /\ UNCHANGED <<enabled, autoOff, patchIn, saved, site>>

FinishDisable ==
  /\ call.step = "restore"
  /\ call.at = 0
  /\ enabled' = [enabled EXCEPT ![call.opt] = FALSE]
  /\ Return(call.by, call.opt)
  /\ UNCHANGED <<autoOff, failed, patchIn, saved, site>>

-----------------------------------------------------------------------------
(* Process, the tick of the worker, and OnProcessLost.                       *)

(* The time m_autoOffAt has come.                                            *)
TimerElapses(o) ==
  /\ autoOff[o] = "armed"
  /\ autoOff' = [autoOff EXCEPT ![o] = "due"]
  /\ UNCHANGED <<enabled, failed, pending, patchIn, saved, call, site>>

(* Toggle: a one-shot option is repeated, any other is switched.             *)
ToggleByHotkey(o, pid, openHandles) ==
  SetEnabled("hotkey", o, IsOneShot(o) \/ ~enabled[o], pid, openHandles)

AutoOffDue(o) == enabled[o] /\ autoOff[o] = "due"

(* MUTANT of AutoOff: the deadline is taken down, the switch stays on.       *)
AutoOff_OnlyClears(o, pid, openHandles) ==
  /\ AutoOffDue(o)
  /\ autoOff' = [autoOff EXCEPT ![o] = "none"]
  /\ UNCHANGED <<enabled, failed, pending, patchIn, saved, call, site>>

AutoOff(o, pid, openHandles) ==
  /\ AutoOffDue(o)
  /\ SetEnabled("autooff", o, FALSE, pid, openHandles)

ActiveFreezes(o) == {p \in PatchesOf(o) : Kind[p] = "freeze" /\ patchIn[p] # NoProc}

(* Tick of every patch: an active freeze writes its value again, unless its  *)
(* pointer chain is broken just now.                                         *)
TickPatches(o, h) ==
  /\ ~AutoOffDue(o)
  /\ \E W \in SUBSET (IF enabled[o] /\ IsAlive(h) THEN ActiveFreezes(o) ELSE {}) :
       site' = [p \in Patches |-> IF p \in W THEN "mod" ELSE site[p]]
  /\ UNCHANGED optionVars

(* MUTANT of ProcessLost: the patches do not forget the process.             *)
ProcessLost_KeepsPatches ==
  /\ enabled' = [o \in Options |-> FALSE]
  /\ autoOff' = [o \in Options |-> "none"]
  /\ UNCHANGED <<failed, pending, patchIn, saved, call, site>>

(* MUTANT of ProcessLost: the deadline is not cancelled.                     *)
ProcessLost_KeepsDeadline ==
  /\ patchIn' = [p \in Patches |-> NoProc]
  /\ enabled' = [o \in Options |-> FALSE]
  /\ UNCHANGED <<autoOff, failed, pending, saved, call, site>>

(* MUTANT of ProcessLost: the switches stay on.                              *)
ProcessLost_StaysOn ==
  /\ patchIn' = [p \in Patches |-> NoProc]
  /\ autoOff' = [o \in Options |-> "none"]
  /\ UNCHANGED <<enabled, failed, pending, saved, call, site>>

(* OnProcessLost of every option.                                            *)
ProcessLost ==
  /\ patchIn' = [p \in Patches |-> NoProc]
  /\ enabled' = [o \in Options |-> FALSE]
  /\ autoOff' = [o \in Options |-> "none"]
  /\ UNCHANGED <<failed, pending, saved, call, site>>
=============================================================================
