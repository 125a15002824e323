--------------------------- MODULE TargetProcess ---------------------------
(***************************************************************************)
(* The target of the trainer as the trainer sees it: the processes Windows  *)
(* starts and ends, the identifiers (PIDs) it gives them, the handles       *)
(* OpenProcess returns for a PID, and the bytes at the places the patches   *)
(* touch.  Windows and the game are not part of the repository; they are    *)
(* modelled from how core/MemoryAccess.cpp and core/Memory_Functions.cpp    *)
(* use them.                                                                *)
(*                                                                          *)
(* A process is an INSTANCE, a number from 1 to MaxProcs in order of birth. *)
(* A handle is the instance it was opened on, or NoProc.  At most one of    *)
(* the modelled processes is alive at a time.                               *)
(***************************************************************************)
EXTENDS Integers, Sequences, FiniteSets

CONSTANTS
  Pids,       \* the process identifiers Windows hands out (never 0)
  MaxProcs,   \* bound: how many processes may be started
  PidReuse,   \* whether the PID of an ended process may be given again
  Patches,    \* every patch of every option
  Kind        \* Kind[p]: "code" (NOP or cave), "freeze" or "write" (one-shot)

VARIABLES
  proc,       \* proc[i]: PID and sort of instance i
  born,       \* how many instances were started
  live,       \* the instance alive now, or NoProc
  site        \* site[p]: what the live process holds at the place patch p writes

procVars == <<proc, born, live>>

NoProc == 0
Procs == 1..MaxProcs
Handles == 0..MaxProcs

PatchKinds == {"code", "freeze", "write"}

(* "game": the wanted executable; "elevated": the same, started as           *)
(* administrator, so that OpenProcess is refused; "other": any program that  *)
(* happens to get the PID.                                                   *)
ProcSorts == {"game", "elevated", "other"}

(* "orig": as the game has it; "mod": written by the patch; "alien": bytes   *)
(* remembered from ANOTHER process were written over it.                     *)
SiteValues == {"orig", "mod", "alien"}

ASSUME ProcAssumption ==
  /\ Pids \subseteq Nat \ {0}
  /\ MaxProcs \in Nat
  /\ PidReuse \in BOOLEAN
  /\ Kind \in [Patches -> PatchKinds]

ProcTypeOK ==
  /\ proc \in [Procs -> [pid: Pids \cup {0}, sort: ProcSorts \cup {"unborn"}]]
  /\ born \in 0..MaxProcs
  /\ live \in {NoProc, born}
  /\ site \in [Patches -> SiteValues]

ProcInit ==
  /\ proc = [i \in Procs |-> [pid |-> 0, sort |-> "unborn"]]
  /\ born = 0
  /\ live = NoProc
  /\ site = [p \in Patches |-> "orig"]

-----------------------------------------------------------------------------
(* The system: processes start and end at any moment.                        *)

(* A PID is not given again while a handle to its process is open, even a    *)
(* dead process; afterwards it is, when PidReuse allows.                     *)
PidFree(pid, openHandles) ==
  \A i \in 1..born :
    proc[i].pid = pid => /\ PidReuse
                         /\ i \notin openHandles

StartProcess(pid, sort, openHandles) ==
  /\ live = NoProc
  /\ born < MaxProcs
  /\ PidFree(pid, openHandles)
  /\ born' = born + 1
  /\ live' = born + 1
  /\ proc' = [proc EXCEPT ![born + 1] = [pid |-> pid, sort |-> sort]]
  /\ UNCHANGED site

(* The memory of the process goes with it; a new one starts unmodified.      *)
ExitProcess ==
  /\ live # NoProc
  /\ live' = NoProc
  /\ site' = [p \in Patches |-> "orig"]
  /\ UNCHANGED <<proc, born>>

(* The running game overwrites the values it owns, not its code.             *)
GameOverwrites(p) ==
  /\ live # NoProc
  /\ Kind[p] # "code"
  /\ site[p] = "mod"
  /\ site' = [site EXCEPT ![p] = "orig"]
  /\ UNCHANGED procVars

-----------------------------------------------------------------------------
(* What the trainer asks of the system.                                      *)

(* GetProcessIdByProcessName: the PID of the wanted executable in a snapshot *)
(* of the running processes, 0 when it is not there.                         *)
FoundPid ==
  IF live # NoProc /\ proc[live].sort # "other" THEN proc[live].pid ELSE 0

(* MemoryAccess(pid): the handles OpenProcess may return.  A dead process    *)
(* some handle still holds may or may not be opened again by its PID.        *)
OpenResults(pid, openHandles) ==
  IF live # NoProc /\ proc[live].pid = pid
  THEN IF proc[live].sort = "elevated" THEN {NoProc} ELSE {live}
  ELSE {NoProc} \cup {h \in openHandles \ {NoProc} : proc[h].pid = pid}

(* MemoryAccess::IsAlive.                                                    *)
IsAlive(h) == h # NoProc /\ h = live
=============================================================================
