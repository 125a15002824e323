------------------------------ MODULE Trainer ------------------------------
(***************************************************************************)
(* The trainer as a whole: the worker thread (core/Cheat.cpp), the window's *)
(* thread that posts clicks and later shuts everything down                 *)
(* (ui/MainView.cpp, cheats/CheatOptionManager.cpp, app/Application.cpp),   *)
(* the options (CheatOption) and the game (TargetProcess).                  *)
(***************************************************************************)
EXTENDS CheatOption

CONSTANTS
  HasHotkey,   \* the options with a key combination
  ReuseAfterStop, \* whether a process may get the PID in _processId after
               \* the worker, and with it the handle, is gone
  MaxClicks,   \* bound: clicks in the window
  MaxPresses   \* bound: presses of hotkeys

ASSUME TrainerAssumption ==
  /\ HasHotkey \subseteq Options
  /\ ReuseAfterStop \in BOOLEAN
  /\ MaxClicks \in Nat
  /\ MaxPresses \in Nat

VARIABLES
  pc,            \* where the worker is in Cheat::Run
  cur,           \* the option whose Process (or DisableAll's turn) is next
  mem,           \* the worker's handle: local mem of Cheat::Run
  processId,     \* _processId
  deniedPid,     \* local deniedPid of Cheat::Run
  accessDenied,  \* _accessDenied
  foundPid,      \* local pid of the search
  running,       \* _running
  queue,         \* _tasks
  batch,         \* tasks swapped out by RunPostedTasks and not yet run
  ui,            \* where the window's thread is
  click,         \* a click decided in this frame and not yet posted, or NoClick
  clicks,        \* clicks made so far
  presses        \* hotkey presses so far

sessionVars == <<mem, processId, deniedPid, accessDenied, foundPid>>
workerVars == <<pc, sessionVars>>
taskVars == <<queue, batch>>
inputVars == <<click, clicks, presses>>
userVars == <<ui, inputVars>>
vars == <<procVars, site, optionVars, workerVars, cur, running, taskVars, userVars>>

NoClick == [opt |-> 0, want |-> FALSE]
Tasks == [opt: Options, want: BOOLEAN]

WorkerPcs == {"idle", "top", "search", "open", "swap", "tasks", "hotkey", "tick", "next", "done"}
UiPcs == {"init", "open", "joining", "swap", "tasks", "disableAll", "exited"}

OpenHandles == {mem, call.mem}

TypeOK ==
  /\ ProcTypeOK
  /\ OptionTypeOK
  /\ pc \in WorkerPcs
  /\ cur \in 1..(NumOptions + 1)
  /\ mem \in Handles
  /\ processId \in Pids \cup {0}
  /\ deniedPid \in Pids \cup {0}
  /\ accessDenied \in BOOLEAN
  /\ foundPid \in Pids \cup {0}
  /\ running \in BOOLEAN
  /\ queue \in Seq(Tasks)
  /\ batch \in Seq(Tasks)
  /\ ui \in UiPcs
  /\ click \in Tasks \cup {NoClick}
  /\ clicks \in Nat
  /\ presses \in Nat

Init ==
  /\ ProcInit
  /\ OptionInit
  /\ pc = "idle"
  /\ cur = 1
  /\ mem = NoProc
  /\ processId = 0
  /\ deniedPid = 0
  /\ accessDenied = FALSE
  /\ foundPid = 0
  /\ running = FALSE
  /\ queue = <<>>
  /\ batch = <<>>
  /\ ui = "init"
  /\ click = NoClick
  /\ clicks = 0
  /\ presses = 0

-----------------------------------------------------------------------------
(* The outside: Windows, the game, the clock.                                *)

Start(pid, sort) ==
  /\ pc = "done" /\ pid = processId => ReuseAfterStop
  /\ StartProcess(pid, sort, OpenHandles)
  /\ UNCHANGED <<optionVars, workerVars, cur, running, taskVars, userVars>>

GameExits ==
  /\ ExitProcess
  /\ UNCHANGED <<optionVars, workerVars, cur, running, taskVars, userVars>>

GameWrites(p) ==
  /\ GameOverwrites(p)
  /\ UNCHANGED <<optionVars, workerVars, cur, running, taskVars, userVars>>

Timer(o) ==
  /\ TimerElapses(o)
  /\ UNCHANGED <<procVars, workerVars, cur, running, taskVars, userVars>>

-----------------------------------------------------------------------------
(* The window's thread.                                                      *)

(* Application::Run, Cheat::Start.                                           *)
UiStart ==
  /\ ui = "init"
  /\ running' = TRUE
  /\ pc' = "top"
  /\ ui' = "open"
  /\ UNCHANGED <<procVars, site, optionVars, sessionVars, cur, taskVars, inputVars>>

(* MainView::RenderToggles reads enabled for the row; a click asks for the   *)
(* opposite state, or, for a one-shot option, for one more run.              *)
UiClick(o) ==
  /\ ui = "open"
  /\ click = NoClick
  /\ clicks < MaxClicks
  /\ click' = [opt |-> o, want |-> IsOneShot(o) \/ ~enabled[o]]
  /\ clicks' = clicks + 1
  /\ UNCHANGED <<procVars, site, optionVars, workerVars, cur, running, taskVars, ui, presses>>

(* CheatOptionManager::SetEnabled and Cheat::Post, while the worker runs.    *)
UiPost ==
  /\ click # NoClick
  /\ pending' = [pending EXCEPT ![click.opt] = @ + 1]
  /\ queue' = Append(queue, click)
  /\ click' = NoClick
  /\ UNCHANGED <<procVars, site, enabled, autoOff, failed, patchVars, call, workerVars,
                 cur, running, batch, ui, clicks, presses>>

(* The window is closed: ~RestoreOnExit calls Cheat::Stop.                   *)
UiClose ==
  /\ ui = "open"
  /\ click = NoClick
  /\ running' = FALSE
  /\ ui' = "joining"
  /\ UNCHANGED <<procVars, site, optionVars, workerVars, cur, taskVars, inputVars>>

(* MUTANT of UiJoin: the thread is not waited for.                           *)
UiJoin_NoJoin ==
  /\ ui = "joining"
  /\ ui' = "tasks"
  /\ batch' = queue
  /\ queue' = <<>>
  /\ UNCHANGED <<procVars, site, optionVars, workerVars, cur, running, inputVars>>

(* MUTANT of UiJoin: tasks still queued are dropped.                         *)
UiJoin_DropsTasks ==
  /\ ui = "joining"
  /\ pc = "done"
  /\ ui' = "tasks"
  /\ batch' = <<>>
  /\ UNCHANGED <<procVars, site, optionVars, workerVars, cur, running, queue, inputVars>>

(* _thread.join(), then RunPostedTasks on this thread.                       *)
UiJoin ==
  /\ ui = "joining"
  /\ pc = "done"
  /\ ui' = "tasks"
  /\ batch' = queue
  /\ queue' = <<>>
  /\ UNCHANGED <<procVars, site, optionVars, workerVars, cur, running, inputVars>>

(* The posted tasks are done: CheatOptionManager::DisableAll begins, or has  *)
(* nothing to do without a process.                                          *)
UiTasksDone ==
  /\ ui = "tasks"
  /\ batch = <<>>
  /\ call = NoCall
  /\ ui' = IF processId = 0 THEN "exited" ELSE "disableAll"
  /\ cur' = 1
  /\ UNCHANGED <<procVars, site, optionVars, workerVars, running, taskVars, inputVars>>

(* DisableAll: the next option.                                              *)
UiDisable ==
  /\ ui = "disableAll"
  /\ call = NoCall
  /\ cur <= NumOptions
  /\ cur' = cur + 1
  /\ IF enabled[cur] /\ ~IsOneShot(cur)
     THEN SetEnabled("exit", cur, FALSE, processId, OpenHandles)
     ELSE UNCHANGED <<optionVars, site>>
  /\ UNCHANGED <<procVars, workerVars, running, taskVars, userVars>>

UiExit ==
  /\ ui = "disableAll"
  /\ call = NoCall
  /\ cur > NumOptions
  /\ ui' = "exited"
  /\ UNCHANGED <<procVars, site, optionVars, workerVars, cur, running, taskVars, inputVars>>

-----------------------------------------------------------------------------
(* RunPostedTasks, on the worker and, after it is joined, on the window's    *)
(* thread: the next task of the batch.                                       *)

RunTask ==
  /\ pc = "tasks" \/ ui = "tasks"
  /\ batch # <<>>
  /\ LET t == Head(batch)
     IN SetEnabled("task", t.opt, t.want, processId, OpenHandles)
  /\ batch' = Tail(batch)
  /\ UNCHANGED <<procVars, workerVars, cur, running, queue, userVars>>

(* A step of the call being executed, by whichever thread made it.           *)
CallStep ==
  /\ \/ ApplyPatch
     \/ FinishEnable
     \/ RestorePatch
     \/ FinishRollback
     \/ FinishDisable
  /\ UNCHANGED <<procVars, workerVars, cur, running, taskVars, userVars>>

-----------------------------------------------------------------------------
(* The worker: Cheat::Run.                                                   *)

(* MUTANT of WorkerStops: the loop is left only without a game.              *)
WorkerStops_WhenIdle ==
  /\ pc = "top"
  /\ ~running
  /\ mem = NoProc
  /\ pc' = "done"
  /\ UNCHANGED <<procVars, site, optionVars, sessionVars, cur, running, taskVars, userVars>>

(* while (_running): leaving the loop closes the handle; _processId stays.   *)
WorkerStops ==
  /\ pc = "top"
  /\ ~running
  /\ pc' = "done"
  /\ mem' = NoProc
  /\ UNCHANGED <<procVars, site, optionVars, processId, deniedPid, accessDenied,
                 foundPid, cur, running, taskVars, userVars>>

(* MUTANT of WorkerLosesGame: _processId is not reset.                       *)
WorkerLosesGame_KeepsPid ==
  /\ pc = "top"
  /\ running
  /\ mem # NoProc
  /\ ~IsAlive(mem)
  /\ mem' = NoProc
  /\ ProcessLost
  /\ pc' = "search"
  /\ UNCHANGED <<procVars, processId, deniedPid, accessDenied, foundPid, cur, running,
                 taskVars, userVars>>

(* MUTANT of WorkerLosesGame: the handle is not reset.                       *)
WorkerLosesGame_KeepsHandle ==
  /\ pc = "top"
  /\ running
  /\ mem # NoProc
  /\ ~IsAlive(mem)
  /\ processId' = 0
  /\ ProcessLost
  /\ pc' = "search"
  /\ UNCHANGED <<procVars, mem, deniedPid, accessDenied, foundPid, cur, running,
                 taskVars, userVars>>

(* The process of the handle has ended: every option forgets it.             *)
WorkerLosesGame ==
  /\ pc = "top"
  /\ running
  /\ mem # NoProc
  /\ ~IsAlive(mem)
  /\ mem' = NoProc
  /\ processId' = 0
  /\ ProcessLost
  /\ pc' = "search"
  /\ UNCHANGED <<procVars, deniedPid, accessDenied, foundPid, cur, running, taskVars, userVars>>

WorkerKeepsGame ==
  /\ pc = "top"
  /\ running
  /\ mem # NoProc => IsAlive(mem)
  /\ pc' = "search"
  /\ UNCHANGED <<procVars, site, optionVars, sessionVars, cur, running, taskVars, userVars>>

(* There is a process already, or nextSearch has not come yet.               *)
WorkerSkipsSearch ==
  /\ pc = "search"
  /\ pc' = "swap"
  /\ UNCHANGED <<procVars, site, optionVars, sessionVars, cur, running, taskVars, userVars>>

WorkerSearches ==
  /\ pc = "search"
  /\ mem = NoProc
  /\ foundPid' = FoundPid
  /\ accessDenied' = (FoundPid # 0 /\ FoundPid = deniedPid)
  /\ pc' = IF FoundPid # 0 /\ FoundPid # deniedPid THEN "open" ELSE "swap"
  /\ UNCHANGED <<procVars, site, optionVars, mem, processId, deniedPid, cur, running,
                 taskVars, userVars>>

(* Whatever has the PID by now is opened, or the PID is remembered as denied. *)
WorkerOpens ==
  /\ pc = "open"
  /\ \E h \in OpenResults(foundPid, OpenHandles) :
       IF h = NoProc
       THEN /\ deniedPid' = foundPid
            /\ accessDenied' = TRUE
            /\ UNCHANGED <<mem, processId>>
       ELSE /\ mem' = h
            /\ processId' = foundPid
            /\ UNCHANGED <<deniedPid, accessDenied>>
  /\ foundPid' = 0
  /\ pc' = "swap"
  /\ UNCHANGED <<procVars, site, optionVars, cur, running, taskVars, userVars>>

WorkerSwaps ==
  /\ pc = "swap"
  /\ batch' = queue
  /\ queue' = <<>>
  /\ pc' = "tasks"
  /\ UNCHANGED <<procVars, site, optionVars, sessionVars, cur, running, userVars>>

(* MUTANT of WorkerTasksDone: the options are counted from 0.                *)
WorkerTasksDone_FromZero ==
  /\ pc = "tasks"
  /\ batch = <<>>
  /\ call = NoCall
  /\ cur' = 0
  /\ pc' = "hotkey"
  /\ UNCHANGED <<procVars, site, optionVars, sessionVars, running, taskVars, userVars>>

WorkerTasksDone ==
  /\ pc = "tasks"
  /\ batch = <<>>
  /\ call = NoCall
  /\ cur' = 1
  /\ pc' = "hotkey"
  /\ UNCHANGED <<procVars, site, optionVars, sessionVars, running, taskVars, userVars>>

(* CheatOption::Process of option cur, first half: its hotkey.               *)
WorkerHotkey ==
  /\ pc = "hotkey"
  /\ cur <= NumOptions
  /\ cur \in HasHotkey
  /\ presses < MaxPresses
  /\ presses' = presses + 1
  /\ ToggleByHotkey(cur, processId, OpenHandles)
  /\ pc' = "tick"
  /\ UNCHANGED <<procVars, sessionVars, cur, running, taskVars, ui, click, clicks>>

WorkerNoHotkey ==
  /\ pc = "hotkey"
  /\ cur <= NumOptions
  /\ pc' = "tick"
  /\ UNCHANGED <<procVars, site, optionVars, sessionVars, cur, running, taskVars, userVars>>

(* Second half: automatic switching off, otherwise Tick of the patches.      *)
WorkerAutoOff ==
  /\ pc = "tick"
  /\ call = NoCall
  /\ AutoOff(cur, processId, OpenHandles)
  /\ cur' = cur + 1
  /\ pc' = "next"
  /\ UNCHANGED <<procVars, sessionVars, running, taskVars, userVars>>

WorkerTick ==
  /\ pc = "tick"
  /\ call = NoCall
  /\ TickPatches(cur, mem)
  /\ cur' = cur + 1
  /\ pc' = "next"
  /\ UNCHANGED <<procVars, sessionVars, running, taskVars, userVars>>

(* The next option, or sleep and start the loop again.                       *)
WorkerNext ==
  /\ pc = "next"
  /\ call = NoCall
  /\ pc' = IF cur > NumOptions THEN "top" ELSE "hotkey"
  /\ UNCHANGED <<procVars, site, optionVars, sessionVars, cur, running, taskVars, userVars>>

-----------------------------------------------------------------------------
(* After the trainer has exited nothing of it is left to move.               *)
Exited ==
  /\ ui = "exited"
  /\ UNCHANGED vars

Environment ==
  \/ \E pid \in Pids, sort \in ProcSorts : Start(pid, sort)
  \/ GameExits
  \/ \E p \in Patches : GameWrites(p)
  \/ \E o \in Options : Timer(o)

Worker ==
  \/ WorkerStops
  \/ WorkerLosesGame
  \/ WorkerKeepsGame
  \/ WorkerSkipsSearch
  \/ WorkerSearches
  \/ WorkerOpens
  \/ WorkerSwaps
  \/ WorkerTasksDone
  \/ WorkerHotkey
  \/ WorkerNoHotkey
  \/ WorkerAutoOff
  \/ WorkerTick
  \/ WorkerNext

(* What the window's thread does without waiting for its user.               *)
UiProgress ==
  \/ UiPost
  \/ UiJoin
  \/ UiTasksDone
  \/ UiDisable
  \/ UiExit

User ==
  \/ UiStart
  \/ \E o \in Options : UiClick(o)
  \/ UiClose

Next ==
  \/ Environment
  \/ Worker
  \/ RunTask
  \/ CallStep
  \/ UiProgress
  \/ User
  \/ Exited

Spec == Init /\ [][Next]_vars

(* The scheduler runs both threads (WF).  The search interval of 500 ms      *)
(* passes again and again while the loop turns every 16 ms (SF), and time    *)
(* reaches every deadline (WF).  Nothing is assumed of the user or the game. *)
Fairness ==
  /\ WF_vars(Worker)
  /\ WF_vars(RunTask)
  /\ WF_vars(CallStep)
  /\ WF_vars(UiProgress)
  /\ SF_vars(WorkerSearches)
  /\ \A o \in Options : WF_vars(Timer(o))

FairSpec == Spec /\ Fairness

-----------------------------------------------------------------------------
(* Safety.                                                                   *)

(* Number of tasks for option o in a sequence of tasks.                      *)
TasksFor(o, s) == Cardinality({i \in DOMAIN s : s[i].opt = o})

(* The busy counter of an option (IsBusy, the spinner in its row) is exactly *)
(* the number of clicks that have not been carried out: whichever thread     *)
(* runs them, however they end, none is lost, run twice or left counted.     *)
PendingMatchesQueue ==
  \A o \in Options :
    pending[o] = TasksFor(o, queue) + TasksFor(o, batch)
                 + IF call.by = "task" /\ call.opt = o THEN 1 ELSE 0

(* While the worker runs, what a patch remembers (addresses, original bytes, *)
(* "applied") belongs to the very process the worker has open: nothing is    *)
(* carried over from a game that ended to the one started after it.          *)
NoCrossInstanceState ==
  pc # "done" => \A p \in Patches : patchIn[p] \in {NoProc, mem}

(* A switch that is on, with no call at work on it, is on in the game: every *)
(* code patch stands, in the process it was applied to, and every freeze is  *)
(* active.                                                                   *)
EnabledMeansPatched ==
  \A o \in Options :
    enabled[o] /\ call.opt # o =>
      \A p \in PatchesOf(o) :
        Kind[p] # "write" =>
          /\ patchIn[p] # NoProc
          /\ Kind[p] = "code" /\ patchIn[p] = live => site[p] = "mod"

(* A switch that is off, with no call at work on it, left nothing behind: no *)
(* patch applied, no freeze active, the game's own code at every site --     *)
(* after a normal switch-off, a failed switch-on and its rollback, or the    *)
(* end of the game at any point of either.                                   *)
DisabledMeansClean ==
  \A o \in Options :
    ~enabled[o] /\ call.opt # o =>
      \A p \in PatchesOf(o) :
        /\ patchIn[p] = NoProc
        /\ Kind[p] = "code" => site[p] = "orig"

(* When the trainer has exited the game that runs has its own code: clicks   *)
(* posted before the window closed are carried out first and then undone     *)
(* with the rest.                                                            *)
CleanAtExit ==
  ui = "exited" => \A p \in Patches : Kind[p] = "code" => site[p] = "orig"

(* The deadline of an automatic switch-off never outlives the switch it      *)
(* belongs to, so it cannot switch off a later activation.                   *)
DeadlineBelongsToSwitch ==
  \A o \in Options : autoOff[o] # "none" => enabled[o]

(* The handle and the identifier the other thread reads are set and cleared  *)
(* together as far as the tasks and hotkeys of the worker can tell.          *)
PidMatchesHandle ==
  pc # "done" =>
    /\ mem = NoProc <=> processId = 0
    /\ mem # NoProc => proc[mem].pid = processId

(* Bytes remembered from one process are never written into another one: what *)
(* a patch knows of a closed game is no longer valid (patches/IPatch.h:26).  *)
BytesReturnHome == \A p \in Patches : site[p] # "alien"

(* The trainer keeps the promise of module Switchboard: clicks are carried   *)
(* out one by one in the order they were made, by the worker and after it by *)
(* the window's thread, each with its effect or a reason, and the trainer    *)
(* ends with none left and every switch off that stays on.                   *)
TaskInHand ==
  IF call.by = "task" THEN <<[opt |-> call.opt, want |-> call.step # "restore"]>> ELSE <<>>

Requests == TaskInHand \o batch \o queue

Board == INSTANCE Switchboard WITH
  Switches <- Options, OneShots <- {o \in Options : IsOneShot(o)},
  on <- enabled, reason <- failed, busy <- pending,
  requests <- Requests, closed <- ui = "exited"

ImplementsSwitchboard == Board!Spec

-----------------------------------------------------------------------------
(* Liveness.                                                                 *)

(* Every click is carried out, during the run or, at the latest, by Stop.    *)
ClicksAreServed == \A o \in Options : pending[o] > 0 ~> pending[o] = 0

(* Closing the window ends the trainer: the join and the tasks and restores  *)
(* after it all finish.                                                      *)
ShutdownCompletes == ui = "joining" ~> ui = "exited"

(* When the game ends by itself every switch goes off (README.md:224).       *)
LostGameSwitchesOff ==
  \A i \in Procs :
    mem = i /\ live # i ~> (\A o \in Options : ~enabled[o]) \/ ~running

(* A game that stays is found and opened, whatever ran before it, unless it  *)
(* was started as administrator.                                             *)
GameIsAttached ==
  \A i \in Procs :
    live = i /\ proc[i].sort = "game" /\ running
      ~> mem = i \/ live # i \/ ~running

(* A switch that has a time to stay on (autoOffMs, or the flash of a one-shot *)
(* option) goes off: the deadline is set when it goes on, reached, seen by    *)
(* the worker and answered by a switch-off that finishes, unless the game or  *)
(* the user is faster.  m_enabled itself goes down, not only the mark.        *)
TimedSwitchesGoOff ==
  \A o \in Options :
    enabled[o] /\ (o \in Timed \/ IsOneShot(o)) ~> ~enabled[o] \/ ~running
=============================================================================
