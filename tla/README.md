# TrainerForC in TLA+

A verification development for TrainerForC, a single-player game trainer in
C++: a window with switches, a worker thread that finds the game, and patches
that the switches write into and take back out of the game's memory.  Texts
such as `core/Cheat.cpp:87` name files under `src/`.

- [1. The system](#1-the-system)
- [2. The modules and the code](#2-the-modules-and-the-code)
- [3. What is checked](#3-what-is-checked)
- [4. What is proved](#4-what-is-proved)
- [5. Where code and documentation disagree](#5-where-code-and-documentation-disagree)
- [6. What the models leave out](#6-what-the-models-leave-out)
- [7. What could come next](#7-what-could-come-next)

## 1. The system

Two threads share a list of options and a queue of tasks.

| Component | State | Operations |
|---|---|---|
| Worker (`core/Cheat.*`) | `_running`, `_processId`, `_accessDenied`, `_tasks`; local handle `mem`, `deniedPid`, `nextSearch` | `Start`, `Stop`, `Post`, `RunPostedTasks`, `Run`: notice that the game is gone, search it every 500 ms, open it, run the tasks, `Process` every option, every 16 ms |
| Option (`cheats/CheatOption.*`) | `m_enabled`, `m_autoOffPending`, `m_autoOffAt`, `m_failedAtTicks`, `m_pending`, its patches | `SetEnabled` (with `ApplyAll`, its rollback, `RestoreAll`), `Process` (hotkey, deadline, `Tick`), `OnProcessLost`, `BeginPending`/`EndPending` |
| Manager (`cheats/CheatOptionManager.*`) | the options | `SetEnabled` posts a task, `DisableAll` at exit |
| Code patches (`patches/NopPatch`, `CavePatch`, `Patch`) | `m_applied` or `originalSize`, `originalAddress`, `originalBytes`, `allocatedAddress`, cached match | `Locate`, `Apply`, `Restore`, `Reset` |
| Value patches (`patches/WriteAddressPatch`) | `m_active`, cached base | `Apply`, `Tick` (freeze), `Restore`, `Reset` |
| Memory access (`core/MemoryAccess.*`) | a handle | open by PID, `IsAlive`, `Read`, `Write`, `ScanSignature`, `ResolveChain`, `AllocNear`, `Free` |
| Relocator, assembler front end | none (pure) | move stolen instructions, turn the text of a patch into bytes |
| Window (`app/`, `ui/MainView`, `ui/UI`) | clicks of the frame, toasts, value fields | `RenderToggles`, `CollectEvents`, `WriteValueField`, the order of shutdown |
| Hotkeys, sound, console, log | key state; voices; history | `JustPressed`; `Play`; commands |

Clicks travel from the window's thread to the worker as tasks; hotkeys and
deadlines are handled by the worker itself; the window reads the options'
atomics.  On exit the window's thread joins the worker, runs the tasks left
over and calls `DisableAll` with the last PID.  The game, which nobody
controls, may end and another may start between any two of these steps.

What makes this hard:

- the game can end inside a switch-on, a rollback or a switch-off, and the
  next process may get the same PID; whatever a patch still remembers would be
  written into the wrong program;
- one patch of several can fail, and the rest must come out again;
- a click asks for an absolute state, computed from what one frame read, and
  is carried out later, after a hotkey, a deadline or another click;
- the deadline of an automatic switch-off must not reach a later activation;
- shutdown has an order: join, tasks, restore;
- a cave is installed under the feet of the game's threads by several writes;
- options may patch the same code and are switched in any order;
- values are found through pointers the game changes while they are followed,
  from a base that is remembered under a PID;
- keys, ages of failures and the list of the console are sampled while they
  change, and some services have no lock and rely on their callers' turns.

Correct means, per component: *worker* - handle and published PID agree, a
game that stays is attached, a lost game switches everything off; *option* -
on means patched, off means clean, whatever happened on the way; *queue* -
every click is carried out once, with an effect or a reason; *shutdown* -
terminates and leaves the game's own code; *cave* - a jump always leads to a
complete cave, what is in the cave does what the stolen code did, and what is
installed can be removed; *shared code* - off gives the bytes back, on is left
alone; *value* - it is written where the chain leads in this process, again and
again; *memory access* - the first occurrence is found, a cave lies within
reach, and the game may use its pages all the time; *hotkeys* - a press fires
once; *window* - a failure is told in the next frame and once; *sound and
console* - the callers do not get into each other's way.  `PROJECT.json` lists every part with its
status, and under `hazards` every line where one of these could go wrong.

## 2. The modules and the code

```
Switchboard  <-- refined by --  Trainer
TargetProcess <- CheatOption <- Trainer <- MCTrainer       TrainerProofs <- TrainerSafetyProofs
Detour  <-- refined by --  CaveHook
CaveHook, CaveCode <- MCCaveHook                           CaveHookProofs <- CaveCodeProofs
SharedSite  <- MCSharedSite <- MCMemory                    SharedSiteProofs <- ScanSignatureProofs
ScanSignature, AllocNear, ValuePatch, PageWrite <- MCMemory   MemoryProofs <- ScanSignatureProofs
Hotkey, FailureToasts, AudioService, ConsoleLog <- MCWindow   WindowProofs
```
(`<-` reads "is extended by"; a `...Proofs` module extends the modules it is
about.  MCCaveHook, MCMemory and MCWindow put parts side by side: a behaviour
moves one of them and the others rest.)

### TargetProcess
The outside as `MemoryAccess` and `GetProcessIdByProcessName` use it.  A
process is an *instance*; PIDs are given to instances and, with `PidReuse`,
given again once the process has ended **and** no handle to it is open, as
Windows does.  A handle is the instance it was opened on, so "the handle is
dead" and "another process has this PID" are different things.  `site[p]` is
what the live process holds where patch `p` writes: its own byte, the patch's,
or `"alien"` - bytes remembered from *another* process.  `OpenResults` is the
constructor of `MemoryAccess`, `IsAlive` its method.

### CheatOption
`SetEnabled` is one call of many steps, held in `call`: the caller (a task, a
hotkey, the deadline, or the exit), the option, whether it applies, rolls back
or restores, which patch is next and through which handle.  Each patch is one
step, so the game can end between any two.  `ApplyPatch`, `FinishEnable`,
`FinishRollback`, `RestorePatch` and `FinishDisable` are the loops and ends of
`ApplyAll`, `RestoreAll` and `SetEnabled`.  `patchIn[p]` holds the instance in
which `p` believes to be applied - the code has only a flag, the model
remembers which process the flag is about.  A failed write of the original
bytes (`RestoreMayFail`) lets the patch forget and the option count as off, as
the code does.

### Trainer
The two threads around CheatOption.  `pc` walks through `Cheat::Run`
(`top`, `search`, `open`, `swap`, `tasks`, then `hotkey`, `tick` and `next`
for each option); `ui` walks through the life of the window (`init`, `open`,
`joining`, then the rest of `Stop` and `DisableAll`).  A click is two steps:
`UiClick` reads the options as the frame does, `UiPost` raises the counter and
posts the task.  The snapshot of processes and `OpenProcess` are two steps as
well.  After the join the window's thread executes tasks and restores.

### Switchboard
The abstract trainer, as its user sees it: switches that are on or off, the
reason shown beside one, and the clicks that wait.  A click joins `requests` and
is served once, in its turn: the switch goes where it was asked to, or it stays
and says why (`Obeys`).  Hotkeys, deadlines and the end of the trainer move
switches without being clicked (`Unasked`); losing the game puts all of them off;
and the trainer is gone only with no request left and nothing left on.
Trainer implements it (`ImplementsSwitchboard`): `on` is `enabled`, `reason` is
`failed`, and `requests` is the task in hand followed by the batch the worker
has taken and the queue, so a task taken by the worker and one left over for the
window's thread keep their place.  A whole call of `SetEnabled`, with its
patches and its rollback, is one step of the switchboard, the one that ends it.

### CaveHook and Detour
CaveHook is `CavePatch::Apply` and `Restore` write by write: locate and read,
`AllocNear`, fill the cave, write the jump; restore the code, free the cave.
Threads of the game enter and leave the site and the cave in between; a write
over the site, or the release of a cave, with a thread on it marks the thread
as `caught`.  Detour is the abstract promise: control is diverted only to
complete blocks, and a block is released only while nothing leads to it.  Its
`target` is the site and its `complete` blocks the written caves.

### CaveCode
What `CavePatch::Apply` puts into the cave.  `SaveRegister` goes through the
operands as `FindClobberedGpRegisters` does; `Move`, `Drop`, `OutOfReach` and
`Undecodable` are `Relocate` and `Measure`, one instruction a step: an
instruction is its length, its kind of relative field and the field's value,
and `Signed` and `InRange` are the casts to fields of limited width.
`JumpBytes` is `CalculateJumpBytes`; `Assemble` and `TooLarge` place the jump
back and compare with `CAVE_SIZE`.  Addresses of a 32-bit target wrap around.
`UnderTheJump` is where the code that was stolen no longer stands: a reference to
it keeps its address (`Relocator.cpp:104`), and `NeverIntoTheJump` is about that.

### SharedSite
Code patches of several options over the same bytes.  A byte is known by who
wrote it; a patch compares the bytes of its signature (`Checks`) and overwrites
those of its site (`Site`).  `ApplyNext` needs `Located`, remembers what is
there and overwrites; `RestoreNext` writes back what it remembers whatever is
there now.  `Guarded` states what makes a registry safe: patches of two options
that overwrite a common byte each compare a byte the other overwrites.
The guarded registry is one of the parts of MCMemory.

### ScanSignature and AllocNear
Two calls of `MemoryAccess`, each a module whose variables are the function's
arguments and locals.  ScanSignature goes through the regions of a range
(`QueryRegion`, `RegionDone`), reads each in windows that overlap (`WindowRead`,
`OwnPartRead`, `NothingRead`) and lets `FindPattern` jump from anchor byte to
anchor byte inside a window (`FindHit`, `FindNothing`).  Memory is a map from
addresses to bytes and a division into readable, executable and unreadable
regions.  AllocNear asks for a free place upwards from the target by regions
(`UpTakes`, `UpSkips`), downwards by pages (`DownTakes`, `DownSkips`), then
anywhere; `IsShort` is the choice of `CavePatch::CalculateJumpBytes`.

### ValuePatch
One `WriteAddressPatch` in the life of the worker.  `ResolveBase` is
`ResolveAddress` with its base remembered per PID (`basePid`, `modBase`),
`FollowPointer` one round of `ResolveChain`, `WriteValue` and `WriteFails` the
end of `WriteNow`; `Apply`, `Tick`, `SwitchOff` and `GameLost` (with `Reset`)
are the calls of the option and of the worker.  Between any two steps the game
may move an object, write its own value, end, and be started again with any
free PID.  `held` is the set of places that hold the patch's value now.

### PageWrite
`MemoryAccess::Write` as several threads call it: `Unprotect` and `Reprotect`
are its two `VirtualProtectEx`, `WriteMemory` the write between them, and
`StaysProtected` the case that Windows refuses the first.  `own` is what the
game may do on a page, `rights` what it may do now.  `oldProtect` is what Windows
reports, the protection of the first page, and the second call sets it on all of
them.  `lenders[p]` remembers on which pages writes over page `p` began: theirs
are the protections it may have by now.

### Hotkey
`AllKeysDown` and `JustPressed`, key by key: between the reads keys go up and
down and typing begins and ends (`SetSuppressed`).  A behaviour either polls
promptly, before anything else changes, or at any pace; that the worker may be
away for seconds is the second.

### FailureToasts
One frame is `BeginFrame` (time and PID), `CollectFailure` for each option and
`RenderToasts`; the worker's `Fails` and `Succeeds` and the game come in
between.  Time is counted in units, ages are differences of the clock as in
`SecondsSinceFailure`, and `Notified` is `Notify` with its two places.  A frame
takes any time to come, as it does while the window is dragged.  `news` and
`shown` are history: the options with a failure no frame has looked at, and the
failure there was when a frame last looked.

### AudioService
`Play` of either thread in five steps (`CreateEngine`, `ReapFinishedVoices`,
`CreateSourceVoice`, `VoiceStarts` and their refusals), `VoiceEnds` for XAudio2,
and the phases of the program that decide who may play: the worker until it is
joined, and the window's thread beside it where there are value fields; then the
window's thread alone with the tasks, silence in `DisableAll`, `Shutdown`.  `met`
remembers that both threads have been in `Play` at the same time.

### ConsoleLog
`LogLine` (any thread, into `_pending`), `FrameBegins` (`FlushPending`, with both
ways of dropping old entries), `DrawItem`, and the input line with commands
that print or clear.

## 3. What is checked

| Run | Result | Question |
|---|---|---|
| `Trainer_safety` | passes, 684 k states | Do switches, patches, queue and game memory agree at every step, and is the game clean at exit? |
| `Trainer_liveness` | passes | Are clicks served, does closing end, is a lost game noticed, a running one attached, a deadline kept? |
| `CaveHook` | passes | Is every step of installing and removing a cave safe for the game's threads, does it implement Detour, and is what is in the cave right? |
| `Memory` | passes, 716 k states | Does the scan find the first occurrence, does the cave lie within a short jump, does a value go where it belongs, may the game use its pages, does any order of switching options over the same code return it and leave active ones alone? |
| `Window` | passes, 756 k states | Does a press fire once, which failures are told, do sound and log stand the other threads? |
| `Trainer_exit_reuse`, `Trainer_restore_fails`, `Trainer_denied_pid`, `CaveCode_inside`, `SharedSite_loose`, `Memory_borders`, `Window_sound` | counterexamples | section 5 |

**Trainer.**  `PendingMatchesQueue`: the busy counter is the number of
clicks not yet carried out, on whichever thread.  `NoCrossInstanceState`: while
the worker runs, patches remember only the process it has open.
`EnabledMeansPatched` and `DisabledMeansClean`: a switch with no call at work
on it tells the truth about the game.  `CleanAtExit`: the trainer leaves the
game's own code.  `DeadlineBelongsToSwitch`: no deadline without its switch.
`PidMatchesHandle`: both threads mean the same process.  `BytesReturnHome`:
bytes of one process are never written to another.  `ImplementsSwitchboard`
(a refinement): clicks are carried out once and in order, each with its effect or
a reason, whatever hotkeys, deadlines, rollbacks, lost games and closing do.
`ClicksAreServed`, `ShutdownCompletes`, `LostGameSwitchesOff`, `GameIsAttached`,
`TimedSwitchesGoOff`: what must eventually happen.  The last one asks that the
switch itself goes off, not only its mark: `Process` clears the mark first and
then restores (`CheatOption.cpp:295`).  A one-shot that is clicked again and again
stays on as long as it is; clicks and presses are bounded in the run.

**Caves and shared code.**  `JumpNeverDangling`, `OnlyCaughtThreadsCrash`,
`CleanWhenRemoved`, `RemovableWhenInstalled`, `ImplementsDetour`: section 2.
`CaveIsFaithful`: a cave that is built is entered and left at the right
addresses, refers to what the stolen code referred to outside the stolen bytes
and saves the registers the patch writes; a field that does not reach from the
cave was refused.  `NeverIntoTheJump` is the other half of what `Relocator.h`
promises, and fails (section 5).  `OffMeansOriginal`,
`OnMeansUndisturbed`: the code comes back; an active option is not disturbed.

**Memory.**  `ScanIsExact`: what a scan returns is a readable occurrence inside
the range, and none inside one region is passed over.  `ReadableIsSearched`: in
a range that is readable throughout the first is returned.  `NearIsShort`: while
there is a place in reach, the cave gets one and the jumps to it and back are
short.  `CallsEnd`: both searches end.  `BaseIsOfThisGame`: the base a value is
written from is the module's in the very process that is open.  `FrozenIsHeld`:
a frozen value is written again whatever the game does, at the place the chain
leads to by then.  `PagesAreKept`: at every moment the game may do on a page
what it gave that page, or one that writes over it began on, however writes
overlap; and if none overlap, every write finds its pages writable and leaves them
with exactly such a protection.  So a page loses rights only by a write that goes
over it and begins on a page of another kind - but then for good, although
`MemoryAccess.h:90` speaks of a change for the time of the write.

**Window.**  `FiresOncePerPress`: a press fires at most once, and not if it was
typed.  `HeldComboFires`: with prompt polls a held combination does fire.
`FailureIsNotified`: a frame looks at every failure before it, and notifies those
that are news and that it can tell from the one shown before (`TellsApart`): the
first of an option always, a later one if it is younger than the former by more
than the time the frame took to come, none twice.  A failure that comes sooner
after another is lost, which late frames make possible; the property says exactly
which.  `SoundIsSafe`: both threads are in `Play` at once only where a value field
plays while the worker runs, and as long as they have not been, no voice is lost
or destroyed twice and nothing is left at the end.  `NewestAreKept`: the newest half of the log survives,
in order.  `DrawnListStands`: the list stands still while it is drawn.

One type invariant per run: `MCTypeOK` is the conjunction of those of the
modules that are checked together.  Every property of a passing run has a
mutant - a definition changed as a plausible bug would change the code - that
violates it.

**Bounds.**  Trainer_safety: two options (two code patches with a hotkey; a
freeze with a deadline), two processes over two PIDs with reuse, two clicks, one
hotkey press.  Two processes are one change of game, the only thing state can be
carried across; two patches in one option give a rollback with something to roll
back; two clicks and a press give every pair of requests on one option and a
request on each.  Trainer_liveness takes the kinds left over (an option mixing
code and a write, a one-shot option that flashes), one click and one press, and
two PIDs without reuse.  CaveHook: three blocks, so that one can leak and
another be reused; two threads, one of which can be caught while the other
passes; two games; for the contents, every program of up to three instructions
of all kinds with fields at the ends of their range, caves above and below the
site within reach of all fields, of some and of none, in both widths.
Shared code: a pair with one signature, and an option
of two overlapping patches located by bytes further on.  Memory: six addresses,
windows of two bytes and three regions of every kind, so that windows end inside
regions, at their borders and beyond them, and a signature of three bytes
crosses two windows; ten pages, two to an allocation unit, in every combination
of free and taken ones, with targets at both ends and in the middle, and an
extent of the search that cuts the pages at both ends; two games over two PIDs
and two bases, two objects, two dereferences and one change by the game; two
pages of any protections, equal or not, alone and together, and two threads that
write.
Window: two combinations that share a key, a single key of one of them and a
hotkey without keys; two options that fail against two notifications, with lives
of three and two units within four, so that frames come in time, late and too
late; three voices, played with value fields; a console of four entries and
seven lines, so that both halves are dropped.

**Fairness.**  Both threads are scheduled (WF on the worker, the tasks, the
steps of a call and the window's progress).  `nextSearch` is a clock: the loop
turns every 16 ms and the 500 ms pass again and again although not at every
turn, hence SF on `WorkerSearches`.  Deadlines are reached (WF on `Timer`).
A scan and an allocation go on, the rounds of the worker in ValuePatch (losing
the game, `Tick`, the steps of a call) and the polls of Hotkey as well (WF each).
Nothing is assumed of the
user, of the game or of the order in which processes
start and end: the window may stay open for ever.

**Deadlock** is checked for Trainer and Memory.  CaveHook and Window
switch it off: after `MaxGames` games, a finished cave, `EndOfTime` or the end of
the program nothing is left to do.

**Parameters that pick an environment.**  `ReuseAfterStop = FALSE` and
`AgainAfterStop = FALSE` exclude that a process takes the last PID in the
moments between the end of the worker and the exit; `RestoreMayFail = FALSE`
that Windows refuses to write bytes back into a live game; `PidReuse = FALSE`
(liveness only) the reuse of PIDs.  `ValueFields = TRUE` stands for the registry as
it is (`cheats/registry/GameCheats.cpp:97`): value fields, whose button plays a
sound on the window's thread while the worker runs.
`Trainer_exit_reuse`, `Trainer_restore_fails` and `Trainer_denied_pid` (in this
order) turn one of the first ones on and show what then breaks.  With
`AgainAfterStop` `BaseIsOfThisGame` fails.

## 4. What is proved

Every theorem holds for all values of the constants: any number of options,
patches, PIDs, processes, clicks, caves, threads, addresses.  The assumptions are
those named in the modules; the essential one of the trainer is that a patch
belongs to one option and stands once in its list (`OptionAssumption`).  Every
safety property and both refinements of the passing runs are proved.

- **TrainerProofs.**  `TypeCorrect`, `HandleAndPidAgree`
  (`PidMatchesHandle`), `SessionsAreSeparate` (`NoCrossInstanceState`), and
  `HomeBytes` (`BytesReturnHome`, if `~ReuseAfterStop`).  `TypeInv` adds to the
  types that a call stays inside the list of its option and that the program
  counters of the threads fit each other.  `Session` is the argument
  proper: instances are born in order with their PID, a call made by the worker
  works through a handle on the worker's process, and while the handle is open
  its PID is nobody else's (`PidHeld`: this is where Windows' rule for handles
  enters).  Neither named property is inductive alone: opening by PID in
  `SetEnabled` returns the worker's process only because the worker's own handle
  keeps the PID from being given again.  `HomePid` carries that past the join,
  where no handle is left: if a process with the last PID is alive, every patch
  still applied was applied in it.
- **TrainerSafetyProofs.**  `DeadlinesBelong`, `EnabledIsPatched`,
  `DisabledIsClean`, `ExitIsClean` and `PendingIsExact`.  `Deadlines` adds that a
  deadline goes before its switch does.  `Switches` says of every option what
  its patches are - all applied, none, or, while a call works on it, exactly
  those the loop has passed - and `StandsModified` that an applied patch of the
  running game is at its site.  `Known` ties patches and calls to the PID the
  trainer remembers; `SitesFollow` says that a site is the game's own as soon as
  no patch remembers it, which needs `~RestoreMayFail` and `~ReuseAfterStop`, the
  two conditions of `DisabledIsClean` and `ExitIsClean`.  `Shutting` follows
  `DisableAll` through the list, and `Counted` adds to the busy counter which
  clicks are in the batch and in the call in hand.  `TrainerIsASwitchboard`
  is the refinement, action by action: most steps of the threads leave the
  switchboard alone, and what is left are the ends of a call (whose task is then
  the first request, since the worker takes batch and queue in their order), the
  clicks, the loss of the game and the exit.  It rests on three invariants:
  `Served` (nothing is queued after the last swap and the window's own turn, so
  the trainer is gone with empty hands), `NoReason` (a switch that is on has
  nothing to explain, but for one-shot options) and `OnNeedsGame` (no switch is
  on without a game, so only a loss that is noticed can drop them all).
- **CaveHookProofs.**  `TypeCorrect`, `JumpSafe`, `ThreadsSafe`,
  `RemovalIsClean`, `InstalledIsRemovable` and `CaveHookImplementsDetour`, the
  refinement.  The invariant says at each step of Apply and Restore which block
  is allocated, whether it is written and where the code leads; the
  ownership part adds who will free it, and a thread part that a thread in a
  cave that is not complete has been caught.
- **CaveCodeProofs.**  `CaveCodeTypeCorrect` and `CaveFaithful`, for all widths,
  lengths, addresses and programs.  The invariant says that what was moved so
  far is faithful, that `offset` is the end of an instruction and which
  registers are saved; the arithmetic is that a distance which fits its field is
  not changed by the cast, and that one which does not is recovered modulo 2^32
  in a 32-bit target.  `CaveTypeCorrect` is the type invariant of the run
  (`MCTypeOK`): CaveHook and CaveCode side by side, one of which rests.
- **SharedSiteProofs.**  `SiteTypeCorrect`, `OffRestoresCode` and `OnIsUndisturbed`,
  for every `Guarded` registry.  The invariant is a picture of layers: on bytes
  of an option that stands lie the marks of its own patches only, in the order
  they were applied, and each patch remembers the layer below.  `Guarded` is used
  in one place: a patch that would write on another option's byte is not located.
- **ScanSignatureProofs.**  `ScanTypeCorrect`, `ScanExact` (`ScanIsExact`, from
  `FoundStands` and `NothingOverlooked`) and `FirstIsFound`
  (`ReadableIsSearched`), for every memory, division, range, signature and window
  size.  The invariant says up to where everything has been searched: at a query
  up to the cursor, in a region up to the window, inside a window up to the
  position of `FindPattern`.  What makes a window count as searched to its end
  although only whole matches are seen is the overlap of length - 1; what makes
  the shorter read harmless is that a region to be scanned is readable.
  `ScanIsBounded` says that the scan cannot turn for ever: every step moves
  it on in the order of region, window, step and place, and each of these is
  bounded.  `MemoryTypeCorrect` is the type invariant of the whole run.
- **MemoryProofs.**  `ValueTypeCorrect` and `BaseIsRight` (`BaseIsOfThisGame`, if
  `~AgainAfterStop`): a process has its PID for itself while a handle is open on
  it (`PidsDiffer`, `KnowsHandle`), and the remembered base is the one of the
  worker's process or will be read again (`BaseKnown`).  `AllocTypeCorrect` and
  `PlaceIsShort` (`NearIsShort`): `Unpassed` says that every place in reach is
  still ahead of the probe in the direction of the search - upwards behind the
  runs passed or before the target's page, downwards below the probe - and
  `FirstFits` that a run which holds a place holds one at its first allocation
  unit, so the search does not pass it.  The range must be at least a page and a
  page more than a byte (4096 bytes and about 2 GB in the code): the loop
  downwards ends before `low` itself is probed.  `SearchIsBounded`: a number
  below twice the memory falls with every step, so both loops are left -
  upwards because a run ends behind the address queried, downwards because
  the query moves below its page.  `PageTypeCorrect` and `PagesKept`
  (`PagesAreKept`): what a call will set back is never less than the protection of
  a lender of each of its pages, and exactly that as long as no two calls have met.
- **WindowProofs.**  `HotkeyTypeCorrect`, `PressFiresOnce` (a press that was
  delivered or typed is still down and marked, `SpentIsHeld`), `SoundSafe`
  (`Turns` says which thread may be in `Play` in which phase, with value fields and
  without; `OneAtATime` what an engine and a voice in the making belong to while
  the threads have not met),
  `DrawnStands` (no command runs while the list is drawn).
  `NewestKept` (`NewestAreKept`, with `ConsoleTypeCorrect`) is a counting
  argument: lines are numbered as they are made, `InOrder` says that the
  lines of the threads stand in the order of their numbers, in the list and then
  in the queue, and `Counted` that what stands behind a line is not more than
  what was made after it.  Both ways of dropping lines drop the front and leave
  half of the capacity, so what they drop has that many newer lines behind
  it, printed ones included (`Kept`).  `FailuresNotified` (`FailureIsNotified`,
  with `ToastTypeCorrect`) is about ages: `FrameClock` says that the clock stands
  still while a frame collects, `LastLook` is when an option was last looked at, and
  `Marks` that the age remembered is that of the failure shown, at that look, and
  that a failure which is no news is the one shown.
  `WindowTypeCorrect` is the type invariant of the run, in which the parts move in
  turn.

Only model-checked, because fairness and ENABLED are out of the prover's reach,
are the liveness properties: `ClicksAreServed`, `ShutdownCompletes`,
`LostGameSwitchesOff`, `GameIsAttached`, `TimedSwitchesGoOff`, `CallsEnd`,
`FrozenIsHeld` and `HeldComboFires`.  Of `CallsEnd` the part that is safety is
proved: the measures above fall with every step, and that there is always a
next step is what the run's check for deadlock and its fairness add.

## 5. Where code and documentation disagree

- **`Trainer_exit_reuse`.**  `patches/IPatch.h:26` says that what a patch
  remembers of a closed game is no longer valid and memory is not touched.
  After `Stop` no handle pins the PID, yet tasks and `DisableAll` open the last
  `_processId` again (`cheats/CheatOptionManager.cpp:81`); a process that got
  it in the meantime has the old game's bytes written over its own.
- **`Trainer_restore_fails`.**  `cheats/CheatOptionManager.h:34` promises that
  the game's memory is returned as it was.  One failed write makes the patch
  forget (`NopPatch.cpp:56`) and the option count as off
  (`CheatOption.cpp:219`), so nothing tries again, not even `DisableAll`.
- **`Trainer_denied_pid`.**  `core/Cheat.cpp:77` calls `deniedPid` the process
  that could not be opened, but it is a bare number and never reset: a later
  game with the same PID is reported as refused without being tried.
- **`CaveCode_inside`.**  `core/Relocator.h:23-25` says that fields are recomputed
  and that an error is returned instead of spoilt code where that is impossible.
  A stolen branch into the stolen bytes themselves - a short loop at the site -
  keeps its absolute target (`core/Relocator.cpp:104-147`), which reaches and so
  is not refused: the moved branch leads into the jump to the cave or the filler
  behind it.
- **`SharedSite_loose`.**  `README.md:224` says that closing rolls back every
  cheat.  A patch that overwrites bytes its signature does not compare (past the
  end or under wildcards) can share them with another; `DisableAll` restores in
  registry order, and the second option puts the first one's bytes back.
- **`Memory_borders`.**  `core/MemoryAccess.h:122-124` says that unreadable
  parts are skipped and a match across a border of regions is found too.  The
  last window of a region reaches a whole chunk past it; if any byte of that
  stretch is unreadable, only the region's own bytes are searched
  (`core/MemoryAccess.cpp:289`), and a match that crosses into a readable next
  region is lost.  A module's image, which is readable throughout, is not
  affected (`FirstIsFound`).
- **`Window_sound`.**  `platform/AudioService.h:21-22` says that two sounds in a
  row no longer cut each other off, XAudio2 mixes them properly.  `Play` takes no
  lock (`AudioService.cpp:236`), and the button of a value field calls it on the
  window's thread while the worker plays the sound of a hotkey: both find no
  engine, both start one, and the one whose pointer is overwritten is never
  released.

## 6. What the models leave out

- One write to the game is one step (`WriteProcessMemory` is one call); threads
  of the game see it whole.
- In CheatOption `Apply` and `Restore` of one patch are one step; what happens
  inside a cave patch is CaveHook's subject, inside a value patch ValuePatch's.
- At most one of the modelled processes is alive at a time.  Two copies of the
  game at once would only change which one the search finds.
- In SharedSite a signature occurs once (the code takes the first match and logs
  a second), a patch never writes the byte that is there already, and
  the game ends between calls; ends in the middle are CheatOption's.
- Memory stays as it is during one scan and one allocation.  Addresses do not
  wrap around there.  `VirtualQueryEx` reports a run of pages from the queried
  page on, as Windows does, and a signature is a sequence of bytes and wildcards,
  which is what pattern and mask are together.  An executable-only scan may
  return a match that reaches into data behind the code; nothing is claimed
  against that.
- CaveCode takes instructions as Zydis decodes them.
- ValuePatch has one value and one module, which stays where it was loaded; a
  module that is unloaded and loaded elsewhere in the same process would leave a
  stale base.  A value at an absolute address needs neither base nor chain.
- In PageWrite the game does not change its protections, and `VirtualProtectEx`
  refuses or changes all pages of a write.
- FailureToasts gives every option one reason to fail, changed together with its
  mark.  Notifications of value fields are left out.
  `Notify` prolongs an equal notification where it stands in the list and erases
  the first of it for a third one (`ui/MainView.cpp:153`), which may be the one
  just prolonged; which two stay is modelled, and nothing is claimed about it.
- In AudioService what one thread has done in `Play` is seen by the other once it
  is over.
- COM is initialised by the thread that plays first and released by another; its
  count per thread belongs to Windows.
- `Post` with a stopped worker, which would run the task at once, is not reached
  by the program and not modelled.
- Exhausted memory and the exceptions it would throw, texts, wording and
  drawing are left out.  `MaxProcs`, `MaxClicks`, `MaxPresses`, `MaxGames`,
  `MaxStarts`, `MaxMoves`, `MaxVoices` and `MaxLines` only bound the runs; the
  theorems hold for all of them.

**Not modelled.**  The assembler front end (`core/Assembler.*`: text in, bytes
out, no state, through asmtk), the descriptions and the registry (tables built
before the threads start; they are the constants of the modules), the log (sinks
are registered before the worker starts and removed after it is joined), window,
layout and Direct3D (input and output only), key names and text helpers.  The
vendored ImGui, asmjit, asmtk, Zydis and stb are the larger part of `src/` and not
this program's logic.

## 7. What could come next

1. **Value fields** (`ui/MainView.cpp:563-604`): the window's own call of
   `ResolveChain` and `Write` beside the worker's, in ValuePatch, and its
   notifications in FailureToasts.
2. **Texts** (signatures, bytes, the assembler's preprocessing) as functions on
   tokens, against their definition.
3. **Measures** like those of the scan for the other things that must end: a
   call of `SetEnabled` with its rollback, `DisableAll` through the list, and
   `Stop` with the tasks left over - the safety half of `ShutdownCompletes`.
4. **A promise of the value patch** (a frozen value, wherever it lies by now, is
   the patch's at the end of every tick) which ValuePatch implements.
