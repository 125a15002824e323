----------------------------- MODULE ValuePatch -----------------------------
(***************************************************************************)
(* A value the trainer writes into the game, once or again and again        *)
(* (patches/WriteAddressPatch): the base of a module, remembered for the    *)
(* PID it was read from, and from there a chain of pointers the game        *)
(* changes while it is followed (MemoryAccess::ResolveChain), in the life   *)
(* of the worker that opens the game, loses it and finds the next one       *)
(* (core/Cheat.cpp, cheats/CheatOption.cpp).                                *)
(*                                                                          *)
(* A process is an instance, numbered from 1 in order of birth; None is 0.  *)
(***************************************************************************)
EXTENDS Integers

CONSTANTS
  GamePids,     \* the PIDs Windows hands out
  Bases,        \* the addresses the module may be loaded at
  Objects,      \* the game's objects that pointers may lead to
  Derefs,       \* dereferences of the chain: one less than its offsets
  AgainAfterStop, \* whether the PID of the last game may be given again when
                \* the worker has ended
  MaxStarts,    \* bound: games started
  MaxMoves      \* bound: pointers changed

None == 0
Root == "root"    \* the place in the module the chain starts at
Broken == "broken"  \* a null pointer, or a place that cannot be read

Instances == 1..MaxStarts
Places == Objects \cup {Root}

ASSUME ValueAssumption ==
  /\ {Derefs, MaxStarts, MaxMoves} \subseteq Nat
  /\ GamePids \subseteq Nat \ {None}
  /\ Bases \subseteq Nat \ {None}
  /\ {Root, Broken} \cap Objects = {}
  /\ AgainAfterStop \in BOOLEAN

VARIABLES
  alive,      \* the game that runs, or None
  started,    \* games started so far
  gamePid,    \* gamePid[i]: the PID of game i
  moduleAt,   \* moduleAt[i]: where game i has the module, or None
  link,       \* link[x]: where the pointer at place x leads
  held,       \* the places of the game that hold the value of the patch
  moves,
  handle,     \* the worker's handle: mem of Cheat::Run
  knownPid,   \* _processId
  stopped,    \* whether the worker has ended
  freeze,     \* m_mode = Mode::Freeze; it never changes
  active,     \* m_active
  basePid,    \* m_basePid
  modBase,    \* m_base
  doing,      \* the call under way: "nothing", "apply" or "tick"
  opened,     \* the process the call works on
  left,       \* dereferences left to do, or Derefs + 1 before the base is known
  current     \* the place the chain has come to

worldVars == <<alive, started, gamePid, moduleAt, link, held, moves>>
workerVars == <<handle, knownPid, stopped, freeze>>
patchVars == <<active, basePid, modBase>>
callVars == <<doing, opened, left, current>>
valueVars == <<worldVars, workerVars, patchVars, callVars>>

ValueTypeOK ==
  /\ alive \in {None, started} /\ started \in 0..MaxStarts
  /\ gamePid \in [Instances -> GamePids \cup {None}]
  /\ moduleAt \in [Instances -> Bases \cup {None}]
  /\ link \in [Places -> Objects \cup {Broken}]
  /\ held \subseteq Places
  /\ moves \in 0..MaxMoves
  /\ handle \in 0..started /\ knownPid \in GamePids \cup {None}
  /\ stopped \in BOOLEAN /\ freeze \in BOOLEAN
  /\ active \in BOOLEAN
  /\ basePid \in GamePids \cup {None} /\ modBase \in Bases \cup {None}
  /\ doing \in {"nothing", "apply", "tick"}
  /\ opened \in 0..started /\ (opened = None <=> doing = "nothing")
  /\ left \in 0..(Derefs + 1)
  /\ current \in Places

ValueInit ==
  /\ alive = None /\ started = 0
  /\ gamePid = [i \in Instances |-> None]
  /\ moduleAt = [i \in Instances |-> None]
  /\ link = [x \in Places |-> Broken]
  /\ held = {} /\ moves = 0
  /\ handle = None /\ knownPid = None /\ stopped = FALSE
  /\ freeze \in BOOLEAN
  /\ active = FALSE /\ basePid = None /\ modBase = None
  /\ doing = "nothing" /\ opened = None /\ left = 0 /\ current = Root

-----------------------------------------------------------------------------
(* Windows and the game.  An open handle keeps the PID from being given      *)
(* again.                                                                    *)

GameStarts(p) ==
  /\ alive = None /\ started < MaxStarts
  /\ \A i \in 1..started : gamePid[i] = p => i \notin {handle, opened}
  /\ stopped /\ p = knownPid => AgainAfterStop
  /\ started' = started + 1 /\ alive' = started + 1
  /\ gamePid' = [gamePid EXCEPT ![started + 1] = p]
  /\ link' \in [Places -> Objects \cup {Broken}]
  /\ UNCHANGED <<moduleAt, held, moves, workerVars, patchVars, callVars>>

GameCloses ==
  /\ alive # None
  /\ alive' = None
  /\ link' = [x \in Places |-> Broken] /\ held' = {}
  /\ UNCHANGED <<started, gamePid, moduleAt, moves, workerVars, patchVars, callVars>>

(* The module may be loaded some time after the start, and then stays.       *)
ModuleLoads(b) ==
  /\ alive # None /\ moduleAt[alive] = None
  /\ moduleAt' = [moduleAt EXCEPT ![alive] = b]
  /\ UNCHANGED <<alive, started, gamePid, link, held, moves, workerVars, patchVars, callVars>>

GameRelinks(x, y) ==
  /\ alive # None /\ link[x] # y /\ moves < MaxMoves
  /\ link' = [link EXCEPT ![x] = y]
  /\ moves' = moves + 1
  /\ UNCHANGED <<alive, started, gamePid, moduleAt, held, workerVars, patchVars, callVars>>

GameChangesValue(x) ==
  /\ x \in held
  /\ held' = held \ {x}
  /\ UNCHANGED <<alive, started, gamePid, moduleAt, link, moves, workerVars, patchVars, callVars>>

-----------------------------------------------------------------------------
(* The worker between two calls.                                             *)

Idle == doing = "nothing"

GameFound ==
  /\ Idle /\ ~stopped
  /\ handle = None /\ alive # None
  /\ handle' = alive /\ knownPid' = gamePid[alive]
  /\ UNCHANGED <<worldVars, stopped, freeze, patchVars, callVars>>

(* MUTANT of Reset: the base is kept for the next game.                      *)
Reset_KeepsBase == active' = FALSE /\ UNCHANGED <<basePid, modBase>>

Reset == active' = FALSE /\ basePid' = None /\ modBase' = None

(* OnProcessLost resets every patch, also of an option that is off.          *)
GameLost ==
  /\ Idle /\ ~stopped
  /\ handle # None /\ alive # handle
  /\ handle' = None /\ knownPid' = None
  /\ Reset
  /\ UNCHANGED <<worldVars, stopped, freeze, callVars>>

(* The end of Run closes the handle; _processId stays, and tasks and the     *)
(* final switching off follow on the window's thread.                        *)
WorkerEnds ==
  /\ Idle /\ ~stopped
  /\ stopped' = TRUE /\ handle' = None
  /\ UNCHANGED <<worldVars, knownPid, freeze, patchVars, callVars>>

(* The processes OpenProcess may open by the PID: the one that runs, or one  *)
(* that has ended while the worker still holds it.                           *)
Openable == {i \in {alive, handle} \ {None} : gamePid[i] = knownPid}

(* SetEnabled(false): the patch only goes quiet, or, when the process cannot *)
(* be opened any more, is reset.                                             *)
SwitchOff ==
  /\ Idle /\ active
  /\ \/ Openable # {} /\ active' = FALSE /\ UNCHANGED <<basePid, modBase>>
     \/ alive \notin Openable /\ Reset
  /\ UNCHANGED <<worldVars, workerVars, callVars>>

Call(what, h) ==
  /\ doing' = what /\ opened' = h
  /\ left' = Derefs + 1 /\ current' = Root

(* SetEnabled(true): the process is opened by its PID.                       *)
Apply ==
  /\ Idle /\ ~active
  /\ \E h \in Openable : Call("apply", h)
  /\ UNCHANGED <<worldVars, workerVars, patchVars>>

(* Tick of a freeze, on the worker's own handle.                             *)
Tick ==
  /\ Idle /\ active /\ ~stopped /\ handle # None
  /\ Call("tick", handle)
  /\ UNCHANGED <<worldVars, workerVars, patchVars>>

-----------------------------------------------------------------------------
(* WriteNow: base, chain, write.                                             *)

CallReturns ==
  /\ doing' = "nothing" /\ opened' = None
  /\ left' = 0 /\ current' = Root

(* What ModuleOrMain finds in a snapshot of the process, if there is one.    *)
SnapshotBase == IF alive = opened THEN moduleAt[opened] ELSE None

ResolveBase ==
  /\ ~Idle /\ left = Derefs + 1
  /\ IF basePid # gamePid[opened] \/ modBase = None
     THEN modBase' = SnapshotBase /\ basePid' = gamePid[opened]
     ELSE UNCHANGED <<modBase, basePid>>
  /\ IF modBase' = None
     THEN CallReturns
     ELSE left' = Derefs /\ UNCHANGED <<doing, opened, current>>
  /\ UNCHANGED <<worldVars, workerVars, active>>

(* What may stand at the place the chain has come to.  From another base it  *)
(* is anything.                                                              *)
Reads ==
  IF alive # opened THEN {Broken}
  ELSE IF modBase # moduleAt[opened] THEN Objects \cup {Broken}
  ELSE {link[current]}

(* MUTANT of FollowPointer: the last pointer is not followed.                *)
FollowPointer_StopsShort ==
  /\ ~Idle /\ left \in 1..Derefs
  /\ \E x \in Reads :
       IF x = Broken THEN CallReturns
       ELSE /\ current' = IF left > 1 \/ Derefs = 1 THEN x ELSE current
            /\ left' = left - 1 /\ UNCHANGED <<doing, opened>>
  /\ UNCHANGED <<worldVars, workerVars, patchVars>>

FollowPointer ==
  /\ ~Idle /\ left \in 1..Derefs
  /\ \E x \in Reads :
       IF x = Broken THEN CallReturns
       ELSE current' = x /\ left' = left - 1 /\ UNCHANGED <<doing, opened>>
  /\ UNCHANGED <<worldVars, workerVars, patchVars>>

WriteValue ==
  /\ ~Idle /\ left = 0
  /\ alive = opened
  /\ held' = IF modBase = moduleAt[opened] THEN held \cup {current} ELSE held
  /\ active' = freeze
  /\ CallReturns
  /\ UNCHANGED <<alive, started, gamePid, moduleAt, link, moves, workerVars, basePid, modBase>>

(* The process is gone.                                                      *)
WriteFails ==
  /\ ~Idle /\ left = 0
  /\ alive # opened
  /\ CallReturns
  /\ UNCHANGED <<worldVars, workerVars, patchVars>>

CallGoesOn == ResolveBase \/ FollowPointer \/ WriteValue \/ WriteFails

ValueOver == stopped /\ Idle /\ UNCHANGED valueVars

ValueNext ==
  \/ \E p \in GamePids : GameStarts(p)
  \/ GameCloses
  \/ \E b \in Bases : ModuleLoads(b)
  \/ \E x \in Places, y \in Objects \cup {Broken} : GameRelinks(x, y)
  \/ \E x \in Places : GameChangesValue(x)
  \/ GameFound \/ GameLost \/ WorkerEnds
  \/ SwitchOff \/ Apply \/ Tick
  \/ CallGoesOn
  \/ ValueOver

ValueSpec == ValueInit /\ [][ValueNext]_valueVars

-----------------------------------------------------------------------------
(* The base a value is written from is that of the module in the very        *)
(* process the call works on, although it is remembered only by PID: games   *)
(* end and start at any moment, a new one may get the PID of the one before, *)
(* the module may be loaded late, and the patch may be switched off when its *)
(* game ends (WriteAddressPatch.cpp:25, WriteAddressPatch.h:42).             *)
BaseIsOfThisGame == ~Idle /\ left <= Derefs => modBase = moduleAt[opened]

(* Where the chain leads now.                                                *)
Target ==
  LET reach[n \in 0..Derefs] ==
        IF n = 0 THEN Root
        ELSE IF reach[n - 1] = Broken THEN Broken ELSE link[reach[n - 1]]
  IN reach[Derefs]

(* A frozen value is written again whatever the game does with it, and moves *)
(* with the object when the game makes another one, as long as the game and  *)
(* the worker run and the chain is whole (WriteAddressPatch.h:22).           *)
FrozenIsHeld ==
  active /\ ~stopped
    ~> Target \in held \/ Target = Broken \/ ~active \/ stopped \/ alive # handle
=============================================================================
