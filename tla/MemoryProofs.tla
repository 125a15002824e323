---------------------------- MODULE MemoryProofs ----------------------------
(* Proofs about ValuePatch, AllocNear and PageWrite.                         *)
EXTENDS AllocNear, ValuePatch, PageWrite, WellFoundedInduction, TLAPS

-----------------------------------------------------------------------------
(* The variables of the value patch keep their types.                        *)

USE DEF None

LEMMA ValueTypeInit == ValueInit => ValueTypeOK
<1> SUFFICES ASSUME ValueInit PROVE ValueTypeOK
  OBVIOUS
<1>1. Derefs \in Nat /\ MaxStarts \in Nat /\ MaxMoves \in Nat
  BY ValueAssumption DEF ValueAssumption
<1>2. freeze \in BOOLEAN /\ stopped \in BOOLEAN /\ active \in BOOLEAN
  BY DEF ValueInit
<1>3. gamePid \in [Instances -> GamePids \cup {None}] /\ moduleAt \in [Instances -> Bases \cup {None}]
  BY DEF ValueInit
<1>4. link \in [Places -> Objects \cup {Broken}]
  BY DEF ValueInit
<1> QED
  BY <1>1, <1>2, <1>3, <1>4 DEF ValueInit, ValueTypeOK, Places

LEMMA ValueTypeStep == ValueTypeOK /\ [ValueNext]_valueVars => ValueTypeOK'
<1> SUFFICES ASSUME ValueTypeOK, [ValueNext]_valueVars PROVE ValueTypeOK'
  OBVIOUS
<1> USE ValueAssumption DEF ValueAssumption, ValueTypeOK, Instances
<1>1. ASSUME NEW p \in GamePids, GameStarts(p) PROVE ValueTypeOK'
  BY <1>1 DEF GameStarts, workerVars, patchVars, callVars
<1>2. CASE GameCloses
  BY <1>2 DEF GameCloses, workerVars, patchVars, callVars
<1>3. ASSUME NEW b \in Bases, ModuleLoads(b) PROVE ValueTypeOK'
  BY <1>3 DEF ModuleLoads, workerVars, patchVars, callVars
<1>4. ASSUME NEW x \in Places, NEW y \in Objects \cup {Broken}, GameRelinks(x, y)
      PROVE ValueTypeOK'
  BY <1>4 DEF GameRelinks, workerVars, patchVars, callVars
<1>5. ASSUME NEW x \in Places, GameChangesValue(x) PROVE ValueTypeOK'
  BY <1>5 DEF GameChangesValue, workerVars, patchVars, callVars
<1>6. CASE GameFound
  <2>1. alive \in 0..started /\ alive \in Instances
    BY <1>6 DEF GameFound
  <2>2. gamePid[alive] \in GamePids \cup {None}
    BY <2>1
  <2>3. /\ handle' = alive /\ knownPid' = gamePid[alive]
        /\ UNCHANGED <<stopped, freeze>> /\ UNCHANGED <<worldVars, patchVars, callVars>>
    BY <1>6 DEF GameFound
  <2>4. UNCHANGED <<alive, started, gamePid, moduleAt, link, held, moves>>
    BY <2>3 DEF worldVars
  <2>5. UNCHANGED <<active, basePid, modBase, doing, opened, left, current>>
    BY <2>3 DEF patchVars, callVars
  <2> QED
    BY <2>1, <2>2, <2>3, <2>4, <2>5
<1>7. CASE GameLost
  <2>1. /\ handle' = 0 /\ knownPid' = 0 /\ active' = FALSE /\ basePid' = 0 /\ modBase' = 0
        /\ UNCHANGED <<stopped, freeze>>
    BY <1>7 DEF GameLost, Reset
  <2>2. UNCHANGED <<alive, started, gamePid, moduleAt, link, held, moves, doing, opened, left, current>>
    BY <1>7 DEF GameLost, worldVars, callVars
  <2>3. 0 \in 0..started'
    BY <2>2
  <2> QED
    BY <2>1, <2>2, <2>3
<1>8. CASE WorkerEnds
  BY <1>8 DEF WorkerEnds, worldVars, patchVars, callVars
<1>9. CASE SwitchOff
  BY <1>9 DEF SwitchOff, Reset, worldVars, workerVars, callVars
<1>10. CASE Apply
  BY <1>10 DEF Apply, Call, Openable, Idle, Places, worldVars, workerVars, patchVars
<1>11. CASE Tick
  BY <1>11 DEF Tick, Call, Idle, Places, worldVars, workerVars, patchVars
<1>12. CASE ResolveBase
  <2>1. SnapshotBase \in Bases \cup {None}
    BY <1>12 DEF SnapshotBase, ResolveBase, Idle
  <2>2. gamePid[opened] \in GamePids \cup {None}
    <3>1. opened \in Instances
      BY <1>12 DEF ResolveBase, Idle
    <3> QED
      BY <3>1
  <2>3. modBase' \in Bases \cup {None} /\ basePid' \in GamePids \cup {None}
    BY <1>12, <2>1, <2>2 DEF ResolveBase
  <2> QED
    BY <1>12, <2>3 DEF ResolveBase, CallReturns, Places, Idle, worldVars, workerVars
<1>13. CASE FollowPointer
  <2>1. Reads \subseteq Objects \cup {Broken}
    BY DEF Reads
  <2> QED
    BY <1>13, <2>1 DEF FollowPointer, CallReturns, Places, worldVars, workerVars, patchVars
<1>14. CASE WriteValue
  BY <1>14 DEF WriteValue, CallReturns, Places, workerVars
<1>15. CASE WriteFails
  BY <1>15 DEF WriteFails, CallReturns, Places, worldVars, workerVars, patchVars
<1>16. CASE UNCHANGED valueVars
  BY <1>16 DEF valueVars, worldVars, workerVars, patchVars, callVars
<1> QED
  BY <1>1, <1>2, <1>3, <1>4, <1>5, <1>6, <1>7, <1>8, <1>9, <1>10, <1>11, <1>12, <1>13, <1>14,
     <1>15, <1>16 DEF ValueNext, CallGoesOn, ValueOver

(* Every variable of a value patch, the worker and the game around it keeps  *)
(* its type, for any PIDs, bases, objects and length of the chain.           *)
THEOREM ValueTypeCorrect == ValueSpec => []ValueTypeOK
BY ValueTypeInit, ValueTypeStep, PTL DEF ValueSpec

-----------------------------------------------------------------------------
(* The processes somebody may still look at: the game, the one the worker    *)
(* holds and the one the call works on.  Their PIDs are different, for an    *)
(* open handle keeps a PID from being given again.                           *)
InUse == {alive, handle, opened} \ {None}

PidsDiffer == \A i, j \in InUse : gamePid[i] = gamePid[j] => i = j

(* What the worker knows of its game, and a call of the process it opened.   *)
KnowsHandle ==
  /\ handle # None => knownPid = gamePid[handle]
  /\ ~stopped /\ handle = None => knownPid = None
  /\ stopped => handle = None
  /\ ~Idle => opened # None /\ gamePid[opened] = knownPid

(* The base was read from the process with the PID the worker knows; while a *)
(* process with this PID is in use it is that very process.                  *)
BaseKnown ==
  /\ basePid \in {None, knownPid}
  /\ modBase # None => \A i \in InUse : gamePid[i] = basePid => modBase = moduleAt[i]
  /\ ~Idle /\ left <= Derefs => modBase # None /\ basePid = gamePid[opened]

ValueInv == ValueTypeOK /\ PidsDiffer /\ KnowsHandle /\ BaseKnown

LEMMA ValueInvInit == ValueInit => ValueInv
<1> SUFFICES ASSUME ValueInit PROVE ValueInv
  OBVIOUS
<1>1. ValueTypeOK
  BY ValueTypeInit
<1>2. InUse = {}
  BY DEF ValueInit, InUse
<1> QED
  BY <1>1, <1>2 DEF ValueInv, ValueInit, PidsDiffer, KnowsHandle, BaseKnown, Idle

(* What a step leaves as it is when it touches none of these.                *)
LEMMA ValueInvKept ==
  ASSUME ValueInv, ValueTypeOK',
         UNCHANGED <<handle, opened, gamePid, moduleAt, knownPid, stopped, doing, left>>,
         UNCHANGED <<basePid, modBase>>,
         alive' \in {None, alive}
  PROVE  ValueInv'
<1>1. InUse' \subseteq InUse
  BY DEF InUse
<1>2. PidsDiffer'
  BY <1>1 DEF PidsDiffer, ValueInv
<1>3. KnowsHandle'
  BY DEF KnowsHandle, ValueInv, Idle
<1>4. BaseKnown'
  BY <1>1 DEF BaseKnown, ValueInv, Idle
<1> QED
  BY <1>2, <1>3, <1>4 DEF ValueInv

LEMMA ValueInvStep ==
  ASSUME ~AgainAfterStop, ValueInv, [ValueNext]_valueVars PROVE ValueInv'
<1> USE DEF None
<1>0. ValueTypeOK /\ ValueTypeOK' /\ PidsDiffer /\ KnowsHandle /\ BaseKnown
  BY ValueTypeStep DEF ValueInv
<1>1. ASSUME NEW p \in GamePids, GameStarts(p) PROVE ValueInv'
  <2> DEFINE n == started + 1
  <2>1. /\ alive = None /\ alive' = n
        /\ gamePid' = [gamePid EXCEPT ![n] = p]
        /\ \A i \in 1..started : gamePid[i] = p => i \notin {handle, opened}
        /\ stopped => p # knownPid
        /\ UNCHANGED <<handle, opened, moduleAt, knownPid, stopped, doing, left>>
        /\ UNCHANGED <<basePid, modBase>>
    BY <1>1 DEF GameStarts, workerVars, patchVars, callVars
  <2>2. n \in Instances /\ n \notin {handle, opened} /\ n # None
    <3>1. started \in 0..MaxStarts /\ handle \in 0..started /\ opened \in 0..started
      BY <1>0 DEF ValueTypeOK
    <3>2. started < MaxStarts /\ MaxStarts \in Nat
      BY <1>1, ValueAssumption DEF GameStarts, ValueAssumption
    <3> QED
      BY <3>1, <3>2 DEF Instances
  <2>3. \A i \in {handle, opened} \ {None} : i \in 1..started /\ i \in Instances /\ i # n
    <3>1. started \in 0..MaxStarts /\ handle \in 0..started /\ opened \in 0..started
      BY <1>0 DEF ValueTypeOK
    <3> QED
      BY <3>1, ValueAssumption DEF Instances, ValueAssumption
  <2>4. \A i \in {handle, opened} \ {None} : gamePid'[i] = gamePid[i] /\ gamePid[i] # p
    BY <2>1, <2>2, <2>3, <1>0 DEF ValueTypeOK
  <2>5. gamePid'[n] = p
    BY <2>1, <2>2, <1>0 DEF ValueTypeOK
  <2>6. InUse' = {n} \cup ({handle, opened} \ {None})
    BY <2>1, <2>2 DEF InUse
  <2>7. {handle, opened} \ {None} \subseteq InUse
    BY DEF InUse
  <2>8. PidsDiffer'
    BY <2>4, <2>5, <2>6, <2>7, <1>0 DEF PidsDiffer
  <2>9. KnowsHandle'
    BY <2>1, <2>4, <1>0 DEF KnowsHandle, Idle
  <2>10. basePid # None => p # basePid
    <3> SUFFICES ASSUME basePid # None PROVE p # basePid
      OBVIOUS
    <3>1. basePid = knownPid
      BY <1>0 DEF BaseKnown
    <3>2. CASE stopped
      BY <3>1, <3>2, <2>1
    <3>3. CASE ~stopped
      <4>1. handle # None /\ knownPid = gamePid[handle]
        BY <3>1, <3>3, <1>0 DEF KnowsHandle
      <4> QED
        BY <3>1, <4>1, <2>4
    <3> QED
      BY <3>2, <3>3, <1>0 DEF ValueTypeOK
  <2>11. p # None
    BY ValueAssumption DEF ValueAssumption
  <2>12. BaseKnown'
    <3>1. (basePid \in {None, knownPid})'
      BY <2>1, <1>0 DEF BaseKnown
    <3>2. ASSUME modBase # None, NEW i \in InUse', gamePid'[i] = basePid
          PROVE  modBase = moduleAt[i]
      <4>1. i # n
        BY <3>2, <2>5, <2>10, <2>11
      <4>2. i \in {handle, opened} \ {None}
        BY <4>1, <2>6
      <4> QED
        BY <3>2, <4>2, <2>4, <2>7, <1>0 DEF BaseKnown
    <3>3. (~Idle /\ left <= Derefs => modBase # None /\ basePid = gamePid[opened])'
      BY <2>1, <2>4, <1>0 DEF BaseKnown, Idle, KnowsHandle
    <3> QED
      BY <3>1, <3>2, <3>3, <2>1 DEF BaseKnown
  <2> QED
    BY <2>8, <2>9, <2>12, <1>0 DEF ValueInv
<1>2. CASE GameCloses
  BY <1>0, <1>2, ValueInvKept DEF GameCloses, workerVars, patchVars, callVars
<1>3. ASSUME NEW b \in Bases, ModuleLoads(b) PROVE ValueInv'
  <2>1. /\ alive # None /\ moduleAt[alive] = None
        /\ moduleAt' = [moduleAt EXCEPT ![alive] = b]
        /\ UNCHANGED <<alive, handle, opened, gamePid, knownPid, stopped, doing, left>>
        /\ UNCHANGED <<basePid, modBase>>
    BY <1>3 DEF ModuleLoads, workerVars, patchVars, callVars
  <2>2. InUse' = InUse /\ alive \in InUse
    BY <2>1 DEF InUse
  <2>3. PidsDiffer' /\ KnowsHandle'
    BY <2>1, <2>2, <1>0 DEF PidsDiffer, KnowsHandle, Idle
  <2>4. modBase # None => gamePid[alive] # basePid
    BY <2>1, <2>2, <1>0 DEF BaseKnown
  <2>5. \A i \in InUse : i # alive => moduleAt'[i] = moduleAt[i]
    <3>1. \A i \in InUse : i \in Instances
      BY <1>0, ValueAssumption DEF InUse, ValueTypeOK, Instances, ValueAssumption
    <3> QED
      BY <3>1, <2>1, <1>0 DEF ValueTypeOK
  <2>6. BaseKnown'
    BY <2>1, <2>2, <2>4, <2>5, <1>0 DEF BaseKnown, Idle
  <2> QED
    BY <2>3, <2>6, <1>0 DEF ValueInv
<1>4. ASSUME NEW x \in Places, NEW y \in Objects \cup {Broken}, GameRelinks(x, y)
      PROVE ValueInv'
  BY <1>0, <1>4, ValueInvKept DEF GameRelinks, workerVars, patchVars, callVars
<1>5. ASSUME NEW x \in Places, GameChangesValue(x) PROVE ValueInv'
  BY <1>0, <1>5, ValueInvKept DEF GameChangesValue, workerVars, patchVars, callVars
<1>6. CASE GameFound
  <2>1. /\ Idle /\ ~stopped /\ handle = None /\ alive # None
        /\ handle' = alive /\ knownPid' = gamePid[alive]
        /\ UNCHANGED <<alive, opened, gamePid, moduleAt, stopped, doing, left>>
        /\ UNCHANGED <<basePid, modBase>>
    BY <1>6 DEF GameFound, worldVars, patchVars, callVars
  <2>2. InUse' = InUse
    BY <2>1 DEF InUse
  <2>3. basePid = None
    BY <2>1, <1>0 DEF BaseKnown, KnowsHandle
  <2>4. PidsDiffer' /\ KnowsHandle'
    BY <2>1, <2>2, <1>0 DEF PidsDiffer, KnowsHandle, Idle
  <2>5. BaseKnown'
    BY <2>1, <2>2, <2>3, <1>0 DEF BaseKnown, Idle
  <2> QED
    BY <2>4, <2>5, <1>0 DEF ValueInv
<1>7. CASE GameLost
  <2>1. /\ Idle /\ ~stopped
        /\ handle' = None /\ knownPid' = None /\ basePid' = None /\ modBase' = None
        /\ UNCHANGED <<alive, opened, gamePid, moduleAt, stopped, doing, left>>
    BY <1>7 DEF GameLost, Reset, worldVars, callVars
  <2>2. InUse' \subseteq InUse
    BY <2>1 DEF InUse
  <2>3. PidsDiffer' /\ KnowsHandle'
    BY <2>1, <2>2, <1>0 DEF PidsDiffer, KnowsHandle, Idle
  <2>4. BaseKnown'
    BY <2>1 DEF BaseKnown, Idle
  <2> QED
    BY <2>3, <2>4, <1>0 DEF ValueInv
<1>8. CASE WorkerEnds
  <2>1. /\ Idle /\ stopped' = TRUE /\ handle' = None
        /\ UNCHANGED <<alive, opened, gamePid, moduleAt, knownPid, doing, left>>
        /\ UNCHANGED <<basePid, modBase>>
    BY <1>8 DEF WorkerEnds, worldVars, patchVars, callVars
  <2>2. InUse' \subseteq InUse
    BY <2>1 DEF InUse
  <2>3. PidsDiffer' /\ KnowsHandle'
    BY <2>1, <2>2, <1>0 DEF PidsDiffer, KnowsHandle, Idle
  <2>4. BaseKnown'
    BY <2>1, <2>2, <1>0 DEF BaseKnown, Idle
  <2> QED
    BY <2>3, <2>4, <1>0 DEF ValueInv
<1>9. CASE SwitchOff
  <2>1. /\ Idle
        /\ UNCHANGED <<alive, handle, opened, gamePid, moduleAt, knownPid, stopped, doing, left>>
        /\ \/ UNCHANGED <<basePid, modBase>>
           \/ basePid' = None /\ modBase' = None
    BY <1>9 DEF SwitchOff, Reset, worldVars, workerVars, callVars
  <2>2. InUse' = InUse
    BY <2>1 DEF InUse
  <2>3. PidsDiffer' /\ KnowsHandle'
    BY <2>1, <2>2, <1>0 DEF PidsDiffer, KnowsHandle, Idle
  <2>4. BaseKnown'
    BY <2>1, <2>2, <1>0 DEF BaseKnown, Idle
  <2> QED
    BY <2>3, <2>4, <1>0 DEF ValueInv
<1>10. ASSUME NEW h \in {alive, handle} \ {None}, NEW what \in {"apply", "tick"},
              Idle, gamePid[h] = knownPid, Call(what, h),
              UNCHANGED <<worldVars, workerVars, patchVars>>
       PROVE ValueInv'
  <2>1. /\ doing' = what /\ opened' = h /\ left' = Derefs + 1
        /\ UNCHANGED <<alive, handle, gamePid, moduleAt, knownPid, stopped>>
        /\ UNCHANGED <<basePid, modBase>>
    BY <1>10 DEF Call, worldVars, workerVars, patchVars
  <2>2. InUse' \subseteq InUse
    BY <2>1 DEF InUse
  <2>3. PidsDiffer' /\ KnowsHandle'
    BY <2>1, <2>2, <1>0, <1>10 DEF PidsDiffer, KnowsHandle, Idle
  <2>4. ~(left' <= Derefs)
    BY <2>1, ValueAssumption DEF ValueAssumption
  <2>5. BaseKnown'
    BY <2>1, <2>2, <2>4, <1>0 DEF BaseKnown, Idle
  <2> QED
    BY <2>3, <2>5, <1>0 DEF ValueInv
<1>11. CASE Apply
  <2>1. PICK h \in Openable : Call("apply", h)
    BY <1>11 DEF Apply
  <2> QED
    BY <1>11, <1>10, <2>1 DEF Apply, Openable
<1>12. CASE Tick
  BY <1>12, <1>10, <1>0 DEF Tick, KnowsHandle
<1>13. ASSUME ~Idle, doing' = "nothing", opened' = None,
              UNCHANGED <<alive, handle, gamePid, moduleAt, knownPid, stopped>>,
              UNCHANGED <<basePid, modBase>>
       PROVE ValueInv'
  <2>1. InUse' \subseteq InUse
    BY <1>13 DEF InUse
  <2>2. PidsDiffer' /\ KnowsHandle'
    BY <1>13, <2>1, <1>0 DEF PidsDiffer, KnowsHandle, Idle
  <2>3. BaseKnown'
    BY <1>13, <2>1, <1>0 DEF BaseKnown, Idle
  <2> QED
    BY <2>2, <2>3, <1>0 DEF ValueInv
<1>14. CASE ResolveBase
  <2>1. /\ ~Idle /\ left = Derefs + 1
        /\ UNCHANGED <<alive, handle, gamePid, moduleAt, knownPid, stopped>>
        /\ opened' \in {opened, None} /\ doing' \in {doing, "nothing"}
        /\ modBase' = None => doing' = "nothing"
        /\ doing' # "nothing" => opened' = opened
    BY <1>14 DEF ResolveBase, CallReturns, worldVars, workerVars
  <2>2. opened # None /\ gamePid[opened] = knownPid /\ opened \in InUse
    BY <2>1, <1>0 DEF KnowsHandle, InUse
  <2>3. InUse' \subseteq InUse
    BY <2>1 DEF InUse
  <2>4. PidsDiffer' /\ KnowsHandle'
    BY <2>1, <2>2, <2>3, <1>0 DEF PidsDiffer, KnowsHandle, Idle
  <2>5. basePid' = gamePid[opened]
    BY <1>14 DEF ResolveBase
  <2>6. modBase' # None => modBase' = moduleAt[opened]
    <3>1. CASE basePid # gamePid[opened] \/ modBase = None
      BY <1>14, <3>1 DEF ResolveBase, SnapshotBase
    <3>2. CASE ~(basePid # gamePid[opened] \/ modBase = None)
      BY <1>14, <3>2, <2>2, <1>0 DEF ResolveBase, BaseKnown
    <3> QED
      BY <3>1, <3>2
  <2>7. BaseKnown'
    <3>1. \A i \in InUse' : gamePid'[i] = basePid' => i = opened
      BY <2>1, <2>2, <2>3, <2>5, <1>0 DEF PidsDiffer
    <3> QED
      BY <3>1, <2>1, <2>2, <2>5, <2>6 DEF BaseKnown, Idle
  <2> QED
    BY <2>4, <2>7, <1>0 DEF ValueInv
<1>15. CASE FollowPointer
  <2>1. PICK x \in Reads :
          IF x = Broken THEN CallReturns
          ELSE current' = x /\ left' = left - 1 /\ UNCHANGED <<doing, opened>>
    BY <1>15 DEF FollowPointer
  <2>2. CASE x = Broken
    BY <1>15, <1>13, <2>1, <2>2 DEF FollowPointer, CallReturns, worldVars, workerVars, patchVars
  <2>3. CASE x # Broken
    <3>1. /\ ~Idle /\ left \in 1..Derefs
          /\ UNCHANGED <<alive, handle, opened, gamePid, moduleAt, knownPid, stopped, doing>>
          /\ UNCHANGED <<basePid, modBase>>
      BY <1>15, <2>1, <2>3 DEF FollowPointer, worldVars, workerVars, patchVars
    <3>2. left <= Derefs
      BY <3>1, ValueAssumption DEF ValueAssumption
    <3>3. InUse' = InUse
      BY <3>1 DEF InUse
    <3>4. PidsDiffer' /\ KnowsHandle'
      BY <3>1, <3>3, <1>0 DEF PidsDiffer, KnowsHandle, Idle
    <3>5. BaseKnown'
      BY <3>1, <3>2, <3>3, <1>0 DEF BaseKnown, Idle
    <3> QED
      BY <3>4, <3>5, <1>0 DEF ValueInv
  <2> QED
    BY <2>2, <2>3
<1>16. CASE WriteValue
  BY <1>16, <1>13 DEF WriteValue, CallReturns, workerVars
<1>17. CASE WriteFails
  BY <1>17, <1>13 DEF WriteFails, CallReturns, worldVars, workerVars, patchVars
<1>18. CASE UNCHANGED valueVars
  BY <1>0, <1>18, ValueInvKept DEF valueVars, worldVars, workerVars, patchVars, callVars
<1> QED
  BY <1>1, <1>2, <1>3, <1>4, <1>5, <1>6, <1>7, <1>8, <1>9, <1>11, <1>12, <1>14, <1>15, <1>16,
     <1>17, <1>18 DEF ValueNext, CallGoesOn, ValueOver

(* The base a value is written from is that of the module in the very        *)
(* process the call works on, for any number of games, PIDs and bases, if    *)
(* no later game gets the PID of the last one after the worker's end         *)
(* (WriteAddressPatch.cpp:25).                                               *)
THEOREM BaseIsRight ==
  ASSUME ~AgainAfterStop PROVE ValueSpec => []BaseIsOfThisGame
<1>1. ValueInv => BaseIsOfThisGame
  BY DEF ValueInv, BaseIsOfThisGame, BaseKnown, KnowsHandle, InUse
<1>2. ValueInv /\ [ValueNext]_valueVars => ValueInv'
  BY ValueInvStep
<1> QED
  BY ValueInvInit, <1>1, <1>2, PTL DEF ValueSpec
-----------------------------------------------------------------------------
(* Remainders.                                                               *)

LEMMA Remainder ==
  ASSUME NEW a \in Nat, NEW g \in Nat \ {0} PROVE a % g \in Nat /\ a % g < g
OBVIOUS

LEMMA Quotient ==
  ASSUME NEW a \in Nat, NEW g \in Nat \ {0}
  PROVE  a \div g \in Nat /\ a = g * (a \div g) + (a % g)
OBVIOUS

LEMMA MultipleIsExact ==
  ASSUME NEW k \in Nat, NEW g \in Nat \ {0} PROVE (g * k) % g = 0
OBVIOUS

LEMMA ExactIsMultiple ==
  ASSUME NEW a \in Nat, NEW g \in Nat \ {0}, a % g = 0 PROVE \E k \in Nat : a = g * k
<1>1. a \div g \in Nat /\ a = g * (a \div g) + (a % g)
  BY Quotient
<1>2. PICK k \in Nat : a = g * k + (a % g)
  BY <1>1
<1>3. g * k \in Nat
  OBVIOUS
<1>4. a = g * k
  BY <1>2, <1>3
<1> QED
  BY <1>4

(* A number without its remainder is a multiple.                             *)
LEMMA RoundedIsExact ==
  ASSUME NEW a \in Nat, NEW g \in Nat \ {0} PROVE (a - (a % g)) % g = 0
<1>1. a - (a % g) = g * (a \div g)
  BY Quotient, Remainder
<1> QED
  BY <1>1, MultipleIsExact, Quotient

(* Between two multiples there is a whole unit.                              *)
LEMMA MultiplesApart ==
  ASSUME NEW a \in Nat, NEW b \in Nat, NEW g \in Nat \ {0},
         a % g = 0, b % g = 0, b < a
  PROVE  b + g <= a
<1>1. PICK p \in Nat : a = g * p
  BY ExactIsMultiple
<1>2. PICK q \in Nat : b = g * q
  BY ExactIsMultiple
<1>3. q < p
  BY <1>1, <1>2
<1>4. q + 1 <= p /\ q + 1 \in Nat
  BY <1>3
<1>5. g * (q + 1) <= g * p
  BY <1>4
<1>6. g * (q + 1) = g * q + g
  OBVIOUS
<1> QED
  BY <1>1, <1>2, <1>5, <1>6

LEMMA Associates ==
  ASSUME NEW g \in Nat, NEW p \in Nat, NEW q \in Nat
  PROVE  (g * p) * q = g * (p * q) /\ p * q \in Nat
OBVIOUS

LEMMA MultipleOfMultiple ==
  ASSUME NEW a \in Nat, NEW h \in Nat \ {0}, NEW g \in Nat \ {0}, a % h = 0, h % g = 0
  PROVE  a % g = 0
<1>1. PICK q \in Nat : a = h * q
  BY ExactIsMultiple
<1>2. PICK p \in Nat : h = g * p
  BY ExactIsMultiple
<1>3. a = (g * p) * q
  BY <1>1, <1>2
<1>4. a = g * (p * q) /\ p * q \in Nat
  BY <1>3, Associates
<1>5. PICK k \in Nat : a = g * k
  BY <1>4
<1> QED
  BY <1>5, MultipleIsExact

-----------------------------------------------------------------------------
(* A set of numbers that is not empty has a least one.                       *)

Smaller == {pair \in Nat \X Nat : pair[1] < pair[2]}

LEMMA LeastNumber ==
  ASSUME NEW S, S \subseteq Nat, S # {} PROVE \E x \in S : \A y \in S : x <= y
<1>1. IsWellFoundedOn(Smaller, Nat)
  BY NatLessThanWellFounded DEF OpToRel, Smaller
<1>2. \E x \in S : \A y \in S : ~(<<y, x>> \in Smaller)
  BY <1>1, WFMin
<1>3. PICK x \in S : \A y \in S : ~(<<y, x>> \in Smaller)
  BY <1>2
<1>4. ASSUME NEW y \in S PROVE x <= y
  <2>1. x \in Nat /\ y \in Nat
    OBVIOUS
  <2>2. ~(y < x)
    BY <1>3, <2>1 DEF Smaller
  <2> QED
    BY <2>1, <2>2
<1> QED
  BY <1>4

-----------------------------------------------------------------------------
(* The memory map.                                                           *)

LEMMA AllocNumbers ==
  /\ Memory \in Nat \ {0} /\ PageSize \in Nat \ {0} /\ Granule \in Nat \ {0}
  /\ Amount \in Nat \ {0} /\ Short \in Nat \ {0} /\ RANGE \in Nat /\ Reach \in Nat
  /\ PageSize > 1 /\ RANGE >= PageSize /\ RANGE + Amount + Short <= Reach
  /\ Granule % PageSize = 0 /\ Memory % PageSize = 0
  /\ Targets \subseteq 0..(Memory - 1)
BY AllocAssumption DEF AllocAssumption

(* The page of an address.                                                   *)
LEMMA PageOf ==
  ASSUME NEW x \in 0..(Memory - 1)
  PROVE  /\ x - (x % PageSize) \in Pages
         /\ x - (x % PageSize) <= x /\ x < x - (x % PageSize) + PageSize
<1>1. x \in Nat /\ x % PageSize \in Nat /\ x % PageSize < PageSize
  BY Remainder, AllocNumbers
<1>3. x % PageSize <= x
  <2>1. x \div PageSize \in Nat /\ x = PageSize * (x \div PageSize) + (x % PageSize)
    BY <1>1, Quotient, AllocNumbers
  <2>2. PageSize * (x \div PageSize) \in Nat
    BY <2>1, AllocNumbers
  <2> QED
    BY <1>1, <2>1, <2>2
<1>4. (x - (x % PageSize)) % PageSize = 0
  BY <1>1, RoundedIsExact, AllocNumbers
<1> QED
  BY <1>1, <1>3, <1>4, AllocNumbers DEF Pages

(* The run a page begins.                                                    *)
LEMMA RunEndIs ==
  ASSUME NEW p \in Pages
  PROVE  /\ RunEnd(p) \in Pages \cup {Memory}
         /\ RunEnd(p) > p
         /\ \A q \in Pages : p <= q /\ q < RunEnd(p) => (q \in free <=> p \in free)
         /\ RunEnd(p) = Memory \/ ~(RunEnd(p) \in free <=> p \in free)
<1> DEFINE S == {e \in Pages \cup {Memory} : e > p /\ (e = Memory \/ ~(e \in free <=> p \in free))}
<1>1. S \subseteq Nat /\ Memory \in S
  BY AllocNumbers DEF Pages
<1>2. PICK x \in S : \A y \in S : x <= y
  BY <1>1, LeastNumber
<1>3. ASSUME NEW q \in Pages, p <= q, q < x PROVE q \in free <=> p \in free
  <2>1. q \in Nat /\ x \in Nat /\ p \in Nat
    BY <1>1 DEF Pages
  <2>2. q = p \/ q > p
    BY <1>3, <2>1
  <2>3. q \notin S
    BY <1>2, <1>3, <2>1
  <2> QED
    BY <2>2, <2>3
<1>4. /\ x \in Pages \cup {Memory} /\ x > p
      /\ \A q \in Pages : p <= q /\ q < x => (q \in free <=> p \in free)
      /\ x = Memory \/ ~(x \in free <=> p \in free)
  BY <1>3
<1> HIDE DEF S
<1> QED
  BY <1>4 DEF RunEnd

LEMMA AlignDownIs ==
  ASSUME NEW a \in Nat
  PROVE  AlignDown(a) \in Nat /\ AlignDown(a) % Granule = 0 /\ AlignDown(a) <= a /\ a < AlignDown(a) + Granule
<1>1. a % Granule \in Nat /\ a % Granule < Granule
  BY Remainder, AllocNumbers
<1>2. a \div Granule \in Nat /\ a = Granule * (a \div Granule) + (a % Granule)
  BY Quotient, AllocNumbers
<1>3. Granule * (a \div Granule) \in Nat
  BY <1>2, AllocNumbers
<1>4. (a - (a % Granule)) % Granule = 0
  BY RoundedIsExact, AllocNumbers
<1> QED
  BY <1>1, <1>2, <1>3, <1>4, AllocNumbers DEF AlignDown

(* The first allocation unit from an address on.                             *)
LEMMA AlignUpIs ==
  ASSUME NEW a \in Nat
  PROVE  /\ AlignUp(a) \in Nat /\ AlignUp(a) % Granule = 0 /\ a <= AlignUp(a)
         /\ \A b \in Nat : b % Granule = 0 /\ a <= b => AlignUp(a) <= b
<1> DEFINE x == a + Granule - 1
<1>1. x \in Nat
  BY AllocNumbers
<1>2. /\ AlignDown(x) \in Nat /\ AlignDown(x) % Granule = 0
      /\ AlignDown(x) <= x /\ x < AlignDown(x) + Granule
  BY <1>1, AlignDownIs
<1>3. a <= AlignDown(x)
  BY <1>2, AllocNumbers
<1>4. ASSUME NEW b \in Nat, b % Granule = 0, a <= b PROVE AlignDown(x) <= b
  <2> SUFFICES ASSUME b < AlignDown(x) PROVE FALSE
    BY <1>2
  <2>1. b + Granule <= AlignDown(x)
    BY <1>2, <1>4, MultiplesApart, AllocNumbers
  <2> QED
    BY <1>2, <1>4, <2>1, AllocNumbers
<1> QED
  BY <1>2, <1>3, <1>4 DEF AlignUp

-----------------------------------------------------------------------------
(* The variables of the search keep their types.                             *)

LEMMA UsableIsPage ==
  ASSUME NEW a \in Nat, Usable(a), free \in Maps
  PROVE  a \in Pages /\ a \in free /\ a # 0
<1>1. a % PageSize = 0
  BY MultipleOfMultiple, AllocNumbers DEF Usable
<1>2. a \in Pages
  BY <1>1, AllocNumbers DEF Usable, Pages
<1>3. a \in free
  BY <1>2, AllocNumbers DEF Usable
<1>4. free \subseteq {p \in Pages : p >= Granule}
  BY AllocAssumption DEF AllocAssumption
<1> QED
  BY <1>2, <1>3, <1>4, AllocNumbers

LEMMA BaseIs ==
  ASSUME AllocTypeOK, probe < Memory
  PROVE  base \in Pages /\ base <= probe /\ probe < base + PageSize
<1>1. probe \in 0..(Memory - 1)
  BY AllocNumbers DEF AllocTypeOK
<1> QED
  BY <1>1, PageOf DEF base

(* What is put into a run of free pages fits there.                          *)
LEMMA FitsIsUsable ==
  ASSUME AllocTypeOK, NEW a \in Nat, Fits(a)
  PROVE  /\ AlignUp(a) \in Pages /\ AlignUp(a) < Memory
         /\ low <= AlignUp(a) /\ AlignUp(a) < high /\ Usable(AlignUp(a))
<1>1. AlignUp(a) \in Nat
  BY AlignUpIs
<1>2. AlignUp(a) \in Pages
  BY <1>1, UsableIsPage DEF Fits, AllocTypeOK
<1> QED
  BY <1>2, AllocNumbers DEF Fits, Pages

LEMMA NearerIs ==
  ASSUME AllocTypeOK, base \in Pages
  PROVE  Nearer \in Nat
<1>1. base \in Nat /\ RunEnd(base) \in Nat
  BY RunEndIs, AllocNumbers DEF Pages
<1>2. CASE RunEnd(base) - Amount > base
  <2>1. RunEnd(base) - Amount \in Nat
    BY <1>1, <1>2, AllocNumbers
  <2> QED
    BY <2>1, <1>2, AlignDownIs DEF Nearer
<1>3. CASE ~(RunEnd(base) - Amount > base)
  BY <1>1, <1>3 DEF Nearer
<1> QED
  BY <1>2, <1>3

(* In the searching loops the page that is looked at is one.                 *)
Below == way = "down" => probe <= target

LEMMA AllocTypeInit == AllocInit => AllocTypeOK /\ Below
BY AllocNumbers DEF AllocInit, AllocTypeOK, Below

LEMMA AllocTypeStep == AllocTypeOK /\ Below /\ [AllocNext]_allocVars => (AllocTypeOK /\ Below)'
<1> SUFFICES ASSUME AllocTypeOK, Below, [AllocNext]_allocVars PROVE (AllocTypeOK /\ Below)'
  OBVIOUS
<1>0. target \in 0..(Memory - 1) /\ probe \in 0..Memory
  BY AllocNumbers DEF AllocTypeOK
<1>1. ASSUME NEW x \in Nat, Fits(x), Give(AlignUp(x)) PROVE (AllocTypeOK /\ Below)'
  <2>1. AlignUp(x) \in 0..(Memory - 1)
    BY <1>1, FitsIsUsable, AlignUpIs, AllocNumbers
  <2> QED
    BY <1>1, <2>1 DEF Give, AllocTypeOK, Below
<1>2. CASE UpTakes
  <2>1. base \in Nat
    BY <1>2, BaseIs DEF UpTakes, Pages
  <2> QED
    BY <1>1, <1>2, <2>1 DEF UpTakes
<1>3. CASE UpSkips
  <2>1. base \in Pages
    BY <1>3, BaseIs DEF UpSkips
  <2>2. RunEnd(base) \in 0..Memory
    BY <2>1, RunEndIs, AllocNumbers DEF Pages
  <2> QED
    BY <1>3, <2>2 DEF UpSkips, AllocTypeOK, Below
<1>4. CASE UpEnds
  BY <1>0, <1>4, AllocNumbers DEF UpEnds, AllocTypeOK, Below
<1>5. probe < Memory \/ way # "down"
  BY <1>0, AllocNumbers DEF Below
<1>6. CASE DownTakes
  <2>1. base \in Pages
    BY <1>5, <1>6, BaseIs DEF DownTakes
  <2>2. base \in Nat /\ Nearer \in Nat
    BY <2>1, NearerIs DEF Pages
  <2> QED
    BY <1>1, <1>6, <2>2 DEF DownTakes
<1>7. CASE DownSkips
  <2>1. base \in Pages /\ base <= probe
    BY <1>5, <1>7, BaseIs DEF DownSkips
  <2>2. CASE base < Granule
    BY <1>7, <2>2 DEF DownSkips, AllocTypeOK, Below
  <2>3. CASE ~(base < Granule)
    <3>1. base \in Nat /\ base >= 1
      BY <2>1, <2>3, AllocNumbers DEF Pages
    <3>2. probe' = base - 1 /\ UNCHANGED <<way, free, target, block>>
      BY <1>7, <2>3 DEF DownSkips
    <3>3. probe' \in 0..Memory /\ probe' <= probe
      BY <1>0, <2>1, <3>1, <3>2, AllocNumbers
    <3>4. way = "down"
      BY <1>7 DEF DownSkips
    <3>5. probe' <= target
      BY <1>0, <3>3, <3>4 DEF Below
    <3> QED
      BY <3>2, <3>3, <3>5 DEF AllocTypeOK, Below
  <2> QED
    BY <2>2, <2>3
<1>8. CASE DownEnds
  BY <1>8 DEF DownEnds, AllocTypeOK, Below
<1>9. CASE TakeAnywhere
  BY <1>9, AllocNumbers DEF TakeAnywhere, Give, Pages, AllocTypeOK, Below
<1>10. CASE AllocDone \/ UNCHANGED allocVars
  BY <1>10 DEF AllocDone, allocVars, AllocTypeOK, Below
<1> QED
  BY <1>2, <1>3, <1>4, <1>6, <1>7, <1>8, <1>9, <1>10 DEF AllocNext

(* Every variable of the search for a place keeps its type, for any sizes of *)
(* pages and allocation units; in particular it never runs below address 0.  *)
THEOREM AllocTypeCorrect == AllocSpec => []AllocTypeOK
BY AllocTypeInit, AllocTypeStep, PTL DEF AllocSpec

-----------------------------------------------------------------------------
(* The places near the target, and the page of the target.                   *)
Fitting == {a \in Pages : low <= a /\ a < high /\ Usable(a)}

Home == target - (target % PageSize)

LEMMA RangeIs ==
  ASSUME AllocTypeOK
  PROVE  /\ target \in Nat /\ target < Memory /\ low \in Nat /\ high \in Nat
         /\ low <= target /\ target < high /\ high <= low + RANGE + RANGE
         /\ target <= low + RANGE
         /\ Home \in Pages /\ Home <= target /\ low <= Home
<1>1. target \in 0..(Memory - 1)
  BY AllocNumbers DEF AllocTypeOK
<1>2. Home \in Pages /\ Home <= target /\ target < Home + PageSize
  BY <1>1, PageOf DEF Home
<1>3. Home \in Nat
  BY <1>2 DEF Pages
<1>4. CASE target > RANGE
  BY <1>1, <1>2, <1>3, <1>4, AllocNumbers DEF low, high
<1>5. CASE ~(target > RANGE)
  BY <1>1, <1>2, <1>3, <1>5, AllocNumbers DEF low, high
<1> QED
  BY <1>4, <1>5

(* If a place in a run fits, the first unit of the run does.                 *)
LEMMA FirstFits ==
  ASSUME AllocTypeOK, NEW p \in Pages, NEW a \in Fitting,
         low <= p, p <= a, a < RunEnd(p)
  PROVE  p \in free /\ RunEnd(p) - p >= Amount /\ Fits(p)
<1> DEFINE e == RunEnd(p)
           u == AlignUp(p)
<1>1. /\ a \in Nat /\ a \in Pages /\ a % Granule = 0 /\ a + Amount <= Memory /\ a < high
      /\ p \in Nat /\ low \in Nat /\ high \in Nat
  BY RangeIs DEF Fitting, Pages, Usable
<1>2. a \in free
  BY <1>1, UsableIsPage DEF Fitting, AllocTypeOK
<1>3. /\ e \in Nat /\ e > p
      /\ \A q \in Pages : p <= q /\ q < e => (q \in free <=> p \in free)
      /\ e = Memory \/ (e \in Pages /\ ~(e \in free <=> p \in free))
  BY RunEndIs, AllocNumbers DEF Pages
<1> HIDE DEF e
<1>4. p \in free
  BY <1>1, <1>2, <1>3 DEF e
<1>5. a + Amount <= e
  <2>1. CASE e = Memory
    BY <1>1, <2>1
  <2>2. CASE e \in Pages /\ e \notin free
    <3> SUFFICES ASSUME e < a + Amount PROVE FALSE
      BY <1>1, <1>3, AllocNumbers
    <3>1. a < e
      BY DEF e
    <3>2. e + PageSize > a
      BY <3>1, <1>1, <1>3, AllocNumbers
    <3>3. e \in free
      BY <2>2, <3>2 DEF Fitting, Usable
    <3> QED
      BY <2>2, <3>3
  <2> QED
    BY <1>3, <1>4, <2>1, <2>2
<1>6. e - p >= Amount
  BY <1>1, <1>3, <1>5, AllocNumbers
<1>7. u \in Nat /\ u % Granule = 0 /\ p <= u /\ u <= a
  BY <1>1, AlignUpIs
<1> HIDE DEF u
<1>8. u + Amount <= e /\ u + Amount <= Memory
  BY <1>1, <1>3, <1>5, <1>7, AllocNumbers
<1>9. ASSUME NEW q \in Pages, q + PageSize > u, q < u + Amount PROVE q \in free
  <2>1. q \in Nat /\ q % PageSize = 0 /\ p % PageSize = 0
    BY DEF Pages
  <2>2. p <= q
    <3> SUFFICES ASSUME q < p PROVE FALSE
      BY <2>1, <1>1
    <3>1. q + PageSize <= p
      BY <1>1, <2>1, MultiplesApart, AllocNumbers
    <3> QED
      BY <1>1, <1>7, <1>9, <2>1, <3>1, AllocNumbers
  <2>3. q < e
    BY <1>3, <1>7, <1>8, <1>9, <2>1, AllocNumbers
  <2> QED
    BY <1>3, <1>4, <2>2, <2>3
<1>10. Usable(u)
  BY <1>7, <1>8, <1>9 DEF Usable
<1>11. low <= u /\ u < high
  BY <1>1, <1>7
<1>12. Fits(p)
  BY <1>10, <1>11 DEF Fits, u
<1> QED
  BY <1>4, <1>6, <1>12 DEF e

-----------------------------------------------------------------------------
(* What is left to look at.                                                  *)
Unpassed ==
  /\ way = "up" => /\ probe = target \/ (probe % PageSize = 0 /\ probe > target)
                   /\ \A a \in Fitting : a < Home \/ base <= a
  /\ way = "down" => /\ probe = target \/ (probe + 1) % PageSize = 0
                     /\ \A a \in Fitting : a <= probe
  /\ way = "anywhere" => Fitting = {}
  /\ way = "done" => Fitting = {} \/ block \in Fitting

AllocInv == AllocTypeOK /\ Below /\ Unpassed

LEMMA AllocInvInit == AllocInit => AllocInv
<1> SUFFICES ASSUME AllocInit PROVE AllocInv
  OBVIOUS
<1>1. AllocTypeOK /\ Below
  BY AllocTypeInit
<1>2. base = Home /\ Home \in Nat
  BY <1>1, RangeIs DEF AllocInit, base, Home, Pages
<1>3. \A a \in Fitting : a < Home \/ base <= a
  BY <1>2 DEF Fitting, Pages
<1> QED
  BY <1>1, <1>3 DEF AllocInv, Unpassed, AllocInit

LEMMA AllocInvStep == AllocInv /\ [AllocNext]_allocVars => AllocInv'
<1> SUFFICES ASSUME AllocInv, [AllocNext]_allocVars PROVE AllocInv'
  OBVIOUS
<1>0. AllocTypeOK /\ Below /\ Unpassed /\ (AllocTypeOK /\ Below)'
  BY AllocTypeStep DEF AllocInv
<1>a. UNCHANGED <<free, target>>
  BY DEF AllocNext, UpTakes, UpSkips, UpEnds, DownTakes, DownSkips, DownEnds, TakeAnywhere,
         AllocDone, allocVars, Give
<1>b. Fitting' = Fitting /\ Home' = Home
  BY <1>a DEF Fitting, Home, low, high, Usable
<1>c. /\ target \in Nat /\ target < Memory /\ low \in Nat /\ high \in Nat
      /\ target < high /\ Home \in Nat /\ Home <= target /\ low <= Home
      /\ probe \in Nat
  BY <1>0, RangeIs, AllocNumbers DEF Pages, AllocTypeOK
<1>d. \A a \in Fitting : a \in Nat /\ a \in Pages /\ low <= a /\ a < high /\ a < Memory /\ a # 0
  BY <1>0, UsableIsPage, AllocNumbers DEF Fitting, Pages, AllocTypeOK
<1> SUFFICES Unpassed'
  BY <1>0 DEF AllocInv
<1>1. ASSUME NEW x \in Nat, Fits(x), Give(AlignUp(x)) PROVE Unpassed'
  <2>1. AlignUp(x) \in Fitting
    BY <1>0, <1>1, FitsIsUsable DEF Fitting
  <2> QED
    BY <1>1, <1>b, <2>1 DEF Give, Unpassed
<1>2. CASE UpTakes
  <2>1. base \in Nat
    BY <1>0, <1>2, BaseIs DEF UpTakes, Pages
  <2> QED
    BY <1>1, <1>2, <2>1 DEF UpTakes
<1>3. CASE UpSkips
  <2>1. base \in Pages /\ base <= probe /\ base \in Nat
    BY <1>0, <1>3, BaseIs DEF UpSkips, Pages
  <2>2. PICK e \in Pages \cup {Memory} : e = RunEnd(base)
    BY <2>1, RunEndIs
  <2>3. e \in Nat /\ e % PageSize = 0 /\ e > base
    BY <2>1, <2>2, RunEndIs, AllocNumbers DEF Pages
  <2>4. probe' = e /\ way' = "up" /\ way = "up"
    BY <1>3, <2>2 DEF UpSkips
  <2>5. Home <= base
    <3>1. CASE probe = target
      BY <3>1, <1>c DEF base, Home
    <3>2. CASE probe % PageSize = 0 /\ probe > target
      BY <3>2, <1>c DEF base
    <3> QED
      BY <3>1, <3>2, <2>4, <1>0 DEF Unpassed
  <2>6. base' = e
    BY <2>3, <2>4 DEF base
  <2>7. ASSUME NEW a \in Fitting PROVE a < Home \/ e <= a
    <3> SUFFICES ASSUME ~(a < Home), ~(e <= a) PROVE FALSE
      OBVIOUS
    <3>1. base <= a
      BY <1>0, <2>4 DEF Unpassed
    <3>2. a < RunEnd(base)
      BY <1>d, <2>2, <2>3
    <3>3. low <= base
      BY <1>c, <2>1, <2>5
    <3>4. base \in free /\ RunEnd(base) - base >= Amount /\ Fits(base)
      BY <1>0, <2>1, <3>1, <3>2, <3>3, FirstFits
    <3> QED
      BY <1>3, <3>4 DEF UpSkips, FreeRun
  <2>8. e > target
    <3> SUFFICES ASSUME e <= target PROVE FALSE
      BY <1>c, <2>3
    <3>1. Home + PageSize <= e
      <4>1. Home % PageSize = 0 /\ Home < e
        BY <1>0, <1>c, <2>1, <2>3, <2>5, RangeIs DEF Pages
      <4> QED
        BY <4>1, <1>c, <2>3, MultiplesApart, AllocNumbers
    <3>2. target < Home + PageSize
      BY <1>0, PageOf, AllocNumbers DEF Home, AllocTypeOK
    <3> QED
      BY <1>c, <2>3, <3>1, <3>2, AllocNumbers
  <2> QED
    BY <1>b, <1>a, <2>3, <2>4, <2>6, <2>7, <2>8 DEF Unpassed
<1>4. CASE UpEnds
  <2>1. ASSUME NEW a \in Fitting PROVE a <= target
    <3>1. a < Home \/ base <= a
      BY <1>0, <1>4 DEF UpEnds, Unpassed
    <3>2. CASE a < Home
      BY <3>2, <1>c, <1>d
    <3>3. CASE base <= a
      <4>1. probe # target
        BY <1>4, <1>c, AllocNumbers DEF UpEnds
      <4>2. base = probe
        BY <4>1, <1>0, <1>4, <1>c DEF UpEnds, Unpassed, base
      <4> QED
        BY <1>4, <1>c, <1>d, <3>3, <4>2, AllocNumbers DEF UpEnds
    <3> QED
      BY <3>1, <3>2, <3>3
  <2> QED
    BY <1>4, <1>b, <2>1 DEF UpEnds, Unpassed
<1>5. way = "down" => probe < Memory
  BY <1>0, <1>c, AllocNumbers DEF Below
<1>6. CASE DownTakes
  <2>1. base \in Pages
    BY <1>0, <1>5, <1>6, BaseIs DEF DownTakes
  <2>2. base \in Nat /\ Nearer \in Nat
    BY <1>0, <2>1, NearerIs DEF Pages
  <2> QED
    BY <1>1, <1>6, <2>2 DEF DownTakes
<1>7. CASE DownSkips
  <2>1. base \in Pages /\ base <= probe /\ probe < base + PageSize /\ base \in Nat
    BY <1>0, <1>5, <1>7, BaseIs DEF DownSkips, Pages
  <2>2. ASSUME NEW a \in Fitting PROVE a < base
    <3> SUFFICES ASSUME ~(a < base) PROVE FALSE
      OBVIOUS
    <3>1. a <= probe /\ base <= a
      BY <1>0, <1>7, <1>d, <2>1 DEF DownSkips, Unpassed
    <3>2. a = base
      <4> SUFFICES ASSUME base < a PROVE FALSE
        BY <3>1, <1>d, <2>1
      <4>1. a % PageSize = 0 /\ base % PageSize = 0
        BY <1>d, <2>1 DEF Pages
      <4>2. base + PageSize <= a
        BY <1>d, <2>1, <4>1, MultiplesApart, AllocNumbers
      <4> QED
        BY <1>c, <1>d, <2>1, <3>1, <4>2, AllocNumbers
    <3>3. a < RunEnd(base)
      <4>1. RunEnd(base) > base
        BY <2>1, RunEndIs
      <4> QED
        BY <3>2, <4>1
    <3>4. base \in free /\ RunEnd(base) - base >= Amount /\ Fits(base)
      BY <1>0, <1>d, <2>1, <3>1, <3>2, <3>3, FirstFits
    <3> QED
      BY <1>7, <3>4 DEF DownSkips, FreeRun
  <2>3. CASE base < Granule
    <3>1. way' = "anywhere"
      BY <1>7, <2>3 DEF DownSkips
    <3>2. ASSUME NEW a \in Fitting PROVE FALSE
      <4>1. a < Granule /\ a \in Nat /\ 0 < a
        BY <2>1, <2>2, <2>3, <1>d, AllocNumbers
      <4>2. a % Granule = 0 /\ 0 % Granule = 0
        BY AllocNumbers DEF Fitting, Usable
      <4>3. 0 + Granule <= a
        BY <4>1, <4>2, MultiplesApart, AllocNumbers
      <4> QED
        BY <4>1, <4>3, AllocNumbers
    <3> QED
      BY <1>b, <3>1, <3>2 DEF Unpassed
  <2>4. CASE ~(base < Granule)
    <3>1. probe' = base - 1 /\ way' = "down"
      BY <1>7, <2>4 DEF DownSkips
    <3>2. \A a \in Fitting : a <= base - 1
      BY <1>d, <2>1, <2>2
    <3>3. (probe' + 1) % PageSize = 0
      BY <2>1, <3>1 DEF Pages
    <3> QED
      BY <1>b, <3>1, <3>2, <3>3 DEF Unpassed
  <2> QED
    BY <2>3, <2>4
<1>8. CASE DownEnds
  <2>1. ASSUME NEW a \in Fitting PROVE FALSE
    <3>1. a <= probe /\ probe <= low /\ low <= a
      BY <1>0, <1>8, <1>d DEF DownEnds, Unpassed
    <3>2. a = low /\ probe = a
      BY <3>1, <1>c, <1>d
    <3>3. CASE probe = target
      BY <3>2, <3>3, <1>c, <1>d, AllocNumbers DEF low
    <3>4. CASE (probe + 1) % PageSize = 0
      <4>1. a % PageSize = 0 /\ a \in Nat /\ a + 1 \in Nat
        BY <1>d DEF Pages
      <4>2. a + PageSize <= a + 1
        BY <3>2, <3>4, <4>1, MultiplesApart, AllocNumbers
      <4> QED
        BY <4>1, <4>2, AllocNumbers
    <3> QED
      BY <3>3, <3>4, <1>0, <1>8 DEF DownEnds, Unpassed
  <2> QED
    BY <1>8, <1>b, <2>1 DEF DownEnds, Unpassed
<1>9. CASE TakeAnywhere
  <2>1. way' = "done" /\ Fitting = {}
    BY <1>0, <1>9 DEF TakeAnywhere, Give, Unpassed
  <2> QED
    BY <1>b, <2>1 DEF Unpassed
<1>10. CASE AllocDone \/ UNCHANGED allocVars
  <2>1. UNCHANGED <<probe, way, block, base>>
    BY <1>10 DEF AllocDone, allocVars, base
  <2> QED
    BY <1>0, <1>a, <1>b, <2>1 DEF Unpassed
<1> QED
  BY <1>2, <1>3, <1>4, <1>6, <1>7, <1>8, <1>9, <1>10 DEF AllocNext

(* A place within RANGE of the target allows short jumps there and back.     *)
LEMMA FittingIsShort ==
  ASSUME AllocTypeOK, NEW a \in Fitting
  PROVE  /\ a # 0 /\ IsShort(target, a)
         /\ \A i, j \in 0..Amount : IsShort(a + i, target + j)
<1>1. a \in Nat /\ low <= a /\ a < high /\ a # 0
  BY UsableIsPage DEF Fitting, Pages, AllocTypeOK
<1>2. target \in Nat /\ target <= a + RANGE /\ a < target + RANGE
  BY <1>1, RangeIs, AllocNumbers DEF high
<1>3. IsShort(target, a)
  BY <1>1, <1>2, AllocNumbers DEF IsShort
<1>4. ASSUME NEW i \in 0..Amount, NEW j \in 0..Amount PROVE IsShort(a + i, target + j)
  BY <1>1, <1>2, AllocNumbers DEF IsShort
<1> QED
  BY <1>1, <1>3, <1>4

(* If there is a place within RANGE of the target, the one that is returned  *)
(* allows short jumps in both directions, for any sizes of pages, units and  *)
(* caves, any range within the reach of a jump and any free pages            *)
(* (MemoryAccess.cpp:375).                                                   *)
THEOREM PlaceIsShort == AllocSpec => []NearIsShort
<1>1. AllocInv => NearIsShort
  <2> SUFFICES ASSUME AllocInv, way = "done", Fitting # {}
               PROVE  /\ block # 0 /\ IsShort(target, block)
                      /\ \A i, j \in 0..Amount : IsShort(block + i, target + j)
    BY DEF NearIsShort, Fitting
  <2>1. block \in Fitting
    BY DEF AllocInv, Unpassed
  <2> QED
    BY <2>1, FittingIsShort DEF AllocInv
<1> QED
  BY AllocInvInit, AllocInvStep, <1>1, PTL DEF AllocSpec

-----------------------------------------------------------------------------
(* The search for a place ends: what is left of it, as a number.             *)
Left ==
  CASE way = "up"       -> 2 * Memory + 2 - probe
    [] way = "down"     -> probe + 2
    [] way = "anywhere" -> 1
    [] way = "done"     -> 0

Shortens == Left' < Left

LEMMA LeftIs ==
  ASSUME AllocTypeOK
  PROVE  /\ Left \in 0..(2 * Memory + 2)
         /\ way # "done" => Left > 0
         /\ way = "up" => Left = 2 * Memory + 2 - probe /\ Left >= Memory + 2
         /\ way = "down" => Left = probe + 2
         /\ way = "anywhere" => Left = 1
<1>1. Memory \in Nat /\ Memory > 0 /\ probe \in Nat /\ probe <= Memory
  BY AllocNumbers DEF AllocTypeOK
<1>2. CASE way = "up"
  BY <1>1, <1>2 DEF Left
<1>3. CASE way = "down"
  BY <1>1, <1>3 DEF Left
<1>4. CASE way = "anywhere"
  BY <1>1, <1>4 DEF Left
<1>5. CASE way = "done"
  BY <1>1, <1>5 DEF Left
<1> QED
  BY <1>2, <1>3, <1>4, <1>5 DEF AllocTypeOK

(* A run that is passed ends above the address that was queried.             *)
LEMMA RunEndPasses ==
  ASSUME AllocTypeOK, probe < Memory
  PROVE  RunEnd(base) \in Nat /\ RunEnd(base) > probe
<1>1. base \in Pages /\ probe < base + PageSize
  BY BaseIs
<1>2. PICK e \in Pages \cup {Memory} : e = RunEnd(base)
  BY <1>1, RunEndIs
<1>3. base \in Nat /\ base % PageSize = 0 /\ e \in Nat /\ e % PageSize = 0 /\ e > base
  BY <1>1, <1>2, RunEndIs, AllocNumbers DEF Pages
<1>4. base + PageSize <= e
  BY <1>3, MultiplesApart, AllocNumbers
<1> QED
  BY <1>1, <1>2, <1>3, <1>4, AllocNumbers DEF AllocTypeOK

LEMMA StepShortens ==
  ASSUME AllocTypeOK, Below, AllocTypeOK', AllocNext
  PROVE  Shortens \/ UNCHANGED allocVars
<1>0. /\ Memory \in Nat /\ target \in Nat /\ target < Memory
      /\ probe \in Nat /\ probe <= Memory
  BY AllocNumbers DEF AllocTypeOK
<1>1. ASSUME way # "done", NEW x, Give(x) PROVE Shortens
  <2>1. Left' = 0
    BY <1>1 DEF Give, Left
  <2> QED
    BY <1>1, <2>1, LeftIs DEF Shortens
<1>2. CASE UpTakes
  BY <1>1, <1>2 DEF UpTakes
<1>3. CASE UpSkips
  <2>1. base \in Pages /\ base <= probe /\ probe < base + PageSize
    BY <1>3, BaseIs DEF UpSkips
  <2>2. probe' = RunEnd(base) /\ way = "up" /\ way' = "up"
    BY <1>3 DEF UpSkips
  <2>3. RunEnd(base) \in Nat /\ RunEnd(base) > probe
    BY <1>3, <2>1, RunEndPasses DEF UpSkips
  <2>4. Left = 2 * Memory + 2 - probe /\ Left' = 2 * Memory + 2 - probe'
    BY <2>2, <1>0 DEF Left
  <2> QED
    BY <1>0, <2>2, <2>3, <2>4 DEF Shortens
<1>4. CASE UpEnds
  <2>1. Left >= Memory + 2 /\ Left \in Nat
    BY <1>4, LeftIs DEF UpEnds
  <2>2. Left' = target + 2
    BY <1>4 DEF UpEnds, Left
  <2> QED
    BY <1>0, <2>1, <2>2 DEF Shortens
<1>5. CASE DownTakes
  BY <1>1, <1>5 DEF DownTakes
<1>6. CASE DownSkips
  <2>1. way = "down" /\ Left = probe + 2
    BY <1>6, LeftIs DEF DownSkips
  <2>2. base \in Nat /\ base <= probe
    BY <1>0, <1>6, <2>1, BaseIs DEF Below, Pages
  <2>3. CASE base < Granule
    <3>1. Left' = 1
      BY <1>6, <2>3 DEF DownSkips, Left
    <3> QED
      BY <1>0, <2>1, <3>1 DEF Shortens
  <2>4. CASE ~(base < Granule)
    <3>1. Left' = base - 1 + 2
      BY <1>6, <2>1, <2>4 DEF DownSkips, Left
    <3> QED
      BY <1>0, <2>1, <2>2, <3>1 DEF Shortens
  <2> QED
    BY <2>3, <2>4
<1>7. CASE DownEnds
  <2>1. Left = probe + 2 /\ Left' = 1
    BY <1>7 DEF DownEnds, Left
  <2> QED
    BY <1>0, <2>1 DEF Shortens
<1>8. CASE TakeAnywhere
  BY <1>1, <1>8 DEF TakeAnywhere
<1>9. CASE AllocDone
  BY <1>9 DEF AllocDone
<1> QED
  BY <1>2, <1>3, <1>4, <1>5, <1>6, <1>7, <1>8, <1>9 DEF AllocNext

(* Every step of AllocNear brings it nearer to its end, so both its loops    *)
(* are left after at most 2 * Memory + 2 rounds, whatever is free and        *)
(* however pages and allocation units relate: upwards a region is passed as  *)
(* a whole, downwards the query moves below the page just looked at          *)
(* (MemoryAccess.cpp:361, 375).                                              *)
THEOREM SearchIsBounded ==
  AllocSpec => [](Left \in 0..(2 * Memory + 2)) /\ [][Shortens]_allocVars
<1>1. AllocTypeOK => Left \in 0..(2 * Memory + 2)
  BY LeftIs
<1>2. (AllocTypeOK /\ Below) /\ (AllocTypeOK /\ Below)' /\ [AllocNext]_allocVars
        => [Shortens]_allocVars
  BY StepShortens
<1> QED
  BY AllocTypeInit, AllocTypeStep, <1>1, <1>2, PTL DEF AllocSpec

-----------------------------------------------------------------------------
(* The pages that are written to.                                            *)

(* What a call of Write knows: it sets a page back to at least what the game *)
(* may do on one of its lenders.                                             *)
SetsBack ==
  \A w \in Writers, p \in GamePages :
    Holds(w, p) => \E q \in lenders[p] : own[q] \subseteq call[w].oldProtect

(* As long as no two calls have met.                                         *)
TakingTurns ==
  ~overlapped =>
    /\ \A v, w \in Writers, p \in GamePages : Holds(v, p) /\ Holds(w, p) => v = w
    /\ \A w \in Writers, p \in GamePages :
         Holds(w, p) => rights[p] = All /\ \E q \in lenders[p] : call[w].oldProtect = own[q]
    /\ \A p \in GamePages :
         (\A w \in Writers : ~Holds(w, p)) => \E q \in lenders[p] : rights[p] = own[q]

PageInv == PageTypeOK /\ GameGoesOn /\ SetsBack /\ TakingTurns

LEMMA SpanIs ==
  ASSUME NEW s \in Spans
  PROVE  s[1] \in GamePages /\ s[1] \in Touches(s) /\ Touches(s) \subseteq GamePages
BY PageAssumption DEF PageAssumption, GamePages, Touches

LEMMA OwnIs ==
  ASSUME PageTypeOK, NEW p \in GamePages
  PROVE  own[p] \subseteq All
BY PageAssumption DEF PageAssumption, PageTypeOK

LEMMA PageInvInit == PageInit => PageInv
<1> SUFFICES ASSUME PageInit PROVE PageInv
  OBVIOUS
<1>1. PageTypeOK
  BY PageAssumption DEF PageAssumption, PageInit, PageTypeOK
<1>2. GameGoesOn
  BY DEF PageInit, GameGoesOn
<1>3. \A w \in Writers, p \in GamePages : ~Holds(w, p)
  BY DEF PageInit, Holds, NoCall
<1>4. SetsBack /\ TakingTurns
  BY <1>3 DEF SetsBack, TakingTurns, PageInit
<1> QED
  BY <1>1, <1>2, <1>4 DEF PageInv

LEMMA PageInvStep == PageInv /\ [PageNext]_pageVars => PageInv'
<1> SUFFICES ASSUME PageInv, [PageNext]_pageVars PROVE PageInv'
  OBVIOUS
<1>0. PageTypeOK /\ GameGoesOn /\ SetsBack /\ TakingTurns
  BY DEF PageInv
(* A call that begins or ends changes nothing of the others.                 *)
<1>1. ASSUME NEW w \in Writers, NEW s \in Spans, Unprotect(w, s) PROVE PageInv'
  <2>1. /\ call[w] = NoCall /\ own' = own
        /\ call' = [call EXCEPT ![w] = [at |-> "unprotected", span |-> s, oldProtect |-> rights[s[1]]]]
        /\ rights' = [p \in GamePages |-> IF p \in Touches(s) THEN All ELSE rights[p]]
        /\ overlapped' = (overlapped \/ Meets(w, s))
        /\ lenders' = [p \in GamePages |->
                         IF p \in Touches(s) THEN lenders[p] \cup lenders[s[1]] ELSE lenders[p]]
    BY <1>1, SpanIs DEF Unprotect, Enters, Protect, Lend
  <2>2. s[1] \in GamePages /\ s[1] \in Touches(s) /\ Touches(s) \subseteq GamePages
    BY SpanIs
  <2>3. PageTypeOK'
    <3>1. rights[s[1]] \in SUBSET All /\ All \in SUBSET All
      BY <1>0, <2>2 DEF PageTypeOK
    <3>2. rights' \in [GamePages -> SUBSET All]
      BY <1>0, <2>1, <3>1 DEF PageTypeOK
    <3>3. [at |-> "unprotected", span |-> s, oldProtect |-> rights[s[1]]]
            \in [at: {"unprotected", "written", "failed", "protected"},
                 span: Spans, oldProtect: SUBSET All]
      BY <3>1
    <3>4. overlapped' \in BOOLEAN
      BY <1>0, <2>1 DEF PageTypeOK, Meets
    <3>5. lenders' \in [GamePages -> SUBSET GamePages]
      BY <1>0, <2>1, <2>2 DEF PageTypeOK
    <3> QED
      BY <1>0, <2>1, <3>2, <3>3, <3>4, <3>5 DEF PageTypeOK
  <2>4. \A p \in GamePages : Holds(w, p)' <=> p \in Touches(s)
    BY <1>0, <2>1 DEF Holds, PageTypeOK
  <2>5. call'[w].oldProtect = rights[s[1]]
    BY <1>0, <2>1 DEF PageTypeOK
  <2>6. \A v \in Writers \ {w} : call'[v] = call[v]
    BY <1>0, <2>1 DEF PageTypeOK
  <2>7. \A v \in Writers \ {w}, p \in GamePages : Holds(v, p)' <=> Holds(v, p)
    BY <2>6 DEF Holds
  <2>8. \A p \in GamePages : ~Holds(w, p)
    BY <2>1 DEF Holds, NoCall
  <2>9. \A p \in GamePages : rights'[p] = IF p \in Touches(s) THEN All ELSE rights[p]
    BY <2>1
  <2>l. \A p \in GamePages :
          /\ lenders[p] \subseteq lenders'[p]
          /\ p \in Touches(s) => lenders[s[1]] \subseteq lenders'[p]
    BY <2>1
  <2>10. GameGoesOn'
    <3> SUFFICES ASSUME NEW p \in GamePages
                 PROVE  \E q \in lenders'[p] : own[q] \subseteq rights'[p]
      BY <2>1 DEF GameGoesOn
    <3>1. PICK q \in lenders[p] : own[q] \subseteq rights[p]
      BY <1>0 DEF GameGoesOn
    <3>2. q \in GamePages /\ own[q] \subseteq All
      BY <1>0, <3>1, OwnIs DEF PageTypeOK
    <3>3. q \in lenders'[p]
      BY <2>l, <3>1
    <3>4. own[q] \subseteq rights'[p]
      BY <2>9, <3>1, <3>2
    <3> QED
      BY <3>3, <3>4
  <2>11. SetsBack'
    <3>1. \E q \in lenders[s[1]] : own[q] \subseteq rights[s[1]]
      BY <1>0, <2>2 DEF GameGoesOn
    <3>2. ASSUME NEW v \in Writers, NEW p \in GamePages, Holds(v, p)'
          PROVE  \E q \in lenders'[p] : own[q] \subseteq call'[v].oldProtect
      <4>1. CASE v = w
        BY <2>4, <2>5, <2>l, <3>1, <3>2, <4>1
      <4>2. CASE v # w
        BY <1>0, <2>6, <2>7, <2>l, <3>2, <4>2 DEF SetsBack
      <4> QED
        BY <4>1, <4>2
    <3> QED
      BY <2>1, <3>2 DEF SetsBack
  <2>12. TakingTurns'
    <3> SUFFICES ASSUME ~overlapped' PROVE TakingTurns'
      BY DEF TakingTurns
    <3>1. ~overlapped /\ \A v \in Writers \ {w}, p \in Touches(s) : ~Holds(v, p)
      BY <2>1 DEF Meets
    <3>2. \E q \in lenders[s[1]] : rights[s[1]] = own[q]
      BY <1>0, <2>2, <2>8, <3>1 DEF TakingTurns
    <3>3. ASSUME NEW v \in Writers, NEW p \in GamePages, Holds(v, p)'
          PROVE  /\ \A u \in Writers : Holds(u, p)' => u = v
                 /\ rights'[p] = All
                 /\ \E q \in lenders'[p] : call'[v].oldProtect = own[q]
      <4>1. CASE v = w
        BY <2>1, <2>4, <2>5, <2>7, <2>9, <2>l, <3>1, <3>2, <3>3, <4>1
      <4>2. CASE v # w
        <5>1. Holds(v, p) /\ p \notin Touches(s)
          BY <2>7, <3>1, <3>3, <4>2
        <5>2. /\ \A u \in Writers : Holds(u, p) => u = v
              /\ rights[p] = All
              /\ \E q \in lenders[p] : call[v].oldProtect = own[q]
          BY <1>0, <3>1, <5>1 DEF TakingTurns
        <5> QED
          BY <2>4, <2>6, <2>7, <2>9, <2>l, <4>2, <5>1, <5>2
      <4> QED
        BY <4>1, <4>2
    <3>4. ASSUME NEW p \in GamePages, \A v \in Writers : ~Holds(v, p)'
          PROVE  \E q \in lenders'[p] : rights'[p] = own[q]
      <4>1. p \notin Touches(s) /\ \A v \in Writers : ~Holds(v, p)
        BY <2>4, <2>7, <2>8, <3>4
      <4>2. \E q \in lenders[p] : rights[p] = own[q]
        BY <1>0, <3>1, <4>1 DEF TakingTurns
      <4> QED
        BY <2>9, <2>l, <4>1, <4>2
    <3> QED
      BY <2>1, <3>3, <3>4 DEF TakingTurns
  <2> QED
    BY <2>3, <2>10, <2>11, <2>12 DEF PageInv
<1>2. ASSUME NEW w \in Writers, NEW s \in Spans, StaysProtected(w, s) PROVE PageInv'
  <2>1. /\ call[w] = NoCall /\ UNCHANGED <<own, rights, overlapped, lenders>>
        /\ call' = [call EXCEPT ![w] = [at |-> "protected", span |-> s, oldProtect |-> {}]]
    BY <1>2 DEF StaysProtected, Enters
  <2>2. PageTypeOK'
    BY <1>0, <2>1 DEF PageTypeOK
  <2>3. \A v \in Writers, p \in GamePages :
          /\ Holds(v, p)' <=> Holds(v, p)
          /\ Holds(v, p) => call'[v].oldProtect = call[v].oldProtect
    BY <1>0, <2>1 DEF Holds, NoCall, PageTypeOK
  <2>4. GameGoesOn' /\ SetsBack' /\ TakingTurns'
    BY <1>0, <2>1, <2>3 DEF GameGoesOn, SetsBack, TakingTurns
  <2> QED
    BY <2>2, <2>4 DEF PageInv
<1>3. ASSUME NEW w \in Writers, WriteMemory(w) PROVE PageInv'
  <2>1. PICK r \in {"written", "failed"} :
          /\ call[w].at = "unprotected" /\ UNCHANGED <<own, rights, overlapped, lenders>>
          /\ call' = [call EXCEPT ![w].at = r]
    BY <1>3 DEF WriteMemory
  <2>2. call[w] \in [at: {"unprotected", "written", "failed", "protected"},
                     span: Spans, oldProtect: SUBSET All]
    BY <1>0, <2>1 DEF PageTypeOK, NoCall
  <2>3. /\ call'[w].at = r /\ call'[w].span = call[w].span
        /\ call'[w].oldProtect = call[w].oldProtect
        /\ call'[w] \in [at: {"unprotected", "written", "failed", "protected"},
                          span: Spans, oldProtect: SUBSET All]
    BY <1>0, <2>1, <2>2 DEF PageTypeOK
  <2>4. \A v \in Writers \ {w} : call'[v] = call[v]
    BY <1>0, <2>1 DEF PageTypeOK
  <2>5. PageTypeOK'
    BY <1>0, <2>1, <2>3, <2>4 DEF PageTypeOK
  <2>6. \A v \in Writers, p \in GamePages :
          /\ Holds(v, p)' <=> Holds(v, p)
          /\ call'[v].oldProtect = call[v].oldProtect
    BY <2>1, <2>3, <2>4 DEF Holds
  <2>7. GameGoesOn' /\ SetsBack' /\ TakingTurns'
    BY <1>0, <2>1, <2>6 DEF GameGoesOn, SetsBack, TakingTurns
  <2> QED
    BY <2>5, <2>7 DEF PageInv
<1>4. ASSUME NEW w \in Writers, WriteProtected(w) PROVE PageInv'
  <2>1. /\ call[w].at = "protected" /\ UNCHANGED <<own, rights, overlapped, lenders>>
        /\ call' = [call EXCEPT ![w] = NoCall]
    BY <1>4 DEF WriteProtected
  <2>2. PageTypeOK'
    BY <1>0, <2>1 DEF PageTypeOK
  <2>3. \A v \in Writers, p \in GamePages :
          /\ Holds(v, p)' <=> Holds(v, p)
          /\ Holds(v, p) => call'[v].oldProtect = call[v].oldProtect
    BY <1>0, <2>1 DEF Holds, NoCall, PageTypeOK
  <2>4. GameGoesOn' /\ SetsBack' /\ TakingTurns'
    BY <1>0, <2>1, <2>3 DEF GameGoesOn, SetsBack, TakingTurns
  <2> QED
    BY <2>2, <2>4 DEF PageInv
<1>5. ASSUME NEW w \in Writers, Reprotect(w) PROVE PageInv'
  <2> DEFINE s == call[w].span
             old == call[w].oldProtect
  <2>1. /\ call[w].at \in {"written", "failed"} /\ UNCHANGED <<own, overlapped, lenders>>
        /\ call' = [call EXCEPT ![w] = NoCall]
        /\ rights' = [p \in GamePages |-> IF p \in Touches(s) THEN old ELSE rights[p]]
    BY <1>5 DEF Reprotect, Protect
  <2>2. s \in Spans /\ old \in SUBSET All
    BY <1>0, <2>1 DEF PageTypeOK, NoCall
  <2>3. PageTypeOK'
    BY <1>0, <2>1, <2>2 DEF PageTypeOK
  <2>4. \A p \in GamePages : Holds(w, p) <=> p \in Touches(s)
    BY <2>1 DEF Holds
  <2>5. \A p \in GamePages : ~Holds(w, p)'
    BY <1>0, <2>1 DEF Holds, NoCall, PageTypeOK
  <2>6. \A v \in Writers \ {w} : call'[v] = call[v]
    BY <1>0, <2>1 DEF PageTypeOK
  <2>7. \A v \in Writers \ {w}, p \in GamePages : Holds(v, p)' <=> Holds(v, p)
    BY <2>6 DEF Holds
  <2>8. \A p \in GamePages : rights'[p] = IF Holds(w, p) THEN old ELSE rights[p]
    BY <2>1, <2>4
  <2>9. GameGoesOn'
    BY <1>0, <2>1, <2>8 DEF GameGoesOn, SetsBack
  <2>10. SetsBack'
    BY <1>0, <2>1, <2>5, <2>6, <2>7 DEF SetsBack
  <2>11. TakingTurns'
    <3> SUFFICES ASSUME ~overlapped' PROVE TakingTurns'
      BY DEF TakingTurns
    <3>1. ASSUME NEW v \in Writers, NEW p \in GamePages, Holds(v, p)'
          PROVE  /\ \A u \in Writers : Holds(u, p)' => u = v
                 /\ rights'[p] = All
                 /\ \E q \in lenders[p] : call'[v].oldProtect = own[q]
      <4>1. v # w /\ Holds(v, p) /\ ~Holds(w, p)
        BY <1>0, <2>1, <2>5, <2>7, <3>1 DEF TakingTurns
      <4> QED
        BY <1>0, <2>1, <2>5, <2>6, <2>7, <2>8, <4>1 DEF TakingTurns
    <3>2. ASSUME NEW p \in GamePages, \A v \in Writers : ~Holds(v, p)'
          PROVE  \E q \in lenders[p] : rights'[p] = own[q]
      <4>1. CASE Holds(w, p)
        BY <1>0, <2>1, <2>8, <4>1 DEF TakingTurns
      <4>2. CASE ~Holds(w, p)
        BY <1>0, <2>1, <2>7, <2>8, <3>2, <4>2 DEF TakingTurns
      <4> QED
        BY <4>1, <4>2
    <3> QED
      BY <2>1, <3>1, <3>2 DEF TakingTurns
  <2> QED
    BY <2>3, <2>9, <2>10, <2>11 DEF PageInv
<1>6. CASE UNCHANGED pageVars
  BY <1>0, <1>6 DEF pageVars, PageInv, PageTypeOK, GameGoesOn, SetsBack, TakingTurns, Holds
<1> QED
  BY <1>1, <1>2, <1>3, <1>4, <1>5, <1>6 DEF PageNext

(* For any number of threads, pages and protections: the game may at every   *)
(* moment do what it may do on its pages; and unless two writes have met,    *)
(* every write can be made and every page gets its protection back           *)
(* (MemoryAccess.cpp:165).                                                   *)
THEOREM PagesKept == PageSpec => []PagesAreKept
<1>1. PageInv => PagesAreKept
  <2> SUFFICES ASSUME PageInv PROVE PagesAreKept
    OBVIOUS
  <2>1. PageTypeOK /\ GameGoesOn /\ TakingTurns
    BY DEF PageInv
  <2>2. ASSUME ~overlapped, NEW w \in Writers, call[w].at = "unprotected" PROVE Writable(w)
    <3>1. call[w].span \in Spans
      BY <2>1, <2>2 DEF PageTypeOK, NoCall
    <3>2. \A p \in Touches(call[w].span) : p \in GamePages /\ Holds(w, p)
      BY <2>2, <3>1, SpanIs DEF Holds
    <3> QED
      BY <2>1, <2>2, <3>2 DEF Writable, TakingTurns, All
  <2> QED
    BY <2>1, <2>2 DEF PagesAreKept, ProtectionReturns, TakingTurns
<1> QED
  BY PageInvInit, PageInvStep, <1>1, PTL DEF PageSpec

(* The variables of Write keep their types.                                  *)
THEOREM PageTypeCorrect == PageSpec => []PageTypeOK
<1>1. PageInv => PageTypeOK
  BY DEF PageInv
<1> QED
  BY PageInvInit, PageInvStep, <1>1, PTL DEF PageSpec
=============================================================================
