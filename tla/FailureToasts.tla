--------------------------- MODULE FailureToasts ---------------------------
(***************************************************************************)
(* How the window learns of what happens elsewhere (ui/MainView.cpp): every *)
(* frame CollectEvents compares the worker's PID and the age of each        *)
(* option's last failure (cheats/CheatOption.cpp) with what the frame       *)
(* before saw, and Notify and RenderToasts keep at most two notifications   *)
(* on the screen for some seconds.  Time passes in whole units between the  *)
(* frames; the worker fails and succeeds at any moment, also while a frame  *)
(* is being collected.                                                      *)
(***************************************************************************)
EXTENDS Integers, Sequences, SequencesExt

CONSTANTS
  Switches,     \* the number of options; o is the o-th of _options
  ErrorLife,    \* lifetime of a notification of a failure: 5 s
  EventLife,    \* lifetime of the other ones: 3 s
  EndOfTime,    \* bound: the last moment
  MaxGames      \* bound: changes of the PID

ASSUME ToastAssumption ==
  /\ {ErrorLife, EventLife} \subseteq Nat \ {0}
  /\ {Switches, EndOfTime, MaxGames} \subseteq Nat

VARIABLES
  now,          \* steady_clock
  pid,          \* _processId: 0 or the number of the game
  games,        \* games found so far
  failedAt,     \* m_failedAtTicks, or Never
  frame,        \* NoFrame, the option CollectEvents has come to, or Rendering
  frameAt,      \* the moment of the present frame, or of the last one
  delta,        \* io.DeltaTime of it
  lastPid,      \* _lastPid
  seen,         \* _seenFailure: the age the last frame saw, or Unseen
  toasts,       \* _toasts: what is notified, and for how long
  news,         \* history: options with a failure no frame has looked at
  shown         \* history: what failedAt was when a frame last looked at it

toastVars == <<now, pid, games, failedAt, frame, frameAt, delta, lastPid, seen,
               toasts, news, shown>>

Opts == 1..Switches
NoFrame == 0
Rendering == Switches + 1
Never == -1
Unseen == -1
Max2 == 2

(* What a notification says: the failure of an option is its number, "found" *)
(* with the PID is below zero, "closed" is zero.  An option has one reason   *)
(* to fail; with several the same would not be prolonged.                    *)
Found(g) == -g
Closed == 0

Lifetime(what) == IF what \in Opts THEN ErrorLife ELSE EventLife

(* CheatOption::SecondsSinceFailure.                                         *)
Age(o) == IF failedAt[o] = Never THEN Unseen ELSE now - failedAt[o]

Toasts == [what: (-MaxGames)..Switches, age: Nat]

ToastTypeOK ==
  /\ now \in 0..EndOfTime
  /\ pid \in {0, games} /\ games \in 0..MaxGames
  /\ failedAt \in [Opts -> {Never} \cup 0..now]
  /\ frame \in 0..(Switches + 1)
  /\ frameAt \in 0..now
  /\ delta \in 0..now
  /\ lastPid \in 0..games
  /\ seen \in [Opts -> {Unseen} \cup 0..now]
  /\ toasts \in Seq(Toasts) /\ Len(toasts) <= Max2
  /\ news \subseteq Opts
  /\ shown \in [Opts -> {Never} \cup 0..now]

ToastInit ==
  /\ now = 0
  /\ pid = 0 /\ games = 0
  /\ failedAt = [o \in Opts |-> Never]
  /\ frame = NoFrame /\ frameAt = 0 /\ delta = 0
  /\ lastPid = 0
  /\ seen = [o \in Opts |-> Unseen]
  /\ toasts = <<>>
  /\ news = {} /\ shown = [o \in Opts |-> Never]

-----------------------------------------------------------------------------
(* The clock and the worker.                                                 *)

TimePasses ==
  /\ frame = NoFrame
  /\ now < EndOfTime
  /\ now' = now + 1
  /\ UNCHANGED <<pid, games, failedAt, frame, frameAt, delta, lastPid, seen, toasts,
                 news, shown>>

GameFound ==
  /\ pid = 0
  /\ games < MaxGames
  /\ games' = games + 1
  /\ pid' = games + 1
  /\ UNCHANGED <<now, failedAt, frame, frameAt, delta, lastPid, seen, toasts, news, shown>>

GameLost ==
  /\ pid # 0
  /\ pid' = 0
  /\ UNCHANGED <<now, games, failedAt, frame, frameAt, delta, lastPid, seen, toasts,
                 news, shown>>

(* SetEnabled fails: the reason first, then the mark.                        *)
Fails(o) ==
  /\ failedAt' = [failedAt EXCEPT ![o] = now]
  /\ news' = news \cup {o}
  /\ UNCHANGED <<now, pid, games, frame, frameAt, delta, lastPid, seen, toasts, shown>>

(* SetEnabled succeeds: the failure before it is of no concern any more.     *)
Succeeds(o) ==
  /\ failedAt[o] # Never
  /\ failedAt' = [failedAt EXCEPT ![o] = Never]
  /\ news' = news \ {o}
  /\ UNCHANGED <<now, pid, games, frame, frameAt, delta, lastPid, seen, toasts, shown>>

-----------------------------------------------------------------------------
(* The window's thread: one frame.                                           *)

(* MUTANT of Notified: the oldest stays.                                     *)
Notified_Unbounded(what) ==
  IF \E i \in DOMAIN toasts : toasts[i].what = what
  THEN [i \in DOMAIN toasts |-> IF toasts[i].what = what THEN [toasts[i] EXCEPT !.age = 0]
                                                         ELSE toasts[i]]
  ELSE Append(toasts, [what |-> what, age |-> 0])

(* Notify: the same notification is prolonged, of three the oldest goes.     *)
Notified(what) ==
  IF \E i \in DOMAIN toasts : toasts[i].what = what
  THEN [i \in DOMAIN toasts |-> IF toasts[i].what = what THEN [toasts[i] EXCEPT !.age = 0]
                                                         ELSE toasts[i]]
  ELSE LET all == Append(toasts, [what |-> what, age |-> 0])
       IN IF Len(all) > Max2 THEN Tail(all) ELSE all

(* NewFrame, and the first half of CollectEvents: the game.                  *)
BeginFrame ==
  /\ frame = NoFrame
  /\ now > frameAt
  /\ frame' = 1
  /\ frameAt' = now
  /\ delta' = now - frameAt
  /\ lastPid' = pid
  /\ toasts' = IF pid = lastPid THEN toasts
               ELSE Notified(IF pid # 0 THEN Found(pid) ELSE Closed)
  /\ UNCHANGED <<now, pid, games, failedAt, seen, news, shown>>

(* MUTANT of IsNew: only a first failure counts.                             *)
IsNew_FirstOnly(o) == Age(o) >= 0 /\ seen[o] < 0

(* The mark has appeared, or has grown younger.                              *)
IsNew(o) == Age(o) >= 0 /\ (seen[o] < 0 \/ Age(o) < seen[o])

(* CollectEvents, the next option.                                           *)
CollectFailure ==
  /\ frame \in Opts
  /\ LET o == frame
     IN /\ seen' = [seen EXCEPT ![o] = Age(o)]
        /\ toasts' = IF IsNew(o) THEN Notified(o) ELSE toasts
        /\ news' = news \ {o}
        /\ shown' = [shown EXCEPT ![o] = failedAt[o]]
  /\ frame' = frame + 1
  /\ UNCHANGED <<now, pid, games, failedAt, frameAt, delta, lastPid>>

Older == [i \in DOMAIN toasts |-> [toasts[i] EXCEPT !.age = @ + delta]]

(* The i-th of the notifications, if it is there and still young enough.     *)
Fresh(i) ==
  IF i \in DOMAIN Older /\ Older[i].age < Lifetime(Older[i].what) THEN <<Older[i]>> ELSE <<>>

(* RenderToasts: all grow older by the time of the frame, the ones past      *)
(* their lifetime go, the others are drawn.                                  *)
RenderToasts ==
  /\ frame = Rendering
  /\ toasts' = Fresh(1) \o Fresh(Max2)
  /\ frame' = NoFrame
  /\ UNCHANGED <<now, pid, games, failedAt, frameAt, delta, lastPid, seen, news, shown>>

ToastNext ==
  \/ TimePasses
  \/ GameFound
  \/ GameLost
  \/ \E o \in Opts : Fails(o) \/ Succeeds(o)
  \/ BeginFrame
  \/ CollectFailure
  \/ RenderToasts

ToastSpec == ToastInit /\ [][ToastNext]_toastVars

-----------------------------------------------------------------------------
(* Whether the age of a failure gives it away as another one than that shown *)
(* before: it must be younger than that one by more than the time this frame *)
(* took to come.                                                             *)
TellsApart(o) == shown[o] = Never \/ failedAt[o] - shown[o] > delta

(* A frame looks at every failure that came before it, and notifies exactly  *)
(* those that are news and that it can tell from what the last frame saw:    *)
(* the first failure of an option always, none twice (MainView.h:80), and a  *)
(* later one unless the frame is late - when the window is being dragged, no *)
(* frame comes while a hotkey fails again and again, and the frame after it  *)
(* takes the new failure for the old one (MainView.cpp:180).                 *)
FailureIsNotified ==
  [][ /\ CollectFailure => (IsNew(frame) <=> frame \in news /\ TellsApart(frame))
      /\ RenderToasts => \A o \in news : failedAt[o] = now
    ]_toastVars
=============================================================================
