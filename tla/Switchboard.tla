---------------------------- MODULE Switchboard ----------------------------
(***************************************************************************)
(* What the trainer promises to whoever clicks its switches: a click is     *)
(* carried out once, in its turn, and then the switch is where it was asked *)
(* to be or says why it is not; and the trainer is gone only when nothing   *)
(* is left to be carried out and nothing is left on.                        *)
(***************************************************************************)
EXTENDS Integers, Sequences

CONSTANTS
  Switches,
  OneShots   \* those that only flash

VARIABLES
  on,        \* the switches that are on
  reason,    \* the switches that say why they could not be switched on
  busy,      \* clicks on each switch that are not yet carried out
  requests,  \* these clicks in the order they were made
  closed     \* the trainer is gone

boardVars == <<on, reason, busy, requests, closed>>

Init ==
  /\ on = [o \in Switches |-> FALSE]
  /\ reason = [o \in Switches |-> FALSE]
  /\ busy = [o \in Switches |-> 0]
  /\ requests = <<>>
  /\ closed = FALSE

Click(o, want) ==
  /\ ~closed
  /\ requests' = Append(requests, [opt |-> o, want |-> want])
  /\ busy' = [busy EXCEPT ![o] = @ + 1]
  /\ UNCHANGED <<on, reason, closed>>

(* A switch goes where it is told to, or stays and says why it does not go   *)
(* on.  One that is on has nothing to explain.                               *)
Obeys(o, want) ==
  \/ /\ on' = [on EXCEPT ![o] = want]
     /\ reason' = IF want THEN [reason EXCEPT ![o] = FALSE] ELSE reason
  \/ /\ want
     /\ on[o] => o \in OneShots
     /\ reason' = [reason EXCEPT ![o] = TRUE]
     /\ UNCHANGED on

Serve ==
  /\ ~closed
  /\ requests # <<>>
  /\ Obeys(Head(requests).opt, Head(requests).want)
  /\ busy' = [busy EXCEPT ![Head(requests).opt] = @ - 1]
  /\ requests' = Tail(requests)
  /\ UNCHANGED closed

(* A hotkey, a deadline, the end of the trainer.                             *)
Unasked(o, want) ==
  /\ ~closed
  /\ Obeys(o, want)
  /\ UNCHANGED <<busy, requests, closed>>

GameLost ==
  /\ ~closed
  /\ on' = [o \in Switches |-> FALSE]
  /\ UNCHANGED <<reason, busy, requests, closed>>

Close ==
  /\ requests = <<>>
  /\ \A o \in Switches : on[o] => o \in OneShots
  /\ closed' = TRUE
  /\ UNCHANGED <<on, reason, busy, requests>>

Next ==
  \/ \E o \in Switches, want \in BOOLEAN : Click(o, want) \/ Unasked(o, want)
  \/ Serve
  \/ GameLost
  \/ Close

Spec == Init /\ [][Next]_boardVars
=============================================================================
