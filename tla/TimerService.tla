---------------------------- MODULE TimerService ----------------------------
(***************************************************************************)
(* What the wheel timer (WheelTimer/WheelTimer.h) promises its clients:    *)
(* an armed timer fires once its interval of clock ticks has passed, never *)
(* earlier, and a cancelled one never fires.                               *)
(*                                                                         *)
(* The one subtle point is a timer that is due in the current tick.  The   *)
(* wheel works through the due slot before it looks at the requests posted *)
(* meanwhile, so arming a timer again in the very tick in which it is due  *)
(* does not stop it from firing; cancelling does.  `hot' is the set of     *)
(* timers in that position.                                                *)
(***************************************************************************)
EXTENDS Integers

CONSTANTS
    Timer,          \* the timers of one node
    MaxInterval     \* the longest interval a timer is armed with, in ticks

Off == -1

VARIABLES
    due,            \* due[e]: clock ticks until e fires, Off if not armed
    hot             \* the timers that fire in this tick

vars == <<due, hot>>

TypeOK ==
    /\ due \in [Timer -> Off .. MaxInterval]
    /\ hot \subseteq Timer

Init ==
    /\ due = [e \in Timer |-> Off]
    /\ hot = {}

\* A client cancels some timers and arms others, with intervals of at
\* least one tick; the timers it leaves alone keep their time.
Program ==
    /\ due' \in [Timer -> Off .. MaxInterval]
    /\ \A e \in Timer : due'[e] # due[e] => due'[e] # 0

Post ==
    /\ Program
    /\ hot' = {e \in hot : due'[e] # Off}

\* e's callback runs; like any client it may program timers.  A periodic
\* timer, or one that was armed again in this tick, stays armed; a one-shot
\* timer is off.  (To cancel a timer that is due and to arm a new one in its
\* place is the same step, seen from here.)
Fire(e) ==
    /\ e \in hot
    /\ Program
    /\ due'[e] # 0
    /\ hot' = {x \in hot \ {e} : due'[x] # Off}

\* The clock moves on only once everything due has fired.
Tick ==
    /\ hot = {}
    /\ due' = [e \in Timer |-> IF due[e] = Off THEN Off ELSE due[e] - 1]
    /\ hot' = {e \in Timer : due'[e] = 0}

Next ==
    \/ Post
    \/ \E e \in Timer : Fire(e)
    \/ Tick

Safety == Init /\ [][Next]_vars

\* The timer thread never stops: a timer that is due fires or is cancelled,
\* and as long as something is armed time passes.  Written without ENABLED,
\* so that it means the same under a refinement mapping.
Liveness ==
    /\ \A e \in Timer : (e \in hot) ~> (e \notin hot)
    /\ <>[](\E e \in Timer : due[e] # Off) => []<><<Tick>>_vars

Spec == Safety /\ Liveness

=============================================================================
