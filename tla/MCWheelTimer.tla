---------------------------- MODULE MCWheelTimer ----------------------------
(* Two elements on a wheel of two slots.  Intervals of one to three ticks    *)
(* share slots and need zero, one or two turns, so that an element whose     *)
(* turn has not come sits in the slot the wheel walks.  Both the receiver    *)
(* thread and the wheel's callbacks make calls.                              *)
EXTENDS WheelTimer, TLC

MCCallsLocked == Call \ {"timer_reschedule"}
MCCallsAll == Call

\* The elements are alike, and the invariants and the step property that are
\* checked under this symmetry treat them so.
MCSymmetry == Permutations(Elem)
=============================================================================
