----------------------------- MODULE WheelTimer -----------------------------
(***************************************************************************)
(* The wheel timer of a node, WheelTimer/WheelTimer.c.                      *)
(*                                                                         *)
(* One thread (wheel_fn) turns the wheel: it advances the clock, sleeps a  *)
(* tick, runs the callbacks of the elements of the current slot that are   *)
(* due in this cycle, and then works through the reschedule list.  The     *)
(* other threads of the process, and the callbacks, never touch the slots: *)
(* they write the element and link it into the reschedule list under that  *)
(* list's mutex.  A call is two steps here, what it writes before it takes *)
(* the mutex and what it does while holding it.                            *)
(***************************************************************************)
EXTENDS Integers, FiniteSets

CONSTANTS
    Elem,           \* addresses of wheel_timer_elem_t; free() makes one reusable
    Thread,         \* application threads: the packet receiver, the CLI
    WheelThread,    \* the thread of wheel_fn, which also runs the callbacks
    WheelSize,      \* wt->wheel_size
    MaxInterval,    \* bound on the intervals the clients ask for
    CounterMod,     \* no_of_wt_elem is an unsigned int; a small modulus here
    Calls,          \* the functions of WheelTimer.h the clients use
    Serialised      \* TRUE: the clients keep their calls on one element apart

Call == {"register_app_event", "de_register_app_event",
         "wt_elem_reschedule", "timer_reschedule"}

ASSUME WheelAssumption ==
    /\ WheelThread \notin Thread
    /\ WheelSize \in Nat \ {0}
    /\ MaxInterval \in Nat \ {0}
    /\ CounterMod \in Nat \ {0}
    /\ Calls \subseteq Call
    /\ Serialised \in BOOLEAN

VARIABLES
    current_clock_tic,  \* wt->current_clock_tic, the slot the wheel is at
    no_of_wt_elem,      \* wt->no_of_wt_elem
    pc,                 \* where wheel_fn is
    cur,                \* the elements whose callback is running: none or one
    reschd_list,        \* wt->reschd_list, linked by wt_elem->reschedule_glue
    opcode,             \* wt_elem->opcode
    freed,              \* memory not in use: never handed out, or freed
    time_interval,      \* wt_elem->time_interval
    new_time_interval,  \* wt_elem->new_time_interval
    rounds,             \* wt_elem->execute_cycle_no - wt->current_cycle_no
    slot_no,            \* wt_elem->slot_no
    linked,             \* the elements linked in a slot by wt_elem->glue
    arg,                \* is wt_elem->arg set?
    is_recurrence,      \* wt_elem->is_recurrence
    handle,             \* the elements the application holds a pointer to
    call,               \* the second half of a call that a thread has still to do
    fault,              \* what the process dies of
    crossed             \* history: the elements whose calls have crossed

wheelVars == <<current_clock_tic, no_of_wt_elem, pc, cur>>
slotVars  == <<time_interval, rounds, slot_no, linked>>
appVars   == <<new_time_interval, arg, is_recurrence, handle, call>>
vars == <<wheelVars, slotVars, appVars, reschd_list, opcode, freed, fault, crossed>>

-----------------------------------------------------------------------------

Caller   == Thread \cup {WheelThread}
Interval == 1 .. MaxInterval
Opcode   == {"CREATE", "RESCHED", "DELETE", "SCHEDULED"}

Idle == [op |-> "none"]
\* What is left of a call on e: to link e into the reschedule list, after
\* setting the opcode for `op' in "CREATE", "RESCHED", "DELETE"; with
\* "KEEP" the opcode was written before the mutex was taken.
Half(op, e) == [op |-> op, elem |-> e]

Busy(e) == {t \in Caller : call[t] # Idle /\ call[t].elem = e}

\* Two calls on one element cross when one begins while the other is still to
\* link it and one of the two gives the element up; and a timer_reschedule
\* crosses the wheel that serves the element between its two halves.
CrossedBy(e, op) ==
    IF \E t \in Busy(e) : "DELETE" \in {op, call[t].op} THEN {e} ELSE {}

CrossedByWheel(e) == IF \E t \in Busy(e) : call[t].op = "KEEP" THEN {e} ELSE {}

\* Clock ticks from now until the wheel reaches e's slot in e's cycle; the
\* difference that wt_get_remaining_time computes.
Remaining(e) == rounds[e] * WheelSize + slot_no[e] - current_clock_tic

\* R == r, for an element of the slot the wheel is at.
Due(e) ==
    /\ e \in linked
    /\ slot_no[e] = current_clock_tic
    /\ rounds[e] = 0

\* A slot is sorted by cycle and the walk stops at the first element of
\* another cycle, so one from the past hides every later one.
Blocked ==
    \E e \in linked : slot_no[e] = current_clock_tic /\ rounds[e] < 0

TypeOK ==
    /\ current_clock_tic \in 0 .. WheelSize - 1
    /\ no_of_wt_elem \in 0 .. CounterMod - 1
    /\ pc \in {"sleep", "slot", "callback", "list"}
    /\ cur \subseteq Elem
    /\ reschd_list \subseteq Elem
    /\ opcode \in [Elem -> Opcode]
    /\ freed \subseteq Elem
    /\ time_interval \in [Elem -> 0 .. MaxInterval]
    /\ new_time_interval \in [Elem -> 0 .. MaxInterval]
    /\ rounds \in [Elem -> -1 .. MaxInterval]
    /\ slot_no \in [Elem -> 0 .. WheelSize - 1]
    /\ linked \subseteq Elem
    /\ arg \in [Elem -> BOOLEAN]
    /\ is_recurrence \in [Elem -> BOOLEAN]
    /\ handle \subseteq Elem
    /\ call \in [Caller -> {Idle} \cup
                   [op : {"CREATE", "RESCHED", "DELETE", "KEEP"}, elem : Elem]]
    /\ fault \in {"none", "assert", "use_after_free"}
    /\ crossed \subseteq Elem

Init ==
    /\ current_clock_tic = IF WheelSize = 1 THEN 0 ELSE 1
    /\ no_of_wt_elem = 0
    /\ pc = "sleep"
    /\ cur = {}
    /\ reschd_list = {}
    /\ opcode = [e \in Elem |-> "CREATE"]
    /\ freed = Elem
    /\ time_interval = [e \in Elem |-> 0]
    /\ new_time_interval = [e \in Elem |-> 0]
    /\ rounds = [e \in Elem |-> 0]
    /\ slot_no = [e \in Elem |-> 0]
    /\ linked = {}
    /\ arg = [e \in Elem |-> FALSE]
    /\ is_recurrence = [e \in Elem |-> FALSE]
    /\ handle = {}
    /\ call = [t \in Caller |-> Idle]
    /\ fault = "none"
    /\ crossed = {}

-----------------------------------------------------------------------------
(* The calls of WheelTimer.h.                                              *)

\* The wheel's own thread makes calls only from inside a callback.
MayCall(t) ==
    /\ fault = "none"
    /\ call[t] = Idle
    /\ t = WheelThread => pc = "callback"

\* A client calls with a pointer it holds.  Clients that serialise their
\* calls let one finish before they begin another on the same element, its
\* callback included.
MayCallOn(t, e) ==
    /\ MayCall(t)
    /\ e \in handle
    /\ Serialised => Busy(e) = {} /\ (e \in cur => t = WheelThread)

\* register_app_event up to the mutex: calloc hands out memory not in use.
RegisterAppEvent(t, e, n, recurring) ==
    /\ "register_app_event" \in Calls
    /\ MayCall(t)
    /\ e \in freed
    /\ freed' = freed \ {e}
    /\ opcode' = [opcode EXCEPT ![e] = "CREATE"]
    /\ arg' = [arg EXCEPT ![e] = TRUE]
    /\ is_recurrence' = [is_recurrence EXCEPT ![e] = recurring]
    /\ new_time_interval' = [new_time_interval EXCEPT ![e] = n]
    /\ call' = [call EXCEPT ![t] = Half("CREATE", e)]
    /\ crossed' = crossed \cup CrossedBy(e, "CREATE")
    /\ UNCHANGED <<wheelVars, slotVars, reschd_list, handle, fault>>

\* de_register_app_event up to the mutex.
DeRegisterAppEvent(t, e) ==
    /\ "de_register_app_event" \in Calls
    /\ MayCallOn(t, e)
    /\ arg' = [arg EXCEPT ![e] = FALSE]
    /\ new_time_interval' = [new_time_interval EXCEPT ![e] = 0]
    /\ call' = [call EXCEPT ![t] = Half("DELETE", e)]
    /\ crossed' = crossed \cup CrossedBy(e, "DELETE")
    /\ UNCHANGED <<wheelVars, slotVars, reschd_list, opcode, freed,
                   is_recurrence, handle, fault>>

\* wt_elem_reschedule: the interval is written before the mutex is taken,
\* the opcode under it.
WtElemReschedule(t, e, n) ==
    /\ "wt_elem_reschedule" \in Calls
    /\ MayCallOn(t, e)
    /\ new_time_interval' = [new_time_interval EXCEPT ![e] = n]
    /\ call' = [call EXCEPT ![t] = Half("RESCHED", e)]
    /\ crossed' = crossed \cup CrossedBy(e, "RESCHED")
    /\ UNCHANGED <<wheelVars, slotVars, reschd_list, opcode, freed, arg,
                   is_recurrence, handle, fault>>

\* timer_reschedule: both are written before the mutex is taken.
TimerReschedule(t, e, n) ==
    /\ "timer_reschedule" \in Calls
    /\ MayCallOn(t, e)
    /\ opcode' = [opcode EXCEPT ![e] = "RESCHED"]
    /\ new_time_interval' = [new_time_interval EXCEPT ![e] = n]
    /\ call' = [call EXCEPT ![t] = Half("KEEP", e)]
    /\ crossed' = crossed \cup CrossedBy(e, "KEEP")
    /\ UNCHANGED <<wheelVars, slotVars, reschd_list, freed, arg, is_recurrence,
                   handle, fault>>

\* Mutants: the opcode is not written; a request that waits is not overridden.
OpcodeNotWritten(op, e) == opcode[e]
OpcodeFirstWins(op, e) ==
    IF op = "KEEP" \/ e \in reschd_list THEN opcode[e] ELSE op

\* The opcode of e once the request is linked.
OpcodeAfter(op, e) == IF op = "KEEP" THEN opcode[e] ELSE op

\* The rest of each call, under the mutex of the reschedule list, which
\* process_wt_reschedule_slotlist holds from its first to its last element.
\* The pointer of a registered element is returned, and one passed to
\* de_register_app_event is forgotten by its owner.
LinkElem(t) ==
    /\ fault = "none"
    /\ call[t] # Idle
    /\ pc # "list"
    /\ LET e == call[t].elem  op == call[t].op IN
         /\ opcode' = [opcode EXCEPT ![e] = OpcodeAfter(op, e)]
         /\ reschd_list' = reschd_list \cup {e}
         /\ handle' = CASE op = "CREATE" -> handle \cup {e}
                        [] op = "DELETE" -> handle \ {e}
                        [] OTHER -> handle
    /\ call' = [call EXCEPT ![t] = Idle]
    /\ UNCHANGED <<wheelVars, slotVars, new_time_interval, arg, is_recurrence,
                   freed, crossed>>

Link(t) ==
    /\ LinkElem(t)
    /\ call[t].elem \notin freed
    /\ UNCHANGED fault

\* The same code when the wheel has freed the element in the meantime: the
\* opcode is written and the element linked all the same.  Nothing is
\* defined from here on, and the model ends.
LinkFreed(t) ==
    /\ LinkElem(t)
    /\ call[t].elem \in freed
    /\ fault' = "use_after_free"

-----------------------------------------------------------------------------
(* wheel_fn.                                                               *)

\* The sleep of a whole tick outlasts any call.
Wake ==
    /\ fault = "none"
    /\ pc = "sleep"
    /\ \A t \in Caller : call[t] = Idle
    /\ pc' = "slot"
    /\ UNCHANGED <<current_clock_tic, no_of_wt_elem, cur, slotVars, appVars,
                   reschd_list, opcode, freed, fault, crossed>>

\* Mutants: the whole turns are counted from the interval alone; the element
\* is placed but not linked; it is placed one tick late.
PlaceNoTurn(e, n) ==
    /\ slot_no' = [slot_no EXCEPT ![e] = (current_clock_tic + n) % WheelSize]
    /\ rounds' = [rounds EXCEPT ![e] = n \div WheelSize]
    /\ linked' = linked \cup {e}
PlaceUnlinked(e, n) ==
    /\ slot_no' = [slot_no EXCEPT ![e] = (current_clock_tic + n) % WheelSize]
    /\ rounds' = [rounds EXCEPT ![e] = (current_clock_tic + n) \div WheelSize]
    /\ linked' = linked \ {e}
PlaceLate(e, n) ==
    /\ slot_no' = [slot_no EXCEPT ![e] = (current_clock_tic + n + 1) % WheelSize]
    /\ rounds' = [rounds EXCEPT ![e] = (current_clock_tic + n + 1) \div WheelSize]
    /\ linked' = linked \cup {e}

\* n ticks from the current slot, as a slot and a number of whole turns;
\* glthread_priority_insert links e there by its cycle.
Place(e, n) ==
    /\ slot_no' = [slot_no EXCEPT ![e] = (current_clock_tic + n) % WheelSize]
    /\ rounds' = [rounds EXCEPT ![e] = (current_clock_tic + n) \div WheelSize]
    /\ linked' = linked \cup {e}

\* The callback of a due element is called with its argument.
Invoke(e) ==
    /\ fault = "none"
    /\ pc = "slot"
    /\ ~Blocked
    /\ Due(e)
    /\ arg[e]
    /\ Serialised => Busy(e) = {}
    /\ pc' = "callback"
    /\ cur' = {e}
    /\ UNCHANGED <<current_clock_tic, no_of_wt_elem, slotVars, appVars,
                   reschd_list, opcode, freed, fault, crossed>>

\* The callback returns.  The callback of a one-shot element has
\* de-registered it; a periodic element moves on by its interval.
Return(e) ==
    /\ fault = "none"
    /\ pc = "callback"
    /\ e \in cur
    /\ call[WheelThread] = Idle
    /\ is_recurrence[e] \/ ~arg[e]
    /\ IF is_recurrence[e]
         THEN Place(e, time_interval[e])
         ELSE UNCHANGED <<slot_no, rounds, linked>>
    /\ pc' = "slot"
    /\ cur' = {}
    /\ UNCHANGED <<current_clock_tic, no_of_wt_elem, time_interval, appVars,
                   reschd_list, opcode, freed, fault, crossed>>

\* An element whose argument de_register_app_event has cleared: the callback
\* returns at once, and only a periodic element moves.
InvokeCleared(e) ==
    /\ fault = "none"
    /\ pc = "slot"
    /\ ~Blocked
    /\ Due(e)
    /\ ~arg[e]
    /\ is_recurrence[e]
    /\ Place(e, time_interval[e])
    /\ UNCHANGED <<wheelVars, time_interval, appVars, reschd_list, opcode,
                   freed, fault, crossed>>

\* The walk of the slot is over; process_wt_reschedule_slotlist takes the
\* mutex of the reschedule list.
StartList ==
    /\ fault = "none"
    /\ pc = "slot"
    /\ Blocked \/ \A e \in Elem : Due(e) => ~arg[e] /\ ~is_recurrence[e]
    /\ pc' = "list"
    /\ UNCHANGED <<current_clock_tic, no_of_wt_elem, cur, slotVars, appVars,
                   reschd_list, opcode, freed, fault, crossed>>

\* One element of the reschedule list that asks for a new place.
ProcessReschedule(e) ==
    /\ fault = "none"
    /\ pc = "list"
    /\ e \in reschd_list
    /\ opcode[e] \in {"CREATE", "RESCHED"}
    /\ time_interval' = [time_interval EXCEPT ![e] = new_time_interval[e]]
    /\ Place(e, new_time_interval[e])
    /\ reschd_list' = reschd_list \ {e}
    /\ no_of_wt_elem' = IF opcode[e] = "CREATE"
                          THEN (no_of_wt_elem + 1) % CounterMod
                          ELSE no_of_wt_elem
    /\ opcode' = [opcode EXCEPT ![e] = "SCHEDULED"]
    /\ crossed' = crossed \cup CrossedByWheel(e)
    /\ UNCHANGED <<current_clock_tic, pc, cur, appVars, freed, fault>>

\* Mutant: the element is freed without being unlinked from its slot.
KeepLinked(e) == linked' = linked

\* remove_glthread(&wt_elem->glue)
Unlink(e) == linked' = linked \ {e}

\* One element of the reschedule list that is to be freed.  calloc zeroes the
\* memory when it hands it out again; the model does that here.
ProcessDelete(e) ==
    /\ fault = "none"
    /\ pc = "list"
    /\ e \in reschd_list
    /\ opcode[e] = "DELETE"
    /\ Unlink(e)
    /\ reschd_list' = reschd_list \ {e}
    /\ no_of_wt_elem' = (no_of_wt_elem - 1) % CounterMod
    /\ freed' = freed \cup {e}
    /\ opcode' = [opcode EXCEPT ![e] = "CREATE"]
    /\ time_interval' = [time_interval EXCEPT ![e] = 0]
    /\ new_time_interval' = [new_time_interval EXCEPT ![e] = 0]
    /\ rounds' = [rounds EXCEPT ![e] = 0]
    /\ slot_no' = [slot_no EXCEPT ![e] = 0]
    /\ is_recurrence' = [is_recurrence EXCEPT ![e] = FALSE]
    /\ arg' = [arg EXCEPT ![e] = FALSE]
    /\ UNCHANGED <<current_clock_tic, pc, cur, handle, call, fault, crossed>>

\* default: assert(0)
ProcessUnknown(e) ==
    /\ fault = "none"
    /\ pc = "list"
    /\ e \in reschd_list
    /\ opcode[e] \notin {"CREATE", "RESCHED", "DELETE"}
    /\ fault' = "assert"
    /\ UNCHANGED <<wheelVars, slotVars, appVars, reschd_list, opcode, freed,
                   crossed>>

\* Mutant: the clock runs past the last slot.
NextTicNoWrap == current_clock_tic + 1

\* wt->current_clock_tic++, back to 0 at wheel_size
NextTic == IF current_clock_tic + 1 = WheelSize THEN 0 ELSE current_clock_tic + 1

\* The list is empty: the mutex is released, the clock advances and the
\* thread sleeps.  (A call between the unlock and the advance reads neither,
\* so it may as well come after both.)
Advance ==
    /\ fault = "none"
    /\ pc = "list"
    /\ reschd_list = {}
    /\ pc' = "sleep"
    /\ current_clock_tic' = NextTic
    /\ rounds' = IF NextTic = 0
                   THEN [e \in Elem |-> IF e \in linked /\ rounds[e] >= 0
                                          THEN rounds[e] - 1 ELSE rounds[e]]
                   ELSE rounds
    /\ UNCHANGED <<no_of_wt_elem, cur, time_interval, slot_no, linked, appVars,
                   reschd_list, opcode, freed, fault, crossed>>

WheelStep ==
    \/ Wake
    \/ \E e \in Elem : Invoke(e)
    \/ \E e \in Elem : InvokeCleared(e)
    \/ \E e \in Elem : Return(e)
    \/ StartList
    \/ \E e \in Elem : ProcessReschedule(e)
    \/ \E e \in Elem : ProcessDelete(e)
    \/ \E e \in Elem : ProcessUnknown(e)
    \/ Advance

CallerStep ==
    \/ \E t \in Caller, e \in Elem, n \in Interval, r \in BOOLEAN :
         RegisterAppEvent(t, e, n, r)
    \/ \E t \in Caller, e \in Elem : DeRegisterAppEvent(t, e)
    \/ \E t \in Caller, e \in Elem, n \in Interval : WtElemReschedule(t, e, n)
    \/ \E t \in Caller, e \in Elem, n \in Interval : TimerReschedule(t, e, n)
    \/ \E t \in Caller : Link(t)
    \/ \E t \in Caller : LinkFreed(t)

Next == WheelStep \/ CallerStep

Safety == Init /\ [][Next]_vars

\* A one-shot callback does what all of them do, it de-registers its element.
DeRegisterOwn ==
    \E e \in cur : ~is_recurrence[e] /\ DeRegisterAppEvent(WheelThread, e)

\* The wheel thread loops for ever.  The guards of Wake and Invoke that wait
\* for a call to finish stand for calls being short, not for a lock, so a
\* stream of calls does not hold the wheel up: strong fairness.  A callback
\* makes finitely many calls, and a call that has begun is finished.
Fairness ==
    /\ SF_vars(WheelStep)
    /\ SF_vars(DeRegisterOwn)
    /\ \A t \in Caller : WF_vars(Link(t))

Spec == Safety /\ Fairness

-----------------------------------------------------------------------------
(* What the wheel promises, and what that rests on.                        *)

\* The wheel never meets an element whose state it cannot place (the
\* assert(0) of process_wt_reschedule_slotlist), and no call ever links an
\* element that the wheel has freed.
NoFault == fault = "none"

\* The assert(0) alone.
OpcodeKnown == fault # "assert"

\* While the wheel walks the due slot, no element of a past cycle sits in
\* front of the due ones: such an element would end the walk at once, this
\* time and in every later cycle, and every timer of the slot would be dead.
NothingBlocks == pc \in {"slot", "callback"} => ~Blocked

\* Freed memory is in none of the lists, no callback runs on it and no client
\* holds a pointer to it, unless calls on it have crossed: nothing else that
\* threads and wheel do at the same time links memory that has been freed or
\* frees what is still linked.
NoDangling ==
    \A e \in freed \ crossed : e \notin linked \cup reschd_list \cup handle \cup cur

\* An element in use is in a slot, or waits for the wheel in the reschedule
\* list, or a call is about to link it there: none is lost between the two.
NoneLost ==
    \A e \in Elem \ freed : Busy(e) = {} => e \in linked \cup reschd_list

\* Whatever the threads do at the same time, the process only dies in the
\* wheel after calls on one element have crossed.
FaultsCrossed == fault # "none" => crossed # {}

\* Likewise only calls that have crossed leave an element of the past in
\* front of those that are due.
BlocksCrossed == pc \in {"slot", "callback"} /\ Blocked => crossed # {}

\* What de_register_app_event gives up is freed in the end, whatever was
\* asked of the element before and wherever the wheel was at that moment.
Reclaimed ==
    \A e \in Elem : (e \notin freed /\ ~arg[e]) ~> e \in freed

-----------------------------------------------------------------------------
(* The wheel implements TimerService.                                      *)

\* A request that waits in the reschedule list overrides the element's place.
TimeLeft(e) ==
    CASE ~arg[e] -> -1
      [] arg[e] /\ e \in reschd_list -> new_time_interval[e]
      [] arg[e] /\ e \notin reschd_list /\ e \in linked -> Remaining(e)
      [] OTHER -> -1

FiresNow == IF pc = "list" THEN {} ELSE {e \in Elem : Due(e) /\ arg[e]}

Service == INSTANCE TimerService WITH
    Timer <- Elem,
    due <- [e \in Elem |-> TimeLeft(e)],
    hot <- FiresNow

\* An armed timer fires at its tick, not earlier and not later, and a
\* cancelled one never does: the callbacks that the walk of the slots runs
\* are those that the calls, in any interleaving with the walk, have asked
\* for.  So it is, with every function and calls that nobody keeps apart,
\* until calls on one element have crossed.
KeepsTimeApart ==
    Service!Init /\ [][crossed' = {} => Service!Next]_Service!vars

\* What is more, of clients that keep their calls apart none is forgotten: the
\* wheel implements TimerService with its liveness.
ImplementsTimerService == Service!Spec

=============================================================================
