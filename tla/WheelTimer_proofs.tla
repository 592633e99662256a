------------------------- MODULE WheelTimer_proofs --------------------------
(***************************************************************************)
(* Theorems about WheelTimer, for any number of threads that call whatever *)
(* they like at any time, any number of elements and any intervals.  None  *)
(* assumes that calls are kept apart: each says what the wheel does until  *)
(* calls on one element have crossed, and that nothing goes wrong before   *)
(* they have.  The last part is the step-by-step proof that until then the *)
(* wheel implements TimerService.                                          *)
(***************************************************************************)
EXTENDS WheelTimer, TLAPS

-----------------------------------------------------------------------------
(* Slots and turns.                                                        *)

LEMMA ModRange ==
    ASSUME NEW a \in Int, NEW m \in Nat \ {0}
    PROVE  a % m \in 0 .. m - 1
  OBVIOUS

\* A place n ticks from a slot of the wheel is a slot of the wheel and at
\* most MaxInterval turns away.
LEMMA PlaceRange ==
    ASSUME NEW c \in 0 .. WheelSize - 1, NEW n \in 0 .. MaxInterval
    PROVE  /\ (c + n) % WheelSize \in 0 .. WheelSize - 1
           /\ (c + n) \div WheelSize \in 0 .. MaxInterval
  <1> DEFINE q == (c + n) \div WheelSize
             r == (c + n) % WheelSize
  <1>1. WheelSize \in Nat \ {0} /\ MaxInterval \in Nat /\ c + n \in Int
    BY WheelAssumption
  <1>2. /\ q \in Int
        /\ r \in 0 .. WheelSize - 1
        /\ c + n = q * WheelSize + r
    BY <1>1
  <1> HIDE DEF q, r
  <1>3. q >= 0
    <2>1. SUFFICES ASSUME q <= -1 PROVE FALSE
      BY <1>2
    <2>2. (-q) * WheelSize >= WheelSize
      BY <1>1, <1>2, <2>1
    <2>3. q * WheelSize = -((-q) * WheelSize)
      BY <1>1, <1>2
    <2>4. QED
      BY <1>1, <1>2, <2>2, <2>3
  <1>4. q <= MaxInterval
    <2>1. SUFFICES ASSUME q >= MaxInterval + 1 PROVE FALSE
      BY <1>1, <1>2
    <2>2. (q - MaxInterval) * WheelSize >= WheelSize
      BY <1>1, <1>2, <2>1
    <2>3. q * WheelSize = (q - MaxInterval) * WheelSize + MaxInterval * WheelSize
      BY <1>1, <1>2
    <2>4. MaxInterval * WheelSize >= MaxInterval
      BY <1>1
    <2>5. QED
      BY <1>1, <1>2, <2>2, <2>3, <2>4
  <1>5. QED
    BY <1>2, <1>3, <1>4 DEF q, r

\* A placed element keeps the types.
LEMMA TypeOfPlace ==
    ASSUME TypeOK, NEW e \in Elem, NEW n \in 0 .. MaxInterval, Place(e, n)
    PROVE  /\ rounds' \in [Elem -> -1 .. MaxInterval]
           /\ slot_no' \in [Elem -> 0 .. WheelSize - 1]
           /\ linked' \subseteq Elem
  <1>1. current_clock_tic \in 0 .. WheelSize - 1
    BY DEF TypeOK
  <1> DEFINE q == (current_clock_tic + n) \div WheelSize
             r == (current_clock_tic + n) % WheelSize
  <1>2. r \in 0 .. WheelSize - 1 /\ q \in 0 .. MaxInterval
    BY <1>1, PlaceRange
  <1>3. /\ slot_no' = [slot_no EXCEPT ![e] = r]
        /\ rounds' = [rounds EXCEPT ![e] = q]
        /\ linked' = linked \cup {e}
    BY DEF Place
  <1> HIDE DEF q, r
  <1>4. q \in -1 .. MaxInterval
    BY <1>2
  <1>5. QED
    BY <1>2, <1>3, <1>4 DEF TypeOK

-----------------------------------------------------------------------------
(* Type correctness.                                                       *)

\* The state stays within its types, with any number of threads calling at
\* any time.
THEOREM TypeCorrect == Safety => []TypeOK
  <1>1. Init => TypeOK
    BY WheelAssumption DEF Init, TypeOK, Idle, Opcode
  <1>2. TypeOK /\ [Next]_vars => TypeOK'
    <2> SUFFICES ASSUME TypeOK, [Next]_vars PROVE TypeOK'
      OBVIOUS
    <2> USE WheelAssumption DEF wheelVars, slotVars, appVars, Interval, Caller, Opcode,
                                CrossedBy, CrossedByWheel
    <2>1. ASSUME NEW t \in Caller, NEW e \in Elem, NEW n \in Interval,
                 NEW r \in BOOLEAN, RegisterAppEvent(t, e, n, r)
          PROVE  TypeOK'
      BY <2>1 DEF RegisterAppEvent, Half, TypeOK
    <2>2. ASSUME NEW t \in Caller, NEW e \in Elem, DeRegisterAppEvent(t, e)
          PROVE  TypeOK'
      BY <2>2 DEF DeRegisterAppEvent, Half, TypeOK
    <2>3. ASSUME NEW t \in Caller, NEW e \in Elem, NEW n \in Interval,
                 WtElemReschedule(t, e, n)
          PROVE  TypeOK'
      BY <2>3 DEF WtElemReschedule, Half, TypeOK
    <2>4. ASSUME NEW t \in Caller, NEW e \in Elem, NEW n \in Interval,
                 TimerReschedule(t, e, n)
          PROVE  TypeOK'
      BY <2>4 DEF TimerReschedule, Half, TypeOK
    <2>5. ASSUME NEW t \in Caller, LinkElem(t), fault' \in {fault, "use_after_free"}
          PROVE  TypeOK'
      <3>1. /\ call[t].elem \in Elem
            /\ call[t].op \in {"CREATE", "RESCHED", "DELETE", "KEEP"}
        BY <2>5 DEF LinkElem, TypeOK, Idle
      <3>2. OpcodeAfter(call[t].op, call[t].elem) \in Opcode
        BY <3>1 DEF OpcodeAfter, TypeOK
      <3>3. handle' \subseteq Elem
        BY <2>5, <3>1 DEF LinkElem, TypeOK
      <3>4. QED
        BY <2>5, <3>1, <3>2, <3>3 DEF LinkElem, TypeOK
    <2>6. ASSUME NEW t \in Caller, Link(t) \/ LinkFreed(t) PROVE TypeOK'
      BY <2>5, <2>6 DEF Link, LinkFreed
    <2>7. CASE Wake
      BY <2>7 DEF Wake, TypeOK
    <2>8. ASSUME NEW e \in Elem, Invoke(e) PROVE TypeOK'
      BY <2>8 DEF Invoke, TypeOK
    <2>9. ASSUME NEW e \in Elem, InvokeCleared(e) PROVE TypeOK'
      <3>1. Place(e, time_interval[e]) /\ time_interval[e] \in 0 .. MaxInterval
        BY <2>9 DEF InvokeCleared, TypeOK
      <3>2. QED
        BY <2>9, <3>1, TypeOfPlace DEF InvokeCleared, TypeOK
    <2>10. ASSUME NEW e \in Elem, Return(e) PROVE TypeOK'
      <3>1. time_interval[e] \in 0 .. MaxInterval
        BY DEF TypeOK
      <3>2. /\ rounds' \in [Elem -> -1 .. MaxInterval]
            /\ slot_no' \in [Elem -> 0 .. WheelSize - 1]
            /\ linked' \subseteq Elem
        BY <2>10, <3>1, TypeOfPlace DEF Return, TypeOK
      <3>3. QED
        BY <2>10, <3>2 DEF Return, TypeOK
    <2>11. CASE StartList
      BY <2>11 DEF StartList, TypeOK
    <2>12. ASSUME NEW e \in Elem, ProcessReschedule(e) PROVE TypeOK'
      <3>1. Place(e, new_time_interval[e]) /\ new_time_interval[e] \in 0 .. MaxInterval
        BY <2>12 DEF ProcessReschedule, TypeOK
      <3>2. no_of_wt_elem' \in 0 .. CounterMod - 1
        <4>1. (no_of_wt_elem + 1) % CounterMod \in 0 .. CounterMod - 1
          <5>1. no_of_wt_elem + 1 \in Int /\ CounterMod \in Nat \ {0}
            BY DEF TypeOK
          <5>2. QED
            BY <5>1, ModRange
        <4>2. QED
          BY <2>12, <4>1 DEF ProcessReschedule, TypeOK
      <3>3. QED
        BY <2>12, <3>1, <3>2, TypeOfPlace DEF ProcessReschedule, TypeOK
    <2>13. ASSUME NEW e \in Elem, ProcessDelete(e) PROVE TypeOK'
      <3>1. no_of_wt_elem' \in 0 .. CounterMod - 1
        <4>1. (no_of_wt_elem - 1) % CounterMod \in 0 .. CounterMod - 1
          <5>1. no_of_wt_elem - 1 \in Int /\ CounterMod \in Nat \ {0}
            BY DEF TypeOK
          <5>2. QED
            BY <5>1, ModRange
        <4>2. QED
          BY <2>13, <4>1 DEF ProcessDelete
      <3>2. QED
        BY <2>13, <3>1 DEF ProcessDelete, Unlink, TypeOK
    <2>14. ASSUME NEW e \in Elem, ProcessUnknown(e) PROVE TypeOK'
      BY <2>14 DEF ProcessUnknown, TypeOK
    <2>15. CASE Advance
      <3>1. NextTic \in 0 .. WheelSize - 1
        BY DEF NextTic, TypeOK
      <3>2. rounds' \in [Elem -> -1 .. MaxInterval]
        BY <2>15 DEF Advance, TypeOK
      <3>3. QED
        BY <2>15, <3>1, <3>2 DEF Advance, TypeOK
    <2>16. CASE UNCHANGED vars
      BY <2>16 DEF vars, TypeOK
    <2>17. QED
      BY <2>1, <2>2, <2>3, <2>4, <2>6, <2>7, <2>8, <2>9, <2>10, <2>11,
         <2>12, <2>13, <2>14, <2>15, <2>16 DEF Next, WheelStep, CallerStep
  <1>3. QED
    BY <1>1, <1>2, PTL DEF Safety

-----------------------------------------------------------------------------
(* The lists.                                                              *)

\* Nobody uncrosses.
LEMMA CrossedGrows ==
    ASSUME [Next]_vars PROVE crossed \subseteq crossed'
  BY DEF Next, WheelStep, CallerStep, Wake, Invoke, InvokeCleared, Return,
     StartList, ProcessReschedule, ProcessDelete, ProcessUnknown, Advance,
     RegisterAppEvent, DeRegisterAppEvent, WtElemReschedule, TimerReschedule,
     Link, LinkFreed, LinkElem, vars

\* NoDangling as an induction hypothesis, for one element.  What waits to be
\* freed has been given up by its owner, no call is under way for it or for
\* what has been freed, and a call that gives an element up is alone.
OwnedAt(e) ==
    e \notin crossed =>
      /\ e \in freed => e \notin linked \cup reschd_list \cup handle \cup cur
      /\ e \in freed \/ opcode[e] = "DELETE" => e \notin handle /\ Busy(e) = {}
      /\ \A t, u \in Busy(e) : call[t].op = "DELETE" => t = u

\* The wheel works through the reschedule list only while it runs no callback.
Owned ==
    /\ \A e \in Elem : OwnedAt(e)
    /\ pc # "callback" => cur = {}

\* Steps in which no call on x begins or ends and x enters no list.
LEMMA OwnedAtKept ==
    ASSUME NEW x \in Elem, OwnedAt(x), x \in crossed => x \in crossed',
           x \in freed' <=> x \in freed,
           opcode'[x] = "DELETE" => opcode[x] = "DELETE",
           x \in (linked \cup reschd_list \cup handle \cup cur)' =>
             x \in linked \cup reschd_list \cup handle \cup cur,
           x \in handle' => x \in handle,
           Busy(x)' \subseteq Busy(x), \A t \in Busy(x)' : call'[t] = call[t]
    PROVE  OwnedAt(x)'
  BY DEF OwnedAt

\* The calls on the elements that a thread's call is not about.
LEMMA BusyElsewhere ==
    ASSUME TypeOK, NEW t \in Caller, NEW e \in Elem, NEW x \in Elem \ {e},
           call[t] = Idle \/ call[t].elem = e,
           \/ call' = [call EXCEPT ![t] = Idle]
           \/ \E op \in {"CREATE", "RESCHED", "DELETE", "KEEP"} :
                call' = [call EXCEPT ![t] = Half(op, e)]
    PROVE  Busy(x)' = Busy(x) /\ \A u \in Busy(x) : call'[u] = call[u]
  <1>1. \A u \in Caller \ {t} : call'[u] = call[u]
    BY DEF TypeOK
  <1>2. call'[t] = Idle \/ call'[t].elem = e
    BY DEF TypeOK, Half
  <1>3. t \notin Busy(x) /\ t \notin Busy(x)'
    BY <1>2 DEF Busy
  <1>4. Busy(x)' = Busy(x)
    BY <1>1, <1>3 DEF Busy
  <1>5. QED
    BY <1>1, <1>3, <1>4 DEF Busy

\* The calls on e after one has begun.
LEMMA BusyBegun ==
    ASSUME TypeOK, NEW t \in Caller, NEW e \in Elem, call[t] = Idle,
           NEW op \in {"CREATE", "RESCHED", "DELETE", "KEEP"},
           call' = [call EXCEPT ![t] = Half(op, e)]
    PROVE  /\ Busy(e)' = Busy(e) \cup {t}
           /\ t \notin Busy(e)
           /\ call'[t].op = op
           /\ \A u \in Busy(e) : call'[u] = call[u]
  <1>1. /\ \A u \in Caller \ {t} : call'[u] = call[u]
        /\ call'[t] = Half(op, e)
    BY DEF TypeOK
  <1>2. Half(op, e) # Idle /\ Half(op, e).elem = e /\ Half(op, e).op = op
    BY DEF Half, Idle
  <1>3. QED
    BY <1>1, <1>2 DEF Busy

\* A call on e that its owner begins.
LEMMA OwnedBegun ==
    ASSUME TypeOK, Owned, NEW t \in Caller, NEW e \in Elem, call[t] = Idle,
           NEW op \in {"RESCHED", "DELETE", "KEEP"}, e \in handle,
           call' = [call EXCEPT ![t] = Half(op, e)],
           crossed' = crossed \cup CrossedBy(e, op),
           opcode' \in {opcode, [opcode EXCEPT ![e] = "RESCHED"]},
           UNCHANGED <<freed, linked, reschd_list, handle, cur, pc>>
    PROVE  Owned'
  <1>1. ASSUME NEW x \in Elem \ {e} PROVE OwnedAt(x)'
    <2>1. Busy(x)' = Busy(x) /\ \A u \in Busy(x) : call'[u] = call[u]
      BY BusyElsewhere
    <2>2. opcode'[x] = opcode[x] /\ (x \in crossed => x \in crossed')
      BY DEF TypeOK
    <2>3. QED
      BY <2>1, <2>2, OwnedAtKept DEF Owned
  <1>2. OwnedAt(e)'
    <2>1. SUFFICES ASSUME e \notin crossed' PROVE OwnedAt(e)'
      BY DEF OwnedAt
    <2>2. e \notin crossed /\ \A u \in Busy(e) : op # "DELETE" /\ call[u].op # "DELETE"
      BY <2>1 DEF CrossedBy
    <2>3. e \notin freed /\ opcode[e] # "DELETE"
      BY <2>2 DEF Owned, OwnedAt
    <2>4. opcode'[e] # "DELETE"
      BY <2>3 DEF TypeOK
    <2>5. /\ Busy(e)' = Busy(e) \cup {t} /\ call'[t].op = op
          /\ \A u \in Busy(e) : call'[u] = call[u]
      BY BusyBegun
    <2>6. QED
      BY <2>2, <2>3, <2>4, <2>5 DEF OwnedAt
  <1>3. QED
    BY <1>1, <1>2 DEF Owned

\* A call on e that links it.
LEMMA OwnedLinked ==
    ASSUME TypeOK, Owned, NEW t \in Caller, LinkElem(t)
    PROVE  Owned'
  <1>1. PICK e \in Elem, op \in {"CREATE", "RESCHED", "DELETE", "KEEP"} :
          call[t].elem = e /\ call[t].op = op
    BY DEF LinkElem, TypeOK, Idle
  <1>2. /\ opcode' = [opcode EXCEPT ![e] = IF op = "KEEP" THEN opcode[e] ELSE op]
        /\ reschd_list' = reschd_list \cup {e}
        /\ call' = [call EXCEPT ![t] = Idle]
        /\ UNCHANGED <<linked, cur, pc, freed, crossed>>
    BY <1>1 DEF LinkElem, OpcodeAfter, slotVars, wheelVars
  <1>3. /\ op = "CREATE" => handle' = handle \cup {e}
        /\ op = "DELETE" => handle' = handle \ {e}
        /\ op \in {"RESCHED", "KEEP"} => handle' = handle
    BY <1>1 DEF LinkElem
  <1>4. ASSUME NEW x \in Elem \ {e} PROVE OwnedAt(x)'
    <2>1. Busy(x)' = Busy(x) /\ \A u \in Busy(x) : call'[u] = call[u]
      BY <1>1, <1>2, BusyElsewhere
    <2>2. opcode'[x] = opcode[x] /\ (x \in handle' <=> x \in handle)
      BY <1>2, <1>3 DEF TypeOK
    <2>3. QED
      BY <1>2, <2>1, <2>2, OwnedAtKept DEF Owned
  <1>5. OwnedAt(e)'
    <2>1. SUFFICES ASSUME e \notin crossed PROVE OwnedAt(e)'
      BY <1>2 DEF OwnedAt
    <2>2. t \in Busy(e)
      BY <1>1 DEF Busy, LinkElem
    <2>3. e \notin freed /\ opcode[e] # "DELETE"
      BY <2>1, <2>2 DEF Owned, OwnedAt
    <2>4. Busy(e)' = Busy(e) \ {t} /\ \A u \in Busy(e)' : call'[u] = call[u]
      BY <1>1, <1>2 DEF Busy, TypeOK
    <2>5. op = "DELETE" => Busy(e)' = {} /\ e \notin handle'
      BY <1>1, <1>3, <2>1, <2>2, <2>4 DEF Owned, OwnedAt
    <2>6. opcode'[e] = "DELETE" => op = "DELETE"
      BY <1>2, <2>3 DEF TypeOK
    <2>7. QED
      BY <1>2, <2>1, <2>3, <2>4, <2>5, <2>6 DEF Owned, OwnedAt
  <1>6. QED
    BY <1>2, <1>4, <1>5 DEF Owned

\* Freed memory is never in a slot, in the reschedule list, in use by a
\* callback or within a client's reach, unless calls on the element have
\* crossed: a request that merely crosses the wheel's work, the reuse of the
\* memory or calls on other elements leave no link behind
\* (process_wt_reschedule_slotlist, _wt_elem_reschedule).
THEOREM NeverDangling == Safety => []NoDangling
  <1>1. Init => Owned
    BY DEF Init, Owned, OwnedAt, Busy
  <1>2. TypeOK /\ Owned /\ [Next]_vars => Owned'
    <2> SUFFICES ASSUME TypeOK, Owned, [Next]_vars PROVE Owned'
      OBVIOUS
    <2> USE DEF wheelVars, slotVars, appVars
    <2>a. \A x \in Elem : OwnedAt(x)
      BY DEF Owned
    <2>b. ASSUME UNCHANGED <<call, opcode, freed, linked, reschd_list, handle, cur, crossed>>
          PROVE  \A x \in Elem : OwnedAt(x)'
      BY <2>a, <2>b, OwnedAtKept DEF Busy
    <2>1. ASSUME NEW t \in Caller, NEW e \in Elem, NEW n \in Interval,
                 NEW r \in BOOLEAN, RegisterAppEvent(t, e, n, r)
          PROVE  Owned'
      <3>1. /\ call[t] = Idle /\ call' = [call EXCEPT ![t] = Half("CREATE", e)]
            /\ e \in freed /\ freed' = freed \ {e}
            /\ opcode' = [opcode EXCEPT ![e] = "CREATE"]
            /\ crossed \subseteq crossed'
            /\ UNCHANGED <<linked, reschd_list, handle, cur, pc>>
        BY <2>1 DEF RegisterAppEvent, MayCall
      <3>2. ASSUME NEW x \in Elem \ {e} PROVE OwnedAt(x)'
        <4>1. Busy(x)' = Busy(x) /\ \A u \in Busy(x) : call'[u] = call[u]
          BY <3>1, BusyElsewhere
        <4>2. QED
          BY <2>a, <3>1, <4>1, OwnedAtKept DEF TypeOK
      <3>3. OwnedAt(e)'
        <4>1. Busy(e)' = Busy(e) \cup {t}
          BY <3>1, BusyBegun
        <4>2. e \notin freed' /\ opcode'[e] = "CREATE"
          BY <3>1 DEF TypeOK
        <4>3. e \notin crossed => Busy(e) = {}
          BY <2>a, <3>1 DEF OwnedAt
        <4>4. QED
          BY <3>1, <4>1, <4>2, <4>3 DEF OwnedAt
      <3>4. QED
        BY <3>1, <3>2, <3>3 DEF Owned
    <2>2. ASSUME NEW t \in Caller, NEW e \in Elem, DeRegisterAppEvent(t, e)
          PROVE  Owned'
      BY <2>2, OwnedBegun DEF DeRegisterAppEvent, MayCallOn, MayCall
    <2>3. ASSUME NEW t \in Caller, NEW e \in Elem, NEW n \in Interval,
                 WtElemReschedule(t, e, n)
          PROVE  Owned'
      BY <2>3, OwnedBegun DEF WtElemReschedule, MayCallOn, MayCall
    <2>4. ASSUME NEW t \in Caller, NEW e \in Elem, NEW n \in Interval,
                 TimerReschedule(t, e, n)
          PROVE  Owned'
      BY <2>4, OwnedBegun DEF TimerReschedule, MayCallOn, MayCall
    <2>5. ASSUME NEW t \in Caller, Link(t) PROVE Owned'
      BY <2>5, OwnedLinked DEF Link
    <2>6. ASSUME NEW t \in Caller, LinkFreed(t) PROVE Owned'
      BY <2>6, OwnedLinked DEF LinkFreed
    <2>7. CASE Wake
      BY <2>7, <2>b DEF Wake, Owned
    <2>8. ASSUME NEW e \in Elem, Invoke(e) PROVE Owned'
      <3>1. /\ e \in linked /\ cur' = {e} /\ pc' = "callback"
            /\ UNCHANGED <<call, opcode, freed, linked, reschd_list, handle, crossed>>
        BY <2>8 DEF Invoke, Due
      <3>2. QED
        BY <2>a, <3>1, OwnedAtKept DEF Owned, Busy
    <2>9. ASSUME NEW e \in Elem, InvokeCleared(e) PROVE Owned'
      <3>1. /\ e \in linked /\ linked' = linked \cup {e}
            /\ UNCHANGED <<call, opcode, freed, reschd_list, handle, cur, crossed, pc>>
        BY <2>9 DEF InvokeCleared, Due, Place
      <3>2. QED
        BY <2>a, <3>1, OwnedAtKept DEF Owned, Busy
    <2>10. ASSUME NEW e \in Elem, Return(e) PROVE Owned'
      <3>1. /\ e \in cur /\ cur' = {} /\ linked' \subseteq linked \cup {e}
            /\ UNCHANGED <<call, opcode, freed, reschd_list, handle, crossed>>
        BY <2>10 DEF Return, Place
      <3>2. QED
        BY <2>a, <3>1, OwnedAtKept DEF Owned, Busy
    <2>11. CASE StartList
      BY <2>11, <2>b DEF StartList, Owned
    <2>12. ASSUME NEW e \in Elem, ProcessReschedule(e) PROVE Owned'
      <3>1. /\ e \in reschd_list /\ linked' = linked \cup {e}
            /\ reschd_list' = reschd_list \ {e}
            /\ opcode' = [opcode EXCEPT ![e] = "SCHEDULED"]
            /\ crossed \subseteq crossed'
            /\ UNCHANGED <<call, freed, handle, cur, pc>>
        BY <2>12 DEF ProcessReschedule, Place
      <3>2. ASSUME NEW x \in Elem PROVE OwnedAt(x)'
        <4>1. opcode'[x] = "DELETE" => opcode[x] = "DELETE"
          BY <3>1 DEF TypeOK
        <4>2. QED
          BY <2>a, <3>1, <4>1, OwnedAtKept DEF Busy
      <3>3. QED
        BY <3>1, <3>2 DEF Owned
    <2>13. ASSUME NEW e \in Elem, ProcessDelete(e) PROVE Owned'
      <3>1. /\ e \in reschd_list /\ linked' = linked \ {e} /\ pc = "list" /\ pc' = pc
            /\ reschd_list' = reschd_list \ {e} /\ opcode[e] = "DELETE"
            /\ opcode' = [opcode EXCEPT ![e] = "CREATE"] /\ freed' = freed \cup {e}
            /\ UNCHANGED <<call, handle, cur, crossed>>
        BY <2>13 DEF ProcessDelete, Unlink
      <3>2. ASSUME NEW x \in Elem \ {e} PROVE OwnedAt(x)'
        BY <2>a, <3>1, OwnedAtKept DEF Busy, TypeOK
      <3>3. OwnedAt(e)'
        <4>1. cur = {} /\ opcode'[e] = "CREATE" /\ Busy(e)' = Busy(e)
          BY <3>1 DEF Owned, Busy, TypeOK
        <4>2. e \notin crossed => e \notin handle /\ Busy(e) = {}
          BY <2>a, <3>1 DEF OwnedAt
        <4>3. QED
          BY <3>1, <4>1, <4>2 DEF OwnedAt
      <3>4. QED
        BY <3>1, <3>2, <3>3 DEF Owned
    <2>14. ASSUME NEW e \in Elem, ProcessUnknown(e) PROVE Owned'
      BY <2>14, <2>b DEF ProcessUnknown, Owned
    <2>15. CASE Advance
      BY <2>15, <2>b DEF Advance, Owned
    <2>16. CASE UNCHANGED vars
      BY <2>16, <2>b DEF vars, Owned
    <2>17. QED
      BY <2>1, <2>2, <2>3, <2>4, <2>5, <2>6, <2>7, <2>8, <2>9, <2>10, <2>11,
         <2>12, <2>13, <2>14, <2>15, <2>16 DEF Next, WheelStep, CallerStep
  <1>3. TypeOK /\ Owned => NoDangling
    BY DEF Owned, OwnedAt, NoDangling, TypeOK
  <1>4. QED
    BY <1>1, <1>2, <1>3, TypeCorrect, PTL DEF Safety

\* A step that takes no element out of the lists, allocates none and ends no
\* call loses none.
LEMMA NoneLostKept ==
    ASSUME NoneLost, linked \subseteq linked', reschd_list' = reschd_list,
           \A t \in Caller : call[t] # Idle => call'[t] = call[t],
           freed \subseteq freed'
    PROVE  NoneLost'
  <1> SUFFICES ASSUME NEW e \in Elem, (e \notin freed /\ Busy(e) = {})'
               PROVE  (e \in linked \cup reschd_list)'
    BY DEF NoneLost
  <1>1. Busy(e) \subseteq Busy(e)'
    BY DEF Busy
  <1>2. QED
    BY <1>1 DEF NoneLost

\* No element in use falls out of both lists, however calls for it cross the
\* wheel's work on it: between two calls it is in a slot or waits in the
\* reschedule list.
THEOREM NeverLost == Safety => []NoneLost
  <1>1. Init => NoneLost
    BY DEF Init, NoneLost
  <1>2. TypeOK /\ NoneLost /\ [Next]_vars => NoneLost'
    <2> SUFFICES ASSUME TypeOK, NoneLost, [Next]_vars PROVE NoneLost'
      OBVIOUS
    <2> USE DEF wheelVars, slotVars, appVars
    <2>1. ASSUME NEW t \in Caller, NEW e \in Elem, NEW n \in Interval,
                 NEW r \in BOOLEAN, RegisterAppEvent(t, e, n, r)
          PROVE  NoneLost'
      <3> SUFFICES ASSUME NEW x \in Elem, (x \notin freed /\ Busy(x) = {})'
                   PROVE  (x \in linked \cup reschd_list)'
        BY DEF NoneLost
      <3>1. call'[t] = Half("CREATE", e) /\ Half("CREATE", e) # Idle
        BY <2>1 DEF RegisterAppEvent, TypeOK, Half, Idle
      <3>2. x # e
        BY <3>1 DEF Busy, Half
      <3>3. Busy(x) \subseteq Busy(x)'
        BY <2>1 DEF RegisterAppEvent, MayCall, Busy, TypeOK
      <3>4. x \notin freed
        BY <2>1, <3>2 DEF RegisterAppEvent
      <3>5. QED
        BY <2>1, <3>3, <3>4 DEF RegisterAppEvent, NoneLost
    <2>2. ASSUME NEW t \in Caller, NEW e \in Elem, DeRegisterAppEvent(t, e)
          PROVE  NoneLost'
      BY <2>2, NoneLostKept DEF DeRegisterAppEvent, MayCallOn, MayCall, TypeOK
    <2>3. ASSUME NEW t \in Caller, NEW e \in Elem, NEW n \in Interval,
                 WtElemReschedule(t, e, n)
          PROVE  NoneLost'
      BY <2>3, NoneLostKept DEF WtElemReschedule, MayCallOn, MayCall, TypeOK
    <2>4. ASSUME NEW t \in Caller, NEW e \in Elem, NEW n \in Interval,
                 TimerReschedule(t, e, n)
          PROVE  NoneLost'
      BY <2>4, NoneLostKept DEF TimerReschedule, MayCallOn, MayCall, TypeOK
    <2>5. ASSUME NEW t \in Caller, LinkElem(t) PROVE NoneLost'
      <3> SUFFICES ASSUME NEW x \in Elem, (x \notin freed /\ Busy(x) = {})'
                   PROVE  (x \in linked \cup reschd_list)'
        BY DEF NoneLost
      <3>1. PICK e \in Elem : call[t].elem = e
        BY <2>5 DEF LinkElem, TypeOK, Idle
      <3>2. CASE x = e
        BY <2>5, <3>1, <3>2 DEF LinkElem
      <3>3. CASE x # e
        <4>1. Busy(x) \subseteq Busy(x)'
          BY <2>5, <3>1, <3>3 DEF LinkElem, Busy, TypeOK
        <4>2. QED
          BY <2>5, <4>1 DEF LinkElem, NoneLost
      <3>4. QED
        BY <3>2, <3>3
    <2>6. ASSUME NEW t \in Caller, Link(t) \/ LinkFreed(t) PROVE NoneLost'
      BY <2>5, <2>6 DEF Link, LinkFreed
    <2>7. CASE Wake
      BY <2>7, NoneLostKept DEF Wake
    <2>8. ASSUME NEW e \in Elem, Invoke(e) PROVE NoneLost'
      BY <2>8, NoneLostKept DEF Invoke
    <2>9. ASSUME NEW e \in Elem, InvokeCleared(e) PROVE NoneLost'
      BY <2>9, NoneLostKept DEF InvokeCleared, Place
    <2>10. ASSUME NEW e \in Elem, Return(e) PROVE NoneLost'
      BY <2>10, NoneLostKept DEF Return, Place
    <2>11. CASE StartList
      BY <2>11, NoneLostKept DEF StartList
    <2>12. ASSUME NEW e \in Elem, ProcessReschedule(e) PROVE NoneLost'
      BY <2>12 DEF ProcessReschedule, Place, NoneLost, Busy, TypeOK
    <2>13. ASSUME NEW e \in Elem, ProcessDelete(e) PROVE NoneLost'
      BY <2>13 DEF ProcessDelete, Unlink, NoneLost, Busy, TypeOK
    <2>14. ASSUME NEW e \in Elem, ProcessUnknown(e) PROVE NoneLost'
      BY <2>14, NoneLostKept DEF ProcessUnknown
    <2>15. CASE Advance
      BY <2>15, NoneLostKept DEF Advance
    <2>16. CASE UNCHANGED vars
      BY <2>16, NoneLostKept DEF vars
    <2>17. QED
      BY <2>1, <2>2, <2>3, <2>4, <2>6, <2>7, <2>8, <2>9, <2>10, <2>11,
         <2>12, <2>13, <2>14, <2>15, <2>16 DEF Next, WheelStep, CallerStep
  <1>3. QED
    BY <1>1, <1>2, TypeCorrect, PTL DEF Safety

-----------------------------------------------------------------------------
(* Until calls have crossed.                                               *)

\* The rest of the module is about what holds while no calls have crossed.
\* Then NoDangling says the same of every element.
NoneDangles == \A e \in freed : e \notin linked \cup reschd_list \cup handle \cup cur

\* Which calls may be under way, and what the opcode of an element says.
CallsApart ==
    /\ \A t, u \in Caller :
         call[t] # Idle /\ call[u] # Idle /\ call[t].elem = call[u].elem /\ t # u
           => call[t].op \in {"RESCHED", "KEEP"}
    /\ \A t \in Caller : call[t] # Idle =>
         /\ call[t].elem \notin freed
         /\ opcode[call[t].elem] # "DELETE"
         /\ call[t].op = "CREATE" => call[t].elem \notin handle
         /\ call[t].op = "KEEP" => opcode[call[t].elem] \in {"CREATE", "RESCHED"}
         /\ call[t].op = "DELETE" => ~arg[call[t].elem]
    /\ \A e \in Elem :
         /\ e \in reschd_list => opcode[e] \in {"CREATE", "RESCHED", "DELETE"}
         /\ opcode[e] = "DELETE" => e \in reschd_list \ handle /\ ~arg[e]
         /\ e \notin freed /\ arg[e] => new_time_interval[e] >= 1
         /\ e \notin freed /\ ~arg[e] =>
              \/ opcode[e] = "DELETE"
              \/ \E t \in Caller : call[t] = Half("DELETE", e)

\* How far the wheel is from the elements in its slots.
SlotsTimed ==
    \A e \in linked :
        /\ Remaining(e) \in -1 .. MaxInterval
        /\ Remaining(e) = -1 => ~arg[e] /\ (pc # "sleep" => opcode[e] = "DELETE")
        /\ pc = "list" /\ arg[e] => Remaining(e) >= 1
        /\ Remaining(e) >= (IF pc = "list" THEN 1 ELSE 0) => time_interval[e] >= 1

ApartInv ==
    /\ fault = "none"
    /\ CallsApart
    /\ SlotsTimed
    /\ \A e \in cur : Due(e) /\ pc = "callback"

-----------------------------------------------------------------------------
(* The distance of an element.                                             *)

LEMMA PlaceDivides ==
    ASSUME NEW c \in 0 .. WheelSize - 1, NEW n \in 0 .. MaxInterval
    PROVE  ((c + n) \div WheelSize) * WheelSize + ((c + n) % WheelSize) - c = n
  <1> DEFINE q == (c + n) \div WheelSize
             r == (c + n) % WheelSize
  <1>1. WheelSize \in Nat \ {0} /\ c + n \in Int /\ c \in Int /\ n \in Int
    BY WheelAssumption
  <1>2. q \in Int /\ r \in Int /\ c + n = q * WheelSize + r
    BY <1>1
  <1> HIDE DEF q, r
  <1>3. q * WheelSize \in Int
    BY <1>1, <1>2
  <1>4. q * WheelSize + r - c = n
    BY <1>1, <1>2, <1>3
  <1>5. QED
    BY <1>4 DEF q, r

\* Place puts an element n ticks ahead, and no other one elsewhere.
LEMMA RemainingOfPlace ==
    ASSUME TypeOK, NEW e \in Elem, NEW n \in 0 .. MaxInterval, Place(e, n),
           current_clock_tic' = current_clock_tic
    PROVE  /\ Remaining(e)' = n
           /\ \A x \in Elem \ {e} : Remaining(x)' = Remaining(x)
  <1> DEFINE q == (current_clock_tic + n) \div WheelSize
             r == (current_clock_tic + n) % WheelSize
  <1>1. q * WheelSize + r - current_clock_tic = n
    BY PlaceDivides DEF TypeOK
  <1>2. slot_no'[e] = r /\ rounds'[e] = q
    BY DEF Place, TypeOK
  <1> HIDE DEF q, r
  <1>3. Remaining(e)' = n
    BY <1>1, <1>2 DEF Remaining
  <1>4. ASSUME NEW x \in Elem \ {e} PROVE Remaining(x)' = Remaining(x)
    BY <1>4 DEF Place, TypeOK, Remaining
  <1>5. QED
    BY <1>3, <1>4

\* A whole turn is worth more than the distance between two slots.
LEMMA Turns ==
    ASSUME NEW r \in Int, NEW d \in Int, NEW w \in Nat, -w < d, d < w
    PROVE  /\ r * w + d \in Int
           /\ r * w + d = 0 <=> r = 0 /\ d = 0
           /\ r * w + d >= 0 => r >= 0
           /\ r < 0 => r * w <= -w
           /\ r * w - w + d = (r - 1) * w + d
  <1>1. r >= 1 => r * w >= w
    <2>1. r >= 1 => (r - 1) * w >= 0
      OBVIOUS
    <2>2. (r - 1) * w = r * w - w
      OBVIOUS
    <2>3. r * w \in Int
      OBVIOUS
    <2>4. QED
      BY <2>1, <2>2, <2>3
  <1>2. r <= -1 => r * w <= -w
    <2>1. r <= -1 => (-1 - r) * w >= 0
      OBVIOUS
    <2>2. (-1 - r) * w = -w - r * w
      OBVIOUS
    <2>3. r * w \in Int
      OBVIOUS
    <2>4. QED
      BY <2>1, <2>2, <2>3
  <1>3. r = 0 => r * w = 0
    OBVIOUS
  <1>4. r * w \in Int /\ (r - 1) * w = r * w - w
    OBVIOUS
  <1>5. QED
    BY <1>1, <1>2, <1>3, <1>4

\* The distance of a place is zero in the current slot and cycle only.
LEMMA Distance ==
    ASSUME NEW r \in Int, NEW s \in 0 .. WheelSize - 1, NEW c \in 0 .. WheelSize - 1
    PROVE  /\ r * WheelSize + s - c \in Int
           /\ r * WheelSize + s - c = 0 <=> s = c /\ r = 0
           /\ r * WheelSize + s - c >= 0 => r >= 0
           /\ s = c /\ r < 0 => r * WheelSize + s - c <= -WheelSize
  <1> DEFINE d == s - c
  <1>1. /\ WheelSize \in Nat /\ d \in Int /\ -WheelSize < d /\ d < WheelSize
        /\ d = 0 <=> s = c
    BY WheelAssumption
  <1>2. r * WheelSize \in Int
    BY <1>1
  <1>3. r * WheelSize + s - c = r * WheelSize + d
    BY <1>1, <1>2
  <1> HIDE DEF d
  <1>4. QED
    BY <1>1, <1>2, <1>3, Turns

LEMMA RemainingRange ==
    ASSUME TypeOK, NEW e \in Elem
    PROVE  /\ Remaining(e) \in Int
           /\ Remaining(e) = 0 <=> slot_no[e] = current_clock_tic /\ rounds[e] = 0
           /\ Remaining(e) >= 0 => rounds[e] >= 0
           /\ slot_no[e] = current_clock_tic /\ rounds[e] < 0 => Remaining(e) <= -WheelSize
  <1>1. /\ rounds[e] \in Int /\ slot_no[e] \in 0 .. WheelSize - 1
        /\ current_clock_tic \in 0 .. WheelSize - 1
    BY DEF TypeOK
  <1>2. QED
    BY <1>1, Distance DEF Remaining

LEMMA RemainingRangeNext ==
    ASSUME TypeOK', NEW e \in Elem
    PROVE  Remaining(e)' = 0 <=> slot_no'[e] = current_clock_tic' /\ rounds'[e] = 0
  <1>1. /\ rounds'[e] \in Int /\ slot_no'[e] \in 0 .. WheelSize - 1
        /\ current_clock_tic' \in 0 .. WheelSize - 1
    BY DEF TypeOK
  <1>2. QED
    BY <1>1, Distance DEF Remaining

\* On a wheel of more than one slot an element that the wheel has passed is gone
\* before the wheel comes round.
LEMMA NotBlocked ==
    ASSUME TypeOK, SlotsTimed, WheelSize > 1
    PROVE  ~Blocked
  <1>1. SUFFICES ASSUME NEW e \in linked, slot_no[e] = current_clock_tic, rounds[e] < 0
                 PROVE  FALSE
    BY DEF Blocked
  <1>2. e \in Elem /\ Remaining(e) <= -WheelSize /\ Remaining(e) \in Int
    BY <1>1, RemainingRange DEF TypeOK
  <1>3. Remaining(e) >= -1
    BY <1>2 DEF SlotsTimed
  <1>4. QED
    BY <1>2, <1>3, WheelAssumption

\* A tick brings every element that is ahead one tick nearer.
LEMMA RemainingOfAdvance ==
    ASSUME TypeOK, Advance, NEW e \in linked, Remaining(e) >= 0
    PROVE  Remaining(e)' = Remaining(e) - 1
  <1>1. /\ e \in Elem /\ rounds[e] \in Int /\ slot_no[e] \in Int
        /\ current_clock_tic \in Int /\ WheelSize \in Nat /\ rounds[e] * WheelSize \in Int
        /\ rounds \in [Elem -> Int]
    BY WheelAssumption DEF TypeOK
  <1>2. rounds[e] >= 0
    BY <1>1, RemainingRange
  <1>3. CASE NextTic = 0
    <2>1. current_clock_tic = WheelSize - 1
      BY <1>1, <1>3, WheelAssumption DEF NextTic, TypeOK
    <2>2. rounds'[e] = rounds[e] - 1 /\ slot_no'[e] = slot_no[e] /\ current_clock_tic' = 0
      BY <1>1, <1>2, <1>3 DEF Advance
    <2>3. (rounds[e] - 1) * WheelSize = rounds[e] * WheelSize - WheelSize
      BY <1>1
    <2>4. QED
      BY <1>1, <2>1, <2>2, <2>3 DEF Remaining
  <1>4. CASE NextTic # 0
    <2>1. rounds' = rounds /\ slot_no' = slot_no /\ current_clock_tic' = current_clock_tic + 1
      BY <1>4 DEF Advance, NextTic
    <2>2. QED
      BY <1>1, <2>1 DEF Remaining
  <1>5. QED
    BY <1>3, <1>4

-----------------------------------------------------------------------------
(* The calls stay apart.                                                   *)

\* Steps of the wheel that change no opcode and free nothing.
LEMMA CallsApartKept ==
    ASSUME CallsApart, UNCHANGED <<appVars, reschd_list, opcode, freed>>
    PROVE  CallsApart'
  BY DEF CallsApart, appVars

\* A call on e that its owner begins without crossing another.
LEMMA CallsApartBegun ==
    ASSUME TypeOK, CallsApart, NoneDangles, NEW t \in Caller, NEW e \in Elem,
           NEW op \in {"RESCHED", "DELETE", "KEEP"}, NEW n \in 0 .. MaxInterval,
           call[t] = Idle, e \in handle, CrossedBy(e, op) = {},
           op # "DELETE" => n >= 1,
           call' = [call EXCEPT ![t] = Half(op, e)],
           arg' = IF op = "DELETE" THEN [arg EXCEPT ![e] = FALSE] ELSE arg,
           opcode' = IF op = "KEEP" THEN [opcode EXCEPT ![e] = "RESCHED"] ELSE opcode,
           new_time_interval' = [new_time_interval EXCEPT ![e] = n],
           UNCHANGED <<freed, reschd_list, handle>>
    PROVE  CallsApart'
  <1>0. \A u \in Caller : call[u] # Idle /\ call[u].elem = e =>
          op \in {"RESCHED", "KEEP"} /\ call[u].op \in {"RESCHED", "KEEP"}
    <2> SUFFICES ASSUME NEW u \in Caller, call[u] # Idle, call[u].elem = e
                 PROVE  op \in {"RESCHED", "KEEP"} /\ call[u].op \in {"RESCHED", "KEEP"}
      OBVIOUS
    <2>1. u \in Busy(e)
      BY DEF Busy
    <2>2. "DELETE" \notin {op, call[u].op}
      BY <2>1 DEF CrossedBy
    <2>3. call[u].op \in {"CREATE", "RESCHED", "DELETE", "KEEP"} /\ call[u].op # "CREATE"
      BY DEF TypeOK, Idle, CallsApart
    <2>4. QED
      BY <2>2, <2>3
  <1>1. e \notin freed /\ opcode[e] # "DELETE"
    BY DEF NoneDangles, CallsApart
  <1>2. /\ call'[t] = Half(op, e)
        /\ \A u \in Caller \ {t} : call'[u] = call[u]
        /\ Half(op, e) # Idle /\ Half(op, e).elem = e /\ Half(op, e).op = op
    BY DEF TypeOK, Half, Idle
  <1>3. arg[e] /\ (op = "DELETE" => ~arg'[e]) /\ (op # "DELETE" => arg'[e] = arg[e])
        /\ \A x \in Elem \ {e} : arg'[x] = arg[x]
    <2>1. ~ \E u \in Caller : call[u] = Half("DELETE", e)
      BY <1>0 DEF Half, Idle
    <2>2. QED
      BY <1>1, <2>1 DEF CallsApart, TypeOK
  <1>4. /\ new_time_interval'[e] = n
        /\ \A x \in Elem \ {e} : new_time_interval'[x] = new_time_interval[x]
    BY DEF TypeOK
  <1>5. /\ opcode'[e] = IF op = "KEEP" THEN "RESCHED" ELSE opcode[e]
        /\ \A x \in Elem \ {e} : opcode'[x] = opcode[x]
    BY DEF TypeOK
  <1>6. ASSUME NEW u \in Caller, NEW v \in Caller, call'[u] # Idle, call'[v] # Idle,
               call'[u].elem = call'[v].elem, u # v
        PROVE  call'[u].op \in {"RESCHED", "KEEP"}
    <2>1. CASE u = t
      BY <2>1, <1>0, <1>2, <1>6
    <2>2. CASE v = t
      BY <2>2, <1>0, <1>2, <1>6
    <2>3. CASE u # t /\ v # t
      BY <2>3, <1>2, <1>6 DEF CallsApart
    <2>4. QED
      BY <2>1, <2>2, <2>3
  <1>7. ASSUME NEW u \in Caller, call'[u] # Idle
        PROVE  /\ call'[u].elem \notin freed
               /\ opcode'[call'[u].elem] # "DELETE"
               /\ call'[u].op = "CREATE" => call'[u].elem \notin handle
               /\ call'[u].op = "KEEP" => opcode'[call'[u].elem] \in {"CREATE", "RESCHED"}
               /\ call'[u].op = "DELETE" => ~arg'[call'[u].elem]
    <2>1. CASE u = t
      BY <2>1, <1>1, <1>2, <1>3, <1>5
    <2>2. CASE u # t
      <3>1. call'[u] = call[u] /\ call[u].elem \in Elem
        BY <2>2, <1>2, <1>7 DEF TypeOK, Idle
      <3>2. CASE call[u].elem = e
        BY <3>1, <3>2, <1>0, <1>1, <1>5, <1>7 DEF CallsApart
      <3>3. CASE call[u].elem # e
        BY <3>1, <3>3, <1>3, <1>5, <1>7 DEF CallsApart
      <3>4. QED
        BY <3>2, <3>3
    <2>3. QED
      BY <2>1, <2>2
  <1>8. ASSUME NEW x \in Elem
        PROVE  /\ x \in reschd_list => opcode'[x] \in {"CREATE", "RESCHED", "DELETE"}
               /\ opcode'[x] = "DELETE" => x \in reschd_list \ handle /\ ~arg'[x]
               /\ x \notin freed /\ arg'[x] => new_time_interval'[x] >= 1
               /\ x \notin freed /\ ~arg'[x] =>
                    opcode'[x] = "DELETE" \/ \E u \in Caller : call'[u] = Half("DELETE", x)
    <2>1. CASE x = e
      BY <2>1, <1>1, <1>2, <1>3, <1>4, <1>5 DEF CallsApart
    <2>2. CASE x # e
      <3>1. \A u \in Caller : call[u] = Half("DELETE", x) => call'[u] = Half("DELETE", x)
        BY <1>2 DEF Half, Idle
      <3>2. QED
        BY <2>2, <3>1, <1>3, <1>4, <1>5 DEF CallsApart
    <2>3. QED
      BY <2>1, <2>2
  <1>9. QED
    BY <1>6, <1>7, <1>8 DEF CallsApart

\* Calls that have not crossed stay apart, with the wheel at work on their
\* elements.
LEMMA CallsApartStep ==
    ASSUME TypeOK, NoneDangles, CallsApart, [Next]_vars, crossed' = {}
    PROVE  CallsApart'
  <1> USE DEF wheelVars, slotVars
  <1>1. ASSUME NEW t \in Caller, NEW e \in Elem, NEW n \in Interval,
               NEW r \in BOOLEAN, RegisterAppEvent(t, e, n, r)
        PROVE  CallsApart'
    <2>1. /\ e \in freed /\ e \notin handle /\ opcode'[e] = "CREATE"
          /\ freed' = freed \ {e}
          /\ arg'[e] = TRUE /\ new_time_interval'[e] = n
          /\ \A x \in Elem \ {e} : /\ opcode'[x] = opcode[x] /\ arg'[x] = arg[x]
                                   /\ new_time_interval'[x] = new_time_interval[x]
          /\ UNCHANGED <<reschd_list, handle>>
      BY <1>1 DEF RegisterAppEvent, TypeOK, NoneDangles
    <2>2. /\ call[t] = Idle /\ call'[t] = Half("CREATE", e)
          /\ \A u \in Caller \ {t} : call'[u] = call[u]
          /\ Half("CREATE", e) # Idle
          /\ Half("CREATE", e).elem = e /\ Half("CREATE", e).op = "CREATE"
      BY <1>1 DEF RegisterAppEvent, MayCall, TypeOK, Half, Idle
    <2>3. \A u \in Caller : call[u] # Idle => call[u].elem \in Elem \ {e}
      BY <2>1 DEF CallsApart, TypeOK, Idle
    <2>4. \A u, v \in Caller :
            call'[u] # Idle /\ call'[v] # Idle /\ call'[u].elem = call'[v].elem /\ u # v
              => call'[u].op \in {"RESCHED", "KEEP"}
      BY <2>2, <2>3 DEF CallsApart
    <2>5. ASSUME NEW u \in Caller, call'[u] # Idle
          PROVE  /\ call'[u].elem \notin freed'
                 /\ opcode'[call'[u].elem] # "DELETE"
                 /\ call'[u].op = "CREATE" => call'[u].elem \notin handle
                 /\ call'[u].op = "KEEP" => opcode'[call'[u].elem] \in {"CREATE", "RESCHED"}
                 /\ call'[u].op = "DELETE" => ~arg'[call'[u].elem]
      <3>1. CASE u = t
        BY <3>1, <2>1, <2>2
      <3>2. CASE u # t
        BY <3>2, <2>1, <2>2, <2>3, <2>5 DEF CallsApart
      <3>3. QED
        BY <3>1, <3>2
    <2>6. ASSUME NEW x \in Elem
          PROVE  /\ x \in reschd_list => opcode'[x] \in {"CREATE", "RESCHED", "DELETE"}
                 /\ opcode'[x] = "DELETE" => x \in reschd_list \ handle /\ ~arg'[x]
                 /\ x \notin freed' /\ arg'[x] => new_time_interval'[x] >= 1
                 /\ x \notin freed' /\ ~arg'[x] =>
                      opcode'[x] = "DELETE" \/ \E u \in Caller : call'[u] = Half("DELETE", x)
      <3>1. CASE x = e
        BY <3>1, <2>1 DEF Interval
      <3>2. CASE x # e
        <4>1. \A u \in Caller : call[u] = Half("DELETE", x) => call'[u] = Half("DELETE", x)
          BY <2>2 DEF Half, Idle
        <4>2. QED
          BY <3>2, <4>1, <2>1 DEF CallsApart
      <3>3. QED
        BY <3>1, <3>2
    <2>7. QED
      BY <2>1, <2>4, <2>5, <2>6 DEF CallsApart
  <1>2. ASSUME NEW t \in Caller, NEW e \in Elem, DeRegisterAppEvent(t, e)
        PROVE  CallsApart'
    <2>1. 0 \in 0 .. MaxInterval /\ CrossedBy(e, "DELETE") = {}
      BY <1>2, WheelAssumption DEF DeRegisterAppEvent
    <2>2. QED
      BY <1>2, <2>1, CallsApartBegun DEF DeRegisterAppEvent, MayCallOn, MayCall
  <1>3. ASSUME NEW t \in Caller, NEW e \in Elem, NEW n \in Interval,
               WtElemReschedule(t, e, n)
        PROVE  CallsApart'
    <2>1. n \in 0 .. MaxInterval /\ n >= 1 /\ CrossedBy(e, "RESCHED") = {}
      BY <1>3, WheelAssumption DEF Interval, WtElemReschedule
    <2>2. QED
      BY <1>3, <2>1, CallsApartBegun DEF WtElemReschedule, MayCallOn, MayCall
  <1>4. ASSUME NEW t \in Caller, NEW e \in Elem, NEW n \in Interval,
               TimerReschedule(t, e, n)
        PROVE  CallsApart'
    <2>1. n \in 0 .. MaxInterval /\ n >= 1 /\ CrossedBy(e, "KEEP") = {}
      BY <1>4, WheelAssumption DEF Interval, TimerReschedule
    <2>2. QED
      BY <1>4, <2>1, CallsApartBegun DEF TimerReschedule, MayCallOn, MayCall
  <1>5. ASSUME NEW t \in Caller, Link(t) PROVE CallsApart'
    <2>1. PICK e \in Elem, op \in {"CREATE", "RESCHED", "DELETE", "KEEP"} :
            call[t].elem = e /\ call[t].op = op /\ call[t] # Idle /\ call[t] = Half(op, e)
      BY <1>5 DEF Link, LinkElem, TypeOK, Idle, Half
    <2>2. /\ opcode'[e] = IF op = "KEEP" THEN opcode[e] ELSE op
          /\ \A x \in Elem \ {e} : opcode'[x] = opcode[x]
          /\ reschd_list' = reschd_list \cup {e}
          /\ UNCHANGED <<arg, new_time_interval, freed>>
          /\ op = "DELETE" => handle' = handle \ {e}
          /\ op = "CREATE" => handle' = handle \cup {e}
          /\ op \in {"RESCHED", "KEEP"} => handle' = handle
      BY <1>5, <2>1 DEF Link, LinkElem, OpcodeAfter, TypeOK, appVars
    <2>3. /\ call'[t] = Idle
          /\ \A u \in Caller \ {t} : call'[u] = call[u]
      BY <1>5 DEF Link, LinkElem, TypeOK
    <2>4. \A u \in Caller : call'[u] # Idle =>
            /\ u # t /\ call'[u] = call[u] /\ call[u].elem \in Elem
            /\ call[u].elem = e => op \in {"RESCHED", "KEEP"} /\ call[u].op \in {"RESCHED", "KEEP"}
      BY <2>1, <2>3 DEF CallsApart, TypeOK, Idle
    <2>5. /\ e \notin freed /\ opcode[e] # "DELETE" /\ (op = "DELETE" <=> ~arg[e])
          /\ op = "KEEP" => opcode[e] \in {"CREATE", "RESCHED"}
      <3>1. /\ e \notin freed /\ opcode[e] # "DELETE" /\ (op = "DELETE" => ~arg[e])
            /\ op = "KEEP" => opcode[e] \in {"CREATE", "RESCHED"}
        BY <2>1 DEF CallsApart
      <3>2. ASSUME ~arg[e] PROVE op = "DELETE"
        <4>1. PICK u \in Caller : call[u] = Half("DELETE", e)
          BY <3>1, <3>2 DEF CallsApart
        <4>2. call[u] # Idle /\ call[u].elem = e /\ call[u].op = "DELETE"
          BY <4>1 DEF Half, Idle
        <4>3. u = t
          BY <2>1, <4>2 DEF CallsApart
        <4>4. QED
          BY <2>1, <4>2, <4>3
      <3>3. QED
        BY <3>1, <3>2
    <2>6. ASSUME NEW u \in Caller, call'[u] # Idle
          PROVE  /\ call'[u].elem \notin freed'
                 /\ opcode'[call'[u].elem] # "DELETE"
                 /\ call'[u].op = "CREATE" => call'[u].elem \notin handle'
                 /\ call'[u].op = "KEEP" => opcode'[call'[u].elem] \in {"CREATE", "RESCHED"}
                 /\ call'[u].op = "DELETE" => ~arg'[call'[u].elem]
      <3>1. CASE call[u].elem = e
        BY <3>1, <2>2, <2>4, <2>5, <2>6 DEF CallsApart
      <3>2. CASE call[u].elem # e
        BY <3>2, <2>2, <2>4, <2>6 DEF CallsApart
      <3>3. QED
        BY <3>1, <3>2
    <2>7. ASSUME NEW x \in Elem
          PROVE  /\ x \in reschd_list' => opcode'[x] \in {"CREATE", "RESCHED", "DELETE"}
                 /\ opcode'[x] = "DELETE" => x \in reschd_list' \ handle' /\ ~arg[x]
                 /\ x \notin freed /\ arg[x] => new_time_interval[x] >= 1
                 /\ x \notin freed /\ ~arg[x] =>
                      opcode'[x] = "DELETE" \/ \E u \in Caller : call'[u] = Half("DELETE", x)
      <3>1. CASE x = e
        BY <3>1, <2>2, <2>5 DEF CallsApart
      <3>2. CASE x # e
        <4>1. \A u \in Caller : call[u] = Half("DELETE", x) => call'[u] = Half("DELETE", x)
          BY <3>2, <2>1, <2>3 DEF Half, Idle
        <4>2. x \in handle' <=> x \in handle
          BY <2>1, <2>2, <3>2
        <4>3. QED
          BY <3>2, <4>1, <4>2, <2>2 DEF CallsApart
      <3>3. QED
        BY <3>1, <3>2
    <2>8. \A u, v \in Caller :
            call'[u] # Idle /\ call'[v] # Idle /\ call'[u].elem = call'[v].elem /\ u # v
              => call'[u].op \in {"RESCHED", "KEEP"}
      BY <2>4 DEF CallsApart
    <2>9. QED
      BY <2>2, <2>6, <2>7, <2>8 DEF CallsApart
  <1>6. ASSUME NEW t \in Caller, LinkFreed(t) PROVE CallsApart'
    BY <1>6 DEF LinkFreed, LinkElem, CallsApart
  <1>7. CASE Wake
    BY <1>7, CallsApartKept DEF Wake
  <1>8. ASSUME NEW e \in Elem, Invoke(e) PROVE CallsApart'
    BY <1>8, CallsApartKept DEF Invoke
  <1>9. ASSUME NEW e \in Elem, InvokeCleared(e) PROVE CallsApart'
    BY <1>9, CallsApartKept DEF InvokeCleared
  <1>10. ASSUME NEW e \in Elem, Return(e) PROVE CallsApart'
    BY <1>10, CallsApartKept DEF Return
  <1>11. CASE StartList
    BY <1>11, CallsApartKept DEF StartList
  <1>12. ASSUME NEW e \in Elem, ProcessReschedule(e) PROVE CallsApart'
    <2>1. /\ opcode[e] \in {"CREATE", "RESCHED"} /\ opcode'[e] = "SCHEDULED"
          /\ \A x \in Elem \ {e} : opcode'[x] = opcode[x]
          /\ reschd_list' = reschd_list \ {e}
          /\ CrossedByWheel(e) = {}
          /\ UNCHANGED <<arg, new_time_interval, handle, call, freed>>
      BY <1>12 DEF ProcessReschedule, appVars, TypeOK
    <2>2. \A u \in Caller : call[u] # Idle /\ call[u].op = "KEEP" =>
            call[u].elem \in Elem \ {e}
      BY <2>1 DEF TypeOK, Idle, CrossedByWheel, Busy
    <2>3. \A u \in Caller : call[u] # Idle =>
            /\ opcode'[call[u].elem] # "DELETE"
            /\ call[u].op = "KEEP" => opcode'[call[u].elem] \in {"CREATE", "RESCHED"}
      <3>1. \A u \in Caller : call[u] # Idle => call[u].elem \in Elem
        BY DEF TypeOK, Idle
      <3>2. QED
        BY <2>1, <2>2, <3>1 DEF CallsApart
    <2>4. ASSUME NEW x \in Elem
          PROVE  /\ x \in reschd_list' => opcode'[x] \in {"CREATE", "RESCHED", "DELETE"}
                 /\ opcode'[x] = "DELETE" => x \in reschd_list' \ handle /\ ~arg[x]
                 /\ x \notin freed /\ arg[x] => new_time_interval[x] >= 1
                 /\ x \notin freed /\ ~arg[x] =>
                      opcode'[x] = "DELETE" \/ \E u \in Caller : call[u] = Half("DELETE", x)
      <3>1. CASE x = e
        BY <3>1, <2>1 DEF CallsApart
      <3>2. CASE x # e
        BY <3>2, <2>1 DEF CallsApart
      <3>3. QED
        BY <3>1, <3>2
    <2>5. QED
      BY <2>1, <2>3, <2>4 DEF CallsApart
  <1>13. ASSUME NEW e \in Elem, ProcessDelete(e) PROVE CallsApart'
    <2>1. /\ opcode[e] = "DELETE" /\ opcode'[e] = "CREATE" /\ freed' = freed \cup {e}
          /\ reschd_list' = reschd_list \ {e}
          /\ \A x \in Elem \ {e} : /\ opcode'[x] = opcode[x] /\ arg'[x] = arg[x]
                                   /\ new_time_interval'[x] = new_time_interval[x]
          /\ UNCHANGED <<handle, call>>
      BY <1>13 DEF ProcessDelete, TypeOK
    <2>2. \A u \in Caller : call[u] # Idle => call[u].elem \in Elem \ {e}
      BY <2>1 DEF CallsApart, TypeOK, Idle
    <2>3. \A u \in Caller : call[u] # Idle =>
            /\ opcode'[call[u].elem] = opcode[call[u].elem]
            /\ arg'[call[u].elem] = arg[call[u].elem]
            /\ call[u].elem \in freed' <=> call[u].elem \in freed
      BY <2>1, <2>2
    <2>4. ASSUME NEW x \in Elem
          PROVE  /\ x \in reschd_list' => opcode'[x] \in {"CREATE", "RESCHED", "DELETE"}
                 /\ opcode'[x] = "DELETE" => x \in reschd_list' \ handle /\ ~arg'[x]
                 /\ x \notin freed' /\ arg'[x] => new_time_interval'[x] >= 1
                 /\ x \notin freed' /\ ~arg'[x] =>
                      opcode'[x] = "DELETE" \/ \E u \in Caller : call[u] = Half("DELETE", x)
      BY <2>1 DEF CallsApart
    <2>5. QED
      BY <2>1, <2>3, <2>4 DEF CallsApart
  <1>14. ASSUME NEW e \in Elem, ProcessUnknown(e) PROVE CallsApart'
    BY <1>14, CallsApartKept DEF ProcessUnknown
  <1>15. CASE Advance
    BY <1>15, CallsApartKept DEF Advance
  <1>16. CASE UNCHANGED vars
    BY <1>16, CallsApartKept DEF vars
  <1>17. QED
    BY <1>1, <1>2, <1>3, <1>4, <1>5, <1>6, <1>7, <1>8, <1>9, <1>10, <1>11,
       <1>12, <1>13, <1>14, <1>15, <1>16 DEF Next, WheelStep, CallerStep

-----------------------------------------------------------------------------
(* The wheel keeps to its elements.                                        *)

\* What SlotsTimed says of one element.
TimedAt(e) ==
    e \in linked =>
        /\ Remaining(e) \in -1 .. MaxInterval
        /\ Remaining(e) = -1 => ~arg[e] /\ (pc # "sleep" => opcode[e] = "DELETE")
        /\ pc = "list" /\ arg[e] => Remaining(e) >= 1
        /\ Remaining(e) >= (IF pc = "list" THEN 1 ELSE 0) => time_interval[e] >= 1

LEMMA TimedEach == TypeOK => (SlotsTimed <=> \A e \in Elem : TimedAt(e))
  BY DEF SlotsTimed, TimedAt, TypeOK

\* An element that stays where it was, on a wheel that does.
LEMMA TimedKept ==
    ASSUME NEW e \in Elem, TimedAt(e), pc' = pc,
           current_clock_tic' = current_clock_tic,
           e \in linked' => e \in linked,
           e \in linked' => /\ rounds'[e] = rounds[e] /\ slot_no'[e] = slot_no[e]
                            /\ time_interval'[e] = time_interval[e]
                            /\ arg'[e] => arg[e]
                            /\ opcode[e] = "DELETE" => opcode'[e] = "DELETE"
    PROVE  TimedAt(e)'
  <1> SUFFICES ASSUME e \in linked' PROVE TimedAt(e)'
    BY DEF TimedAt
  <1>1. Remaining(e)' = Remaining(e)
    BY DEF Remaining
  <1>2. QED
    BY <1>1 DEF TimedAt

LEMMA SlotsTimedStep ==
    ASSUME WheelSize > 1, TypeOK, TypeOK', NoneDangles, ApartInv, [Next]_vars
    PROVE  SlotsTimed'
  <1> SUFFICES \A x \in Elem : TimedAt(x)'
    BY DEF SlotsTimed, TimedAt, TypeOK
  <1> USE DEF wheelVars, slotVars
  <1>a. \A x \in Elem : TimedAt(x)
    BY TimedEach DEF ApartInv
  <1>b. CallsApart /\ fault = "none"
    BY DEF ApartInv
  <1>c. ~Blocked
    BY NotBlocked DEF ApartInv
  <1>1. ASSUME NEW t \in Caller, NEW e \in Elem, NEW n \in Interval,
               NEW r \in BOOLEAN, RegisterAppEvent(t, e, n, r)
        PROVE  \A x \in Elem : TimedAt(x)'
    <2>1. /\ e \notin linked
          /\ \A x \in Elem \ {e} : opcode'[x] = opcode[x] /\ arg'[x] = arg[x]
      BY <1>1 DEF RegisterAppEvent, NoneDangles, TypeOK
    <2>2. QED
      BY <1>1, <1>a, <2>1, TimedKept DEF RegisterAppEvent
  <1>2. ASSUME NEW t \in Caller, NEW e \in Elem, DeRegisterAppEvent(t, e)
        PROVE  \A x \in Elem : TimedAt(x)'
    <2>1. \A x \in Elem : arg'[x] => arg[x]
      BY <1>2 DEF DeRegisterAppEvent, TypeOK
    <2>2. QED
      BY <1>2, <1>a, <2>1, TimedKept DEF DeRegisterAppEvent
  <1>3. ASSUME NEW t \in Caller, NEW e \in Elem, NEW n \in Interval,
               WtElemReschedule(t, e, n)
        PROVE  \A x \in Elem : TimedAt(x)'
    BY <1>3, <1>a, TimedKept DEF WtElemReschedule
  <1>4. ASSUME NEW t \in Caller, NEW e \in Elem, NEW n \in Interval,
               TimerReschedule(t, e, n)
        PROVE  \A x \in Elem : TimedAt(x)'
    <2>1. opcode[e] # "DELETE" /\ \A x \in Elem \ {e} : opcode'[x] = opcode[x]
      BY <1>4, <1>b DEF TimerReschedule, MayCallOn, CallsApart, TypeOK
    <2>2. QED
      BY <1>4, <1>a, <2>1, TimedKept DEF TimerReschedule
  <1>5. ASSUME NEW t \in Caller, Link(t) PROVE \A x \in Elem : TimedAt(x)'
    <2>1. PICK e \in Elem : call[t].elem = e /\ call[t] # Idle
      BY <1>5 DEF Link, LinkElem, TypeOK, Idle
    <2>2. opcode[e] # "DELETE" /\ \A x \in Elem \ {e} : opcode'[x] = opcode[x]
      BY <1>5, <1>b, <2>1 DEF Link, LinkElem, CallsApart, TypeOK
    <2>3. QED
      BY <1>5, <1>a, <2>2, TimedKept DEF Link, LinkElem
  <1>6. ASSUME NEW t \in Caller, LinkFreed(t) PROVE FALSE
    BY <1>6, <1>b DEF LinkFreed, LinkElem, CallsApart
  <1>7. CASE Wake
    <2> SUFFICES ASSUME NEW x \in Elem PROVE TimedAt(x)'
      OBVIOUS
    <2>1. x \in linked /\ ~arg[x] => opcode[x] = "DELETE"
      <3>1. \A t \in Caller : call[t] # Half("DELETE", x)
        BY <1>7 DEF Wake, Half, Idle
      <3>2. QED
        BY <1>b, <3>1 DEF CallsApart, NoneDangles, TypeOK
    <2>2. Remaining(x)' = Remaining(x)
      BY <1>7 DEF Wake, Remaining
    <2>3. TimedAt(x)
      BY <1>a
    <2>4. QED
      BY <1>7, <2>1, <2>2, <2>3 DEF Wake, TimedAt, appVars
  <1>8. ASSUME NEW e \in Elem, Invoke(e) PROVE \A x \in Elem : TimedAt(x)'
    <2> SUFFICES ASSUME NEW x \in Elem PROVE TimedAt(x)'
      OBVIOUS
    <2>1. Remaining(x)' = Remaining(x)
      BY <1>8 DEF Invoke, Remaining
    <2>2. TimedAt(x)
      BY <1>a
    <2>3. QED
      BY <1>8, <2>1, <2>2 DEF Invoke, TimedAt, appVars
  <1>9. ASSUME NEW e \in Elem, InvokeCleared(e) PROVE \A x \in Elem : TimedAt(x)'
    <2>1. time_interval[e] \in 1 .. MaxInterval
      <3>1. Remaining(e) = 0 /\ e \in linked /\ pc = "slot"
        BY <1>9, RemainingRange DEF InvokeCleared, Due
      <3>2. TimedAt(e)
        BY <1>a
      <3>3. QED
        BY <3>1, <3>2 DEF TimedAt, TypeOK
    <2>2. /\ Remaining(e)' = time_interval[e]
          /\ \A x \in Elem \ {e} : Remaining(x)' = Remaining(x)
      BY <1>9, <2>1, RemainingOfPlace DEF InvokeCleared
    <2>3. linked' = linked \cup {e} /\ pc = "slot" /\ pc' = "slot"
          /\ UNCHANGED <<time_interval, arg, opcode>>
      BY <1>9 DEF InvokeCleared, Place, appVars
    <2>4. TimedAt(e)'
      BY <2>1, <2>2, <2>3 DEF TimedAt
    <2>5. ASSUME NEW x \in Elem \ {e} PROVE TimedAt(x)'
      BY <1>a, <2>2, <2>3 DEF TimedAt
    <2>6. QED
      BY <2>4, <2>5
  <1>10. ASSUME NEW e \in Elem, Return(e) PROVE \A x \in Elem : TimedAt(x)'
    <2>0. /\ pc = "callback" /\ pc' = "slot" /\ current_clock_tic' = current_clock_tic
          /\ UNCHANGED <<time_interval, arg, opcode>>
      BY <1>10 DEF Return, appVars
    <2>1. time_interval[e] \in 1 .. MaxInterval
      <3>1. Remaining(e) = 0 /\ e \in linked
        BY <1>10, RemainingRange DEF Return, Due, ApartInv
      <3>2. TimedAt(e)
        BY <1>a
      <3>3. QED
        BY <2>0, <3>1, <3>2 DEF TimedAt, TypeOK
    <2>2. CASE is_recurrence[e]
      <3>1. /\ Remaining(e)' = time_interval[e]
            /\ \A x \in Elem \ {e} : Remaining(x)' = Remaining(x)
        BY <1>10, <2>0, <2>1, <2>2, RemainingOfPlace DEF Return
      <3>2. linked' = linked \cup {e}
        BY <1>10, <2>2 DEF Return, Place
      <3>3. TimedAt(e)'
        BY <2>0, <2>1, <3>1, <3>2 DEF TimedAt
      <3>4. ASSUME NEW x \in Elem \ {e} PROVE TimedAt(x)'
        BY <1>a, <2>0, <3>1, <3>2 DEF TimedAt
      <3>5. QED
        BY <3>3, <3>4
    <2>3. CASE ~is_recurrence[e]
      <3> SUFFICES ASSUME NEW x \in Elem PROVE TimedAt(x)'
        OBVIOUS
      <3>1. Remaining(x)' = Remaining(x) /\ linked' = linked
        BY <1>10, <2>3 DEF Return, Remaining
      <3>2. TimedAt(x)
        BY <1>a
      <3>3. QED
        BY <2>0, <3>1, <3>2 DEF TimedAt
    <2>4. QED
      BY <2>2, <2>3
  <1>11. CASE StartList
    <2> SUFFICES ASSUME NEW x \in Elem, x \in linked PROVE TimedAt(x)'
      BY <1>11 DEF StartList, TimedAt
    <2>1. Remaining(x)' = Remaining(x)
      BY <1>11 DEF StartList, Remaining
    <2>2. TimedAt(x)
      BY <1>a
    <2>3. Remaining(x) = 0 => ~arg[x]
      BY <1>11, <1>c, RemainingRange DEF StartList, Due
    <2>4. /\ pc = "slot" /\ pc' = "list"
          /\ UNCHANGED <<linked, time_interval, arg, opcode>>
      BY <1>11 DEF StartList, appVars
    <2>5. Remaining(x) \in -1 .. MaxInterval
      BY <2>2 DEF TimedAt
    <2>6. QED
      BY <2>1, <2>2, <2>3, <2>4, <2>5 DEF TimedAt
  <1>12. ASSUME NEW e \in Elem, ProcessReschedule(e) PROVE \A x \in Elem : TimedAt(x)'
    <2>1. /\ pc = "list" /\ pc' = "list" /\ linked' = linked \cup {e}
          /\ opcode[e] \in {"CREATE", "RESCHED"}
          /\ time_interval'[e] = new_time_interval[e] /\ arg' = arg
          /\ \A x \in Elem \ {e} : /\ opcode'[x] = opcode[x]
                                   /\ time_interval'[x] = time_interval[x]
      BY <1>12 DEF ProcessReschedule, Place, appVars, TypeOK
    <2>2. new_time_interval[e] \in 0 .. MaxInterval
      BY DEF TypeOK
    <2>3. /\ Remaining(e)' = new_time_interval[e]
          /\ \A x \in Elem \ {e} : Remaining(x)' = Remaining(x)
      BY <1>12, <2>2, RemainingOfPlace DEF ProcessReschedule
    <2>4. arg[e] => new_time_interval[e] >= 1
      BY <1>12, <1>b, <2>1 DEF ProcessReschedule, CallsApart, NoneDangles
    <2>5. TimedAt(e)'
      BY <2>1, <2>2, <2>3, <2>4 DEF TimedAt
    <2>6. ASSUME NEW x \in Elem \ {e} PROVE TimedAt(x)'
      BY <1>a, <2>1, <2>3 DEF TimedAt
    <2>7. QED
      BY <2>5, <2>6
  <1>13. ASSUME NEW e \in Elem, ProcessDelete(e) PROVE \A x \in Elem : TimedAt(x)'
    <2>1. /\ pc' = pc /\ current_clock_tic' = current_clock_tic
          /\ linked' = linked \ {e}
          /\ \A x \in Elem \ {e} :
               /\ rounds'[x] = rounds[x] /\ slot_no'[x] = slot_no[x]
               /\ time_interval'[x] = time_interval[x]
               /\ arg'[x] = arg[x] /\ opcode'[x] = opcode[x]
      BY <1>13 DEF ProcessDelete, Unlink, TypeOK
    <2>2. QED
      BY <1>a, <2>1, TimedKept
  <1>14. ASSUME NEW e \in Elem, ProcessUnknown(e) PROVE \A x \in Elem : TimedAt(x)'
    BY <1>14, <1>a, TimedKept DEF ProcessUnknown, appVars
  <1>15. CASE Advance
    <2> SUFFICES ASSUME NEW x \in Elem, x \in linked PROVE TimedAt(x)'
      BY <1>15 DEF Advance, TimedAt
    <2>1. TimedAt(x)
      BY <1>a
    <2>2. /\ pc = "list" /\ pc' = "sleep" /\ reschd_list = {}
          /\ UNCHANGED <<linked, time_interval, arg, opcode>>
      BY <1>15 DEF Advance, appVars
    <2>3. Remaining(x) \in 0 .. MaxInterval
      <3>1. opcode[x] # "DELETE"
        BY <1>b, <2>2 DEF CallsApart
      <3>2. QED
        BY <2>1, <2>2, <3>1 DEF TimedAt
    <2>4. Remaining(x)' = Remaining(x) - 1
      BY <1>15, <2>3, RemainingOfAdvance
    <2>5. MaxInterval \in Int /\ Remaining(x) \in Int
      BY <2>3, WheelAssumption
    <2>6. Remaining(x)' \in -1 .. MaxInterval
      BY <2>3, <2>4, <2>5
    <2>7. Remaining(x)' = -1 => ~arg[x]
      BY <2>1, <2>2, <2>3, <2>4, <2>5 DEF TimedAt
    <2>8. Remaining(x)' >= 0 => time_interval[x] >= 1
      BY <2>1, <2>2, <2>3, <2>4, <2>5 DEF TimedAt
    <2>9. QED
      BY <2>2, <2>6, <2>7, <2>8 DEF TimedAt
  <1>16. CASE UNCHANGED vars
    BY <1>16, <1>a, TimedKept DEF vars, appVars
  <1>17. QED
    BY <1>1, <1>2, <1>3, <1>4, <1>5, <1>6, <1>7, <1>8, <1>9, <1>10, <1>11,
       <1>12, <1>13, <1>14, <1>15, <1>16 DEF Next, WheelStep, CallerStep
\* The callback that runs is that of a due element, throughout.
LEMMA CurStep ==
    ASSUME TypeOK, ApartInv, [Next]_vars
    PROVE  (\A e \in cur : Due(e) /\ pc = "callback")'
  <1> DEFINE CurDue == \A e \in cur : Due(e) /\ pc = "callback"
  <1> USE DEF wheelVars, slotVars
  <1>a. CurDue
    BY DEF ApartInv
  <1>1. ASSUME UNCHANGED <<slotVars, current_clock_tic, pc>>, cur' \subseteq cur
        PROVE  CurDue'
    BY <1>a, <1>1 DEF Due
  <1>2. ASSUME pc # "callback", cur' = cur PROVE CurDue'
    BY <1>a, <1>2 DEF CurDue
  <1>3. CASE CallerStep
    BY <1>1, <1>3 DEF CallerStep, RegisterAppEvent, DeRegisterAppEvent,
       WtElemReschedule, TimerReschedule, Link, LinkFreed, LinkElem
  <1>4. ASSUME NEW e \in Elem, Invoke(e) PROVE CurDue'
    BY <1>4 DEF Invoke, Due
  <1>5. ASSUME NEW e \in Elem, Return(e) PROVE CurDue'
    BY <1>5 DEF Return
  <1>6. CASE \/ Wake \/ StartList \/ Advance
             \/ \E e \in Elem : \/ InvokeCleared(e) \/ ProcessReschedule(e)
                                \/ ProcessDelete(e) \/ ProcessUnknown(e)
    <2>1. pc # "callback" /\ cur' = cur
      BY <1>6 DEF Wake, StartList, Advance, InvokeCleared, ProcessReschedule,
         ProcessDelete, ProcessUnknown
    <2>2. QED
      BY <1>2, <2>1
  <1>7. CASE UNCHANGED vars
    BY <1>1, <1>7 DEF vars
  <1>8. QED
    BY <1>3, <1>4, <1>5, <1>6, <1>7 DEF Next, WheelStep

\* No call finds its element freed, and the wheel none that it cannot place.
LEMMA FaultStep ==
    ASSUME TypeOK, ApartInv, [Next]_vars
    PROVE  fault' = "none"
  <1>1. fault = "none" /\ CallsApart
    BY DEF ApartInv
  <1>2. ASSUME NEW t \in Caller, LinkFreed(t) PROVE FALSE
    BY <1>1, <1>2 DEF LinkFreed, LinkElem, CallsApart
  <1>3. ASSUME NEW e \in Elem, ProcessUnknown(e) PROVE FALSE
    BY <1>1, <1>3 DEF ProcessUnknown, CallsApart
  <1>4. QED
    BY <1>1, <1>2, <1>3 DEF Next, WheelStep, CallerStep, Wake, Invoke,
       InvokeCleared, Return, StartList, ProcessReschedule, ProcessDelete,
       Advance, RegisterAppEvent, DeRegisterAppEvent, WtElemReschedule,
       TimerReschedule, Link, vars

-----------------------------------------------------------------------------
(* Nothing goes wrong before calls have crossed.                           *)

LEMMA DanglesCrossed ==
    ASSUME NoDangling, crossed = {} PROVE NoneDangles
  BY DEF NoDangling, NoneDangles

LEMMA ApartUntilCrossed ==
    ASSUME WheelSize > 1 PROVE Safety => [](crossed = {} => ApartInv)
  <1>1. Init => ApartInv
    BY DEF Init, ApartInv, CallsApart, SlotsTimed, Idle
  <1>2. TypeOK /\ TypeOK' /\ NoDangling /\ (crossed = {} => ApartInv) /\ [Next]_vars
          => (crossed = {} => ApartInv)'
    <2>1. SUFFICES ASSUME TypeOK, TypeOK', NoDangling, crossed = {} => ApartInv,
                          [Next]_vars, crossed' = {}
                   PROVE  ApartInv'
      OBVIOUS
    <2>2. crossed = {}
      BY <2>1, CrossedGrows
    <2>3. ApartInv /\ NoneDangles
      BY <2>1, <2>2, DanglesCrossed
    <2>4. QED
      BY <2>1, <2>3, CallsApartStep, SlotsTimedStep, CurStep, FaultStep DEF ApartInv
  <1>3. QED
    BY <1>1, <1>2, TypeCorrect, NeverDangling, PTL DEF Safety

\* Whatever the threads call and when, the process only dies in the wheel - at
\* the assert(0) of process_wt_reschedule_slotlist or by linking an element
\* that has been freed - after calls on one element have crossed; for any
\* number of threads and elements, on a wheel of more than one slot.
THEOREM FaultsOnlyCrossed == ASSUME WheelSize > 1 PROVE Safety => []FaultsCrossed
  <1>1. (crossed = {} => ApartInv) => FaultsCrossed
    BY DEF ApartInv, FaultsCrossed
  <1>2. QED
    BY <1>1, ApartUntilCrossed, PTL

\* Whatever the threads call and when, no element of a past cycle ends the walk
\* of its slot before the due ones are reached, until calls have crossed.
THEOREM BlocksOnlyCrossed == ASSUME WheelSize > 1 PROVE Safety => []BlocksCrossed
  <1>1. TypeOK /\ (crossed = {} => ApartInv) => BlocksCrossed
    BY NotBlocked DEF ApartInv, BlocksCrossed
  <1>2. QED
    BY <1>1, ApartUntilCrossed, TypeCorrect, PTL

-----------------------------------------------------------------------------
(* The wheel implements TimerService.                                      *)

\* The four cases of TimeLeft, before and after a step.
LEMMA TimeLeftCases ==
    ASSUME NEW e \in Elem
    PROVE  /\ ~arg[e] => TimeLeft(e) = -1
           /\ arg[e] /\ e \in reschd_list => TimeLeft(e) = new_time_interval[e]
           /\ arg[e] /\ e \notin reschd_list /\ e \in linked => TimeLeft(e) = Remaining(e)
           /\ e \notin reschd_list /\ e \notin linked => TimeLeft(e) = -1
  BY DEF TimeLeft

LEMMA TimeLeftCasesNext ==
    ASSUME NEW e \in Elem
    PROVE  /\ ~arg'[e] => TimeLeft(e)' = -1
           /\ arg'[e] /\ e \in reschd_list' => TimeLeft(e)' = new_time_interval'[e]
           /\ arg'[e] /\ e \notin reschd_list' /\ e \in linked' => TimeLeft(e)' = Remaining(e)'
           /\ e \notin reschd_list' /\ e \notin linked' => TimeLeft(e)' = -1
  BY DEF TimeLeft

\* Nothing that the mapping reads of e changes.
LEMMA TimeLeftKept ==
    ASSUME NEW e \in Elem,
           arg'[e] = arg[e], e \in reschd_list' <=> e \in reschd_list,
           new_time_interval'[e] = new_time_interval[e],
           e \in linked' <=> e \in linked, Remaining(e)' = Remaining(e)
    PROVE  TimeLeft(e)' = TimeLeft(e)
  <1>1. CASE ~arg[e]
    BY <1>1, TimeLeftCases, TimeLeftCasesNext
  <1>2. CASE arg[e] /\ e \in reschd_list
    BY <1>2, TimeLeftCases, TimeLeftCasesNext
  <1>3. CASE arg[e] /\ e \notin reschd_list /\ e \in linked
    BY <1>3, TimeLeftCases, TimeLeftCasesNext
  <1>4. CASE e \notin reschd_list /\ e \notin linked
    BY <1>4, TimeLeftCases, TimeLeftCasesNext
  <1>5. QED
    BY <1>1, <1>2, <1>3, <1>4

\* What a client waits for is within an interval, and what fires now has been
\* asked for.
LEMMA TimeLeftRange ==
    ASSUME TypeOK, NoneDangles, ApartInv, NEW e \in Elem
    PROVE  /\ TimeLeft(e) \in -1 .. MaxInterval
           /\ e \in FiresNow => TimeLeft(e) # -1
           /\ arg[e] /\ e \notin freed => new_time_interval[e] \in 1 .. MaxInterval
  <1>1. arg[e] /\ e \notin freed => new_time_interval[e] \in 1 .. MaxInterval
    BY DEF ApartInv, CallsApart, TypeOK
  <1>2. -1 \in -1 .. MaxInterval /\ \A i \in 1 .. MaxInterval : i \in -1 .. MaxInterval /\ i # -1
    BY WheelAssumption
  <1>3. CASE ~arg[e]
    BY <1>1, <1>2, <1>3, TimeLeftCases DEF FiresNow
  <1>4. CASE arg[e] /\ e \in reschd_list
    BY <1>1, <1>2, <1>4, TimeLeftCases DEF NoneDangles
  <1>5. CASE arg[e] /\ e \notin reschd_list /\ e \in linked
    <2>1. TimeLeft(e) = Remaining(e) /\ Remaining(e) \in -1 .. MaxInterval
      BY <1>5, TimeLeftCases DEF ApartInv, SlotsTimed
    <2>2. e \in FiresNow => Remaining(e) = 0
      BY RemainingRange DEF FiresNow, Due
    <2>3. QED
      BY <1>1, <2>1, <2>2
  <1>6. CASE e \notin reschd_list /\ e \notin linked
    BY <1>1, <1>2, <1>6, TimeLeftCases DEF FiresNow, Due
  <1>7. QED
    BY <1>3, <1>4, <1>5, <1>6

TimesInRange == \A e \in Elem : TimeLeft(e) \in -1 .. MaxInterval

\* A step that the mapping does not see.
LEMMA StutterOfService ==
    ASSUME \A e \in Elem : TimeLeft(e)' = TimeLeft(e), FiresNow' = FiresNow
    PROVE  UNCHANGED Service!vars
  BY DEF Service!vars

\* A step in which clients program timers.
LEMMA PostOfService ==
    ASSUME \A e \in Elem : /\ TimeLeft(e) \in -1 .. MaxInterval
                           /\ TimeLeft(e)' \in -1 .. MaxInterval
                           /\ TimeLeft(e)' # TimeLeft(e) => TimeLeft(e)' # 0,
           FiresNow' = {e \in FiresNow : TimeLeft(e)' # -1}
    PROVE  Service!Post
  <1>1. FiresNow \subseteq Elem
    BY DEF FiresNow
  <1>2. QED
    BY <1>1 DEF Service!Post, Service!Program, Service!Off

\* The return of e's callback.
LEMMA FireOfService ==
    ASSUME NEW e \in FiresNow,
           \A x \in Elem : /\ TimeLeft(x)' \in -1 .. MaxInterval
                           /\ x # e => TimeLeft(x)' = TimeLeft(x),
           TimeLeft(e)' # 0,
           FiresNow' = {x \in FiresNow \ {e} : TimeLeft(x)' # -1}
    PROVE  Service!Fire(e)
  <1>1. FiresNow \subseteq Elem
    BY DEF FiresNow
  <1>2. QED
    BY <1>1 DEF Service!Fire, Service!Program, Service!Off
\* A tick, once everything due has fired.
LEMMA TickOfService ==
    ASSUME TypeOK, TypeOK', ApartInv, Advance
    PROVE  Service!Tick
  <1>1. /\ pc = "list" /\ pc' = "sleep" /\ reschd_list = {} /\ reschd_list' = {}
        /\ UNCHANGED <<linked, arg, opcode>>
    BY DEF Advance, appVars
  <1>2. FiresNow = {}
    BY <1>1 DEF FiresNow
  <1>3. ASSUME NEW e \in Elem, arg[e], e \in linked
        PROVE  /\ TimeLeft(e) = Remaining(e) /\ Remaining(e) \in 1 .. MaxInterval
               /\ TimeLeft(e)' = Remaining(e) - 1
               /\ Due(e)' <=> Remaining(e) - 1 = 0
    <2>1. Remaining(e) \in 1 .. MaxInterval
      BY <1>1, <1>3, WheelAssumption DEF ApartInv, SlotsTimed
    <2>2. Remaining(e)' = Remaining(e) - 1
      BY <1>3, <2>1, RemainingOfAdvance
    <2>3. Due(e)' <=> Remaining(e)' = 0
      BY <1>1, <1>3, RemainingRangeNext DEF Due
    <2>4. QED
      BY <1>1, <1>3, <2>1, <2>2, <2>3, TimeLeftCases, TimeLeftCasesNext
  <1>4. ASSUME NEW e \in Elem, ~(arg[e] /\ e \in linked)
        PROVE  /\ TimeLeft(e) = -1 /\ TimeLeft(e)' = -1
               /\ e \notin FiresNow'
    BY <1>1, <1>4, TimeLeftCases, TimeLeftCasesNext DEF FiresNow, Due
  <1>5. ASSUME NEW e \in Elem
        PROVE  /\ TimeLeft(e)' = IF TimeLeft(e) = -1 THEN -1 ELSE TimeLeft(e) - 1
               /\ e \in FiresNow' <=> TimeLeft(e)' = 0
    <2>1. CASE arg[e] /\ e \in linked
      <3>1. e \in FiresNow' <=> Due(e)'
        BY <1>1, <2>1 DEF FiresNow
      <3>2. QED
        BY <1>3, <2>1, <3>1
    <2>2. CASE ~(arg[e] /\ e \in linked)
      BY <1>4, <2>2
    <2>3. QED
      BY <2>1, <2>2
  <1>6. FiresNow' \subseteq Elem
    BY DEF FiresNow
  <1>7. QED
    BY <1>2, <1>5, <1>6 DEF Service!Tick, Service!Off

\* Every step of the wheel and of its callers is a step of the service, or none.
LEMMA ServiceStep ==
    ASSUME WheelSize > 1, TypeOK, TypeOK', NoneDangles, ApartInv, TimesInRange',
           [Next]_vars
    PROVE  [Service!Next]_Service!vars
  <1> USE DEF wheelVars, slotVars
  <1>a. \A e \in Elem :
          /\ TimeLeft(e) \in -1 .. MaxInterval
          /\ e \in FiresNow => TimeLeft(e) # -1
          /\ arg[e] /\ e \notin freed => new_time_interval[e] \in 1 .. MaxInterval
    BY TimeLeftRange
  <1>b. \A e \in Elem : TimeLeft(e)' \in -1 .. MaxInterval
    BY DEF TimesInRange
  <1>c. CallsApart /\ fault = "none" /\ ~Blocked /\ \A e \in cur : Due(e) /\ pc = "callback"
    BY NotBlocked DEF ApartInv
  <1>d. 0 # -1 /\ \A i \in 1 .. MaxInterval : i # 0 /\ i # -1 /\ i \in 0 .. MaxInterval
    BY WheelAssumption
  <1>e. ASSUME UNCHANGED <<slotVars, current_clock_tic>>
        PROVE  \A x \in Elem : Remaining(x)' = Remaining(x) /\ Due(x)' = Due(x)
    BY <1>e DEF Remaining, Due
  <1>1. ASSUME NEW t \in Caller, NEW e \in Elem, NEW n \in Interval,
               NEW r \in BOOLEAN, RegisterAppEvent(t, e, n, r)
        PROVE  UNCHANGED Service!vars
    <2>1. /\ UNCHANGED <<slotVars, current_clock_tic, pc, reschd_list>>
          /\ e \notin linked \cup reschd_list
          /\ \A x \in Elem \ {e} : /\ arg'[x] = arg[x]
                                   /\ new_time_interval'[x] = new_time_interval[x]
      BY <1>1 DEF RegisterAppEvent, NoneDangles, TypeOK
    <2>2. TimeLeft(e)' = TimeLeft(e)
      BY <2>1, TimeLeftCases, TimeLeftCasesNext
    <2>3. \A x \in Elem \ {e} : TimeLeft(x)' = TimeLeft(x)
      BY <1>e, <2>1, TimeLeftKept
    <2>4. FiresNow' = FiresNow
      BY <1>e, <2>1 DEF FiresNow, Due
    <2>5. QED
      BY <2>2, <2>3, <2>4, StutterOfService
  <1>2. ASSUME NEW t \in Caller, NEW e \in Elem, DeRegisterAppEvent(t, e)
        PROVE  Service!Post
    <2>1. /\ UNCHANGED <<slotVars, current_clock_tic, pc, reschd_list>>
          /\ ~arg'[e]
          /\ \A x \in Elem \ {e} : /\ arg'[x] = arg[x]
                                   /\ new_time_interval'[x] = new_time_interval[x]
      BY <1>2 DEF DeRegisterAppEvent, TypeOK
    <2>2. TimeLeft(e)' = -1
      BY <2>1, TimeLeftCasesNext
    <2>3. \A x \in Elem \ {e} : TimeLeft(x)' = TimeLeft(x)
      BY <1>e, <2>1, TimeLeftKept
    <2>4. FiresNow' = FiresNow \ {e}
      BY <1>e, <2>1 DEF FiresNow
    <2>5. FiresNow' = {x \in FiresNow : TimeLeft(x)' # -1}
      BY <1>a, <2>2, <2>3, <2>4 DEF FiresNow
    <2>6. \A x \in Elem : TimeLeft(x)' # TimeLeft(x) => TimeLeft(x)' # 0
      BY <1>d, <2>2, <2>3
    <2>7. QED
      BY <1>a, <1>b, <2>5, <2>6, PostOfService
  <1>3. ASSUME NEW t \in Caller, NEW e \in Elem, NEW n \in Interval,
               WtElemReschedule(t, e, n) \/ TimerReschedule(t, e, n)
        PROVE  Service!Post
    <2>1. /\ UNCHANGED <<slotVars, current_clock_tic, pc, reschd_list, arg>>
          /\ new_time_interval'[e] = n /\ n # 0 /\ n # -1
          /\ \A x \in Elem \ {e} : new_time_interval'[x] = new_time_interval[x]
      BY <1>3, <1>d DEF WtElemReschedule, TimerReschedule, TypeOK, Interval
    <2>2. TimeLeft(e)' = TimeLeft(e) \/ TimeLeft(e)' = n
      BY <1>e, <2>1, TimeLeftCases, TimeLeftCasesNext
    <2>3. \A x \in Elem \ {e} : TimeLeft(x)' = TimeLeft(x)
      BY <1>e, <2>1, TimeLeftKept
    <2>4. FiresNow' = FiresNow
      BY <1>e, <2>1 DEF FiresNow
    <2>5. FiresNow' = {x \in FiresNow : TimeLeft(x)' # -1}
      BY <1>a, <2>1, <2>2, <2>3, <2>4 DEF FiresNow
    <2>6. \A x \in Elem : TimeLeft(x)' # TimeLeft(x) => TimeLeft(x)' # 0
      BY <2>1, <2>2, <2>3
    <2>7. QED
      BY <1>a, <1>b, <2>5, <2>6, PostOfService
  <1>5. ASSUME NEW t \in Caller, Link(t) PROVE Service!Post
    <2>1. PICK e \in Elem : call[t].elem = e /\ call[t] # Idle
      BY <1>5 DEF Link, LinkElem, TypeOK, Idle
    <2>2. /\ UNCHANGED <<slotVars, current_clock_tic, pc, arg, new_time_interval>>
          /\ reschd_list' = reschd_list \cup {e} /\ e \notin freed
      BY <1>5, <2>1 DEF Link, LinkElem
    <2>3. /\ arg[e] => TimeLeft(e)' = new_time_interval[e]
          /\ ~arg[e] => TimeLeft(e)' = -1
      BY <2>2, TimeLeftCasesNext
    <2>4. \A x \in Elem \ {e} : TimeLeft(x)' = TimeLeft(x)
      BY <1>e, <2>2, TimeLeftKept
    <2>5. FiresNow' = FiresNow
      BY <1>e, <2>2 DEF FiresNow
    <2>6. FiresNow' = {x \in FiresNow : TimeLeft(x)' # -1}
      BY <1>a, <1>d, <2>2, <2>3, <2>4, <2>5 DEF FiresNow
    <2>7. \A x \in Elem : TimeLeft(x)' # TimeLeft(x) => TimeLeft(x)' # 0
      BY <1>a, <1>d, <2>2, <2>3, <2>4
    <2>8. QED
      BY <1>a, <1>b, <2>6, <2>7, PostOfService
  <1>6. ASSUME NEW t \in Caller, LinkFreed(t) PROVE FALSE
    BY <1>6, <1>c DEF LinkFreed, LinkElem, CallsApart
  <1>7. CASE Wake
    <2>1. /\ UNCHANGED <<slotVars, current_clock_tic, reschd_list, arg, new_time_interval>>
          /\ pc # "list" /\ pc' # "list"
      BY <1>7 DEF Wake, appVars
    <2>2. \A x \in Elem : TimeLeft(x)' = TimeLeft(x)
      BY <1>e, <2>1, TimeLeftKept
    <2>3. FiresNow' = FiresNow
      BY <1>e, <2>1 DEF FiresNow
    <2>4. UNCHANGED Service!vars
      BY <2>2, <2>3, StutterOfService
    <2>5. QED
      BY <2>4
  <1>8. ASSUME NEW e \in Elem, Invoke(e) PROVE UNCHANGED Service!vars
    <2>1. /\ UNCHANGED <<slotVars, current_clock_tic, reschd_list, arg, new_time_interval>>
          /\ pc # "list" /\ pc' # "list"
      BY <1>8 DEF Invoke, appVars
    <2>2. \A x \in Elem : TimeLeft(x)' = TimeLeft(x)
      BY <1>e, <2>1, TimeLeftKept
    <2>3. FiresNow' = FiresNow
      BY <1>e, <2>1 DEF FiresNow
    <2>4. QED
      BY <2>2, <2>3, StutterOfService
  <1>f. ASSUME NEW e \in Elem, Due(e), pc \in {"slot", "callback"}
        PROVE  time_interval[e] \in 1 .. MaxInterval
    <2>1. Remaining(e) = 0 /\ e \in linked
      BY <1>f, RemainingRange DEF Due
    <2>2. QED
      BY <1>f, <2>1 DEF ApartInv, SlotsTimed, TypeOK
  <1>g. ASSUME NEW e \in Elem, Place(e, time_interval[e]),
               time_interval[e] \in 1 .. MaxInterval,
               current_clock_tic' = current_clock_tic
        PROVE  /\ Remaining(e)' = time_interval[e] /\ ~Due(e)'
               /\ linked' = linked \cup {e}
               /\ \A x \in Elem \ {e} : Remaining(x)' = Remaining(x) /\ Due(x)' = Due(x)
    <2>1. /\ Remaining(e)' = time_interval[e]
          /\ \A x \in Elem \ {e} : Remaining(x)' = Remaining(x)
      BY <1>d, <1>g, RemainingOfPlace
    <2>2. ~Due(e)'
      BY <1>d, <1>g, <2>1, RemainingRangeNext DEF Due
    <2>3. QED
      BY <1>g, <2>1, <2>2 DEF Place, Due, TypeOK
  <1>9. ASSUME NEW e \in Elem, InvokeCleared(e) PROVE UNCHANGED Service!vars
    <2>1. /\ UNCHANGED <<current_clock_tic, pc, reschd_list, arg, new_time_interval>>
          /\ ~arg[e] /\ time_interval[e] \in 1 .. MaxInterval
          /\ Place(e, time_interval[e])
      BY <1>9, <1>f DEF InvokeCleared, appVars
    <2>2. TimeLeft(e)' = TimeLeft(e)
      BY <2>1, TimeLeftCases, TimeLeftCasesNext
    <2>3. \A x \in Elem \ {e} : TimeLeft(x)' = TimeLeft(x)
      BY <1>g, <2>1, TimeLeftKept
    <2>4. FiresNow' = FiresNow
      BY <1>g, <2>1 DEF FiresNow
    <2>5. QED
      BY <2>2, <2>3, <2>4, StutterOfService
  <1>10. ASSUME NEW e \in Elem, Return(e)
         PROVE  UNCHANGED Service!vars \/ Service!Fire(e)
    <2>1. /\ UNCHANGED <<current_clock_tic, reschd_list, arg, new_time_interval, time_interval>>
          /\ pc = "callback" /\ pc' = "slot" /\ Due(e)
      BY <1>10, <1>c DEF Return, appVars
    <2>2. time_interval[e] \in 1 .. MaxInterval
      BY <1>f, <2>1
    <2>3. CASE is_recurrence[e]
      <3>1. Place(e, time_interval[e])
        BY <1>10, <2>3 DEF Return
      <3>2. \A x \in Elem \ {e} : TimeLeft(x)' = TimeLeft(x)
        BY <1>g, <2>1, <2>2, <3>1, TimeLeftKept
      <3>3. FiresNow' = FiresNow \ {e}
        BY <1>g, <2>1, <2>2, <3>1 DEF FiresNow
      <3>4. CASE ~arg[e]
        <4>1. TimeLeft(e)' = TimeLeft(e) /\ e \notin FiresNow
          BY <2>1, <3>4, TimeLeftCases, TimeLeftCasesNext DEF FiresNow
        <4>2. QED
          BY <3>2, <3>3, <4>1, StutterOfService
      <3>5. CASE arg[e]
        <4>1. e \in FiresNow
          BY <2>1, <3>5 DEF FiresNow
        <4>2. TimeLeft(e)' \in {new_time_interval[e], time_interval[e]}
          BY <1>g, <2>1, <2>2, <3>1, <3>5, TimeLeftCasesNext
        <4>3. new_time_interval[e] # 0
          BY <1>a, <1>d, <2>1, <3>5 DEF NoneDangles, Due, TypeOK
        <4>4. FiresNow' = {x \in FiresNow \ {e} : TimeLeft(x)' # -1}
          BY <1>a, <3>2, <3>3 DEF FiresNow
        <4>5. QED
          BY <1>b, <1>d, <2>2, <3>2, <4>1, <4>2, <4>3, <4>4, FireOfService
      <3>6. QED
        BY <3>4, <3>5
    <2>4. CASE ~is_recurrence[e]
      <3>1. UNCHANGED slotVars
        BY <1>10, <2>4 DEF Return
      <3>2. \A x \in Elem : TimeLeft(x)' = TimeLeft(x)
        BY <1>e, <2>1, <3>1, TimeLeftKept
      <3>3. FiresNow' = FiresNow
        BY <1>e, <2>1, <3>1 DEF FiresNow
      <3>4. QED
        BY <3>2, <3>3, StutterOfService
    <2>5. QED
      BY <2>3, <2>4
  <1>11. CASE StartList
    <2>1. /\ UNCHANGED <<slotVars, current_clock_tic, reschd_list, arg, new_time_interval>>
          /\ pc' = "list" /\ \A x \in Elem : Due(x) => ~arg[x]
      BY <1>11, <1>c DEF StartList, appVars
    <2>2. \A x \in Elem : TimeLeft(x)' = TimeLeft(x)
      BY <1>e, <2>1, TimeLeftKept
    <2>3. FiresNow' = FiresNow
      BY <2>1 DEF FiresNow
    <2>4. UNCHANGED Service!vars
      BY <2>2, <2>3, StutterOfService
    <2>5. QED
      BY <2>4
  <1>12. ASSUME NEW e \in Elem, ProcessReschedule(e) PROVE UNCHANGED Service!vars
    <2>1. /\ UNCHANGED <<current_clock_tic, arg, new_time_interval>>
          /\ pc = "list" /\ pc' = "list"
          /\ e \in reschd_list /\ reschd_list' = reschd_list \ {e}
          /\ linked' = linked \cup {e}
      BY <1>12 DEF ProcessReschedule, Place, appVars
    <2>2. new_time_interval[e] \in 0 .. MaxInterval
      BY DEF TypeOK
    <2>3. /\ Remaining(e)' = new_time_interval[e]
          /\ \A x \in Elem \ {e} : Remaining(x)' = Remaining(x)
      BY <1>12, <2>2, RemainingOfPlace DEF ProcessReschedule
    <2>4. TimeLeft(e)' = TimeLeft(e)
      BY <2>1, <2>3, TimeLeftCases, TimeLeftCasesNext
    <2>5. \A x \in Elem \ {e} : TimeLeft(x)' = TimeLeft(x)
      BY <2>1, <2>3, TimeLeftKept
    <2>6. FiresNow' = FiresNow
      BY <2>1 DEF FiresNow
    <2>7. QED
      BY <2>4, <2>5, <2>6, StutterOfService
  <1>13. ASSUME NEW e \in Elem, ProcessDelete(e) PROVE UNCHANGED Service!vars
    <2>1. /\ current_clock_tic' = current_clock_tic
          /\ pc = "list" /\ pc' = "list"
          /\ opcode[e] = "DELETE" /\ ~arg'[e]
          /\ reschd_list' = reschd_list \ {e} /\ linked' = linked \ {e}
          /\ \A x \in Elem \ {e} :
               /\ rounds'[x] = rounds[x] /\ slot_no'[x] = slot_no[x]
               /\ new_time_interval'[x] = new_time_interval[x] /\ arg'[x] = arg[x]
      BY <1>13 DEF ProcessDelete, Unlink, TypeOK
    <2>2. TimeLeft(e)' = TimeLeft(e)
      BY <1>c, <2>1, TimeLeftCases, TimeLeftCasesNext DEF CallsApart
    <2>3. \A x \in Elem \ {e} : Remaining(x)' = Remaining(x)
      BY <2>1 DEF Remaining
    <2>4. \A x \in Elem \ {e} : TimeLeft(x)' = TimeLeft(x)
      BY <2>1, <2>3, TimeLeftKept
    <2>5. FiresNow' = FiresNow
      BY <2>1 DEF FiresNow
    <2>6. QED
      BY <2>2, <2>4, <2>5, StutterOfService
  <1>14. ASSUME NEW e \in Elem, ProcessUnknown(e) PROVE FALSE
    BY <1>14, <1>c DEF ProcessUnknown, CallsApart
  <1>15. CASE Advance
    BY <1>15, TickOfService DEF Service!Next
  <1>16. CASE UNCHANGED vars
    <2>1. UNCHANGED <<slotVars, current_clock_tic, pc, reschd_list, arg, new_time_interval>>
      BY <1>16 DEF vars, appVars
    <2>2. \A x \in Elem : TimeLeft(x)' = TimeLeft(x)
      BY <1>e, <2>1, TimeLeftKept
    <2>3. FiresNow' = FiresNow
      BY <1>e, <2>1 DEF FiresNow
    <2>4. UNCHANGED Service!vars
      BY <2>2, <2>3, StutterOfService
    <2>5. QED
      BY <2>4
  <1>17. QED
    BY <1>1, <1>2, <1>3, <1>5, <1>6, <1>7, <1>8, <1>9, <1>10, <1>11,
       <1>12, <1>13, <1>14, <1>15, <1>16
       DEF Next, WheelStep, CallerStep, Service!Next

\* The wheel implements the safety part of TimerService, step by step, for as
\* long as no calls on one element have crossed: a timer fires at its tick,
\* never earlier and never later, and never once it is cancelled, however the
\* calls of any number of threads, timer_reschedule among them, come to meet
\* the wheel's work on the element, on a wheel of more than one slot.
THEOREM KeepsTimeUntilCrossed == ASSUME WheelSize > 1 PROVE Safety => KeepsTimeApart
  <1>1. Init => Service!Init
    <2> SUFFICES ASSUME Init PROVE Service!Init
      OBVIOUS
    <2>1. \A e \in Elem : TimeLeft(e) = -1
      BY TimeLeftCases DEF Init
    <2>2. FiresNow = {}
      BY DEF Init, FiresNow
    <2>3. QED
      BY <2>1, <2>2 DEF Service!Init, Service!Off
  <1>2. TypeOK /\ NoDangling /\ (crossed = {} => ApartInv)
          => (crossed = {} => TimesInRange)
    BY TimeLeftRange, DanglesCrossed DEF TimesInRange
  <1>3. /\ TypeOK /\ TypeOK' /\ NoDangling /\ (crossed = {} => ApartInv)
        /\ (crossed = {} => TimesInRange)' /\ [Next]_vars
        => [crossed' = {} => Service!Next]_Service!vars
    <2>1. SUFFICES ASSUME TypeOK, TypeOK', NoDangling, crossed = {} => ApartInv,
                          (crossed = {} => TimesInRange)', [Next]_vars, crossed' = {}
                   PROVE  [Service!Next]_Service!vars
      OBVIOUS
    <2>2. crossed = {}
      BY <2>1, CrossedGrows
    <2>3. ApartInv /\ NoneDangles /\ TimesInRange'
      BY <2>1, <2>2, DanglesCrossed
    <2>4. QED
      BY <2>1, <2>3, ServiceStep
  <1>4. QED
    BY <1>1, <1>2, <1>3, TypeCorrect, NeverDangling, ApartUntilCrossed, PTL
       DEF Safety, KeepsTimeApart

=============================================================================
