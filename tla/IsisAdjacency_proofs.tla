------------------------ MODULE IsisAdjacency_proofs ------------------------
(***************************************************************************)
(* Theorems about IsisAdjacency, for any set of interfaces and any timer   *)
(* intervals.                                                              *)
(***************************************************************************)
EXTENDS IsisAdjacency, FiniteSetTheorems, TLAPS

\* A counter of either direction stays within its width.
LEMMA ModRange ==
    ASSUME NEW a \in Int, NEW m \in Nat \ {0}
    PROVE  a % m \in 0 .. m - 1
  OBVIOUS

\* The number of deleted UP adjacencies is a number: the interfaces are finite.
LEMMA CountIsNat ==
    ASSUME NEW gone PROVE Cardinality(gone \cap Up) \in Nat
  <1>1. IsFiniteSet(Intf)
    BY AdjacencyAssumption
  <1>2. gone \cap Up \subseteq Intf
    BY DEF Up
  <1>3. QED
    BY <1>1, <1>2, FS_Subset, FS_CardinalityType

\* What a hello does, one case per state of the adjacency.
LEMMA HelloCases ==
    ASSUME TypeOK, NEW i \in Intf, NEW moved \in BOOLEAN,
           UpdateAdjacencyFromHello(i, moved)
    PROVE  \/ /\ adj_state[i] = "NONE"
              /\ adj_state' = [adj_state EXCEPT ![i] = "DOWN"]
              /\ delete_timer' = [delete_timer EXCEPT ![i] = DeleteTime]
              /\ UNCHANGED <<expiry_timer, expiring, deleting, silent,
                             countVars, floodVars, crashed>>
           \/ adj_state[i] # "NONE" /\ ChangeToDown(i)
           \/ adj_state[i] = "DOWN" /\ ChangeToInit(i)
           \/ adj_state[i] = "INIT" /\ ChangeToUp(i)
           \/ adj_state[i] = "UP" /\ RefreshUp(i)
  BY DEF UpdateAdjacencyFromHello

-----------------------------------------------------------------------------
(* Type correctness.                                                       *)

LEMMA CountDownRange ==
    ASSUME TypeOK, NEW i \in Intf, CountDown(i)
    PROVE  adj_up_count' \in 0 .. CountMod - 1 /\ spurious' \in 0 .. CountMod - 1
  <1>1. adj_up_count \in Int /\ spurious \in Int
    BY AdjacencyAssumption DEF TypeOK
  <1>2. /\ (adj_up_count - 1) % CountMod \in 0 .. CountMod - 1
        /\ (spurious + 1) % CountMod \in 0 .. CountMod - 1
    BY <1>1, ModRange, AdjacencyAssumption
  <1>3. QED
    BY <1>2 DEF CountDown, TypeOK

LEMMA TypeOfHello ==
    ASSUME TypeOK, NEW i \in Intf, NEW moved \in BOOLEAN,
           UpdateAdjacencyFromHello(i, moved)
    PROVE  /\ adj_state' \in [Intf -> AdjState]
           /\ expiry_timer' \in [Intf -> Off .. HoldTime]
           /\ delete_timer' \in [Intf -> Off .. DeleteTime]
           /\ expiring' \subseteq Intf
           /\ deleting' \subseteq Intf
           /\ adj_up_count' \in 0 .. CountMod - 1
           /\ reconciliation_in_progress' \in BOOLEAN
           /\ lsp_flood_interval' \in {"off", "default", "reconciliation"}
           /\ crashed' \in {"no", "init", "de_init", "disable", "restart"}
           /\ silent' \in [Intf -> 0 .. HoldTime + 1]
           /\ spurious' \in 0 .. CountMod - 1
  <1> USE AdjacencyAssumption DEF TypeOK, AdjState, Off
  <1>1. CASE /\ adj_state' = [adj_state EXCEPT ![i] = "DOWN"]
             /\ delete_timer' = [delete_timer EXCEPT ![i] = DeleteTime]
             /\ UNCHANGED <<expiry_timer, expiring, deleting, silent,
                            countVars, floodVars, crashed>>
    BY <1>1 DEF countVars, floodVars
  <1>2. CASE ChangeToDown(i)
    <2>1. adj_up_count' \in 0 .. CountMod - 1 /\ spurious' \in 0 .. CountMod - 1
      BY <1>2, CountDownRange DEF ChangeToDown
    <2>2. QED
      BY <1>2, <2>1 DEF ChangeToDown, ToDown, floodVars
  <1>3. CASE ChangeToInit(i)
    BY <1>3 DEF ChangeToInit, Refresh, countVars, floodVars
  <1>4. CASE ChangeToUp(i)
    <2>1. CASE reconciliation_in_progress
      BY <1>4, <2>1 DEF ChangeToUp, adjVars, timerVars, countVars, floodVars
    <2>2. CASE ~reconciliation_in_progress
      <3>1. adj_up_count + 1 \in Int
        OBVIOUS
      <3>2. adj_up_count' = (adj_up_count + 1) % CountMod
        BY <1>4, <2>2 DEF ChangeToUp
      <3>3. adj_up_count' \in 0 .. CountMod - 1
        BY <3>1, <3>2, ModRange
      <3>4. QED
        BY <1>4, <2>2, <3>3 DEF ChangeToUp, Refresh, EnterReconciliation
    <2>3. QED
      BY <2>1, <2>2
  <1>5. CASE RefreshUp(i)
    BY <1>5 DEF RefreshUp, Refresh, countVars, floodVars
  <1>6. QED
    BY <1>1, <1>2, <1>3, <1>4, <1>5, HelloCases

LEMMA TypeOfDelete ==
    ASSUME TypeOK, NEW gone, DeleteAdjacencies(gone)
    PROVE  /\ adj_state' \in [Intf -> AdjState]
           /\ expiry_timer' \in [Intf -> Off .. HoldTime]
           /\ delete_timer' \in [Intf -> Off .. DeleteTime]
           /\ expiring' \subseteq Intf
           /\ deleting' \subseteq Intf
           /\ adj_up_count' \in 0 .. CountMod - 1
           /\ silent' \in [Intf -> 0 .. HoldTime + 1]
           /\ spurious' \in 0 .. CountMod - 1
  <1> DEFINE n == Cardinality(gone \cap Up)
  <1>1. adj_up_count - n \in Int
    <2>1. n \in Nat
      BY CountIsNat
    <2>2. QED
      BY <2>1, AdjacencyAssumption DEF TypeOK
  <1>2. adj_up_count' = (adj_up_count - n) % CountMod
    BY DEF DeleteAdjacencies, CountDeleted
  <1>3. adj_up_count' \in 0 .. CountMod - 1
    <2> HIDE DEF n
    <2> QED
      BY <1>1, <1>2, ModRange, AdjacencyAssumption
  <1>4. QED
    BY <1>3, AdjacencyAssumption DEF DeleteAdjacencies, TypeOK, AdjState, Off

\* The types of the state of a router hold in every reachable state.
THEOREM TypeCorrect == Spec => []TypeOK
  <1>1. Init => TypeOK
    <2> SUFFICES ASSUME Init PROVE TypeOK
      OBVIOUS
    <2>1. /\ Off \in Off .. HoldTime
          /\ Off \in Off .. DeleteTime
          /\ 0 \in 0 .. HoldTime + 1
          /\ 0 \in 0 .. CountMod - 1
      BY AdjacencyAssumption DEF Off
    <2>2. QED
      BY <2>1 DEF Init, TypeOK, AdjState
  <1>2. TypeOK /\ [Next]_vars => TypeOK'
    <2> SUFFICES ASSUME TypeOK, [Next]_vars PROVE TypeOK'
      OBVIOUS
    <2> USE AdjacencyAssumption
    <2>1. ASSUME NEW i \in Intf, NEW moved \in BOOLEAN, ReceiveHello(i, moved)
          PROVE  TypeOK'
      BY <2>1, TypeOfHello DEF ReceiveHello, TypeOK, configVars
    <2>2. ASSUME NEW i \in Intf, ReceiveAgain(i) PROVE TypeOK'
      <3>1. CASE Accepts(i)
        BY <2>2, <3>1, TypeOfHello DEF ReceiveAgain, TypeOK, configVars
      <3>2. CASE ~Accepts(i)
        BY <2>2, <3>2 DEF ReceiveAgain, TypeOK, configVars, adjVars, timerVars,
                          countVars, floodVars
      <3>3. QED
        BY <3>1, <3>2
    <2>3. ASSUME NEW i \in Intf, ExpiryTimerFires(i) PROVE TypeOK'
      BY <2>3, CountDownRange DEF ExpiryTimerFires, ChangeToDown, ToDown,
            TypeOK, AdjState, Off, configVars, floodVars
    <2>4. ASSUME NEW i \in Intf, DeleteTimerFires(i) PROVE TypeOK'
      BY <2>4 DEF DeleteTimerFires, TypeOK, AdjState, Off, configVars,
                  countVars, floodVars
    <2>5. ASSUME Tick PROVE TypeOK'
      <3>1. expiry_timer' \in [Intf -> Off .. HoldTime]
        BY <2>5 DEF Tick, TickDown, TypeOK, Off
      <3>2. delete_timer' \in [Intf -> Off .. DeleteTime]
        BY <2>5 DEF Tick, TickDown, TypeOK, Off
      <3>3. silent' \in [Intf -> 0 .. HoldTime + 1]
        BY <2>5 DEF Tick, TypeOK
      <3>4. QED
        BY <2>5, <3>1, <3>2, <3>3 DEF Tick, TypeOK, configVars, countVars,
                                      floodVars
    <2>6. ASSUME IsisInit PROVE TypeOK'
      BY <2>6 DEF IsisInit, Crash, TypeOK, configVars, adjVars, timerVars,
                  countVars, floodVars
    <2>7. ASSUME IsisDeInit PROVE TypeOK'
      BY <2>7 DEF IsisDeInit, Crash, TypeOK, configVars, adjVars, timerVars,
                  countVars, floodVars
    <2>8. ASSUME NEW i \in Intf, EnableInterface(i) PROVE TypeOK'
      BY <2>8 DEF EnableInterface, TypeOK, adjVars, timerVars, countVars,
                  floodVars
    <2>9. ASSUME NEW i \in Intf, DisableInterface(i) PROVE TypeOK'
      <3>1. CASE Adjacent(i)
        BY <2>9, <3>1, TypeOfDelete DEF DisableInterface, TypeOK, floodVars
      <3>2. CASE ~Adjacent(i)
        BY <2>9, <3>2 DEF DisableInterface, Crash, TypeOK, configVars, adjVars,
                          timerVars, countVars, floodVars
      <3>3. QED
        BY <3>1, <3>2
    <2>10. ASSUME NEW i \in Intf, NEW up \in BOOLEAN, InterfaceUpDown(i, up)
           PROVE  TypeOK'
      BY <2>10 DEF InterfaceUpDown, TypeOK, adjVars, timerVars, countVars,
                   floodVars
    <2>11. ASSUME ClearAdjacency PROVE TypeOK'
      BY <2>11, TypeOfDelete DEF ClearAdjacency, TypeOK, configVars, floodVars
    <2>12. ASSUME ClearLsdb PROVE TypeOK'
      BY <2>12 DEF ClearLsdb, EnterReconciliation, TypeOK, configVars, adjVars,
                   timerVars, countVars
    <2>13. ASSUME UNCHANGED vars PROVE TypeOK'
      BY <2>13 DEF vars, TypeOK, configVars, adjVars, timerVars, countVars,
                   floodVars
    <2>14. QED
      BY <2>1, <2>2, <2>3, <2>4, <2>5, <2>6, <2>7, <2>8, <2>9, <2>10, <2>11,
         <2>12, <2>13 DEF Next
  <1>3. QED
    BY <1>1, <1>2, PTL DEF Spec, Safety

-----------------------------------------------------------------------------
(* The timers.  TimersMatchState is not inductive by itself: that the       *)
(* expiry timer fires for an adjacency in INIT or UP only, and the delete   *)
(* timer for one that is DOWN only, has to be carried along; and the time a *)
(* neighbour has been silent is what the hold timer has run down.           *)

TimersOf(i) ==
    /\ delete_timer[i] # Off <=> adj_state[i] = "DOWN"
    /\ expiry_timer[i] # Off <=> adj_state[i] \in {"INIT", "UP"}
    /\ i \in deleting <=> delete_timer[i] = 0
    /\ expiry_timer[i] = 0 => i \in expiring
    /\ adj_state[i] \in {"INIT", "UP"} => expiry_timer[i] + silent[i] = HoldTime
    /\ i \in expiring => /\ adj_state[i] \in {"INIT", "UP"}
                         /\ silent[i] \in {0, HoldTime}

TimerInv == \A i \in Intf : TimersOf(i)

\* An adjacency of which nothing changes keeps its part of the invariant.
LEMMA TimersKept ==
    ASSUME NEW i \in Intf, TimersOf(i),
           adj_state'[i] = adj_state[i],
           expiry_timer'[i] = expiry_timer[i],
           delete_timer'[i] = delete_timer[i],
           silent'[i] = silent[i],
           i \in expiring' <=> i \in expiring,
           i \in deleting' <=> i \in deleting
    PROVE  TimersOf(i)'
  BY DEF TimersOf

\* A change to DOWN, by a hello or by the expiry timer.
LEMMA TimersOfChangeToDown ==
    ASSUME TypeOK, TimerInv, NEW i \in Intf, ToDown(i) PROVE TimerInv'
  <1> SUFFICES ASSUME NEW j \in Intf PROVE TimersOf(j)'
    BY DEF TimerInv
  <1>1. CASE j = i
    BY <1>1, AdjacencyAssumption DEF ToDown, TypeOK, TimersOf, Off
  <1>2. CASE j # i
    BY <1>2, TimersKept DEF ToDown, TypeOK, TimerInv
  <1>3. QED
    BY <1>1, <1>2

LEMMA TimersOfHello ==
    ASSUME TypeOK, TimerInv, NEW i \in Intf, NEW moved \in BOOLEAN,
           UpdateAdjacencyFromHello(i, moved)
    PROVE  TimerInv'
  <1>1. CASE adj_state[i] # "NONE" /\ ChangeToDown(i)
    BY <1>1, TimersOfChangeToDown DEF ChangeToDown
  <1>2. ASSUME ~(adj_state[i] # "NONE" /\ ChangeToDown(i)), NEW j \in Intf PROVE TimersOf(j)'
    <2>1. TimersOf(j)
      BY DEF TimerInv
    <2> USE AdjacencyAssumption DEF TypeOK
    <2>2. CASE /\ adj_state[i] = "NONE"
               /\ adj_state' = [adj_state EXCEPT ![i] = "DOWN"]
               /\ delete_timer' = [delete_timer EXCEPT ![i] = DeleteTime]
               /\ UNCHANGED <<expiry_timer, expiring, deleting, silent,
                              countVars, floodVars, crashed>>
      <3>1. CASE j = i
        BY <2>1, <2>2, <3>1 DEF TimersOf, Off
      <3>2. CASE j # i
        BY <2>1, <2>2, <3>2, TimersKept
      <3>3. QED
        BY <3>1, <3>2
    <2>3. CASE adj_state[i] = "DOWN" /\ ChangeToInit(i)
      <3>1. CASE j = i
        BY <2>1, <2>3, <3>1 DEF ChangeToInit, Refresh, TimersOf, Off
      <3>2. CASE j # i
        BY <2>1, <2>3, <3>2, TimersKept DEF ChangeToInit, Refresh
      <3>3. QED
        BY <3>1, <3>2
    <2>4. CASE adj_state[i] = "INIT" /\ ChangeToUp(i)
      <3>1. CASE reconciliation_in_progress
        BY <2>1, <2>4, <3>1, TimersKept DEF ChangeToUp, adjVars, timerVars
      <3>2. CASE ~reconciliation_in_progress /\ j = i
        BY <2>1, <2>4, <3>2 DEF ChangeToUp, Refresh, TimersOf, Off
      <3>3. CASE ~reconciliation_in_progress /\ j # i
        BY <2>1, <2>4, <3>3, TimersKept DEF ChangeToUp, Refresh
      <3>4. QED
        BY <3>1, <3>2, <3>3
    <2>5. CASE adj_state[i] = "UP" /\ RefreshUp(i)
      <3>1. CASE j = i
        BY <2>1, <2>5, <3>1 DEF RefreshUp, Refresh, TimersOf, Off
      <3>2. CASE j # i
        BY <2>1, <2>5, <3>2, TimersKept DEF RefreshUp, Refresh
      <3>3. QED
        BY <3>1, <3>2
    <2>6. QED
      BY <1>2, <2>2, <2>3, <2>4, <2>5, HelloCases
  <1>3. QED
    BY <1>1, <1>2 DEF TimerInv

LEMMA TimersOfDelete ==
    ASSUME TypeOK, TimerInv, NEW gone, DeleteAdjacencies(gone) PROVE TimerInv'
  <1> SUFFICES ASSUME NEW j \in Intf PROVE TimersOf(j)'
    BY DEF TimerInv
  <1>1. CASE j \in gone
    BY <1>1 DEF DeleteAdjacencies, TypeOK, TimersOf, Off
  <1>2. CASE j \notin gone
    BY <1>2, TimersKept DEF DeleteAdjacencies, TypeOK, TimerInv
  <1>3. QED
    BY <1>1, <1>2

LEMMA TimersOfTick ==
    ASSUME TypeOK, TimerInv, Tick PROVE TimerInv'
  <1> SUFFICES ASSUME NEW j \in Intf PROVE TimersOf(j)'
    BY DEF TimerInv
  <1>1. TimersOf(j)
    BY DEF TimerInv
  <1>2. /\ expiry_timer[j] # 0
        /\ delete_timer[j] # 0
    BY <1>1 DEF Tick, TimersOf
  <1>3. /\ expiry_timer[j] \in Off .. HoldTime
        /\ delete_timer[j] \in Off .. DeleteTime
        /\ silent[j] \in 0 .. HoldTime + 1
        /\ HoldTime \in Nat /\ DeleteTime \in Nat
    BY AdjacencyAssumption DEF TypeOK
  <1>4. /\ expiry_timer'[j] = IF expiry_timer[j] = Off THEN Off
                                                       ELSE expiry_timer[j] - 1
        /\ delete_timer'[j] = IF delete_timer[j] = Off THEN Off
                                                       ELSE delete_timer[j] - 1
        /\ j \in expiring' <=> expiry_timer[j] = 1
        /\ j \in deleting' <=> delete_timer[j] = 1
        /\ adj_state'[j] = adj_state[j]
        /\ silent'[j] =
             IF adj_state[j] \in {"INIT", "UP"} /\ silent[j] <= HoldTime
               THEN silent[j] + 1 ELSE silent[j]
    BY DEF Tick, TickDown
  <1>5. QED
    BY <1>1, <1>2, <1>3, <1>4 DEF TimersOf, Off

\* The invariant of the timers holds in every reachable state.
THEOREM TimerInvariant == Spec => []TimerInv
  <1>1. Init => TimerInv
    <2> SUFFICES ASSUME Init, NEW i \in Intf PROVE TimersOf(i)
      BY DEF TimerInv
    <2>1. /\ adj_state[i] = "NONE"
          /\ expiry_timer[i] = Off
          /\ delete_timer[i] = Off
          /\ i \notin expiring /\ i \notin deleting
      BY DEF Init
    <2>2. QED
      BY <2>1 DEF TimersOf, Off
  <1>2. TypeOK /\ TimerInv /\ [Next]_vars => TimerInv'
    <2> SUFFICES ASSUME TypeOK, TimerInv, [Next]_vars PROVE TimerInv'
      OBVIOUS
    <2>0. ASSUME UNCHANGED adjVars PROVE TimerInv'
      BY <2>0, TimersKept DEF adjVars, timerVars, TimerInv
    <2>1. ASSUME NEW i \in Intf, NEW moved \in BOOLEAN, ReceiveHello(i, moved)
          PROVE  TimerInv'
      BY <2>1, TimersOfHello DEF ReceiveHello
    <2>2. ASSUME NEW i \in Intf, ReceiveAgain(i) PROVE TimerInv'
      BY <2>0, <2>2, TimersOfHello DEF ReceiveAgain
    <2>3. ASSUME NEW i \in Intf, ExpiryTimerFires(i) PROVE TimerInv'
      BY <2>3, TimersOfChangeToDown DEF ExpiryTimerFires, ChangeToDown
    <2>4. ASSUME NEW i \in Intf, DeleteTimerFires(i) PROVE TimerInv'
      <3> SUFFICES ASSUME NEW j \in Intf PROVE TimersOf(j)'
        BY DEF TimerInv
      <3>1. CASE j = i
        BY <2>4, <3>1, AdjacencyAssumption
           DEF DeleteTimerFires, TypeOK, TimerInv, TimersOf, Off
      <3>2. CASE j # i
        BY <2>4, <3>2, TimersKept DEF DeleteTimerFires, TypeOK, TimerInv
      <3>3. QED
        BY <3>1, <3>2
    <2>5. CASE Tick
      BY <2>5, TimersOfTick
    <2>6. CASE IsisInit
      BY <2>0, <2>6 DEF IsisInit, Crash
    <2>7. CASE IsisDeInit
      BY <2>0, <2>7 DEF IsisDeInit, Crash
    <2>8. ASSUME NEW i \in Intf, EnableInterface(i) PROVE TimerInv'
      BY <2>0, <2>8 DEF EnableInterface
    <2>9. ASSUME NEW i \in Intf, DisableInterface(i) PROVE TimerInv'
      BY <2>0, <2>9, TimersOfDelete DEF DisableInterface, Crash
    <2>10. ASSUME NEW i \in Intf, NEW up \in BOOLEAN, InterfaceUpDown(i, up)
           PROVE  TimerInv'
      BY <2>0, <2>10 DEF InterfaceUpDown
    <2>11. CASE ClearAdjacency
      BY <2>11, TimersOfDelete DEF ClearAdjacency
    <2>12. CASE ClearLsdb
      BY <2>0, <2>12 DEF ClearLsdb
    <2>13. CASE UNCHANGED vars
      BY <2>0, <2>13 DEF vars
    <2>14. QED
      BY <2>1, <2>2, <2>3, <2>4, <2>5, <2>6, <2>7, <2>8, <2>9, <2>10, <2>11,
         <2>12, <2>13 DEF Next
  <1>3. QED
    BY <1>1, <1>2, TypeCorrect, PTL DEF Spec, Safety

\* An adjacency always has the timer of its state, and no other.
THEOREM TimersAlwaysMatch == Spec => []TimersMatchState
  <1>1. TimerInv => TimersMatchState
    BY DEF TimerInv, TimersOf, TimersMatchState
  <1>2. QED
    BY <1>1, TimerInvariant, PTL

\* No adjacency outlives its hold time: the neighbour of one in INIT or UP
\* was heard within it.
THEOREM AlwaysHeardRecently == Spec => []HeardRecently
  <1>1. TypeOK /\ TimerInv => HeardRecently
    BY AdjacencyAssumption DEF TypeOK, TimerInv, TimersOf, HeardRecently, Off
  <1>2. QED
    BY <1>1, TypeCorrect, TimerInvariant, PTL

\* The expiry timer fires when the hold time has passed in silence, or in the
\* tick in which a hello came too late.
THEOREM ExpiryAlwaysJustified == Spec => []ExpiryJustified
  <1>1. TypeOK /\ TimerInv => ExpiryJustified
    BY DEF TypeOK, TimerInv, TimersOf, ExpiryJustified
  <1>2. QED
    BY <1>1, TypeCorrect, TimerInvariant, PTL

-----------------------------------------------------------------------------
(* The reconciliation.  The flood interval is set back to the default by    *)
(* isis_init alone, so what matters is that nothing of the protocol exists  *)
(* on a node where it is not enabled.                                       *)

ConfigInv ==
    /\ reconciliation_in_progress => isis_node_info
    /\ isis_intf_info # {} => isis_node_info
    /\ \A i \in Intf : Adjacent(i) => i \in isis_intf_info
    /\ ReconcilingWhileUp

\* A hello is taken on an interface of the protocol only, and the change to
\* UP starts the reconciliation.
LEMMA ConfigOfHello ==
    ASSUME TypeOK, ConfigInv, NEW i \in Intf, NEW moved \in BOOLEAN, Accepts(i),
           UpdateAdjacencyFromHello(i, moved), UNCHANGED configVars
    PROVE  ConfigInv'
  <1>1. /\ isis_node_info /\ isis_node_info'
        /\ i \in isis_intf_info
        /\ isis_intf_info' = isis_intf_info
    BY DEF Accepts, configVars
  <1>2. \A j \in Intf : j # i => adj_state'[j] = adj_state[j]
    BY HelloCases DEF ChangeToDown, ToDown, ChangeToInit, ChangeToUp, RefreshUp,
                      adjVars, TypeOK
  <1>3. ReconcilingWhileUp'
    <2>1. CASE adj_state[i] = "INIT" /\ ChangeToUp(i)
      BY <2>1 DEF ChangeToUp, EnterReconciliation, ConfigInv,
                  ReconcilingWhileUp, Up, adjVars, floodVars
    <2>2. CASE adj_state[i] = "UP" /\ RefreshUp(i)
      BY <2>2 DEF RefreshUp, ConfigInv, ReconcilingWhileUp, Up, floodVars
    <2>3. CASE UNCHANGED floodVars /\ adj_state'[i] # "UP"
      BY <1>2, <2>3 DEF ConfigInv, ReconcilingWhileUp, Up, floodVars
    <2>4. QED
      BY <2>1, <2>2, <2>3, HelloCases
         DEF ChangeToDown, ToDown, ChangeToInit, TypeOK, AdjState
  <1>4. QED
    BY <1>1, <1>2, <1>3 DEF ConfigInv, Adjacent

\* Deleting adjacencies leaves fewer of them.
LEMMA ConfigOfDelete ==
    ASSUME TypeOK, ConfigInv, NEW gone, DeleteAdjacencies(gone),
           UNCHANGED <<isis_node_info, floodVars>>,
           isis_intf_info' \subseteq isis_intf_info,
           isis_intf_info \ gone \subseteq isis_intf_info'
    PROVE  ConfigInv'
  <1>1. \A j \in Intf : \/ adj_state'[j] = adj_state[j] /\ j \notin gone
                       \/ adj_state'[j] = "NONE"
    BY DEF DeleteAdjacencies
  <1>2. ReconcilingWhileUp'
    BY <1>1 DEF ConfigInv, ReconcilingWhileUp, Up, floodVars
  <1>3. QED
    BY <1>1, <1>2 DEF ConfigInv, Adjacent, floodVars

THEOREM ConfigInvariant == Spec => []ConfigInv
  <1>1. Init => ConfigInv
    BY DEF Init, ConfigInv, Adjacent, ReconcilingWhileUp, Up
  <1>2. TypeOK /\ TimerInv /\ ConfigInv /\ [Next]_vars => ConfigInv'
    <2> SUFFICES ASSUME TypeOK, TimerInv, ConfigInv, [Next]_vars PROVE ConfigInv'
      OBVIOUS
    <2>0. ASSUME UNCHANGED <<isis_node_info, isis_intf_info, adj_state, floodVars>>
          PROVE  ConfigInv'
      BY <2>0 DEF ConfigInv, Adjacent, ReconcilingWhileUp, Up, floodVars
    <2>1. ASSUME NEW i \in Intf, NEW moved \in BOOLEAN, ReceiveHello(i, moved)
          PROVE  ConfigInv'
      BY <2>1, ConfigOfHello DEF ReceiveHello
    <2>2. ASSUME NEW i \in Intf, ReceiveAgain(i) PROVE ConfigInv'
      <3>1. CASE Accepts(i)
        BY <2>2, <3>1, ConfigOfHello DEF ReceiveAgain
      <3>2. CASE ~Accepts(i)
        BY <2>0, <2>2, <3>2 DEF ReceiveAgain, adjVars, configVars
      <3>3. QED
        BY <3>1, <3>2
    <2>3. ASSUME NEW i \in Intf, ExpiryTimerFires(i) PROVE ConfigInv'
      <3>1. Adjacent(i)
        BY <2>3 DEF ExpiryTimerFires, TimerInv, TimersOf, Adjacent
      <3>2. QED
        BY <2>3, <3>1 DEF ExpiryTimerFires, ChangeToDown, ToDown, ConfigInv,
             Adjacent, ReconcilingWhileUp, Up, TypeOK, configVars, floodVars
    <2>4. ASSUME NEW i \in Intf, DeleteTimerFires(i) PROVE ConfigInv'
      BY <2>4 DEF DeleteTimerFires, ConfigInv, Adjacent, ReconcilingWhileUp, Up,
                  TypeOK, configVars, floodVars
    <2>5. CASE Tick
      BY <2>0, <2>5 DEF Tick, configVars
    <2>6. CASE IsisInit
      BY <2>0, <2>6 DEF IsisInit, Crash, ConfigInv, Adjacent,
                        ReconcilingWhileUp, Up, configVars, adjVars
    <2>7. CASE IsisDeInit
      BY <2>0, <2>7 DEF IsisDeInit, Crash, configVars, adjVars
    <2>8. ASSUME NEW i \in Intf, EnableInterface(i) PROVE ConfigInv'
      BY <2>8 DEF EnableInterface, ConfigInv, Adjacent, ReconcilingWhileUp, Up,
                  adjVars, floodVars
    <2>9. ASSUME NEW i \in Intf, DisableInterface(i) PROVE ConfigInv'
      <3>1. CASE Adjacent(i)
        BY <2>9, <3>1, ConfigOfDelete DEF DisableInterface
      <3>2. CASE ~Adjacent(i)
        BY <2>0, <2>9, <3>2 DEF DisableInterface, Crash, configVars, adjVars
      <3>3. QED
        BY <3>1, <3>2
    <2>10. ASSUME NEW i \in Intf, NEW up \in BOOLEAN, InterfaceUpDown(i, up)
           PROVE  ConfigInv'
      BY <2>0, <2>10 DEF InterfaceUpDown, adjVars
    <2>11. CASE ClearAdjacency
      BY <2>11, ConfigOfDelete DEF ClearAdjacency, configVars
    <2>12. CASE ClearLsdb
      BY <2>12 DEF ClearLsdb, EnterReconciliation, ConfigInv, Adjacent,
                   ReconcilingWhileUp, Up, configVars, adjVars
    <2>13. CASE UNCHANGED vars
      BY <2>0, <2>13 DEF vars, configVars, adjVars
    <2>14. QED
      BY <2>1, <2>2, <2>3, <2>4, <2>5, <2>6, <2>7, <2>8, <2>9, <2>10, <2>11,
         <2>12, <2>13 DEF Next
  <1>3. QED
    BY <1>1, <1>2, TypeCorrect, TimerInvariant, PTL DEF Spec, Safety

\* While an adjacency is UP, or a reconciliation is in progress, the router
\* floods at the short interval.
THEOREM AlwaysReconcilingWhileUp == Spec => []ReconcilingWhileUp
  <1>1. ConfigInv => ReconcilingWhileUp
    BY DEF ConfigInv
  <1>2. QED
    BY <1>1, ConfigInvariant, PTL

-----------------------------------------------------------------------------
(* What adj_up_count counts.  A counter of a finite width is exact up to   *)
(* its modulus only, so the argument is one of congruences.                *)

LEMMA DivMod ==
    ASSUME NEW a \in Int, NEW m \in Nat \ {0}
    PROVE  /\ a \div m \in Int
           /\ a % m \in 0 .. m - 1
           /\ a = (a \div m) * m + (a % m)
  OBVIOUS

LEMMA RemainderUnique ==
    ASSUME NEW m \in Nat \ {0}, NEW p \in Int, NEW q \in Int,
           NEW r \in 0 .. m - 1, NEW s \in 0 .. m - 1, p * m + r = q * m + s
    PROVE  r = s
  <1>1. (p - q) * m = s - r
    OBVIOUS
  <1>2. CASE p - q >= 1
    <2>1. (p - q) * m >= m
      BY <1>2
    <2>2. QED
      BY <1>1, <2>1
  <1>3. CASE p - q <= -1
    <2>1. (q - p) * m >= m
      BY <1>3
    <2>2. QED
      BY <1>1, <2>1
  <1>4. CASE p = q
    BY <1>4
  <1>5. QED
    BY <1>2, <1>3, <1>4

\* To reduce a summand first makes no difference.
LEMMA ModAdd ==
    ASSUME NEW a \in Int, NEW b \in Int, NEW m \in Nat \ {0}
    PROVE  ((a % m) + b) % m = (a + b) % m
  <1>1. PICK x \in Int, r \in 0 .. m - 1 : a % m = r /\ a = x * m + r
    BY DivMod
  <1>2. PICK y \in Int, s \in 0 .. m - 1 : (r + b) % m = s /\ r + b = y * m + s
    <2>1. r + b \in Int
      OBVIOUS
    <2>2. QED
      BY <2>1, DivMod
  <1>3. PICK z \in Int, u \in 0 .. m - 1 : (a + b) % m = u /\ a + b = z * m + u
    <2>1. a + b \in Int
      OBVIOUS
    <2>2. QED
      BY <2>1, DivMod
  <1>4. (x + y) * m + s = z * m + u
    <2>1. (x + y) * m = x * m + y * m
      OBVIOUS
    <2>2. QED
      BY <1>1, <1>2, <1>3, <2>1
  <1>5. s = u
    <2>1. x + y \in Int
      OBVIOUS
    <2>2. QED
      BY <1>4, <2>1, RemainderUnique
  <1>6. QED
    BY <1>1, <1>2, <1>3, <1>5

\* One counter down and the other up leaves their sum.
LEMMA CountersPart ==
    ASSUME NEW c \in Int, NEW p \in Int, NEW m \in Nat \ {0}
    PROVE  (((c - 1) % m) + ((p + 1) % m)) % m = (c + p) % m
  <1> DEFINE u == (c - 1) % m
             v == (p + 1) % m
  <1>1. c - 1 \in Int /\ p + 1 \in Int
    OBVIOUS
  <1>2. u \in Int /\ v \in Int
    BY <1>1, DivMod
  <1>3. (u + (p + 1)) % m = ((c - 1) + (p + 1)) % m
    BY <1>1, ModAdd, Zenon
  <1>4. (v + u) % m = ((p + 1) + u) % m
    BY <1>1, <1>2, ModAdd, Zenon
  <1>5. /\ u + (p + 1) = (p + 1) + u
        /\ v + u = u + v
        /\ (c - 1) + (p + 1) = c + p
    <2> HIDE DEF u, v
    <2>1. QED
      BY <1>2
  <1>6. QED
    BY <1>3, <1>4, <1>5, Zenon

-----------------------------------------------------------------------------
(* The number of UP adjacencies.                                            *)

LEMMA UpIsFinite == IsFiniteSet(Up) /\ Cardinality(Up) \in Nat
  <1>1. Up \subseteq Intf
    BY DEF Up
  <1>2. QED
    BY <1>1, AdjacencyAssumption, FS_Subset, FS_CardinalityType

\* The counter moved by as much as the number of UP adjacencies did.
LEMMA DriftKept ==
    ASSUME TypeOK, TypeOK', UpCountDrift, NEW k \in Int,
           adj_up_count' = (adj_up_count + k) % CountMod,
           spurious' = spurious,
           Cardinality(Up)' = Cardinality(Up) + k
    PROVE  UpCountDrift'
  <1> DEFINE n == Cardinality(Up)
  <1>1. /\ adj_up_count \in Int /\ spurious \in Int /\ n \in Int
        /\ CountMod \in Nat \ {0}
    BY UpIsFinite, AdjacencyAssumption DEF TypeOK
  <1>2. (adj_up_count + spurious) % CountMod = n % CountMod
    BY DEF UpCountDrift
  <1> DEFINE c == adj_up_count
             p == spurious
  <1>3. c + p \in Int /\ c + k \in Int /\ (c + k) + p = (c + p) + k
    BY <1>1
  <1> HIDE DEF n
  <1>4. (((c + k) % CountMod) + p) % CountMod = ((c + k) + p) % CountMod
    BY <1>1, <1>3, ModAdd, Zenon
  <1>5. (((c + p) % CountMod) + k) % CountMod = ((c + p) + k) % CountMod
    BY <1>1, <1>3, ModAdd, Zenon
  <1>6. ((n % CountMod) + k) % CountMod = (n + k) % CountMod
    BY <1>1, ModAdd, Zenon
  <1>7. (((c + k) % CountMod) + p) % CountMod = (n + k) % CountMod
    BY <1>2, <1>3, <1>4, <1>5, <1>6, Zenon
  <1>8. QED
    BY <1>7, Zenon DEF UpCountDrift, n

\* A change to DOWN from a state other than UP moves both counters, apart.
LEMMA DriftOfSpuriousDown ==
    ASSUME TypeOK, UpCountDrift,
           adj_up_count' = (adj_up_count - 1) % CountMod,
           spurious' = (spurious + 1) % CountMod,
           Up' = Up
    PROVE  UpCountDrift'
  <1>1. adj_up_count \in Int /\ spurious \in Int /\ CountMod \in Nat \ {0}
    BY AdjacencyAssumption DEF TypeOK
  <1>2. (((adj_up_count - 1) % CountMod) + ((spurious + 1) % CountMod)) % CountMod
           = (adj_up_count + spurious) % CountMod
    BY <1>1, CountersPart, Zenon
  <1>3. QED
    BY <1>2, Zenon DEF UpCountDrift

\* Neither counter, nor any adjacency's being UP, is touched.
LEMMA DriftUnchanged ==
    ASSUME UpCountDrift, UNCHANGED <<countVars, Up>> PROVE UpCountDrift'
  BY DEF UpCountDrift, countVars

LEMMA DriftOfChangeToDown ==
    ASSUME TypeOK, TypeOK', UpCountDrift, NEW i \in Intf, ToDown(i), CountDown(i)
    PROVE  UpCountDrift'
  <1>1. Up' = Up \ {i}
    BY DEF ToDown, Up, TypeOK
  <1>2. CASE adj_state[i] = "UP"
    <2>1. i \in Up
      BY <1>2 DEF Up
    <2>2. Cardinality(Up \ {i}) = Cardinality(Up) - 1
      BY <2>1, UpIsFinite, FS_RemoveElement
    <2>3. Cardinality(Up)' = Cardinality(Up) + (-1)
      BY <1>1, <2>2, UpIsFinite
    <2>4. adj_up_count' = (adj_up_count + (-1)) % CountMod /\ spurious' = spurious
      BY <1>2, AdjacencyAssumption DEF CountDown, TypeOK
    <2>5. QED
      BY <2>3, <2>4, DriftKept
  <1>3. CASE adj_state[i] # "UP"
    BY <1>1, <1>3, DriftOfSpuriousDown DEF CountDown, Up
  <1>4. QED
    BY <1>2, <1>3

LEMMA DriftOfHello ==
    ASSUME TypeOK, TypeOK', UpCountDrift, NEW i \in Intf, NEW moved \in BOOLEAN,
           UpdateAdjacencyFromHello(i, moved)
    PROVE  UpCountDrift'
  <1>1. CASE /\ adj_state[i] = "NONE"
             /\ adj_state' = [adj_state EXCEPT ![i] = "DOWN"]
             /\ delete_timer' = [delete_timer EXCEPT ![i] = DeleteTime]
             /\ UNCHANGED <<expiry_timer, expiring, deleting, silent,
                            countVars, floodVars, crashed>>
    BY <1>1, DriftUnchanged DEF Up, TypeOK
  <1>2. CASE ChangeToDown(i)
    BY <1>2, DriftOfChangeToDown DEF ChangeToDown
  <1>3. CASE adj_state[i] = "DOWN" /\ ChangeToInit(i)
    BY <1>3, DriftUnchanged DEF ChangeToInit, Up, TypeOK
  <1>4. CASE adj_state[i] = "INIT" /\ ChangeToUp(i)
    <2>1. CASE reconciliation_in_progress
      BY <1>4, <2>1, DriftUnchanged DEF ChangeToUp, adjVars, Up
    <2>2. CASE ~reconciliation_in_progress
      <3>1. i \notin Up /\ Up' = Up \cup {i}
        BY <1>4, <2>2 DEF ChangeToUp, Up, TypeOK
      <3>2. Cardinality(Up \cup {i}) = Cardinality(Up) + 1
        BY <3>1, UpIsFinite, FS_AddElement
      <3>3. /\ adj_up_count' = (adj_up_count + 1) % CountMod
            /\ spurious' = spurious
            /\ Cardinality(Up)' = Cardinality(Up) + 1
        BY <1>4, <2>2, <3>1, <3>2 DEF ChangeToUp
      <3>4. 1 \in Int
        OBVIOUS
      <3>5. QED
        BY <3>3, <3>4, DriftKept, Zenon
    <2>3. QED
      BY <2>1, <2>2
  <1>5. CASE adj_state[i] = "UP" /\ RefreshUp(i)
    BY <1>5, DriftUnchanged DEF RefreshUp, Up
  <1>6. QED
    BY <1>1, <1>2, <1>3, <1>4, <1>5, HelloCases

LEMMA DriftOfDelete ==
    ASSUME TypeOK, TypeOK', UpCountDrift, NEW gone, DeleteAdjacencies(gone)
    PROVE  UpCountDrift'
  <1> DEFINE n == Cardinality(Up)
             k == Cardinality(gone \cap Up)
  <1>1. Up' = Up \ gone
    BY DEF DeleteAdjacencies, Up
  <1>2. Cardinality(Up \ gone) = n - Cardinality(Up \cap gone)
    BY UpIsFinite, FS_Difference
  <1>3. Up \cap gone = gone \cap Up
    OBVIOUS
  <1>4. n \in Int /\ k \in Nat
    BY UpIsFinite, CountIsNat
  <1>5. adj_up_count' = (adj_up_count - k) % CountMod /\ spurious' = spurious
    BY DEF DeleteAdjacencies, CountDeleted
  <1>6. n' = n - k
    BY <1>1, <1>2, <1>3
  <1> HIDE DEF k
  <1>7. PICK d \in Int : d = -k
    BY <1>4
  <1>8. n' = n + d /\ adj_up_count' = (adj_up_count + d) % CountMod
    BY <1>4, <1>5, <1>6, <1>7, AdjacencyAssumption DEF TypeOK
  <1>9. QED
    BY <1>5, <1>8, DriftKept

\* In every reachable state adj_up_count is the number of UP adjacencies less
\* the number of changes to DOWN from a state other than UP, modulo its width.
THEOREM UpCountAlwaysDrifts == Spec => []UpCountDrift
  <1>1. Init => UpCountDrift
    <2> SUFFICES ASSUME Init PROVE UpCountDrift
      OBVIOUS
    <2>1. Up = {}
      BY DEF Init, Up
    <2>2. Cardinality(Up) = 0
      BY <2>1, FS_EmptySet
    <2>3. adj_up_count + spurious = 0
      BY DEF Init
    <2>4. QED
      BY <2>2, <2>3, Zenon DEF UpCountDrift
  <1>2. TypeOK /\ TypeOK' /\ TimerInv /\ UpCountDrift /\ [Next]_vars
        => UpCountDrift'
    <2> SUFFICES ASSUME TypeOK, TypeOK', TimerInv, UpCountDrift, [Next]_vars
                 PROVE  UpCountDrift'
      OBVIOUS
    <2>0. ASSUME UNCHANGED <<adj_state, countVars>> PROVE UpCountDrift'
      BY <2>0, DriftUnchanged DEF Up
    <2>1. ASSUME NEW i \in Intf, NEW moved \in BOOLEAN, ReceiveHello(i, moved)
          PROVE  UpCountDrift'
      BY <2>1, DriftOfHello DEF ReceiveHello
    <2>2. ASSUME NEW i \in Intf, ReceiveAgain(i) PROVE UpCountDrift'
      BY <2>0, <2>2, DriftOfHello DEF ReceiveAgain, adjVars
    <2>3. ASSUME NEW i \in Intf, ExpiryTimerFires(i) PROVE UpCountDrift'
      BY <2>3, DriftOfChangeToDown DEF ExpiryTimerFires, ChangeToDown
    <2>4. ASSUME NEW i \in Intf, DeleteTimerFires(i) PROVE UpCountDrift'
      <3>1. adj_state[i] = "DOWN"
        BY <2>4 DEF DeleteTimerFires, TimerInv, TimersOf, Off
      <3>2. Up' = Up
        BY <2>4, <3>1 DEF DeleteTimerFires, Up, TypeOK
      <3>3. QED
        BY <2>4, <3>2, DriftUnchanged DEF DeleteTimerFires
    <2>5. CASE Tick
      BY <2>0, <2>5 DEF Tick
    <2>6. CASE IsisInit
      BY <2>0, <2>6 DEF IsisInit, Crash, adjVars
    <2>7. CASE IsisDeInit
      BY <2>0, <2>7 DEF IsisDeInit, Crash, adjVars
    <2>8. ASSUME NEW i \in Intf, EnableInterface(i) PROVE UpCountDrift'
      BY <2>0, <2>8 DEF EnableInterface, adjVars
    <2>9. ASSUME NEW i \in Intf, DisableInterface(i) PROVE UpCountDrift'
      BY <2>0, <2>9, DriftOfDelete DEF DisableInterface, Crash, adjVars
    <2>10. ASSUME NEW i \in Intf, NEW up \in BOOLEAN, InterfaceUpDown(i, up)
           PROVE  UpCountDrift'
      BY <2>0, <2>10 DEF InterfaceUpDown, adjVars
    <2>11. CASE ClearAdjacency
      BY <2>11, DriftOfDelete DEF ClearAdjacency
    <2>12. CASE ClearLsdb
      BY <2>0, <2>12 DEF ClearLsdb, adjVars
    <2>13. CASE UNCHANGED vars
      BY <2>0, <2>13 DEF vars, adjVars
    <2>14. QED
      BY <2>1, <2>2, <2>3, <2>4, <2>5, <2>6, <2>7, <2>8, <2>9, <2>10, <2>11,
         <2>12, <2>13 DEF Next
  <1>3. QED
    BY <1>1, <1>2, TypeCorrect, TimerInvariant, PTL DEF Spec, Safety

-----------------------------------------------------------------------------
(* The adjacencies use their timers as TimerService allows: every step of  *)
(* IsisAdjacency is a step of that specification, or a stutter of it.      *)

LEMMA DueAt ==
    ASSUME NEW i \in Intf
    PROVE  /\ AdjDue[<<i, "expiry">>] = expiry_timer[i]
           /\ AdjDue[<<i, "delete">>] = delete_timer[i]
           /\ AdjDue'[<<i, "expiry">>] = expiry_timer'[i]
           /\ AdjDue'[<<i, "delete">>] = delete_timer'[i]
  <1>1. /\ <<i, "expiry">> \in AdjTimer
        /\ <<i, "delete">> \in AdjTimer
    BY DEF AdjTimer
  <1>2. QED
    BY <1>1 DEF AdjDue

LEMMA TimerIsPair ==
    ASSUME NEW t \in AdjTimer
    PROVE  \E i \in Intf : t = <<i, "expiry">> \/ t = <<i, "delete">>
  BY DEF AdjTimer

LEMMA HotAt ==
    ASSUME NEW i
    PROVE  /\ <<i, "expiry">> \in AdjHot <=> i \in expiring
           /\ <<i, "delete">> \in AdjHot <=> i \in deleting
           /\ <<i, "expiry">> \in AdjHot' <=> i \in expiring'
           /\ <<i, "delete">> \in AdjHot' <=> i \in deleting'
  BY DEF AdjHot

\* A timer that a step sets is set to an interval within the bound, and not
\* to zero: that is what a client of the wheel may do.
LEMMA ProgramFrom ==
    ASSUME TypeOK',
           \A i \in Intf : expiry_timer'[i] # expiry_timer[i] => expiry_timer'[i] # 0,
           \A i \in Intf : delete_timer'[i] # delete_timer[i] => delete_timer'[i] # 0
    PROVE  Timers!Program
  <1>1. ASSUME NEW t \in AdjTimer
        PROVE  /\ AdjDue'[t] \in Off .. LongestInterval
               /\ AdjDue'[t] # AdjDue[t] => AdjDue'[t] # 0
    <2>1. PICK i \in Intf : t = <<i, "expiry">> \/ t = <<i, "delete">>
      BY TimerIsPair
    <2>2. /\ expiry_timer'[i] \in Off .. LongestInterval
          /\ delete_timer'[i] \in Off .. LongestInterval
      BY AdjacencyAssumption DEF TypeOK, LongestInterval, Off
    <2>3. QED
      BY <2>1, <2>2, DueAt
  <1>2. AdjDue' \in [AdjTimer -> Off .. LongestInterval]
    BY <1>1 DEF AdjDue
  <1>3. QED
    BY <1>1, <1>2 DEF Timers!Program, Timers!Off, Off

\* A client's step that cancels those due timers that it sets to Off.
LEMMA PostFrom ==
    ASSUME TypeOK, Timers!Program,
           expiring' = {i \in expiring : expiry_timer'[i] # Off},
           deleting' = {i \in deleting : delete_timer'[i] # Off}
    PROVE  Timers!Post
  <1>1. ASSUME NEW t
        PROVE  t \in AdjHot' <=> t \in {x \in AdjHot : AdjDue'[x] # Off}
    <2>1. CASE t \in AdjTimer
      <3>1. PICK i \in Intf : t = <<i, "expiry">> \/ t = <<i, "delete">>
        BY <2>1, TimerIsPair
      <3>2. QED
        BY <3>1, DueAt, HotAt
    <2>2. CASE t \notin AdjTimer
      BY <2>2 DEF AdjHot, AdjTimer, TypeOK
    <2>3. QED
      BY <2>1, <2>2
  <1>2. AdjHot' = {x \in AdjHot : AdjDue'[x] # Off}
    BY <1>1
  <1>3. QED
    BY <1>2 DEF Timers!Post, Timers!Off, Off

\* The delete timer that is due is replaced by a new one.
LEMMA FireFrom ==
    ASSUME TypeOK, Timers!Program, NEW i \in deleting,
           delete_timer'[i] \notin {Off, 0},
           expiring' = {j \in expiring : expiry_timer'[j] # Off},
           deleting' = {j \in deleting \ {i} : delete_timer'[j] # Off}
    PROVE  \E e \in AdjTimer : Timers!Fire(e)
  <1> DEFINE e == <<i, "delete">>
  <1>1. i \in Intf /\ e \in AdjTimer /\ e \in AdjHot
    BY HotAt DEF AdjTimer, TypeOK
  <1>2. ASSUME NEW t
        PROVE  t \in AdjHot' <=> t \in {x \in AdjHot \ {e} : AdjDue'[x] # Off}
    <2>1. CASE t \in AdjTimer
      <3>1. PICK j \in Intf : t = <<j, "expiry">> \/ t = <<j, "delete">>
        BY <2>1, TimerIsPair
      <3>2. CASE t = <<j, "expiry">>
        <4>1. t # e
          BY <3>2
        <4>2. QED
          BY <3>2, <4>1, DueAt, HotAt
      <3>3. CASE t = <<j, "delete">>
        <4>1. t = e <=> j = i
          BY <3>3
        <4>2. QED
          BY <3>3, <4>1, DueAt, HotAt
      <3>4. QED
        BY <3>1, <3>2, <3>3
    <2>2. CASE t \notin AdjTimer
      BY <2>2 DEF AdjHot, AdjTimer, TypeOK
    <2>3. QED
      BY <2>1, <2>2
  <1>3. AdjHot' = {x \in AdjHot \ {e} : AdjDue'[x] # Off}
    BY <1>2
  <1>4. AdjDue'[e] # 0
    BY <1>1, DueAt
  <1>5. Timers!Fire(e)
    BY <1>1, <1>3, <1>4 DEF Timers!Fire, Timers!Off, Off
  <1>6. QED
    BY <1>1, <1>5

LEMMA StepOfToDown ==
    ASSUME TypeOK, TypeOK', TimerInv, NEW i \in Intf, ToDown(i)
    PROVE  Timers!Next
  <1>1. \A j \in Intf :
           /\ expiry_timer'[j] = IF j = i THEN Off ELSE expiry_timer[j]
           /\ delete_timer'[j] = IF j = i THEN DeleteTime ELSE delete_timer[j]
    BY DEF ToDown, TypeOK
  <1>2. Timers!Program
    BY <1>1, ProgramFrom, AdjacencyAssumption DEF Off
  <1>3. /\ \A j \in expiring : j \in Intf /\ expiry_timer[j] # Off
        /\ \A j \in deleting : j \in Intf /\ delete_timer[j] # Off
    BY DEF TypeOK, TimerInv, TimersOf, Off
  <1>4. DeleteTime \notin {Off, 0}
    BY AdjacencyAssumption DEF Off
  <1>5. expiring' = {j \in expiring : expiry_timer'[j] # Off}
    BY <1>1, <1>3 DEF ToDown
  <1>6. CASE i \in deleting
    <2>1. deleting' = {j \in deleting \ {i} : delete_timer'[j] # Off}
      BY <1>1, <1>3, <1>4 DEF ToDown
    <2>2. QED
      BY <1>1, <1>2, <1>4, <1>5, <1>6, <2>1, FireFrom DEF Timers!Next
  <1>7. CASE i \notin deleting
    <2>1. deleting' = {j \in deleting : delete_timer'[j] # Off}
      BY <1>1, <1>3, <1>4, <1>7 DEF ToDown
    <2>2. QED
      BY <1>2, <1>5, <2>1, PostFrom DEF Timers!Next
  <1>8. QED
    BY <1>6, <1>7

LEMMA StepOfHello ==
    ASSUME TypeOK, TypeOK', TimerInv, NEW i \in Intf, NEW moved \in BOOLEAN,
           UpdateAdjacencyFromHello(i, moved)
    PROVE  Timers!Next \/ UNCHANGED timerVars
  <1> USE AdjacencyAssumption
  <1>0. /\ \A j \in expiring : j \in Intf /\ expiry_timer[j] # Off
        /\ \A j \in deleting : j \in Intf /\ delete_timer[j] # Off
    BY DEF TypeOK, TimerInv, TimersOf, Off
  <1>1. CASE /\ adj_state[i] = "NONE"
             /\ adj_state' = [adj_state EXCEPT ![i] = "DOWN"]
             /\ delete_timer' = [delete_timer EXCEPT ![i] = DeleteTime]
             /\ UNCHANGED <<expiry_timer, expiring, deleting, silent,
                            countVars, floodVars, crashed>>
    <2>1. \A j \in Intf :
             delete_timer'[j] = IF j = i THEN DeleteTime ELSE delete_timer[j]
      BY <1>1 DEF TypeOK
    <2>2. Timers!Program
      BY <1>1, <2>1, ProgramFrom
    <2>3. deleting' = {j \in deleting : delete_timer'[j] # Off}
      BY <1>0, <1>1, <2>1 DEF Off
    <2>4. expiring' = {j \in expiring : expiry_timer'[j] # Off}
      BY <1>0, <1>1
    <2>5. QED
      BY <2>2, <2>3, <2>4, PostFrom DEF Timers!Next
  <1>2. CASE ChangeToDown(i)
    BY <1>2, StepOfToDown DEF ChangeToDown
  <1>3. CASE adj_state[i] = "DOWN" /\ ChangeToInit(i)
    <2>1. \A j \in Intf :
             /\ expiry_timer'[j] = IF j = i THEN HoldTime ELSE expiry_timer[j]
             /\ delete_timer'[j] = IF j = i THEN Off ELSE delete_timer[j]
      BY <1>3 DEF ChangeToInit, Refresh, TypeOK
    <2>2. Timers!Program
      BY <2>1, ProgramFrom DEF Off
    <2>3. deleting' = {j \in deleting : delete_timer'[j] # Off}
      BY <1>0, <1>3, <2>1 DEF ChangeToInit
    <2>4. expiring' = {j \in expiring : expiry_timer'[j] # Off}
      BY <1>0, <1>3, <2>1 DEF ChangeToInit, Off
    <2>5. QED
      BY <2>2, <2>3, <2>4, PostFrom DEF Timers!Next
  <1>4. ASSUME Refresh(i), UNCHANGED <<delete_timer, expiring, deleting>>
        PROVE  Timers!Next
    <2>1. \A j \in Intf :
             expiry_timer'[j] = IF j = i THEN HoldTime ELSE expiry_timer[j]
      BY <1>4 DEF Refresh, TypeOK
    <2>2. Timers!Program
      BY <1>4, <2>1, ProgramFrom
    <2>3. deleting' = {j \in deleting : delete_timer'[j] # Off}
      BY <1>0, <1>4
    <2>4. expiring' = {j \in expiring : expiry_timer'[j] # Off}
      BY <1>0, <1>4, <2>1 DEF Off
    <2>5. QED
      BY <2>2, <2>3, <2>4, PostFrom DEF Timers!Next
  <1>5. CASE ChangeToUp(i)
    BY <1>4, <1>5 DEF ChangeToUp, adjVars
  <1>6. CASE RefreshUp(i)
    BY <1>4, <1>6 DEF RefreshUp
  <1>7. QED
    BY <1>1, <1>2, <1>3, <1>5, <1>6, HelloCases

LEMMA StepOfDelete ==
    ASSUME TypeOK, TypeOK', TimerInv, NEW gone, DeleteAdjacencies(gone)
    PROVE  Timers!Next
  <1>1. \A j \in Intf :
           /\ expiry_timer'[j] = IF j \in gone THEN Off ELSE expiry_timer[j]
           /\ delete_timer'[j] = IF j \in gone THEN Off ELSE delete_timer[j]
    BY DEF DeleteAdjacencies
  <1>2. Timers!Program
    BY <1>1, ProgramFrom DEF Off
  <1>3. /\ \A j \in expiring : j \in Intf /\ expiry_timer[j] # Off
        /\ \A j \in deleting : j \in Intf /\ delete_timer[j] # Off
    BY DEF TypeOK, TimerInv, TimersOf, Off
  <1>4. /\ expiring' = {j \in expiring : expiry_timer'[j] # Off}
        /\ deleting' = {j \in deleting : delete_timer'[j] # Off}
    BY <1>1, <1>3 DEF DeleteAdjacencies
  <1>5. QED
    BY <1>2, <1>4, PostFrom DEF Timers!Next

LEMMA StepOfTick ==
    ASSUME TypeOK, Tick PROVE Timers!Tick
  <1>1. AdjHot = {}
    BY DEF Tick, AdjHot
  <1>2. ASSUME NEW t \in AdjTimer
        PROVE  AdjDue'[t] = IF AdjDue[t] = Off THEN Off ELSE AdjDue[t] - 1
    <2>1. PICK i \in Intf : t = <<i, "expiry">> \/ t = <<i, "delete">>
      BY TimerIsPair
    <2>2. /\ expiry_timer'[i] = IF expiry_timer[i] = Off THEN Off
                                                        ELSE expiry_timer[i] - 1
          /\ delete_timer'[i] = IF delete_timer[i] = Off THEN Off
                                                        ELSE delete_timer[i] - 1
      BY DEF Tick, TickDown
    <2>3. CASE t = <<i, "expiry">>
      BY <2>2, <2>3, DueAt
    <2>4. CASE t = <<i, "delete">>
      BY <2>2, <2>4, DueAt
    <2>5. QED
      BY <2>1, <2>3, <2>4
  <1>3. AdjDue' = [t \in AdjTimer |-> IF AdjDue[t] = Off THEN Off
                                                       ELSE AdjDue[t] - 1]
    BY <1>2 DEF AdjDue
  <1>4. ASSUME NEW t
        PROVE  t \in AdjHot' <=> t \in {x \in AdjTimer : AdjDue'[x] = 0}
    <2>1. CASE t \in AdjTimer
      <3>1. PICK i \in Intf : t = <<i, "expiry">> \/ t = <<i, "delete">>
        BY <2>1, TimerIsPair
      <3>2. /\ i \in expiring' <=> expiry_timer'[i] = 0
            /\ i \in deleting' <=> delete_timer'[i] = 0
        BY AdjacencyAssumption DEF Tick, TickDown, TypeOK, Off
      <3>3. QED
        BY <2>1, <3>1, <3>2, DueAt, HotAt
    <2>2. CASE t \notin AdjTimer
      BY <2>2 DEF AdjHot, AdjTimer, Tick
    <2>3. QED
      BY <2>1, <2>2
  <1>5. AdjHot' = {x \in AdjTimer : AdjDue'[x] = 0}
    BY <1>4
  <1>6. QED
    BY <1>1, <1>3, <1>5 DEF Timers!Tick, Timers!Off, Off

\* Whatever hellos, timers and the CLI do, the adjacencies stay within the
\* contract of the wheel: what TimerService promises is all they rely on.
THEOREM AdjacenciesUseTimerService == Spec => UsesTimerService
  <1>1. Init => Timers!Init
    <2> SUFFICES ASSUME Init PROVE Timers!Init
      OBVIOUS
    <2>1. AdjHot = {}
      BY DEF Init, AdjHot
    <2>2. AdjDue = [t \in AdjTimer |-> Off]
      <3>1. ASSUME NEW t \in AdjTimer PROVE AdjDue[t] = Off
        <4>1. PICK i \in Intf : t = <<i, "expiry">> \/ t = <<i, "delete">>
          BY TimerIsPair
        <4>2. QED
          BY <4>1, DueAt DEF Init
      <3>2. QED
        BY <3>1 DEF AdjDue
    <2>3. QED
      BY <2>1, <2>2 DEF Timers!Init, Timers!Off, Off
  <1>2. /\ TypeOK /\ TypeOK' /\ TimerInv
        /\ [Next]_vars
        => [Timers!Next]_(Timers!vars)
    <2> SUFFICES ASSUME TypeOK, TypeOK', TimerInv, [Next]_vars
                 PROVE  Timers!Next \/ UNCHANGED Timers!vars
      OBVIOUS
    <2>0. ASSUME UNCHANGED timerVars PROVE UNCHANGED Timers!vars
      BY <2>0 DEF timerVars, Timers!vars, AdjDue, AdjHot
    <2>1. ASSUME NEW i \in Intf, NEW moved \in BOOLEAN, ReceiveHello(i, moved)
          PROVE  Timers!Next \/ UNCHANGED Timers!vars
      BY <2>0, <2>1, StepOfHello DEF ReceiveHello
    <2>2. ASSUME NEW i \in Intf, ReceiveAgain(i)
          PROVE  Timers!Next \/ UNCHANGED Timers!vars
      BY <2>0, <2>2, StepOfHello DEF ReceiveAgain, adjVars
    <2>3. ASSUME NEW i \in Intf, ExpiryTimerFires(i) PROVE Timers!Next
      BY <2>3, StepOfToDown DEF ExpiryTimerFires, ChangeToDown
    <2>4. ASSUME NEW i \in Intf, DeleteTimerFires(i) PROVE Timers!Next
      <3>1. \A j \in Intf :
               delete_timer'[j] = IF j = i THEN Off ELSE delete_timer[j]
        BY <2>4 DEF DeleteTimerFires, TypeOK
      <3>2. Timers!Program
        BY <2>4, <3>1, ProgramFrom DEF DeleteTimerFires, Off
      <3>3. /\ \A j \in expiring : j \in Intf /\ expiry_timer[j] # Off
            /\ \A j \in deleting : j \in Intf /\ delete_timer[j] # Off
        BY DEF TypeOK, TimerInv, TimersOf, Off
      <3>4. /\ expiring' = {j \in expiring : expiry_timer'[j] # Off}
            /\ deleting' = {j \in deleting : delete_timer'[j] # Off}
        BY <2>4, <3>1, <3>3 DEF DeleteTimerFires
      <3>5. QED
        BY <3>2, <3>4, PostFrom DEF Timers!Next
    <2>5. CASE Tick
      BY <2>5, StepOfTick DEF Timers!Next
    <2>6. CASE IsisInit
      BY <2>0, <2>6 DEF IsisInit, Crash, adjVars
    <2>7. CASE IsisDeInit
      BY <2>0, <2>7 DEF IsisDeInit, Crash, adjVars
    <2>8. ASSUME NEW i \in Intf, EnableInterface(i) PROVE UNCHANGED Timers!vars
      BY <2>0, <2>8 DEF EnableInterface, adjVars
    <2>9. ASSUME NEW i \in Intf, DisableInterface(i)
          PROVE  Timers!Next \/ UNCHANGED Timers!vars
      BY <2>0, <2>9, StepOfDelete DEF DisableInterface, Crash, adjVars
    <2>10. ASSUME NEW i \in Intf, NEW up \in BOOLEAN, InterfaceUpDown(i, up)
           PROVE  UNCHANGED Timers!vars
      BY <2>0, <2>10 DEF InterfaceUpDown, adjVars
    <2>11. CASE ClearAdjacency
      BY <2>11, StepOfDelete DEF ClearAdjacency
    <2>12. CASE ClearLsdb
      BY <2>0, <2>12 DEF ClearLsdb, adjVars
    <2>13. CASE UNCHANGED vars
      BY <2>0, <2>13 DEF vars, adjVars
    <2>14. QED
      BY <2>1, <2>2, <2>3, <2>4, <2>5, <2>6, <2>7, <2>8, <2>9, <2>10, <2>11,
         <2>12, <2>13 DEF Next
  <1>3. QED
    BY <1>1, <1>2, TypeCorrect, TimerInvariant, PTL
       DEF Spec, Safety, UsesTimerService, Timers!Safety

=============================================================================
