--------------------------- MODULE IsisAdjacency ---------------------------
(***************************************************************************)
(* The IS-IS adjacencies of one router: Layer5/isis/isis_adjacency.c with  *)
(* the parts of isis_rtr.c, isis_intf.c, isis_pkt.c, isis_flood.c and      *)
(* isis_cli.c that change the same state.                                  *)
(*                                                                         *)
(* An interface has at most one adjacency.  The packet receiver thread     *)
(* moves it up as hellos arrive, the wheel timer thread takes it down and  *)
(* frees it, and the CLI configures, shuts and clears.  A handler is one   *)
(* step; the hellos themselves, their content and the link are the         *)
(* environment.  The two timers of an adjacency are timers of the wheel,   *)
(* used as TimerService describes them.                                    *)
(***************************************************************************)
EXTENDS Integers, FiniteSets

CONSTANTS
    Intf,           \* the interfaces of the router
    HoldTime,       \* adjacency->hold_time, from the neighbour's hello
    DeleteTime,     \* ISIS_ADJ_DEFAULT_DELETE_TIME
    CountMod        \* adj_up_count is a uint16_t; a small modulus here

ASSUME AdjacencyAssumption ==
    /\ IsFiniteSet(Intf)
    /\ HoldTime \in Nat \ {0}
    /\ DeleteTime \in Nat \ {0}
    /\ CountMod \in Nat \ {0}

Off == -1
NoFrame == "none"

ASSUME FrameAssumption == NoFrame \notin Intf

VARIABLES
    isis_node_info,     \* is the protocol enabled on the node?
    isis_intf_info,     \* the interfaces it is enabled on
    is_up,              \* the interfaces that are up
    hello_xmit_timer,   \* the interfaces that send hellos
    adj_state,          \* the adjacency of an interface, "NONE" if there is none
    expiry_timer,       \* ticks until adjacency->expiry_timer fires, or Off
    delete_timer,       \* ticks until adjacency->delete_timer fires, or Off
    expiring,           \* adjacencies whose expiry timer fires in this tick
    deleting,           \* adjacencies whose delete timer fires in this tick
    adj_up_count,       \* isis_node_info->adj_up_count
    reconciliation_in_progress,
    lsp_flood_interval, \* of periodic_lsp_flood_timer, "off" if there is none
    frame,              \* the interface of a hello delivered once, not yet twice
    crashed,            \* what killed the process, "no" while it runs
    silent,             \* history: ticks since the last hello, in INIT and UP
    spurious            \* history: changes to DOWN from a state other than UP

configVars  == <<isis_node_info, isis_intf_info, is_up, hello_xmit_timer>>
timerVars   == <<expiry_timer, delete_timer, expiring, deleting>>
adjVars     == <<adj_state, timerVars, silent>>
countVars   == <<adj_up_count, spurious>>
floodVars   == <<reconciliation_in_progress, lsp_flood_interval>>
vars == <<configVars, adjVars, countVars, floodVars, frame, crashed>>

AdjState == {"NONE", "DOWN", "INIT", "UP"}

Adjacent(i) == adj_state[i] # "NONE"
Up == {i \in Intf : adj_state[i] = "UP"}

TypeOK ==
    /\ isis_node_info \in BOOLEAN
    /\ isis_intf_info \subseteq Intf
    /\ is_up \subseteq Intf
    /\ hello_xmit_timer \subseteq Intf
    /\ adj_state \in [Intf -> AdjState]
    /\ expiry_timer \in [Intf -> Off .. HoldTime]
    /\ delete_timer \in [Intf -> Off .. DeleteTime]
    /\ expiring \subseteq Intf
    /\ deleting \subseteq Intf
    /\ adj_up_count \in 0 .. CountMod - 1
    /\ reconciliation_in_progress \in BOOLEAN
    /\ lsp_flood_interval \in {"off", "default", "reconciliation"}
    /\ frame \in Intf \cup {NoFrame}
    /\ crashed \in {"no", "init", "de_init", "disable", "restart"}
    /\ silent \in [Intf -> 0 .. HoldTime + 1]
    /\ spurious \in 0 .. CountMod - 1

Init ==
    /\ isis_node_info = FALSE
    /\ isis_intf_info = {}
    /\ is_up = Intf
    /\ hello_xmit_timer = {}
    /\ adj_state = [i \in Intf |-> "NONE"]
    /\ expiry_timer = [i \in Intf |-> Off]
    /\ delete_timer = [i \in Intf |-> Off]
    /\ expiring = {}
    /\ deleting = {}
    /\ adj_up_count = 0
    /\ reconciliation_in_progress = FALSE
    /\ lsp_flood_interval = "off"
    /\ frame = NoFrame
    /\ crashed = "no"
    /\ silent = [i \in Intf |-> 0]
    /\ spurious = 0

Running == crashed = "no"

\* Every router of the topology lives in the one process, so a fault in a
\* handler ends them all.
Crash(why) ==
    /\ crashed' = why
    /\ UNCHANGED <<configVars, adjVars, countVars, floodVars, frame>>

-----------------------------------------------------------------------------
(* isis_change_adjacency_state, by what it does: several of its cases lack  *)
(* a break and run on into the next ones.                                   *)

\* Mutant: the hold time is counted from one tick later.
RefreshLate(i) ==
    /\ expiry_timer' = [expiry_timer EXCEPT ![i] = HoldTime + 1]
    /\ silent' = [silent EXCEPT ![i] = 0]

\* The expiry timer is started, or rescheduled, for the hold time.
Refresh(i) ==
    /\ expiry_timer' = [expiry_timer EXCEPT ![i] = HoldTime]
    /\ silent' = [silent EXCEPT ![i] = 0]

\* Mutants: the callback of a cancelled timer still comes; the expiry timer
\* is left running.
ToDownStillExpiring(i) ==
    /\ adj_state' = [adj_state EXCEPT ![i] = "DOWN"]
    /\ expiry_timer' = [expiry_timer EXCEPT ![i] = Off]
    /\ delete_timer' = [delete_timer EXCEPT ![i] = DeleteTime]
    /\ silent' = [silent EXCEPT ![i] = 0]
    /\ UNCHANGED <<expiring, deleting>>
ToDownNoStop(i) ==
    /\ adj_state' = [adj_state EXCEPT ![i] = "DOWN"]
    /\ expiring' = expiring \ {i}
    /\ delete_timer' = [delete_timer EXCEPT ![i] = DeleteTime]
    /\ deleting' = deleting \ {i}
    /\ silent' = [silent EXCEPT ![i] = 0]
    /\ UNCHANGED expiry_timer

\* From any state to DOWN: the expiry timer is stopped, and the delete timer
\* started anew; in DOWN and INIT the one that may be running is stopped first.
ToDown(i) ==
    /\ adj_state' = [adj_state EXCEPT ![i] = "DOWN"]
    /\ expiry_timer' = [expiry_timer EXCEPT ![i] = Off]
    /\ expiring' = expiring \ {i}
    /\ delete_timer' = [delete_timer EXCEPT ![i] = DeleteTime]
    /\ deleting' = deleting \ {i}
    /\ silent' = [silent EXCEPT ![i] = 0]

\* Mutant: a counter that does not wrap.
CountDownSigned(i) ==
    /\ adj_up_count' = adj_up_count - 1
    /\ spurious' = spurious

\* The cases of DOWN and INIT run on into that of UP and count down as well.
CountDown(i) ==
    /\ adj_up_count' = (adj_up_count - 1) % CountMod
    /\ spurious' = IF adj_state[i] = "UP" THEN spurious
                                          ELSE (spurious + 1) % CountMod

ChangeToDown(i) ==
    /\ ToDown(i)
    /\ CountDown(i)
    /\ UNCHANGED <<floodVars, crashed>>

\* DOWN to INIT: the delete timer is stopped, the expiry timer started.
ChangeToInit(i) ==
    /\ adj_state' = [adj_state EXCEPT ![i] = "INIT"]
    /\ delete_timer' = [delete_timer EXCEPT ![i] = Off]
    /\ deleting' = deleting \ {i}
    /\ Refresh(i)
    /\ UNCHANGED <<expiring, countVars, floodVars, crashed>>

\* Mutant: the flood timer keeps its interval.
EnterReconciliationFlagOnly ==
    /\ reconciliation_in_progress' = TRUE
    /\ UNCHANGED lsp_flood_interval

\* isis_enter_reconciliation_phase.  It sets the flag before it calls
\* isis_start_reconciliation_timer, which returns because the flag is set:
\* no reconciliation timer is ever started.
EnterReconciliation ==
    /\ reconciliation_in_progress' = TRUE
    /\ lsp_flood_interval' = "reconciliation"

\* INIT to UP.  With a reconciliation in progress the process dies in
\* isis_restart_reconciliation_timer: reconcil_data has no value there, and
\* whatever it points to, that is a wild read, the assert(0), or the
\* rescheduling of a timer that was never started.
ChangeToUp(i) ==
    IF reconciliation_in_progress
      THEN /\ crashed' = "restart"
           /\ UNCHANGED <<adjVars, countVars, floodVars>>
      ELSE /\ adj_state' = [adj_state EXCEPT ![i] = "UP"]
           /\ Refresh(i)
           /\ adj_up_count' = (adj_up_count + 1) % CountMod
           /\ EnterReconciliation
           /\ UNCHANGED <<delete_timer, expiring, deleting, spurious, crashed>>

\* UP to UP: the timer is rescheduled.  If it is due in this very tick that
\* does not stop it from firing (`expiring' stays).
RefreshUp(i) ==
    /\ Refresh(i)
    /\ UNCHANGED <<adj_state, delete_timer, expiring, deleting, countVars,
                   floodVars, crashed>>

-----------------------------------------------------------------------------
(* The packet receiver thread.                                             *)

\* Mutant: hellos are taken on an interface that is down.
AcceptsWhenDown(i) == isis_node_info /\ i \in isis_intf_info

\* A hello is dropped if the interface is down, or the protocol is not
\* enabled on the node or the interface.
Accepts(i) == isis_node_info /\ i \in isis_intf_info /\ i \in is_up

\* isis_update_interface_adjacency_from_hello.  `moved': the neighbour's IP
\* or MAC address differs from what the adjacency has recorded.
UpdateAdjacencyFromHello(i, moved) ==
    \/ /\ adj_state[i] = "NONE"
       /\ adj_state' = [adj_state EXCEPT ![i] = "DOWN"]
       /\ delete_timer' = [delete_timer EXCEPT ![i] = DeleteTime]
       /\ UNCHANGED <<expiry_timer, expiring, deleting, silent, countVars,
                      floodVars, crashed>>
    \/ adj_state[i] # "NONE" /\ moved /\ ChangeToDown(i)
    \/ adj_state[i] = "DOWN" /\ ~moved /\ ChangeToInit(i)
    \/ adj_state[i] = "INIT" /\ ~moved /\ ChangeToUp(i)
    \/ adj_state[i] = "UP" /\ ~moved /\ RefreshUp(i)

\* A frame is handed to the protocol twice, one call after the other: by the
\* trap rule, and again because the registration has no key
\* (nfc_invoke_notif_chain).  The other threads run between the two.
ReceiveHello(i, moved) ==
    /\ Running
    /\ frame = NoFrame
    /\ Accepts(i)
    /\ UpdateAdjacencyFromHello(i, moved)
    /\ frame' = i
    /\ UNCHANGED configVars

\* The second time nothing in it is new to the adjacency.
ReceiveAgain(i) ==
    /\ Running
    /\ frame = i
    /\ IF Accepts(i)
         THEN UpdateAdjacencyFromHello(i, FALSE)
         ELSE UNCHANGED <<adjVars, countVars, floodVars, crashed>>
    /\ frame' = NoFrame
    /\ UNCHANGED configVars

-----------------------------------------------------------------------------
(* The wheel timer thread.                                                 *)

\* isis_timer_expire_down_adjacency_cb
ExpiryTimerFires(i) ==
    /\ Running
    /\ i \in expiring
    /\ ChangeToDown(i)
    /\ UNCHANGED <<configVars, frame>>

\* isis_timer_expire_delete_adjacency_cb
DeleteTimerFires(i) ==
    /\ Running
    /\ i \in deleting
    /\ adj_state' = [adj_state EXCEPT ![i] = "NONE"]
    /\ delete_timer' = [delete_timer EXCEPT ![i] = Off]
    /\ deleting' = deleting \ {i}
    /\ UNCHANGED <<expiry_timer, expiring, silent, countVars, floodVars,
                   configVars, frame, crashed>>

TickDown(timer) ==
    [i \in Intf |-> IF timer[i] = Off THEN Off ELSE timer[i] - 1]

\* One turn of wheel_fn to the next slot.
Tick ==
    /\ Running
    /\ expiring = {} /\ deleting = {}
    /\ expiry_timer' = TickDown(expiry_timer)
    /\ delete_timer' = TickDown(delete_timer)
    /\ expiring' = {i \in Intf : expiry_timer[i] = 1}
    /\ deleting' = {i \in Intf : delete_timer[i] = 1}
    /\ silent' = [i \in Intf |->
                    IF adj_state[i] \in {"INIT", "UP"} /\ silent[i] <= HoldTime
                      THEN silent[i] + 1 ELSE silent[i]]
    /\ UNCHANGED <<adj_state, configVars, countVars, floodVars, frame, crashed>>

-----------------------------------------------------------------------------
(* The CLI.                                                                *)

\* isis_init.  Its first task goes through glthread_add_last, which reads an
\* uninitialised pointer: the call does nothing, or dereferences NULL.
IsisInit ==
    /\ Running
    /\ ~isis_node_info
    /\ \/ /\ isis_node_info' = TRUE
          /\ lsp_flood_interval' = "default"
          /\ UNCHANGED <<isis_intf_info, is_up, hello_xmit_timer, adjVars,
                         countVars, reconciliation_in_progress, frame, crashed>>
       \/ Crash("init")

\* isis_de_init never gets to its end.  It dies in the synchronous flood or in
\* isis_delete_adjacency if an interface has no protocol or no adjacency, and
\* at the latest in task_cancel_job: the task of isis_init has never run.
IsisDeInit ==
    /\ Running
    /\ isis_node_info
    /\ Crash("de_init")

\* isis_enable_protocol_on_interface
EnableInterface(i) ==
    /\ Running
    /\ isis_node_info
    /\ i \notin isis_intf_info
    /\ isis_intf_info' = isis_intf_info \cup {i}
    /\ hello_xmit_timer' = IF i \in is_up THEN hello_xmit_timer \cup {i}
                                          ELSE hello_xmit_timer
    /\ UNCHANGED <<isis_node_info, is_up, adjVars, countVars, floodVars, frame,
                   crashed>>

\* Mutant: an UP adjacency is deleted without being counted down.
NotCounted(gone) == UNCHANGED adj_up_count

\* The UP adjacencies among those deleted are counted down.
CountDeleted(gone) ==
    adj_up_count' = (adj_up_count - Cardinality(gone \cap Up)) % CountMod

\* isis_delete_adjacency on the adjacencies of a set of interfaces.
DeleteAdjacencies(gone) ==
    /\ adj_state' = [i \in Intf |-> IF i \in gone THEN "NONE" ELSE adj_state[i]]
    /\ expiry_timer' = [i \in Intf |-> IF i \in gone THEN Off ELSE expiry_timer[i]]
    /\ delete_timer' = [i \in Intf |-> IF i \in gone THEN Off ELSE delete_timer[i]]
    /\ expiring' = expiring \ gone
    /\ deleting' = deleting \ gone
    /\ silent' = [i \in Intf |-> IF i \in gone THEN 0 ELSE silent[i]]
    /\ CountDeleted(gone)
    /\ UNCHANGED spurious

\* isis_disable_protocol_on_interface, which hands isis_delete_adjacency a
\* null pointer if the interface has no adjacency.
DisableInterface(i) ==
    /\ Running
    /\ i \in isis_intf_info
    /\ IF Adjacent(i)
         THEN /\ hello_xmit_timer' = hello_xmit_timer \ {i}
              /\ DeleteAdjacencies({i})
              /\ isis_intf_info' = isis_intf_info \ {i}
              /\ UNCHANGED <<isis_node_info, is_up, floodVars, frame, crashed>>
         ELSE Crash("disable")

\* config node <node> interface <intf> up | down.  The change flag is never
\* set (SET_BIT does not assign), so no protocol is told.
InterfaceUpDown(i, up) ==
    /\ Running
    /\ is_up' = IF up THEN is_up \cup {i} ELSE is_up \ {i}
    /\ UNCHANGED <<isis_node_info, isis_intf_info, hello_xmit_timer, adjVars,
                   countVars, floodVars, frame, crashed>>

\* clear node <node> isis adjacency
ClearAdjacency ==
    /\ Running
    /\ DeleteAdjacencies({i \in isis_intf_info : Adjacent(i)})
    /\ UNCHANGED <<configVars, floodVars, frame, crashed>>

\* clear node <node> isis lsdb, as far as it concerns the reconciliation
ClearLsdb ==
    /\ Running
    /\ isis_node_info
    /\ ~reconciliation_in_progress
    /\ EnterReconciliation
    /\ UNCHANGED <<configVars, adjVars, countVars, frame, crashed>>

-----------------------------------------------------------------------------
Next ==
    \/ \E i \in Intf, moved \in BOOLEAN : ReceiveHello(i, moved)
    \/ \E i \in Intf : ReceiveAgain(i)
    \/ \E i \in Intf : ExpiryTimerFires(i)
    \/ \E i \in Intf : DeleteTimerFires(i)
    \/ Tick
    \/ IsisInit
    \/ IsisDeInit
    \/ \E i \in Intf : EnableInterface(i)
    \/ \E i \in Intf : DisableInterface(i)
    \/ \E i \in Intf, up \in BOOLEAN : InterfaceUpDown(i, up)
    \/ ClearAdjacency
    \/ ClearLsdb

Safety == Init /\ [][Next]_vars

\* The wheel's thread runs for ever, and the receiver finishes with a frame.
\* Nothing is assumed of hellos and of the CLI.
Fairness ==
    /\ WF_vars(Tick)
    /\ \A i \in Intf : WF_vars(ExpiryTimerFires(i))
    /\ \A i \in Intf : WF_vars(DeleteTimerFires(i))
    /\ \A i \in Intf : WF_vars(ReceiveAgain(i))

Spec == Safety /\ Fairness

-----------------------------------------------------------------------------
(* What makes the adjacencies correct.                                     *)

\* The timers are those of the state, so that an adjacency always has
\* exactly one way out: a DOWN one is waiting to be deleted, one that hears
\* its neighbour is waiting for the hold time, and none is left with a timer
\* that points at freed memory.  (The delete callback asserts a part of it,
\* isis_adjacency_refresh_expiry_timer another.)
TimersMatchState ==
    \A i \in Intf :
        /\ delete_timer[i] # Off <=> adj_state[i] = "DOWN"
        /\ expiry_timer[i] # Off <=> adj_state[i] \in {"INIT", "UP"}

\* The neighbour of an adjacency in INIT or UP was heard within the hold time.
HeardRecently ==
    \A i \in Intf : adj_state[i] \in {"INIT", "UP"} => silent[i] <= HoldTime

\* The expiry timer does not fire early, with one exception: a hello that
\* arrives in the tick in which the timer is due comes too late to stop it.
ExpiryJustified ==
    \A i \in expiring :
        /\ adj_state[i] \in {"INIT", "UP"}
        /\ silent[i] \in {0, HoldTime}

\* What adj_up_count really counts: the UP adjacencies, less one for each
\* change to DOWN from DOWN or INIT, modulo the width of the counter.
UpCountDrift ==
    (adj_up_count + spurious) % CountMod = Cardinality(Up) % CountMod

\* What `show' presents it as: the number of UP adjacencies.
UpCountExact == adj_up_count = Cardinality(Up)

\* While an adjacency is UP the router is reconciling its database and floods
\* at the short interval.
ReconcilingWhileUp ==
    (Up # {} \/ reconciliation_in_progress) => lsp_flood_interval = "reconciliation"

\* The change to UP never kills the process: the assert(0) of
\* isis_restart_reconciliation_timer is not reached.
RestartSafe == crashed # "restart"

\* Interfaces that are shut, or lose their neighbour, do not keep the
\* adjacency for ever: without hellos the timers take it down and free it.
QuietIsFreed ==
    \A i \in Intf :
        <>[](i \notin is_up) => <>[](Running => ~Adjacent(i))

\* A reconciliation comes to its end.
ReconciliationEnds ==
    reconciliation_in_progress ~> (~reconciliation_in_progress \/ ~Running)

-----------------------------------------------------------------------------
(* The two timers of every adjacency, as timers of TimerService.           *)

AdjTimer == Intf \X {"expiry", "delete"}

LongestInterval == IF HoldTime > DeleteTime THEN HoldTime ELSE DeleteTime

AdjDue == [t \in AdjTimer |-> IF t[2] = "expiry" THEN expiry_timer[t[1]]
                                                ELSE delete_timer[t[1]]]
AdjHot == (expiring \X {"expiry"}) \cup (deleting \X {"delete"})

Timers == INSTANCE TimerService WITH
    Timer <- AdjTimer,
    MaxInterval <- LongestInterval,
    due <- AdjDue,
    hot <- AdjHot

\* The adjacencies use their timers within that contract, and nothing else
\* is assumed of the wheel.
UsesTimerService == Timers!Safety

=============================================================================
