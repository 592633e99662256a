----------------------------- MODULE MCInputOutput -----------------------------
(***************************************************************************)
(* What comes into a router and goes out of it, on small instances: the    *)
(* frames between the routers (Transport), the ARP table of one router,    *)
(* one switch, the command line (CommandParser) and the log (Tracing).     *)
(* The parts share no variable, so each is explored with the others at     *)
(* rest in an initial state.                                               *)
(***************************************************************************)
EXTENDS Transport, ArpTable, L2Switch, CommandParser, Tracing

CONSTANTS r1, r2, r3, recv, cli, f1, f2

VARIABLE focus      \* the part that is explored
ioVars == <<focus, trVars, arpVars, swVars, cliVars, lgVars>>

-----------------------------------------------------------------------------
(* Transport: three routers in a row.                                      *)

MCTrNode == {r1, r2, r3}
MCTrIntf == {<<r1, "a">>, <<r2, "b">>, <<r2, "a">>, <<r3, "b">>}
MCTrOther == [i \in MCTrIntf |->
    CASE i = <<r1, "a">> -> <<r2, "b">> [] i = <<r2, "b">> -> <<r1, "a">>
      [] i = <<r2, "a">> -> <<r3, "b">> [] i = <<r3, "b">> -> <<r2, "a">>]
MCTrGenerator == <<r1, "g">>
MCTrOffers == {<<recv, <<r2, "a">>, f1>>, <<recv, <<r1, "a">>, f2>>, <<cli, <<r2, "b">>, f2>>}
MCTrTouched == {<<r2, "b">>}

-----------------------------------------------------------------------------
(* Tracing: two routers, one of them with two interfaces.                  *)

MCLgIntf == {<<r1, "a">>, <<r1, "b">>, <<r2, "b">>}
MCLgOffers == ({r1, <<r1, "a">>} \X LgFlag) \cup {<<<<r1, "b">>, "recv">>, <<r2, "all">>}

-----------------------------------------------------------------------------
Init ==
    /\ focus \in {"transport", "arp", "switch", "command line", "log"}
    /\ TrInit /\ ArpInit /\ SwInit /\ CliInit /\ LgInit
    /\ (focus # "transport") => tr_bound = TrNode

Next ==
    \/ /\ focus = "transport" /\ TrNext
       /\ UNCHANGED <<focus, arpVars, swVars, cliVars, lgVars>>
    \/ /\ focus = "arp" /\ ArpNext
       /\ UNCHANGED <<focus, trVars, swVars, cliVars, lgVars>>
    \/ /\ focus = "switch" /\ SwNext
       /\ UNCHANGED <<focus, trVars, arpVars, cliVars, lgVars>>
    \/ /\ focus = "command line" /\ CliNext
       /\ UNCHANGED <<focus, trVars, arpVars, swVars, lgVars>>
    \/ /\ focus = "log" /\ LgNext
       /\ UNCHANGED <<focus, trVars, arpVars, swVars, cliVars>>

\* While the ARP table is at rest it has no entry and no thread uses it, and
\* its fairness asks for nothing.
Safety == Init /\ [][Next]_ioVars
Spec == Safety /\ ArpFairness

\* The types of all the parts.
InputOutputTypeOK == TrTypeOK /\ ArpTypeOK /\ SwTypeOK /\ CliTypeOK /\ LgTypeOK

=============================================================================
