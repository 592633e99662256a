------------------------------- MODULE MCRouting -------------------------------
(***************************************************************************)
(* What a router computes, on small instances: the routing tables that SPF *)
(* and the CLI fill and the packets that follow them (Forwarding), and the *)
(* two libraries that hold a router's data, the lists (GlThread) and the   *)
(* balanced trees (AvlTree).  The three share no variable, so each is      *)
(* explored with the others at rest in an initial state.  Forwarding is    *)
(* explored on two sets of networks: larger ones for SPF alone, smaller    *)
(* ones with packets and routing commands.                                 *)
(***************************************************************************)
EXTENDS Forwarding, GlThread, AvlTree

CONSTANTS none, nr, np, ns, nq, nu, nt, rp, rs, ps, pq, sq, pt, qt, ru1, ru2, ut

VARIABLE focus      \* the part that is explored
routingVars == <<focus, fwVars, glVars, avVars>>

-----------------------------------------------------------------------------
(* The networks of Spf and Forwarding: routers, and links with their ends. *)

MCNode == {nr, np, ns, nq, nu, nt}

MCEnds == [l \in {rp, rs, ps, pq, sq, pt, qt, ru1, ru2, ut} |->
    CASE l = rp -> {nr, np} [] l = rs -> {nr, ns} [] l = ps -> {np, ns} [] l = pq -> {np, nq}
      [] l = sq -> {ns, nq} [] l = pt -> {np, nt} [] l = qt -> {nq, nt}
      [] l \in {ru1, ru2} -> {nr, nu} [] l = ut -> {nu, nt}]

MCLink == DOMAIN MCEnds

\* graph->node_list, and the slots of node->intf[], in which a parallel link
\* comes before others.
MCOrder == <<nr, np, ns, nq, nu, nt>>

MCSlots ==
    LET links == <<rp, rs, ps, ru1, ru2, pq, pt, sq, qt, ut>> IN
      [n \in MCNode |-> SelectSeq([k \in 1..10 |-> <<n, links[k]>>],
                                  LAMBDA i : n \in MCEnds[i[2]])]

MCSetup(up, dear) ==
    LET I == {i \in MCNode \X MCLink : i[1] \in MCEnds[i[2]]} IN
      [cost |-> [l \in MCLink |-> IF l \in DOMAIN dear THEN dear[l] ELSE 1],
       up |-> [i \in I |-> i[2] \in up], changes |-> 1]

\* A net of six routers with parallel links and equal costs; the ring of four,
\* with some links dear, one so dear that the way round is cheaper.
MCRing == {rp, rs, pq, sq}
MCSpfSetups ==
    {MCSetup(MCLink \ {ps}, [l \in {pt, qt, ru1, ru2} |-> IF l = qt THEN 2 ELSE 3])}
      \cup {MCSetup(MCRing, [l \in c |-> 2]) : c \in SUBSET MCRing}
      \cup {MCSetup(MCRing, [l \in {rp} |-> 4])}

\* The triangle, one side of which is no better or worse than the two others.
MCFwSetups == {MCSetup({rp, rs, ps}, [l \in {ps} |-> c]) : c \in {2, 3}}

MCSetups == MCSpfSetups \cup MCFwSetups
MCTouched == {<<nr, rp>>}
MCStarts == {<<ns, np>>}
MCRoutes == {[node |-> nr, dest |-> <<np, 32>>, gw |-> <<ns, rs>>, link |-> rs],
             [node |-> np, dest |-> <<np, 32>>, gw |-> <<ns, ps>>, link |-> ps]}
MCPings == {<<nr, np, none>>, <<nr, <<ns, rs>>, none>>, <<ns, np, nr>>}

-----------------------------------------------------------------------------
Init ==
    /\ focus \in {"spf", "forwarding", "lists", "trees"}
    /\ FwInit /\ GlInit /\ AvInit
    /\ (focus = "spf") => ~spf_up[<<np, ps>>]
    /\ (focus = "forwarding") => spf_up[<<np, ps>>]
    /\ (focus \in {"lists", "trees"}) => spf_up[<<np, ps>>] /\ spf_cost[ps] = 2
    /\ (focus # "lists") => gl_use = "queue" /\ \A e \in GlItem : gl_key[e] = 1

\* Pings wait for the end of SPF's runs, a bound of this instance: FwNext lets
\* packets travel while SPF is at work.
Next ==
    \/ focus = "spf" /\ FwSpf /\ UNCHANGED <<focus, glVars, avVars>>
    \/ /\ focus = "forwarding" /\ FwNext /\ UNCHANGED <<focus, glVars, avVars>>
       /\ fw_pkt' = fw_pkt \/ spf_phase \in {"idle", "install"}
    \/ focus = "lists" /\ GlNext /\ UNCHANGED <<focus, fwVars, avVars>>
    \/ focus = "trees" /\ AvNext /\ UNCHANGED <<focus, fwVars, glVars>>

\* While Forwarding is at rest no packet is under way, and its fairness asks
\* for nothing.
Spec == Init /\ [][Next]_routingVars /\ WF_fwVars(FwReceive)

\* The types of all the parts.
RoutingTypeOK == FwTypeOK /\ GlTypeOK /\ AvTypeOK

=============================================================================
