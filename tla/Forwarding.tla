----------------------------- MODULE Forwarding -----------------------------
(***************************************************************************)
(* Packets on their way through the routers: the second part of            *)
(* Layer3/layer3.c, and Layer5/ping.c.                                     *)
(*                                                                         *)
(* A router looks up the route of a packet and gives it to layer 2, for    *)
(* the next hop or for a host of its own subnets; the receiver's thread    *)
(* takes it up at the next router.  Meanwhile the CLI's thread runs SPF    *)
(* and changes routes, so that a packet meets tables of different runs.    *)
(* Layer 2 is as in ArpTable once the addresses are resolved; a packet may *)
(* be lost there.  The router's lookup and its use of the route are one    *)
(* step.                                                                   *)
(***************************************************************************)
EXTENDS Spf

CONSTANTS
    FwTtl,          \* bound: the ttl of initialize_ip_pkt, 64 in the code
    FwPings,        \* bound: the pings, <<node, destination, inner one or RtNoHop>>
    FwRoutes        \* bound: the routes the CLI adds, [node, dest, gw, link]

ASSUME FwAssumption ==
    /\ FwTtl \in Nat \ {0}
    /\ FwPings \subseteq RtNode \X RtAddr \X (RtNode \cup {RtNoHop})
    /\ FwRoutes \subseteq [node : RtNode, dest : RtPrefix, gw : RtIntf, link : RtLink]

VARIABLES
    fw_pkt,         \* the packet under way, or RtNoHop
    fw_fate,        \* history: what has just become of the last packet
    fw_calm         \* history: the tables followed from the topology all its way

fwVars == <<spfVars, fw_pkt, fw_fate, fw_calm>>

\* A packet at a router: destination, ttl, and what IP_IN_IP has inside: the
\* destination of the packet that goes on from the first one's destination.
FwPacket == [at : RtNode, dst : RtAddr, ttl : 0 .. FwTtl, inner : RtAddr \cup {RtNoHop}]

FwTypeOK ==
    /\ SpfTypeOK
    /\ fw_pkt \in FwPacket \cup {RtNoHop}
    /\ fw_fate \in {"none", "delivered", "no route", "no next hop", "ttl", "lost"}
    /\ fw_calm \in BOOLEAN

FwInit ==
    /\ SpfInit
    /\ fw_pkt = RtNoHop
    /\ fw_fate = "none"
    /\ fw_calm = FALSE

\* is_layer3_local_delivery
LocalDelivery(n, a) == a = n \/ (a \in RtIntf /\ a[1] = n)

FwSend(pkt) == fw_pkt' = pkt /\ fw_fate' = "none"
FwEnd(fate) == fw_pkt' = RtNoHop /\ fw_fate' = fate

\* Both ends of a link must be up for a frame to pass.
FwSendTo(oif, gw, pkt) ==
    IF gw = RtPeer[oif] /\ Bidirectional(oif) THEN FwSend([pkt EXCEPT !.at = gw[1]])
    ELSE FwEnd("lost")

\* Over the next hop of an indirect route.
FwVia(n, r, pkt) ==
    /\ UseRoute(n, r)
    /\ IF OutIntf(n, ActiveNexthop(r)) = RtNoHop THEN FwEnd("lost")
       ELSE FwSendTo(OutIntf(n, ActiveNexthop(r)), ActiveNexthop(r).gw, pkt)

\* Delivery at the router: the end, or the journey of what is inside.
FwDeliver(pkt) ==
    IF pkt.inner = RtNoHop THEN FwEnd("delivered")
    ELSE FwSend([pkt EXCEPT !.dst = pkt.inner, !.inner = RtNoHop, !.ttl = FwTtl])

\* Mutant: the ttl is counted down only on the way to another network.
FwReceiveForEver ==
    /\ rt_dead = "no"
    /\ fw_pkt # RtNoHop
    /\ LET n == fw_pkt.at
           routes == LookupLpm(rt_table[n], fw_pkt.dst) IN
         \/ routes = {} /\ FwEnd("no route") /\ UNCHANGED rtVars
         \/ \E r \in routes :
              /\ r.is_direct
              /\ IF LocalDelivery(n, fw_pkt.dst) THEN FwDeliver(fw_pkt)
                                                 ELSE FwEnd("no next hop")
              /\ UNCHANGED rtVars
         \/ \E r \in routes : ~r.is_direct /\ FwVia(n, r, fw_pkt)
    /\ UNCHANGED <<spfConfigVars, spfDataVars, spfLoopVars, spf_current, fw_calm>>

\* What a router does with a packet from another one (or from itself):
\* layer3_ip_pkt_recv_from_bottom.  A packet for a host of its own subnets is
\* given to layer 2 with 0 for the next hop, which is in none of them.
FwReceive ==
    /\ rt_dead = "no"
    /\ fw_pkt # RtNoHop
    /\ LET n == fw_pkt.at
           routes == LookupLpm(rt_table[n], fw_pkt.dst) IN
         \/ routes = {} /\ FwEnd("no route") /\ UNCHANGED rtVars
         \/ \E r \in routes :
              /\ r.is_direct
              /\ IF LocalDelivery(n, fw_pkt.dst) THEN FwDeliver(fw_pkt)
                                                 ELSE FwEnd("no next hop")
              /\ UNCHANGED rtVars
         \/ \E r \in routes :
              /\ ~r.is_direct
              /\ IF fw_pkt.ttl = 1 THEN FwEnd("ttl") /\ UNCHANGED rtVars
                 ELSE FwVia(n, r, [fw_pkt EXCEPT !.ttl = @ - 1])
    /\ UNCHANGED <<spfConfigVars, spfDataVars, spfLoopVars, spf_current, fw_calm>>

\* Is the loopback address d one that router n is sure to reach?
FwRouted(n, d) ==
    /\ <<d, <<d, 32>>>> \notin rt_touched
    /\ \A m \in RtNode : <<d, m>> \notin RtStarts
    /\ d = n \/ \E r \in rt_table[n] : r.dest = <<d, 32>> /\ ~r.is_direct

\* node_get_matching_subnet_interface
MatchingSubnetIntf(n, a) == {i \in RtIntf : i[1] = n /\ i[2] = ApplyMask(a, 24)}

\* What ping sends.  With ero, the destination is the address after ero, and
\* the packet for the address that is pinged is inside.
PingPacket(n, dst, inner) == [at |-> n, dst |-> dst, ttl |-> FwTtl, inner |-> inner]

\* run node <node> ping <address> [ero <address>]: layer3_pkt_recv_from_top.  A
\* direct route is left to layer 2, which finds the router itself, or the host.
FwPing(n, dst, inner) ==
    /\ SpfIdle
    /\ fw_pkt = RtNoHop
    /\ LET routes == LookupLpm(rt_table[n], dst)
           pkt == PingPacket(n, dst, inner) IN
         \/ routes = {} /\ FwEnd("no route") /\ UNCHANGED rtVars
         \/ \E r \in routes :
              /\ r.is_direct
              /\ IF LocalDelivery(n, dst) THEN FwSend(pkt)
                 ELSE \/ \E oif \in MatchingSubnetIntf(n, dst) : FwSendTo(oif, dst, pkt)
                      \/ MatchingSubnetIntf(n, dst) = {} /\ FwEnd("no next hop")
              /\ UNCHANGED rtVars
         \/ \E r \in routes : ~r.is_direct /\ FwVia(n, r, pkt)
    /\ fw_calm' = /\ spf_current = RtNode
                  /\ dst \in RtNode /\ FwRouted(n, dst)
                  /\ inner # RtNoHop => FwRouted(dst, inner)
    /\ UNCHANGED <<spfConfigVars, spfDataVars, spfLoopVars, spf_current>>

\* Layer 2 drops it: the ARP entry expires, a frame is lost.  Or layer 3 takes
\* it for no packet of the network: layer2.c calls promote_pkt_to_layer3 without
\* its last argument, the flags, and if what is found there has
\* DATA_LINK_HDR_INCLUDED, the destination is read from behind the header,
\* where no address stands.
FwLose ==
    /\ fw_pkt # RtNoHop
    /\ FwEnd("lost")
    /\ UNCHANGED <<spfVars, fw_calm>>

-----------------------------------------------------------------------------
\* The CLI's steps: a change of the tables or the links ends the calm.
FwHistory ==
    /\ fw_calm' = (fw_calm /\ fw_pkt # RtNoHop /\ spf_current' = RtNode)
    /\ fw_fate' = "none"

FwSpf == SpfNext /\ FwHistory /\ UNCHANGED fw_pkt

\* The routing commands.  They change the table of node n.
FwConfig(n) ==
    /\ SpfIdle
    /\ spf_changes > 0
    /\ spf_changes' = spf_changes - 1
    /\ \/ \E c \in FwRoutes : c.node = n /\ ConfigRoute(n, c.dest, c.gw, c.link)
       \/ \E c \in FwRoutes : ConfigRouteRefused(n, c.link)
       \/ \E c \in FwRoutes : c.node = n /\ ConfigDirectRoute(n, c.dest)
       \/ \E c \in FwRoutes : c.node = n /\ DeleteRoute(n, c.dest)
    /\ spf_current' = spf_current \ {n}
    /\ FwHistory
    /\ UNCHANGED <<spf_cost, spf_up, spfDataVars, spfLoopVars, fw_pkt>>

FwNext ==
    \/ FwSpf
    \/ \E n \in {c.node : c \in FwRoutes} : FwConfig(n)
    \/ \E ping \in FwPings : FwPing(ping[1], ping[2], ping[3])
    \/ FwReceive
    \/ FwLose

FwSafety == FwInit /\ [][FwNext]_fwVars

\* The receiver's thread takes up every frame.
FwSpec == FwSafety /\ WF_fwVars(FwReceive)

-----------------------------------------------------------------------------
\* Every packet comes to an end, loops between tables of different runs or
\* static routes notwithstanding.
FwEnds == (fw_pkt # RtNoHop) ~> (fw_pkt = RtNoHop \/ rt_dead # "no")

\* While all the tables follow from the topology, a packet for a loopback
\* address that can be reached is delivered, or lost on a link: it is never
\* dropped for its ttl or for want of a route.  (Two exceptions are the code's:
\* an address that is, as text, the beginning of another, and a router whose
\* own route the CLI has changed.)
FwConverged == fw_calm => fw_fate \in {"none", "delivered", "lost"}

=============================================================================
