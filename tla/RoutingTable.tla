---------------------------- MODULE RoutingTable ----------------------------
(***************************************************************************)
(* The routing tables: the first part of Layer3/layer3.c.                  *)
(*                                                                         *)
(* A table is a set of routes, found by destination and mask.  (In the     *)
(* code it is a list; its order decides only between routes that the       *)
(* lookup takes for equally long, where this module chooses any.)  A route *)
(* is direct, or has up to MAX_NXT_HOPS next hops that packets take in     *)
(* turn.  The CLI adds and deletes routes, SPF clears and fills the table, *)
(* and the forwarding threads use it.                                      *)
(*                                                                         *)
(* The next hop of a route of the CLI does not keep its interface: l3_     *)
(* config_handler passes the place in the command's buffer where the name  *)
(* stands, and rt_table_add_route keeps that pointer.  Only a command of   *)
(* five arguments writes there again, which is the same command: so all    *)
(* these next hops read whatever name the last of them was given, if it    *)
(* was refused too.                                                        *)
(*                                                                         *)
(* An address is a node (its loopback address) or an interface <<node,     *)
(* link>> (its address); an interface is named by its link.  A mask is 32, *)
(* or 24 for the subnet, which is the link, or RtLoopbackNet for all the   *)
(* loopbacks.                                                              *)
(***************************************************************************)
EXTENDS Integers, FiniteSets

CONSTANTS
    RtNode,         \* the routers
    RtLink,         \* the links between them
    RtEnds,         \* the two nodes of a link
    RtMaxNxtHops,   \* MAX_NXT_HOPS
    RtStarts,       \* the pairs of loopback addresses of which the first, as
                    \* text, is the beginning of the second (1.1.1.1, 1.1.1.10)
    RtLoopbackNet,  \* the subnet of the loopback addresses
    RtNoHop,        \* NULL in the array nexthops
    RtText          \* an oif that points into the CLI's buffer

ASSUME RtAssumption ==
    /\ RtEnds \in [RtLink -> SUBSET RtNode]
    /\ RtMaxNxtHops \in Nat \ {0}
    /\ RtStarts \subseteq RtNode \X RtNode
    /\ RtText \notin RtNode \X RtLink
    /\ RtNoHop \notin RtNode \X RtLink
    /\ RtNoHop \notin RtLink

RtIntf == {i \in RtNode \X RtLink : i[1] \in RtEnds[i[2]]}
RtAddr == RtNode \cup RtIntf

RtHop == [gw : RtIntf, oif : RtIntf \cup {RtText}]
RtPlace == 0 .. RtMaxNxtHops - 1
RtHops == [RtPlace -> RtHop \cup {RtNoHop}]

\* A destination and its mask.
RtPrefix == (RtAddr \X {32}) \cup ((RtLink \cup {RtLoopbackNet}) \X {24})
RtRoute == [dest : RtPrefix, is_direct : BOOLEAN, nexthops : RtHops,
            nxthop_idx : RtPlace]

ASSUME RtNoHopIsNone == RtNoHop \notin RtHop

VARIABLES
    rt_table,       \* the routes of each node
    rt_text,        \* the link the text in the CLI's buffer names, or RtNoHop
    rt_touched,     \* history: <<node, destination>> the CLI has changed
    rt_dead         \* what killed the process, "no" while it runs

rtVars == <<rt_table, rt_text, rt_touched, rt_dead>>

RtTypeOK ==
    /\ rt_table \in [RtNode -> SUBSET RtRoute]
    /\ rt_text \in RtLink \cup {RtNoHop}
    /\ rt_touched \subseteq RtNode \X RtPrefix
    /\ rt_dead \in {"no", "null gw", "oif", "recorded"}

\* The interface at the other end of the link.
RtPeer == [i \in RtIntf |-> CHOOSE j \in RtIntf : j[2] = i[2] /\ j[1] # i[1]]

\* apply_mask
ApplyMask(a, mask) ==
    IF mask = 32 THEN a ELSE IF a \in RtNode THEN RtLoopbackNet ELSE a[2]

NoHops == [k \in RtPlace |-> RtNoHop]
NewRoute(dest, direct, hops) ==
    [dest |-> dest, is_direct |-> direct, nexthops |-> hops, nxthop_idx |-> 0]

\* node_set_loopback_address and node_set_intf_ip_address
OwnSubnets(n) ==
    {NewRoute(<<n, 32>>, TRUE, NoHops)} \cup
    {NewRoute(<<i[2], 24>>, TRUE, NoHops) : i \in {j \in RtIntf : j[1] = n}}

RtInit ==
    /\ rt_table = [n \in RtNode |-> OwnSubnets(n)]
    /\ rt_text = RtNoHop
    /\ rt_touched = {}
    /\ rt_dead = "no"

-----------------------------------------------------------------------------
\* l3rib_lookup, rt_table_lookup
RtLookup(T, dest) == {r \in T : r.dest = dest}

\* The first place without a next hop, MAX_NXT_HOPS if there is none.
RtFree(h) ==
    CHOOSE k \in 0 .. RtMaxNxtHops :
        /\ \A j \in RtPlace : j < k => h[j] # RtNoHop
        /\ k \in RtPlace => h[k] = RtNoHop

\* Mutant: the search for a place passes over the first one.
WithHopAfter(r, hop) ==
    LET k == IF r.nexthops[0] = RtNoHop /\ 1 \in RtPlace THEN 1 ELSE RtFree(r.nexthops) IN
    IF k \notin RtPlace \/ \E j \in RtPlace : j < k /\ r.nexthops[j] = hop THEN r
    ELSE [r EXCEPT !.nexthops[k] = hop, !.is_direct = FALSE]

\* rt_table_add_route with a gateway, for a route that exists: a second path
\* goes to the first free place, a duplicate or one too many is refused.
WithHop(r, hop) ==
    LET k == RtFree(r.nexthops) IN
    IF k \notin RtPlace \/ \E j \in RtPlace : j < k /\ r.nexthops[j] = hop THEN r
    ELSE [r EXCEPT !.nexthops[k] = hop, !.is_direct = FALSE]

AddRoute(T, dest, hop) ==
    LET old == RtLookup(T, dest) IN
    IF old = {}
    THEN T \cup {NewRoute(dest, FALSE, [NoHops EXCEPT ![0] = hop])}
    ELSE (T \ old) \cup {WithHop(r, hop) : r \in old}

\* rt_table_add_direct_route: an existing route stays as it is.
AddDirectRoute(T, dest) ==
    IF RtLookup(T, dest) = {} THEN T \cup {NewRoute(dest, TRUE, NoHops)} ELSE T

\* It compares the first next hop of an existing route with a NULL gateway.
DirectCrashes(T, dest) == \E r \in RtLookup(T, dest) : r.nexthops[0] # RtNoHop

\* Mutant: the direct routes are cleared too.
ClearTableAll(T) == {}

\* Mutant: routes on which a packet has moved the index are passed over.
ClearTableUnused(T) == {r \in T : r.is_direct \/ r.nxthop_idx # 0}

\* clear_rt_table
ClearTable(T) == {r \in T : r.is_direct}

\* The routes that match address a: the text of the masked address is the
\* beginning of the text of the route's.
RtMatches(T, a) ==
    {r \in T : \/ r.dest[1] = ApplyMask(a, r.dest[2])
               \/ r.dest[2] = 32 /\ <<a, r.dest[1]>> \in RtStarts}

\* l3rib_lookup_lpm, the routes it may return.  (A default route, mask 0, is
\* refused by validate_mask_value.)
LookupLpm(T, a) ==
    {r \in RtMatches(T, a) : \A q \in RtMatches(T, a) : q.dest[2] <= r.dest[2]}

\* l3_route_get_active_nexthop: the next hop to use ...
ActiveNexthop(r) == r.nexthops[r.nxthop_idx]

\* ... and the route with its index moved on.
Rotate(r) ==
    LET k == r.nxthop_idx + 1 IN
    [r EXCEPT !.nxthop_idx = IF k = RtMaxNxtHops \/ r.nexthops[k] = RtNoHop THEN 0 ELSE k]

\* get_node_intf_by_name for the oif of a next hop of node n: the interface,
\* or RtNoHop if the node has none of that name.
OutIntf(n, hop) ==
    IF hop.oif # RtText THEN hop.oif
    ELSE IF rt_text \in RtLink /\ <<n, rt_text>> \in RtIntf THEN <<n, rt_text>>
    ELSE RtNoHop

-----------------------------------------------------------------------------
\* config node <node> route <dest> <mask> <gw> <oif>, with an interface of
\* the node
ConfigRoute(n, dest, gw, l) ==
    /\ rt_dead = "no"
    /\ <<n, l>> \in RtIntf
    /\ rt_table' = [rt_table EXCEPT ![n] = AddRoute(@, dest, [gw |-> gw, oif |-> RtText])]
    /\ rt_text' = l
    /\ rt_touched' = rt_touched \cup {<<n, dest>>}
    /\ UNCHANGED rt_dead

\* ... with another name (RtNoHop: no interface of any node): refused, but the
\* name is in the buffer.
ConfigRouteRefused(n, l) ==
    /\ rt_dead = "no"
    /\ <<n, l>> \notin RtIntf
    /\ rt_text' = l
    /\ UNCHANGED <<rt_table, rt_touched, rt_dead>>

\* config node <node> route <dest> <mask>
ConfigDirectRoute(n, dest) ==
    /\ rt_dead = "no"
    /\ rt_touched' = rt_touched \cup {<<n, dest>>}
    /\ IF DirectCrashes(rt_table[n], dest)
         THEN rt_dead' = "null gw" /\ UNCHANGED rt_table
         ELSE /\ rt_table' = [rt_table EXCEPT ![n] = AddDirectRoute(@, dest)]
              /\ UNCHANGED rt_dead
    /\ UNCHANGED rt_text

\* config node <node> no route <dest> <mask>: delete_rt_table_entry
DeleteRoute(n, dest) ==
    /\ rt_dead = "no"
    /\ rt_table' = [rt_table EXCEPT ![n] = @ \ RtLookup(@, dest)]
    /\ rt_touched' = rt_touched \cup {<<n, dest>>}
    /\ UNCHANGED <<rt_text, rt_dead>>

\* A path that SPF has found.
InstallRoute(n, dest, hop) ==
    /\ rt_dead = "no"
    /\ rt_table' = [rt_table EXCEPT ![n] = AddRoute(@, dest, hop)]
    /\ UNCHANGED <<rt_text, rt_touched, rt_dead>>

ClearRoutes(n) ==
    /\ rt_dead = "no"
    /\ rt_table' = [rt_table EXCEPT ![n] = ClearTable(@)]
    /\ UNCHANGED <<rt_text, rt_touched, rt_dead>>

\* A packet takes the route's next hop; l2_forward_ip_packet asserts that the
\* node has the interface.
UseRoute(n, r) ==
    /\ rt_dead = "no"
    /\ r \in rt_table[n]
    /\ ~r.is_direct
    /\ rt_dead' = IF OutIntf(n, ActiveNexthop(r)) = RtNoHop THEN "oif" ELSE "no"
    /\ rt_table' = [rt_table EXCEPT ![n] = (@ \ {r}) \cup {Rotate(r)}]
    /\ UNCHANGED <<rt_text, rt_touched>>

RtNext ==
    \/ \E n \in RtNode, dest \in RtPrefix, gw \in RtIntf, l \in RtLink :
          ConfigRoute(n, dest, gw, l)
    \/ \E n \in RtNode, l \in RtLink \cup {RtNoHop} : ConfigRouteRefused(n, l)
    \/ \E n \in RtNode, dest \in RtPrefix : ConfigDirectRoute(n, dest)
    \/ \E n \in RtNode, dest \in RtPrefix : DeleteRoute(n, dest)
    \/ \E n \in RtNode, hop \in RtHop : \E m \in RtNode \ {n} :
          InstallRoute(n, <<m, 32>>, hop)
    \/ \E n \in RtNode : ClearRoutes(n)
    \/ \E n \in RtNode : \E r \in rt_table[n] : UseRoute(n, r)

RtSpec == RtInit /\ [][RtNext]_rtVars

-----------------------------------------------------------------------------
\* The next hops of a route fill its places from the first, and the index
\* stands at one of them.
RtPacked(r) ==
    /\ \A j, k \in RtPlace : j < k /\ r.nexthops[k] # RtNoHop => r.nexthops[j] # RtNoHop
    /\ ~r.is_direct => r.nexthops[r.nxthop_idx] # RtNoHop
    /\ r.is_direct => r.nexthops = NoHops /\ r.nxthop_idx = 0

\* Every table is sound: one route for a destination, and the assert of
\* l3_route_get_active_nexthop holds for every route, whoever added paths,
\* deleted routes, cleared the table or moved the index before.
RtSound ==
    \A n \in RtNode :
        /\ \A r \in rt_table[n] : RtPacked(r)
        /\ \A q, r \in rt_table[n] : q.dest = r.dest => q = r

\* A router keeps the direct routes to its own addresses and subnets through
\* every run of SPF, unless the CLI has changed that very route: a path added
\* to it makes it indirect, and then SPF deletes it and nobody puts it back.
RtOwnKept ==
    \A n \in RtNode : \A r \in OwnSubnets(n) :
        <<n, r.dest>> \notin rt_touched => r \in rt_table[n]

=============================================================================
