--------------------------------- MODULE Spf ---------------------------------
(***************************************************************************)
(* The shortest paths of Layer5/spf_algo/spf.c and the routes it installs. *)
(*                                                                         *)
(* The CLI's thread runs SPF, for one router or for all, and changes the   *)
(* interfaces; no change runs SPF by itself, because spf_algo_interface_   *)
(* update tests the flags with IS_BIT_SET, which neither of them passes.   *)
(* A run works on the scratch data of all the nodes (spf_data) and leaves  *)
(* its results with the root.  A next hop is an object with a count of the *)
(* arrays it is in; a root makes one for each of its interfaces, so that   *)
(* the interface names the object.                                         *)
(***************************************************************************)
EXTENDS RoutingTable, KeyedList

CONSTANTS
    SpfOrder,       \* topo's list of nodes
    SpfSlots,       \* the array intf of each node
    SpfInfinite,    \* INFINITE_METRIC
    SpfMaxMetric,   \* INTF_MAX_METRIC, the greatest that the CLI lets pass
    SpfSetups,      \* the costs of the links, the states of the interfaces, and
                    \* the bound: how many changes the CLI makes
    SpfRuns,        \* bound: what the CLI runs SPF for, besides all nodes
    SpfTouched,     \* bound: the interfaces the CLI changes
    SpfMetrics      \* bound: the metrics the CLI sets

\* The list s holds the members of S, each of them once.
SpfListed(s, S) ==
    /\ ToSet(s) = S
    /\ \A j, k \in 1 .. Len(s) : s[j] = s[k] => j = k

ASSUME SpfAssumption ==
    /\ SpfOrder \in Seq(RtNode) /\ SpfListed(SpfOrder, RtNode)
    /\ SpfSlots \in [RtNode -> Seq(RtIntf)]
    /\ \A n \in RtNode : SpfListed(SpfSlots[n], {i \in RtIntf : i[1] = n})
    /\ \A l \in RtLink : \E m, n \in RtNode : m # n /\ RtEnds[l] = {m, n}
    /\ SpfInfinite \in Nat /\ SpfMaxMetric \in Nat
    /\ SpfSetups \subseteq [cost : [RtLink -> 1 .. SpfMaxMetric], up : [RtIntf -> BOOLEAN],
                           changes : Nat]
    /\ SpfRuns \subseteq RtNode /\ SpfTouched \subseteq RtIntf
    /\ SpfMetrics \subseteq 1 .. SpfMaxMetric

\* No path is so long that its metric reaches INFINITE_METRIC, 2^32 - 1: with
\* an INTF_MAX_METRIC of 2^24 - 1, a topology of up to 256 nodes has none.
ASSUME SpfFits == Cardinality(RtNode) * SpfMaxMetric < SpfInfinite

VARIABLES
    spf_cost,       \* the metric of each link, the same at both its ends
    spf_up,         \* is_up of each interface
    spf_changes,    \* how many more changes the CLI makes
    spf_phase,      \* "idle", "direct", "queue", "explore" or "install"
    spf_roots,      \* the routers to run for; the first is the one in progress
    spf_metric,     \* spf_data: the metric of each node
    spf_hops,       \* spf_data: the next hops of each node, by interface
    spf_queue,      \* priority_lst
    spf_results,    \* the results of each root's last run, the newest first
    spf_node,       \* the node whose neighbours are looked at
    spf_left,       \* those of its interfaces that are still to come, usable or not
    spf_uninstalled, \* results, or what is left of the first, that are not routes yet
    spf_refs,       \* ref_count of the next hop of each interface
    spf_current     \* history: the nodes whose table follows from the topology

spfConfigVars == <<spf_cost, spf_up, spf_changes>>
spfDataVars == <<spf_metric, spf_hops, spf_queue, spf_results, spf_refs>>
spfLoopVars == <<spf_phase, spf_roots, spf_node, spf_left, spf_uninstalled>>
spfVars == <<rtVars, spfConfigVars, spfDataVars, spfLoopVars, spf_current>>

SpfArray == [RtPlace -> RtIntf \cup {RtNoHop}]
SpfResult == [node : RtNode, metric : 0 .. SpfInfinite, hops : SpfArray]

SpfTypeOK ==
    /\ RtTypeOK
    /\ [cost |-> spf_cost, up |-> spf_up]
         \in [cost : [RtLink -> 1 .. SpfMaxMetric], up : [RtIntf -> BOOLEAN]]
    /\ spf_changes \in Nat
    /\ spf_phase \in {"idle", "direct", "queue", "explore", "install"}
    /\ spf_roots \in Seq(RtNode)
    /\ spf_metric \in [RtNode -> 0 .. SpfInfinite]
    /\ spf_hops \in [RtNode -> SpfArray]
    /\ spf_queue \in Seq(RtNode)
    /\ spf_results \in [RtNode -> Seq(SpfResult)]
    /\ spf_node \in RtNode \cup {RtNoHop}
    /\ spf_left \in Seq(RtIntf)
    /\ spf_uninstalled \in Seq(SpfResult)
    /\ spf_refs \in [RtIntf -> Nat]
    /\ spf_current \subseteq RtNode

SpfEmpty == [k \in RtPlace |-> RtNoHop]

SpfInit ==
    /\ RtInit
    /\ \E setup \in SpfSetups :
         spf_cost = setup.cost /\ spf_up = setup.up /\ spf_changes = setup.changes
    /\ spf_phase = "idle"
    /\ spf_roots = SpfOrder          \* init_spf_algo
    /\ spf_metric = [n \in RtNode |-> SpfInfinite]
    /\ spf_hops = [n \in RtNode |-> SpfEmpty]
    /\ spf_queue = <<>>
    /\ spf_results = [n \in RtNode |-> <<>>]
    /\ spf_node = RtNoHop
    /\ spf_left = <<>>
    /\ spf_uninstalled = <<>>
    /\ spf_refs = [i \in RtIntf |-> 0]
    /\ spf_current = {}

\* is_interface_l3_bidirectional
Bidirectional(i) == spf_up[i] /\ spf_up[RtPeer[i]]

-----------------------------------------------------------------------------
(* Arrays of next hops.                                                    *)

SpfCount(h, oif) == Cardinality({k \in RtPlace : h[k] = oif})

\* spf_insert_new_nexthop
SpfInsert(h, oif) ==
    LET k == RtFree(h) IN IF k \in RtPlace THEN [h EXCEPT ![k] = oif] ELSE h

\* spf_union_nexthops_arrays.  Both indexes advance together: a next hop that
\* is there already leaves a gap, and one behind a gap is overwritten, without
\* its count going down.
SpfUnion(src, dst) ==
    LET first == RtFree(dst)
        new[k \in RtPlace] ==
          LET oif == src[k - first] IN
          IF \/ k < first \/ oif = RtNoHop
             \/ \E j \in RtPlace : IF j < k THEN new[j] = oif ELSE dst[j] = oif
          THEN dst[k] ELSE oif
    IN  new

\* What it has copied, which is what it counts.
SpfAdded(src, dst) ==
    LET new == SpfUnion(src, dst) IN {new[k] : k \in {j \in RtPlace : new[j] # dst[j]}}

\* spf_flush_nexthops of the arrays in the sequence hs.
SpfReleased(refs, hs) ==
    [i \in RtIntf |-> refs[i] - Cardinality({x \in (1 .. Len(hs)) \X RtPlace : hs[x[1]][x[2]] = i})]

-----------------------------------------------------------------------------
(* The scratch data as one value.                                          *)

SpfData == [metric |-> spf_metric, hops |-> spf_hops, queue |-> spf_queue,
            refs |-> spf_refs]

SpfSetData(d) ==
    /\ spf_metric' = d.metric
    /\ spf_hops' = d.hops
    /\ spf_queue' = d.queue
    /\ spf_refs' = d.refs

\* Mutant: at the end.
SpfEnqueueLast(d, n) == [d EXCEPT !.queue = Append(@, n)]

\* glthread_priority_insert: before the first node that is farther.
SpfEnqueue(d, n) == [d EXCEPT !.queue = Placed(@, d.metric, n)]

\* The array of node n is flushed.
SpfFlush(d, n) ==
    [d EXCEPT !.hops[n] = SpfEmpty, !.refs = SpfReleased(@, <<d.hops[n]>>)]

\* Mutant: the next hops taken over are not counted.
SpfJoinUncounted(d, m, n) ==
    [d EXCEPT !.hops[n] = SpfUnion(d.hops[m], @)]

\* The node n takes over the next hops of m.
SpfJoin(d, m, n) ==
    [d EXCEPT !.hops[n] = SpfUnion(d.hops[m], @),
              !.refs = [i \in RtIntf |->
                          IF i \in SpfAdded(d.hops[m], d.hops[n]) THEN @[i] + 1 ELSE @[i]]]

\* initialize_direct_nbrs, for one interface of the root.
SpfDirectNbr(oif, d) ==
    LET n == RtPeer[oif][1]
        f == IF spf_cost[oif[2]] < d.metric[n] THEN SpfFlush(d, n) ELSE d IN
    IF spf_cost[oif[2]] > d.metric[n] THEN d
    ELSE [f EXCEPT !.metric[n] = spf_cost[oif[2]],
                   !.hops[n] = SpfInsert(@, oif),
                   !.refs[oif] = IF RtFree(f.hops[n]) \in RtPlace THEN 1 ELSE 0]

\* compute_spf, for one interface of the root.
SpfQueueNbr(oif, d) ==
    LET n == RtPeer[oif][1] IN
    IF n \in ToSet(d.queue) THEN d ELSE SpfEnqueue(d, n)

\* spf_explore_nbrs, for one interface of the node m.
SpfExploreNbr(m, oif, d) ==
    LET n == RtPeer[oif][1]
        cost == d.metric[m] + spf_cost[oif[2]]
        nearer == [SpfJoin(SpfFlush(d, n), m, n)
                     EXCEPT !.metric[n] = cost, !.queue = Without(@, n)] IN
    IF cost < d.metric[n] THEN SpfEnqueue(nearer, n)
    ELSE IF cost = d.metric[n] THEN SpfJoin(d, m, n)
    ELSE d

-----------------------------------------------------------------------------
SpfRunning(phase) == rt_dead = "no" /\ spf_phase = phase

\* compute_spf up to initialize_direct_nbrs: the root's old results go, the
\* scratch data is cleared (init_node_spf_data).
SpfBegin ==
    /\ SpfRunning("idle") /\ spf_roots # <<>>
    /\ LET root == Head(spf_roots)
           old == [k \in 1 .. Len(spf_results[root]) |-> spf_results[root][k].hops]
           scratch == [k \in 1 .. Len(SpfOrder) |-> spf_hops[SpfOrder[k]]] IN
         /\ SpfSetData([metric |-> [n \in RtNode |-> IF n = root THEN 0 ELSE SpfInfinite],
                        hops |-> [n \in RtNode |-> SpfEmpty],
                        queue |-> <<>>,
                        refs |-> SpfReleased(spf_refs, old \o scratch)])
         /\ spf_results' = [spf_results EXCEPT ![root] = <<>>]
         /\ spf_node' = root
         /\ spf_left' = SpfSlots[root]
    /\ spf_phase' = "direct"
    /\ UNCHANGED <<rtVars, spfConfigVars, spf_roots, spf_uninstalled, spf_current>>

\* One round of the loop over the neighbours, in each of its three places; an
\* interface that is not usable is passed over.
SpfNbr ==
    /\ rt_dead = "no"
    /\ spf_left # <<>>
    /\ LET oif == Head(spf_left) IN
         IF ~Bidirectional(oif) THEN UNCHANGED <<spf_metric, spf_hops, spf_queue, spf_refs>>
         ELSE \/ spf_phase = "direct" /\ SpfSetData(SpfDirectNbr(oif, SpfData))
              \/ spf_phase = "queue" /\ SpfSetData(SpfQueueNbr(oif, SpfData))
              \/ spf_phase = "explore" /\ SpfSetData(SpfExploreNbr(spf_node, oif, SpfData))
    /\ spf_left' = Tail(spf_left)
    /\ UNCHANGED <<rtVars, spfConfigVars, spf_results, spf_phase, spf_roots, spf_node,
                   spf_uninstalled, spf_current>>

\* The root is the first to be queued and dequeued; its neighbours follow.
SpfQueueRoot ==
    /\ SpfRunning("direct") /\ spf_left = <<>>
    /\ spf_phase' = "queue"
    /\ spf_left' = SpfSlots[spf_node]
    /\ UNCHANGED <<rtVars, spfConfigVars, spfDataVars, spf_roots, spf_node,
                   spf_uninstalled, spf_current>>

SpfRecorded(root, n) == \E k \in 1 .. Len(spf_results[root]) : spf_results[root][k].node = n

\* The next node has its result recorded (spf_record_result, which asserts that
\* it has none) and its neighbours explored; spf_explore_nbrs ends by flushing
\* the next hops of the node before it.
SpfDequeue ==
    /\ rt_dead = "no"
    /\ spf_phase \in {"queue", "explore"} /\ spf_left = <<>> /\ spf_queue # <<>>
    /\ LET root == Head(spf_roots)
           n == Head(spf_queue)
           d == SpfFlush(SpfData, spf_node)
           result == [node |-> n, metric |-> spf_metric[n],
                      hops |-> SpfUnion(spf_hops[n], SpfEmpty)] IN
         /\ SpfSetData([d EXCEPT
              !.queue = Tail(@),
              !.refs = [i \in RtIntf |-> @[i] + SpfCount(result.hops, i)]])
         /\ spf_results' = [spf_results EXCEPT ![root] = <<result>> \o @]
         /\ spf_node' = n
         /\ spf_left' = SpfSlots[n]
         /\ rt_dead' = IF SpfRecorded(root, n) THEN "recorded" ELSE "no"
    /\ spf_phase' = "explore"
    /\ UNCHANGED <<rt_table, rt_text, rt_touched, spfConfigVars, spf_roots,
                   spf_uninstalled, spf_current>>

\* spf_install_routes, the clearing of the table ...
SpfClear ==
    /\ spf_phase \in {"queue", "explore"} /\ spf_left = <<>> /\ spf_queue = <<>>
    /\ ClearRoutes(Head(spf_roots))
    /\ SpfSetData(SpfFlush(SpfData, spf_node))
    /\ spf_phase' = "install"
    /\ spf_uninstalled' = spf_results[Head(spf_roots)]
    /\ spf_node' = RtNoHop
    /\ spf_current' = spf_current \ {Head(spf_roots)}
    /\ UNCHANGED <<spfConfigVars, spf_results, spf_roots, spf_left>>

\* ... and one next hop, that of the first place that has one.
SpfInstall ==
    /\ SpfRunning("install") /\ spf_uninstalled # <<>>
    /\ LET r == Head(spf_uninstalled)
           hops == {k \in RtPlace : r.hops[k] # RtNoHop} IN
         \/ /\ hops = {}
            /\ spf_uninstalled' = Tail(spf_uninstalled)
            /\ UNCHANGED rtVars
         \/ \E k \in hops :
              /\ \A j \in hops : k <= j
              /\ InstallRoute(Head(spf_roots), <<r.node, 32>>,
                              [gw |-> RtPeer[r.hops[k]], oif |-> r.hops[k]])
              /\ spf_uninstalled' = [spf_uninstalled EXCEPT ![1].hops[k] = RtNoHop]
    /\ UNCHANGED <<spfConfigVars, spfDataVars, spf_phase, spf_roots, spf_node, spf_left,
                   spf_current>>

\* The next router, or the end.
SpfFinish ==
    /\ SpfRunning("install") /\ spf_uninstalled = <<>>
    /\ spf_phase' = "idle"
    /\ spf_roots' = Tail(spf_roots)
    /\ spf_current' = spf_current \cup {Head(spf_roots)}
    /\ UNCHANGED <<rtVars, spfConfigVars, spfDataVars, spf_node, spf_left,
                   spf_uninstalled>>

\* The CLI is busy till the end of the run.
SpfIdle == rt_dead = "no" /\ spf_roots = <<>>

\* run node <node> spf (compute_spf), or run spf all (compute_spf_all_routers)
RunSpf(roots) ==
    /\ SpfIdle
    /\ spf_roots' = roots
    /\ UNCHANGED <<rtVars, spfConfigVars, spfDataVars, spf_phase, spf_node, spf_left,
                   spf_uninstalled, spf_current>>

\* config node <node> interface <if> metric <value>, which sets the metric of
\* the link, or up, or down, which is the interface's own.  A metric beyond
\* INTF_MAX_METRIC is refused (validate_interface_metric_val).
ConfigIntf(i, cost, up) ==
    /\ SpfIdle
    /\ spf_changes > 0
    /\ spf_cost[i[2]] # cost \/ spf_up[i] # up
    /\ spf_cost' = [spf_cost EXCEPT ![i[2]] = cost]
    /\ spf_up' = [spf_up EXCEPT ![i] = up]
    /\ spf_changes' = spf_changes - 1
    /\ spf_current' = {}
    /\ UNCHANGED <<rtVars, spfDataVars, spfLoopVars>>

SpfNext ==
    \/ SpfBegin
    \/ SpfNbr
    \/ SpfQueueRoot
    \/ SpfDequeue
    \/ SpfClear
    \/ SpfInstall
    \/ SpfFinish
    \/ \E n \in SpfRuns : RunSpf(<<n>>)
    \/ RunSpf(SpfOrder)
    \/ \E i \in SpfTouched, cost \in SpfMetrics : ConfigIntf(i, cost, spf_up[i])
    \/ \E i \in SpfTouched : ConfigIntf(i, spf_cost[i[2]], ~spf_up[i])

SpfSpec == SpfInit /\ [][SpfNext]_spfVars

-----------------------------------------------------------------------------
(* What SPF promises.                                                      *)

SpfHopsOf(h) == {h[k] : k \in RtPlace} \ {RtNoHop}

\* The results found are the shortest paths from the root, over the interfaces
\* that are usable and with the costs of the links.  Their metrics satisfy
\* Bellman's equations, which only the distances from the root do, as the costs
\* are positive: no link offers a shorter way, and some link attains the metric
\* of each node.  Every node that can be reached is recorded, once, and has a
\* next hop; and a next hop of a node is the root's own link to it, or one of
\* the node before it on a shortest path.
SpfShortest(usable, cost, root, found) ==
    LET res == ToSet(found) \cup {[node |-> root, metric |-> 0, hops |-> SpfEmpty]}
        Into(r, q) == {i \in usable : i[1] = q.node /\ RtPeer[i][1] = r.node}
        Tight(r, q) == {i \in Into(r, q) : q.metric + cost[i[2]] = r.metric}
        Via(r, q) == IF q.node = root THEN Tight(r, q)
                     ELSE IF Tight(r, q) # {} THEN SpfHopsOf(q.hops) ELSE {} IN
      /\ Cardinality(res) = Len(found) + 1
      /\ \A i \in usable : i[1] \in {q.node : q \in res}
                              => RtPeer[i][1] \in {r.node : r \in res}
      /\ \A q, r \in res : \A i \in Into(r, q) : r.metric <= q.metric + cost[i[2]]
      /\ \A r \in res : r.node # root =>
           /\ \E q \in res : Tight(r, q) # {}
           /\ SpfHopsOf(r.hops) # {}
           /\ SpfHopsOf(r.hops) \subseteq UNION {Via(r, q) : q \in res}

\* A run that goes over to installing its results has found the shortest paths,
\* and none has recorded a node twice (the assert of spf_record_result).  So the
\* merging of arrays may lose equal paths, but it lets no wrong one in.
SpfCorrect ==
    /\ rt_dead # "recorded"
    /\ spf_phase = "install" =>
         SpfShortest({i \in RtIntf : Bidirectional(i)}, spf_cost, Head(spf_roots),
                     spf_results[Head(spf_roots)])

\* No next hop is freed while an array holds it: its count is never below the
\* number of the arrays it is in, those of the nodes and those of the results,
\* so that the assert of spf_flush_nexthops holds.
SpfHeld ==
    \A i \in RtIntf :
        LET found == spf_results[i[1]] IN
        spf_refs[i] >= Cardinality({x \in RtNode \X RtPlace : spf_hops[x[1]][x[2]] = i})
                       + Cardinality({x \in (1 .. Len(found)) \X RtPlace :
                                        found[x[1]].hops[x[2]] = i})

=============================================================================
