--------------------------- MODULE Forwarding_proofs ---------------------------
(***************************************************************************)
(* The routing tables, for any network and any number of next hops; and    *)
(* packets through them: while the tables follow from the topology, every  *)
(* hop takes a packet nearer to its destination.  The proof rests on the   *)
(* shortest paths of Spf_proofs and on the tables, which hold in the       *)
(* composition as they do alone.                                           *)
(***************************************************************************)
EXTENDS Forwarding, Spf_proofs

-----------------------------------------------------------------------------
(* The routing tables.                                                     *)

\* A route whose first n places are filled.  (RtPacked says the same without
\* naming n; with it the first free place can be named too.)
RtFilled(r, n) ==
    /\ \A k \in RtPlace : r.nexthops[k] # RtNoHop <=> k < n
    /\ IF r.is_direct THEN n = 0 /\ r.nxthop_idx = 0 ELSE r.nxthop_idx < n

RtGood(r) == \E n \in 0 .. RtMaxNxtHops : RtFilled(r, n)

\* What the operations keep of one table.
RtTableOK(T) ==
    /\ T \subseteq RtRoute
    /\ \A r \in T : RtGood(r)
    /\ \A q, r \in T : q.dest = r.dest => q = r

RtInv == RtTypeOK /\ (\A n \in RtNode : RtTableOK(rt_table[n])) /\ RtOwnKept

LEMMA RtPlaces == RtPlace \subseteq Int /\ 0 \in RtPlace /\ \A k \in RtPlace : 0 <= k /\ k < RtMaxNxtHops
  BY RtAssumption DEF RtPlace

LEMMA RtGoodPacked ==
    ASSUME NEW r \in RtRoute, RtGood(r)
    PROVE  RtPacked(r)
  <1>1. PICK n \in 0 .. RtMaxNxtHops : RtFilled(r, n)
    BY DEF RtGood
  <1>2. r.nexthops \in [RtPlace -> RtHop \cup {RtNoHop}] /\ r.nxthop_idx \in RtPlace
    BY DEF RtRoute, RtHops
  <1>3. ASSUME NEW j \in RtPlace, NEW k \in RtPlace, j < k, r.nexthops[k] # RtNoHop
        PROVE  r.nexthops[j] # RtNoHop
    BY <1>1, <1>3, RtPlaces DEF RtFilled
  <1>4. ~r.is_direct => r.nexthops[r.nxthop_idx] # RtNoHop
    BY <1>1, <1>2 DEF RtFilled
  <1>5. ASSUME r.is_direct
        PROVE  r.nexthops = NoHops /\ r.nxthop_idx = 0
    <2>1. \A k \in RtPlace : r.nexthops[k] = RtNoHop
      BY <1>1, <1>5, RtPlaces DEF RtFilled
    <2>2. QED
      BY <1>1, <1>2, <1>5, <2>1 DEF RtFilled, NoHops
  <1>6. QED
    BY <1>3, <1>4, <1>5 DEF RtPacked

-----------------------------------------------------------------------------
(* Routes.                                                                 *)

LEMMA RtDirectRoute ==
    ASSUME NEW dest \in RtPrefix
    PROVE  /\ NewRoute(dest, TRUE, NoHops) \in RtRoute
           /\ RtGood(NewRoute(dest, TRUE, NoHops))
  <1>1. NoHops \in RtHops
    BY DEF NoHops, RtHops
  <1>2. RtFilled(NewRoute(dest, TRUE, NoHops), 0)
    BY RtPlaces DEF RtFilled, NewRoute, NoHops
  <1>3. 0 \in 0 .. RtMaxNxtHops
    BY RtAssumption
  <1>4. QED
    BY <1>1, <1>2, <1>3, RtPlaces DEF NewRoute, RtRoute, RtGood

LEMMA RtIndirectRoute ==
    ASSUME NEW dest \in RtPrefix, NEW hop \in RtHop
    PROVE  /\ NewRoute(dest, FALSE, [NoHops EXCEPT ![0] = hop]) \in RtRoute
           /\ RtGood(NewRoute(dest, FALSE, [NoHops EXCEPT ![0] = hop]))
  <1> DEFINE h == [NoHops EXCEPT ![0] = hop]
  <1>1. h \in RtHops
    BY RtPlaces DEF NoHops, RtHops
  <1>2. \A k \in RtPlace : h[k] # RtNoHop <=> k < 1
    BY RtPlaces, RtNoHopIsNone DEF NoHops
  <1> HIDE DEF h
  <1>3. RtFilled(NewRoute(dest, FALSE, h), 1)
    BY <1>2 DEF RtFilled, NewRoute
  <1>4. 1 \in 0 .. RtMaxNxtHops
    BY RtAssumption
  <1>5. NewRoute(dest, FALSE, h) \in RtRoute /\ RtGood(NewRoute(dest, FALSE, h))
    BY <1>1, <1>3, <1>4, RtPlaces DEF NewRoute, RtRoute, RtGood
  <1>6. QED
    BY <1>5 DEF h

\* The first free place is the number of the places that are filled.
LEMMA RtFreeIs ==
    ASSUME NEW r \in RtRoute, NEW n \in 0 .. RtMaxNxtHops, RtFilled(r, n)
    PROVE  RtFree(r.nexthops) = n
  <1> DEFINE P(k) == /\ \A j \in RtPlace : j < k => r.nexthops[j] # RtNoHop
                     /\ k \in RtPlace => r.nexthops[k] = RtNoHop
  <1>1. P(n)
    BY DEF RtFilled
  <1>2. ASSUME NEW k \in 0 .. RtMaxNxtHops, P(k)
        PROVE  k = n
    <2>1. ~(k < n)
      <3>1. SUFFICES ASSUME k < n PROVE FALSE
        OBVIOUS
      <3>2. k \in RtPlace
        BY <3>1, RtAssumption DEF RtPlace
      <3>3. QED
        BY <1>2, <3>1, <3>2 DEF RtFilled
    <2>2. ~(n < k)
      <3>1. SUFFICES ASSUME n < k PROVE FALSE
        OBVIOUS
      <3>2. n \in RtPlace
        BY <3>1, RtAssumption DEF RtPlace
      <3>3. QED
        BY <1>2, <3>1, <3>2 DEF RtFilled
    <2>3. QED
      BY <2>1, <2>2, RtAssumption
  <1>3. RtFree(r.nexthops) = CHOOSE k \in 0 .. RtMaxNxtHops : P(k)
    BY DEF RtFree
  <1> HIDE DEF P
  <1>4. QED
    BY <1>1, <1>2, <1>3

LEMMA WithHopGood ==
    ASSUME NEW r \in RtRoute, RtGood(r), NEW hop \in RtHop
    PROVE  WithHop(r, hop) \in RtRoute /\ RtGood(WithHop(r, hop)) /\ WithHop(r, hop).dest = r.dest
  <1>1. PICK n \in 0 .. RtMaxNxtHops : RtFilled(r, n)
    BY DEF RtGood
  <1>2. RtFree(r.nexthops) = n
    BY <1>1, RtFreeIs
  <1>3. CASE WithHop(r, hop) = r
    BY <1>3
  <1>4. CASE WithHop(r, hop) # r
    <2> DEFINE h == [r.nexthops EXCEPT ![n] = hop]
    <2>1. n \in RtPlace /\ WithHop(r, hop) = [r EXCEPT !.nexthops[n] = hop, !.is_direct = FALSE]
      BY <1>2, <1>4 DEF WithHop
    <2>2. /\ WithHop(r, hop) \in RtRoute /\ WithHop(r, hop).dest = r.dest
          /\ WithHop(r, hop).nexthops = h /\ ~WithHop(r, hop).is_direct
          /\ WithHop(r, hop).nxthop_idx = r.nxthop_idx
      BY <2>1 DEF RtRoute, RtHops
    <2>3. \A k \in RtPlace : h[k] # RtNoHop <=> k < n + 1
      BY <1>1, <2>1, RtPlaces, RtNoHopIsNone DEF RtFilled, RtRoute, RtHops
    <2>4. r.nxthop_idx < n + 1
      <3>1. r.nxthop_idx \in RtPlace
        BY DEF RtRoute
      <3>2. r.nxthop_idx \in Int /\ n \in Int
        BY <2>1, <3>1, RtPlaces
      <3>3. CASE r.is_direct
        BY <1>1, <3>2, <3>3, RtAssumption DEF RtFilled
      <3>4. CASE ~r.is_direct
        BY <1>1, <3>2, <3>4 DEF RtFilled
      <3>5. QED
        BY <3>3, <3>4
    <2> HIDE DEF h
    <2>5. RtFilled(WithHop(r, hop), n + 1)
      BY <2>2, <2>3, <2>4 DEF RtFilled
    <2>6. n + 1 \in 0 .. RtMaxNxtHops
      BY <2>1, RtAssumption DEF RtPlace
    <2>7. QED
      BY <2>2, <2>5, <2>6 DEF RtGood
  <1>5. QED
    BY <1>3, <1>4

LEMMA RotateGood ==
    ASSUME NEW r \in RtRoute, RtGood(r), ~r.is_direct
    PROVE  /\ Rotate(r) \in RtRoute /\ RtGood(Rotate(r))
           /\ Rotate(r).dest = r.dest /\ ~Rotate(r).is_direct
  <1>1. PICK n \in 0 .. RtMaxNxtHops : RtFilled(r, n)
    BY DEF RtGood
  <1>2. r.nxthop_idx \in RtPlace /\ r.nxthop_idx < n
    BY <1>1 DEF RtFilled, RtRoute
  <1> DEFINE k == r.nxthop_idx + 1
             x == IF k = RtMaxNxtHops \/ r.nexthops[k] = RtNoHop THEN 0 ELSE k
  <1>3. x \in RtPlace /\ x < n
    <2>1. CASE k = RtMaxNxtHops \/ r.nexthops[k] = RtNoHop
      <3>1. x = 0
        BY <2>1
      <3>2. 0 < n
        BY <1>2, RtAssumption DEF RtPlace
      <3>3. QED
        BY <3>1, <3>2, RtPlaces
    <2>2. CASE k # RtMaxNxtHops /\ r.nexthops[k] # RtNoHop
      <3>1. k \in RtPlace
        BY <1>2, <2>2, RtAssumption DEF RtPlace
      <3>2. QED
        BY <1>1, <2>2, <3>1 DEF RtFilled
    <2>3. QED
      BY <2>1, <2>2
  <1>4. Rotate(r) = [r EXCEPT !.nxthop_idx = x]
    BY DEF Rotate
  <1> HIDE DEF x
  <1>5. /\ Rotate(r) \in RtRoute /\ Rotate(r).dest = r.dest /\ Rotate(r).is_direct = r.is_direct
        /\ Rotate(r).nexthops = r.nexthops /\ Rotate(r).nxthop_idx = x
    BY <1>3, <1>4 DEF RtRoute
  <1>6. RtFilled(Rotate(r), n)
    BY <1>1, <1>3, <1>5 DEF RtFilled
  <1>7. QED
    BY <1>5, <1>6 DEF RtGood

-----------------------------------------------------------------------------
(* Tables.                                                                 *)

\* A route comes in the place of the one for its destination, if any.
LEMMA RtTableReplace ==
    ASSUME NEW T, RtTableOK(T), NEW r \in RtRoute, RtGood(r)
    PROVE  RtTableOK((T \ RtLookup(T, r.dest)) \cup {r})
  BY DEF RtTableOK, RtLookup

LEMMA RtTableSubset ==
    ASSUME NEW T, RtTableOK(T), NEW S \in SUBSET T
    PROVE  RtTableOK(S)
  BY DEF RtTableOK

LEMMA AddRouteOK ==
    ASSUME NEW T, RtTableOK(T), NEW dest \in RtPrefix, NEW hop \in RtHop
    PROVE  /\ RtTableOK(AddRoute(T, dest, hop))
           /\ \A r \in T : r.dest # dest => r \in AddRoute(T, dest, hop)
  <1>1. CASE RtLookup(T, dest) = {}
    <2> DEFINE r == NewRoute(dest, FALSE, [NoHops EXCEPT ![0] = hop])
    <2>1. r \in RtRoute /\ RtGood(r) /\ r.dest = dest
      BY RtIndirectRoute DEF NewRoute
    <2>2. AddRoute(T, dest, hop) = (T \ RtLookup(T, dest)) \cup {r}
      BY <1>1 DEF AddRoute
    <2> HIDE DEF r
    <2>3. QED
      BY <1>1, <2>1, <2>2, RtTableReplace
  <1>2. CASE RtLookup(T, dest) # {}
    <2>1. PICK old \in RtLookup(T, dest) : TRUE
      BY <1>2
    <2>2. RtLookup(T, dest) = {old} /\ old \in RtRoute /\ RtGood(old) /\ old.dest = dest
      BY <2>1 DEF RtLookup, RtTableOK
    <2>3. AddRoute(T, dest, hop) = (T \ {old}) \cup {WithHop(old, hop)}
      BY <2>2 DEF AddRoute
    <2>4. WithHop(old, hop) \in RtRoute /\ RtGood(WithHop(old, hop)) /\ WithHop(old, hop).dest = dest
      BY <2>2, WithHopGood
    <2>5. QED
      BY <2>2, <2>3, <2>4, RtTableReplace
  <1>3. QED
    BY <1>1, <1>2

LEMMA AddDirectRouteOK ==
    ASSUME NEW T, RtTableOK(T), NEW dest \in RtPrefix
    PROVE  RtTableOK(AddDirectRoute(T, dest))
  <1> DEFINE r == NewRoute(dest, TRUE, NoHops)
  <1>1. r \in RtRoute /\ RtGood(r) /\ r.dest = dest
    BY RtDirectRoute DEF NewRoute
  <1>2. AddDirectRoute(T, dest) = IF RtLookup(T, dest) = {} THEN T \cup {r} ELSE T
    BY DEF AddDirectRoute
  <1> HIDE DEF r
  <1>3. CASE RtLookup(T, dest) = {}
    <2>1. AddDirectRoute(T, dest) = (T \ RtLookup(T, r.dest)) \cup {r}
      BY <1>1, <1>2, <1>3
    <2>2. QED
      BY <1>1, <2>1, RtTableReplace
  <1>4. QED
    BY <1>2, <1>3

LEMMA OwnSubnetsAre ==
    ASSUME NEW n \in RtNode, NEW r \in OwnSubnets(n)
    PROVE  /\ r \in RtRoute /\ RtGood(r) /\ r.is_direct
           /\ r.dest = <<n, 32>> \/ \E l \in RtLink : r.dest = <<l, 24>>
           /\ r = NewRoute(r.dest, TRUE, NoHops)
  <1>1. CASE r = NewRoute(<<n, 32>>, TRUE, NoHops)
    <2>1. <<n, 32>> \in RtPrefix
      BY DEF RtPrefix, RtAddr
    <2>2. QED
      BY <1>1, <2>1, RtDirectRoute DEF NewRoute
  <1>2. ASSUME NEW l \in RtLink, r = NewRoute(<<l, 24>>, TRUE, NoHops)
        PROVE  /\ r \in RtRoute /\ RtGood(r) /\ r.is_direct
               /\ r.dest = <<l, 24>> /\ r = NewRoute(r.dest, TRUE, NoHops)
    <2>1. <<l, 24>> \in RtPrefix
      BY DEF RtPrefix
    <2>2. QED
      BY <1>2, <2>1, RtDirectRoute DEF NewRoute
  <1>3. r = NewRoute(<<n, 32>>, TRUE, NoHops) \/ \E l \in RtLink : r = NewRoute(<<l, 24>>, TRUE, NoHops)
    BY DEF OwnSubnets, RtIntf
  <1>4. QED
    BY <1>1, <1>2, <1>3

-----------------------------------------------------------------------------
(* The steps.                                                              *)

LEMMA RtInitInv == RtInit => RtInv
  <1> SUFFICES ASSUME RtInit PROVE RtInv
    OBVIOUS
  <1>1. ASSUME NEW n \in RtNode
        PROVE  RtTableOK(OwnSubnets(n)) /\ rt_table[n] = OwnSubnets(n)
    <2>1. ASSUME NEW q \in OwnSubnets(n), NEW r \in OwnSubnets(n), q.dest = r.dest
          PROVE  q = r
      BY <2>1, OwnSubnetsAre DEF NewRoute
    <2>2. QED
      BY <2>1, OwnSubnetsAre DEF RtTableOK, RtInit
  <1>2. RtTypeOK
    BY <1>1 DEF RtInit, RtTypeOK, RtTableOK
  <1>3. QED
    BY <1>1, <1>2 DEF RtInv, RtOwnKept

\* A step that changes the table of one node to another sound one, and takes a
\* direct route of its own only if the CLI names it.
LEMMA RtTableStep ==
    ASSUME RtInv, NEW n \in RtNode, NEW T, rt_table' = [rt_table EXCEPT ![n] = T],
           RtTableOK(T),
           rt_text' \in RtLink \cup {RtNoHop},
           NEW D \in SUBSET (RtNode \X RtPrefix), rt_touched' = rt_touched \cup D,
           rt_dead' \in {"no", "null gw", "oif", "recorded"},
           \A r \in OwnSubnets(n) : <<n, r.dest>> \notin D /\ r \in rt_table[n] => r \in T
    PROVE  RtInv'
  <1>1. \A m \in RtNode : rt_table'[m] = IF m = n THEN T ELSE rt_table[m]
    BY DEF RtInv, RtTypeOK
  <1>2. \A m \in RtNode : RtTableOK(rt_table'[m])
    BY <1>1 DEF RtInv
  <1>3. RtTypeOK'
    BY DEF RtInv, RtTypeOK, RtTableOK
  <1>4. RtOwnKept'
    BY <1>1 DEF RtInv, RtOwnKept
  <1>5. QED
    BY <1>2, <1>3, <1>4 DEF RtInv

LEMMA RtInductive == RtInv /\ [RtNext]_rtVars => RtInv'
  <1> SUFFICES ASSUME RtInv, [RtNext]_rtVars
               PROVE  RtInv'
    OBVIOUS
  <1>0. /\ \A n \in RtNode : RtTableOK(rt_table[n])
        /\ rt_text \in RtLink \cup {RtNoHop} /\ rt_touched \subseteq RtNode \X RtPrefix
        /\ rt_dead \in {"no", "null gw", "oif", "recorded"}
        /\ rt_table \in [RtNode -> SUBSET RtRoute]
    BY DEF RtInv, RtTypeOK
  <1>1. ASSUME NEW n \in RtNode, NEW dest \in RtPrefix, NEW gw \in RtIntf, NEW l \in RtLink,
               ConfigRoute(n, dest, gw, l)
        PROVE  RtInv'
    <2>1. [gw |-> gw, oif |-> RtText] \in RtHop
      BY DEF RtHop
    <2>2. /\ RtTableOK(AddRoute(rt_table[n], dest, [gw |-> gw, oif |-> RtText]))
          /\ \A r \in rt_table[n] :
               r.dest # dest => r \in AddRoute(rt_table[n], dest, [gw |-> gw, oif |-> RtText])
      BY <1>0, <2>1, AddRouteOK
    <2>3. /\ rt_table' = [rt_table EXCEPT
                            ![n] = AddRoute(rt_table[n], dest, [gw |-> gw, oif |-> RtText])]
          /\ rt_text' = l /\ rt_touched' = rt_touched \cup {<<n, dest>>} /\ rt_dead' = rt_dead
      BY <1>1 DEF ConfigRoute
    <2>4. {<<n, dest>>} \in SUBSET (RtNode \X RtPrefix)
      OBVIOUS
    <2>5. \A r \in rt_table[n] : <<n, r.dest>> \notin {<<n, dest>>} =>
            r \in AddRoute(rt_table[n], dest, [gw |-> gw, oif |-> RtText])
      BY <2>2
    <2>6. rt_text' \in RtLink \cup {RtNoHop} /\ rt_dead' \in {"no", "null gw", "oif", "recorded"}
      BY <1>0, <2>3
    <2>7. QED
      BY <2>2, <2>3, <2>4, <2>5, <2>6, RtTableStep
  <1>2. ASSUME NEW n \in RtNode, NEW l \in RtLink \cup {RtNoHop}, ConfigRouteRefused(n, l)
        PROVE  RtInv'
    <2>1. UNCHANGED <<rt_table, rt_touched, rt_dead>> /\ rt_text' \in RtLink \cup {RtNoHop}
      BY <1>2 DEF ConfigRouteRefused
    <2>2. RtTypeOK'
      BY <1>0, <2>1 DEF RtTypeOK
    <2>3. RtOwnKept'
      BY <2>1 DEF RtInv, RtOwnKept
    <2>4. QED
      BY <1>0, <2>1, <2>2, <2>3 DEF RtInv
  <1>3. ASSUME NEW n \in RtNode, NEW dest \in RtPrefix, ConfigDirectRoute(n, dest)
        PROVE  RtInv'
    <2>1. CASE DirectCrashes(rt_table[n], dest)
      <3>1. /\ UNCHANGED <<rt_table, rt_text>> /\ rt_dead' = "null gw"
            /\ rt_touched' = rt_touched \cup {<<n, dest>>}
        BY <1>3, <2>1 DEF ConfigDirectRoute
      <3>2. RtTypeOK'
        <4>1. {<<n, dest>>} \subseteq RtNode \X RtPrefix
          OBVIOUS
        <4>2. rt_touched' \subseteq RtNode \X RtPrefix
          BY <1>0, <3>1, <4>1
        <4>3. QED
          BY <1>0, <3>1, <4>2 DEF RtTypeOK
      <3>3. RtOwnKept'
        BY <3>1 DEF RtInv, RtOwnKept
      <3>4. QED
        BY <1>0, <3>1, <3>2, <3>3 DEF RtInv
    <2>2. CASE ~DirectCrashes(rt_table[n], dest)
      <3>1. /\ rt_table' = [rt_table EXCEPT ![n] = AddDirectRoute(rt_table[n], dest)]
            /\ rt_touched' = rt_touched \cup {<<n, dest>>}
            /\ rt_dead' = rt_dead /\ rt_text' = rt_text
        BY <1>3, <2>2 DEF ConfigDirectRoute
      <3>2. rt_table[n] \subseteq AddDirectRoute(rt_table[n], dest)
        BY DEF AddDirectRoute
      <3>3. RtTableOK(AddDirectRoute(rt_table[n], dest))
        BY <1>0, AddDirectRouteOK
      <3>4. {<<n, dest>>} \in SUBSET (RtNode \X RtPrefix)
        OBVIOUS
      <3>5. rt_text' \in RtLink \cup {RtNoHop} /\ rt_dead' \in {"no", "null gw", "oif", "recorded"}
        BY <1>0, <3>1
      <3>6. QED
        BY <3>1, <3>2, <3>3, <3>4, <3>5, RtTableStep
    <2>3. QED
      BY <2>1, <2>2
  <1>4. ASSUME NEW n \in RtNode, NEW dest \in RtPrefix, DeleteRoute(n, dest)
        PROVE  RtInv'
    <2>1. /\ rt_table' = [rt_table EXCEPT ![n] = rt_table[n] \ RtLookup(rt_table[n], dest)]
          /\ rt_touched' = rt_touched \cup {<<n, dest>>}
          /\ rt_dead' = rt_dead /\ rt_text' = rt_text
      BY <1>4 DEF DeleteRoute
    <2>2. RtTableOK(rt_table[n] \ RtLookup(rt_table[n], dest))
      BY <1>0, RtTableSubset
    <2>3. \A r \in rt_table[n] : r.dest # dest => r \in rt_table[n] \ RtLookup(rt_table[n], dest)
      BY DEF RtLookup
    <2>4. {<<n, dest>>} \in SUBSET (RtNode \X RtPrefix)
      OBVIOUS
    <2>5. \A r \in rt_table[n] : <<n, r.dest>> \notin {<<n, dest>>} =>
            r \in rt_table[n] \ RtLookup(rt_table[n], dest)
      BY <2>3
    <2>6. rt_text' \in RtLink \cup {RtNoHop} /\ rt_dead' \in {"no", "null gw", "oif", "recorded"}
      BY <1>0, <2>1
    <2>7. QED
      BY <2>1, <2>2, <2>4, <2>5, <2>6, RtTableStep
  <1>5. ASSUME NEW n \in RtNode, NEW hop \in RtHop, NEW m \in RtNode \ {n},
               InstallRoute(n, <<m, 32>>, hop)
        PROVE  RtInv'
    <2>1. <<m, 32>> \in RtPrefix
      BY DEF RtPrefix, RtAddr
    <2>2. /\ RtTableOK(AddRoute(rt_table[n], <<m, 32>>, hop))
          /\ \A r \in rt_table[n] :
               r.dest # <<m, 32>> => r \in AddRoute(rt_table[n], <<m, 32>>, hop)
      BY <1>0, <2>1, AddRouteOK
    <2>3. ASSUME NEW r \in OwnSubnets(n)
          PROVE  r.dest # <<m, 32>>
      <3>1. CASE r.dest = <<n, 32>>
        BY <3>1
      <3>2. ASSUME NEW l \in RtLink, r.dest = <<l, 24>>
            PROVE  r.dest # <<m, 32>>
        BY <3>2
      <3>3. QED
        BY <3>1, <3>2, OwnSubnetsAre
    <2>4. /\ rt_table' = [rt_table EXCEPT ![n] = AddRoute(rt_table[n], <<m, 32>>, hop)]
          /\ rt_touched' = rt_touched \cup {} /\ rt_dead' = rt_dead /\ rt_text' = rt_text
      BY <1>5 DEF InstallRoute
    <2>5. \A r \in OwnSubnets(n) :
            r \in rt_table[n] => r \in AddRoute(rt_table[n], <<m, 32>>, hop)
      BY <2>2, <2>3
    <2>6. rt_text' \in RtLink \cup {RtNoHop} /\ rt_dead' \in {"no", "null gw", "oif", "recorded"}
      BY <1>0, <2>4
    <2>7. QED
      BY <2>2, <2>4, <2>5, <2>6, RtTableStep
  <1>6. ASSUME NEW n \in RtNode, ClearRoutes(n)
        PROVE  RtInv'
    <2>1. /\ rt_table' = [rt_table EXCEPT ![n] = ClearTable(rt_table[n])]
          /\ rt_touched' = rt_touched \cup {} /\ rt_dead' = rt_dead /\ rt_text' = rt_text
      BY <1>6 DEF ClearRoutes
    <2>2. RtTableOK(ClearTable(rt_table[n]))
      BY <1>0, RtTableSubset DEF ClearTable
    <2>3. \A r \in OwnSubnets(n) : r \in rt_table[n] => r \in ClearTable(rt_table[n])
      BY OwnSubnetsAre DEF ClearTable
    <2>4. QED
      BY <1>0, <2>1, <2>2, <2>3, RtTableStep
  <1>7. ASSUME NEW n \in RtNode, NEW r \in rt_table[n], UseRoute(n, r)
        PROVE  RtInv'
    <2>1. r \in RtRoute /\ RtGood(r) /\ ~r.is_direct
      BY <1>0, <1>7 DEF RtTableOK, UseRoute
    <2>2. Rotate(r) \in RtRoute /\ RtGood(Rotate(r)) /\ Rotate(r).dest = r.dest
      BY <2>1, RotateGood
    <2>3. RtLookup(rt_table[n], Rotate(r).dest) = {r}
      BY <1>0, <2>2 DEF RtTableOK, RtLookup
    <2>4. RtTableOK((rt_table[n] \ {r}) \cup {Rotate(r)})
      BY <1>0, <2>2, <2>3, RtTableReplace
    <2>5. \A q \in OwnSubnets(n) : q \in rt_table[n] => q \in (rt_table[n] \ {r}) \cup {Rotate(r)}
      BY <2>1, OwnSubnetsAre
    <2>6. /\ rt_table' = [rt_table EXCEPT ![n] = (rt_table[n] \ {r}) \cup {Rotate(r)}]
          /\ rt_touched' = rt_touched \cup {} /\ rt_dead' \in {"oif", "no"} /\ rt_text' = rt_text
      BY <1>7 DEF UseRoute
    <2>7. rt_text' \in RtLink \cup {RtNoHop} /\ rt_dead' \in {"no", "null gw", "oif", "recorded"}
      BY <1>0, <2>6
    <2>8. QED
      BY <2>4, <2>5, <2>6, <2>7, RtTableStep
  <1>8. CASE UNCHANGED rtVars
    BY <1>8 DEF rtVars, RtInv, RtTypeOK, RtOwnKept
  <1>9. QED
    BY <1>1, <1>2, <1>3, <1>4, <1>5, <1>6, <1>7, <1>8 DEF RtNext

THEOREM RtInvariant == RtSpec => []RtInv
  BY RtInitInv, RtInductive, PTL DEF RtSpec

\* Types are kept by every routing operation (layer3.c).
THEOREM RtTypes == RtSpec => []RtTypeOK
  BY RtInvariant, PTL DEF RtInv

\* One route for a destination, its next hops packed from the first place and
\* the index on one of them: the assert of l3_route_get_active_nexthop.
THEOREM RtSoundAlways == RtSpec => []RtSound
  <1>1. RtInv => RtSound
    BY RtGoodPacked DEF RtInv, RtTableOK, RtSound
  <1>2. QED
    BY <1>1, RtInvariant, PTL

\* Neither SPF nor packets take a router's direct routes (clear_rt_table).
THEOREM RtOwnKeptAlways == RtSpec => []RtOwnKept
  BY RtInvariant, PTL DEF RtInv

-----------------------------------------------------------------------------
(* Shortest paths from different roots.                                    *)

\* The entries E are a solution from the root n: SpfShortest, spelt out.
FwSolved(usable, cost, n, E) ==
    /\ E \subseteq SpfEntry
    /\ \E e \in E : e.node = n
    /\ \A e \in E : e.node = n => e.metric = 0 /\ SpfHopsOf(e.hops) = {}
    /\ \A e \in E : \A i \in usable : i[1] = e.node =>
         /\ \E g \in E : g.node = RtPeer[i][1]
         /\ \A g \in E : g.node = RtPeer[i][1] => g.metric <= e.metric + cost[i[2]]
    /\ \A e \in E : e.node # n =>
         /\ SpfHopsOf(e.hops) # {}
         /\ \E q \in E : \E i \in usable :
              i[1] = q.node /\ RtPeer[i][1] = e.node /\ q.metric + cost[i[2]] = e.metric
         /\ \A h \in SpfHopsOf(e.hops) :
              \/ h \in usable /\ h[1] = n /\ RtPeer[h][1] = e.node /\ cost[h[2]] = e.metric
              \/ \E q \in E : \E i \in usable :
                   /\ i[1] = q.node /\ RtPeer[i][1] = e.node
                   /\ q.metric + cost[i[2]] = e.metric
                   /\ q.node # n /\ h \in SpfHopsOf(q.hops)

\* The results f of root n, and the root itself.
FwEntries(n, f) == ToSet(f) \cup {[node |-> n, metric |-> 0, hops |-> SpfEmpty]}

FwPaths(usable, cost, n, f) ==
    /\ f \in Seq(SpfEntry)
    /\ \A k \in 1 .. Len(f) : f[k].node # n
    /\ SpfShortest(usable, cost, n, f)

LEMMA FwPathsSolve ==
    ASSUME NEW usable \in SUBSET RtIntf, NEW cost \in [RtLink -> 1 .. SpfMaxMetric],
           NEW n \in RtNode, NEW f, FwPaths(usable, cost, n, f)
    PROVE  FwSolved(usable, cost, n, FwEntries(n, f))
  <1> DEFINE own == [node |-> n, metric |-> 0, hops |-> SpfEmpty]
             E == FwEntries(n, f)
             Into(r, q) == {i \in usable : i[1] = q.node /\ RtPeer[i][1] = r.node}
             Tight(r, q) == {i \in Into(r, q) : q.metric + cost[i[2]] = r.metric}
             Via(r, q) == IF q.node = n THEN Tight(r, q)
                          ELSE IF Tight(r, q) # {} THEN SpfHopsOf(q.hops) ELSE {}
  <1>1. /\ \A i \in usable : i[1] \in {q.node : q \in E} => RtPeer[i][1] \in {r.node : r \in E}
        /\ \A q, r \in E : \A i \in Into(r, q) : r.metric <= q.metric + cost[i[2]]
        /\ \A r \in E : r.node # n =>
             /\ \E q \in E : Tight(r, q) # {}
             /\ SpfHopsOf(r.hops) # {}
             /\ SpfHopsOf(r.hops) \subseteq UNION {Via(r, q) : q \in E}
    BY DEF FwPaths, SpfShortest, FwEntries
  <1>2. own \in SpfEntry /\ own.node = n /\ own.metric = 0 /\ own.hops = SpfEmpty
    BY SpfEmptyIs DEF SpfEntry
  <1>3. f \in Seq(SpfEntry) /\ \A k \in 1 .. Len(f) : f[k].node # n
    BY DEF FwPaths
  <1>4. ToSet(f) = {f[k] : k \in 1 .. Len(f)} /\ \A k \in 1 .. Len(f) : f[k] \in SpfEntry
    BY <1>3, LenProperties, ElementOfSeq DEF ToSet
  <1>5. SpfHopsOf(SpfEmpty) = {}
    BY DEF SpfHopsOf, SpfEmpty
  <1> HIDE DEF own
  <1>6. E = {f[k] : k \in 1 .. Len(f)} \cup {own}
    BY <1>4 DEF FwEntries, own
  <1> HIDE DEF E
  <1>7. E \subseteq SpfEntry /\ own \in E
    BY <1>2, <1>4, <1>6
  <1>8. \A e \in E : e.node = n => e.metric = 0 /\ SpfHopsOf(e.hops) = {}
    BY <1>2, <1>3, <1>5, <1>6
  <1>9. ASSUME NEW e \in E, NEW i \in usable, i[1] = e.node
        PROVE  /\ \E g \in E : g.node = RtPeer[i][1]
               /\ \A g \in E : g.node = RtPeer[i][1] => g.metric <= e.metric + cost[i[2]]
    BY <1>1, <1>9
  <1>10. ASSUME NEW e \in E, e.node # n
         PROVE  /\ SpfHopsOf(e.hops) # {}
                /\ \E q \in E : \E i \in usable :
                     i[1] = q.node /\ RtPeer[i][1] = e.node /\ q.metric + cost[i[2]] = e.metric
    BY <1>1, <1>10
  <1>11. ASSUME NEW e \in E, e.node # n, NEW h \in SpfHopsOf(e.hops)
         PROVE  \/ h \in usable /\ h[1] = n /\ RtPeer[h][1] = e.node /\ cost[h[2]] = e.metric
                \/ \E q \in E : \E i \in usable :
                     /\ i[1] = q.node /\ RtPeer[i][1] = e.node
                     /\ q.metric + cost[i[2]] = e.metric
                     /\ q.node # n /\ h \in SpfHopsOf(q.hops)
    <2>1. PICK q \in E : h \in Via(e, q)
      BY <1>1, <1>11
    <2>2. CASE q.node = n
      <3>1. h \in Tight(e, q)
        BY <2>1, <2>2
      <3>2. /\ h \in usable /\ h[1] = n /\ RtPeer[h][1] = e.node /\ 0 + cost[h[2]] = e.metric
        BY <1>8, <2>2, <3>1
      <3>3. cost[h[2]] \in Nat
        BY <3>2, SpfIntfTyped
      <3>4. QED
        BY <3>2, <3>3
    <2>3. CASE q.node # n
      BY <2>1, <2>3
    <2>4. QED
      BY <2>2, <2>3
  <1>12. FwSolved(usable, cost, n, E)
    BY <1>2, <1>7, <1>8, <1>9, <1>10, <1>11 DEF FwSolved
  <1>13. QED
    BY <1>12 DEF E

\* The entries that the solution B, from another root perhaps, reaches with a
\* metric that is less by c at least.
FwBelow(E, B, c) ==
    {e \in E : /\ \E b \in B : b.node = e.node
               /\ \A b \in B : b.node = e.node => b.metric + c <= e.metric}

\* An interface on a shortest path of E carries this on.
LEMMA FwBelowNext ==
    ASSUME NEW usable \in SUBSET RtIntf, NEW cost \in [RtLink -> 1 .. SpfMaxMetric],
           NEW n \in RtNode, NEW m \in RtNode, NEW E, NEW B, NEW c \in Nat,
           FwSolved(usable, cost, n, E), FwSolved(usable, cost, m, B),
           NEW q \in E, NEW e \in E, NEW i \in usable,
           i[1] = q.node, RtPeer[i][1] = e.node, q.metric + cost[i[2]] = e.metric,
           q \in FwBelow(E, B, c)
    PROVE  e \in FwBelow(E, B, c)
  <1>1. PICK b \in B : b.node = q.node
    BY DEF FwBelow
  <1>2. b.metric + c <= q.metric
    BY <1>1 DEF FwBelow
  <1>3. /\ \E g \in B : g.node = e.node
        /\ \A g \in B : g.node = e.node => g.metric <= b.metric + cost[i[2]]
    BY <1>1 DEF FwSolved
  <1>4. E \subseteq SpfEntry /\ B \subseteq SpfEntry /\ cost[i[2]] \in Nat
    BY SpfIntfTyped DEF FwSolved
  <1>5. /\ b.metric \in Nat /\ q.metric \in Nat /\ e.metric \in Nat
        /\ \A g \in B : g.metric \in Nat
    BY <1>4 DEF SpfEntry
  <1>6. \A g \in B : g.node = e.node => g.metric + c <= e.metric
    BY <1>2, <1>3, <1>4, <1>5
  <1>7. QED
    BY <1>3, <1>6 DEF FwBelow

\* If there are bad entries, there is one of which all nearer ones are good.
LEMMA FwNearestBad ==
    ASSUME NEW E \in SUBSET SpfEntry, NEW Bad \in SUBSET E, Bad # {}
    PROVE  \E e \in Bad : \A q \in E : q.metric < e.metric => q \notin Bad
  <1>1. {e.metric : e \in Bad} \in SUBSET Nat /\ {e.metric : e \in Bad} # {}
    BY DEF SpfEntry
  <1>2. PICK x \in {e.metric : e \in Bad} : \A y \in {e.metric : e \in Bad} : x <= y
    BY <1>1, KlLeast
  <1>3. PICK e \in Bad : e.metric = x
    BY <1>2
  <1>4. \A q \in Bad : e.metric <= q.metric /\ e.metric \in Nat /\ q.metric \in Nat
    BY <1>2, <1>3 DEF SpfEntry
  <1>5. QED
    BY <1>4

\* Two solutions from one root reach the same nodes with the same metrics.
LEMMA FwUnique ==
    ASSUME NEW usable \in SUBSET RtIntf, NEW cost \in [RtLink -> 1 .. SpfMaxMetric],
           NEW n \in RtNode, NEW E, NEW B,
           FwSolved(usable, cost, n, E), FwSolved(usable, cost, n, B)
    PROVE  \A e \in E : /\ \E b \in B : b.node = e.node
                        /\ \A b \in B : b.node = e.node => b.metric <= e.metric
  <1> DEFINE Bad == E \ FwBelow(E, B, 0)
  <1>1. E \subseteq SpfEntry /\ B \subseteq SpfEntry
    BY DEF FwSolved
  <1>2. Bad = {}
    <2>1. SUFFICES ASSUME Bad # {} PROVE FALSE
      OBVIOUS
    <2>2. PICK e \in Bad : \A q \in E : q.metric < e.metric => q \notin Bad
      BY <1>1, <2>1, FwNearestBad
    <2>3. CASE e.node = n
      <3>1. e.metric = 0 /\ (\E b \in B : b.node = n) /\ \A b \in B : b.node = n => b.metric = 0
        BY <2>2, <2>3 DEF FwSolved
      <3>2. \A b \in B : b.node = e.node => b.metric + 0 <= e.metric
        BY <2>3, <3>1
      <3>3. QED
        BY <2>2, <2>3, <3>1, <3>2 DEF FwBelow
    <2>4. CASE e.node # n
      <3>1. PICK q \in E, i \in usable :
              i[1] = q.node /\ RtPeer[i][1] = e.node /\ q.metric + cost[i[2]] = e.metric
        BY <2>2, <2>4 DEF FwSolved
      <3>2. q.metric \in Nat /\ cost[i[2]] \in 1 .. SpfMaxMetric /\ SpfMaxMetric \in Nat
        BY <1>1, SpfIntfTyped, SpfAssumption DEF SpfEntry
      <3>3. q.metric < e.metric
        BY <3>1, <3>2
      <3>4. q \in FwBelow(E, B, 0)
        BY <2>2, <3>3
      <3>5. e \in E
        BY <2>2
      <3>6. e \in FwBelow(E, B, 0)
        BY <3>1, <3>4, <3>5, FwBelowNext
      <3>7. QED
        BY <2>2, <3>6
    <2>5. QED
      BY <2>3, <2>4
  <1>3. \A e \in E : e \in FwBelow(E, B, 0)
    BY <1>2
  <1>4. \A b \in B : b.metric + 0 = b.metric
    BY <1>1 DEF SpfEntry
  <1>5. QED
    BY <1>3, <1>4 DEF FwBelow

\* The next hop h of the root n leads to e.node: what the router behind h has
\* to go, in its own solution B, is less by the cost of h.
FwLeads(usable, cost, n, E, B, e, h) ==
    /\ h \in usable /\ h[1] = n
    /\ FwSolved(usable, cost, RtPeer[h][1], B) => e \in FwBelow(E, B, cost[h[2]])

LEMMA FwNextHop ==
    ASSUME NEW usable \in SUBSET RtIntf, NEW cost \in [RtLink -> 1 .. SpfMaxMetric],
           NEW n \in RtNode, NEW E, FwSolved(usable, cost, n, E),
           NEW B
    PROVE  \A e \in E : e.node # n =>
             \A h \in SpfHopsOf(e.hops) : FwLeads(usable, cost, n, E, B, e, h)
  <1> SUFFICES ASSUME NEW e0 \in E, e0.node # n, NEW h \in SpfHopsOf(e0.hops)
               PROVE  FwLeads(usable, cost, n, E, B, e0, h)
    OBVIOUS
  <1> DEFINE Fine(e) == FwLeads(usable, cost, n, E, B, e, h)
             Bad == {e \in E : e.node # n /\ h \in SpfHopsOf(e.hops) /\ ~Fine(e)}
  <1>1. E \subseteq SpfEntry
    BY DEF FwSolved
  <1>2. Bad = {}
    <2>1. SUFFICES ASSUME Bad # {} PROVE FALSE
      OBVIOUS
    <2>2. Bad \in SUBSET E
      OBVIOUS
    <2> HIDE DEF Bad
    <2>3. PICK e \in Bad : \A q \in E : q.metric < e.metric => q \notin Bad
      BY <1>1, <2>1, <2>2, FwNearestBad
    <2>4. e \in E /\ e.node # n /\ h \in SpfHopsOf(e.hops) /\ ~Fine(e)
      BY <2>3 DEF Bad
    <2> HIDE DEF Fine
    <2>5. CASE h \in usable /\ h[1] = n /\ RtPeer[h][1] = e.node /\ cost[h[2]] = e.metric
      <3>1. ASSUME FwSolved(usable, cost, RtPeer[h][1], B)
            PROVE  e \in FwBelow(E, B, cost[h[2]])
        <4>1. (\E b \in B : b.node = e.node) /\ \A b \in B : b.node = e.node => b.metric = 0
          BY <2>5, <3>1 DEF FwSolved
        <4>2. e.metric \in Nat
          BY <1>1, <2>4 DEF SpfEntry
        <4>3. \A b \in B : b.node = e.node => b.metric + cost[h[2]] <= e.metric
          BY <2>5, <4>1, <4>2
        <4>4. QED
          BY <2>4, <4>1, <4>3 DEF FwBelow
      <3>2. Fine(e)
        BY <2>5, <3>1 DEF Fine, FwLeads
      <3>3. QED
        BY <2>4, <3>2
    <2>6. CASE \E q \in E : \E i \in usable :
                 /\ i[1] = q.node /\ RtPeer[i][1] = e.node
                 /\ q.metric + cost[i[2]] = e.metric
                 /\ q.node # n /\ h \in SpfHopsOf(q.hops)
      <3>1. PICK q \in E, i \in usable :
                 /\ i[1] = q.node /\ RtPeer[i][1] = e.node
                 /\ q.metric + cost[i[2]] = e.metric
                 /\ q.node # n /\ h \in SpfHopsOf(q.hops)
        BY <2>6
      <3>2. q.metric \in Nat /\ cost[i[2]] \in 1 .. SpfMaxMetric /\ SpfMaxMetric \in Nat
        BY <1>1, SpfIntfTyped, SpfAssumption DEF SpfEntry
      <3>3. q.metric < e.metric
        BY <3>1, <3>2
      <3>4. Fine(q)
        BY <2>3, <3>1, <3>3 DEF Bad
      <3>5. h \in usable /\ h[1] = n
        BY <3>4 DEF Fine, FwLeads
      <3>6. ASSUME FwSolved(usable, cost, RtPeer[h][1], B)
            PROVE  e \in FwBelow(E, B, cost[h[2]])
        <4>1. q \in FwBelow(E, B, cost[h[2]])
          BY <3>4, <3>6 DEF Fine, FwLeads
        <4>2. RtPeer[h][1] \in RtNode /\ cost[h[2]] \in Nat
          BY <3>5, SpfPeers, SpfIntfTyped
        <4>3. QED
          BY <2>4, <3>1, <3>6, <4>1, <4>2, FwBelowNext
      <3>7. Fine(e)
        BY <3>5, <3>6 DEF Fine, FwLeads
      <3>8. QED
        BY <2>4, <3>7
    <2>7. QED
      BY <2>4, <2>5, <2>6 DEF FwSolved
  <1>3. e0.node # n /\ h \in SpfHopsOf(e0.hops)
    OBVIOUS
  <1>4. Fine(e0)
    BY <1>2, <1>3
  <1>5. QED
    BY <1>4

-----------------------------------------------------------------------------
(* Tables that follow from the topology.                                   *)

\* The next hops of the route r are those of the results f for its node.
FwFrom(f, r) ==
    \A p \in RtPlace : r.nexthops[p] # RtNoHop =>
        \E k \in 1 .. Len(f) :
          /\ r.dest = <<f[k].node, 32>>
          /\ \E o \in SpfHopsOf(f[k].hops) : r.nexthops[p] = [gw |-> RtPeer[o], oif |-> o]

FwOnlyFrom(T, f) == \A r \in T : ~r.is_direct => FwFrom(f, r)
FwHasRoute(T, d) == \E r \in T : r.dest = <<d, 32>> /\ ~r.is_direct

\* The table T of node n follows from the topology: it has routes with next
\* hops to the nodes of a solution, and to no others.
FwFollows(usable, cost, n, T, f) ==
    /\ FwPaths(usable, cost, n, f)
    /\ FwOnlyFrom(T, f)
    /\ \A k \in 1 .. Len(f) : FwHasRoute(T, f[k].node)

\* F has a solution for each node, which its table follows.
FwGuide(usable, cost, tables, F) ==
    \A n \in RtNode : FwFollows(usable, cost, n, tables[n], F[n])

\* How far it is from n to d, and the nodes that are nearer.
FwReaches(F, n, d) == \E e \in FwEntries(n, F[n]) : e.node = d
FwDist(F, n, d) == (CHOOSE e \in FwEntries(n, F[n]) : e.node = d).metric
FwNearer(F, n, d) == {m \in RtNode : FwReaches(F, m, d) /\ FwDist(F, m, d) < FwDist(F, n, d)}

LEMMA FwReachesIs ==
    ASSUME NEW F, NEW n \in RtNode, NEW d, F[n] \in Seq(SpfEntry)
    PROVE  FwReaches(F, n, d) <=> d = n \/ \E k \in 1 .. Len(F[n]) : F[n][k].node = d
  <1>1. ToSet(F[n]) = {F[n][k] : k \in 1 .. Len(F[n])}
    BY LenProperties DEF ToSet
  <1>2. [node |-> n, metric |-> 0, hops |-> SpfEmpty].node = n
    OBVIOUS
  <1>3. FwReaches(F, n, d)
          <=> \E e \in {F[n][k] : k \in 1 .. Len(F[n])}
                        \cup {[node |-> n, metric |-> 0, hops |-> SpfEmpty]} : e.node = d
    BY <1>1 DEF FwReaches, FwEntries
  <1>4. QED
    BY <1>2, <1>3

LEMMA FwDistIs ==
    ASSUME NEW usable \in SUBSET RtIntf, NEW cost \in [RtLink -> 1 .. SpfMaxMetric],
           NEW tables, NEW F, FwGuide(usable, cost, tables, F),
           NEW n \in RtNode, NEW d, FwReaches(F, n, d)
    PROVE  /\ FwDist(F, n, d) \in Nat
           /\ \A e \in FwEntries(n, F[n]) : e.node = d => e.metric = FwDist(F, n, d)
           /\ d = n => FwDist(F, n, d) = 0
  <1> DEFINE E == FwEntries(n, F[n])
  <1>1. FwPaths(usable, cost, n, F[n])
    BY DEF FwGuide, FwFollows
  <1>2. FwSolved(usable, cost, n, E)
    BY <1>1, FwPathsSolve
  <1>3. PICK e0 \in E : e0.node = d
    BY DEF FwReaches
  <1>4. FwDist(F, n, d) = (CHOOSE e \in E : e.node = d).metric
    BY DEF FwDist
  <1> HIDE DEF E
  <1>5. PICK c \in E : c.node = d /\ FwDist(F, n, d) = c.metric
    BY <1>3, <1>4
  <1>6. E \subseteq SpfEntry
    BY <1>2 DEF FwSolved
  <1>7. \A e \in E : e.metric \in Nat
    BY <1>6 DEF SpfEntry
  <1>8. \A e, b \in E : b.node = e.node => b.metric <= e.metric
    BY <1>2, FwUnique
  <1>9. \A e \in E : e.node = d => e.metric = c.metric
    BY <1>5, <1>7, <1>8
  <1>10. d = n => c.metric = 0
    BY <1>2, <1>5 DEF FwSolved
  <1>11. QED
    BY <1>5, <1>7, <1>9, <1>10 DEF E

\* Over the next hop of the router n the node d is nearer.
FwTowards(usable, F, n, d, hop) ==
    /\ d # n /\ FwReaches(F, n, d)
    /\ \E o \in usable :
         /\ hop = [gw |-> RtPeer[o], oif |-> o]
         /\ FwReaches(F, RtPeer[o][1], d)
         /\ FwDist(F, RtPeer[o][1], d) < FwDist(F, n, d)

\* Every next hop of a route for the node d leads nearer to d.
LEMMA FwHopNearer ==
    ASSUME NEW usable \in SUBSET RtIntf, NEW cost \in [RtLink -> 1 .. SpfMaxMetric],
           NEW tables, NEW F, FwGuide(usable, cost, tables, F),
           NEW n \in RtNode, NEW d, NEW r \in tables[n], ~r.is_direct, r.dest = <<d, 32>>,
           NEW p \in RtPlace, r.nexthops[p] # RtNoHop
    PROVE  FwTowards(usable, F, n, d, r.nexthops[p])
  <1> DEFINE E == FwEntries(n, F[n])
  <1>1. FwPaths(usable, cost, n, F[n]) /\ FwFrom(F[n], r)
    BY DEF FwGuide, FwFollows, FwOnlyFrom
  <1>2. FwSolved(usable, cost, n, E)
    BY <1>1, FwPathsSolve
  <1>3. PICK k \in 1 .. Len(F[n]) :
          /\ r.dest = <<F[n][k].node, 32>>
          /\ \E o \in SpfHopsOf(F[n][k].hops) : r.nexthops[p] = [gw |-> RtPeer[o], oif |-> o]
    BY <1>1 DEF FwFrom
  <1>4. F[n][k].node = d /\ d # n
    BY <1>1, <1>3 DEF FwPaths
  <1>5. PICK o \in SpfHopsOf(F[n][k].hops) : r.nexthops[p] = [gw |-> RtPeer[o], oif |-> o]
    BY <1>3
  <1>6. F[n][k] \in E
    BY <1>1, LenProperties DEF FwPaths, FwEntries, ToSet
  <1> DEFINE e0 == F[n][k]
             m == RtPeer[o][1]
             B == FwEntries(m, F[m])
  <1>7. FwReaches(F, n, d)
    BY <1>4, <1>6 DEF FwReaches
  <1>8. FwDist(F, n, d) = e0.metric
    BY <1>4, <1>6, <1>7, FwDistIs
  <1> HIDE DEF E
  <1>9. e0 \in E /\ e0.node = d /\ d # n /\ e0.node # n /\ o \in SpfHopsOf(e0.hops)
    BY <1>4, <1>5, <1>6
  <1> HIDE DEF e0
  <1>10. FwLeads(usable, cost, n, E, B, e0, o)
    BY <1>2, <1>9, FwNextHop
  <1>11. m \in RtNode /\ cost[o[2]] \in 1 .. SpfMaxMetric /\ SpfMaxMetric \in Nat
    BY <1>10, SpfPeers, SpfIntfTyped, SpfAssumption DEF FwLeads
  <1>12. FwPaths(usable, cost, m, F[m])
    BY <1>11 DEF FwGuide, FwFollows
  <1>13. FwSolved(usable, cost, m, B)
    BY <1>11, <1>12, FwPathsSolve
  <1>14. o \in usable /\ e0 \in FwBelow(E, B, cost[o[2]])
    BY <1>10, <1>13 DEF FwLeads
  <1>15. PICK b \in B : b.node = d /\ b.metric + cost[o[2]] <= e0.metric
    BY <1>9, <1>14 DEF FwBelow
  <1>16. FwReaches(F, m, d)
    BY <1>15 DEF FwReaches
  <1>17. FwDist(F, m, d) = b.metric /\ FwDist(F, m, d) \in Nat /\ FwDist(F, n, d) \in Nat
    BY <1>7, <1>11, <1>15, <1>16, FwDistIs
  <1>18. FwDist(F, m, d) < FwDist(F, n, d)
    BY <1>8, <1>11, <1>15, <1>17
  <1>19. QED
    BY <1>5, <1>7, <1>9, <1>14, <1>16, <1>18 DEF FwTowards

\* So there are fewer nodes nearer than the next one.
LEMMA FwFewer ==
    ASSUME NEW usable \in SUBSET RtIntf, NEW cost \in [RtLink -> 1 .. SpfMaxMetric],
           NEW tables, NEW F, FwGuide(usable, cost, tables, F),
           NEW n \in RtNode, NEW m \in RtNode, NEW d \in RtNode,
           FwReaches(F, n, d), FwReaches(F, m, d), FwDist(F, m, d) < FwDist(F, n, d)
    PROVE  Cardinality(FwNearer(F, m, d)) < Cardinality(FwNearer(F, n, d))
  <1>1. \A x \in RtNode : FwReaches(F, x, d) => FwDist(F, x, d) \in Nat
    BY FwDistIs
  <1>2. FwNearer(F, m, d) \subseteq FwNearer(F, n, d)
    BY <1>1 DEF FwNearer
  <1>3. m \in FwNearer(F, n, d) /\ m \notin FwNearer(F, m, d)
    BY <1>1 DEF FwNearer
  <1>4. IsFiniteSet(FwNearer(F, n, d))
    BY SpfNodesFinite, FS_Subset DEF FwNearer
  <1>5. FwNearer(F, m, d) # FwNearer(F, n, d)
    BY <1>3
  <1>6. QED
    BY <1>2, <1>4, <1>5, FS_Subset, FS_CardinalityType

\* A node is not nearer than itself.
LEMMA FwNearerRange ==
    ASSUME NEW usable \in SUBSET RtIntf, NEW cost \in [RtLink -> 1 .. SpfMaxMetric],
           NEW tables, NEW F, FwGuide(usable, cost, tables, F),
           NEW n \in RtNode, NEW d \in RtNode, FwReaches(F, n, d)
    PROVE  /\ Cardinality(FwNearer(F, n, d)) \in Nat
           /\ Cardinality(FwNearer(F, n, d)) < Cardinality(RtNode)
  <1>1. FwDist(F, n, d) \in Nat
    BY FwDistIs
  <1>2. n \notin FwNearer(F, n, d) /\ FwNearer(F, n, d) \subseteq RtNode
    BY <1>1 DEF FwNearer
  <1>3. FwNearer(F, n, d) # RtNode
    BY <1>2
  <1>4. QED
    BY <1>2, <1>3, SpfNodesFinite, FS_Subset, FS_CardinalityType

-----------------------------------------------------------------------------
(* What the steps do to one table.                                         *)

\* A next hop is added to a route, which is indirect then.
LEMMA FwWithHop ==
    ASSUME NEW q \in RtRoute, RtGood(q), NEW hop \in RtHop
    PROVE  /\ ~WithHop(q, hop).is_direct /\ WithHop(q, hop).dest = q.dest
           /\ \A p \in RtPlace : WithHop(q, hop).nexthops[p] # RtNoHop =>
                \/ WithHop(q, hop).nexthops[p] = hop
                \/ ~q.is_direct /\ WithHop(q, hop).nexthops[p] = q.nexthops[p]
  <1>1. PICK n \in 0 .. RtMaxNxtHops : RtFilled(q, n)
    BY DEF RtGood
  <1>2. RtFree(q.nexthops) = n
    BY <1>1, RtFreeIs
  <1>3. CASE n \notin RtPlace \/ \E j \in RtPlace : j < n /\ q.nexthops[j] = hop
    <2>1. WithHop(q, hop) = q
      BY <1>2, <1>3 DEF WithHop
    <2>2. n # 0
      BY <1>3, RtPlaces
    <2>3. ~q.is_direct
      BY <1>1, <2>2 DEF RtFilled
    <2>4. QED
      BY <2>1, <2>3
  <1>4. CASE n \in RtPlace /\ ~\E j \in RtPlace : j < n /\ q.nexthops[j] = hop
    <2>1. WithHop(q, hop) = [q EXCEPT !.nexthops[n] = hop, !.is_direct = FALSE]
      BY <1>2, <1>4 DEF WithHop
    <2>2. /\ WithHop(q, hop).dest = q.dest /\ ~WithHop(q, hop).is_direct
          /\ WithHop(q, hop).nexthops = [q.nexthops EXCEPT ![n] = hop]
      BY <2>1 DEF RtRoute
    <2>3. q.nexthops \in [RtPlace -> RtHop \cup {RtNoHop}]
      BY DEF RtRoute, RtHops
    <2>4. ASSUME NEW p \in RtPlace
          PROVE  WithHop(q, hop).nexthops[p] = IF p = n THEN hop ELSE q.nexthops[p]
      BY <2>2, <2>3
    <2>5. ASSUME q.is_direct, NEW p \in RtPlace
          PROVE  q.nexthops[p] = RtNoHop
      BY <1>1, <2>5, RtPlaces DEF RtFilled
    <2>6. QED
      BY <2>2, <2>4, <2>5
  <1>5. QED
    BY <1>3, <1>4

\* A next hop is added to a table.
LEMMA FwAddRoute ==
    ASSUME NEW T, RtTableOK(T), NEW dest \in RtPrefix, NEW hop \in RtHop
    PROVE  /\ \E r \in AddRoute(T, dest, hop) : r.dest = dest /\ ~r.is_direct
           /\ \A r \in T : r.dest # dest => r \in AddRoute(T, dest, hop)
           /\ \A r \in AddRoute(T, dest, hop) : ~r.is_direct =>
                \/ r \in T
                \/ /\ r.dest = dest
                   /\ \A p \in RtPlace : r.nexthops[p] # RtNoHop =>
                        \/ r.nexthops[p] = hop
                        \/ \E q \in T : q.dest = dest /\ ~q.is_direct /\ q.nexthops[p] = r.nexthops[p]
  <1>1. \A r \in T : r.dest # dest => r \in AddRoute(T, dest, hop)
    BY AddRouteOK
  <1>2. CASE RtLookup(T, dest) = {}
    <2> DEFINE new == NewRoute(dest, FALSE, [NoHops EXCEPT ![0] = hop])
    <2>1. AddRoute(T, dest, hop) = T \cup {new}
      BY <1>2 DEF AddRoute
    <2>2. new.dest = dest /\ ~new.is_direct /\ new.nexthops = [NoHops EXCEPT ![0] = hop]
      BY DEF NewRoute
    <2>3. \A p \in RtPlace : new.nexthops[p] = IF p = 0 THEN hop ELSE RtNoHop
      BY <2>2, RtPlaces DEF NoHops
    <2> HIDE DEF new
    <2>4. QED
      BY <1>1, <2>1, <2>2, <2>3
  <1>3. CASE RtLookup(T, dest) # {}
    <2>1. PICK old \in RtLookup(T, dest) : TRUE
      BY <1>3
    <2>2. /\ RtLookup(T, dest) = {old} /\ old \in T /\ old \in RtRoute /\ RtGood(old)
          /\ old.dest = dest
      BY <2>1 DEF RtLookup, RtTableOK
    <2> DEFINE new == WithHop(old, hop)
    <2>3. AddRoute(T, dest, hop) = (T \ {old}) \cup {new}
      BY <2>2 DEF AddRoute
    <2>4. /\ ~new.is_direct /\ new.dest = dest
          /\ \A p \in RtPlace : new.nexthops[p] # RtNoHop =>
               \/ new.nexthops[p] = hop
               \/ ~old.is_direct /\ new.nexthops[p] = old.nexthops[p]
      BY <2>2, FwWithHop
    <2> HIDE DEF new
    <2>5. ASSUME NEW r \in AddRoute(T, dest, hop)
          PROVE  \/ r \in T
                 \/ /\ r.dest = dest
                    /\ \A p \in RtPlace : r.nexthops[p] # RtNoHop =>
                         \/ r.nexthops[p] = hop
                         \/ \E q \in T : q.dest = dest /\ ~q.is_direct
                                         /\ q.nexthops[p] = r.nexthops[p]
      <3>1. CASE r = new
        BY <2>2, <2>4, <3>1
      <3>2. CASE r # new
        BY <2>3, <3>2
      <3>3. QED
        BY <3>1, <3>2
    <2>6. \E r \in AddRoute(T, dest, hop) : r.dest = dest /\ ~r.is_direct
      BY <2>3, <2>4
    <2>7. QED
      BY <1>1, <2>5, <2>6
  <1>4. QED
    BY <1>2, <1>3

\* A packet that moves the index of a route leaves its next hops.
LEMMA FwRotated ==
    ASSUME NEW T, RtTableOK(T), NEW r \in T, ~r.is_direct, NEW f, FwOnlyFrom(T, f)
    PROVE  /\ FwOnlyFrom((T \ {r}) \cup {Rotate(r)}, f)
           /\ \A d : FwHasRoute(T, d) => FwHasRoute((T \ {r}) \cup {Rotate(r)}, d)
  <1>1. r \in RtRoute /\ RtGood(r)
    BY DEF RtTableOK
  <1>2. Rotate(r).dest = r.dest /\ ~Rotate(r).is_direct
    BY <1>1, RotateGood
  <1>3. Rotate(r).nexthops = r.nexthops
    BY <1>1 DEF Rotate, RtRoute
  <1>4. FwFrom(f, Rotate(r))
    BY <1>2, <1>3 DEF FwOnlyFrom, FwFrom
  <1>5. FwOnlyFrom((T \ {r}) \cup {Rotate(r)}, f)
    BY <1>4 DEF FwOnlyFrom
  <1>6. \A d : FwHasRoute(T, d) => FwHasRoute((T \ {r}) \cup {Rotate(r)}, d)
    BY <1>2 DEF FwHasRoute
  <1>7. QED
    BY <1>5, <1>6

-----------------------------------------------------------------------------
(* The installing of results.                                              *)

\* The table T has next hops of the results f only, and what f has it has, or
\* it is among what is left to be installed.
FwInstalls(T, f, left) ==
    /\ left \in Seq(SpfEntry)
    /\ FwOnlyFrom(T, f)
    /\ \A x \in 1 .. Len(left) : \E k \in 1 .. Len(f) :
         left[x].node = f[k].node /\ SpfHopsOf(left[x].hops) \subseteq SpfHopsOf(f[k].hops)
    /\ \A k \in 1 .. Len(f) :
         \/ FwHasRoute(T, f[k].node)
         \/ \E x \in 1 .. Len(left) :
              left[x].node = f[k].node /\ SpfHopsOf(left[x].hops) # {}

\* The table is cleared, and everything is left.
LEMMA FwInstallsFirst ==
    ASSUME NEW T, NEW f \in Seq(SpfEntry), \A k \in 1 .. Len(f) : SpfHopsOf(f[k].hops) # {}
    PROVE  FwInstalls(ClearTable(T), f, f)
  BY DEF FwInstalls, FwOnlyFrom, ClearTable

\* One next hop is installed.
LEMMA FwInstallsHop ==
    ASSUME NEW T, RtTableOK(T), NEW f \in Seq(SpfEntry), NEW left, left # <<>>,
           FwInstalls(T, f, left),
           NEW k \in RtPlace, left[1].hops[k] # RtNoHop
    PROVE  /\ <<left[1].node, 32>> \in RtPrefix /\ left[1].hops[k] \in RtIntf
           /\ FwInstalls(AddRoute(T, <<left[1].node, 32>>,
                              [gw |-> RtPeer[left[1].hops[k]], oif |-> left[1].hops[k]]),
                         f, [left EXCEPT ![1].hops[k] = RtNoHop])
  <1> DEFINE r == left[1]
             o == r.hops[k]
             dest == <<r.node, 32>>
             hop == [gw |-> RtPeer[o], oif |-> o]
             U == AddRoute(T, dest, hop)
             l == [left EXCEPT ![1].hops[k] = RtNoHop]
  <1>1. left \in Seq(SpfEntry) /\ FwOnlyFrom(T, f)
    BY DEF FwInstalls
  <1>2. Len(left) \in Nat /\ 1 \in 1 .. Len(left) /\ DOMAIN left = 1 .. Len(left)
        /\ left \in [1 .. Len(left) -> SpfEntry]
    BY <1>1, LenProperties, EmptySeq
  <1>3. r \in SpfEntry
    BY <1>2
  <1>4. r.node \in RtNode /\ r.hops \in [RtPlace -> RtIntf \cup {RtNoHop}]
    BY <1>3 DEF SpfEntry, SpfArray
  <1>5. o \in RtIntf /\ dest \in RtPrefix /\ hop \in RtHop
    BY <1>4, SpfPeers DEF RtPrefix, RtAddr, RtHop
  <1>6. l = [left EXCEPT ![1] = [r EXCEPT !.hops = [r.hops EXCEPT ![k] = RtNoHop]]]
    OBVIOUS
  <1> DEFINE s == [r EXCEPT !.hops = [r.hops EXCEPT ![k] = RtNoHop]]
  <1>7. s \in SpfEntry /\ s.node = r.node /\ s.hops = [r.hops EXCEPT ![k] = RtNoHop]
    <2>1. [r.hops EXCEPT ![k] = RtNoHop] \in SpfArray
      BY <1>4 DEF SpfArray
    <2>2. QED
      BY <1>3, <2>1 DEF SpfEntry
  <1>8. SpfHopsOf(s.hops) \subseteq SpfHopsOf(r.hops)
    BY <1>4, <1>7 DEF SpfHopsOf
  <1>9. o \in SpfHopsOf(r.hops)
    BY DEF SpfHopsOf
  <1> HIDE DEF s, l
  <1>10. l \in Seq(SpfEntry) /\ Len(l) = Len(left) /\ l[1] = s
         /\ \A x \in 1 .. Len(left) : x # 1 => l[x] = left[x]
    <2>1. l \in [1 .. Len(left) -> SpfEntry] /\ l[1] = s
          /\ \A x \in 1 .. Len(left) : x # 1 => l[x] = left[x]
      BY <1>2, <1>6, <1>7 DEF s
    <2>2. l \in Seq(SpfEntry) /\ Len(l) = Len(left)
      BY <1>2, <2>1, IsASeq, LenProperties
    <2>3. QED
      BY <2>1, <2>2
  <1>11. /\ \E q \in U : q.dest = dest /\ ~q.is_direct
         /\ \A q \in T : q.dest # dest => q \in U
         /\ \A q \in U : ~q.is_direct =>
                \/ q \in T
                \/ /\ q.dest = dest
                   /\ \A p \in RtPlace : q.nexthops[p] # RtNoHop =>
                        \/ q.nexthops[p] = hop
                        \/ \E t \in T : t.dest = dest /\ ~t.is_direct /\ t.nexthops[p] = q.nexthops[p]
    BY <1>5, FwAddRoute
  <1>12. PICK j \in 1 .. Len(f) :
           r.node = f[j].node /\ SpfHopsOf(r.hops) \subseteq SpfHopsOf(f[j].hops)
    BY <1>2 DEF FwInstalls
  <1>13. dest = <<f[j].node, 32>> /\ o \in SpfHopsOf(f[j].hops)
    BY <1>9, <1>12
  <1>14. hop = [gw |-> RtPeer[o], oif |-> o]
    OBVIOUS
  <1>15. \A d : d # r.node => <<d, 32>> # dest
    OBVIOUS
  <1>16. dest = <<r.node, 32>>
    OBVIOUS
  <1> HIDE DEF r, o, dest, hop, U
  <1>17. FwOnlyFrom(U, f)
    <2> SUFFICES ASSUME NEW q \in U, ~q.is_direct, NEW p \in RtPlace, q.nexthops[p] # RtNoHop
                 PROVE  \E x \in 1 .. Len(f) :
                          /\ q.dest = <<f[x].node, 32>>
                          /\ \E i \in SpfHopsOf(f[x].hops) :
                               q.nexthops[p] = [gw |-> RtPeer[i], oif |-> i]
      BY DEF FwOnlyFrom, FwFrom
    <2>1. CASE q \in T
      BY <1>1, <2>1 DEF FwOnlyFrom, FwFrom
    <2>2. CASE q.dest = dest /\ q.nexthops[p] = hop
      BY <1>13, <1>14, <2>2
    <2>3. CASE /\ q.dest = dest
               /\ \E t \in T : t.dest = dest /\ ~t.is_direct /\ t.nexthops[p] = q.nexthops[p]
      <3>1. PICK t \in T : t.dest = dest /\ ~t.is_direct /\ t.nexthops[p] = q.nexthops[p]
        BY <2>3
      <3>2. FwFrom(f, t)
        BY <1>1, <3>1 DEF FwOnlyFrom
      <3>3. QED
        BY <2>3, <3>1, <3>2 DEF FwFrom
    <2>4. QED
      BY <1>11, <2>1, <2>2, <2>3
  <1>18. ASSUME NEW d, FwHasRoute(T, d)
         PROVE  FwHasRoute(U, d)
    <2>1. CASE d = r.node
      BY <1>11, <1>16, <2>1 DEF FwHasRoute
    <2>2. CASE d # r.node
      BY <1>11, <1>15, <1>18, <2>2 DEF FwHasRoute
    <2>3. QED
      BY <2>1, <2>2
  <1>19. FwHasRoute(U, r.node)
    BY <1>11, <1>16 DEF FwHasRoute
  <1>20. ASSUME NEW x \in 1 .. Len(l)
         PROVE  \E y \in 1 .. Len(f) :
                  l[x].node = f[y].node /\ SpfHopsOf(l[x].hops) \subseteq SpfHopsOf(f[y].hops)
    <2>1. CASE x = 1
      BY <1>7, <1>8, <1>10, <1>12, <2>1
    <2>2. CASE x # 1
      <3>1. x \in 1 .. Len(left) /\ l[x] = left[x]
        BY <1>10, <2>2
      <3>2. \E y \in 1 .. Len(f) :
              left[x].node = f[y].node /\ SpfHopsOf(left[x].hops) \subseteq SpfHopsOf(f[y].hops)
        BY <3>1 DEF FwInstalls
      <3>3. QED
        BY <3>1, <3>2
    <2>3. QED
      BY <2>1, <2>2
  <1>21. ASSUME NEW y \in 1 .. Len(f)
         PROVE  \/ FwHasRoute(U, f[y].node)
                \/ \E x \in 1 .. Len(l) : l[x].node = f[y].node /\ SpfHopsOf(l[x].hops) # {}
    <2>1. CASE FwHasRoute(T, f[y].node)
      BY <1>18, <2>1
    <2>2. CASE \E x \in 1 .. Len(left) :
                 left[x].node = f[y].node /\ SpfHopsOf(left[x].hops) # {}
      <3>1. PICK x \in 1 .. Len(left) :
                 left[x].node = f[y].node /\ SpfHopsOf(left[x].hops) # {}
        BY <2>2
      <3>2. CASE x = 1
        BY <1>19, <3>1, <3>2 DEF r
      <3>3. CASE x # 1
        BY <1>10, <3>1, <3>3
      <3>4. QED
        BY <3>2, <3>3
    <2>3. QED
      BY <2>1, <2>2 DEF FwInstalls
  <1>22. FwInstalls(U, f, l)
    BY <1>10, <1>17, <1>20, <1>21 DEF FwInstalls
  <1>23. QED
    BY <1>5, <1>22 DEF r, o, dest, hop, U, l

\* A result of which nothing is left is passed over.
LEMMA FwInstallsNone ==
    ASSUME NEW T, NEW f, NEW left, left # <<>>, FwInstalls(T, f, left),
           SpfHopsOf(left[1].hops) = {}
    PROVE  FwInstalls(T, f, Tail(left))
  <1>1. left \in Seq(SpfEntry)
    BY DEF FwInstalls
  <1>2. /\ Tail(left) \in Seq(SpfEntry) /\ Len(Tail(left)) = Len(left) - 1 /\ Len(left) \in Nat
        /\ \A x \in 1 .. Len(Tail(left)) : Tail(left)[x] = left[x + 1]
    BY <1>1, HeadTailProperties, LenProperties
  <1>3. \A x \in 1 .. Len(Tail(left)) : x + 1 \in 1 .. Len(left)
    BY <1>2
  <1>4. \A x \in 1 .. Len(left) : x # 1 =>
          x - 1 \in 1 .. Len(Tail(left)) /\ Tail(left)[x - 1] = left[x]
    BY <1>2
  <1> DEFINE l == Tail(left)
  <1> HIDE DEF l
  <1>5. ASSUME NEW x \in 1 .. Len(l)
        PROVE  \E y \in 1 .. Len(f) :
                 l[x].node = f[y].node /\ SpfHopsOf(l[x].hops) \subseteq SpfHopsOf(f[y].hops)
    <2>1. x + 1 \in 1 .. Len(left) /\ l[x] = left[x + 1]
      BY <1>2, <1>3 DEF l
    <2>2. QED
      BY <2>1 DEF FwInstalls
  <1>6. ASSUME NEW y \in 1 .. Len(f), NEW x \in 1 .. Len(left),
               left[x].node = f[y].node, SpfHopsOf(left[x].hops) # {}
        PROVE  \E z \in 1 .. Len(l) : l[z].node = f[y].node /\ SpfHopsOf(l[z].hops) # {}
    <2>1. x # 1
      BY <1>6
    <2>2. x - 1 \in 1 .. Len(l) /\ l[x - 1] = left[x]
      BY <1>4, <2>1 DEF l
    <2>3. QED
      BY <1>6, <2>2
  <1>7. l \in Seq(SpfEntry)
    BY <1>2 DEF l
  <1>8. FwInstalls(T, f, l)
    BY <1>5, <1>6, <1>7 DEF FwInstalls
  <1>9. QED
    BY <1>8 DEF l

-----------------------------------------------------------------------------
(* What holds of the tables through every step.                            *)

\* The table of the root whose results are installed is on the way to follow
\* them; those of the other nodes that are current follow from the topology.
FwInstalling ==
    spf_phase = "install" =>
        /\ Head(spf_roots) \notin spf_current
        /\ \A k \in 1 .. Len(spf_results[Head(spf_roots)]) :
             spf_results[Head(spf_roots)][k].node # Head(spf_roots)
        /\ FwInstalls(rt_table[Head(spf_roots)], spf_results[Head(spf_roots)], spf_uninstalled)

FwFollowing ==
    \A n \in spf_current : \E f : FwFollows(SpfBi, spf_cost, n, rt_table[n], f)

FwTables == spf_current \subseteq RtNode /\ FwInstalling /\ FwFollowing

\* The packet under way has not been counted down to 0.
FwPacketOK == fw_pkt \in FwPacket \cup {RtNoHop} /\ (fw_pkt # RtNoHop => fw_pkt.ttl # 0)

FwBase == RtInv /\ SpfGood /\ FwTables /\ FwPacketOK

\* The steps of packets and of the routing commands leave SPF where it is.
LEMMA FwSpfSame ==
    ASSUME SpfGood, UNCHANGED <<spf_cost, spf_up, spfDataVars, spfLoopVars>>,
           rt_dead' # "recorded"
    PROVE  SpfGood'
  <1>1. SpfInv /\ SpfPath /\ SpfCorrect
    BY DEF SpfGood
  <1>2. UNCHANGED <<spf_cost, spf_up, spf_phase, spf_roots, spf_metric, spf_hops,
                    spf_queue, spf_results, spf_node, spf_left>>
    BY DEF spfDataVars, spfLoopVars
  <1>3. /\ SpfData' = SpfData /\ spf_hops' = spf_hops /\ spf_queue' = spf_queue
        /\ spf_results' = spf_results
        /\ SpfOwnResults' /\ SpfCovered' /\ SpfQueued(SpfData')
    BY <1>1, SpfSameData
  <1>4. SpfSorts'
    BY <1>1, <1>2, <1>3 DEF SpfInv, SpfSorts
  <1>5. SpfLoop'
    BY <1>1, <1>2, <1>3 DEF SpfInv, SpfLoop
  <1>6. SpfBi' = SpfBi /\ SpfSoFar' = SpfSoFar
        /\ {i \in RtIntf : Bidirectional(i)}' = {i \in RtIntf : Bidirectional(i)}
    BY <1>2 DEF SpfBi, SpfSoFar, Bidirectional
  <1>7. SpfDone' = SpfDone
    BY <1>2, <1>6 DEF SpfDone
  <1>8. SpfRun' = SpfRun
    BY <1>2, <1>6, <1>7 DEF SpfRun
  <1>9. SpfPath'
    BY <1>1, <1>2, <1>8 DEF SpfPath, SpfCosts, SpfLooking
  <1>10. SpfCorrect'
    BY <1>1, <1>2, <1>6 DEF SpfCorrect
  <1>11. QED
    BY <1>3, <1>4, <1>5, <1>9, <1>10 DEF SpfGood, SpfInv

\* A packet's step uses one route or none, and changes nothing else of the
\* routers.
FwUses == UNCHANGED rtVars \/ \E n \in RtNode : \E r \in rt_table[n] : UseRoute(n, r)

LEMMA FwPacketSteps ==
    ASSUME FwPacketOK,
           FwReceive \/ FwLose \/ \E ping \in FwPings : FwPing(ping[1], ping[2], ping[3])
    PROVE  FwUses /\ UNCHANGED <<spfConfigVars, spfDataVars, spfLoopVars, spf_current>>
  <1>1. CASE FwReceive
    <2>1. fw_pkt.at \in RtNode
      BY <1>1 DEF FwPacketOK, FwPacket, FwReceive
    <2>2. UNCHANGED <<spfConfigVars, spfDataVars, spfLoopVars, spf_current>>
      BY <1>1 DEF FwReceive
    <2>3. UNCHANGED rtVars \/ \E r : UseRoute(fw_pkt.at, r)
      BY <1>1 DEF FwReceive, FwVia
    <2>4. QED
      BY <2>1, <2>2, <2>3 DEF FwUses, UseRoute
  <1>2. CASE FwLose
    BY <1>2 DEF FwLose, FwUses, spfVars
  <1>3. CASE \E ping \in FwPings : FwPing(ping[1], ping[2], ping[3])
    <2>1. PICK ping \in FwPings : FwPing(ping[1], ping[2], ping[3])
      BY <1>3
    <2>2. ping[1] \in RtNode
      BY FwAssumption
    <2>3. UNCHANGED <<spfConfigVars, spfDataVars, spfLoopVars, spf_current>>
      BY <2>1 DEF FwPing
    <2>4. UNCHANGED rtVars \/ \E r : UseRoute(ping[1], r)
      BY <2>1 DEF FwPing, FwVia
    <2>5. QED
      BY <2>2, <2>3, <2>4 DEF FwUses, UseRoute
  <1>4. QED
    BY <1>1, <1>2, <1>3

\* The tables after a packet's step.
LEMMA FwUsesTables ==
    ASSUME RtInv, SpfSorts, FwTables, FwUses,
           UNCHANGED <<spfConfigVars, spfDataVars, spfLoopVars, spf_current>>
    PROVE  /\ FwTables'
           /\ \A n \in RtNode : \A f :
                FwFollows(SpfBi, spf_cost, n, rt_table[n], f)
                  => FwFollows(SpfBi', spf_cost', n, rt_table'[n], f)
  <1>1. /\ spf_cost' = spf_cost /\ spf_up' = spf_up /\ spf_phase' = spf_phase
        /\ spf_roots' = spf_roots /\ spf_results' = spf_results
        /\ spf_uninstalled' = spf_uninstalled /\ spf_current' = spf_current
    BY DEF spfConfigVars, spfDataVars, spfLoopVars
  <1>2. SpfBi' = SpfBi
    BY <1>1 DEF SpfBi, Bidirectional
  <1>3. ASSUME NEW n \in RtNode, NEW f, FwOnlyFrom(rt_table[n], f)
        PROVE  /\ FwOnlyFrom(rt_table'[n], f)
               /\ \A d : FwHasRoute(rt_table[n], d) => FwHasRoute(rt_table'[n], d)
    <2>1. CASE UNCHANGED rtVars
      BY <1>3, <2>1 DEF rtVars
    <2>2. CASE \E m \in RtNode : \E r \in rt_table[m] : UseRoute(m, r)
      <3>1. PICK m \in RtNode : \E r \in rt_table[m] : UseRoute(m, r)
        BY <2>2
      <3>2. PICK r \in rt_table[m] : UseRoute(m, r)
        BY <3>1
      <3>3. ~r.is_direct /\ rt_table' = [rt_table EXCEPT ![m] = (@ \ {r}) \cup {Rotate(r)}]
        BY <3>2 DEF UseRoute
      <3>4. rt_table \in [RtNode -> SUBSET RtRoute] /\ RtTableOK(rt_table[n])
        BY DEF RtInv, RtTypeOK
      <3>5. CASE m # n
        BY <1>3, <3>3, <3>4, <3>5
      <3>6. CASE m = n
        <4>1. rt_table'[n] = (rt_table[n] \ {r}) \cup {Rotate(r)} /\ r \in rt_table[n]
          BY <3>3, <3>4, <3>6
        <4>2. QED
          BY <1>3, <3>3, <3>4, <4>1, FwRotated
      <3>7. QED
        BY <3>5, <3>6
    <2>3. QED
      BY <2>1, <2>2 DEF FwUses
  <1>4. ASSUME NEW n \in RtNode, NEW f, FwFollows(SpfBi, spf_cost, n, rt_table[n], f)
        PROVE  FwFollows(SpfBi', spf_cost', n, rt_table'[n], f)
    BY <1>1, <1>2, <1>3, <1>4 DEF FwFollows
  <1>5. FwFollowing'
    BY <1>1, <1>4 DEF FwTables, FwFollowing
  <1>6. FwInstalling'
    <2>1. SUFFICES ASSUME spf_phase = "install" PROVE FwInstalling'
      BY <1>1 DEF FwInstalling
    <2>2. Head(spf_roots) \in RtNode
      BY <2>1, HeadTailProperties DEF SpfSorts
    <2>3. FwInstalls(rt_table[Head(spf_roots)], spf_results[Head(spf_roots)], spf_uninstalled)
      BY <2>1 DEF FwTables, FwInstalling
    <2>4. FwInstalls(rt_table'[Head(spf_roots)], spf_results[Head(spf_roots)], spf_uninstalled)
      BY <1>3, <2>2, <2>3 DEF FwInstalls
    <2>5. QED
      BY <1>1, <2>1, <2>4 DEF FwTables, FwInstalling
  <1>7. QED
    BY <1>1, <1>4, <1>5, <1>6 DEF FwTables

-----------------------------------------------------------------------------
(* SPF and the routing commands.                                           *)

\* A step that changes no table, outside the installing of results.
LEMMA FwQuietTables ==
    ASSUME FwTables, rt_table' = rt_table, spf_cost' = spf_cost, spf_up' = spf_up,
           spf_current' = spf_current, spf_phase' # "install"
    PROVE  FwTables'
  <1>1. SpfBi' = SpfBi
    BY DEF SpfBi, Bidirectional
  <1>2. QED
    BY <1>1 DEF FwTables, FwInstalling, FwFollowing

\* A step that changes the table of one node, which is current no more.
LEMMA FwOtherTables ==
    ASSUME FwTables, NEW n \in RtNode, spf_cost' = spf_cost, spf_up' = spf_up,
           spf_current' = spf_current \ {n},
           \A m \in RtNode : m # n => rt_table'[m] = rt_table[m]
    PROVE  spf_current' \subseteq RtNode /\ FwFollowing'
  <1>1. SpfBi' = SpfBi
    BY DEF SpfBi, Bidirectional
  <1>2. spf_current \subseteq RtNode /\ FwFollowing
    BY DEF FwTables
  <1>3. ASSUME NEW m \in spf_current'
        PROVE  \E f : FwFollows(SpfBi', spf_cost', m, rt_table'[m], f)
    <2>1. m \in spf_current /\ rt_table'[m] = rt_table[m]
      BY <1>2
    <2>2. \E f : FwFollows(SpfBi, spf_cost, m, rt_table[m], f)
      BY <1>2, <2>1 DEF FwFollowing
    <2>3. QED
      BY <1>1, <2>1, <2>2
  <1>4. QED
    BY <1>2, <1>3 DEF FwFollowing

LEMMA FwClearTables ==
    ASSUME RtInv, SpfGood, FwTables, SpfClear
    PROVE  FwTables'
  <1> DEFINE root == Head(spf_roots)
             f == spf_results[root]
  <1>1. /\ spf_phase \in {"queue", "explore"} /\ spf_left = <<>> /\ spf_phase' = "install"
        /\ rt_table' = [rt_table EXCEPT ![root] = ClearTable(rt_table[root])]
        /\ spf_uninstalled' = f /\ spf_current' = spf_current \ {root}
        /\ spf_cost' = spf_cost /\ spf_up' = spf_up /\ spf_results' = spf_results
        /\ spf_roots' = spf_roots
    BY DEF SpfClear, ClearRoutes, spfConfigVars
  <1>2. SpfSorts /\ SpfRight(SpfRun) /\ SpfRun.root = root /\ SpfRun.res = f
    BY <1>1, SpfRoundDone, SpfRunFields
  <1>3. root \in RtNode
    BY <1>1, <1>2, HeadTailProperties DEF SpfSorts
  <1>4. f \in Seq(SpfEntry) /\ rt_table \in [RtNode -> SUBSET RtRoute]
    BY <1>2, <1>3 DEF SpfSorts, RtInv, RtTypeOK
  <1>5. \A k \in 1 .. Len(f) : f[k].node # root /\ f[k].hops[0] # RtNoHop
    BY <1>2 DEF SpfRight, SpfRecorded1, SpfHopsRight, SpfRightHops, SpfKnown
  <1>6. \A k \in 1 .. Len(f) : SpfHopsOf(f[k].hops) # {}
    <2>1. 0 \in RtPlace
      BY RtPlaces
    <2>2. \A k \in 1 .. Len(f) : f[k].hops[0] \in SpfHopsOf(f[k].hops)
      BY <1>5, <2>1 DEF SpfHopsOf
    <2>3. QED
      BY <2>2
  <1>7. FwInstalls(ClearTable(rt_table[root]), f, f)
    BY <1>4, <1>6, FwInstallsFirst
  <1>8. rt_table'[root] = ClearTable(rt_table[root])
        /\ \A m \in RtNode : m # root => rt_table'[m] = rt_table[m]
    BY <1>1, <1>3, <1>4
  <1>9. spf_current' \subseteq RtNode /\ FwFollowing'
    BY <1>1, <1>3, <1>8, FwOtherTables
  <1>10. FwInstalling'
    BY <1>1, <1>5, <1>7, <1>8 DEF FwInstalling
  <1>11. QED
    BY <1>9, <1>10 DEF FwTables

\* What is installed is a path to another node.
LEMMA FwInstallTables ==
    ASSUME RtInv, SpfGood, FwTables, SpfInstall
    PROVE  /\ FwTables' /\ Head(spf_roots) \in RtNode /\ Head(spf_roots) \notin spf_current
           /\ \/ UNCHANGED rtVars
              \/ \E m \in RtNode \ {Head(spf_roots)} : \E hop \in RtHop :
                   InstallRoute(Head(spf_roots), <<m, 32>>, hop)
  <1> DEFINE root == Head(spf_roots)
             f == spf_results[root]
             T == rt_table[root]
             left == spf_uninstalled
  <1>1. /\ spf_phase = "install" /\ left # <<>>
        /\ UNCHANGED <<spf_cost, spf_up, spf_results, spf_phase, spf_roots, spf_current>>
    BY DEF SpfInstall, SpfRunning, spfConfigVars, spfDataVars
  <1>2. SpfSorts
    BY DEF SpfGood, SpfInv
  <1>3. root \in RtNode
    BY <1>1, <1>2, HeadTailProperties DEF SpfSorts
  <1>4. /\ f \in Seq(SpfEntry) /\ rt_table \in [RtNode -> SUBSET RtRoute] /\ RtTableOK(T)
    BY <1>2, <1>3 DEF SpfSorts, RtInv, RtTypeOK
  <1>5. /\ root \notin spf_current /\ FwInstalls(T, f, left)
        /\ \A k \in 1 .. Len(f) : f[k].node # root
    BY <1>1 DEF FwTables, FwInstalling
  <1>6. left \in Seq(SpfEntry) /\ 1 \in 1 .. Len(left) /\ Head(left) = left[1]
    BY <1>1, <1>5, LenProperties, EmptySeq DEF FwInstalls
  <1> HIDE DEF left
  <1>7. spf_current' = spf_current \ {root}
    BY <1>1, <1>5
  <1>8. ASSUME NEW U, NEW l, rt_table' = [rt_table EXCEPT ![root] = U], FwInstalls(U, f, l),
               spf_uninstalled' = l
        PROVE  FwTables'
    <2>1. rt_table'[root] = U /\ \A m \in RtNode : m # root => rt_table'[m] = rt_table[m]
      BY <1>3, <1>4, <1>8
    <2>2. spf_current' \subseteq RtNode /\ FwFollowing'
      BY <1>1, <1>3, <1>7, <2>1, FwOtherTables
    <2>3. FwInstalling'
      BY <1>1, <1>5, <1>8, <2>1 DEF FwInstalling
    <2>4. QED
      BY <2>2, <2>3 DEF FwTables
  <1> DEFINE hops == {k \in RtPlace : left[1].hops[k] # RtNoHop}
  <1>9. CASE hops = {} /\ spf_uninstalled' = Tail(left) /\ UNCHANGED rtVars
    <2>1. SpfHopsOf(left[1].hops) = {}
      BY <1>9 DEF SpfHopsOf
    <2>2. FwInstalls(T, f, Tail(left))
      BY <1>1, <1>5, <2>1, FwInstallsNone DEF left
    <2>3. rt_table' = [rt_table EXCEPT ![root] = T]
      BY <1>4, <1>9 DEF rtVars
    <2>4. QED
      BY <1>3, <1>5, <1>8, <1>9, <2>2, <2>3
  <1>10. ASSUME NEW k \in hops,
                InstallRoute(root, <<left[1].node, 32>>,
                              [gw |-> RtPeer[left[1].hops[k]], oif |-> left[1].hops[k]]),
                spf_uninstalled' = [left EXCEPT ![1].hops[k] = RtNoHop]
         PROVE  /\ FwTables' /\ root \notin spf_current
                /\ \E m \in RtNode \ {root} : \E hop \in RtHop :
                     InstallRoute(root, <<m, 32>>, hop)
    <2> DEFINE o == left[1].hops[k]
               hop == [gw |-> RtPeer[o], oif |-> o]
               dest == <<left[1].node, 32>>
               U == AddRoute(T, dest, hop)
               l == [left EXCEPT ![1].hops[k] = RtNoHop]
    <2>1. k \in RtPlace /\ left[1].hops[k] # RtNoHop
      BY <1>10
    <2>2. o \in RtIntf /\ FwInstalls(U, f, l)
      BY <1>1, <1>4, <1>5, <2>1, FwInstallsHop DEF left
    <2>3. hop \in RtHop
      BY <2>2, SpfPeers DEF RtHop
    <2>4. left[1].node \in RtNode
      <3>1. left[1] \in SpfEntry
        BY <1>6, ElementOfSeq
      <3>2. QED
        BY <3>1 DEF SpfEntry
    <2>5. left[1].node # root
      BY <1>5, <1>6 DEF FwInstalls
    <2>6. rt_table' = [rt_table EXCEPT ![root] = U]
      BY <1>10 DEF InstallRoute
    <2>7. spf_uninstalled' = l /\ InstallRoute(root, dest, hop)
      BY <1>10
    <2> HIDE DEF o, hop, U, l
    <2>8. FwTables'
      BY <1>8, <2>2, <2>6, <2>7
    <2>9. QED
      BY <1>5, <2>3, <2>4, <2>5, <2>7, <2>8
  <1>11. \/ hops = {} /\ spf_uninstalled' = Tail(left) /\ UNCHANGED rtVars
         \/ \E k \in hops :
              /\ InstallRoute(root, <<left[1].node, 32>>,
                              [gw |-> RtPeer[left[1].hops[k]], oif |-> left[1].hops[k]])
              /\ spf_uninstalled' = [left EXCEPT ![1].hops[k] = RtNoHop]
    BY <1>6 DEF SpfInstall, left
  <1>12. QED
    BY <1>3, <1>5, <1>9, <1>10, <1>11

\* When nothing is left, the table follows.
LEMMA FwFinishTables ==
    ASSUME RtInv, SpfGood, FwTables, SpfFinish
    PROVE  FwTables' /\ Head(spf_roots) \in RtNode /\ Head(spf_roots) \notin spf_current
  <1> DEFINE root == Head(spf_roots)
             f == spf_results[root]
  <1>1. /\ spf_phase = "install" /\ spf_uninstalled = <<>> /\ spf_phase' = "idle"
        /\ spf_current' = spf_current \cup {root}
        /\ rt_table' = rt_table /\ spf_cost' = spf_cost /\ spf_up' = spf_up
    BY DEF SpfFinish, SpfRunning, rtVars, spfConfigVars
  <1>2. SpfSorts /\ SpfCorrect
    BY DEF SpfGood, SpfInv
  <1>3. root \in RtNode
    BY <1>1, <1>2, HeadTailProperties DEF SpfSorts
  <1>4. f \in Seq(SpfEntry)
    BY <1>2, <1>3 DEF SpfSorts
  <1>5. /\ root \notin spf_current /\ FwInstalls(rt_table[root], f, <<>>)
        /\ \A k \in 1 .. Len(f) : f[k].node # root
    BY <1>1 DEF FwTables, FwInstalling
  <1>6. SpfShortest(SpfBi, spf_cost, root, f)
    BY <1>1, <1>2 DEF SpfCorrect, SpfBi
  <1>7. Len(<<>>) = 0 /\ 1 .. 0 = {}
    OBVIOUS
  <1>8. FwOnlyFrom(rt_table[root], f) /\ \A k \in 1 .. Len(f) : FwHasRoute(rt_table[root], f[k].node)
    BY <1>5, <1>7 DEF FwInstalls
  <1>9. FwFollows(SpfBi, spf_cost, root, rt_table[root], f)
    BY <1>4, <1>5, <1>6, <1>8 DEF FwFollows, FwPaths
  <1>10. SpfBi' = SpfBi
    BY <1>1 DEF SpfBi, Bidirectional
  <1>11. FwFollowing'
    BY <1>1, <1>9, <1>10 DEF FwTables, FwFollowing
  <1>12. QED
    BY <1>1, <1>3, <1>5, <1>11 DEF FwTables, FwInstalling
\* Every step of SPF: it is one of the routing tables, and the tables stay as
\* they are while all of them are current.
LEMMA FwSpfTables ==
    ASSUME RtInv, SpfGood, FwTables, SpfNext, SpfGood'
    PROVE  /\ FwTables' /\ [RtNext]_rtVars
           /\ spf_current = RtNode /\ spf_current' = RtNode
                => UNCHANGED <<rt_table, rt_touched, spf_cost, spf_up>>
  <1>1. SpfSorts /\ rt_dead' # "recorded"
    BY DEF SpfGood, SpfInv, SpfCorrect
  <1>2. spf_current \subseteq RtNode
    BY DEF FwTables
  <1>3. CASE SpfBegin \/ SpfNbr \/ SpfQueueRoot
    <2>1. /\ UNCHANGED rtVars /\ spf_cost' = spf_cost /\ spf_up' = spf_up
          /\ spf_current' = spf_current
      BY <1>3 DEF SpfBegin, SpfNbr, SpfQueueRoot, spfConfigVars
    <2>2. spf_phase' # "install"
      BY <1>1, <1>3 DEF SpfBegin, SpfNbr, SpfQueueRoot, SpfRunning, SpfSorts
    <2>3. QED
      BY <2>1, <2>2, FwQuietTables DEF rtVars
  <1>4. CASE SpfDequeue
    <2>1. /\ rt_table' = rt_table /\ rt_text' = rt_text /\ rt_touched' = rt_touched
          /\ spf_cost' = spf_cost /\ spf_up' = spf_up
          /\ spf_current' = spf_current /\ spf_phase' = "explore" /\ rt_dead' = rt_dead
      BY <1>1, <1>4 DEF SpfDequeue, spfConfigVars
    <2>2. QED
      BY <2>1, FwQuietTables DEF rtVars
  <1>5. CASE SpfClear
    <2>1. Head(spf_roots) \in RtNode
      BY <1>1, <1>5, HeadTailProperties DEF SpfClear, SpfSorts
    <2>2. ClearRoutes(Head(spf_roots)) /\ spf_current' = spf_current \ {Head(spf_roots)}
      BY <1>5 DEF SpfClear
    <2>3. spf_current' # RtNode /\ RtNext
      BY <2>1, <2>2 DEF RtNext
    <2>4. QED
      BY <1>5, <2>3, FwClearTables
  <1>6. CASE SpfInstall
    <2>1. /\ FwTables' /\ Head(spf_roots) \in RtNode /\ Head(spf_roots) \notin spf_current
          /\ \/ UNCHANGED rtVars
             \/ \E m \in RtNode \ {Head(spf_roots)} : \E hop \in RtHop :
                  InstallRoute(Head(spf_roots), <<m, 32>>, hop)
      BY <1>6, FwInstallTables
    <2>2. spf_current # RtNode
      BY <2>1
    <2>3. [RtNext]_rtVars
      BY <2>1 DEF RtNext
    <2>4. QED
      BY <2>1, <2>2, <2>3
  <1>7. CASE SpfFinish
    <2>1. FwTables' /\ Head(spf_roots) \in RtNode /\ Head(spf_roots) \notin spf_current
      BY <1>7, FwFinishTables
    <2>2. spf_current # RtNode /\ UNCHANGED rtVars
      BY <1>7, <2>1 DEF SpfFinish
    <2>3. QED
      BY <2>1, <2>2
  <1>8. CASE (\E n \in SpfRuns : RunSpf(<<n>>)) \/ RunSpf(SpfOrder)
    <2>1. PICK roots : RunSpf(roots)
      BY <1>8
    <2>2. /\ UNCHANGED rtVars /\ spf_cost' = spf_cost /\ spf_up' = spf_up
          /\ spf_current' = spf_current /\ spf_phase' = spf_phase /\ spf_roots = <<>>
      BY <2>1 DEF RunSpf, SpfIdle, spfConfigVars
    <2>3. spf_phase' # "install"
      BY <1>1, <2>2 DEF SpfSorts
    <2>4. QED
      BY <2>2, <2>3, FwQuietTables DEF rtVars
  <1>9. CASE \/ \E i \in SpfTouched, cost \in SpfMetrics : ConfigIntf(i, cost, spf_up[i])
             \/ \E i \in SpfTouched : ConfigIntf(i, spf_cost[i[2]], ~spf_up[i])
    <2>1. PICK i \in SpfTouched : \E cost : \E up : ConfigIntf(i, cost, up)
      BY <1>9
    <2>2. /\ UNCHANGED rtVars /\ spf_current' = {} /\ spf_phase' = spf_phase /\ spf_roots = <<>>
      BY <2>1 DEF ConfigIntf, SpfIdle, spfLoopVars
    <2>3. spf_phase' # "install"
      BY <1>1, <2>2 DEF SpfSorts
    <2>4. RtNode # {}
      BY SpfAssumption DEF RtIntf
    <2>5. FwTables'
      BY <2>2, <2>3 DEF FwTables, FwInstalling, FwFollowing
    <2>6. QED
      BY <2>2, <2>4, <2>5
  <1>10. QED
    BY <1>3, <1>4, <1>5, <1>6, <1>7, <1>8, <1>9 DEF SpfNext

\* A routing command changes the table of its node, or none.
LEMMA FwConfigTables ==
    ASSUME RtInv, SpfGood, FwTables, NEW n \in RtNode, FwConfig(n)
    PROVE  FwTables' /\ RtNext /\ rt_dead' # "recorded" /\ spf_current' = spf_current \ {n}
  <1>1. /\ SpfIdle /\ spf_current' = spf_current \ {n}
        /\ UNCHANGED <<spf_cost, spf_up, spfDataVars, spfLoopVars>>
    BY DEF FwConfig
  <1>2. SpfSorts /\ rt_table \in [RtNode -> SUBSET RtRoute]
    BY DEF SpfGood, SpfInv, RtInv, RtTypeOK
  <1>3. spf_phase' # "install"
    BY <1>1, <1>2 DEF SpfSorts, SpfIdle, spfLoopVars
  <1>4. \A c \in FwRoutes : c.dest \in RtPrefix /\ c.gw \in RtIntf /\ c.link \in RtLink
    BY FwAssumption
  <1>5. \/ \E c \in FwRoutes : ConfigRoute(n, c.dest, c.gw, c.link)
        \/ \E c \in FwRoutes : ConfigRouteRefused(n, c.link)
        \/ \E c \in FwRoutes : ConfigDirectRoute(n, c.dest)
        \/ \E c \in FwRoutes : DeleteRoute(n, c.dest)
    BY DEF FwConfig
  <1>6. RtNext
    BY <1>4, <1>5 DEF RtNext
  <1>7. rt_dead' # "recorded" /\ \A m \in RtNode : m # n => rt_table'[m] = rt_table[m]
    <2>1. CASE \E c \in FwRoutes : ConfigRoute(n, c.dest, c.gw, c.link)
      BY <1>2, <2>1 DEF ConfigRoute
    <2>2. CASE \E c \in FwRoutes : ConfigRouteRefused(n, c.link)
      BY <2>2 DEF ConfigRouteRefused
    <2>3. CASE \E c \in FwRoutes : ConfigDirectRoute(n, c.dest)
      BY <1>2, <2>3 DEF ConfigDirectRoute
    <2>4. CASE \E c \in FwRoutes : DeleteRoute(n, c.dest)
      BY <1>2, <2>4 DEF DeleteRoute
    <2>5. QED
      BY <1>5, <2>1, <2>2, <2>3, <2>4
  <1>8. spf_current' \subseteq RtNode /\ FwFollowing'
    BY <1>1, <1>7, FwOtherTables
  <1>9. QED
    BY <1>1, <1>3, <1>6, <1>7, <1>8 DEF FwTables, FwInstalling

-----------------------------------------------------------------------------
(* Packets.                                                                *)

\* The next hop in use is one, and what it names is an interface or nothing.
LEMMA FwActive ==
    ASSUME RtInv, NEW n \in RtNode, NEW r \in rt_table[n], ~r.is_direct
    PROVE  /\ r.nxthop_idx \in RtPlace /\ ActiveNexthop(r) \in RtHop
           /\ ActiveNexthop(r) # RtNoHop
           /\ OutIntf(n, ActiveNexthop(r)) \in RtIntf \cup {RtNoHop}
  <1>1. r \in RtRoute /\ RtGood(r)
    BY DEF RtInv, RtTableOK
  <1>2. RtPacked(r) /\ r.nxthop_idx \in RtPlace /\ r.nexthops \in [RtPlace -> RtHop \cup {RtNoHop}]
    BY <1>1, RtGoodPacked DEF RtRoute, RtHops
  <1>3. ActiveNexthop(r) \in RtHop /\ ActiveNexthop(r) # RtNoHop
    BY <1>2 DEF RtPacked, ActiveNexthop
  <1> DEFINE hop == ActiveNexthop(r)
  <1> HIDE DEF hop
  <1>4. hop \in RtHop
    BY <1>3 DEF hop
  <1>5. hop.oif \in RtIntf \cup {RtText}
    BY <1>4 DEF RtHop
  <1>6. OutIntf(n, hop) \in RtIntf \cup {RtNoHop}
    BY <1>5 DEF OutIntf
  <1>7. QED
    BY <1>2, <1>3, <1>6 DEF hop

LEMMA FwSendToOK ==
    ASSUME NEW oif \in RtIntf, NEW gw, NEW pkt \in FwPacket, pkt.ttl # 0, FwSendTo(oif, gw, pkt)
    PROVE  FwPacketOK'
  <1>1. CASE fw_pkt' = RtNoHop
    BY <1>1 DEF FwPacketOK
  <1>2. CASE gw = RtPeer[oif] /\ fw_pkt' = [pkt EXCEPT !.at = gw[1]]
    <2>1. gw[1] \in RtNode
      BY <1>2, SpfPeers
    <2>2. fw_pkt' \in FwPacket /\ fw_pkt'.ttl = pkt.ttl
      BY <1>2, <2>1 DEF FwPacket
    <2>3. QED
      BY <2>2 DEF FwPacketOK
  <1>3. QED
    BY <1>1, <1>2 DEF FwSendTo, FwSend, FwEnd

LEMMA FwViaOK ==
    ASSUME RtInv, NEW n \in RtNode, NEW r, NEW pkt \in FwPacket, pkt.ttl # 0, FwVia(n, r, pkt)
    PROVE  FwPacketOK'
  <1>1. r \in rt_table[n] /\ ~r.is_direct
    BY DEF FwVia, UseRoute
  <1>2. OutIntf(n, ActiveNexthop(r)) \in RtIntf \cup {RtNoHop}
    BY <1>1, FwActive
  <1>3. CASE fw_pkt' = RtNoHop
    BY <1>3 DEF FwPacketOK
  <1>4. CASE /\ OutIntf(n, ActiveNexthop(r)) # RtNoHop
             /\ FwSendTo(OutIntf(n, ActiveNexthop(r)), ActiveNexthop(r).gw, pkt)
    BY <1>2, <1>4, FwSendToOK
  <1>5. QED
    BY <1>3, <1>4 DEF FwVia, FwEnd

LEMMA FwPacketStepOK ==
    ASSUME RtInv, FwPacketOK,
           FwReceive \/ FwLose \/ \E ping \in FwPings : FwPing(ping[1], ping[2], ping[3])
    PROVE  FwPacketOK'
  <1>0. FwTtl \in Nat /\ FwTtl # 0
    BY FwAssumption
  <1>1. CASE FwLose \/ fw_pkt' = RtNoHop
    BY <1>1 DEF FwLose, FwEnd, FwPacketOK
  <1>2. CASE FwReceive /\ fw_pkt' # RtNoHop
    <2>1. fw_pkt \in FwPacket /\ fw_pkt.ttl # 0 /\ fw_pkt.at \in RtNode
      BY <1>2 DEF FwPacketOK, FwPacket, FwReceive
    <2>2. \/ FwDeliver(fw_pkt)
          \/ fw_pkt.ttl # 1 /\ \E r : FwVia(fw_pkt.at, r, [fw_pkt EXCEPT !.ttl = @ - 1])
      <3>1. \A fate : ~FwEnd(fate)
        BY <1>2 DEF FwEnd
      <3>2. \/ \E r : FwDeliver(fw_pkt)
            \/ \E r : fw_pkt.ttl # 1 /\ FwVia(fw_pkt.at, r, [fw_pkt EXCEPT !.ttl = @ - 1])
        BY <1>2, <3>1 DEF FwReceive
      <3>3. QED
        BY <3>2
    <2>3. CASE FwDeliver(fw_pkt)
      <3>1. /\ fw_pkt.inner # RtNoHop
            /\ fw_pkt' = [fw_pkt EXCEPT !.dst = fw_pkt.inner, !.inner = RtNoHop, !.ttl = FwTtl]
        BY <1>2, <2>3 DEF FwDeliver, FwSend, FwEnd
      <3>2. fw_pkt' = [at |-> fw_pkt.at, dst |-> fw_pkt.inner, ttl |-> FwTtl, inner |-> RtNoHop]
        BY <2>1, <3>1 DEF FwPacket
      <3>3. fw_pkt.at \in RtNode /\ fw_pkt.inner \in RtAddr /\ FwTtl \in 0 .. FwTtl
        BY <1>0, <2>1, <3>1 DEF FwPacket
      <3>4. fw_pkt' \in FwPacket
        BY <3>2, <3>3 DEF FwPacket
      <3>5. fw_pkt'.ttl = FwTtl
        BY <3>2
      <3>6. QED
        BY <1>0, <3>4, <3>5 DEF FwPacketOK
    <2>4. CASE fw_pkt.ttl # 1 /\ \E r : FwVia(fw_pkt.at, r, [fw_pkt EXCEPT !.ttl = @ - 1])
      <3> DEFINE pkt == [fw_pkt EXCEPT !.ttl = @ - 1]
      <3>1. pkt \in FwPacket /\ pkt.ttl # 0
        BY <1>0, <2>1, <2>4 DEF FwPacket
      <3>2. PICK r : FwVia(fw_pkt.at, r, pkt)
        BY <2>4
      <3> HIDE DEF pkt
      <3>3. QED
        BY <2>1, <3>1, <3>2, FwViaOK
    <2>5. QED
      BY <2>2, <2>3, <2>4
  <1>3. CASE (\E ping \in FwPings : FwPing(ping[1], ping[2], ping[3])) /\ fw_pkt' # RtNoHop
    <2>1. PICK ping \in FwPings : FwPing(ping[1], ping[2], ping[3])
      BY <1>3
    <2>2. ping[1] \in RtNode /\ ping[2] \in RtAddr /\ ping[3] \in RtNode \cup {RtNoHop}
      BY FwAssumption
    <2> DEFINE pkt == PingPacket(ping[1], ping[2], ping[3])
    <2>3. pkt \in FwPacket /\ pkt.ttl # 0
      BY <1>0, <2>2 DEF PingPacket, FwPacket, RtAddr
    <2>4. \/ FwSend(pkt)
          \/ \E oif \in RtIntf : FwSendTo(oif, ping[2], pkt)
          \/ \E r : FwVia(ping[1], r, pkt)
      BY <1>3, <2>1 DEF FwPing, FwEnd, MatchingSubnetIntf
    <2> HIDE DEF pkt
    <2>5. CASE FwSend(pkt)
      BY <2>3, <2>5 DEF FwSend, FwPacketOK
    <2>6. CASE \E oif \in RtIntf : FwSendTo(oif, ping[2], pkt)
      BY <2>3, <2>6, FwSendToOK
    <2>7. CASE \E r : FwVia(ping[1], r, pkt)
      BY <2>2, <2>3, <2>7, FwViaOK
    <2>8. QED
      BY <2>4, <2>5, <2>6, <2>7
  <1>4. QED
    BY <1>1, <1>2, <1>3

-----------------------------------------------------------------------------
(* The composition.                                                        *)

LEMMA FwInitBase == FwInit => FwBase
  <1> SUFFICES ASSUME FwInit PROVE FwBase
    OBVIOUS
  <1>1. RtInv /\ SpfGood
    BY RtInitInv, SpfInitGood DEF FwInit, SpfInit
  <1>2. spf_current = {} /\ spf_phase = "idle" /\ fw_pkt = RtNoHop
    BY DEF FwInit, SpfInit
  <1>3. QED
    BY <1>1, <1>2 DEF FwBase, FwTables, FwInstalling, FwFollowing, FwPacketOK

LEMMA FwStepBase == FwBase /\ [FwNext]_fwVars => FwBase' /\ [RtNext]_rtVars
  <1> SUFFICES ASSUME FwBase, [FwNext]_fwVars PROVE FwBase' /\ [RtNext]_rtVars
    OBVIOUS
  <1>1. RtInv /\ SpfGood /\ FwTables /\ FwPacketOK /\ SpfSorts
    BY DEF FwBase, SpfGood, SpfInv
  <1>2. CASE FwSpf
    <2>1. SpfNext /\ fw_pkt' = fw_pkt
      BY <1>2 DEF FwSpf
    <2>2. SpfGood'
      BY <1>1, <2>1, SpfStepGood
    <2>3. FwTables' /\ [RtNext]_rtVars
      BY <1>1, <2>1, <2>2, FwSpfTables
    <2>4. RtInv'
      BY <1>1, <2>3, RtInductive
    <2>5. QED
      BY <1>1, <2>1, <2>2, <2>3, <2>4 DEF FwBase, FwPacketOK
  <1>3. CASE \E n \in {c.node : c \in FwRoutes} : FwConfig(n)
    <2>1. PICK n \in RtNode : FwConfig(n)
      BY <1>3, FwAssumption
    <2>2. FwTables' /\ RtNext /\ rt_dead' # "recorded"
      BY <1>1, <2>1, FwConfigTables
    <2>3. UNCHANGED <<spf_cost, spf_up, spfDataVars, spfLoopVars>> /\ fw_pkt' = fw_pkt
      BY <2>1 DEF FwConfig
    <2>4. SpfGood'
      BY <1>1, <2>2, <2>3, FwSpfSame
    <2>5. RtInv'
      BY <1>1, <2>2, RtInductive
    <2>6. QED
      BY <1>1, <2>2, <2>3, <2>4, <2>5 DEF FwBase, FwPacketOK
  <1>4. ASSUME FwUses, UNCHANGED <<spfConfigVars, spfDataVars, spfLoopVars, spf_current>>,
               FwPacketOK'
        PROVE  FwBase' /\ [RtNext]_rtVars
    <2>1. FwTables'
      BY <1>1, <1>4, FwUsesTables
    <2>2. [RtNext]_rtVars
      BY <1>4 DEF FwUses, RtNext
    <2>3. RtInv'
      BY <1>1, <2>2, RtInductive
    <2>4. rt_dead' # "recorded"
      BY <1>1, <1>4 DEF FwUses, UseRoute, rtVars, SpfGood, SpfCorrect
    <2>5. UNCHANGED <<spf_cost, spf_up, spfDataVars, spfLoopVars>>
      BY <1>4 DEF spfConfigVars
    <2>6. SpfGood'
      BY <1>1, <2>4, <2>5, FwSpfSame
    <2>7. QED
      BY <1>4, <2>1, <2>2, <2>3, <2>6 DEF FwBase
  <1>5. CASE FwReceive \/ FwLose \/ \E ping \in FwPings : FwPing(ping[1], ping[2], ping[3])
    BY <1>1, <1>4, <1>5, FwPacketSteps, FwPacketStepOK
  <1>6. CASE UNCHANGED fwVars
    <2>1. UNCHANGED <<rtVars, spfConfigVars, spfDataVars, spfLoopVars, spf_current, fw_pkt>>
      BY <1>6 DEF fwVars, spfVars
    <2>2. FwUses /\ FwPacketOK'
      BY <1>1, <2>1 DEF FwUses, FwPacketOK
    <2>3. QED
      BY <1>4, <2>1, <2>2
  <1>7. QED
    BY <1>2, <1>3, <1>5, <1>6 DEF FwNext

-----------------------------------------------------------------------------
(* The way of a packet while the tables follow from the topology.          *)

\* The route to d is the only one that its address finds, unless the address
\* is, as text, the beginning of another.
LEMMA FwLookup ==
    ASSUME NEW T, RtTableOK(T), NEW d \in RtNode, \A m \in RtNode : <<d, m>> \notin RtStarts,
           NEW r \in T, r.dest = <<d, 32>>
    PROVE  LookupLpm(T, d) = {r}
  <1>1. \A q \in T : q.dest \in RtPrefix
    BY DEF RtTableOK, RtRoute
  <1>2. \A q \in T : q.dest[2] \in {24, 32} /\ q.dest = <<q.dest[1], q.dest[2]>>
    BY <1>1 DEF RtPrefix
  <1>3. \A x : <<d, x>> \notin RtStarts
    BY RtAssumption
  <1>4. ApplyMask(d, 32) = d
    BY DEF ApplyMask
  <1>5. r \in RtMatches(T, d)
    BY <1>4 DEF RtMatches
  <1>6. \A q \in RtMatches(T, d) : q \in T /\ q.dest[2] <= 32
    BY <1>2 DEF RtMatches
  <1>7. r \in LookupLpm(T, d)
    BY <1>5, <1>6 DEF LookupLpm
  <1>8. ASSUME NEW q \in LookupLpm(T, d)
        PROVE  q = r
    <2>1. q \in RtMatches(T, d) /\ r.dest[2] <= q.dest[2]
      BY <1>5 DEF LookupLpm
    <2>2. q \in T /\ q.dest[2] = 32
      BY <1>2, <1>6, <2>1
    <2>3. q.dest[1] = d
      BY <1>3, <1>4, <2>1, <2>2 DEF RtMatches
    <2>4. QED
      BY <1>2, <2>2, <2>3 DEF RtTableOK
  <1>9. QED
    BY <1>7, <1>8

\* A loopback address that every router finds.
FwSure(d) ==
    /\ d \in RtNode
    /\ <<d, <<d, 32>>>> \notin rt_touched
    /\ \A m \in RtNode : <<d, m>> \notin RtStarts

\* The packet's ttl lasts, as there are fewer nodes nearer to its destination;
\* and the address of the packet inside can be reached from there.
FwNears(F, pkt) ==
    /\ FwSure(pkt.dst) /\ FwReaches(F, pkt.at, pkt.dst)
    /\ Cardinality(FwNearer(F, pkt.at, pkt.dst)) < pkt.ttl
    /\ pkt.inner # RtNoHop => FwSure(pkt.inner) /\ FwReaches(F, pkt.dst, pkt.inner)

FwOnWay ==
    fw_calm =>
        /\ spf_current = RtNode
        /\ fw_fate \in {"none", "delivered", "lost"}
        /\ fw_pkt # RtNoHop =>
             \E F : FwGuide(SpfBi, spf_cost, rt_table, F) /\ FwNears(F, fw_pkt)

\* If all the tables are current, there is a guide.
LEMMA FwGuided ==
    ASSUME FwTables, spf_current = RtNode
    PROVE  \E F : FwGuide(SpfBi, spf_cost, rt_table, F)
  <1> DEFINE F == [n \in RtNode |-> CHOOSE f : FwFollows(SpfBi, spf_cost, n, rt_table[n], f)]
  <1>1. \A n \in RtNode : \E f : FwFollows(SpfBi, spf_cost, n, rt_table[n], f)
    BY DEF FwTables, FwFollowing
  <1>2. \A n \in RtNode : FwFollows(SpfBi, spf_cost, n, rt_table[n], F[n])
    BY <1>1
  <1>3. FwGuide(SpfBi, spf_cost, rt_table, F)
    BY <1>2 DEF FwGuide
  <1>4. QED
    BY <1>3

\* A route that leads to d is taken over a usable interface, to a router that
\* is nearer.
LEMMA FwViaNearer ==
    ASSUME RtInv, SpfCosts, NEW F, FwGuide(SpfBi, spf_cost, rt_table, F),
           NEW n \in RtNode, NEW d \in RtNode, NEW r \in rt_table[n], ~r.is_direct,
           r.dest = <<d, 32>>
    PROVE  /\ d # n /\ FwReaches(F, n, d)
           /\ \E o \in SpfBi :
                /\ OutIntf(n, ActiveNexthop(r)) = o /\ ActiveNexthop(r).gw = RtPeer[o]
                /\ o # RtNoHop /\ Bidirectional(o)
                /\ RtPeer[o][1] \in RtNode /\ FwReaches(F, RtPeer[o][1], d)
                /\ Cardinality(FwNearer(F, RtPeer[o][1], d)) < Cardinality(FwNearer(F, n, d))
  <1>1. r.nxthop_idx \in RtPlace /\ r.nexthops[r.nxthop_idx] # RtNoHop
    BY FwActive DEF ActiveNexthop
  <1>2. SpfBi \in SUBSET RtIntf /\ spf_cost \in [RtLink -> 1 .. SpfMaxMetric]
    BY DEF SpfBi, SpfCosts
  <1>3. FwTowards(SpfBi, F, n, d, r.nexthops[r.nxthop_idx])
    BY <1>1, <1>2, FwHopNearer
  <1>4. PICK o \in SpfBi :
          /\ r.nexthops[r.nxthop_idx] = [gw |-> RtPeer[o], oif |-> o]
          /\ FwReaches(F, RtPeer[o][1], d)
          /\ FwDist(F, RtPeer[o][1], d) < FwDist(F, n, d)
    BY <1>3 DEF FwTowards
  <1>5. o \in RtIntf /\ Bidirectional(o) /\ o # RtText /\ o # RtNoHop
    BY RtAssumption DEF SpfBi, RtIntf
  <1>6. ActiveNexthop(r).gw = RtPeer[o] /\ OutIntf(n, ActiveNexthop(r)) = o
    BY <1>4, <1>5 DEF ActiveNexthop, OutIntf
  <1>7. RtPeer[o][1] \in RtNode
    BY <1>5, SpfPeers
  <1>8. Cardinality(FwNearer(F, RtPeer[o][1], d)) < Cardinality(FwNearer(F, n, d))
    BY <1>2, <1>3, <1>4, <1>7, FwFewer DEF FwTowards
  <1>9. QED
    BY <1>3, <1>4, <1>5, <1>6, <1>7, <1>8 DEF FwTowards
\* The table T of n has one route for d: its own, or one with next hops.
FwOneRoute(T, n, d, r) ==
    /\ r \in T /\ r.dest = <<d, 32>> /\ LookupLpm(T, d) = {r}
    /\ r.is_direct <=> n = d

LEMMA FwFound ==
    ASSUME RtInv, SpfCosts, NEW F, FwGuide(SpfBi, spf_cost, rt_table, F),
           NEW n \in RtNode, NEW d, FwSure(d), FwReaches(F, n, d)
    PROVE  \E r : FwOneRoute(rt_table[n], n, d, r)
  <1>1. /\ RtTableOK(rt_table[n]) /\ RtTableOK(rt_table[d]) /\ RtOwnKept
        /\ d \in RtNode /\ <<d, <<d, 32>>>> \notin rt_touched
        /\ \A m \in RtNode : <<d, m>> \notin RtStarts
    BY DEF RtInv, FwSure
  <1>2. CASE n = d
    <2> DEFINE own == NewRoute(<<d, 32>>, TRUE, NoHops)
    <2>1. own \in OwnSubnets(d) /\ own.dest = <<d, 32>> /\ own.is_direct
      BY DEF OwnSubnets, NewRoute
    <2> HIDE DEF own
    <2>2. own \in rt_table[d]
      BY <1>1, <2>1 DEF RtOwnKept
    <2>3. LookupLpm(rt_table[n], d) = {own}
      BY <1>1, <1>2, <2>1, <2>2, FwLookup
    <2>4. QED
      BY <1>2, <2>1, <2>2, <2>3 DEF FwOneRoute
  <1>3. CASE n # d
    <2>1. FwFollows(SpfBi, spf_cost, n, rt_table[n], F[n])
      BY DEF FwGuide
    <2>2. F[n] \in Seq(SpfEntry)
      BY <2>1 DEF FwFollows, FwPaths
    <2>3. \E k \in 1 .. Len(F[n]) : F[n][k].node = d
      BY <1>3, <2>2, FwReachesIs
    <2>4. FwHasRoute(rt_table[n], d)
      BY <2>1, <2>3 DEF FwFollows
    <2>5. PICK r \in rt_table[n] : r.dest = <<d, 32>> /\ ~r.is_direct
      BY <2>4 DEF FwHasRoute
    <2>6. LookupLpm(rt_table[n], d) = {r}
      BY <1>1, <2>5, FwLookup
    <2>7. QED
      BY <1>3, <2>5, <2>6 DEF FwOneRoute
  <1>4. QED
    BY <1>2, <1>3

\* Sent on by n, the packet comes to a router that is nearer.
LEMMA FwSentOn ==
    ASSUME RtInv, SpfCosts, NEW F, FwGuide(SpfBi, spf_cost, rt_table, F),
           NEW n \in RtNode, NEW pkt \in FwPacket, NEW r \in rt_table[n], ~r.is_direct,
           FwSure(pkt.dst), r.dest = <<pkt.dst, 32>>, FwVia(n, r, pkt),
           Cardinality(FwNearer(F, n, pkt.dst)) <= pkt.ttl,
           pkt.inner # RtNoHop => FwSure(pkt.inner) /\ FwReaches(F, pkt.dst, pkt.inner)
    PROVE  fw_fate' = "none" /\ FwNears(F, fw_pkt)'
  <1> DEFINE d == pkt.dst
  <1>1. d \in RtNode /\ pkt.ttl \in Nat
    BY FwAssumption DEF FwSure, FwPacket
  <1>2. FwReaches(F, n, d)
    BY <1>1, FwViaNearer
  <1>3. PICK o \in SpfBi :
          /\ OutIntf(n, ActiveNexthop(r)) = o /\ ActiveNexthop(r).gw = RtPeer[o]
          /\ o # RtNoHop /\ Bidirectional(o)
          /\ RtPeer[o][1] \in RtNode /\ FwReaches(F, RtPeer[o][1], d)
          /\ Cardinality(FwNearer(F, RtPeer[o][1], d)) < Cardinality(FwNearer(F, n, d))
    BY <1>1, FwViaNearer
  <1> DEFINE m == RtPeer[o][1]
  <1>4. fw_pkt' = [pkt EXCEPT !.at = m] /\ fw_fate' = "none" /\ rt_touched' = rt_touched
    BY <1>3 DEF FwVia, FwSendTo, FwSend, UseRoute
  <1> HIDE DEF m
  <1>5. m \in RtNode /\ FwReaches(F, m, d)
        /\ Cardinality(FwNearer(F, m, d)) < Cardinality(FwNearer(F, n, d))
    BY <1>3 DEF m
  <1>6. fw_pkt'.at = m /\ fw_pkt'.dst = d /\ fw_pkt'.ttl = pkt.ttl /\ fw_pkt'.inner = pkt.inner
    BY <1>4 DEF FwPacket
  <1>7. /\ Cardinality(FwNearer(F, n, d)) \in Nat /\ Cardinality(FwNearer(F, m, d)) \in Nat
    <2>1. SpfBi \in SUBSET RtIntf /\ spf_cost \in [RtLink -> 1 .. SpfMaxMetric]
      BY DEF SpfBi, SpfCosts
    <2>2. QED
      BY <1>1, <1>2, <1>5, <2>1, FwNearerRange
  <1>8. Cardinality(FwNearer(F, m, d)) < pkt.ttl
    BY <1>1, <1>5, <1>7
  <1>9. \A x : FwSure(x) => FwSure(x)'
    BY <1>4 DEF FwSure
  <1>10. FwNears(F, fw_pkt)'
    BY <1>5, <1>6, <1>8, <1>9 DEF FwNears
  <1>11. QED
    BY <1>4, <1>10
\* Delivered at n, or to go on with what is inside.
LEMMA FwArrived ==
    ASSUME RtInv, SpfCosts, Cardinality(RtNode) <= FwTtl,
           NEW F, FwGuide(SpfBi, spf_cost, rt_table, F),
           NEW pkt \in FwPacket, pkt.at = pkt.dst, FwNears(F, pkt),
           FwDeliver(pkt), UNCHANGED rtVars
    PROVE  /\ fw_fate' \in {"none", "delivered"}
           /\ fw_pkt' # RtNoHop => FwNears(F, fw_pkt)'
  <1>1. CASE pkt.inner = RtNoHop
    BY <1>1 DEF FwDeliver, FwEnd
  <1>2. CASE pkt.inner # RtNoHop
    <2>1. /\ fw_pkt' = [pkt EXCEPT !.dst = pkt.inner, !.inner = RtNoHop, !.ttl = FwTtl]
          /\ fw_fate' = "none" /\ rt_touched' = rt_touched
      BY <1>2 DEF FwDeliver, FwSend, rtVars
    <2>2. /\ fw_pkt'.at = pkt.dst /\ fw_pkt'.dst = pkt.inner /\ fw_pkt'.ttl = FwTtl
          /\ fw_pkt'.inner = RtNoHop
      BY <2>1 DEF FwPacket
    <2>3. FwSure(pkt.dst) /\ FwSure(pkt.inner) /\ FwReaches(F, pkt.dst, pkt.inner)
      BY <1>2 DEF FwNears
    <2>4. pkt.dst \in RtNode /\ pkt.inner \in RtNode
      BY <2>3 DEF FwSure
    <2>5. SpfBi \in SUBSET RtIntf /\ spf_cost \in [RtLink -> 1 .. SpfMaxMetric]
      BY DEF SpfBi, SpfCosts
    <2>6. /\ Cardinality(FwNearer(F, pkt.dst, pkt.inner)) \in Nat
          /\ Cardinality(FwNearer(F, pkt.dst, pkt.inner)) < Cardinality(RtNode)
      BY <2>3, <2>4, <2>5, FwNearerRange
    <2>7. FwTtl \in Nat /\ Cardinality(RtNode) \in Nat
      BY FwAssumption, SpfNodesFinite, FS_CardinalityType
    <2>8. Cardinality(FwNearer(F, pkt.dst, pkt.inner)) < FwTtl
      BY <2>6, <2>7
    <2>9. FwSure(pkt.inner)'
      BY <2>1, <2>3 DEF FwSure
    <2>10. FwNears(F, fw_pkt)'
      BY <2>2, <2>3, <2>8, <2>9 DEF FwNears
    <2>11. QED
      BY <2>1, <2>10
  <1>3. QED
    BY <1>1, <1>2

LEMMA FwReceiveWay ==
    ASSUME RtInv, SpfCosts, FwPacketOK, Cardinality(RtNode) <= FwTtl,
           NEW F, FwGuide(SpfBi, spf_cost, rt_table, F), FwNears(F, fw_pkt), FwReceive
    PROVE  /\ fw_fate' \in {"none", "delivered", "lost"}
           /\ fw_pkt' # RtNoHop => FwNears(F, fw_pkt)'
  <1> DEFINE n == fw_pkt.at
             d == fw_pkt.dst
  <1>1. fw_pkt \in FwPacket /\ fw_pkt # RtNoHop
    BY DEF FwReceive, FwPacketOK
  <1>2. n \in RtNode /\ fw_pkt.ttl \in Nat /\ FwTtl \in Nat
    BY <1>1, FwAssumption DEF FwPacket
  <1>3. /\ FwSure(d) /\ FwReaches(F, n, d) /\ Cardinality(FwNearer(F, n, d)) < fw_pkt.ttl
        /\ fw_pkt.inner # RtNoHop => FwSure(fw_pkt.inner) /\ FwReaches(F, d, fw_pkt.inner)
    BY DEF FwNears
  <1>4. PICK r : FwOneRoute(rt_table[n], n, d, r)
    BY <1>2, <1>3, FwFound
  <1>5. /\ r \in rt_table[n] /\ r.dest = <<d, 32>> /\ LookupLpm(rt_table[n], d) = {r}
        /\ r.is_direct <=> n = d
    BY <1>4 DEF FwOneRoute
  <1>6. CASE n = d
    <2>1. LocalDelivery(n, d)
      BY <1>6 DEF LocalDelivery
    <2>2. FwDeliver(fw_pkt) /\ UNCHANGED rtVars
      BY <1>5, <1>6, <2>1 DEF FwReceive
    <2>3. QED
      BY <1>1, <1>6, <2>2, FwArrived
  <1>7. CASE n # d
    <2>1. d \in RtNode /\ ~r.is_direct
      BY <1>3, <1>5, <1>7 DEF FwSure
    <2>2. PICK o \in SpfBi :
            /\ RtPeer[o][1] \in RtNode /\ FwReaches(F, RtPeer[o][1], d)
            /\ Cardinality(FwNearer(F, RtPeer[o][1], d)) < Cardinality(FwNearer(F, n, d))
      BY <1>2, <1>5, <2>1, FwViaNearer
    <2>3. SpfBi \in SUBSET RtIntf /\ spf_cost \in [RtLink -> 1 .. SpfMaxMetric]
      BY DEF SpfBi, SpfCosts
    <2>4. /\ Cardinality(FwNearer(F, n, d)) \in Nat
          /\ Cardinality(FwNearer(F, RtPeer[o][1], d)) \in Nat
      BY <1>2, <1>3, <2>1, <2>2, <2>3, FwNearerRange
    <2>5. fw_pkt.ttl # 0 /\ fw_pkt.ttl # 1
          /\ Cardinality(FwNearer(F, n, d)) <= fw_pkt.ttl - 1
      BY <1>2, <1>3, <2>2, <2>4
    <2> DEFINE pkt == [fw_pkt EXCEPT !.ttl = @ - 1]
    <2>6. FwVia(n, r, pkt)
      BY <1>5, <2>1, <2>5 DEF FwReceive
    <2>7. pkt \in FwPacket
      BY <1>1, <1>2, <2>5 DEF FwPacket
    <2>8. pkt.dst = d /\ pkt.inner = fw_pkt.inner /\ pkt.ttl = fw_pkt.ttl - 1
      BY <1>1 DEF FwPacket
    <2> HIDE DEF pkt
    <2>9. fw_fate' = "none" /\ FwNears(F, fw_pkt)'
      BY <1>2, <1>3, <1>5, <2>1, <2>5, <2>6, <2>7, <2>8, FwSentOn
    <2>10. QED
      BY <2>9
  <1>8. QED
    BY <1>6, <1>7

LEMMA FwPingWay ==
    ASSUME RtInv, SpfCosts, Cardinality(RtNode) <= FwTtl,
           NEW F, FwGuide(SpfBi, spf_cost, rt_table, F),
           NEW ping \in FwPings, FwPing(ping[1], ping[2], ping[3]), fw_calm'
    PROVE  /\ spf_current = RtNode
           /\ fw_fate' = "none" /\ FwNears(F, fw_pkt)'
  <1> DEFINE n == ping[1]
             d == ping[2]
             inner == ping[3]
             pkt == PingPacket(n, d, inner)
  <1>1. n \in RtNode /\ d \in RtAddr /\ inner \in RtNode \cup {RtNoHop}
    BY FwAssumption
  <1>2. /\ spf_current = RtNode /\ d \in RtNode /\ FwRouted(n, d)
        /\ inner # RtNoHop => FwRouted(d, inner)
    BY DEF FwPing
  <1>3. pkt \in FwPacket /\ pkt.at = n /\ pkt.dst = d /\ pkt.ttl = FwTtl /\ pkt.inner = inner
    BY <1>1, FwAssumption DEF PingPacket, FwPacket, RtAddr
  <1> HIDE DEF pkt
  <1>4. ASSUME NEW m \in RtNode, NEW a \in RtNode, FwRouted(m, a)
        PROVE  FwSure(a) /\ FwReaches(F, m, a)
    <2>1. FwSure(a)
      BY <1>4 DEF FwRouted, FwSure
    <2>2. CASE a = m
      <3>1. F[m] \in Seq(SpfEntry)
        BY DEF FwGuide, FwFollows, FwPaths
      <3>2. QED
        BY <2>1, <2>2, <3>1, FwReachesIs
    <2>3. CASE a # m
      <3>1. PICK r \in rt_table[m] : r.dest = <<a, 32>> /\ ~r.is_direct
        BY <1>4, <2>3 DEF FwRouted
      <3>2. QED
        BY <2>1, <3>1, FwViaNearer
    <2>4. QED
      BY <2>2, <2>3
  <1>5. /\ FwSure(d) /\ FwReaches(F, n, d)
        /\ inner # RtNoHop => FwSure(inner) /\ FwReaches(F, d, inner)
    BY <1>1, <1>2, <1>4
  <1>6. /\ Cardinality(FwNearer(F, n, d)) \in Nat
        /\ Cardinality(FwNearer(F, n, d)) < Cardinality(RtNode)
    <2>1. SpfBi \in SUBSET RtIntf /\ spf_cost \in [RtLink -> 1 .. SpfMaxMetric]
      BY DEF SpfBi, SpfCosts
    <2>2. QED
      BY <1>1, <1>2, <1>5, <2>1, FwNearerRange
  <1>7. Cardinality(FwNearer(F, n, d)) < FwTtl /\ Cardinality(FwNearer(F, n, d)) <= FwTtl
    <2>1. FwTtl \in Nat /\ Cardinality(RtNode) \in Nat
      BY FwAssumption, SpfNodesFinite, FS_CardinalityType
    <2>2. QED
      BY <1>6, <2>1
  <1>8. PICK r : FwOneRoute(rt_table[n], n, d, r)
    BY <1>1, <1>5, FwFound
  <1>9. /\ r \in rt_table[n] /\ r.dest = <<d, 32>> /\ LookupLpm(rt_table[n], d) = {r}
        /\ r.is_direct <=> n = d
    BY <1>8 DEF FwOneRoute
  <1>10. CASE n = d
    <2>1. LocalDelivery(n, d)
      BY <1>10 DEF LocalDelivery
    <2>2. FwSend(pkt) /\ UNCHANGED rtVars
      BY <1>9, <1>10, <2>1 DEF FwPing, pkt
    <2>3. fw_pkt' = pkt /\ fw_fate' = "none" /\ rt_touched' = rt_touched
      BY <2>2 DEF FwSend, rtVars
    <2>4. \A x : FwSure(x) => FwSure(x)'
      BY <2>3 DEF FwSure
    <2>5. FwNears(F, fw_pkt)'
      BY <1>3, <1>5, <1>7, <2>3, <2>4 DEF FwNears
    <2>6. QED
      BY <1>2, <2>3, <2>5
  <1>11. CASE n # d
    <2>1. ~r.is_direct
      BY <1>9, <1>11
    <2>2. FwVia(n, r, pkt)
      BY <1>9, <2>1 DEF FwPing, pkt
    <2>3. fw_fate' = "none" /\ FwNears(F, fw_pkt)'
      BY <1>1, <1>3, <1>5, <1>7, <1>9, <2>1, <2>2, FwSentOn
    <2>4. QED
      BY <1>2, <2>3
  <1>12. QED
    BY <1>10, <1>11

-----------------------------------------------------------------------------
(* The invariant of calm.                                                  *)

LEMMA FwSpfWay == FwBase /\ FwBase' /\ FwOnWay /\ FwSpf => FwOnWay'
  <1> SUFFICES ASSUME FwBase, FwBase', FwOnWay, FwSpf, fw_calm' PROVE FwOnWay'
    BY DEF FwOnWay
  <1>1. RtInv /\ SpfGood /\ FwTables /\ SpfGood'
    BY DEF FwBase
  <1>2. fw_calm /\ fw_pkt' = fw_pkt /\ fw_pkt # RtNoHop /\ spf_current' = RtNode
        /\ fw_fate' = "none" /\ SpfNext
    BY DEF FwSpf, FwHistory
  <1>3. PICK F : FwGuide(SpfBi, spf_cost, rt_table, F) /\ FwNears(F, fw_pkt)
    BY <1>2 DEF FwOnWay
  <1>4. spf_current = RtNode
    BY <1>2 DEF FwOnWay
  <1>5. UNCHANGED <<rt_table, rt_touched, spf_cost, spf_up>>
    BY <1>1, <1>2, <1>4, FwSpfTables
  <1>6. SpfBi' = SpfBi
    BY <1>5 DEF SpfBi, Bidirectional
  <1>7. FwGuide(SpfBi', spf_cost', rt_table', F)
    BY <1>3, <1>5, <1>6
  <1>8. FwNears(F, fw_pkt)'
    BY <1>2, <1>3, <1>5 DEF FwNears, FwSure
  <1>9. QED
    BY <1>2, <1>7, <1>8 DEF FwOnWay

LEMMA FwPacketWay ==
    ASSUME FwBase, FwBase', FwOnWay, Cardinality(RtNode) <= FwTtl,
           FwReceive \/ FwLose \/ \E ping \in FwPings : FwPing(ping[1], ping[2], ping[3])
    PROVE  FwOnWay'
  <1> SUFFICES ASSUME fw_calm' PROVE FwOnWay'
    BY DEF FwOnWay
  <1>1. RtInv /\ SpfGood /\ FwTables /\ FwPacketOK /\ SpfSorts /\ SpfCosts
    BY DEF FwBase, SpfGood, SpfInv, SpfPath
  <1>2. FwUses /\ UNCHANGED <<spfConfigVars, spfDataVars, spfLoopVars, spf_current>>
    BY <1>1, FwPacketSteps
  <1>3. ASSUME NEW F, FwGuide(SpfBi, spf_cost, rt_table, F)
        PROVE  FwGuide(SpfBi, spf_cost, rt_table, F)'
    BY <1>1, <1>2, <1>3, FwUsesTables DEF FwGuide
  <1>4. CASE FwReceive
    <2>1. fw_calm /\ fw_pkt # RtNoHop
      BY <1>4 DEF FwReceive
    <2>2. PICK F : FwGuide(SpfBi, spf_cost, rt_table, F) /\ FwNears(F, fw_pkt)
      BY <2>1 DEF FwOnWay
    <2>3. /\ fw_fate' \in {"none", "delivered", "lost"}
          /\ fw_pkt' # RtNoHop => FwNears(F, fw_pkt)'
      BY <1>1, <1>4, <2>2, FwReceiveWay
    <2>4. spf_current' = RtNode
      BY <1>2, <2>1 DEF FwOnWay
    <2>5. QED
      BY <1>3, <2>2, <2>3, <2>4 DEF FwOnWay
  <1>5. CASE FwLose
    <2>1. fw_calm /\ fw_pkt' = RtNoHop /\ fw_fate' = "lost"
      BY <1>5 DEF FwLose, FwEnd
    <2>2. QED
      BY <1>2, <2>1 DEF FwOnWay
  <1>6. CASE \E ping \in FwPings : FwPing(ping[1], ping[2], ping[3])
    <2>1. PICK ping \in FwPings : FwPing(ping[1], ping[2], ping[3])
      BY <1>6
    <2>2. spf_current = RtNode
      BY <2>1 DEF FwPing
    <2>3. PICK F : FwGuide(SpfBi, spf_cost, rt_table, F)
      BY <1>1, <2>2, FwGuided
    <2>4. fw_fate' = "none" /\ FwNears(F, fw_pkt)'
      BY <1>1, <2>1, <2>3, FwPingWay
    <2>5. QED
      BY <1>2, <1>3, <2>2, <2>3, <2>4 DEF FwOnWay
  <1>7. QED
    BY <1>4, <1>5, <1>6

LEMMA FwStepWay ==
    ASSUME Cardinality(RtNode) <= FwTtl
    PROVE  FwBase /\ FwBase' /\ FwOnWay /\ [FwNext]_fwVars => FwOnWay'
  <1> SUFFICES ASSUME FwBase, FwBase', FwOnWay, [FwNext]_fwVars PROVE FwOnWay'
    OBVIOUS
  <1>1. CASE FwSpf
    BY <1>1, FwSpfWay
  <1>2. CASE \E n \in {c.node : c \in FwRoutes} : FwConfig(n)
    <2>1. PICK n \in RtNode : FwConfig(n)
      BY <1>2, FwAssumption
    <2>2. spf_current' # RtNode /\ FwHistory
      BY <2>1 DEF FwConfig
    <2>3. QED
      BY <2>2 DEF FwHistory, FwOnWay
  <1>3. CASE FwReceive \/ FwLose \/ \E ping \in FwPings : FwPing(ping[1], ping[2], ping[3])
    BY <1>3, FwPacketWay
  <1>4. CASE UNCHANGED fwVars
    <2>1. UNCHANGED <<rt_table, rt_touched, spf_cost, spf_up, spf_current, fw_pkt, fw_fate, fw_calm>>
      BY <1>4 DEF fwVars, spfVars, rtVars, spfConfigVars
    <2>2. SpfBi' = SpfBi
      BY <2>1 DEF SpfBi, Bidirectional
    <2>3. \A F : FwNears(F, fw_pkt) => FwNears(F, fw_pkt)'
      BY <2>1 DEF FwNears, FwSure
    <2>4. QED
      BY <2>1, <2>2, <2>3 DEF FwOnWay
  <1>5. QED
    BY <1>1, <1>2, <1>3, <1>4 DEF FwNext

-----------------------------------------------------------------------------
(* The theorems.                                                           *)

\* The inductive invariant of the composition: the routing tables (RtInv), SPF
\* with its results and counts (SpfGood), tables that agree with the results of
\* the runs they were made by (FwTables), and packets of their type.
THEOREM FwAlwaysBase == FwSafety => []FwBase
  <1>1. FwInit => FwBase
    BY FwInitBase
  <1>2. FwBase /\ [FwNext]_fwVars => FwBase'
    BY FwStepBase
  <1>3. QED
    BY <1>1, <1>2, PTL DEF FwSafety

\* Forwarding, SPF and the routing commands together implement the routing
\* tables as RoutingTable specifies them: no step of spf.c, of ping.c or of the
\* second part of layer3.c does to a table what RtNext does not.  In particular
\* SPF never installs a route to the router itself.
THEOREM FwImplementsRouting == FwSafety => RtSpec
  <1>1. FwInit => RtInit
    BY DEF FwInit, SpfInit
  <1>2. FwBase /\ [FwNext]_fwVars => [RtNext]_rtVars
    BY FwStepBase
  <1>3. QED
    BY <1>1, <1>2, FwAlwaysBase, PTL DEF FwSafety, RtSpec

\* So the tables stay sound while SPF, the CLI and packets change them (the
\* assert of l3_route_get_active_nexthop) ...
THEOREM FwKeepsTablesSound == FwSafety => []RtSound
  BY FwImplementsRouting, RtSoundAlways, PTL

\* ... and a router keeps its own direct routes.
THEOREM FwKeepsOwnRoutes == FwSafety => []RtOwnKept
  BY FwImplementsRouting, RtOwnKeptAlways, PTL

\* SPF's results are the shortest paths though packets and routing commands
\* come between its runs (spf_record_result's assert), ...
THEOREM FwKeepsSpfCorrect == FwSafety => []SpfCorrect
  <1>1. FwBase => SpfCorrect
    BY DEF FwBase, SpfGood
  <1>2. QED
    BY <1>1, FwAlwaysBase, PTL

\* ... and its next hops are counted (spf_flush_nexthops' assert).
THEOREM FwKeepsSpfHeld == FwSafety => []SpfHeld
  <1>1. FwBase => SpfHeld
    BY SpfInvHeld DEF FwBase, SpfGood
  <1>2. QED
    BY <1>1, FwAlwaysBase, PTL

\* In any network with no more routers than the ttl of initialize_ip_pkt, which
\* is 64: while all the tables follow from the topology, a packet for a
\* loopback address that a router reaches is delivered, with what is inside it,
\* or lost on a link; the ttl never runs out, and no router on the way is
\* without a route.
THEOREM FwAlwaysConverged ==
    ASSUME Cardinality(RtNode) <= FwTtl
    PROVE  FwSafety => []FwConverged
  <1>1. FwInit => FwOnWay
    BY DEF FwInit, FwOnWay
  <1>2. FwBase /\ FwBase' /\ FwOnWay /\ [FwNext]_fwVars => FwOnWay'
    BY FwStepWay
  <1>3. FwOnWay => FwConverged
    BY DEF FwOnWay, FwConverged
  <1>4. QED
    BY <1>1, <1>2, <1>3, FwAlwaysBase, PTL DEF FwSafety
====
