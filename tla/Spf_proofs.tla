------------------------------ MODULE Spf_proofs ------------------------------
(***************************************************************************)
(* SPF for any network, any costs and any number of next hops: no next hop *)
(* is freed while an array holds it (THEOREM SpfAlwaysHeld), and the       *)
(* results are the shortest paths (THEOREM SpfAlwaysCorrect).              *)
(***************************************************************************)
EXTENDS Spf, KeyedList_proofs

-----------------------------------------------------------------------------
(* The network.                                                            *)

LEMMA SpfPlaces ==
    /\ RtMaxNxtHops \in Nat /\ RtMaxNxtHops >= 1 /\ RtPlace \subseteq Int /\ 0 \in RtPlace
    /\ \A k : k \in RtPlace <=> k \in Int /\ 0 <= k /\ k < RtMaxNxtHops
    /\ IsFiniteSet(RtPlace)
  <1>1. RtMaxNxtHops \in Nat /\ RtMaxNxtHops >= 1
    BY RtAssumption
  <1>2. IsFiniteSet(0 .. RtMaxNxtHops - 1)
    BY <1>1, FS_Interval
  <1>3. QED
    BY <1>1, <1>2 DEF RtPlace

LEMMA SpfIntfTyped ==
    /\ RtNoHop \notin RtIntf
    /\ \A i \in RtIntf : i[1] \in RtNode /\ i[2] \in RtLink /\ i = <<i[1], i[2]>>
  BY RtAssumption DEF RtIntf

\* The two ends of a link have each other for a peer.
LEMMA SpfPeers ==
    ASSUME NEW i \in RtIntf
    PROVE  /\ RtPeer[i] \in RtIntf /\ RtPeer[i][1] \in RtNode
           /\ RtPeer[i][2] = i[2] /\ RtPeer[i][1] # i[1]
           /\ RtPeer[RtPeer[i]] = i
  <1>1. ASSUME NEW j \in RtIntf
        PROVE  /\ RtPeer[j] \in RtIntf /\ RtPeer[j][2] = j[2] /\ RtPeer[j][1] # j[1]
    <2>1. PICK m \in RtNode, n \in RtNode : m # n /\ RtEnds[j[2]] = {m, n}
      BY SpfAssumption, SpfIntfTyped
    <2>2. j[1] \in {m, n} /\ j[2] \in RtLink
      BY <2>1, SpfIntfTyped DEF RtIntf
    <2>3. \E p \in {m, n} : p # j[1]
      BY <2>1
    <2>4. PICK p \in {m, n} : p # j[1]
      BY <2>3
    <2>5. <<p, j[2]>> \in RtIntf
      BY <2>1, <2>2, <2>4 DEF RtIntf
    <2>6. \E x \in RtIntf : x[2] = j[2] /\ x[1] # j[1]
      BY <2>4, <2>5
    <2>7. RtPeer[j] = CHOOSE x \in RtIntf : x[2] = j[2] /\ x[1] # j[1]
      BY DEF RtPeer
    <2>8. QED
      BY <2>6, <2>7
  <1>2. RtPeer[RtPeer[i]] = i
    <2>1. PICK m \in RtNode, n \in RtNode : m # n /\ RtEnds[i[2]] = {m, n}
      BY SpfAssumption, SpfIntfTyped
    <2> DEFINE p == RtPeer[i]
               q == RtPeer[p]
    <2>2. p \in RtIntf /\ p[2] = i[2] /\ p[1] # i[1]
      BY <1>1
    <2>3. q \in RtIntf /\ q[2] = p[2] /\ q[1] # p[1]
      BY <1>1, <2>2
    <2> HIDE DEF p, q
    <2>4. {i[1], p[1], q[1]} \subseteq {m, n}
      BY <2>1, <2>2, <2>3 DEF RtIntf
    <2>5. q[1] = i[1] /\ q[2] = i[2]
      BY <2>1, <2>2, <2>3, <2>4
    <2>6. q = i
      BY <2>3, <2>5, SpfIntfTyped
    <2>7. QED
      BY <2>6 DEF p, q
  <1>3. QED
    BY <1>1, <1>2, SpfIntfTyped

\* The nodes are as many as topo's list has.
LEMMA SpfNodesFinite == IsFiniteSet(RtNode)
  <1> DEFINE n == Len(SpfOrder)
  <1>1. SpfOrder \in Seq(RtNode) /\ n \in Nat /\ DOMAIN SpfOrder = 1 .. n
        /\ SpfOrder \in [1 .. n -> RtNode]
    BY SpfAssumption, LenProperties
  <1>2. \A x \in RtNode : \E k \in 1 .. n : SpfOrder[k] = x
    BY <1>1, SpfAssumption DEF SpfListed, ToSet
  <1>3. SpfOrder \in Surjection(1 .. n, RtNode)
    BY <1>1, <1>2 DEF Surjection
  <1>4. IsFiniteSet(1 .. n)
    BY <1>1, FS_Interval
  <1>5. QED
    BY <1>3, <1>4, FS_Surjection

-----------------------------------------------------------------------------
(* How often a next hop is in the arrays f of the index set I.             *)

SpfAt(I, f, i) == {x \in I \X RtPlace : f[x[1]][x[2]] = i}
SpfTimes(I, f, i) == Cardinality(SpfAt(I, f, i))

LEMMA SpfTimesType ==
    ASSUME NEW I, IsFiniteSet(I), NEW f, NEW i
    PROVE  IsFiniteSet(SpfAt(I, f, i)) /\ SpfTimes(I, f, i) \in Nat
  <1>1. IsFiniteSet(I \X RtPlace)
    BY SpfPlaces, FS_Product
  <1>2. SpfAt(I, f, i) \in SUBSET (I \X RtPlace)
    BY DEF SpfAt
  <1>3. IsFiniteSet(SpfAt(I, f, i))
    BY <1>1, <1>2, FS_Subset
  <1>4. QED
    BY <1>3, FS_CardinalityType DEF SpfTimes

\* Equal arrays at the indexes hold it equally often.
LEMMA SpfTimesSame ==
    ASSUME NEW I, NEW f, NEW g, NEW i, \A k \in I : f[k] = g[k]
    PROVE  SpfTimes(I, f, i) = SpfTimes(I, g, i)
  <1>1. SpfAt(I, f, i) = SpfAt(I, g, i)
    BY DEF SpfAt
  <1>2. QED
    BY <1>1 DEF SpfTimes

\* The arrays of two sets of indexes that have none in common.
LEMMA SpfTimesSplit ==
    ASSUME NEW I, NEW J, IsFiniteSet(I), IsFiniteSet(J), I \cap J = {}, NEW f, NEW i
    PROVE  SpfTimes(I \cup J, f, i) = SpfTimes(I, f, i) + SpfTimes(J, f, i)
  <1>1. SpfAt(I \cup J, f, i) = SpfAt(I, f, i) \cup SpfAt(J, f, i)
    BY DEF SpfAt
  <1>2. SpfAt(I, f, i) \cap SpfAt(J, f, i) = {}
    BY DEF SpfAt
  <1>3. IsFiniteSet(SpfAt(I, f, i)) /\ IsFiniteSet(SpfAt(J, f, i))
        /\ SpfTimes(I, f, i) \in Nat /\ SpfTimes(J, f, i) \in Nat
    BY SpfTimesType
  <1>4. Cardinality(SpfAt(I, f, i) \cup SpfAt(J, f, i)) =
          SpfTimes(I, f, i) + SpfTimes(J, f, i) - Cardinality({})
    BY <1>2, <1>3, FS_Union DEF SpfTimes
  <1>5. QED
    BY <1>1, <1>3, <1>4, FS_EmptySet DEF SpfTimes

\* The same arrays under other indexes.
LEMMA SpfTimesRenamed ==
    ASSUME NEW I, NEW J, IsFiniteSet(I), NEW f, NEW g, NEW i, NEW b \in Bijection(I, J),
           \A k \in I : g[b[k]] = f[k]
    PROVE  SpfTimes(J, g, i) = SpfTimes(I, f, i)
  <1> DEFINE A == SpfAt(I, f, i)
             B == SpfAt(J, g, i)
             c == [x \in A |-> <<b[x[1]], x[2]>>]
  <1>1. /\ b \in [I -> J]
        /\ \A k, m \in I : b[k] = b[m] => k = m
        /\ \A m \in J : \E k \in I : b[k] = m
    BY Fun_BijectionProperties
  <1>2. \A x \in A : x = <<x[1], x[2]>> /\ x[1] \in I /\ x[2] \in RtPlace /\ f[x[1]][x[2]] = i
    BY DEF SpfAt
  <1>3. \A x \in B : x = <<x[1], x[2]>> /\ x[1] \in J /\ x[2] \in RtPlace /\ g[x[1]][x[2]] = i
    BY DEF SpfAt
  <1>4. \A k \in I, p \in RtPlace : f[k][p] = i => <<k, p>> \in A
    BY DEF SpfAt
  <1>5. \A k \in J, p \in RtPlace : g[k][p] = i => <<k, p>> \in B
    BY DEF SpfAt
  <1>0. IsFiniteSet(A)
    BY SpfTimesType
  <1> HIDE DEF A, B
  <1>6. \A x \in A : <<b[x[1]], x[2]>> \in B
    BY <1>1, <1>2, <1>5
  <1>7. c \in [A -> B]
    BY <1>6
  <1>8. ASSUME NEW x \in A, NEW y \in A, c[x] = c[y] PROVE x = y
    <2>1. <<b[x[1]], x[2]>> = <<b[y[1]], y[2]>>
      BY <1>8
    <2>2. b[x[1]] = b[y[1]] /\ x[2] = y[2]
      BY <2>1
    <2>3. QED
      BY <1>1, <1>2, <2>2
  <1>9. ASSUME NEW y \in B PROVE \E x \in A : c[x] = y
    <2>1. PICK k \in I : b[k] = y[1]
      BY <1>1, <1>3
    <2>2. <<k, y[2]>> \in A
      BY <1>3, <1>4, <2>1
    <2>3. c[<<k, y[2]>>] = <<b[k], y[2]>>
      BY <2>2
    <2>4. QED
      BY <1>3, <2>1, <2>2, <2>3
  <1> HIDE DEF c
  <1>10. c \in Bijection(A, B)
    BY <1>7, <1>8, <1>9, Fun_IsBij
  <1>11. Cardinality(B) = Cardinality(A)
    BY <1>0, <1>10, FS_Bijection DEF ExistsBijection
  <1>12. QED
    BY <1>11 DEF A, B, SpfTimes

\* The array of one index.
LEMMA SpfTimesOne ==
    ASSUME NEW k, NEW f, NEW i
    PROVE  SpfTimes({k}, f, i) = SpfCount(f[k], i) /\ SpfCount(f[k], i) \in Nat
  <1> DEFINE A == {p \in RtPlace : f[k][p] = i}
             B == SpfAt({k}, f, i)
             c == [p \in A |-> <<k, p>>]
  <1>1. IsFiniteSet(A)
    BY SpfPlaces, FS_Subset
  <1>2. \A p \in A : <<k, p>> \in B
    BY DEF SpfAt
  <1>3. \A x \in B : x[2] \in A /\ x = <<k, x[2]>>
    BY DEF SpfAt
  <1> HIDE DEF A, B
  <1>4. c \in [A -> B] /\ \A p \in A : c[p] = <<k, p>>
    BY <1>2
  <1> HIDE DEF c
  <1>5. c \in Bijection(A, B)
    <2>1. \A p, q \in A : c[p] = c[q] => p = q
      BY <1>4
    <2>2. \A x \in B : \E p \in A : c[p] = x
      BY <1>3, <1>4
    <2>3. QED
      BY <1>4, <2>1, <2>2, Fun_IsBij
  <1>6. Cardinality(B) = Cardinality(A)
    BY <1>1, <1>5, FS_Bijection DEF ExistsBijection
  <1>7. Cardinality(A) \in Nat
    BY <1>1, FS_CardinalityType
  <1>8. QED
    BY <1>6, <1>7 DEF A, B, SpfCount, SpfTimes

\* One node's array is replaced.
LEMMA SpfTimesReplaced ==
    ASSUME NEW hops \in [RtNode -> SpfArray], NEW n \in RtNode, NEW h \in SpfArray, NEW i
    PROVE  /\ SpfTimes(RtNode, [hops EXCEPT ![n] = h], i) + SpfCount(hops[n], i)
                = SpfTimes(RtNode, hops, i) + SpfCount(h, i)
           /\ SpfTimes(RtNode, hops, i) \in Nat
           /\ SpfTimes(RtNode, [hops EXCEPT ![n] = h], i) \in Nat
           /\ SpfCount(hops[n], i) \in Nat /\ SpfCount(h, i) \in Nat
           /\ SpfCount(hops[n], i) <= SpfTimes(RtNode, hops, i)
  <1> DEFINE I == RtNode \ {n}
             g == [hops EXCEPT ![n] = h]
  <1>1. /\ IsFiniteSet(I) /\ IsFiniteSet({n}) /\ I \cap {n} = {} /\ RtNode = I \cup {n}
        /\ \A m \in I : g[m] = hops[m]
        /\ g[n] = h
    <2>1. IsFiniteSet(I) /\ IsFiniteSet({n})
      BY SpfNodesFinite, FS_RemoveElement, FS_Singleton
    <2>2. (\A m \in I : g[m] = hops[m]) /\ g[n] = h
      OBVIOUS
    <2>3. I \cap {n} = {} /\ RtNode = I \cup {n}
      OBVIOUS
    <2>4. QED
      BY <2>1, <2>2, <2>3
  <1> HIDE DEF I, g
  <1>2. /\ SpfTimes(RtNode, hops, i) = SpfTimes(I, hops, i) + SpfTimes({n}, hops, i)
        /\ SpfTimes(RtNode, g, i) = SpfTimes(I, g, i) + SpfTimes({n}, g, i)
    BY <1>1, SpfTimesSplit
  <1>3. SpfTimes(I, g, i) = SpfTimes(I, hops, i)
    BY <1>1, SpfTimesSame
  <1>4. /\ SpfTimes({n}, hops, i) = SpfCount(hops[n], i)
        /\ SpfTimes({n}, g, i) = SpfCount(h, i)
        /\ SpfCount(hops[n], i) \in Nat /\ SpfCount(h, i) \in Nat
    BY <1>1, SpfTimesOne
  <1>5. SpfTimes(I, hops, i) \in Nat
    BY <1>1, SpfTimesType
  <1>6. QED
    BY <1>2, <1>3, <1>4, <1>5 DEF g

\* Arrays that follow each other in a sequence.
LEMMA SpfTimesAppended ==
    ASSUME NEW a \in Seq(SpfArray), NEW b \in Seq(SpfArray), NEW i
    PROVE  SpfTimes(1 .. Len(a \o b), a \o b, i)
             = SpfTimes(1 .. Len(a), a, i) + SpfTimes(1 .. Len(b), b, i)
  <1> DEFINE m == Len(a)
             n == Len(b)
             ab == a \o b
             J == (m + 1) .. (m + n)
             c == [k \in 1 .. n |-> k + m]
  <1>1. m \in Nat /\ n \in Nat
    BY LenProperties
  <1>2. /\ Len(ab) = m + n
        /\ \A k \in 1 .. m + n : ab[k] = IF k <= m THEN a[k] ELSE b[k - m]
    BY ConcatProperties
  <1> HIDE DEF m, n, ab
  <1>3. /\ IsFiniteSet(1 .. m) /\ IsFiniteSet(J) /\ IsFiniteSet(1 .. n)
        /\ (1 .. m) \cap J = {} /\ 1 .. m + n = (1 .. m) \cup J
    <2>1. 1 \in Int /\ m \in Int /\ n \in Int /\ m + 1 \in Int /\ m + n \in Int
      BY <1>1
    <2>2. IsFiniteSet(1 .. m) /\ IsFiniteSet(J) /\ IsFiniteSet(1 .. n)
      BY <2>1, FS_Interval
    <2>3. (1 .. m) \cap J = {} /\ 1 .. m + n = (1 .. m) \cup J
      BY <1>1
    <2>4. QED
      BY <2>2, <2>3
  <1>4. SpfTimes(1 .. m + n, ab, i) = SpfTimes(1 .. m, ab, i) + SpfTimes(J, ab, i)
    <2> DEFINE I == 1 .. m
    <2>1. IsFiniteSet(I) /\ IsFiniteSet(J) /\ I \cap J = {} /\ 1 .. m + n = I \cup J
      BY <1>3
    <2> HIDE DEF I, J
    <2>2. SpfTimes(I \cup J, ab, i) = SpfTimes(I, ab, i) + SpfTimes(J, ab, i)
      BY <2>1, SpfTimesSplit
    <2>3. QED
      BY <2>1, <2>2 DEF I
  <1>5. SpfTimes(1 .. m, ab, i) = SpfTimes(1 .. m, a, i)
    <2>1. \A k \in 1 .. m : ab[k] = a[k]
      BY <1>1, <1>2
    <2>2. QED
      BY <2>1, SpfTimesSame
  <1>6. SpfTimes(J, ab, i) = SpfTimes(1 .. n, b, i)
    <2>1. c \in Bijection(1 .. n, J)
      <3>1. c \in [1 .. n -> J]
        BY <1>1
      <3>2. \A j, k \in 1 .. n : c[j] = c[k] => j = k
        BY <1>1
      <3>3. \A x \in J : x - m \in 1 .. n /\ c[x - m] = x
        BY <1>1
      <3> HIDE DEF c, J
      <3>4. QED
        BY <3>1, <3>2, <3>3, Fun_IsBij
    <2>2. ASSUME NEW k \in 1 .. n PROVE ab[c[k]] = b[k]
      <3>1. k + m \in 1 .. m + n /\ ~(k + m <= m) /\ (k + m) - m = k
        BY <1>1
      <3>2. QED
        BY <1>2, <3>1
    <2> DEFINE I == 1 .. n
    <2>3. IsFiniteSet(I) /\ c \in Bijection(I, J) /\ \A k \in I : ab[c[k]] = b[k]
      BY <1>3, <2>1, <2>2
    <2> HIDE DEF c, I, J
    <2>4. SpfTimes(J, ab, i) = SpfTimes(I, b, i)
      BY <2>3, SpfTimesRenamed
    <2>5. QED
      BY <2>4 DEF I
  <1>7. QED
    BY <1>2, <1>4, <1>5, <1>6 DEF m, n, ab

\* The arrays of all nodes, in the order of topo's list.
LEMMA SpfTimesListed ==
    ASSUME NEW hops \in [RtNode -> SpfArray], NEW i
    PROVE  LET s == [k \in 1 .. Len(SpfOrder) |-> hops[SpfOrder[k]]] IN
             /\ s \in Seq(SpfArray) /\ Len(s) = Len(SpfOrder)
             /\ SpfTimes(1 .. Len(s), s, i) = SpfTimes(RtNode, hops, i)
  <1> DEFINE n == Len(SpfOrder)
             s == [k \in 1 .. n |-> hops[SpfOrder[k]]]
  <1>1. /\ SpfOrder \in Seq(RtNode) /\ n \in Nat /\ DOMAIN SpfOrder = 1 .. n
        /\ SpfOrder \in [1 .. n -> RtNode]
    BY SpfAssumption, LenProperties
  <1>2. SpfOrder \in Bijection(1 .. n, RtNode)
    <2>1. \A j, k \in 1 .. n : SpfOrder[j] = SpfOrder[k] => j = k
      BY SpfAssumption DEF SpfListed
    <2>2. \A x \in RtNode : \E k \in 1 .. n : SpfOrder[k] = x
      BY <1>1, SpfAssumption DEF SpfListed, ToSet
    <2>3. QED
      BY <1>1, <2>1, <2>2, Fun_IsBij
  <1>3. s \in [1 .. n -> SpfArray] /\ \A k \in 1 .. n : hops[SpfOrder[k]] = s[k]
    BY <1>1
  <1> HIDE DEF s
  <1>4. s \in Seq(SpfArray) /\ Len(s) = n
    BY <1>1, <1>3, SeqDef, LenProperties
  <1>5. IsFiniteSet(1 .. n)
    BY <1>1, FS_Interval
  <1>6. SpfTimes(RtNode, hops, i) = SpfTimes(1 .. n, s, i)
    <2> DEFINE I == 1 .. n
    <2>1. IsFiniteSet(I) /\ SpfOrder \in Bijection(I, RtNode) /\ \A k \in I : hops[SpfOrder[k]] = s[k]
      BY <1>2, <1>3, <1>5
    <2> HIDE DEF I
    <2>2. SpfTimes(RtNode, hops, i) = SpfTimes(I, s, i)
      BY <2>1, SpfTimesRenamed
    <2>3. QED
      BY <2>2 DEF I
  <1>7. QED
    BY <1>4, <1>6 DEF s

\* A flush of the arrays in a sequence takes back what they hold.
LEMMA SpfReleasedIs ==
    ASSUME NEW refs, NEW hs, NEW i \in RtIntf
    PROVE  SpfReleased(refs, hs)[i] = refs[i] - SpfTimes(1 .. Len(hs), hs, i)
  BY DEF SpfReleased, SpfTimes, SpfAt

LEMMA SpfReleasedOne ==
    ASSUME NEW refs, NEW h, NEW i \in RtIntf
    PROVE  SpfReleased(refs, <<h>>)[i] = refs[i] - SpfCount(h, i)
  <1> DEFINE hs == <<h>>
  <1>1. Len(hs) = 1 /\ hs[1] = h /\ 1 .. 1 = {1}
    OBVIOUS
  <1> HIDE DEF hs
  <1>2. SpfTimes(1 .. Len(hs), hs, i) = SpfCount(h, i)
    BY <1>1, SpfTimesOne
  <1>3. SpfReleased(refs, hs)[i] = refs[i] - SpfTimes(1 .. Len(hs), hs, i)
    BY SpfReleasedIs
  <1>4. QED
    BY <1>2, <1>3 DEF hs

-----------------------------------------------------------------------------
(* Arrays of next hops.                                                    *)

\* The first free place.
LEMMA SpfFreeIs ==
    ASSUME NEW h
    PROVE  /\ RtFree(h) \in 0 .. RtMaxNxtHops
           /\ \A j \in RtPlace : j < RtFree(h) => h[j] # RtNoHop
           /\ RtFree(h) \in RtPlace => h[RtFree(h)] = RtNoHop
  <1> DEFINE P(k) == /\ \A j \in RtPlace : j < k => h[j] # RtNoHop
                     /\ k \in RtPlace => h[k] = RtNoHop
             T == {k \in 0 .. RtMaxNxtHops : k \in RtPlace => h[k] = RtNoHop}
  <1>1. PICK k \in T : \A j \in T : k <= j
    <2>1. T \in SUBSET Nat /\ RtMaxNxtHops \in T
      BY SpfPlaces
    <2> HIDE DEF T
    <2>2. QED
      BY <2>1, KlLeast
  <1>2. k \in 0 .. RtMaxNxtHops /\ P(k)
    <2>1. k \in 0 .. RtMaxNxtHops /\ (k \in RtPlace => h[k] = RtNoHop)
      BY <1>1
    <2>2. ASSUME NEW j \in RtPlace, j < k PROVE h[j] # RtNoHop
      <3>1. j \in 0 .. RtMaxNxtHops /\ ~(k <= j)
        BY <2>1, <2>2, SpfPlaces
      <3>2. j \notin T
        BY <1>1, <3>1
      <3>3. QED
        BY <3>1, <3>2
    <2>3. QED
      BY <2>1, <2>2
  <1>3. RtFree(h) = CHOOSE x \in 0 .. RtMaxNxtHops : P(x)
    BY DEF RtFree
  <1> HIDE DEF P
  <1>4. RtFree(h) \in 0 .. RtMaxNxtHops /\ P(RtFree(h))
    BY <1>2, <1>3
  <1>5. QED
    BY <1>4 DEF P

\* An array with a next hop more: nothing else changes.
LEMMA SpfInsertIs ==
    ASSUME NEW h \in SpfArray, NEW oif \in RtIntf
    PROVE  /\ SpfInsert(h, oif) \in SpfArray
           /\ IF RtFree(h) \in RtPlace
                THEN /\ h[RtFree(h)] = RtNoHop
                     /\ SpfInsert(h, oif) = [h EXCEPT ![RtFree(h)] = oif]
                ELSE SpfInsert(h, oif) = h
  BY SpfFreeIs DEF SpfInsert, SpfArray

\* What spf_union_nexthops_arrays writes at place k, after new for the places
\* before it.
SpfUnionAt(src, dst, new, k) ==
    LET oif == src[k - RtFree(dst)] IN
    IF \/ k < RtFree(dst) \/ oif = RtNoHop
       \/ \E j \in RtPlace : IF j < k THEN new[j] = oif ELSE dst[j] = oif
    THEN dst[k] ELSE oif

LEMMA SpfUnionAtTyped ==
    ASSUME NEW src \in SpfArray, NEW dst \in SpfArray, NEW new, NEW k \in RtPlace
    PROVE  SpfUnionAt(src, dst, new, k) \in RtIntf \cup {RtNoHop}
  <1>1. dst[k] \in RtIntf \cup {RtNoHop}
    BY DEF SpfArray
  <1>2. CASE k < RtFree(dst)
    BY <1>1, <1>2 DEF SpfUnionAt
  <1>3. CASE ~(k < RtFree(dst))
    <2>1. k - RtFree(dst) \in RtPlace
      BY <1>3, SpfPlaces, SpfFreeIs
    <2>2. src[k - RtFree(dst)] \in RtIntf \cup {RtNoHop}
      BY <2>1 DEF SpfArray
    <2>3. QED
      BY <1>1, <2>2 DEF SpfUnionAt
  <1>4. QED
    BY <1>2, <1>3

\* The recursive function that SpfUnion names is there, and is an array.
LEMMA SpfUnionIs ==
    ASSUME NEW src \in SpfArray, NEW dst \in SpfArray
    PROVE  /\ SpfUnion(src, dst) \in SpfArray
           /\ \A k \in RtPlace : SpfUnion(src, dst)[k] = SpfUnionAt(src, dst, SpfUnion(src, dst), k)
  <1> DEFINE step(f, k) == SpfUnionAt(src, dst, f, k)
             solves(f, b) == \A k \in RtPlace : k < b => f[k] = step(f, k)
             T == {b \in 0 .. RtMaxNxtHops : \A f \in SpfArray : ~solves(f, b)}
             u == SpfUnion(src, dst)
  <1>1. \A f : \A k \in RtPlace : step(f, k) \in RtIntf \cup {RtNoHop}
    BY SpfUnionAtTyped
  <1>2. ASSUME NEW f, NEW g, NEW k \in RtPlace, \A j \in RtPlace : j < k => f[j] = g[j]
        PROVE  step(f, k) = step(g, k)
    BY <1>2 DEF SpfUnionAt
  <1> HIDE DEF step
  <1>3. T = {}
    <2>1. SUFFICES ASSUME T # {} PROVE FALSE
      OBVIOUS
    <2>2. PICK b \in T : \A c \in T : b <= c
      <3>1. T \in SUBSET Nat
        BY SpfPlaces
      <3> HIDE DEF T
      <3>2. QED
        BY <2>1, <3>1, KlLeast
    <2>3. b \in 0 .. RtMaxNxtHops /\ \A f \in SpfArray : ~solves(f, b)
      BY <2>2
    <2>4. CASE b = 0
      <3>1. dst \in SpfArray /\ solves(dst, b)
        BY <2>4, SpfPlaces
      <3>2. QED
        BY <2>3, <3>1
    <2>5. CASE b # 0
      <3>1. b - 1 \in 0 .. RtMaxNxtHops /\ ~(b <= b - 1) /\ b - 1 \in RtPlace
        BY <2>3, <2>5, SpfPlaces
      <3>2. PICK f \in SpfArray : solves(f, b - 1)
        BY <2>2, <3>1
      <3> DEFINE h == [f EXCEPT ![b - 1] = step(f, b - 1)]
      <3>3. h \in SpfArray
        BY <1>1, <3>1 DEF SpfArray
      <3>4. h[b - 1] = step(f, b - 1) /\ \A k \in RtPlace : k < b - 1 => h[k] = f[k]
        BY <3>1, SpfPlaces DEF SpfArray
      <3> HIDE DEF h
      <3>5. ASSUME NEW k \in RtPlace, k < b PROVE h[k] = step(h, k)
        <4>1. k < b - 1 \/ k = b - 1
          BY <2>3, <3>5, SpfPlaces
        <4>2. \A j \in RtPlace : j < k => h[j] = f[j]
          BY <2>3, <3>4, <3>5, SpfPlaces
        <4>3. step(h, k) = step(f, k)
          BY <1>2, <4>2
        <4>4. CASE k < b - 1
          BY <3>2, <3>4, <4>3, <4>4 DEF solves
        <4>5. CASE k = b - 1
          BY <3>4, <4>3, <4>5
        <4>6. QED
          BY <4>1, <4>4, <4>5
      <3>6. solves(h, b)
        BY <3>5
      <3>7. QED
        BY <2>3, <3>3, <3>6
    <2>6. QED
      BY <2>4, <2>5
  <1>4. PICK f \in SpfArray : solves(f, RtMaxNxtHops)
    <2>1. RtMaxNxtHops \in 0 .. RtMaxNxtHops
      BY SpfPlaces
    <2>2. QED
      BY <1>3, <2>1
  <1>5. f = [k \in RtPlace |-> step(f, k)]
    <2>1. \A k \in RtPlace : f[k] = step(f, k)
      BY <1>4, SpfPlaces
    <2>2. QED
      BY <2>1 DEF SpfArray
  <1>6. u = [k \in RtPlace |-> step(u, k)]
    <2>1. u = CHOOSE new : new = [k \in RtPlace |-> step(new, k)]
      BY DEF SpfUnion, step, SpfUnionAt
    <2> HIDE DEF u
    <2>2. QED
      BY <1>5, <2>1
  <1> HIDE DEF u
  <1>7. ASSUME NEW k \in RtPlace PROVE u[k] = step(u, k)
    <2>1. [j \in RtPlace |-> step(u, j)][k] = step(u, k)
      OBVIOUS
    <2>2. QED
      BY <1>6, <2>1
  <1>8. u \in SpfArray
    <2>1. [j \in RtPlace |-> step(u, j)] \in SpfArray
      BY <1>1 DEF SpfArray
    <2>2. QED
      BY <1>6, <2>1
  <1>9. QED
    BY <1>7, <1>8 DEF u, step

\* A place of the union holds what it held, or a next hop of the source that
\* is at no place before it, and was at none from there on.
LEMMA SpfUnionHolds ==
    ASSUME NEW src \in SpfArray, NEW dst \in SpfArray, NEW k \in RtPlace,
           SpfUnion(src, dst)[k] # dst[k]
    PROVE  /\ SpfUnion(src, dst)[k] # RtNoHop
           /\ k - RtFree(dst) \in RtPlace
           /\ SpfUnion(src, dst)[k] = src[k - RtFree(dst)]
           /\ \A j \in RtPlace : j < k => SpfUnion(src, dst)[j] # SpfUnion(src, dst)[k]
           /\ \A j \in RtPlace : ~(j < k) => dst[j] # SpfUnion(src, dst)[k]
  <1> DEFINE u == SpfUnion(src, dst)
             oif == src[k - RtFree(dst)]
  <1>1. u[k] = SpfUnionAt(src, dst, u, k) /\ u[k] # dst[k]
    BY SpfUnionIs
  <1> HIDE DEF u
  <1>2. /\ ~(k < RtFree(dst)) /\ oif # RtNoHop /\ u[k] = oif
        /\ ~\E j \in RtPlace : IF j < k THEN u[j] = oif ELSE dst[j] = oif
    BY <1>1 DEF SpfUnionAt
  <1>3. k - RtFree(dst) \in RtPlace
    BY <1>2, SpfPlaces, SpfFreeIs
  <1>4. QED
    BY <1>2, <1>3 DEF u

\* spf_union_nexthops_arrays counts a next hop at least as often more as the
\* array holds it more.
LEMMA SpfUnionCounts ==
    ASSUME NEW src \in SpfArray, NEW dst \in SpfArray, NEW i \in RtIntf
    PROVE  SpfCount(SpfUnion(src, dst), i)
             <= SpfCount(dst, i) + (IF i \in SpfAdded(src, dst) THEN 1 ELSE 0)
  <1> DEFINE u == SpfUnion(src, dst)
             A == {k \in RtPlace : u[k] = i}
             B == {k \in RtPlace : dst[k] = i}
  <1>1. IsFiniteSet(A) /\ IsFiniteSet(B) /\ Cardinality(A) \in Nat /\ Cardinality(B) \in Nat
    BY SpfPlaces, FS_Subset, FS_CardinalityType
  <1>2. SpfCount(u, i) = Cardinality(A) /\ SpfCount(dst, i) = Cardinality(B)
    BY DEF SpfCount
  <1>3. i \in SpfAdded(src, dst) <=> \E k \in RtPlace : u[k] # dst[k] /\ u[k] = i
    BY DEF SpfAdded
  <1>4. CASE i \notin SpfAdded(src, dst)
    <2>1. A \in SUBSET B
      BY <1>3, <1>4
    <2> HIDE DEF A, B
    <2>2. Cardinality(A) <= Cardinality(B)
      BY <1>1, <2>1, FS_Subset
    <2>3. QED
      BY <1>1, <1>2, <1>4, <2>2
  <1>5. CASE i \in SpfAdded(src, dst)
    <2>1. PICK k \in RtPlace : u[k] # dst[k] /\ u[k] = i
      BY <1>3, <1>5
    <2>2. /\ \A j \in RtPlace : j < k => u[j] # i
          /\ \A j \in RtPlace : ~(j < k) => dst[j] # i
      BY <2>1, SpfUnionHolds
    <2>3. ASSUME NEW j \in RtPlace, u[j] = i PROVE j = k
      <3>1. ~(j < k) /\ dst[j] # i
        BY <2>2, <2>3
      <3>2. \A l \in RtPlace : l < j => u[l] # i
        BY <2>3, <3>1, SpfUnionHolds
      <3>3. ~(k < j)
        BY <2>1, <3>2
      <3>4. QED
        BY <3>1, <3>3, SpfPlaces
    <2>4. A = {k}
      BY <2>1, <2>3
    <2>5. Cardinality(A) = 1
      BY <2>4, FS_Singleton
    <2>6. QED
      BY <1>1, <1>2, <1>5, <2>5
  <1>6. QED
    BY <1>4, <1>5

-----------------------------------------------------------------------------
(* What a step does to the scratch data.                                   *)

SpfScratch == [metric : [RtNode -> Nat], hops : [RtNode -> SpfArray],
               queue : Seq(RtNode), refs : [RtIntf -> Int]]

\* By how much the count of a next hop exceeds the nodes' arrays it is in.
SpfSpare(d, i) == d.refs[i] - SpfTimes(RtNode, d.hops, i)

\* The nodes' arrays hold only the root's own interfaces.
SpfOwned(hops, root) ==
    \A n \in RtNode : \A k \in RtPlace : hops[n][k] # RtNoHop => hops[n][k][1] = root

LEMMA SpfSpareType ==
    ASSUME NEW d \in SpfScratch, NEW i \in RtIntf
    PROVE  SpfTimes(RtNode, d.hops, i) \in Nat /\ SpfSpare(d, i) \in Int
  <1>1. SpfTimes(RtNode, d.hops, i) \in Nat
    BY SpfNodesFinite, SpfTimesType
  <1>2. d.refs[i] \in Int
    BY DEF SpfScratch
  <1>3. QED
    BY <1>1, <1>2 DEF SpfSpare

LEMMA SpfEmptyIs == SpfEmpty \in SpfArray /\ \A i \in RtIntf : SpfCount(SpfEmpty, i) = 0
  <1>1. SpfEmpty \in SpfArray
    BY DEF SpfEmpty, SpfArray
  <1>2. ASSUME NEW i \in RtIntf PROVE SpfCount(SpfEmpty, i) = 0
    <2>1. {k \in RtPlace : SpfEmpty[k] = i} = {}
      BY SpfIntfTyped DEF SpfEmpty
    <2>2. QED
      BY <2>1, FS_EmptySet DEF SpfCount
  <1>3. QED
    BY <1>1, <1>2

\* A flush takes back just what it counts.
LEMMA SpfFlushIs ==
    ASSUME NEW d \in SpfScratch, NEW n \in RtNode
    PROVE  /\ SpfFlush(d, n) \in SpfScratch
           /\ SpfFlush(d, n).metric = d.metric /\ SpfFlush(d, n).queue = d.queue
           /\ SpfFlush(d, n).hops = [d.hops EXCEPT ![n] = SpfEmpty]
           /\ \A i \in RtIntf : SpfSpare(SpfFlush(d, n), i) = SpfSpare(d, i)
  <1> DEFINE f == SpfFlush(d, n)
             refs == SpfReleased(d.refs, <<d.hops[n]>>)
             hops == [d.hops EXCEPT ![n] = SpfEmpty]
  <1>1. f = [d EXCEPT !.hops = hops, !.refs = refs]
    BY DEF SpfFlush, SpfScratch
  <1>2. d.hops \in [RtNode -> SpfArray] /\ d.hops[n] \in SpfArray /\ d.refs \in [RtIntf -> Int]
    BY DEF SpfScratch
  <1>3. \A i \in RtIntf : refs[i] = d.refs[i] - SpfCount(d.hops[n], i)
    BY SpfReleasedOne
  <1>4. \A i \in RtIntf : SpfCount(d.hops[n], i) \in Nat
    BY <1>2, SpfTimesReplaced, SpfEmptyIs
  <1>5. refs \in [RtIntf -> Int]
    <2>1. \A i \in RtIntf : refs[i] \in Int
      BY <1>2, <1>3, <1>4
    <2>2. DOMAIN refs = RtIntf /\ refs = [i \in RtIntf |-> refs[i]]
      BY DEF SpfReleased
    <2> HIDE DEF refs
    <2>3. QED
      BY <2>1, <2>2
  <1>6. hops \in [RtNode -> SpfArray]
    BY <1>2, SpfEmptyIs
  <1>7. ASSUME NEW i \in RtIntf PROVE SpfSpare(f, i) = SpfSpare(d, i)
    <2>1. /\ SpfTimes(RtNode, hops, i) + SpfCount(d.hops[n], i)
               = SpfTimes(RtNode, d.hops, i) + SpfCount(SpfEmpty, i)
          /\ SpfTimes(RtNode, hops, i) \in Nat /\ SpfTimes(RtNode, d.hops, i) \in Nat
      BY <1>2, SpfEmptyIs, SpfTimesReplaced
    <2>2. f.refs = refs /\ f.hops = hops
      BY <1>1 DEF SpfScratch
    <2> HIDE DEF f, refs, hops
    <2>3. SpfCount(SpfEmpty, i) = 0 /\ refs[i] = d.refs[i] - SpfCount(d.hops[n], i)
          /\ d.refs[i] \in Int /\ SpfCount(d.hops[n], i) \in Nat
      BY <1>2, <1>3, <1>4, SpfEmptyIs
    <2>4. QED
      BY <2>1, <2>2, <2>3 DEF SpfSpare
  <1> HIDE DEF refs, hops
  <1>8. f \in SpfScratch /\ f.metric = d.metric /\ f.queue = d.queue /\ f.hops = hops
    BY <1>1, <1>5, <1>6 DEF SpfScratch
  <1>9. QED
    BY <1>7, <1>8 DEF f, hops

\* What is taken over is counted.
LEMMA SpfJoinIs ==
    ASSUME NEW d \in SpfScratch, NEW m \in RtNode, NEW n \in RtNode
    PROVE  /\ SpfJoin(d, m, n) \in SpfScratch
           /\ SpfJoin(d, m, n).metric = d.metric /\ SpfJoin(d, m, n).queue = d.queue
           /\ SpfJoin(d, m, n).hops = [d.hops EXCEPT ![n] = SpfUnion(d.hops[m], d.hops[n])]
           /\ \A i \in RtIntf : SpfSpare(SpfJoin(d, m, n), i) >= SpfSpare(d, i)
  <1> DEFINE f == SpfJoin(d, m, n)
             u == SpfUnion(d.hops[m], d.hops[n])
             added == SpfAdded(d.hops[m], d.hops[n])
             refs == [i \in RtIntf |-> IF i \in added THEN d.refs[i] + 1 ELSE d.refs[i]]
             hops == [d.hops EXCEPT ![n] = u]
  <1>1. f = [d EXCEPT !.hops = hops, !.refs = refs]
    BY DEF SpfJoin, SpfScratch
  <1>2. d.hops \in [RtNode -> SpfArray] /\ d.hops[n] \in SpfArray /\ d.hops[m] \in SpfArray
        /\ d.refs \in [RtIntf -> Int]
    BY DEF SpfScratch
  <1>3. u \in SpfArray
    BY <1>2, SpfUnionIs
  <1>4. \A i \in RtIntf : SpfCount(u, i) <= SpfCount(d.hops[n], i) + (IF i \in added THEN 1 ELSE 0)
    BY <1>2, SpfUnionCounts
  <1> HIDE DEF u, added
  <1>5. refs \in [RtIntf -> Int] /\ hops \in [RtNode -> SpfArray]
    BY <1>2, <1>3
  <1>6. f \in SpfScratch /\ f.metric = d.metric /\ f.queue = d.queue /\ f.hops = hops /\ f.refs = refs
    <2> HIDE DEF refs, hops
    <2>1. QED
      BY <1>1, <1>5 DEF SpfScratch
  <1>7. ASSUME NEW i \in RtIntf PROVE SpfSpare(f, i) >= SpfSpare(d, i)
    <2>1. /\ SpfTimes(RtNode, hops, i) + SpfCount(d.hops[n], i)
               = SpfTimes(RtNode, d.hops, i) + SpfCount(u, i)
          /\ SpfTimes(RtNode, hops, i) \in Nat /\ SpfTimes(RtNode, d.hops, i) \in Nat
          /\ SpfCount(d.hops[n], i) \in Nat /\ SpfCount(u, i) \in Nat
      BY <1>2, <1>3, SpfTimesReplaced
    <2>2. refs[i] = d.refs[i] + (IF i \in added THEN 1 ELSE 0) /\ d.refs[i] \in Int
      BY <1>2
    <2> HIDE DEF f, refs, hops
    <2>3. QED
      BY <1>4, <1>6, <2>1, <2>2 DEF SpfSpare
  <1> HIDE DEF f, hops
  <1>8. QED
    BY <1>6, <1>7 DEF f, hops, u

LEMMA SpfFlushOwned ==
    ASSUME NEW hops \in [RtNode -> SpfArray], NEW root, SpfOwned(hops, root), NEW n \in RtNode
    PROVE  SpfOwned([hops EXCEPT ![n] = SpfEmpty], root)
  BY DEF SpfOwned, SpfEmpty

\* A union brings in no other interfaces than the root's.
LEMMA SpfUnionOwned ==
    ASSUME NEW src \in SpfArray, NEW dst \in SpfArray, NEW root,
           \A k \in RtPlace : src[k] # RtNoHop => src[k][1] = root,
           \A k \in RtPlace : dst[k] # RtNoHop => dst[k][1] = root
    PROVE  \A k \in RtPlace : SpfUnion(src, dst)[k] # RtNoHop => SpfUnion(src, dst)[k][1] = root
  <1> SUFFICES ASSUME NEW k \in RtPlace, SpfUnion(src, dst)[k] # RtNoHop
               PROVE  SpfUnion(src, dst)[k][1] = root
    OBVIOUS
  <1>1. CASE SpfUnion(src, dst)[k] = dst[k]
    BY <1>1
  <1>2. CASE SpfUnion(src, dst)[k] # dst[k]
    BY <1>2, SpfUnionHolds
  <1>3. QED
    BY <1>1, <1>2

LEMMA SpfJoinOwned ==
    ASSUME NEW hops \in [RtNode -> SpfArray], NEW root, SpfOwned(hops, root),
           NEW m \in RtNode, NEW n \in RtNode
    PROVE  SpfOwned([hops EXCEPT ![n] = SpfUnion(hops[m], hops[n])], root)
  <1> DEFINE u == SpfUnion(hops[m], hops[n])
  <1>1. hops[m] \in SpfArray /\ hops[n] \in SpfArray
    OBVIOUS
  <1>2. \A k \in RtPlace : u[k] # RtNoHop => u[k][1] = root
    BY <1>1, SpfUnionOwned DEF SpfOwned
  <1> HIDE DEF u
  <1>3. SpfOwned([hops EXCEPT ![n] = u], root)
    BY <1>2 DEF SpfOwned
  <1>4. QED
    BY <1>3 DEF u

\* The queue is in order.
SpfQueued(d) == KlDistinct(d.queue) /\ KlSorted(d.queue, d.metric)

LEMMA SpfEnqueueIs ==
    ASSUME NEW d \in SpfScratch, SpfQueued(d), NEW n \in RtNode, n \notin ToSet(d.queue)
    PROVE  /\ SpfEnqueue(d, n) \in SpfScratch /\ SpfQueued(SpfEnqueue(d, n))
           /\ SpfEnqueue(d, n).metric = d.metric /\ SpfEnqueue(d, n).hops = d.hops
           /\ SpfEnqueue(d, n).refs = d.refs
           /\ ToSet(SpfEnqueue(d, n).queue) = ToSet(d.queue) \cup {n}
  <1> DEFINE queue == Placed(d.queue, d.metric, n)
             e == SpfEnqueue(d, n)
  <1>1. d.queue \in Seq(RtNode) /\ d.metric \in [RtNode -> Nat]
    BY DEF SpfScratch
  <1>2. /\ queue \in Seq(RtNode) /\ KlDistinct(queue) /\ KlSorted(queue, d.metric)
        /\ ToSet(queue) = ToSet(d.queue) \cup {n}
    BY <1>1, KlPlaced DEF SpfQueued
  <1>3. e = [d EXCEPT !.queue = queue]
    BY DEF SpfEnqueue, SpfScratch
  <1> HIDE DEF queue, e
  <1>4. /\ e \in SpfScratch /\ e.queue = queue /\ e.metric = d.metric /\ e.hops = d.hops
        /\ e.refs = d.refs
    BY <1>2, <1>3 DEF SpfScratch
  <1>5. QED
    BY <1>2, <1>4 DEF e, SpfQueued

\* A direct neighbour: the next hop is in no array and counted for none, or
\* goes into one array and is counted once.
LEMMA SpfDirectIs ==
    ASSUME NEW d \in SpfScratch, NEW oif \in RtIntf, NEW root \in RtNode, oif[1] = root,
           SpfOwned(d.hops, root), spf_cost \in [RtLink -> Nat],
           \A m \in RtNode : \A k \in RtPlace : d.hops[m][k] # oif,
           SpfSpare(d, oif) >= 0
    PROVE  LET e == SpfDirectNbr(oif, d) IN
             /\ e \in SpfScratch /\ e.queue = d.queue /\ SpfOwned(e.hops, root)
             /\ \A i \in RtIntf : i # oif => SpfSpare(e, i) = SpfSpare(d, i)
             /\ SpfSpare(e, oif) >= 0
             /\ \A m \in RtNode : \A k \in RtPlace :
                  e.hops[m][k] \in RtIntf /\ e.hops[m][k] # oif =>
                    \E p \in RtNode : \E l \in RtPlace : d.hops[p][l] = e.hops[m][k]
  <1> DEFINE n == RtPeer[oif][1]
             c == spf_cost[oif[2]]
             f == IF c < d.metric[n] THEN SpfFlush(d, n) ELSE d
             h == SpfInsert(f.hops[n], oif)
             free == RtFree(f.hops[n])
             e == [f EXCEPT !.metric[n] = c, !.hops[n] = h,
                            !.refs[oif] = IF free \in RtPlace THEN 1 ELSE 0]
  <1>1. n \in RtNode /\ c \in Nat
    BY SpfPeers, SpfIntfTyped
  <1>2. SpfDirectNbr(oif, d) = IF c > d.metric[n] THEN d ELSE e
    BY DEF SpfDirectNbr
  <1>3. /\ f \in SpfScratch /\ f.queue = d.queue /\ f.metric = d.metric
        /\ \A i \in RtIntf : SpfSpare(f, i) = SpfSpare(d, i)
        /\ f.hops = d.hops \/ f.hops = [d.hops EXCEPT ![n] = SpfEmpty]
    BY <1>1, SpfFlushIs
  <1>4. d.hops \in [RtNode -> SpfArray]
    BY DEF SpfScratch
  <1>5. /\ SpfOwned(f.hops, root)
        /\ \A m \in RtNode : \A k \in RtPlace : f.hops[m][k] # oif
        /\ \A m \in RtNode : \A k \in RtPlace :
             f.hops[m][k] = d.hops[m][k] \/ f.hops[m][k] = RtNoHop
    <2>1. CASE f.hops = d.hops
      BY <2>1
    <2>2. CASE f.hops = [d.hops EXCEPT ![n] = SpfEmpty]
      <3>1. SpfOwned(f.hops, root)
        BY <1>1, <1>4, <2>2, SpfFlushOwned
      <3>2. \A m \in RtNode : \A k \in RtPlace :
              f.hops[m][k] = IF m = n THEN RtNoHop ELSE d.hops[m][k]
        BY <1>4, <2>2 DEF SpfEmpty
      <3>3. QED
        BY <3>1, <3>2, SpfIntfTyped
    <2>3. QED
      BY <1>3, <2>1, <2>2
  <1> HIDE DEF f
  <1>6. f.hops \in [RtNode -> SpfArray] /\ f.hops[n] \in SpfArray /\ f.refs \in [RtIntf -> Int]
        /\ f.metric \in [RtNode -> Nat]
    BY <1>1, <1>3 DEF SpfScratch
  <1>7. /\ h \in SpfArray
        /\ IF free \in RtPlace THEN f.hops[n][free] = RtNoHop /\ h = [f.hops[n] EXCEPT ![free] = oif]
                               ELSE h = f.hops[n]
    BY <1>6, SpfInsertIs
  <1> HIDE DEF h, free, n, c
  <1> DEFINE hops == [f.hops EXCEPT ![n] = h]
             refs == [f.refs EXCEPT ![oif] = IF free \in RtPlace THEN 1 ELSE 0]
             metric == [f.metric EXCEPT ![n] = c]
  <1>8. hops \in [RtNode -> SpfArray] /\ refs \in [RtIntf -> Int] /\ metric \in [RtNode -> Nat]
    BY <1>1, <1>6, <1>7
  <1>9. /\ e.hops = hops /\ e.refs = refs /\ e.metric = metric /\ e.queue = d.queue
        /\ e \in SpfScratch
    <2>1. e = [f EXCEPT !.metric = metric, !.hops = hops, !.refs = refs]
      BY <1>3 DEF SpfScratch
    <2> HIDE DEF e, hops, refs, metric
    <2>2. f.queue \in Seq(RtNode)
      BY <1>3 DEF SpfScratch
    <2>3. QED
      BY <1>3, <1>8, <2>1, <2>2 DEF SpfScratch
  <1> HIDE DEF e
  <1>10. \A m \in RtNode : \A k \in RtPlace :
           hops[m][k] = f.hops[m][k] \/ (free \in RtPlace /\ m = n /\ k = free /\ hops[m][k] = oif)
    BY <1>1, <1>6, <1>7 DEF SpfArray
  <1>11. SpfOwned(hops, root)
    BY <1>5, <1>10 DEF SpfOwned
  <1>12. \A i \in RtIntf :
           /\ SpfTimes(RtNode, hops, i) + SpfCount(f.hops[n], i)
                = SpfTimes(RtNode, f.hops, i) + SpfCount(h, i)
           /\ SpfTimes(RtNode, hops, i) \in Nat /\ SpfTimes(RtNode, f.hops, i) \in Nat
           /\ SpfCount(f.hops[n], i) \in Nat /\ SpfCount(h, i) \in Nat
           /\ SpfCount(f.hops[n], i) <= SpfTimes(RtNode, f.hops, i)
    BY <1>1, <1>6, <1>7, SpfTimesReplaced
  <1>13. ASSUME NEW i \in RtIntf, i # oif PROVE SpfSpare(e, i) = SpfSpare(d, i)
    <2>1. {k \in RtPlace : h[k] = i} = {k \in RtPlace : f.hops[n][k] = i}
      BY <1>6, <1>7, <1>13, SpfIntfTyped DEF SpfArray
    <2>2. SpfCount(h, i) = SpfCount(f.hops[n], i)
      BY <2>1 DEF SpfCount
    <2>3. refs[i] = f.refs[i] /\ f.refs[i] \in Int
      BY <1>6, <1>13
    <2> HIDE DEF hops, refs
    <2>4. SpfSpare(e, i) = SpfSpare(f, i)
      BY <1>9, <1>12, <2>2, <2>3 DEF SpfSpare
    <2>5. QED
      BY <1>3, <2>4
  <1>14. SpfSpare(e, oif) >= 0
    <2>1. SpfTimes(RtNode, f.hops, oif) = 0
      <3>1. SpfAt(RtNode, f.hops, oif) = {}
        BY <1>5 DEF SpfAt
      <3>2. QED
        BY <3>1, FS_EmptySet DEF SpfTimes
    <2>2. SpfCount(h, oif) = IF free \in RtPlace THEN 1 ELSE 0
      <3> DEFINE A == {k \in RtPlace : h[k] = oif}
      <3>1. A = IF free \in RtPlace THEN {free} ELSE {}
        BY <1>1, <1>5, <1>6, <1>7 DEF SpfArray
      <3> HIDE DEF A
      <3>2. Cardinality(A) = IF free \in RtPlace THEN 1 ELSE 0
        BY <3>1, FS_EmptySet, FS_Singleton
      <3>3. QED
        BY <3>2 DEF A, SpfCount
    <2>3. refs[oif] = IF free \in RtPlace THEN 1 ELSE 0
      BY <1>6
    <2> HIDE DEF hops, refs
    <2>4. QED
      BY <1>9, <1>12, <2>1, <2>2, <2>3 DEF SpfSpare
  <1>15. ASSUME NEW m \in RtNode, NEW k \in RtPlace, hops[m][k] \in RtIntf, hops[m][k] # oif
         PROVE \E p \in RtNode : \E l \in RtPlace : d.hops[p][l] = hops[m][k]
    BY <1>5, <1>10, <1>15, SpfIntfTyped
  <1> HIDE DEF hops
  <1>16. CASE c > d.metric[n]
    BY <1>2, <1>16
  <1>17. CASE ~(c > d.metric[n])
    BY <1>2, <1>9, <1>11, <1>13, <1>14, <1>15, <1>17
  <1>18. QED
    BY <1>16, <1>17

\* A neighbour of the node that is being explored: it is in the queue when its
\* metric has gone down.
LEMMA SpfExploreIs ==
    ASSUME NEW d \in SpfScratch, SpfQueued(d), NEW oif \in RtIntf, NEW root,
           SpfOwned(d.hops, root), NEW m \in RtNode, spf_cost \in [RtLink -> Nat]
    PROVE  LET e == SpfExploreNbr(m, oif, d) IN
             /\ e \in SpfScratch /\ SpfQueued(e) /\ SpfOwned(e.hops, root)
             /\ \A i \in RtIntf : SpfSpare(e, i) >= SpfSpare(d, i)
  <1> DEFINE n == RtPeer[oif][1]
             cost == d.metric[m] + spf_cost[oif[2]]
             f == SpfFlush(d, n)
             g == SpfJoin(f, m, n)
             queue == Without(d.queue, n)
             metric == [d.metric EXCEPT ![n] = cost]
             nearer == [g EXCEPT !.metric[n] = cost, !.queue = Without(@, n)]
  <1>1. n \in RtNode /\ cost \in Nat /\ d.metric \in [RtNode -> Nat] /\ d.queue \in Seq(RtNode)
        /\ d.hops \in [RtNode -> SpfArray]
    BY SpfPeers, SpfIntfTyped DEF SpfScratch
  <1>2. SpfExploreNbr(m, oif, d) =
          IF cost < d.metric[n] THEN SpfEnqueue(nearer, n)
          ELSE IF cost = d.metric[n] THEN SpfJoin(d, m, n) ELSE d
    BY DEF SpfExploreNbr
  <1> HIDE DEF n, cost
  <1>3. /\ f \in SpfScratch /\ f.metric = d.metric /\ f.queue = d.queue
        /\ SpfOwned(f.hops, root)
        /\ \A i \in RtIntf : SpfSpare(f, i) = SpfSpare(d, i)
    <2>1. /\ f \in SpfScratch /\ f.metric = d.metric /\ f.queue = d.queue
          /\ f.hops = [d.hops EXCEPT ![n] = SpfEmpty]
          /\ \A i \in RtIntf : SpfSpare(f, i) = SpfSpare(d, i)
      BY <1>1, SpfFlushIs
    <2> HIDE DEF f
    <2>2. SpfOwned([d.hops EXCEPT ![n] = SpfEmpty], root)
      BY <1>1, SpfFlushOwned
    <2>3. QED
      BY <2>1, <2>2
  <1> HIDE DEF f
  <1>4. f.hops \in [RtNode -> SpfArray]
    BY <1>3 DEF SpfScratch
  <1>5. /\ g \in SpfScratch /\ g.metric = d.metric /\ g.queue = d.queue
        /\ SpfOwned(g.hops, root)
        /\ \A i \in RtIntf : SpfSpare(g, i) >= SpfSpare(f, i)
    <2>1. /\ g \in SpfScratch /\ g.metric = f.metric /\ g.queue = f.queue
          /\ g.hops = [f.hops EXCEPT ![n] = SpfUnion(f.hops[m], f.hops[n])]
          /\ \A i \in RtIntf : SpfSpare(g, i) >= SpfSpare(f, i)
      <3>1. f \in SpfScratch /\ n \in RtNode
        BY <1>1, <1>3
      <3>2. QED
        BY <3>1, SpfJoinIs
    <2> HIDE DEF g
    <2>2. SpfOwned([f.hops EXCEPT ![n] = SpfUnion(f.hops[m], f.hops[n])], root)
      BY <1>1, <1>3, <1>4, SpfJoinOwned
    <2>3. QED
      BY <1>3, <2>1, <2>2
  <1> HIDE DEF g
  <1>6. metric \in [RtNode -> Nat] /\ \A x \in RtNode : x # n => metric[x] = d.metric[x]
    BY <1>1
  <1>7. /\ queue \in Seq(RtNode) /\ KlDistinct(queue) /\ n \notin ToSet(queue)
        /\ KlSorted(queue, metric)
    <2> HIDE DEF metric
    <2>1. queue \in Seq(RtNode) /\ KlDistinct(queue) /\ ToSet(queue) = ToSet(d.queue) \ {n}
      BY <1>1, KlWithoutSet DEF SpfQueued
    <2>2. KlSorted(queue, metric)
      BY <1>1, <1>6, KlWithout DEF SpfQueued
    <2>3. QED
      BY <2>1, <2>2
  <1>8. nearer = [g EXCEPT !.metric = metric, !.queue = queue]
    BY <1>5 DEF SpfScratch
  <1> HIDE DEF metric, queue, nearer
  <1>9. /\ nearer \in SpfScratch /\ nearer.metric = metric /\ nearer.queue = queue
        /\ nearer.hops = g.hops /\ nearer.refs = g.refs
    BY <1>5, <1>6, <1>7, <1>8 DEF SpfScratch
  <1>10. CASE cost < d.metric[n]
    <2> DEFINE e == SpfEnqueue(nearer, n)
    <2>1. SpfQueued(nearer) /\ n \notin ToSet(nearer.queue)
      BY <1>7, <1>9 DEF SpfQueued
    <2>2. e \in SpfScratch /\ SpfQueued(e) /\ e.hops = g.hops /\ e.refs = g.refs
      BY <1>1, <1>9, <2>1, SpfEnqueueIs
    <2> HIDE DEF e
    <2>3. \A i \in RtIntf : SpfSpare(e, i) >= SpfSpare(d, i)
      BY <1>3, <1>5, <2>2 DEF SpfSpare
    <2>4. QED
      BY <1>2, <1>5, <1>10, <2>2, <2>3 DEF e
  <1>11. CASE ~(cost < d.metric[n]) /\ cost = d.metric[n]
    <2> DEFINE e == SpfJoin(d, m, n)
    <2>1. /\ e \in SpfScratch /\ e.metric = d.metric /\ e.queue = d.queue
          /\ SpfOwned(e.hops, root)
          /\ \A i \in RtIntf : SpfSpare(e, i) >= SpfSpare(d, i)
      <3>1. /\ e \in SpfScratch /\ e.metric = d.metric /\ e.queue = d.queue
            /\ e.hops = [d.hops EXCEPT ![n] = SpfUnion(d.hops[m], d.hops[n])]
            /\ \A i \in RtIntf : SpfSpare(e, i) >= SpfSpare(d, i)
        BY <1>1, SpfJoinIs
      <3> HIDE DEF e
      <3>2. SpfOwned([d.hops EXCEPT ![n] = SpfUnion(d.hops[m], d.hops[n])], root)
        BY <1>1, SpfJoinOwned
      <3>3. QED
        BY <3>1, <3>2
    <2>2. SpfQueued(e)
      BY <2>1 DEF SpfQueued
    <2>3. SpfExploreNbr(m, oif, d) = e
      BY <1>2, <1>11
    <2> HIDE DEF e
    <2>4. QED
      BY <2>1, <2>2, <2>3
  <1>12. CASE ~(cost < d.metric[n]) /\ cost # d.metric[n]
    <2>1. SpfExploreNbr(m, oif, d) = d
      BY <1>2, <1>12
    <2>2. \A i \in RtIntf : SpfSpare(d, i) >= SpfSpare(d, i)
      BY SpfSpareType
    <2>3. QED
      BY <2>1, <2>2
  <1>13. QED
    BY <1>10, <1>11, <1>12

-----------------------------------------------------------------------------
(* The results.                                                            *)

SpfEntry == [node : RtNode, metric : Nat, hops : SpfArray]

SpfFound(res) == [k \in 1 .. Len(res) |-> res[k].hops]
SpfFoundTimes(res, i) == SpfTimes(1 .. Len(res), SpfFound(res), i)

LEMMA SpfFoundIs ==
    ASSUME NEW res \in Seq(SpfEntry)
    PROVE  /\ Len(res) \in Nat /\ SpfFound(res) \in Seq(SpfArray)
           /\ Len(SpfFound(res)) = Len(res)
           /\ \A k \in 1 .. Len(res) : SpfFound(res)[k] = res[k].hops /\ res[k] \in SpfEntry
           /\ \A i : SpfFoundTimes(res, i) \in Nat
  <1> DEFINE n == Len(res)
             s == SpfFound(res)
  <1>1. n \in Nat /\ \A k \in 1 .. n : res[k] \in SpfEntry
    BY LenProperties
  <1>2. s = [k \in 1 .. n |-> res[k].hops] /\ \A k \in 1 .. n : res[k].hops \in SpfArray
    BY <1>1 DEF SpfFound, SpfEntry
  <1> HIDE DEF n, s
  <1>3. s \in [1 .. n -> SpfArray]
    BY <1>2
  <1>4. s \in Seq(SpfArray) /\ Len(s) = n
    BY <1>1, <1>3, SeqDef, LenProperties
  <1>5. IsFiniteSet(1 .. n)
    BY <1>1, FS_Interval
  <1>6. \A i : SpfTimes(1 .. n, s, i) \in Nat
    BY <1>5, SpfTimesType
  <1>7. QED
    BY <1>1, <1>2, <1>4, <1>6 DEF n, s, SpfFoundTimes

\* A new result in front.
LEMMA SpfFoundMore ==
    ASSUME NEW res \in Seq(SpfEntry), NEW r \in SpfEntry
    PROVE  /\ <<r>> \o res \in Seq(SpfEntry)
           /\ Len(<<r>> \o res) = Len(res) + 1
           /\ \A k \in 1 .. Len(res) + 1 :
                (<<r>> \o res)[k] = IF k = 1 THEN r ELSE res[k - 1]
           /\ \A i : SpfFoundTimes(<<r>> \o res, i) = SpfCount(r.hops, i) + SpfFoundTimes(res, i)
  <1> DEFINE n == Len(res)
             all == <<r>> \o res
             a == <<r.hops>>
             b == SpfFound(res)
             s == SpfFound(all)
  <1>1. n \in Nat /\ b \in Seq(SpfArray) /\ Len(b) = n /\ \A k \in 1 .. n : b[k] = res[k].hops
    BY SpfFoundIs
  <1>2. /\ all \in Seq(SpfEntry) /\ Len(all) = n + 1
        /\ \A k \in 1 .. n + 1 : all[k] = IF k = 1 THEN r ELSE res[k - 1]
    BY KlPrepend
  <1>3. r.hops \in SpfArray
    BY DEF SpfEntry
  <1>4. a \in Seq(SpfArray) /\ Len(a) = 1 /\ a[1] = r.hops
    BY <1>3
  <1>5. s \in Seq(SpfArray) /\ Len(s) = n + 1 /\ \A k \in 1 .. n + 1 : s[k] = all[k].hops
    BY <1>2, SpfFoundIs
  <1> HIDE DEF n, all, a, b, s
  <1>6. a \o b \in Seq(SpfArray) /\ Len(a \o b) = n + 1
        /\ \A k \in 1 .. n + 1 : (a \o b)[k] = IF k = 1 THEN a[1] ELSE b[k - 1]
    <2>1. /\ a \o b \in Seq(SpfArray) /\ Len(a \o b) = Len(b) + 1
          /\ \A k \in 1 .. Len(b) + 1 : (a \o b)[k] = IF k = 1 THEN r.hops ELSE b[k - 1]
      BY <1>1, <1>3, KlPrepend DEF a
    <2>2. QED
      BY <1>1, <1>4, <2>1
  <1>7. s = a \o b
    <2>1. Len(s) = Len(a \o b)
      BY <1>1, <1>5, <1>6
    <2>2. ASSUME NEW k \in 1 .. n + 1 PROVE s[k] = (a \o b)[k]
      <3>1. CASE k = 1
        BY <1>1, <1>2, <1>4, <1>5, <1>6, <3>1
      <3>2. CASE k # 1
        <4>1. k - 1 \in 1 .. n
          BY <1>1, <3>2
        <4>2. s[k] = all[k].hops /\ all[k] = res[k - 1]
          BY <1>2, <1>5, <3>2
        <4>3. (a \o b)[k] = b[k - 1]
          BY <1>6, <3>2
        <4>4. b[k - 1] = res[k - 1].hops
          BY <1>1, <4>1
        <4>5. QED
          BY <4>2, <4>3, <4>4
      <3>3. QED
        BY <3>1, <3>2
    <2>3. QED
      BY <1>1, <1>5, <1>6, <2>1, <2>2, SeqEqual
  <1>8. ASSUME NEW i PROVE SpfFoundTimes(all, i) = SpfCount(r.hops, i) + SpfFoundTimes(res, i)
    <2>1. SpfTimes(1 .. Len(a \o b), a \o b, i)
            = SpfTimes(1 .. Len(a), a, i) + SpfTimes(1 .. Len(b), b, i)
      BY <1>1, <1>4, SpfTimesAppended
    <2>2. 1 .. Len(a) = {1}
      BY <1>4
    <2>3. SpfTimes(1 .. Len(a), a, i) = SpfCount(r.hops, i)
      BY <1>4, <2>2, SpfTimesOne
    <2>4. SpfFoundTimes(all, i) = SpfTimes(1 .. Len(s), s, i)
      BY <1>2, <1>5 DEF SpfFoundTimes, s
    <2>5. SpfFoundTimes(res, i) = SpfTimes(1 .. Len(b), b, i)
      BY <1>1 DEF SpfFoundTimes, b, n
    <2>6. QED
      BY <1>7, <2>1, <2>3, <2>4, <2>5
  <1>9. QED
    BY <1>2, <1>8 DEF n, all

-----------------------------------------------------------------------------
(* The invariant.                                                          *)

SpfPhase == {"idle", "direct", "queue", "explore", "install"}

\* The types SpfHeld rests on.
SpfSorts ==
    /\ spf_cost \in [RtLink -> Nat]
    /\ SpfData \in SpfScratch
    /\ spf_phase \in SpfPhase
    /\ spf_roots \in Seq(RtNode) /\ (spf_phase # "idle" => spf_roots # <<>>)
    /\ spf_results \in [RtNode -> Seq(SpfEntry)]
    /\ spf_left \in Seq(RtIntf) /\ KlDistinct(spf_left)
    /\ spf_phase \in {"direct", "queue", "explore"} => spf_node \in RtNode
    /\ spf_phase \in {"idle", "install"} => spf_left = <<>>

\* What the loop over the neighbours can count on: the queue is in order; the
\* nodes' arrays hold the root's own interfaces; and the root's interfaces that
\* are still to come are in no array, as the root makes a next hop of each when
\* it comes to it.
SpfLoop ==
    /\ SpfQueued(SpfData)
    /\ spf_phase \in {"direct", "queue", "explore"} => SpfOwned(spf_hops, Head(spf_roots))
    /\ spf_phase \in {"direct", "queue"} => spf_node = Head(spf_roots)
    /\ spf_phase = "direct" =>
         /\ spf_queue = <<>> /\ spf_results[Head(spf_roots)] = <<>>
         /\ \A k \in 1 .. Len(spf_left) :
              /\ spf_left[k][1] = spf_node
              /\ \A n \in RtNode : \A p \in RtPlace : spf_hops[n][p] # spf_left[k]

\* A root's results hold its own interfaces.
SpfOwnResults ==
    \A n \in RtNode : \A k \in 1 .. Len(spf_results[n]) : \A p \in RtPlace :
        spf_results[n][k].hops[p] # RtNoHop => spf_results[n][k].hops[p][1] = n

\* A next hop is counted at least as often as it is in an array.
SpfCovered ==
    \A i \in RtIntf : SpfSpare(SpfData, i) >= SpfFoundTimes(spf_results[i[1]], i)

SpfInv == SpfSorts /\ SpfLoop /\ SpfOwnResults /\ SpfCovered

\* The two sums of SpfHeld are those that SpfCovered speaks of.
LEMMA SpfInvHeld == SpfInv => SpfHeld
  <1> SUFFICES ASSUME SpfInv, NEW i \in RtIntf
               PROVE  LET found == spf_results[i[1]] IN
                 spf_refs[i] >= Cardinality({x \in RtNode \X RtPlace : spf_hops[x[1]][x[2]] = i})
                               + Cardinality({x \in (1 .. Len(found)) \X RtPlace :
                                                found[x[1]].hops[x[2]] = i})
    BY DEF SpfHeld
  <1> DEFINE found == spf_results[i[1]]
             A == {x \in RtNode \X RtPlace : spf_hops[x[1]][x[2]] = i}
             B == {x \in (1 .. Len(found)) \X RtPlace : found[x[1]].hops[x[2]] = i}
  <1>1. found \in Seq(SpfEntry)
    BY SpfIntfTyped DEF SpfInv, SpfSorts
  <1>2. SpfData \in SpfScratch /\ SpfSpare(SpfData, i) >= SpfFoundTimes(found, i)
    BY DEF SpfInv, SpfSorts, SpfCovered
  <1>3. SpfTimes(RtNode, SpfData.hops, i) \in Nat /\ SpfFoundTimes(found, i) \in Nat
        /\ SpfData.refs[i] \in Int
    BY <1>1, <1>2, SpfSpareType, SpfFoundIs DEF SpfScratch
  <1>4. A = SpfAt(RtNode, SpfData.hops, i)
    BY DEF SpfAt, SpfData
  <1>5. B = SpfAt(1 .. Len(found), SpfFound(found), i)
    <2> DEFINE s == SpfFound(found)
               I == 1 .. Len(found)
    <2>1. \A k \in I : s[k] = found[k].hops
      BY <1>1, SpfFoundIs
    <2> HIDE DEF s, I, found
    <2>2. {x \in I \X RtPlace : found[x[1]].hops[x[2]] = i} = {x \in I \X RtPlace : s[x[1]][x[2]] = i}
      BY <2>1
    <2>3. QED
      BY <2>2 DEF I, s, SpfAt
  <1>6. Cardinality(A) = SpfTimes(RtNode, SpfData.hops, i)
        /\ Cardinality(B) = SpfFoundTimes(found, i)
    BY <1>4, <1>5 DEF SpfTimes, SpfFoundTimes
  <1>7. SpfData.refs = spf_refs
    BY DEF SpfData
  <1> HIDE DEF A, B, found
  <1>8. spf_refs[i] >= Cardinality(A) + Cardinality(B)
    BY <1>2, <1>3, <1>6, <1>7 DEF SpfSpare
  <1>9. QED
    BY <1>8 DEF A, B, found

LEMMA SpfSetDataIs ==
    ASSUME NEW d \in SpfScratch, SpfSetData(d)
    PROVE  SpfData' = d
  BY DEF SpfSetData, SpfData, SpfScratch

\* Arrays that are empty hold nothing, and neither does a list of no results.
LEMMA SpfTimesNone ==
    ASSUME NEW hops, \A n \in RtNode : hops[n] = SpfEmpty, NEW i \in RtIntf
    PROVE  SpfTimes(RtNode, hops, i) = 0
  <1>1. SpfAt(RtNode, hops, i) = {}
    BY SpfIntfTyped DEF SpfAt, SpfEmpty
  <1>2. QED
    BY <1>1, FS_EmptySet DEF SpfTimes

LEMMA SpfFoundNone == \A i : SpfFoundTimes(<<>>, i) = 0
  <1>1. 1 .. Len(<<>>) = {}
    OBVIOUS
  <1>2. \A f, i : SpfAt({}, f, i) = {}
    BY DEF SpfAt
  <1>3. QED
    BY <1>1, <1>2, FS_EmptySet DEF SpfFoundTimes, SpfTimes

LEMMA SpfNoneInOrder == KlDistinct(<<>>) /\ \A key : KlSorted(<<>>, key)
  BY DEF KlDistinct, KlSorted

\* The slots of a node are its interfaces.
LEMMA SpfSlotsAre ==
    ASSUME NEW n \in RtNode
    PROVE  /\ SpfSlots[n] \in Seq(RtIntf) /\ KlDistinct(SpfSlots[n])
           /\ \A k \in 1 .. Len(SpfSlots[n]) : SpfSlots[n][k][1] = n
           /\ \A i \in RtIntf : i[1] = n => \E k \in 1 .. Len(SpfSlots[n]) : SpfSlots[n][k] = i
  <1> DEFINE s == SpfSlots[n]
  <1>1. s \in Seq(RtIntf) /\ SpfListed(s, {i \in RtIntf : i[1] = n})
    BY SpfAssumption
  <1> HIDE DEF s
  <1>2. DOMAIN s = 1 .. Len(s)
    BY <1>1, LenProperties
  <1>3. QED
    BY <1>1, <1>2 DEF s, SpfListed, ToSet, KlDistinct

LEMMA SpfInitInv == SpfInit => SpfInv
  <1> SUFFICES ASSUME SpfInit PROVE SpfInv
    OBVIOUS
  <1>1. /\ spf_phase = "idle" /\ spf_left = <<>> /\ spf_queue = <<>>
        /\ spf_roots = SpfOrder
        /\ spf_metric = [n \in RtNode |-> SpfInfinite]
        /\ spf_hops = [n \in RtNode |-> SpfEmpty]
        /\ spf_results = [n \in RtNode |-> <<>>]
        /\ spf_refs = [i \in RtIntf |-> 0]
    BY DEF SpfInit
  <1>2. SpfData \in SpfScratch
    BY <1>1, SpfEmptyIs, SpfAssumption DEF SpfData, SpfScratch
  <1>3. spf_cost \in [RtLink -> Nat]
    <2>1. PICK setup \in SpfSetups : spf_cost = setup.cost
      BY DEF SpfInit
    <2>2. setup.cost \in [RtLink -> 1 .. SpfMaxMetric] /\ SpfMaxMetric \in Nat
      BY SpfAssumption
    <2>3. QED
      BY <2>1, <2>2
  <1>4. SpfSorts
    BY <1>1, <1>2, <1>3, SpfAssumption, SpfNoneInOrder DEF SpfSorts, SpfPhase
  <1>5. SpfLoop
    BY <1>1, SpfNoneInOrder DEF SpfLoop, SpfQueued, SpfData
  <1>6. SpfOwnResults
    BY <1>1 DEF SpfOwnResults
  <1>7. SpfCovered
    <2> SUFFICES ASSUME NEW i \in RtIntf
                 PROVE  SpfSpare(SpfData, i) >= SpfFoundTimes(spf_results[i[1]], i)
      BY DEF SpfCovered
    <2>1. SpfTimes(RtNode, SpfData.hops, i) = 0
      BY <1>1, SpfTimesNone DEF SpfData
    <2>2. SpfData.refs[i] = 0
      BY <1>1 DEF SpfData
    <2>3. spf_results[i[1]] = <<>>
      BY <1>1, SpfIntfTyped
    <2>4. SpfFoundTimes(spf_results[i[1]], i) = 0
      BY <2>3, SpfFoundNone
    <2>5. QED
      BY <2>1, <2>2, <2>4 DEF SpfSpare
  <1>8. QED
    BY <1>4, <1>5, <1>6, <1>7 DEF SpfInv

-----------------------------------------------------------------------------
(* One lemma per step.                                                     *)

\* The flush of the scratch data and of the root's old results.
LEMMA SpfBeginInv == SpfInv /\ SpfBegin => SpfInv'
  <1> SUFFICES ASSUME SpfInv, SpfBegin PROVE SpfInv'
    OBVIOUS
  <1> DEFINE root == Head(spf_roots)
             res == spf_results[root]
             old == [k \in 1 .. Len(res) |-> res[k].hops]
             scratch == [k \in 1 .. Len(SpfOrder) |-> spf_hops[SpfOrder[k]]]
             refs == SpfReleased(spf_refs, old \o scratch)
             d == [metric |-> [n \in RtNode |-> IF n = root THEN 0 ELSE SpfInfinite],
                   hops |-> [n \in RtNode |-> SpfEmpty],
                   queue |-> <<>>, refs |-> refs]
  <1>1. /\ SpfSorts /\ SpfLoop /\ SpfOwnResults /\ SpfCovered
        /\ spf_roots # <<>> /\ SpfSetData(d)
        /\ spf_results' = [spf_results EXCEPT ![root] = <<>>]
        /\ spf_node' = root /\ spf_left' = SpfSlots[root] /\ spf_phase' = "direct"
        /\ spf_roots' = spf_roots /\ spf_cost' = spf_cost
    BY DEF SpfInv, SpfBegin, spfConfigVars
  <1>2. root \in RtNode
    BY <1>1, HeadTailProperties DEF SpfSorts
  <1>3. /\ spf_hops \in [RtNode -> SpfArray] /\ spf_refs \in [RtIntf -> Int]
        /\ spf_results \in [RtNode -> Seq(SpfEntry)] /\ res \in Seq(SpfEntry)
    BY <1>1, <1>2 DEF SpfSorts, SpfScratch, SpfData
  <1>4. ASSUME NEW i \in RtIntf
        PROVE  /\ refs[i] = spf_refs[i] - (SpfFoundTimes(res, i) + SpfTimes(RtNode, spf_hops, i))
               /\ SpfFoundTimes(res, i) \in Nat /\ SpfTimes(RtNode, spf_hops, i) \in Nat
               /\ spf_refs[i] \in Int
    <2>1. old \in Seq(SpfArray) /\ Len(old) = Len(res) /\ SpfFoundTimes(res, i) \in Nat
      BY <1>3, SpfFoundIs DEF SpfFound
    <2>2. scratch \in Seq(SpfArray)
          /\ SpfTimes(1 .. Len(scratch), scratch, i) = SpfTimes(RtNode, spf_hops, i)
      BY <1>3, SpfTimesListed
    <2>3. SpfFoundTimes(res, i) = SpfTimes(1 .. Len(old), old, i)
      BY <2>1 DEF SpfFoundTimes, SpfFound
    <2> HIDE DEF old, scratch
    <2>4. SpfTimes(1 .. Len(old \o scratch), old \o scratch, i)
            = SpfTimes(1 .. Len(old), old, i) + SpfTimes(1 .. Len(scratch), scratch, i)
      BY <2>1, <2>2, SpfTimesAppended
    <2>5. refs[i] = spf_refs[i] - SpfTimes(1 .. Len(old \o scratch), old \o scratch, i)
      BY SpfReleasedIs
    <2>6. SpfTimes(RtNode, spf_hops, i) \in Nat
      BY SpfNodesFinite, SpfTimesType
    <2>7. QED
      BY <1>3, <2>1, <2>2, <2>3, <2>4, <2>5, <2>6
  <1>5. refs \in [RtIntf -> Int]
    <2>1. refs = [i \in RtIntf |-> refs[i]]
      BY DEF SpfReleased
    <2> HIDE DEF refs
    <2>2. \A i \in RtIntf : refs[i] \in Int
      BY <1>4
    <2>3. QED
      BY <2>1, <2>2
  <1> HIDE DEF refs
  <1>6. d \in SpfScratch
    <2>1. [n \in RtNode |-> IF n = root THEN 0 ELSE SpfInfinite] \in [RtNode -> Nat]
      BY SpfAssumption
    <2>2. [n \in RtNode |-> SpfEmpty] \in [RtNode -> SpfArray]
      BY SpfEmptyIs
    <2>3. <<>> \in Seq(RtNode)
      OBVIOUS
    <2>4. QED
      BY <1>5, <2>1, <2>2, <2>3 DEF SpfScratch
  <1>7. SpfData' = d
    BY <1>1, <1>6, SpfSetDataIs
  <1>8. SpfData'.hops = spf_hops' /\ SpfData'.refs = spf_refs' /\ SpfData'.queue = spf_queue'
    BY DEF SpfData
  <1>9. spf_hops' = [n \in RtNode |-> SpfEmpty] /\ spf_refs' = refs /\ spf_queue' = <<>>
    BY <1>7, <1>8
  <1> HIDE DEF d
  <1>10. SpfSorts'
    <2>1. spf_left' \in Seq(RtIntf) /\ KlDistinct(spf_left')
      BY <1>1, <1>2, SpfSlotsAre
    <2>2. spf_results' \in [RtNode -> Seq(SpfEntry)]
      <3>1. <<>> \in Seq(SpfEntry)
        OBVIOUS
      <3>2. QED
        BY <1>1, <1>3, <3>1
    <2>3. QED
      BY <1>1, <1>2, <1>6, <1>7, <2>1, <2>2 DEF SpfSorts, SpfPhase
  <1>11. SpfLoop'
    <2>1. SpfQueued(SpfData')
      BY <1>8, <1>9, SpfNoneInOrder DEF SpfQueued
    <2>2. \A n \in RtNode : \A p \in RtPlace : spf_hops'[n][p] = RtNoHop
      BY <1>9 DEF SpfEmpty
    <2>3. SpfOwned(spf_hops', root)
      BY <2>2 DEF SpfOwned
    <2>4. spf_results'[root] = <<>>
      BY <1>1, <1>2, <1>3
    <2>5. \A k \in 1 .. Len(SpfSlots[root]) :
            SpfSlots[root][k][1] = root /\ SpfSlots[root][k] \in RtIntf
      BY <1>2, SpfSlotsAre
    <2>6. \A k \in 1 .. Len(spf_left') :
            /\ spf_left'[k][1] = spf_node'
            /\ \A n \in RtNode : \A p \in RtPlace : spf_hops'[n][p] # spf_left'[k]
      BY <1>1, <2>2, <2>5, SpfIntfTyped
    <2> HIDE DEF root
    <2>7. QED
      BY <1>1, <1>9, <2>1, <2>3, <2>4, <2>6 DEF SpfLoop, root
  <1>12. SpfOwnResults'
    BY <1>1, <1>3 DEF SpfOwnResults
  <1>13. SpfCovered'
    <2> SUFFICES ASSUME NEW i \in RtIntf
                 PROVE  SpfSpare(SpfData', i) >= SpfFoundTimes(spf_results'[i[1]], i)
      BY DEF SpfCovered
    <2> DEFINE now == spf_results[i[1]]
    <2>1. SpfTimes(RtNode, SpfData'.hops, i) = 0
      BY <1>8, <1>9, SpfTimesNone
    <2>2. SpfData'.refs[i] = refs[i]
      BY <1>8, <1>9
    <2>3. i[1] \in RtNode /\ now \in Seq(SpfEntry) /\ SpfFoundTimes(now, i) \in Nat
      BY <1>3, SpfIntfTyped, SpfFoundIs
    <2>4. spf_refs[i] - SpfTimes(RtNode, spf_hops, i) >= SpfFoundTimes(now, i)
      BY <1>1 DEF SpfCovered, SpfSpare, SpfData
    <2>5. CASE i[1] = root
      <3>1. SpfFoundTimes(spf_results'[i[1]], i) = 0
        BY <1>1, <1>2, <1>3, <2>5, SpfFoundNone
      <3> HIDE DEF root, res
      <3>2. now = res
        BY <2>5 DEF res
      <3>3. QED
        BY <1>4, <2>1, <2>2, <2>4, <3>1, <3>2 DEF SpfSpare
    <2>6. CASE i[1] # root
      <3>1. spf_results'[i[1]] = now
        BY <1>1, <1>3, <2>3, <2>6
      <3>2. SpfFoundTimes(res, i) = 0
        <4> DEFINE I == 1 .. Len(res)
                   s == SpfFound(res)
        <4>1. \A k \in I : s[k] = res[k].hops
          BY <1>3, SpfFoundIs
        <4>2. \A k \in I : \A p \in RtPlace : res[k].hops[p] # i
          BY <1>1, <1>2, <2>6, SpfIntfTyped DEF SpfOwnResults
        <4> HIDE DEF I, s
        <4>3. SpfAt(I, s, i) = {}
          BY <4>1, <4>2 DEF SpfAt
        <4>4. QED
          BY <4>3, FS_EmptySet DEF I, s, SpfFoundTimes, SpfTimes
      <3> HIDE DEF root, res, now
      <3>3. QED
        BY <1>4, <2>1, <2>2, <2>3, <2>4, <3>1, <3>2 DEF SpfSpare
    <2>7. QED
      BY <2>5, <2>6
  <1>14. QED
    BY <1>10, <1>11, <1>12, <1>13 DEF SpfInv

\* A step that leaves the scratch data and the results as they are.
LEMMA SpfSameData ==
    ASSUME SpfInv, UNCHANGED spfDataVars
    PROVE  /\ SpfData' = SpfData /\ spf_hops' = spf_hops /\ spf_queue' = spf_queue
           /\ spf_results' = spf_results
           /\ SpfOwnResults' /\ SpfCovered' /\ SpfQueued(SpfData')
  <1>1. SpfData' = SpfData /\ spf_results' = spf_results /\ spf_hops' = spf_hops
        /\ spf_queue' = spf_queue
    BY DEF spfDataVars, SpfData
  <1>2. SpfOwnResults'
    BY <1>1 DEF SpfInv, SpfOwnResults
  <1>3. SpfCovered'
    BY <1>1 DEF SpfInv, SpfCovered
  <1>4. QED
    BY <1>1, <1>2, <1>3 DEF SpfInv, SpfLoop

LEMMA SpfQueueRootInv == SpfInv /\ SpfQueueRoot => SpfInv'
  <1> SUFFICES ASSUME SpfInv, SpfQueueRoot PROVE SpfInv'
    OBVIOUS
  <1>1. /\ SpfSorts /\ SpfLoop /\ spf_phase = "direct" /\ spf_phase' = "queue"
        /\ spf_left' = SpfSlots[spf_node] /\ spf_cost' = spf_cost
        /\ spf_roots' = spf_roots /\ spf_node' = spf_node /\ UNCHANGED spfDataVars
    BY DEF SpfInv, SpfQueueRoot, SpfRunning, spfConfigVars
  <1>2. /\ SpfData' = SpfData /\ spf_hops' = spf_hops /\ spf_queue' = spf_queue
        /\ spf_results' = spf_results
        /\ SpfOwnResults' /\ SpfCovered' /\ SpfQueued(SpfData')
    BY <1>1, SpfSameData
  <1>3. spf_node \in RtNode
    BY <1>1 DEF SpfSorts
  <1>4. spf_left' \in Seq(RtIntf) /\ KlDistinct(spf_left')
    BY <1>1, <1>3, SpfSlotsAre
  <1>5. SpfSorts'
    BY <1>1, <1>2, <1>3, <1>4 DEF SpfSorts, SpfPhase
  <1>6. SpfLoop'
    BY <1>1, <1>2 DEF SpfLoop
  <1>7. QED
    BY <1>2, <1>5, <1>6 DEF SpfInv

LEMMA SpfInstallInv == SpfInv /\ SpfInstall => SpfInv'
  <1> SUFFICES ASSUME SpfInv, SpfInstall PROVE SpfInv'
    OBVIOUS
  <1>1. /\ SpfSorts /\ SpfLoop /\ UNCHANGED <<spfConfigVars, spfDataVars>>
        /\ UNCHANGED <<spf_phase, spf_roots, spf_node, spf_left>>
    BY DEF SpfInv, SpfInstall
  <1>2. /\ SpfData' = SpfData /\ spf_hops' = spf_hops /\ spf_queue' = spf_queue
        /\ spf_results' = spf_results
        /\ SpfOwnResults' /\ SpfCovered' /\ SpfQueued(SpfData')
    BY <1>1, SpfSameData
  <1>3. SpfSorts'
    BY <1>1, <1>2 DEF SpfSorts, spfConfigVars
  <1>4. SpfLoop'
    BY <1>1, <1>2 DEF SpfLoop
  <1>5. QED
    BY <1>2, <1>3, <1>4 DEF SpfInv

\* The steps at which no run is in progress after, or before.
LEMMA SpfRestInv ==
    ASSUME SpfInv,
           SpfFinish \/ (\E roots \in Seq(RtNode) : RunSpf(roots))
             \/ (\E i \in RtIntf : \E cost \in Nat : \E up : ConfigIntf(i, cost, up))
    PROVE  SpfInv'
  <1>1. SpfSorts /\ SpfLoop
    BY DEF SpfInv
  <1>2. UNCHANGED spfDataVars /\ spf_left' = spf_left /\ spf_left = <<>>
        /\ spf_roots' \in Seq(RtNode) /\ spf_phase' = "idle" /\ spf_cost' \in [RtLink -> Nat]
    <2>1. CASE SpfFinish
      <3>1. /\ UNCHANGED <<spfConfigVars, spfDataVars, spf_left>>
            /\ spf_phase = "install" /\ spf_phase' = "idle" /\ spf_roots' = Tail(spf_roots)
        BY <2>1 DEF SpfFinish, SpfRunning
      <3>2. Tail(spf_roots) \in Seq(RtNode)
        BY <1>1, <3>1, HeadTailProperties DEF SpfSorts
      <3>3. QED
        BY <1>1, <3>1, <3>2 DEF SpfSorts, spfConfigVars
    <2>2. CASE \E roots \in Seq(RtNode) : RunSpf(roots)
      <3>1. PICK roots \in Seq(RtNode) : RunSpf(roots)
        BY <2>2
      <3>2. /\ UNCHANGED <<spfConfigVars, spfDataVars, spf_left, spf_phase>>
            /\ spf_roots' = roots /\ spf_roots = <<>>
        BY <3>1 DEF RunSpf, SpfIdle
      <3>3. QED
        BY <1>1, <3>2 DEF SpfSorts, spfConfigVars
    <2>3. CASE \E i \in RtIntf : \E cost \in Nat : \E up : ConfigIntf(i, cost, up)
      <3>1. PICK i \in RtIntf, cost \in Nat : \E up : ConfigIntf(i, cost, up)
        BY <2>3
      <3>2. /\ UNCHANGED <<spfDataVars, spfLoopVars>> /\ spf_roots = <<>>
            /\ spf_cost' = [spf_cost EXCEPT ![i[2]] = cost]
        BY <3>1 DEF ConfigIntf, SpfIdle
      <3>3. i[2] \in RtLink
        BY SpfIntfTyped
      <3>4. QED
        BY <1>1, <3>2, <3>3 DEF SpfSorts, spfLoopVars
    <2>4. QED
      BY <2>1, <2>2, <2>3
  <1>3. /\ SpfData' = SpfData /\ spf_hops' = spf_hops /\ spf_queue' = spf_queue
        /\ spf_results' = spf_results
        /\ SpfOwnResults' /\ SpfCovered' /\ SpfQueued(SpfData')
    BY <1>2, SpfSameData
  <1>4. SpfSorts'
    BY <1>1, <1>2, <1>3 DEF SpfSorts, SpfPhase
  <1>5. SpfLoop'
    BY <1>2, <1>3 DEF SpfLoop
  <1>6. QED
    BY <1>3, <1>4, <1>5 DEF SpfInv

\* One interface of the root, or of the node that is explored.
LEMMA SpfNbrInv == SpfInv /\ SpfNbr => SpfInv'
  <1> SUFFICES ASSUME SpfInv, SpfNbr PROVE SpfInv'
    OBVIOUS
  <1> DEFINE oif == Head(spf_left)
             root == Head(spf_roots)
             d == SpfData
  <1>1. /\ SpfSorts /\ SpfLoop /\ SpfOwnResults /\ SpfCovered
        /\ spf_left # <<>> /\ spf_left' = Tail(spf_left)
        /\ spf_results' = spf_results /\ spf_phase' = spf_phase /\ spf_roots' = spf_roots
        /\ spf_node' = spf_node /\ spf_cost' = spf_cost
    BY DEF SpfInv, SpfNbr, spfConfigVars
  <1>2. spf_left \in Seq(RtIntf) /\ KlDistinct(spf_left) /\ d \in SpfScratch /\ SpfQueued(d)
        /\ d.hops = spf_hops /\ d.queue = spf_queue /\ spf_cost \in [RtLink -> Nat]
        /\ SpfData'.hops = spf_hops' /\ SpfData'.queue = spf_queue'
        /\ spf_results \in [RtNode -> Seq(SpfEntry)]
    BY <1>1 DEF SpfSorts, SpfLoop, SpfData
  <1>3. /\ oif \in RtIntf /\ oif = spf_left[1] /\ Tail(spf_left) \in Seq(RtIntf)
        /\ Len(spf_left) \in Nat /\ Len(spf_left) >= 1
        /\ Len(Tail(spf_left)) = Len(spf_left) - 1
        /\ \A k \in 1 .. Len(spf_left) - 1 : Tail(spf_left)[k] = spf_left[k + 1]
    <2>1. oif \in RtIntf /\ Tail(spf_left) \in Seq(RtIntf)
          /\ Len(Tail(spf_left)) = Len(spf_left) - 1
          /\ \A k \in 1 .. Len(Tail(spf_left)) : Tail(spf_left)[k] = spf_left[k + 1]
      BY <1>1, <1>2, HeadTailProperties
    <2>2. Len(spf_left) \in Nat /\ Len(spf_left) >= 1
      BY <1>1, <1>2, EmptySeq
    <2>3. QED
      BY <1>1, <1>2, <2>1, <2>2
  <1>4. spf_phase \in {"direct", "queue", "explore"}
    BY <1>1, <1>2 DEF SpfSorts, SpfPhase
  <1>5. spf_node \in RtNode /\ SpfOwned(d.hops, root) /\ root \in RtNode
        /\ spf_roots \in Seq(RtNode) /\ spf_roots # <<>>
    <2>1. spf_roots \in Seq(RtNode) /\ spf_roots # <<>> /\ spf_node \in RtNode
          /\ SpfOwned(spf_hops, root)
      BY <1>1, <1>4 DEF SpfSorts, SpfLoop
    <2>2. root \in RtNode
      BY <2>1, HeadTailProperties
    <2>3. QED
      BY <1>2, <2>1, <2>2
  <1>6. KlDistinct(Tail(spf_left))
        /\ \A k \in 1 .. Len(Tail(spf_left)) :
             \E j \in 1 .. Len(spf_left) : Tail(spf_left)[k] = spf_left[j] /\ spf_left[j] # oif
    <2> DEFINE n == Len(spf_left)
               t == Tail(spf_left)
    <2>1. n \in Nat /\ Len(t) = n - 1 /\ \A k \in 1 .. n - 1 : t[k] = spf_left[k + 1]
      BY <1>3
    <2> HIDE DEF n, t
    <2>2. \A j, k \in 1 .. n : spf_left[j] = spf_left[k] => j = k
      BY <1>2 DEF KlDistinct, n
    <2>3. ASSUME NEW j \in 1 .. n - 1, NEW k \in 1 .. n - 1, t[j] = t[k] PROVE j = k
      <3>1. j + 1 \in 1 .. n /\ k + 1 \in 1 .. n
        BY <2>1
      <3>2. spf_left[j + 1] = spf_left[k + 1]
        BY <2>1, <2>3
      <3>3. j + 1 = k + 1
        BY <2>2, <3>1, <3>2
      <3>4. QED
        BY <3>3
    <2>4. ASSUME NEW k \in 1 .. n - 1
          PROVE \E j \in 1 .. n : t[k] = spf_left[j] /\ spf_left[j] # oif
      <3>1. k + 1 \in 1 .. n /\ 1 \in 1 .. n /\ k + 1 # 1
        BY <2>1
      <3>2. spf_left[k + 1] # spf_left[1]
        BY <2>2, <3>1
      <3>3. QED
        BY <1>3, <2>1, <3>1, <3>2
    <2>5. QED
      BY <2>1, <2>3, <2>4 DEF n, t, KlDistinct
  <1>7. ASSUME NEW e, e \in SpfScratch, SpfData' = e, SpfQueued(e), SpfOwned(e.hops, root),
               \A i \in RtIntf : SpfSpare(e, i) >= SpfFoundTimes(spf_results[i[1]], i),
               spf_phase = "direct" =>
                 /\ e.queue = <<>>
                 /\ \A m \in RtNode : \A k \in RtPlace :
                      e.hops[m][k] \in RtIntf /\ e.hops[m][k] # oif =>
                        \E p \in RtNode : \E l \in RtPlace : d.hops[p][l] = e.hops[m][k]
        PROVE  SpfInv'
    <2>1. SpfSorts'
      BY <1>1, <1>2, <1>3, <1>4, <1>5, <1>6, <1>7 DEF SpfSorts
    <2>2. ASSUME spf_phase = "direct",
                 NEW k \in 1 .. Len(Tail(spf_left)), NEW m \in RtNode, NEW p \in RtPlace
          PROVE  Tail(spf_left)[k][1] = spf_node /\ spf_hops'[m][p] # Tail(spf_left)[k]
      <3>1. PICK j \in 1 .. Len(spf_left) : Tail(spf_left)[k] = spf_left[j] /\ spf_left[j] # oif
        BY <1>6
      <3>2. spf_left[j][1] = spf_node
            /\ \A q \in RtNode : \A l \in RtPlace : spf_hops[q][l] # spf_left[j]
        BY <1>1, <2>2 DEF SpfLoop
      <3>3. spf_left[j] \in RtIntf
        BY <1>2, LenProperties
      <3>4. spf_hops'[m][p] # spf_left[j]
        <4>1. SUFFICES ASSUME spf_hops'[m][p] = spf_left[j] PROVE FALSE
          OBVIOUS
        <4>2. e.hops[m][p] = spf_left[j] /\ d.hops = spf_hops
          BY <1>2, <1>7, <4>1
        <4> HIDE DEF d, oif
        <4>3. PICK q \in RtNode, l \in RtPlace : d.hops[q][l] = e.hops[m][p]
          BY <1>7, <2>2, <3>1, <3>3, <4>2
        <4>4. QED
          BY <3>2, <4>2, <4>3
      <3>5. QED
        BY <3>1, <3>2, <3>4
    <2>3. spf_phase = "direct" =>
            \A k \in 1 .. Len(spf_left') :
              /\ spf_left'[k][1] = spf_node'
              /\ \A n \in RtNode : \A p \in RtPlace : spf_hops'[n][p] # spf_left'[k]
      <3>1. spf_phase = "direct" => \A k \in 1 .. Len(Tail(spf_left)) : Tail(spf_left)[k][1] = spf_node
        BY <1>1, <1>6 DEF SpfLoop
      <3>2. QED
        BY <1>1, <2>2, <3>1
    <2>4. spf_phase = "direct" => spf_queue' = <<>> /\ spf_results'[root] = <<>>
      BY <1>1, <1>2, <1>7 DEF SpfLoop
    <2>5. SpfOwned(spf_hops', root)
      BY <1>2, <1>7
    <2>6. SpfLoop'
      BY <1>1, <1>7, <2>3, <2>4, <2>5 DEF SpfLoop
    <2>7. SpfOwnResults'
      BY <1>1 DEF SpfOwnResults
    <2>8. SpfCovered'
      BY <1>1, <1>7 DEF SpfCovered
    <2>9. QED
      BY <2>1, <2>6, <2>7, <2>8 DEF SpfInv
  <1>8. \A i \in RtIntf : SpfSpare(d, i) >= SpfFoundTimes(spf_results[i[1]], i)
        /\ SpfSpare(d, i) \in Int /\ SpfFoundTimes(spf_results[i[1]], i) \in Nat
    <2> SUFFICES ASSUME NEW i \in RtIntf
                 PROVE  /\ SpfSpare(d, i) >= SpfFoundTimes(spf_results[i[1]], i)
                        /\ SpfSpare(d, i) \in Int /\ SpfFoundTimes(spf_results[i[1]], i) \in Nat
      OBVIOUS
    <2>1. spf_results[i[1]] \in Seq(SpfEntry)
      BY <1>2, SpfIntfTyped
    <2>2. QED
      BY <1>1, <1>2, <2>1, SpfSpareType, SpfFoundIs DEF SpfCovered
  <1>9. CASE UNCHANGED <<spf_metric, spf_hops, spf_queue, spf_refs>>
    <2>1. SpfData' = d
      BY <1>9 DEF SpfData
    <2> HIDE DEF d
    <2>2. QED
      BY <1>1, <1>2, <1>5, <1>7, <1>8, <2>1 DEF SpfLoop
  <1>10. CASE spf_phase = "direct" /\ SpfSetData(SpfDirectNbr(oif, d))
    <2> DEFINE e == SpfDirectNbr(oif, d)
    <2>1. /\ oif[1] = root /\ spf_queue = <<>> /\ spf_results[root] = <<>>
          /\ \A n \in RtNode : \A p \in RtPlace : spf_hops[n][p] # oif
      BY <1>1, <1>3, <1>10 DEF SpfLoop
    <2>2. SpfSpare(d, oif) >= 0
      BY <1>3, <1>8
    <2>3. /\ e \in SpfScratch /\ e.queue = d.queue /\ SpfOwned(e.hops, root)
          /\ \A i \in RtIntf : i # oif => SpfSpare(e, i) = SpfSpare(d, i)
          /\ SpfSpare(e, oif) >= 0
          /\ \A m \in RtNode : \A k \in RtPlace :
               e.hops[m][k] \in RtIntf /\ e.hops[m][k] # oif =>
                 \E p \in RtNode : \E l \in RtPlace : d.hops[p][l] = e.hops[m][k]
      <3> HIDE DEF d, oif, root
      <3>1. \A m \in RtNode : \A k \in RtPlace : d.hops[m][k] # oif
        BY <1>2, <2>1
      <3>2. /\ d \in SpfScratch /\ oif \in RtIntf /\ root \in RtNode /\ oif[1] = root
            /\ SpfOwned(d.hops, root) /\ spf_cost \in [RtLink -> Nat]
            /\ SpfSpare(d, oif) >= 0
        BY <1>2, <1>3, <1>5, <2>1, <2>2
      <3>3. QED
        BY <3>1, <3>2, SpfDirectIs
    <2> HIDE DEF e
    <2>4. SpfData' = e
      BY <1>10, <2>3, SpfSetDataIs DEF e
    <2> HIDE DEF d
    <2>5. SpfQueued(e) /\ e.queue = <<>>
      BY <1>2, <2>1, <2>3, SpfNoneInOrder DEF SpfQueued
    <2>6. ASSUME NEW i \in RtIntf PROVE SpfSpare(e, i) >= SpfFoundTimes(spf_results[i[1]], i)
      <3>1. CASE i = oif
        BY <2>1, <2>3, <3>1, SpfFoundNone
      <3>2. CASE i # oif
        BY <1>8, <2>3, <3>2
      <3>3. QED
        BY <3>1, <3>2
    <2>7. QED
      BY <1>7, <2>3, <2>4, <2>5, <2>6
  <1>11. CASE spf_phase = "queue" /\ SpfSetData(SpfQueueNbr(oif, d))
    <2> DEFINE n == RtPeer[oif][1]
               e == SpfQueueNbr(oif, d)
    <2>1. n \in RtNode
      BY <1>3, SpfPeers
    <2>2. e \in SpfScratch /\ SpfQueued(e) /\ e.hops = d.hops /\ e.refs = d.refs
      <3>1. CASE n \in ToSet(d.queue)
        BY <1>2, <3>1 DEF SpfQueueNbr
      <3>2. CASE n \notin ToSet(d.queue)
        <4>1. e = SpfEnqueue(d, n)
          BY <3>2 DEF SpfQueueNbr
        <4> HIDE DEF e, n, d
        <4>2. QED
          BY <1>2, <2>1, <3>2, <4>1, SpfEnqueueIs
      <3>3. QED
        BY <3>1, <3>2
    <2> HIDE DEF e
    <2>3. SpfData' = e
      BY <1>11, <2>2, SpfSetDataIs DEF e
    <2> HIDE DEF d
    <2>4. \A i \in RtIntf : SpfSpare(e, i) >= SpfFoundTimes(spf_results[i[1]], i)
      BY <1>8, <2>2 DEF SpfSpare
    <2>5. QED
      BY <1>5, <1>7, <1>11, <2>2, <2>3, <2>4
  <1>12. CASE spf_phase = "explore" /\ SpfSetData(SpfExploreNbr(spf_node, oif, d))
    <2> DEFINE e == SpfExploreNbr(spf_node, oif, d)
    <2>1. /\ e \in SpfScratch /\ SpfQueued(e) /\ SpfOwned(e.hops, root)
          /\ \A i \in RtIntf : SpfSpare(e, i) >= SpfSpare(d, i)
      <3> HIDE DEF d, oif, root
      <3>1. QED
        BY <1>2, <1>3, <1>5, SpfExploreIs
    <2> HIDE DEF e
    <2>2. SpfData' = e
      BY <1>12, <2>1, SpfSetDataIs DEF e
    <2> HIDE DEF d
    <2>3. ASSUME NEW i \in RtIntf PROVE SpfSpare(e, i) >= SpfFoundTimes(spf_results[i[1]], i)
      BY <1>8, <2>1, SpfSpareType
    <2>4. QED
      BY <1>7, <1>12, <2>1, <2>2, <2>3
  <1>13. QED
    BY <1>9, <1>10, <1>11, <1>12 DEF SpfNbr

\* A new result: its next hops are counted, and are the root's own.
LEMMA SpfDequeueInv == SpfInv /\ SpfDequeue => SpfInv'
  <1> SUFFICES ASSUME SpfInv, SpfDequeue PROVE SpfInv'
    OBVIOUS
  <1> DEFINE root == Head(spf_roots)
             n == Head(spf_queue)
             d == SpfFlush(SpfData, spf_node)
             u == SpfUnion(spf_hops[n], SpfEmpty)
             r == [node |-> n, metric |-> spf_metric[n], hops |-> u]
             refs == [i \in RtIntf |-> d.refs[i] + SpfCount(u, i)]
             e == [d EXCEPT !.queue = Tail(@), !.refs = [i \in RtIntf |-> @[i] + SpfCount(u, i)]]
             old == spf_results[root]
  <1>1. /\ SpfSorts /\ SpfLoop /\ SpfOwnResults /\ SpfCovered
        /\ spf_phase \in {"queue", "explore"} /\ spf_queue # <<>>
        /\ SpfSetData(e)
        /\ spf_results' = [spf_results EXCEPT ![root] = <<r>> \o @]
        /\ spf_node' = n /\ spf_left' = SpfSlots[n] /\ spf_phase' = "explore"
        /\ spf_roots' = spf_roots /\ spf_cost' = spf_cost
    BY DEF SpfInv, SpfDequeue, spfConfigVars
  <1>2. /\ spf_node \in RtNode /\ SpfOwned(spf_hops, root) /\ spf_roots \in Seq(RtNode)
        /\ spf_roots # <<>> /\ root \in RtNode
    <2>1. spf_roots \in Seq(RtNode) /\ spf_roots # <<>> /\ spf_node \in RtNode
          /\ SpfOwned(spf_hops, root)
      BY <1>1 DEF SpfSorts, SpfLoop
    <2>2. root \in RtNode
      BY <2>1, HeadTailProperties
    <2>3. QED
      BY <2>1, <2>2
  <1>3. /\ SpfData \in SpfScratch /\ SpfQueued(SpfData)
        /\ SpfData.queue = spf_queue /\ SpfData.hops = spf_hops /\ SpfData.metric = spf_metric
        /\ SpfData'.hops = spf_hops'
        /\ spf_queue \in Seq(RtNode) /\ spf_hops \in [RtNode -> SpfArray]
        /\ spf_metric \in [RtNode -> Nat]
        /\ spf_results \in [RtNode -> Seq(SpfEntry)]
    BY <1>1 DEF SpfSorts, SpfLoop, SpfData, SpfScratch
  <1>4. n \in RtNode /\ n = spf_queue[1] /\ Tail(spf_queue) \in Seq(RtNode)
        /\ Len(spf_queue) \in Nat /\ Len(spf_queue) >= 1
        /\ Len(Tail(spf_queue)) = Len(spf_queue) - 1
        /\ \A k \in 1 .. Len(spf_queue) - 1 : Tail(spf_queue)[k] = spf_queue[k + 1]
    <2>1. n \in RtNode /\ Tail(spf_queue) \in Seq(RtNode)
          /\ Len(Tail(spf_queue)) = Len(spf_queue) - 1
          /\ \A k \in 1 .. Len(Tail(spf_queue)) : Tail(spf_queue)[k] = spf_queue[k + 1]
      BY <1>1, <1>3, HeadTailProperties
    <2>2. Len(spf_queue) \in Nat /\ Len(spf_queue) >= 1
      BY <1>1, <1>3, EmptySeq
    <2>3. QED
      BY <1>1, <1>3, <2>1, <2>2
  <1>5. /\ d \in SpfScratch /\ d.metric = spf_metric /\ d.queue = spf_queue
        /\ SpfOwned(d.hops, root)
        /\ \A i \in RtIntf : SpfSpare(d, i) = SpfSpare(SpfData, i)
    <2>1. /\ d \in SpfScratch /\ d.metric = spf_metric /\ d.queue = spf_queue
          /\ d.hops = [spf_hops EXCEPT ![spf_node] = SpfEmpty]
          /\ \A i \in RtIntf : SpfSpare(d, i) = SpfSpare(SpfData, i)
      BY <1>2, <1>3, SpfFlushIs
    <2> HIDE DEF d
    <2>2. SpfOwned([spf_hops EXCEPT ![spf_node] = SpfEmpty], root)
      BY <1>2, <1>3, SpfFlushOwned
    <2>3. QED
      BY <2>1, <2>2
  <1>6. u \in SpfArray /\ \A k \in RtPlace : u[k] # RtNoHop => u[k][1] = root
    <2>1. spf_hops[n] \in SpfArray /\ SpfEmpty \in SpfArray
      BY <1>3, <1>4, SpfEmptyIs
    <2>2. \A k \in RtPlace : spf_hops[n][k] # RtNoHop => spf_hops[n][k][1] = root
      BY <1>2, <1>4 DEF SpfOwned
    <2>3. \A k \in RtPlace : SpfEmpty[k] # RtNoHop => SpfEmpty[k][1] = root
      BY DEF SpfEmpty
    <2> DEFINE src == spf_hops[n]
    <2> HIDE DEF n, root
    <2>4. src \in SpfArray /\ \A k \in RtPlace : src[k] # RtNoHop => src[k][1] = root
      BY <2>1, <2>2
    <2>5. u = SpfUnion(src, SpfEmpty)
      OBVIOUS
    <2> HIDE DEF src, u
    <2>6. u \in SpfArray
      BY <2>1, <2>4, <2>5, SpfUnionIs
    <2>7. \A k \in RtPlace : SpfUnion(src, SpfEmpty)[k] # RtNoHop
                              => SpfUnion(src, SpfEmpty)[k][1] = root
      BY <2>1, <2>3, <2>4, SpfUnionOwned
    <2>8. QED
      BY <2>5, <2>6, <2>7
  <1> HIDE DEF u, d
  <1>7. r \in SpfEntry /\ r.hops = u
    BY <1>3, <1>4, <1>6 DEF SpfEntry
  <1>8. \A i \in RtIntf : SpfCount(u, i) \in Nat
    <2>1. \A i : SpfCount(u, i) \in Nat
      <3>1. ASSUME NEW i PROVE SpfCount(u, i) \in Nat
        <4> DEFINE f == [k \in {1} |-> u]
        <4>1. SpfCount(f[1], i) \in Nat
          BY SpfTimesOne
        <4>2. QED
          BY <4>1
      <3>2. QED
        BY <3>1
    <2>2. QED
      BY <2>1
  <1>9. refs \in [RtIntf -> Int]
    <2>1. d.refs \in [RtIntf -> Int]
      BY <1>5 DEF SpfScratch
    <2>2. QED
      BY <1>8, <2>1
  <1>10. e = [d EXCEPT !.queue = Tail(spf_queue), !.refs = refs]
    BY <1>5 DEF SpfScratch
  <1>11. \A i \in RtIntf : refs[i] = d.refs[i] + SpfCount(u, i)
    OBVIOUS
  <1> HIDE DEF refs, e
  <1>12. /\ e \in SpfScratch /\ e.metric = spf_metric /\ e.queue = Tail(spf_queue)
         /\ e.hops = d.hops /\ e.refs = refs
    BY <1>4, <1>5, <1>9, <1>10 DEF SpfScratch
  <1>13. SpfData' = e
    BY <1>1, <1>12, SpfSetDataIs
  <1>14. ASSUME NEW i \in RtIntf
         PROVE  SpfSpare(e, i) = SpfSpare(SpfData, i) + SpfCount(u, i)
                /\ SpfSpare(SpfData, i) \in Int
    <2>1. SpfTimes(RtNode, d.hops, i) \in Nat /\ d.refs[i] \in Int /\ SpfSpare(SpfData, i) \in Int
      BY <1>3, <1>5, SpfSpareType DEF SpfScratch
    <2>2. SpfSpare(e, i) = SpfSpare(d, i) + SpfCount(u, i)
      BY <1>8, <1>11, <1>12, <2>1 DEF SpfSpare
    <2>3. QED
      BY <1>5, <2>1, <2>2
  <1>15. SpfQueued(e)
    <2> DEFINE k == Len(spf_queue)
               t == Tail(spf_queue)
    <2>1. k \in Nat /\ Len(t) = k - 1 /\ \A j \in 1 .. k - 1 : t[j] = spf_queue[j + 1]
      BY <1>4
    <2>2. /\ \A j, l \in 1 .. k : spf_queue[j] = spf_queue[l] => j = l
          /\ \A j, l \in 1 .. k : j < l => spf_metric[spf_queue[j]] <= spf_metric[spf_queue[l]]
      BY <1>3 DEF SpfQueued, KlDistinct, KlSorted
    <2> HIDE DEF k, t
    <2>3. ASSUME NEW j \in 1 .. k - 1, NEW l \in 1 .. k - 1
          PROVE  /\ t[j] = t[l] => j = l
                 /\ j < l => spf_metric[t[j]] <= spf_metric[t[l]]
      <3>1. j + 1 \in 1 .. k /\ l + 1 \in 1 .. k /\ (j < l => j + 1 < l + 1)
            /\ (j + 1 = l + 1 => j = l)
        BY <2>1
      <3>2. t[j] = spf_queue[j + 1] /\ t[l] = spf_queue[l + 1]
        BY <2>1
      <3>3. QED
        BY <2>2, <3>1, <3>2
    <2>4. KlDistinct(t) /\ KlSorted(t, spf_metric)
      BY <2>1, <2>3 DEF KlDistinct, KlSorted
    <2>5. QED
      BY <1>12, <2>4 DEF t, SpfQueued
  <1>16. /\ old \in Seq(SpfEntry) /\ <<r>> \o old \in Seq(SpfEntry)
         /\ Len(<<r>> \o old) = Len(old) + 1 /\ Len(old) \in Nat
         /\ \A k \in 1 .. Len(old) + 1 : (<<r>> \o old)[k] = IF k = 1 THEN r ELSE old[k - 1]
         /\ \A i : SpfFoundTimes(<<r>> \o old, i) = SpfCount(u, i) + SpfFoundTimes(old, i)
    <2>1. old \in Seq(SpfEntry) /\ Len(old) \in Nat
      BY <1>2, <1>3, LenProperties
    <2> HIDE DEF r, old
    <2>2. QED
      BY <1>7, <2>1, SpfFoundMore
  <1>17. /\ spf_results' \in [RtNode -> Seq(SpfEntry)]
         /\ spf_results'[root] = <<r>> \o old
         /\ \A m \in RtNode : m # root => spf_results'[m] = spf_results[m]
    BY <1>1, <1>2, <1>3, <1>16
  <1>18. SpfSorts'
    <2>1. spf_left' \in Seq(RtIntf) /\ KlDistinct(spf_left')
      <3> HIDE DEF n
      <3>1. QED
        BY <1>1, <1>4, SpfSlotsAre
    <2> HIDE DEF n, root, r, old
    <2>2. QED
      BY <1>1, <1>2, <1>4, <1>12, <1>13, <1>17, <2>1 DEF SpfSorts, SpfPhase
  <1>19. SpfLoop'
    <2>1. SpfOwned(spf_hops', root)
      BY <1>3, <1>5, <1>12, <1>13
    <2>2. QED
      BY <1>1, <1>13, <1>15, <2>1 DEF SpfLoop
  <1>20. SpfOwnResults'
    <2> SUFFICES ASSUME NEW m \in RtNode, NEW k \in 1 .. Len(spf_results'[m]), NEW p \in RtPlace,
                        spf_results'[m][k].hops[p] # RtNoHop
                 PROVE  spf_results'[m][k].hops[p][1] = m
      BY DEF SpfOwnResults
    <2>1. CASE m # root
      BY <1>1, <1>17, <2>1 DEF SpfOwnResults
    <2>2. CASE m = root /\ k = 1
      <3>1. 1 \in 1 .. Len(old) + 1
        BY <1>16
      <3> HIDE DEF r, old
      <3>2. spf_results'[m][k] = r
        BY <1>16, <1>17, <2>2, <3>1
      <3>3. QED
        BY <1>6, <1>7, <2>2, <3>2
    <2>3. CASE m = root /\ k # 1
      <3>1. k \in 1 .. Len(old) + 1 /\ k - 1 \in 1 .. Len(old)
        BY <1>16, <1>17, <2>3
      <3>2. spf_results'[m][k] = old[k - 1]
        BY <1>16, <1>17, <2>3, <3>1
      <3>3. QED
        BY <1>1, <1>2, <2>3, <3>1, <3>2 DEF SpfOwnResults
    <2>4. QED
      BY <2>1, <2>2, <2>3
  <1>21. SpfCovered'
    <2> SUFFICES ASSUME NEW i \in RtIntf
                 PROVE  SpfSpare(SpfData', i) >= SpfFoundTimes(spf_results'[i[1]], i)
      BY DEF SpfCovered
    <2> DEFINE now == spf_results[i[1]]
    <2>1. i[1] \in RtNode /\ now \in Seq(SpfEntry) /\ SpfFoundTimes(now, i) \in Nat
      BY <1>3, SpfIntfTyped, SpfFoundIs
    <2>2. SpfSpare(SpfData, i) >= SpfFoundTimes(now, i)
      BY <1>1 DEF SpfCovered
    <2>3. CASE i[1] = root
      <3>1. now = old
        BY <2>3
      <3>2. spf_results'[i[1]] = <<r>> \o old
        BY <1>17, <2>3
      <3>3. SpfFoundTimes(spf_results'[i[1]], i) = SpfCount(u, i) + SpfFoundTimes(now, i)
        BY <1>16, <3>1, <3>2
      <3> HIDE DEF now
      <3>4. QED
        BY <1>8, <1>13, <1>14, <2>1, <2>2, <3>3
    <2>4. CASE i[1] # root
      <3>1. spf_results'[i[1]] = now
        BY <1>17, <2>1, <2>4
      <3> HIDE DEF now
      <3>2. QED
        BY <1>8, <1>13, <1>14, <2>1, <2>2, <3>1
    <2>5. QED
      BY <2>3, <2>4
  <1>22. QED
    BY <1>18, <1>19, <1>20, <1>21 DEF SpfInv

LEMMA SpfClearInv == SpfInv /\ SpfClear => SpfInv'
  <1> SUFFICES ASSUME SpfInv, SpfClear PROVE SpfInv'
    OBVIOUS
  <1> DEFINE d == SpfFlush(SpfData, spf_node)
  <1>1. /\ SpfSorts /\ SpfLoop /\ SpfOwnResults /\ SpfCovered
        /\ spf_phase \in {"queue", "explore"} /\ spf_left = <<>>
        /\ SpfSetData(d) /\ spf_phase' = "install"
        /\ UNCHANGED <<spfConfigVars, spf_results, spf_roots, spf_left>>
    BY DEF SpfInv, SpfClear
  <1>2. spf_node \in RtNode /\ SpfData \in SpfScratch
    BY <1>1 DEF SpfSorts
  <1>3. /\ d \in SpfScratch /\ d.metric = SpfData.metric /\ d.queue = SpfData.queue
        /\ \A i \in RtIntf : SpfSpare(d, i) = SpfSpare(SpfData, i)
    BY <1>2, SpfFlushIs
  <1> HIDE DEF d
  <1>4. SpfData' = d
    BY <1>1, <1>3, SpfSetDataIs
  <1>5. SpfSorts'
    BY <1>1, <1>3, <1>4 DEF SpfSorts, SpfPhase, spfConfigVars
  <1>6. SpfLoop'
    <2>1. SpfQueued(d)
      BY <1>1, <1>3 DEF SpfLoop, SpfQueued
    <2>2. QED
      BY <1>1, <1>4, <2>1 DEF SpfLoop
  <1>7. SpfOwnResults'
    BY <1>1 DEF SpfOwnResults
  <1>8. SpfCovered'
    BY <1>1, <1>3, <1>4 DEF SpfCovered
  <1>9. QED
    BY <1>5, <1>6, <1>7, <1>8 DEF SpfInv

LEMMA SpfStepInv == SpfInv /\ [SpfNext]_spfVars => SpfInv'
  <1> SUFFICES ASSUME SpfInv, [SpfNext]_spfVars PROVE SpfInv'
    OBVIOUS
  <1>1. CASE SpfBegin
    BY <1>1, SpfBeginInv
  <1>2. CASE SpfNbr
    BY <1>2, SpfNbrInv
  <1>3. CASE SpfQueueRoot
    BY <1>3, SpfQueueRootInv
  <1>4. CASE SpfDequeue
    BY <1>4, SpfDequeueInv
  <1>5. CASE SpfClear
    BY <1>5, SpfClearInv
  <1>6. CASE SpfInstall
    BY <1>6, SpfInstallInv
  <1>7. CASE SpfFinish
    BY <1>7, SpfRestInv
  <1>8. CASE (\E n \in SpfRuns : RunSpf(<<n>>)) \/ RunSpf(SpfOrder)
    <2>1. \A n \in SpfRuns : <<n>> \in Seq(RtNode)
      BY SpfAssumption
    <2>2. \E roots \in Seq(RtNode) : RunSpf(roots)
      BY <1>8, <2>1, SpfAssumption
    <2>3. QED
      BY <2>2, SpfRestInv
  <1>9. CASE \/ \E i \in SpfTouched, cost \in SpfMetrics : ConfigIntf(i, cost, spf_up[i])
             \/ \E i \in SpfTouched : ConfigIntf(i, spf_cost[i[2]], ~spf_up[i])
    <2>1. \A i \in SpfTouched : i \in RtIntf /\ spf_cost[i[2]] \in Nat
      BY SpfAssumption, SpfIntfTyped DEF SpfInv, SpfSorts
    <2>2. SpfMetrics \subseteq Nat
      BY SpfAssumption
    <2>3. \E i \in RtIntf : \E cost \in Nat : \E up : ConfigIntf(i, cost, up)
      BY <1>9, <2>1, <2>2
    <2>4. QED
      BY <2>3, SpfRestInv
  <1>10. CASE UNCHANGED spfVars
    <2>1. UNCHANGED <<spfConfigVars, spfDataVars, spfLoopVars>>
      BY <1>10 DEF spfVars
    <2>2. /\ SpfData' = SpfData /\ spf_hops' = spf_hops /\ spf_queue' = spf_queue
          /\ spf_results' = spf_results
          /\ SpfOwnResults' /\ SpfCovered' /\ SpfQueued(SpfData')
      BY <2>1, SpfSameData
    <2>3. SpfSorts'
      BY <2>1, <2>2 DEF SpfInv, SpfSorts, spfConfigVars, spfLoopVars
    <2>4. SpfLoop'
      BY <2>1, <2>2 DEF SpfInv, SpfLoop, spfLoopVars
    <2>5. QED
      BY <2>2, <2>3, <2>4 DEF SpfInv
  <1>11. QED
    BY <1>1, <1>2, <1>3, <1>4, <1>5, <1>6, <1>7, <1>8, <1>9, <1>10 DEF SpfNext

\* No next hop is freed while an array of a node or of a result holds it
\* (spf_flush_nexthops asserts that its count is not zero): for any network,
\* any costs and states of the interfaces, and any number of next hops.
THEOREM SpfAlwaysHeld == SpfSpec => []SpfHeld
  <1>1. SpfInit => SpfInv
    BY SpfInitInv
  <1>2. SpfInv /\ [SpfNext]_spfVars => SpfInv'
    BY SpfStepInv
  <1>3. SpfInv => SpfHeld
    BY SpfInvHeld
  <1>4. QED
    BY <1>1, <1>2, <1>3, PTL DEF SpfSpec


-----------------------------------------------------------------------------
(* A run, as one value: the interfaces that are up at both ends, the costs *)
(* and the root; the results so far, the scratch data; and the interfaces  *)
(* the run has looked through.                                             *)

SpfView == [bi : SUBSET RtIntf, cost : [RtLink -> 1 .. SpfMaxMetric], root : RtNode,
            res : Seq(SpfEntry), metric : [RtNode -> Nat], hops : [RtNode -> SpfArray],
            done : SUBSET RtIntf]

\* The nodes that have their result, and those that have a metric.
SpfRecs(s) == {s.res[k].node : k \in 1 .. Len(s.res)}
SpfKnown(s) == {n \in RtNode : n # s.root /\ s.metric[n] < SpfInfinite}

\* The next hop h may lead to the node n with the metric v: it is the root's
\* link to n, or a next hop of the node before n.
SpfVia(s, n, v, h) ==
    \/ h \in s.bi /\ h[1] = s.root /\ RtPeer[h][1] = n /\ s.cost[h[2]] = v
    \/ \E k \in 1 .. Len(s.res) : \E i \in s.bi :
         /\ i[1] = s.res[k].node /\ RtPeer[i][1] = n
         /\ s.res[k].metric + s.cost[i[2]] = v
         /\ \E p \in RtPlace : s.res[k].hops[p] = h

\* The array holds a next hop, and only such.
SpfRightHops(s, n, v, h) ==
    h[0] # RtNoHop /\ \A p \in RtPlace : h[p] # RtNoHop => SpfVia(s, n, v, h[p])

\* The results are of different nodes, and of none at the metric INFINITE_METRIC.
SpfRecorded1(s) ==
    /\ \A j, k \in 1 .. Len(s.res) : s.res[j].node = s.res[k].node => j = k
    /\ \A k \in 1 .. Len(s.res) :
         s.res[k].node \in SpfKnown(s) /\ s.res[k].metric = s.metric[s.res[k].node]

\* Metrics: no interface looked through offers a shorter way, and one of them
\* attains the metric of each node; the nodes that are not recorded are no
\* nearer than those that are; and the metrics have not reached
\* INFINITE_METRIC.
SpfMetricsRight(s) ==
    /\ s.metric[s.root] = 0
    /\ \A n \in RtNode : n # s.root => s.metric[n] >= 1 /\ s.metric[n] <= SpfInfinite
    /\ \A i \in s.done : i \in s.bi /\ i[1] \in SpfRecs(s) \cup {s.root}
                         /\ s.metric[RtPeer[i][1]] <= s.metric[i[1]] + s.cost[i[2]]
    /\ \A n \in SpfKnown(s) : \E i \in s.done :
         RtPeer[i][1] = n /\ s.metric[n] = s.metric[i[1]] + s.cost[i[2]]
    /\ \A n \in SpfKnown(s) \ SpfRecs(s) : \A m \in SpfRecs(s) : s.metric[m] <= s.metric[n]
    /\ \A n \in SpfKnown(s) : s.metric[n] <= SpfMaxMetric * (Len(s.res) + 1)
    /\ \A n \in SpfRecs(s) : s.metric[n] <= SpfMaxMetric * Len(s.res)

\* Next hops, of the nodes to come and of the results.
SpfHopsRight(s) ==
    /\ \A n \in SpfKnown(s) \ SpfRecs(s) : SpfRightHops(s, n, s.metric[n], s.hops[n])
    /\ \A k \in 1 .. Len(s.res) :
         SpfRightHops(s, s.res[k].node, s.res[k].metric, s.res[k].hops)

SpfRight(s) == SpfRecorded1(s) /\ SpfMetricsRight(s) /\ SpfHopsRight(s)

-----------------------------------------------------------------------------
\* Unions keep a first next hop, and of an array into an empty one lose none.
LEMMA SpfUnionFirst ==
    ASSUME NEW src \in SpfArray, NEW dst \in SpfArray,
           dst[0] # RtNoHop \/ (dst = SpfEmpty /\ src[0] # RtNoHop)
    PROVE  SpfUnion(src, dst)[0] # RtNoHop
  <1> DEFINE u == SpfUnion(src, dst)
  <1>1. 0 \in RtPlace /\ u[0] = SpfUnionAt(src, dst, u, 0)
    BY SpfPlaces, SpfUnionIs
  <1>2. CASE dst[0] # RtNoHop
    <2>1. 0 < RtFree(dst)
      BY <1>1, <1>2, SpfFreeIs
    <2> HIDE DEF u
    <2>2. u[0] = dst[0]
      BY <1>1, <2>1 DEF SpfUnionAt
    <2>3. QED
      BY <1>2, <2>2 DEF u
  <1>3. CASE dst = SpfEmpty /\ src[0] # RtNoHop
    <2>1. \A j \in RtPlace : dst[j] = RtNoHop
      BY <1>3 DEF SpfEmpty
    <2>2. RtFree(dst) = 0
      BY <1>1, <2>1, SpfFreeIs
    <2>3. \A j \in RtPlace : ~(j < 0)
      BY SpfPlaces
    <2> HIDE DEF u
    <2>4. u[0] = src[0]
      BY <1>1, <1>3, <2>1, <2>2, <2>3 DEF SpfUnionAt
    <2>5. QED
      BY <1>3, <2>4 DEF u
  <1>4. QED
    BY <1>2, <1>3

LEMMA SpfUnionKeeps ==
    ASSUME NEW src \in SpfArray, NEW p \in RtPlace, src[p] # RtNoHop
    PROVE  \E j \in RtPlace : SpfUnion(src, SpfEmpty)[j] = src[p]
  <1> DEFINE u == SpfUnion(src, SpfEmpty)
  <1>1. SpfEmpty \in SpfArray /\ \A j \in RtPlace : SpfEmpty[j] = RtNoHop
    BY SpfEmptyIs DEF SpfEmpty
  <1>2. u[p] = SpfUnionAt(src, SpfEmpty, u, p)
    BY <1>1, SpfUnionIs
  <1>3. RtFree(SpfEmpty) = 0 /\ 0 \in RtPlace
    BY <1>1, SpfPlaces, SpfFreeIs
  <1>4. ~(p < 0) /\ p - 0 = p
    BY SpfPlaces
  <1> HIDE DEF u
  <1>5. u[p] = src[p] \/ \E j \in RtPlace : j < p /\ u[j] = src[p]
    BY <1>1, <1>2, <1>3, <1>4 DEF SpfUnionAt
  <1>6. QED
    BY <1>5 DEF u

\* A place of a union holds a next hop of one of the two.
LEMMA SpfUnionFrom ==
    ASSUME NEW src \in SpfArray, NEW dst \in SpfArray, NEW p \in RtPlace
    PROVE  \/ SpfUnion(src, dst)[p] = dst[p]
           \/ \E j \in RtPlace : SpfUnion(src, dst)[p] = src[j] /\ src[j] # RtNoHop
  <1>1. CASE SpfUnion(src, dst)[p] # dst[p]
    <2>1. /\ SpfUnion(src, dst)[p] # RtNoHop
          /\ p - RtFree(dst) \in RtPlace
          /\ SpfUnion(src, dst)[p] = src[p - RtFree(dst)]
      BY <1>1, SpfUnionHolds
    <2>2. QED
      BY <2>1
  <1>2. QED
    BY <1>1

\* There are fewer results than nodes.
LEMMA SpfFewResults ==
    ASSUME NEW s \in SpfView, SpfRecorded1(s)
    PROVE  /\ Len(s.res) \in Nat /\ Cardinality(RtNode) \in Nat
           /\ Len(s.res) + 1 <= Cardinality(RtNode)
           /\ SpfMaxMetric * (Len(s.res) + 1) < SpfInfinite
           /\ SpfMaxMetric * (Len(s.res) + 1) = SpfMaxMetric * Len(s.res) + SpfMaxMetric
           /\ SpfMaxMetric * Len(s.res) \in Nat
  <1> DEFINE n == Len(s.res)
             order == [k \in 1 .. n |-> s.res[k].node]
             S == RtNode \ {s.root}
  <1>1. n \in Nat /\ s.res \in Seq(SpfEntry) /\ s.root \in RtNode
    BY LenProperties DEF SpfView
  <1>2. \A k \in 1 .. n : s.res[k].node \in S
    BY DEF SpfRecorded1, SpfKnown
  <1>3. /\ IsFiniteSet(RtNode) /\ Cardinality(RtNode) \in Nat
        /\ IsFiniteSet(S) /\ Cardinality(S) = Cardinality(RtNode) - 1
    BY <1>1, SpfNodesFinite, FS_CardinalityType, FS_RemoveElement
  <1>4. order \in [1 .. n -> S]
    BY <1>2
  <1>5. order \in Seq(S) /\ Len(order) = n
    <2> HIDE DEF order, S, n
    <2>1. QED
      BY <1>1, <1>4, SeqDef, LenProperties
  <1>6. KlDistinct(order)
    <2>1. \A j, k \in 1 .. n : order[j] = order[k] => j = k
      BY DEF SpfRecorded1
    <2>2. QED
      BY <1>5, <2>1 DEF KlDistinct
  <1> HIDE DEF n, order, S
  <1>7. n <= Cardinality(S)
    BY <1>3, <1>5, <1>6, KlLength
  <1>8. n + 1 <= Cardinality(RtNode)
    BY <1>1, <1>3, <1>7
  <1>9. SpfMaxMetric \in Nat /\ SpfInfinite \in Nat
    BY SpfAssumption
  <1>10. SpfMaxMetric * (n + 1) = SpfMaxMetric * n + SpfMaxMetric /\ SpfMaxMetric * n \in Nat
    BY <1>1, <1>9
  <1>11. SpfMaxMetric * (n + 1) <= SpfMaxMetric * Cardinality(RtNode)
    <2> DEFINE N == Cardinality(RtNode)
    <2>1. N \in Nat /\ n + 1 <= N
      BY <1>3, <1>8
    <2> HIDE DEF N
    <2>2. SpfMaxMetric * N = SpfMaxMetric * (n + 1) + SpfMaxMetric * (N - (n + 1))
      BY <1>1, <1>9, <2>1
    <2>3. N - (n + 1) \in Nat
      BY <1>1, <2>1
    <2>4. SpfMaxMetric * (N - (n + 1)) \in Nat
      BY <1>9, <2>3
    <2>5. SpfMaxMetric * (n + 1) \in Nat
      BY <1>1, <1>9
    <2>6. QED
      BY <2>2, <2>4, <2>5 DEF N
  <1>12. SpfMaxMetric * Cardinality(RtNode) < SpfInfinite
    <2>1. SpfMaxMetric * Cardinality(RtNode) = Cardinality(RtNode) * SpfMaxMetric
      BY <1>3, <1>9
    <2>2. QED
      BY <2>1, SpfFits
  <1>13. SpfMaxMetric * (n + 1) \in Nat /\ SpfMaxMetric * Cardinality(RtNode) \in Nat
    BY <1>1, <1>3, <1>9
  <1>14. SpfMaxMetric * (n + 1) < SpfInfinite
    BY <1>9, <1>11, <1>12, <1>13
  <1>15. QED
    BY <1>1, <1>3, <1>8, <1>10, <1>14 DEF n

-----------------------------------------------------------------------------
(* The steps of a run, on such values.                                     *)

\* Two moments of a run with the same results.
SpfSameRun(s, t) == t.bi = s.bi /\ t.cost = s.cost /\ t.root = s.root /\ t.res = s.res

LEMMA SpfSameRunIs ==
    ASSUME NEW s \in SpfView, NEW t \in SpfView, SpfSameRun(s, t)
    PROVE  /\ SpfRecs(t) = SpfRecs(s)
           /\ \A n, v, h : SpfRightHops(s, n, v, h) => SpfRightHops(t, n, v, h)
  <1>1. SpfRecs(t) = SpfRecs(s)
    BY DEF SpfRecs, SpfSameRun
  <1>2. \A n, v, h : SpfVia(s, n, v, h) => SpfVia(t, n, v, h)
    BY DEF SpfVia, SpfSameRun
  <1>3. QED
    BY <1>1, <1>2 DEF SpfRightHops

\* What an interface of the node that is looked at offers.
SpfOffer(s, i) == s.metric[i[1]] + s.cost[i[2]]

\* It is more than the metric of that node, and fits.
LEMMA SpfOfferIs ==
    ASSUME NEW s \in SpfView, SpfRecorded1(s), SpfMetricsRight(s), NEW i \in s.bi,
           i[1] \in SpfRecs(s) \cup {s.root}
    PROVE  /\ i \in RtIntf /\ i[1] \in RtNode /\ i[2] \in RtLink /\ RtPeer[i][1] \in RtNode
           /\ s.metric[i[1]] \in Nat /\ s.cost[i[2]] \in Nat /\ s.cost[i[2]] >= 1
           /\ SpfOffer(s, i) \in Nat /\ SpfOffer(s, i) > s.metric[i[1]]
           /\ SpfOffer(s, i) <= SpfMaxMetric * (Len(s.res) + 1) /\ SpfOffer(s, i) < SpfInfinite
           /\ /\ \A m \in SpfRecs(s) : s.metric[m] <= s.metric[i[1]]
              /\ SpfOffer(s, i) <= s.metric[RtPeer[i][1]]
              => RtPeer[i][1] \notin SpfRecs(s) \cup {s.root}
  <1> DEFINE v == SpfOffer(s, i)
             n == RtPeer[i][1]
             a == s.metric[i[1]]
             c == s.cost[i[2]]
             most == SpfMaxMetric * Len(s.res)
  <1>1. i \in RtIntf /\ i[1] \in RtNode /\ i[2] \in RtLink /\ n \in RtNode
    <2>1. i \in RtIntf
      BY DEF SpfView
    <2>2. QED
      BY <2>1, SpfIntfTyped, SpfPeers
  <1>2. s.metric \in [RtNode -> Nat] /\ s.cost \in [RtLink -> 1 .. SpfMaxMetric] /\ SpfMaxMetric \in Nat
        /\ s.root \in RtNode /\ SpfInfinite \in Nat
    BY SpfAssumption DEF SpfView
  <1>3. a \in Nat /\ c \in Nat /\ c >= 1 /\ c <= SpfMaxMetric /\ s.metric[n] \in Nat
    <2>1. c \in 1 .. SpfMaxMetric
      BY <1>1, <1>2
    <2>2. a \in Nat /\ s.metric[n] \in Nat
      BY <1>1, <1>2
    <2> HIDE DEF c, a
    <2>3. QED
      BY <1>2, <2>1, <2>2
  <1>4. v = a + c
    BY DEF SpfOffer
  <1>5. s.metric[s.root] = 0 /\ \A m \in SpfRecs(s) : s.metric[m] <= most
    BY DEF SpfMetricsRight
  <1>6. most \in Nat /\ SpfMaxMetric * (Len(s.res) + 1) < SpfInfinite
        /\ SpfMaxMetric * (Len(s.res) + 1) = most + SpfMaxMetric
    BY SpfFewResults
  <1>7. a <= most
    BY <1>5, <1>6
  <1> HIDE DEF v, a, c, n, most
  <1>8. v \in Nat /\ v > a /\ v <= most + SpfMaxMetric
    BY <1>2, <1>3, <1>4, <1>6, <1>7
  <1>9. ASSUME v <= s.metric[n], \A m \in SpfRecs(s) : s.metric[m] <= a PROVE n \notin SpfRecs(s) \cup {s.root}
    <2>1. n # s.root
      BY <1>3, <1>5, <1>8, <1>9
    <2>2. n \in SpfRecs(s) => s.metric[n] <= a
      BY <1>9
    <2>3. QED
      BY <1>3, <1>8, <1>9, <2>1, <2>2
  <1>10. v < SpfInfinite /\ v <= SpfMaxMetric * (Len(s.res) + 1)
    BY <1>2, <1>6, <1>8
  <1>11. QED
    BY <1>1, <1>3, <1>8, <1>9, <1>10 DEF v, a, c, n

\* An interface that offers no way as short.
LEMMA SpfFarther ==
    ASSUME NEW s \in SpfView, NEW t \in SpfView, SpfSameRun(s, t), SpfRight(s), NEW i \in s.bi,
           i[1] \in SpfRecs(s) \cup {s.root}, SpfOffer(s, i) > s.metric[RtPeer[i][1]],
           \A m \in SpfRecs(s) : s.metric[m] <= s.metric[i[1]],
           t.metric = s.metric, t.hops = s.hops, t.done = s.done \cup {i}
    PROVE  SpfRight(t) /\ SpfKnown(t) = SpfKnown(s)
  <1>1. SpfKnown(t) = SpfKnown(s) /\ t.root = s.root /\ t.res = s.res /\ t.bi = s.bi /\ t.cost = s.cost
    BY DEF SpfKnown, SpfSameRun
  <1>2. SpfRecs(t) = SpfRecs(s)
        /\ \A n, v, h : SpfRightHops(s, n, v, h) => SpfRightHops(t, n, v, h)
    BY SpfSameRunIs
  <1>3. s.metric[RtPeer[i][1]] <= s.metric[i[1]] + s.cost[i[2]]
    <2>1. SpfOffer(s, i) \in Nat /\ RtPeer[i][1] \in RtNode
      BY SpfOfferIs DEF SpfRight
    <2>2. s.metric[RtPeer[i][1]] \in Nat
      BY <2>1 DEF SpfView
    <2>3. QED
      BY <2>1, <2>2 DEF SpfOffer
  <1>4. SpfRecorded1(t)
    BY <1>1 DEF SpfRight, SpfRecorded1
  <1>5. SpfMetricsRight(t)
    BY <1>1, <1>2, <1>3 DEF SpfRight, SpfMetricsRight
  <1>6. SpfHopsRight(t)
    BY <1>1, <1>2 DEF SpfRight, SpfHopsRight
  <1>7. QED
    BY <1>1, <1>4, <1>5, <1>6 DEF SpfRight

\* An interface that offers a way as short or shorter, which gives the node the
\* array h.
LEMMA SpfNearer ==
    ASSUME NEW s \in SpfView, NEW t \in SpfView, SpfSameRun(s, t), SpfRight(s), NEW i \in s.bi,
           i[1] \in SpfRecs(s) \cup {s.root}, SpfOffer(s, i) <= s.metric[RtPeer[i][1]],
           \A m \in SpfRecs(s) : s.metric[m] <= s.metric[i[1]],
           NEW h \in SpfArray,
           t.metric = [s.metric EXCEPT ![RtPeer[i][1]] = SpfOffer(s, i)],
           t.hops = [s.hops EXCEPT ![RtPeer[i][1]] = h], t.done = s.done \cup {i},
           SpfRightHops(s, RtPeer[i][1], SpfOffer(s, i), h)
    PROVE  SpfRight(t) /\ SpfKnown(t) = SpfKnown(s) \cup {RtPeer[i][1]}
  <1> DEFINE n == RtPeer[i][1]
             v == SpfOffer(s, i)
             a == s.metric[i[1]]
             c == s.cost[i[2]]
  <1>1. /\ i[1] \in RtNode /\ n \in RtNode /\ a \in Nat /\ c \in Nat /\ v \in Nat /\ v > a /\ v = a + c
        /\ c >= 1 /\ v <= SpfMaxMetric * (Len(s.res) + 1) /\ v < SpfInfinite
        /\ n \notin SpfRecs(s) \cup {s.root}
    BY SpfOfferIs DEF SpfRight, SpfOffer
  <1>2. /\ t.root = s.root /\ t.res = s.res /\ t.bi = s.bi /\ t.cost = s.cost
        /\ SpfRecs(t) = SpfRecs(s)
        /\ \A m, w, g : SpfRightHops(s, m, w, g) => SpfRightHops(t, m, w, g)
    BY SpfSameRunIs DEF SpfSameRun
  <1>3. /\ s.metric \in [RtNode -> Nat] /\ s.hops \in [RtNode -> SpfArray] /\ SpfInfinite \in Nat
        /\ \A j \in s.bi : j \in RtIntf /\ RtPeer[j][1] \in RtNode /\ j[1] \in RtNode
                           /\ s.cost[j[2]] \in Nat
    <2>1. s.cost \in [RtLink -> 1 .. SpfMaxMetric] /\ s.bi \subseteq RtIntf
      BY DEF SpfView
    <2>2. \A j \in s.bi : j \in RtIntf /\ RtPeer[j][1] \in RtNode /\ j[1] \in RtNode
                          /\ j[2] \in RtLink
      BY <2>1, SpfIntfTyped, SpfPeers
    <2>3. \A j \in s.bi : s.cost[j[2]] \in 1 .. SpfMaxMetric
      BY <2>1, <2>2
    <2>4. SpfMaxMetric \in Nat /\ SpfInfinite \in Nat
      BY SpfAssumption
    <2>5. \A j \in s.bi : s.cost[j[2]] \in Nat
      BY <2>3, <2>4
    <2>6. QED
      BY <2>2, <2>4, <2>5 DEF SpfView
  <1> HIDE DEF n, v, a, c
  <1>4. /\ \A m \in RtNode : m # n => t.metric[m] = s.metric[m] /\ t.hops[m] = s.hops[m]
        /\ t.metric[n] = v /\ t.hops[n] = h
        /\ v <= s.metric[n]
    BY <1>1, <1>3 DEF n, v
  <1>5. \A m \in RtNode : s.metric[m] \in Nat /\ t.metric[m] \in Nat /\ t.metric[m] <= s.metric[m]
    BY <1>1, <1>3, <1>4
  <1>6. SpfKnown(t) = SpfKnown(s) \cup {n}
    BY <1>1, <1>2, <1>3, <1>4, <1>5 DEF SpfKnown
  <1>7. \A k \in 1 .. Len(s.res) : s.res[k].node # n
    BY <1>1 DEF SpfRecs
  <1>8. SpfRecorded1(t)
    <2>1. \A k \in 1 .. Len(s.res) :
            s.res[k].node \in SpfKnown(s) /\ s.res[k].metric = s.metric[s.res[k].node]
      BY DEF SpfRight, SpfRecorded1
    <2>2. \A k \in 1 .. Len(s.res) : s.res[k].node \in SpfKnown(t) /\ s.res[k].node \in RtNode
      BY <1>6, <2>1 DEF SpfKnown
    <2>3. \A k \in 1 .. Len(s.res) : s.res[k].metric = t.metric[s.res[k].node]
      BY <1>4, <1>7, <2>1, <2>2
    <2>4. QED
      BY <1>2, <2>2, <2>3 DEF SpfRight, SpfRecorded1
  <1>9. \A m \in SpfRecs(s) \cup {s.root} : m \in RtNode /\ t.metric[m] = s.metric[m]
    <2>1. SpfRecs(s) \subseteq RtNode /\ s.root \in RtNode
      BY DEF SpfRight, SpfRecorded1, SpfRecs, SpfKnown, SpfView
    <2>2. QED
      BY <1>1, <1>4, <2>1
  <1>10. SpfMetricsRight(t)
    <2>1. SpfMetricsRight(s)
      BY DEF SpfRight
    <2>2. t.metric[t.root] = 0
      BY <1>2, <1>9, <2>1 DEF SpfMetricsRight
    <2>3. \A m \in RtNode : m # t.root => t.metric[m] >= 1 /\ t.metric[m] <= SpfInfinite
      <3>1. \A m \in RtNode : m # s.root => s.metric[m] >= 1 /\ s.metric[m] <= SpfInfinite
        BY <2>1 DEF SpfMetricsRight
      <3>2. QED
        BY <1>1, <1>2, <1>3, <1>4, <3>1
    <2>4. ASSUME NEW j \in t.done
          PROVE  j \in t.bi /\ j[1] \in SpfRecs(t) \cup {t.root}
                 /\ t.metric[RtPeer[j][1]] <= t.metric[j[1]] + t.cost[j[2]]
      <3>1. CASE j \in s.done
        <4>1. j \in s.bi /\ j[1] \in SpfRecs(s) \cup {s.root}
              /\ s.metric[RtPeer[j][1]] <= s.metric[j[1]] + s.cost[j[2]]
          BY <2>1, <3>1 DEF SpfMetricsRight
        <4>2. t.metric[j[1]] = s.metric[j[1]] /\ t.metric[RtPeer[j][1]] <= s.metric[RtPeer[j][1]]
          BY <1>3, <1>5, <1>9, <4>1
        <4>3. s.metric[j[1]] \in Nat /\ s.cost[j[2]] \in Nat /\ s.metric[RtPeer[j][1]] \in Nat
              /\ t.metric[RtPeer[j][1]] \in Nat
          BY <1>3, <1>5, <4>1
        <4>4. QED
          BY <1>2, <4>1, <4>2, <4>3
      <3>2. CASE j = i
        <4>1. t.metric[RtPeer[j][1]] = v /\ t.metric[j[1]] = a /\ t.cost[j[2]] = c
          BY <1>2, <1>4, <1>9, <3>2 DEF n, a, c
        <4>2. QED
          BY <1>1, <1>2, <3>2, <4>1
      <3>3. QED
        BY <3>1, <3>2
    <2>5. ASSUME NEW m \in SpfKnown(t)
          PROVE  \E j \in t.done : RtPeer[j][1] = m /\ t.metric[m] = t.metric[j[1]] + t.cost[j[2]]
      <3>1. CASE m = n
        <4>1. RtPeer[i][1] = n /\ t.metric[n] = v /\ t.metric[i[1]] = a /\ t.cost[i[2]] = c
          BY <1>2, <1>4, <1>9 DEF n, a, c
        <4>2. QED
          BY <1>1, <3>1, <4>1
      <3>2. CASE m # n
        <4>1. m \in SpfKnown(s) /\ m \in RtNode
          BY <1>6, <3>2 DEF SpfKnown
        <4>2. PICK j \in s.done : RtPeer[j][1] = m /\ s.metric[m] = s.metric[j[1]] + s.cost[j[2]]
          BY <2>1, <4>1 DEF SpfMetricsRight
        <4>3. j[1] \in SpfRecs(s) \cup {s.root}
          BY <2>1 DEF SpfMetricsRight
        <4>4. QED
          BY <1>2, <1>4, <1>9, <3>2, <4>1, <4>2, <4>3
      <3>3. QED
        BY <3>1, <3>2
    <2>6. ASSUME NEW m \in SpfKnown(t) \ SpfRecs(t), NEW x \in SpfRecs(t)
          PROVE  t.metric[x] <= t.metric[m]
      <3>1. t.metric[x] = s.metric[x] /\ x \in RtNode /\ x \in SpfRecs(s)
        BY <1>2, <1>9
      <3>2. CASE m = n
        <4>1. s.metric[x] <= a
          BY <3>1 DEF a
        <4>2. QED
          BY <1>1, <1>4, <1>5, <3>1, <3>2, <4>1
      <3>3. CASE m # n
        <4>1. m \in SpfKnown(s) \ SpfRecs(s) /\ m \in RtNode
          BY <1>2, <1>6, <3>3 DEF SpfKnown
        <4>2. s.metric[x] <= s.metric[m]
          BY <2>1, <3>1, <4>1 DEF SpfMetricsRight
        <4>3. QED
          BY <1>4, <3>1, <3>3, <4>1, <4>2
      <3>4. QED
        BY <3>2, <3>3
    <2>7. ASSUME NEW m \in SpfKnown(t) PROVE t.metric[m] <= SpfMaxMetric * (Len(t.res) + 1)
      <3>1. CASE m = n
        BY <1>1, <1>2, <1>4, <3>1
      <3>2. CASE m # n
        <4>1. m \in SpfKnown(s) /\ m \in RtNode
          BY <1>6, <3>2 DEF SpfKnown
        <4>2. s.metric[m] <= SpfMaxMetric * (Len(s.res) + 1)
          BY <2>1, <4>1 DEF SpfMetricsRight
        <4>3. QED
          BY <1>2, <1>4, <3>2, <4>1, <4>2
      <3>3. QED
        BY <3>1, <3>2
    <2>8. \A m \in SpfRecs(t) : t.metric[m] <= SpfMaxMetric * Len(t.res)
      BY <1>2, <1>9, <2>1 DEF SpfMetricsRight
    <2>9. QED
      BY <2>2, <2>3, <2>4, <2>5, <2>6, <2>7, <2>8 DEF SpfMetricsRight
  <1>11. SpfHopsRight(t)
    <2>1. SpfHopsRight(s)
      BY DEF SpfRight
    <2>2. ASSUME NEW m \in SpfKnown(t) \ SpfRecs(t)
          PROVE  SpfRightHops(t, m, t.metric[m], t.hops[m])
      <3>1. CASE m = n
        <4>1. SpfRightHops(s, n, v, h)
          BY DEF n, v
        <4>2. QED
          BY <1>2, <1>4, <3>1, <4>1
      <3>2. CASE m # n
        <4>1. m \in SpfKnown(s) \ SpfRecs(s) /\ m \in RtNode
          BY <1>2, <1>6, <3>2 DEF SpfKnown
        <4>2. SpfRightHops(s, m, s.metric[m], s.hops[m])
          BY <2>1, <4>1 DEF SpfHopsRight
        <4>3. QED
          BY <1>2, <1>4, <3>2, <4>1, <4>2
      <3>3. QED
        BY <3>1, <3>2
    <2>3. \A k \in 1 .. Len(t.res) :
            SpfRightHops(t, t.res[k].node, t.res[k].metric, t.res[k].hops)
      BY <1>2, <2>1 DEF SpfHopsRight
    <2>4. QED
      BY <2>2, <2>3 DEF SpfHopsRight
  <1>12. QED
    BY <1>6, <1>8, <1>10, <1>11 DEF SpfRight, n

\* The nearest of the nodes that are not recorded has its result recorded.
LEMMA SpfNearestRecorded ==
    ASSUME NEW s \in SpfView, NEW t \in SpfView, SpfRight(s),
           NEW n \in SpfKnown(s) \ SpfRecs(s),
           \A m \in SpfKnown(s) \ SpfRecs(s) : s.metric[n] <= s.metric[m],
           NEW h \in SpfArray, SpfRightHops(s, n, s.metric[n], h),
           t.bi = s.bi, t.cost = s.cost, t.root = s.root, t.metric = s.metric, t.done = s.done,
           t.res = <<[node |-> n, metric |-> s.metric[n], hops |-> h]>> \o s.res,
           \A m \in SpfKnown(s) \ SpfRecs(s) : m # n => t.hops[m] = s.hops[m]
    PROVE  SpfRight(t) /\ SpfKnown(t) = SpfKnown(s) /\ SpfRecs(t) = SpfRecs(s) \cup {n}
  <1> DEFINE r == [node |-> n, metric |-> s.metric[n], hops |-> h]
             len == Len(s.res)
  <1>1. /\ n \in RtNode /\ n # s.root /\ n \notin SpfRecs(s) /\ s.metric \in [RtNode -> Nat]
        /\ s.res \in Seq(SpfEntry) /\ r \in SpfEntry
    BY DEF SpfKnown, SpfView, SpfEntry
  <1>2. len \in Nat
    BY <1>1, LenProperties
  <1>3. Len(t.res) = len + 1 /\ \A k \in 1 .. len + 1 : t.res[k] = IF k = 1 THEN r ELSE s.res[k - 1]
    <2> HIDE DEF r
    <2>1. QED
      BY <1>1, KlPrepend DEF r
  <1> HIDE DEF len
  <1>4. /\ \A k \in 1 .. len : k + 1 \in 1 .. Len(t.res) /\ t.res[k + 1] = s.res[k]
        /\ 1 \in 1 .. Len(t.res) /\ t.res[1] = r
        /\ \A k \in 1 .. Len(t.res) : k = 1 \/ (k - 1 \in 1 .. len /\ t.res[k] = s.res[k - 1])
    <2> HIDE DEF r
    <2>1. ASSUME NEW k \in 1 .. len PROVE k + 1 \in 1 .. Len(t.res) /\ t.res[k + 1] = s.res[k]
      <3>1. k + 1 \in 1 .. len + 1 /\ k + 1 # 1 /\ (k + 1) - 1 = k
        BY <1>2
      <3>2. QED
        BY <1>3, <3>1
    <2>2. 1 \in 1 .. Len(t.res) /\ t.res[1] = r
      BY <1>2, <1>3
    <2>3. \A k \in 1 .. Len(t.res) : k = 1 \/ (k - 1 \in 1 .. len /\ t.res[k] = s.res[k - 1])
      BY <1>2, <1>3
    <2>4. QED
      BY <2>1, <2>2, <2>3
  <1>5. r.node = n /\ r.metric = s.metric[n] /\ r.hops = h
    OBVIOUS
  <1> HIDE DEF r
  <1>6. SpfKnown(t) = SpfKnown(s)
    BY DEF SpfKnown
  <1>7. SpfRecs(t) = SpfRecs(s) \cup {n}
    <2>1. ASSUME NEW k \in 1 .. Len(t.res) PROVE t.res[k].node \in SpfRecs(s) \cup {n}
      BY <1>4, <1>5 DEF SpfRecs, len
    <2>2. ASSUME NEW k \in 1 .. len PROVE s.res[k].node \in SpfRecs(t)
      <3>1. k + 1 \in 1 .. Len(t.res) /\ t.res[k + 1].node = s.res[k].node
        BY <1>4
      <3>2. QED
        BY <3>1 DEF SpfRecs
    <2>3. n \in SpfRecs(t)
      <3>1. t.res[1].node = n /\ 1 \in 1 .. Len(t.res)
        BY <1>4, <1>5
      <3>2. QED
        BY <3>1 DEF SpfRecs
    <2>4. SpfRecs(t) \subseteq SpfRecs(s) \cup {n}
      BY <2>1 DEF SpfRecs
    <2>5. SpfRecs(s) \subseteq SpfRecs(t)
      BY <2>2 DEF SpfRecs, len
    <2>6. QED
      BY <2>3, <2>4, <2>5
  <1>8. ASSUME NEW m, NEW v, NEW g, SpfRightHops(s, m, v, g) PROVE SpfRightHops(t, m, v, g)
    <2>1. ASSUME NEW x, SpfVia(s, m, v, x) PROVE SpfVia(t, m, v, x)
      <3>1. CASE x \in s.bi /\ x[1] = s.root /\ RtPeer[x][1] = m /\ s.cost[x[2]] = v
        BY <3>1 DEF SpfVia
      <3>2. ASSUME NEW k \in 1 .. len, NEW i \in s.bi,
                   i[1] = s.res[k].node /\ RtPeer[i][1] = m
                   /\ s.res[k].metric + s.cost[i[2]] = v
                   /\ \E p \in RtPlace : s.res[k].hops[p] = x
            PROVE  SpfVia(t, m, v, x)
        <4>1. k + 1 \in 1 .. Len(t.res) /\ t.res[k + 1] = s.res[k]
          BY <1>4
        <4>2. QED
          BY <3>2, <4>1 DEF SpfVia
      <3>3. QED
        BY <2>1, <3>1, <3>2 DEF SpfVia, len
    <2>2. QED
      BY <1>8, <2>1 DEF SpfRightHops
  <1>9. SpfRecorded1(s) /\ SpfMetricsRight(s) /\ SpfHopsRight(s)
    BY DEF SpfRight
  <1>10. SpfRecorded1(t)
    <2>1. \A k \in 1 .. len : s.res[k].node # n
      BY <1>1 DEF SpfRecs, len
    <2>2. \A j, k \in 1 .. len : s.res[j].node = s.res[k].node => j = k
      BY <1>9 DEF SpfRecorded1, len
    <2>3. ASSUME NEW j \in 1 .. Len(t.res), NEW k \in 1 .. Len(t.res), t.res[j].node = t.res[k].node
          PROVE  j = k
      <3>1. CASE j = 1 \/ k = 1
        BY <1>4, <1>5, <2>1, <2>3, <3>1
      <3>2. CASE j # 1 /\ k # 1
        <4>1. j - 1 \in 1 .. len /\ k - 1 \in 1 .. len
              /\ s.res[j - 1].node = s.res[k - 1].node
          BY <1>4, <2>3, <3>2
        <4>2. j - 1 = k - 1
          BY <2>2, <4>1
        <4>3. QED
          BY <1>2, <1>3, <4>2
      <3>3. QED
        BY <3>1, <3>2
    <2>4. ASSUME NEW k \in 1 .. Len(t.res)
          PROVE  t.res[k].node \in SpfKnown(t) /\ t.res[k].metric = t.metric[t.res[k].node]
      <3>1. CASE k = 1
        BY <1>4, <1>5, <1>6, <3>1
      <3>2. CASE k # 1
        <4>1. k - 1 \in 1 .. len /\ t.res[k] = s.res[k - 1]
          BY <1>4, <3>2
        <4>2. QED
          BY <1>6, <1>9, <4>1 DEF SpfRecorded1, len
      <3>3. QED
        BY <3>1, <3>2
    <2>5. QED
      BY <2>3, <2>4 DEF SpfRecorded1
  <1>11. SpfMetricsRight(t)
    <2>1. /\ t.metric[t.root] = 0
          /\ \A m \in RtNode : m # t.root => t.metric[m] >= 1 /\ t.metric[m] <= SpfInfinite
      BY <1>9 DEF SpfMetricsRight
    <2>2. \A i \in t.done : i \in t.bi /\ i[1] \in SpfRecs(t) \cup {t.root}
                            /\ t.metric[RtPeer[i][1]] <= t.metric[i[1]] + t.cost[i[2]]
      BY <1>7, <1>9 DEF SpfMetricsRight
    <2>3. \A m \in SpfKnown(t) : \E i \in t.done :
            RtPeer[i][1] = m /\ t.metric[m] = t.metric[i[1]] + t.cost[i[2]]
      BY <1>6, <1>9 DEF SpfMetricsRight
    <2>4. \A m \in SpfKnown(t) \ SpfRecs(t) : \A x \in SpfRecs(t) : t.metric[x] <= t.metric[m]
      <3>1. ASSUME NEW m \in SpfKnown(t) \ SpfRecs(t), NEW x \in SpfRecs(t)
            PROVE  t.metric[x] <= t.metric[m]
        <4>1. m \in SpfKnown(s) \ SpfRecs(s)
          BY <1>6, <1>7
        <4>2. CASE x = n
          BY <4>1, <4>2
        <4>3. CASE x # n
          BY <1>7, <1>9, <4>1, <4>3 DEF SpfMetricsRight
        <4>4. QED
          BY <4>2, <4>3
      <3>2. QED
        BY <3>1
    <2>5. /\ SpfMaxMetric \in Nat /\ SpfMaxMetric * (len + 1) \in Nat
          /\ SpfMaxMetric * ((len + 1) + 1) = SpfMaxMetric * (len + 1) + SpfMaxMetric
          /\ SpfMaxMetric * (len + 1) = SpfMaxMetric * len + SpfMaxMetric /\ SpfMaxMetric * len \in Nat
      <3>1. SpfMaxMetric \in Nat
        BY SpfAssumption
      <3>2. QED
        BY <1>2, <3>1
    <2>6. \A m \in SpfKnown(s) : m \in RtNode /\ s.metric[m] \in Nat
                                 /\ s.metric[m] <= SpfMaxMetric * (len + 1)
      BY <1>1, <1>9 DEF SpfMetricsRight, SpfKnown, len
    <2>7. \A m \in SpfKnown(t) : t.metric[m] <= SpfMaxMetric * (Len(t.res) + 1)
      BY <1>3, <1>6, <2>5, <2>6
    <2>8. \A m \in SpfRecs(t) : t.metric[m] <= SpfMaxMetric * Len(t.res)
      <3>1. SpfRecs(t) \subseteq SpfKnown(s)
        BY <1>7, <1>9 DEF SpfRecorded1, SpfRecs
      <3>2. QED
        BY <1>3, <2>6, <3>1
    <2>9. QED
      BY <2>1, <2>2, <2>3, <2>4, <2>7, <2>8 DEF SpfMetricsRight
  <1>12. SpfHopsRight(t)
    <2>1. ASSUME NEW m \in SpfKnown(t) \ SpfRecs(t)
          PROVE  SpfRightHops(t, m, t.metric[m], t.hops[m])
      <3>1. m \in SpfKnown(s) \ SpfRecs(s) /\ m # n
        BY <1>6, <1>7
      <3>2. SpfRightHops(s, m, s.metric[m], s.hops[m]) /\ t.hops[m] = s.hops[m]
        BY <1>9, <3>1 DEF SpfHopsRight
      <3>3. QED
        BY <1>8, <3>2
    <2>2. ASSUME NEW k \in 1 .. Len(t.res)
          PROVE  SpfRightHops(t, t.res[k].node, t.res[k].metric, t.res[k].hops)
      <3>1. CASE k = 1
        BY <1>4, <1>5, <1>8, <3>1
      <3>2. CASE k # 1
        <4>1. k - 1 \in 1 .. len /\ t.res[k] = s.res[k - 1]
          BY <1>4, <3>2
        <4>2. SpfRightHops(s, s.res[k - 1].node, s.res[k - 1].metric, s.res[k - 1].hops)
          BY <1>9, <4>1 DEF SpfHopsRight, len
        <4>3. QED
          BY <1>8, <4>1, <4>2
      <3>3. QED
        BY <3>1, <3>2
    <2>3. QED
      BY <2>1, <2>2 DEF SpfHopsRight
  <1>13. QED
    BY <1>6, <1>7, <1>10, <1>11, <1>12 DEF SpfRight

-----------------------------------------------------------------------------
(* The end of a run.                                                       *)

\* The results and the root's own, which leads nowhere.
SpfEntries(s) == ToSet(s.res) \cup {[node |-> s.root, metric |-> 0, hops |-> SpfEmpty]}

LEMMA SpfEntriesAre ==
    ASSUME NEW s \in SpfView, SpfRecorded1(s), s.metric[s.root] = 0
    PROVE  /\ Cardinality(SpfEntries(s)) = Len(s.res) + 1
           /\ \A q \in SpfEntries(s) :
                /\ q.node \in SpfRecs(s) \cup {s.root} /\ q.metric = s.metric[q.node]
                /\ q.node # s.root => \E k \in 1 .. Len(s.res) : q = s.res[k]
           /\ \A m \in SpfRecs(s) \cup {s.root} : \E q \in SpfEntries(s) : q.node = m
           /\ \A k \in 1 .. Len(s.res) : s.res[k] \in SpfEntries(s) /\ s.res[k].node # s.root
           /\ [node |-> s.root, metric |-> 0, hops |-> SpfEmpty] \in SpfEntries(s)
  <1> DEFINE n == Len(s.res)
             own == [node |-> s.root, metric |-> 0, hops |-> SpfEmpty]
             T == ToSet(s.res)
  <1>1. s.res \in Seq(SpfEntry) /\ n \in Nat /\ DOMAIN s.res = 1 .. n
        /\ s.res \in [1 .. n -> SpfEntry]
    <2>1. s.res \in Seq(SpfEntry)
      BY DEF SpfView
    <2>2. QED
      BY <2>1, LenProperties
  <1>2. T = {s.res[k] : k \in 1 .. n}
    BY <1>1 DEF ToSet
  <1>3. \A k \in 1 .. n : s.res[k].node \in SpfRecs(s) /\ s.res[k].node # s.root
                          /\ s.res[k].metric = s.metric[s.res[k].node]
    BY DEF SpfRecorded1, SpfRecs, SpfKnown
  <1>4. own.node = s.root /\ own.metric = 0
    OBVIOUS
  <1> HIDE DEF own, T, n
  <1>5. SpfEntries(s) = T \cup {own}
    BY DEF SpfEntries, T, own
  <1>6. own \notin T
    BY <1>2, <1>3, <1>4
  <1>7. IsFiniteSet(T) /\ Cardinality(T) = n
    <2>1. \A j, k \in 1 .. n : s.res[j] = s.res[k] => j = k
      BY DEF SpfRecorded1, n
    <2>2. s.res \in Injection(1 .. n, T)
      BY <1>1, <1>2, <2>1 DEF Injection, IsInjective
    <2>3. s.res \in Surjection(1 .. n, T)
      BY <1>1, <1>2 DEF Surjection
    <2>4. ExistsBijection(1 .. n, T)
      BY <2>2, <2>3 DEF ExistsBijection, Bijection
    <2>5. IsFiniteSet(1 .. n) /\ Cardinality(1 .. n) = n
      BY <1>1, FS_Interval
    <2>6. QED
      BY <2>4, <2>5, FS_Bijection
  <1>8. Cardinality(SpfEntries(s)) = n + 1
    BY <1>5, <1>6, <1>7, FS_AddElement
  <1>9. ASSUME NEW q \in SpfEntries(s)
        PROVE  /\ q.node \in SpfRecs(s) \cup {s.root} /\ q.metric = s.metric[q.node]
               /\ q.node # s.root => \E k \in 1 .. n : q = s.res[k]
    BY <1>2, <1>3, <1>4, <1>5
  <1>10. ASSUME NEW m \in SpfRecs(s) \cup {s.root} PROVE \E q \in SpfEntries(s) : q.node = m
    <2>1. CASE m = s.root
      BY <1>4, <1>5, <2>1
    <2>2. CASE m \in SpfRecs(s)
      <3>1. PICK k \in 1 .. n : m = s.res[k].node
        BY <2>2 DEF SpfRecs, n
      <3>2. QED
        BY <1>2, <1>5, <3>1
    <2>3. QED
      BY <2>1, <2>2
  <1>11. QED
    BY <1>2, <1>3, <1>5, <1>8, <1>9, <1>10 DEF n, own

\* When every node that has a metric is recorded, and the interfaces of all of
\* them have been looked through, the results are the shortest paths.
LEMMA SpfComplete ==
    ASSUME NEW s \in SpfView, SpfRight(s), SpfKnown(s) = SpfRecs(s),
           s.done = {i \in s.bi : i[1] \in SpfRecs(s) \cup {s.root}}
    PROVE  SpfShortest(s.bi, s.cost, s.root, s.res)
  <1> DEFINE E == SpfEntries(s)
             own == [node |-> s.root, metric |-> 0, hops |-> SpfEmpty]
             Into(r, q) == {i \in s.bi : i[1] = q.node /\ RtPeer[i][1] = r.node}
             Tight(r, q) == {i \in Into(r, q) : q.metric + s.cost[i[2]] = r.metric}
             Via(r, q) == IF q.node = s.root THEN Tight(r, q)
                          ELSE IF Tight(r, q) # {} THEN SpfHopsOf(q.hops) ELSE {}
  <1>1. SpfRecorded1(s) /\ SpfMetricsRight(s) /\ SpfHopsRight(s) /\ s.metric[s.root] = 0
    BY DEF SpfRight, SpfMetricsRight
  <1>2. /\ Cardinality(E) = Len(s.res) + 1
        /\ \A q \in E : /\ q.node \in SpfRecs(s) \cup {s.root} /\ q.metric = s.metric[q.node]
                        /\ q.node # s.root => \E k \in 1 .. Len(s.res) : q = s.res[k]
        /\ \A m \in SpfRecs(s) \cup {s.root} : \E q \in E : q.node = m
        /\ \A k \in 1 .. Len(s.res) : s.res[k] \in E /\ s.res[k].node # s.root
        /\ own \in E
    BY <1>1, SpfEntriesAre
  <1>3. own.node = s.root /\ own.metric = 0
    OBVIOUS
  <1>4. /\ s.bi \subseteq RtIntf
        /\ \A i \in s.bi : i[1] \in RtNode /\ i[2] \in RtLink /\ RtPeer[i][1] \in RtNode
                           /\ s.cost[i[2]] \in Nat
    <2>1. s.bi \subseteq RtIntf /\ s.cost \in [RtLink -> 1 .. SpfMaxMetric] /\ SpfMaxMetric \in Nat
      BY SpfAssumption DEF SpfView
    <2>2. \A i \in s.bi : i[1] \in RtNode /\ i[2] \in RtLink /\ RtPeer[i][1] \in RtNode
      BY <2>1, SpfIntfTyped, SpfPeers
    <2>3. \A i \in s.bi : s.cost[i[2]] \in 1 .. SpfMaxMetric
      BY <2>1, <2>2
    <2>4. QED
      BY <2>1, <2>2, <2>3
  <1> HIDE DEF E, own
  <1>5. ASSUME NEW i \in s.bi, i[1] \in {q.node : q \in E}
        PROVE  RtPeer[i][1] \in {r.node : r \in E}
    <2>1. i[1] \in SpfRecs(s) \cup {s.root}
      BY <1>2, <1>5
    <2>2. /\ s.metric[RtPeer[i][1]] <= SpfOffer(s, i)
      BY <1>1, <2>1 DEF SpfMetricsRight, SpfOffer
    <2>3. SpfOffer(s, i) < SpfInfinite /\ SpfOffer(s, i) \in Nat /\ RtPeer[i][1] \in RtNode
      BY <1>1, <2>1, SpfOfferIs
    <2>4. s.metric[RtPeer[i][1]] < SpfInfinite
      <3>1. s.metric[RtPeer[i][1]] \in Nat /\ SpfInfinite \in Nat
        BY <2>3, SpfAssumption DEF SpfView
      <3>2. QED
        BY <2>2, <2>3, <3>1
    <2>5. RtPeer[i][1] \in SpfRecs(s) \cup {s.root}
      BY <2>3, <2>4 DEF SpfKnown
    <2>6. QED
      BY <1>2, <2>5
  <1>6. ASSUME NEW q \in E, NEW r \in E, NEW i \in Into(r, q)
        PROVE  r.metric <= q.metric + s.cost[i[2]]
    <2>1. i \in s.bi /\ i[1] = q.node /\ RtPeer[i][1] = r.node
      BY <1>6
    <2>2. i \in s.done
      BY <1>2, <2>1
    <2>3. QED
      BY <1>1, <1>2, <2>1, <2>2 DEF SpfMetricsRight
  <1>7. ASSUME NEW r \in E, r.node # s.root
        PROVE  /\ \E q \in E : Tight(r, q) # {}
               /\ SpfHopsOf(r.hops) # {}
               /\ SpfHopsOf(r.hops) \subseteq UNION {Via(r, q) : q \in E}
    <2>1. PICK k \in 1 .. Len(s.res) : r = s.res[k]
      BY <1>2, <1>7
    <2>2. SpfRightHops(s, r.node, r.metric, r.hops)
      BY <1>1, <2>1 DEF SpfHopsRight
    <2>3. \E q \in E : Tight(r, q) # {}
      <3>1. r.node \in SpfKnown(s) /\ r.metric = s.metric[r.node]
        BY <1>1, <2>1 DEF SpfRecorded1
      <3>2. PICK i \in s.done : /\ RtPeer[i][1] = r.node
                                /\ s.metric[r.node] = s.metric[i[1]] + s.cost[i[2]]
        BY <1>1, <3>1 DEF SpfMetricsRight
      <3>3. i \in s.bi /\ i[1] \in SpfRecs(s) \cup {s.root}
        OBVIOUS
      <3>4. PICK q \in E : q.node = i[1]
        BY <1>2, <3>3
      <3>5. q.metric = s.metric[i[1]]
        BY <1>2, <3>4
      <3>6. i \in Tight(r, q)
        BY <3>1, <3>2, <3>3, <3>4, <3>5
      <3>7. QED
        BY <3>6
    <2>4. SpfHopsOf(r.hops) # {}
      BY <2>2, SpfPlaces DEF SpfRightHops, SpfHopsOf
    <2>5. ASSUME NEW h \in SpfHopsOf(r.hops) PROVE \E q \in E : h \in Via(r, q)
      <3>1. SpfVia(s, r.node, r.metric, h)
        BY <2>2 DEF SpfRightHops, SpfHopsOf
      <3>2. CASE h \in s.bi /\ h[1] = s.root /\ RtPeer[h][1] = r.node /\ s.cost[h[2]] = r.metric
        <4>1. own.metric + s.cost[h[2]] = r.metric
          BY <1>3, <1>4, <3>2
        <4>2. h \in Tight(r, own)
          BY <1>3, <3>2, <4>1
        <4>3. h \in Via(r, own)
          BY <1>3, <4>2
        <4>4. QED
          BY <1>2, <4>3
      <3>3. ASSUME NEW j \in 1 .. Len(s.res), NEW i \in s.bi,
                   i[1] = s.res[j].node, RtPeer[i][1] = r.node,
                   s.res[j].metric + s.cost[i[2]] = r.metric,
                   NEW p \in RtPlace, s.res[j].hops[p] = h
            PROVE  \E q \in E : h \in Via(r, q)
        <4>1. s.res[j] \in E /\ s.res[j].node # s.root
          BY <1>2
        <4>2. i \in Tight(r, s.res[j])
          BY <3>3
        <4>3. h \in SpfHopsOf(s.res[j].hops)
          BY <3>3 DEF SpfHopsOf
        <4>4. h \in Via(r, s.res[j])
          BY <4>1, <4>2, <4>3
        <4>5. QED
          BY <4>1, <4>4
      <3>4. QED
        BY <3>1, <3>2, <3>3 DEF SpfVia
    <2>6. QED
      BY <2>3, <2>4, <2>5
  <1>8. Cardinality(E) = Len(s.res) + 1
    BY <1>2
  <1>9. E = ToSet(s.res) \cup {[node |-> s.root, metric |-> 0, hops |-> SpfEmpty]}
    BY DEF E, SpfEntries
  <1>10. QED
    BY <1>5, <1>6, <1>7, <1>8, <1>9 DEF SpfShortest

-----------------------------------------------------------------------------
(* The states of a run.                                                    *)

\* What one neighbour changes of the metrics, the arrays and the queue.
LEMMA SpfDirectFields ==
    ASSUME NEW d \in SpfScratch, NEW oif \in RtIntf, spf_cost \in [RtLink -> Nat]
    PROVE  LET n == RtPeer[oif][1]
               c == spf_cost[oif[2]]
               e == SpfDirectNbr(oif, d) IN
             /\ c > d.metric[n] => e = d
             /\ c <= d.metric[n] =>
                  /\ e.metric = [d.metric EXCEPT ![n] = c] /\ e.queue = d.queue
                  /\ e.hops = [d.hops EXCEPT ![n] =
                       SpfInsert(IF c < d.metric[n] THEN SpfEmpty ELSE d.hops[n], oif)]
  <1> DEFINE n == RtPeer[oif][1]
             c == spf_cost[oif[2]]
             f == IF c < d.metric[n] THEN SpfFlush(d, n) ELSE d
             h == SpfInsert(f.hops[n], oif)
             e == [f EXCEPT !.metric[n] = c, !.hops[n] = h,
                            !.refs[oif] = IF RtFree(f.hops[n]) \in RtPlace THEN 1 ELSE 0]
             g == IF c < d.metric[n] THEN SpfEmpty ELSE d.hops[n]
  <1>1. n \in RtNode /\ c \in Nat /\ d.metric[n] \in Nat /\ d.hops \in [RtNode -> SpfArray]
    BY SpfPeers, SpfIntfTyped DEF SpfScratch
  <1>2. SpfDirectNbr(oif, d) = IF c > d.metric[n] THEN d ELSE e
    BY DEF SpfDirectNbr
  <1> HIDE DEF n, c
  <1>3. f \in SpfScratch /\ f.metric = d.metric /\ f.queue = d.queue
        /\ f.hops = IF c < d.metric[n] THEN [d.hops EXCEPT ![n] = SpfEmpty] ELSE d.hops
    BY <1>1, SpfFlushIs
  <1> HIDE DEF f
  <1>4. f.hops[n] = g /\ \A x : [f.hops EXCEPT ![n] = x] = [d.hops EXCEPT ![n] = x]
    BY <1>1, <1>3
  <1>5. e.metric = [f.metric EXCEPT ![n] = c] /\ e.hops = [f.hops EXCEPT ![n] = h]
        /\ e.queue = f.queue
    BY <1>3 DEF SpfScratch
  <1> HIDE DEF e
  <1>6. c <= d.metric[n] => ~(c > d.metric[n])
    BY <1>1
  <1>7. QED
    BY <1>2, <1>3, <1>4, <1>5, <1>6 DEF n, c

LEMMA SpfExploreFields ==
    ASSUME NEW d \in SpfScratch, SpfQueued(d), NEW oif \in RtIntf, spf_cost \in [RtLink -> Nat],
           NEW m \in RtNode, m = oif[1]
    PROVE  LET n == RtPeer[oif][1]
               c == d.metric[m] + spf_cost[oif[2]]
               e == SpfExploreNbr(m, oif, d) IN
             /\ c > d.metric[n] => e = d
             /\ c = d.metric[n] =>
                  /\ e.metric = d.metric /\ e.queue = d.queue
                  /\ e.hops = [d.hops EXCEPT ![n] = SpfUnion(d.hops[m], d.hops[n])]
             /\ c < d.metric[n] =>
                  /\ e.metric = [d.metric EXCEPT ![n] = c]
                  /\ ToSet(e.queue) = ToSet(d.queue) \cup {n}
                  /\ e.hops = [d.hops EXCEPT ![n] = SpfUnion(d.hops[m], SpfEmpty)]
  <1> DEFINE n == RtPeer[oif][1]
             cost == d.metric[m] + spf_cost[oif[2]]
             f == SpfFlush(d, n)
             g == SpfJoin(f, m, n)
             queue == Without(d.queue, n)
             metric == [d.metric EXCEPT ![n] = cost]
             nearer == [g EXCEPT !.metric[n] = cost, !.queue = Without(@, n)]
  <1>1. n \in RtNode /\ cost \in Nat /\ d.metric \in [RtNode -> Nat] /\ d.queue \in Seq(RtNode)
        /\ d.hops \in [RtNode -> SpfArray] /\ n # m
    BY SpfPeers, SpfIntfTyped DEF SpfScratch
  <1>2. SpfExploreNbr(m, oif, d) =
          IF cost < d.metric[n] THEN SpfEnqueue(nearer, n)
          ELSE IF cost = d.metric[n] THEN SpfJoin(d, m, n) ELSE d
    BY DEF SpfExploreNbr
  <1> HIDE DEF n, cost
  <1>3. f \in SpfScratch /\ f.metric = d.metric /\ f.queue = d.queue
        /\ f.hops = [d.hops EXCEPT ![n] = SpfEmpty]
    BY <1>1, SpfFlushIs
  <1> HIDE DEF f
  <1>4. g \in SpfScratch /\ g.metric = d.metric /\ g.queue = d.queue
        /\ g.hops = [f.hops EXCEPT ![n] = SpfUnion(f.hops[m], f.hops[n])]
    BY <1>1, <1>3, SpfJoinIs
  <1> HIDE DEF g
  <1>5. f.hops[m] = d.hops[m] /\ f.hops[n] = SpfEmpty
        /\ \A x : [f.hops EXCEPT ![n] = x] = [d.hops EXCEPT ![n] = x]
    BY <1>1, <1>3
  <1>6. metric \in [RtNode -> Nat] /\ \A x \in RtNode : x # n => metric[x] = d.metric[x]
    BY <1>1
  <1>7. /\ queue \in Seq(RtNode) /\ KlDistinct(queue) /\ ToSet(queue) = ToSet(d.queue) \ {n}
        /\ KlSorted(queue, metric)
    <2> HIDE DEF metric
    <2>1. queue \in Seq(RtNode) /\ KlDistinct(queue) /\ ToSet(queue) = ToSet(d.queue) \ {n}
      BY <1>1, KlWithoutSet DEF SpfQueued
    <2>2. KlSorted(queue, metric)
      BY <1>1, <1>6, KlWithout DEF SpfQueued
    <2>3. QED
      BY <2>1, <2>2
  <1>8. nearer = [g EXCEPT !.metric = metric, !.queue = queue]
    BY <1>4 DEF SpfScratch
  <1> HIDE DEF metric, queue, nearer
  <1>9. /\ nearer \in SpfScratch /\ nearer.metric = metric /\ nearer.queue = queue
        /\ nearer.hops = g.hops
    BY <1>4, <1>6, <1>7, <1>8 DEF SpfScratch
  <1>10. CASE cost < d.metric[n]
    <2> DEFINE e == SpfEnqueue(nearer, n)
    <2>1. SpfQueued(nearer) /\ n \notin ToSet(nearer.queue)
      BY <1>7, <1>9 DEF SpfQueued
    <2>2. e.metric = metric /\ e.hops = g.hops /\ ToSet(e.queue) = ToSet(queue) \cup {n}
      BY <1>1, <1>9, <2>1, SpfEnqueueIs
    <2>3. SpfExploreNbr(m, oif, d) = e
      BY <1>2, <1>10
    <2> HIDE DEF e
    <2>4. ToSet(e.queue) = ToSet(d.queue) \cup {n}
      BY <1>7, <2>2
    <2>5. e.hops = [d.hops EXCEPT ![n] = SpfUnion(d.hops[m], SpfEmpty)]
      BY <1>4, <1>5, <2>2
    <2>6. ~(cost > d.metric[n]) /\ cost # d.metric[n]
      BY <1>1, <1>10
    <2>7. QED
      BY <1>10, <2>2, <2>3, <2>4, <2>5, <2>6 DEF n, cost, metric
  <1>11. CASE cost = d.metric[n]
    <2> DEFINE e == SpfJoin(d, m, n)
    <2>1. /\ e.metric = d.metric /\ e.queue = d.queue
          /\ e.hops = [d.hops EXCEPT ![n] = SpfUnion(d.hops[m], d.hops[n])]
      BY <1>1, SpfJoinIs
    <2>2. ~(cost < d.metric[n]) /\ ~(cost > d.metric[n])
      BY <1>1, <1>11
    <2>3. SpfExploreNbr(m, oif, d) = e
      BY <1>2, <1>11, <2>2
    <2> HIDE DEF e
    <2>4. QED
      BY <2>1, <2>2, <2>3 DEF n, cost
  <1>12. CASE cost > d.metric[n]
    <2>1. ~(cost < d.metric[n]) /\ cost # d.metric[n]
      BY <1>1, <1>12
    <2>2. SpfExploreNbr(m, oif, d) = d
      BY <1>2, <2>1
    <2>3. QED
      BY <2>1, <2>2 DEF n, cost
  <1>13. cost < d.metric[n] \/ cost = d.metric[n] \/ cost > d.metric[n]
    BY <1>1
  <1>14. QED
    BY <1>10, <1>11, <1>12, <1>13

SpfLooking == spf_phase \in {"direct", "queue", "explore"}

\* The run in progress; while the root is the node that is looked at, its own
\* interfaces are looked through twice, the second time to queue their peers.
SpfBi == {i \in RtIntf : Bidirectional(i)}
SpfSoFar == {spf_results[Head(spf_roots)][k].node : k \in 1 .. Len(spf_results[Head(spf_roots)])}
              \cup {Head(spf_roots)}
SpfDone == {i \in SpfBi : i[1] \in SpfSoFar /\ (spf_phase = "queue" \/ i \notin ToSet(spf_left))}
SpfRun == [bi |-> SpfBi, cost |-> spf_cost, root |-> Head(spf_roots),
           res |-> spf_results[Head(spf_roots)], metric |-> spf_metric, hops |-> spf_hops,
           done |-> SpfDone]

\* The node m, whose neighbours are explored, is the farthest that is recorded,
\* and its array has a next hop and none but those of its result.
SpfFarthest(s, m) ==
    /\ m \in SpfRecs(s) /\ \A x \in SpfRecs(s) : s.metric[x] <= s.metric[m]
    /\ s.hops[m][0] # RtNoHop
    /\ \E k \in 1 .. Len(s.res) :
         /\ s.res[k].node = m
         /\ \A p \in RtPlace : s.hops[m][p] # RtNoHop =>
              \E l \in RtPlace : s.res[k].hops[l] = s.hops[m][p]

\* Where the run is: the queue holds the nodes with a metric and no result; the
\* root's neighbours enter it one by one.
SpfTurn(s, phase, node, left, queue) ==
    /\ \A i \in left : i[1] = node
    /\ phase \in {"direct", "queue"} => s.res = <<>> /\ node = s.root
    /\ phase = "queue" =>
         /\ queue \subseteq SpfKnown(s)
         /\ \A n \in SpfKnown(s) \ queue :
              \E i \in left : i \in s.bi /\ RtPeer[i][1] = n
    /\ phase = "explore" => queue = SpfKnown(s) \ SpfRecs(s) /\ SpfFarthest(s, node)

SpfCosts == spf_cost \in [RtLink -> 1 .. SpfMaxMetric]
SpfPath ==
    /\ SpfCosts
    /\ SpfLooking =>
         /\ SpfRight(SpfRun)
         /\ SpfTurn(SpfRun, spf_phase, spf_node, ToSet(spf_left), ToSet(spf_queue))

LEMMA SpfRunFields ==
    /\ SpfRun.bi = SpfBi /\ SpfRun.cost = spf_cost /\ SpfRun.root = Head(spf_roots)
    /\ SpfRun.res = spf_results[Head(spf_roots)] /\ SpfRun.metric = spf_metric
    /\ SpfRun.hops = spf_hops /\ SpfRun.done = SpfDone
    /\ SpfRecs(SpfRun) \cup {SpfRun.root} = SpfSoFar
  BY DEF SpfRun, SpfRecs, SpfSoFar

LEMMA SpfRunFieldsNext ==
    /\ SpfRun'.bi = SpfBi' /\ SpfRun'.cost = spf_cost' /\ SpfRun'.root = Head(spf_roots')
    /\ SpfRun'.res = spf_results'[Head(spf_roots')] /\ SpfRun'.metric = spf_metric'
    /\ SpfRun'.hops = spf_hops' /\ SpfRun'.done = SpfDone'
    /\ SpfRecs(SpfRun') \cup {SpfRun'.root} = SpfSoFar'
  BY DEF SpfRun, SpfRecs, SpfSoFar

LEMMA SpfRunTyped ==
    ASSUME SpfSorts, SpfCosts, SpfLooking
    PROVE  SpfRun \in SpfView
  <1>1. spf_metric \in [RtNode -> Nat] /\ spf_hops \in [RtNode -> SpfArray]
    BY DEF SpfSorts, SpfScratch, SpfData
  <1>2. Head(spf_roots) \in RtNode
    BY HeadTailProperties DEF SpfSorts, SpfLooking
  <1>3. spf_results[Head(spf_roots)] \in Seq(SpfEntry)
    BY <1>2 DEF SpfSorts
  <1>4. SpfBi \subseteq RtIntf /\ SpfDone \subseteq RtIntf
    BY DEF SpfBi, SpfDone
  <1>5. QED
    BY <1>1, <1>2, <1>3, <1>4 DEF SpfRun, SpfView, SpfCosts

LEMMA SpfRunTypedNext ==
    ASSUME SpfSorts', SpfCosts', SpfLooking'
    PROVE  SpfRun' \in SpfView
  <1>1. spf_metric' \in [RtNode -> Nat] /\ spf_hops' \in [RtNode -> SpfArray]
    BY DEF SpfSorts, SpfScratch, SpfData
  <1>2. Head(spf_roots') \in RtNode
    BY HeadTailProperties DEF SpfSorts, SpfLooking
  <1>3. spf_results'[Head(spf_roots')] \in Seq(SpfEntry)
    BY <1>2 DEF SpfSorts
  <1>4. SpfBi' \subseteq RtIntf /\ SpfDone' \subseteq RtIntf
    BY DEF SpfBi, SpfDone
  <1>5. QED
    BY <1>1, <1>2, <1>3, <1>4 DEF SpfRun, SpfView, SpfCosts

\* An array that the root's own interface is put into.
LEMMA SpfInsertRight ==
    ASSUME NEW g \in SpfArray, NEW oif \in RtIntf
    PROVE  /\ SpfInsert(g, oif) \in SpfArray /\ SpfInsert(g, oif)[0] # RtNoHop
           /\ \A p \in RtPlace : SpfInsert(g, oif)[p] = g[p] \/ SpfInsert(g, oif)[p] = oif
  <1> DEFINE h == SpfInsert(g, oif)
             k == RtFree(g)
  <1>1. /\ h \in SpfArray
        /\ IF k \in RtPlace THEN g[k] = RtNoHop /\ h = [g EXCEPT ![k] = oif] ELSE h = g
    BY SpfInsertIs
  <1>2. k \in 0 .. RtMaxNxtHops /\ \A j \in RtPlace : j < k => g[j] # RtNoHop
    BY SpfFreeIs
  <1>3. 0 \in RtPlace /\ RtMaxNxtHops \in Nat /\ DOMAIN g = RtPlace /\ oif # RtNoHop
    BY SpfPlaces, SpfIntfTyped DEF SpfArray
  <1> HIDE DEF h, k
  <1>4. CASE k \in RtPlace
    <2>1. h = [g EXCEPT ![k] = oif]
      BY <1>1, <1>4
    <2>2. k = 0 \/ 0 < k
      BY <1>2, <1>3
    <2>3. h[0] # RtNoHop
      BY <1>2, <1>3, <1>4, <2>1, <2>2
    <2>4. QED
      BY <1>1, <1>3, <2>1, <2>3 DEF h
  <1>5. CASE k \notin RtPlace
    <2>1. h = g
      BY <1>1, <1>5
    <2>2. 0 < k
      BY <1>2, <1>3, <1>5
    <2>3. QED
      BY <1>1, <1>2, <1>3, <2>1, <2>2 DEF h
  <1>6. QED
    BY <1>4, <1>5

LEMMA SpfFarthestKept ==
    ASSUME NEW s \in SpfView, NEW t \in SpfView, SpfSameRun(s, t), NEW m, SpfFarthest(s, m),
           \A x \in SpfRecs(s) : t.metric[x] = s.metric[x] /\ t.hops[x] = s.hops[x]
    PROVE  SpfFarthest(t, m)
  <1>1. SpfRecs(t) = SpfRecs(s) /\ t.res = s.res
    BY SpfSameRunIs DEF SpfSameRun
  <1>2. QED
    BY <1>1 DEF SpfFarthest

\* The next hops that a neighbour of the node m, the farthest that is recorded,
\* takes over lead to the neighbour.
LEMMA SpfJoinRight ==
    ASSUME NEW s \in SpfView, SpfRecorded1(s), NEW i \in s.bi, SpfFarthest(s, i[1]),
           NEW dst \in SpfArray,
           dst = SpfEmpty \/ SpfRightHops(s, RtPeer[i][1], SpfOffer(s, i), dst)
    PROVE  /\ SpfUnion(s.hops[i[1]], dst) \in SpfArray
           /\ SpfRightHops(s, RtPeer[i][1], SpfOffer(s, i), SpfUnion(s.hops[i[1]], dst))
  <1> DEFINE src == s.hops[i[1]]
             u == SpfUnion(src, dst)
             n == RtPeer[i][1]
             v == SpfOffer(s, i)
  <1>1. i[1] \in RtNode /\ src \in SpfArray
    <2>1. i \in RtIntf /\ s.hops \in [RtNode -> SpfArray]
      BY DEF SpfView
    <2>2. QED
      BY <2>1, SpfIntfTyped
  <1>2. src[0] # RtNoHop
    BY DEF SpfFarthest
  <1>3. PICK k \in 1 .. Len(s.res) :
          /\ s.res[k].node = i[1]
          /\ \A p \in RtPlace : src[p] # RtNoHop => \E l \in RtPlace : s.res[k].hops[l] = src[p]
    BY DEF SpfFarthest
  <1>4. s.res[k].metric + s.cost[i[2]] = v
    BY <1>3 DEF SpfRecorded1, SpfOffer
  <1> HIDE DEF src, v, n
  <1>5. \A j \in RtPlace : src[j] # RtNoHop => SpfVia(s, n, v, src[j])
    BY <1>3, <1>4 DEF SpfVia, n
  <1>6. \A p \in RtPlace : dst[p] # RtNoHop => SpfVia(s, n, v, dst[p])
    <2>1. dst = SpfEmpty \/ SpfRightHops(s, n, v, dst)
      BY DEF n, v
    <2>2. QED
      BY <2>1 DEF SpfRightHops, SpfEmpty
  <1>7. u \in SpfArray
    BY <1>1, SpfUnionIs
  <1>8. u[0] # RtNoHop
    <2>1. dst[0] # RtNoHop \/ (dst = SpfEmpty /\ src[0] # RtNoHop)
      BY <1>2 DEF SpfRightHops
    <2>2. QED
      BY <1>1, <2>1, SpfUnionFirst
  <1>9. ASSUME NEW p \in RtPlace, u[p] # RtNoHop PROVE SpfVia(s, n, v, u[p])
    <2>1. u[p] = dst[p] \/ \E j \in RtPlace : u[p] = src[j] /\ src[j] # RtNoHop
      BY <1>1, SpfUnionFrom
    <2> HIDE DEF u
    <2>2. QED
      BY <1>5, <1>6, <1>9, <2>1
  <1> HIDE DEF u
  <1>10. SpfRightHops(s, n, v, u)
    BY <1>8, <1>9 DEF SpfRightHops
  <1>11. QED
    BY <1>7, <1>10 DEF u, n, v, src

LEMMA SpfSameView ==
    ASSUME NEW s \in SpfView, NEW t \in SpfView, SpfSameRun(s, t),
           t.metric = s.metric, t.hops = s.hops, t.done = s.done
    PROVE  t = s
  <1>1. \A u \in SpfView : u = [bi |-> u.bi, cost |-> u.cost, root |-> u.root, res |-> u.res,
                               metric |-> u.metric, hops |-> u.hops, done |-> u.done]
    BY DEF SpfView
  <1>2. QED
    BY <1>1 DEF SpfSameRun

\* One round over the neighbours.
LEMMA SpfNbrPath ==
    ASSUME SpfInv, SpfInv', SpfPath, SpfNbr
    PROVE  SpfPath'
  <1> DEFINE oif == Head(spf_left)
             n == RtPeer[oif][1]
             s == SpfRun
             t == SpfRun'
             d == SpfData
             v == SpfOffer(s, oif)
  <1>1. /\ SpfSorts /\ SpfSorts' /\ SpfLoop /\ spf_left # <<>> /\ spf_left' = Tail(spf_left)
        /\ spf_cost' = spf_cost /\ spf_up' = spf_up /\ spf_results' = spf_results
        /\ spf_roots' = spf_roots /\ spf_phase' = spf_phase /\ spf_node' = spf_node
    BY DEF SpfInv, SpfNbr, spfConfigVars
  <1>2. SpfLooking /\ SpfLooking' /\ SpfCosts /\ SpfCosts'
    <2>1. SpfLooking
      BY <1>1 DEF SpfSorts, SpfPhase, SpfLooking
    <2>2. QED
      BY <1>1, <2>1 DEF SpfPath, SpfCosts, SpfLooking
  <1>3. s \in SpfView /\ t \in SpfView /\ SpfRight(s)
        /\ SpfTurn(s, spf_phase, spf_node, ToSet(spf_left), ToSet(spf_queue))
    BY <1>1, <1>2, SpfRunTyped, SpfRunTypedNext DEF SpfPath
  <1>4. SpfRecorded1(s) /\ SpfMetricsRight(s) /\ SpfHopsRight(s)
    BY <1>3 DEF SpfRight
  <1>5. /\ oif \in RtIntf /\ oif \in ToSet(spf_left) /\ oif[1] = spf_node
        /\ ToSet(spf_left') = ToSet(spf_left) \ {oif}
    <2>1. spf_left \in Seq(RtIntf) /\ KlDistinct(spf_left)
      BY <1>1 DEF SpfSorts
    <2>2. oif \in RtIntf /\ oif \in ToSet(spf_left) /\ ToSet(Tail(spf_left)) = ToSet(spf_left) \ {oif}
      BY <1>1, <2>1, KlTail
    <2>3. oif[1] = spf_node
      BY <1>3, <2>2 DEF SpfTurn
    <2>4. QED
      BY <1>1, <2>2, <2>3
  <1>6. /\ s.bi = SpfBi /\ s.cost = spf_cost /\ s.root = Head(spf_roots)
        /\ s.res = spf_results[Head(spf_roots)] /\ s.metric = spf_metric /\ s.hops = spf_hops
        /\ s.done = SpfDone /\ SpfRecs(s) \cup {s.root} = SpfSoFar
    BY SpfRunFields
  <1>7. /\ t.bi = SpfBi' /\ t.cost = spf_cost /\ t.root = Head(spf_roots)
        /\ t.res = spf_results[Head(spf_roots)] /\ t.metric = spf_metric' /\ t.hops = spf_hops'
        /\ t.done = SpfDone'
    BY <1>1, SpfRunFieldsNext
  <1>8. SpfBi' = SpfBi /\ SpfSoFar' = SpfSoFar
    BY <1>1 DEF SpfBi, SpfSoFar, Bidirectional
  <1>9. d \in SpfScratch /\ SpfQueued(d) /\ d.metric = spf_metric /\ d.hops = spf_hops
        /\ d.queue = spf_queue /\ spf_cost \in [RtLink -> Nat]
        /\ spf_metric \in [RtNode -> Nat] /\ spf_hops \in [RtNode -> SpfArray]
    BY <1>1 DEF SpfSorts, SpfLoop, SpfData, SpfScratch
  <1>10. (oif \in SpfBi <=> Bidirectional(oif)) /\ SpfBi \subseteq RtIntf
    BY <1>5 DEF SpfBi
  <1>11. spf_node \in SpfRecs(s) \cup {s.root}
    BY <1>2, <1>3 DEF SpfTurn, SpfLooking, SpfFarthest
  <1> HIDE DEF s, t, d, oif
  <1>12. SpfSameRun(s, t)
    BY <1>6, <1>7, <1>8 DEF SpfSameRun
  <1>13. SpfRecs(t) = SpfRecs(s) /\ \A x, w, h : SpfRightHops(s, x, w, h) => SpfRightHops(t, x, w, h)
    BY <1>3, <1>12, SpfSameRunIs
  <1>14. t.done = IF oif \in SpfBi /\ spf_phase # "queue" THEN s.done \cup {oif} ELSE s.done
    <2>1. SpfDone = {i \in SpfBi : i[1] \in SpfSoFar
                                   /\ (spf_phase = "queue" \/ i \notin ToSet(spf_left))}
      BY DEF SpfDone
    <2>2. SpfDone' = {i \in SpfBi : i[1] \in SpfSoFar
                         /\ (spf_phase = "queue" \/ i \notin ToSet(spf_left) \ {oif})}
      BY <1>1, <1>5, <1>8 DEF SpfDone
    <2>3. oif[1] \in SpfSoFar
      BY <1>5, <1>6, <1>11
    <2>4. QED
      BY <1>6, <1>7, <2>1, <2>2, <2>3
  <1>15. \A m \in SpfRecs(s) : s.metric[m] <= s.metric[spf_node]
    <2>1. CASE spf_phase = "explore"
      BY <1>3, <2>1 DEF SpfTurn, SpfFarthest
    <2>2. CASE spf_phase \in {"direct", "queue"}
      <3>1. s.res = <<>>
        BY <1>3, <2>2 DEF SpfTurn
      <3>2. Len(s.res) = 0
        BY <3>1
      <3>3. 1 .. 0 = {}
        OBVIOUS
      <3>4. SpfRecs(s) = {}
        BY <3>2, <3>3 DEF SpfRecs
      <3>5. QED
        BY <3>4
    <2>3. QED
      BY <1>2, <2>1, <2>2 DEF SpfLooking
  <1>16. ASSUME oif \in s.bi
         PROVE  /\ oif[1] \in SpfRecs(s) \cup {s.root} /\ oif[1] = spf_node
                /\ n \in RtNode /\ spf_node \in RtNode
                /\ v = spf_metric[spf_node] + spf_cost[oif[2]]
                /\ v \in Nat /\ v < SpfInfinite /\ spf_metric[n] \in Nat
                /\ \A m \in SpfRecs(s) : s.metric[m] <= s.metric[oif[1]]
                /\ v <= spf_metric[n] =>
                     /\ n \notin SpfRecs(s) \cup {s.root}
                     /\ v = spf_metric[n] => n \in SpfKnown(s) \ SpfRecs(s)
    <2>1. oif[1] \in SpfRecs(s) \cup {s.root} /\ \A m \in SpfRecs(s) : s.metric[m] <= s.metric[oif[1]]
      BY <1>5, <1>11, <1>15
    <2>2. /\ n \in RtNode /\ oif[1] \in RtNode /\ v \in Nat /\ v < SpfInfinite
          /\ v <= s.metric[n] => n \notin SpfRecs(s) \cup {s.root}
      BY <1>3, <1>4, <1>16, <2>1, SpfOfferIs
    <2>3. v = spf_metric[spf_node] + spf_cost[oif[2]]
      BY <1>5, <1>6 DEF SpfOffer
    <2>4. spf_metric[n] \in Nat
      BY <1>9, <2>2
    <2> HIDE DEF n, v
    <2>5. v <= spf_metric[n] /\ v = spf_metric[n] => n \in SpfKnown(s) \ SpfRecs(s)
      BY <1>6, <2>2 DEF SpfKnown
    <2>6. QED
      BY <1>5, <1>6, <2>1, <2>2, <2>3, <2>4, <2>5
  <1>17. \A i \in ToSet(spf_left') : i[1] = spf_node'
    BY <1>1, <1>3, <1>5 DEF SpfTurn
  <1>18. spf_phase \in {"direct", "queue"} => t.res = <<>> /\ spf_node' = t.root
    BY <1>1, <1>3, <1>6, <1>7 DEF SpfTurn
  <1> HIDE DEF n, v
  <1>19. CASE oif \notin SpfBi
    <2>1. UNCHANGED <<spf_metric, spf_hops, spf_queue, spf_refs>>
      BY <1>10, <1>19 DEF SpfNbr, oif
    <2>2. t = s
      BY <1>3, <1>6, <1>7, <1>12, <1>14, <1>19, <2>1, SpfSameView
    <2>3. \A i \in ToSet(spf_left) : i \in s.bi => i \in ToSet(spf_left')
      BY <1>5, <1>6, <1>19
    <2>4. SpfTurn(s, spf_phase, spf_node, ToSet(spf_left'), ToSet(spf_queue))
      BY <1>1, <1>3, <1>17, <2>3 DEF SpfTurn
    <2>5. QED
      BY <1>1, <1>2, <1>3, <2>1, <2>2, <2>4 DEF SpfPath, t
  <1>20. ASSUME oif \in SpfBi, spf_phase # "queue",
                v > spf_metric[n], t.metric = s.metric, t.hops = s.hops, spf_queue' = spf_queue
         PROVE  SpfPath'
    <2>1. oif \in s.bi /\ t.done = s.done \cup {oif} /\ SpfOffer(s, oif) > s.metric[RtPeer[oif][1]]
      BY <1>6, <1>14, <1>20 DEF v, n
    <2>2. oif[1] \in SpfRecs(s) \cup {s.root} /\ \A m \in SpfRecs(s) : s.metric[m] <= s.metric[oif[1]]
      BY <1>16, <2>1
    <2>3. SpfRight(t) /\ SpfKnown(t) = SpfKnown(s)
      BY <1>3, <1>12, <1>20, <2>1, <2>2, SpfFarther
    <2>4. SpfFarthest(s, spf_node) => SpfFarthest(t, spf_node)
      BY <1>3, <1>12, <1>20, SpfFarthestKept
    <2>5. SpfTurn(t, spf_phase', spf_node', ToSet(spf_left'), ToSet(spf_queue'))
      BY <1>1, <1>3, <1>13, <1>17, <1>18, <1>20, <2>3, <2>4 DEF SpfTurn
    <2>6. QED
      BY <1>2, <2>3, <2>5 DEF SpfPath, t
  <1>21. ASSUME oif \in SpfBi, spf_phase # "queue", v <= spf_metric[n],
                NEW h \in SpfArray, SpfRightHops(s, n, v, h),
                t.metric = [s.metric EXCEPT ![n] = v], t.hops = [s.hops EXCEPT ![n] = h],
                spf_phase = "explore" => ToSet(spf_queue') = ToSet(spf_queue) \cup {n}
         PROVE  SpfPath'
    <2>1. oif \in s.bi /\ t.done = s.done \cup {oif}
      BY <1>6, <1>14, <1>21
    <2>2. /\ oif[1] \in SpfRecs(s) \cup {s.root} /\ \A m \in SpfRecs(s) : s.metric[m] <= s.metric[oif[1]]
          /\ n \notin SpfRecs(s) \cup {s.root}
      BY <1>16, <1>21, <2>1
    <2>3. SpfRight(t) /\ SpfKnown(t) = SpfKnown(s) \cup {n}
      <3>1. SpfOffer(s, oif) <= s.metric[RtPeer[oif][1]] /\ s.metric = spf_metric
            /\ SpfRightHops(s, RtPeer[oif][1], SpfOffer(s, oif), h)
            /\ t.metric = [s.metric EXCEPT ![RtPeer[oif][1]] = SpfOffer(s, oif)]
            /\ t.hops = [s.hops EXCEPT ![RtPeer[oif][1]] = h]
        BY <1>6, <1>21 DEF n, v
      <3>2. SpfRight(t) /\ SpfKnown(t) = SpfKnown(s) \cup {RtPeer[oif][1]}
        BY <1>3, <1>12, <2>1, <2>2, <3>1, SpfNearer
      <3>3. QED
        BY <3>2 DEF n
    <2>4. \A x \in SpfRecs(s) : t.metric[x] = s.metric[x] /\ t.hops[x] = s.hops[x]
      <3>1. \A x \in SpfRecs(s) : x \in RtNode /\ x # n
        BY <1>4, <2>2 DEF SpfRecorded1, SpfRecs, SpfKnown
      <3>2. QED
        BY <1>6, <1>9, <1>21, <3>1
    <2>5. SpfFarthest(s, spf_node) => SpfFarthest(t, spf_node)
      BY <1>3, <1>12, <2>4, SpfFarthestKept
    <2>6. spf_phase = "explore" => ToSet(spf_queue') = SpfKnown(t) \ SpfRecs(t)
      <3>1. spf_phase = "explore" => ToSet(spf_queue) = SpfKnown(s) \ SpfRecs(s)
        BY <1>3 DEF SpfTurn
      <3>2. QED
        BY <1>13, <1>21, <2>2, <2>3, <3>1
    <2>7. SpfTurn(t, spf_phase', spf_node', ToSet(spf_left'), ToSet(spf_queue'))
      BY <1>1, <1>3, <1>17, <1>18, <1>21, <2>5, <2>6 DEF SpfTurn
    <2>8. QED
      BY <1>2, <2>3, <2>7 DEF SpfPath, t
  <1>22. CASE oif \in SpfBi /\ spf_phase = "direct" /\ SpfSetData(SpfDirectNbr(oif, d))
    <2> DEFINE e == SpfDirectNbr(oif, d)
               g == IF v < spf_metric[n] THEN SpfEmpty ELSE spf_hops[n]
    <2>1. spf_node = s.root /\ s.metric[s.root] = 0
      BY <1>3, <1>4, <1>22 DEF SpfTurn, SpfMetricsRight
    <2>2. v = spf_cost[oif[2]] /\ oif[1] = s.root /\ v \in Nat /\ spf_metric[n] \in Nat
      <3>1. v = spf_metric[spf_node] + spf_cost[oif[2]] /\ oif[1] = spf_node
            /\ v \in Nat /\ spf_metric[n] \in Nat
        BY <1>6, <1>16, <1>22
      <3>2. spf_cost[oif[2]] \in Nat
        BY <1>5, <1>9, SpfIntfTyped
      <3>3. QED
        BY <1>6, <2>1, <3>1, <3>2
    <2>3. /\ v > spf_metric[n] => e = d
          /\ v <= spf_metric[n] => /\ e.metric = [spf_metric EXCEPT ![n] = v]
                                   /\ e.hops = [spf_hops EXCEPT ![n] = SpfInsert(g, oif)]
      BY <1>5, <1>9, <2>2, SpfDirectFields DEF n
    <2>4. spf_metric' = e.metric /\ spf_hops' = e.hops /\ spf_queue' = e.queue
      BY <1>22 DEF SpfSetData
    <2> HIDE DEF e
    <2>5. CASE v > spf_metric[n]
      BY <1>6, <1>7, <1>9, <1>20, <1>22, <2>3, <2>4, <2>5
    <2>6. CASE v <= spf_metric[n]
      <3>1. n \in RtNode /\ (v = spf_metric[n] => n \in SpfKnown(s) \ SpfRecs(s))
        BY <1>6, <1>16, <1>22, <2>6
      <3>2. v < spf_metric[n] \/ v = spf_metric[n]
        BY <2>2, <2>6
      <3>3. g \in SpfArray /\ (g = SpfEmpty \/ SpfRightHops(s, n, v, g))
        <4>1. CASE v < spf_metric[n]
          BY <4>1, SpfEmptyIs
        <4>2. CASE v = spf_metric[n]
          <5>1. ~(v < spf_metric[n])
            BY <2>2, <4>2
          <5>2. g = spf_hops[n] /\ SpfRightHops(s, n, s.metric[n], s.hops[n])
            BY <1>4, <3>1, <4>2, <5>1 DEF SpfHopsRight
          <5>3. QED
            BY <1>6, <1>9, <3>1, <4>2, <5>2
        <4>3. QED
          BY <3>2, <4>1, <4>2
      <3> HIDE DEF g
      <3>4. SpfInsert(g, oif) \in SpfArray /\ SpfInsert(g, oif)[0] # RtNoHop
            /\ \A p \in RtPlace : SpfInsert(g, oif)[p] = g[p] \/ SpfInsert(g, oif)[p] = oif
        BY <1>5, <3>3, SpfInsertRight
      <3>5. SpfVia(s, n, v, oif)
        BY <1>6, <1>22, <2>2 DEF SpfVia, n
      <3>6. \A p \in RtPlace : g[p] # RtNoHop => SpfVia(s, n, v, g[p])
        BY <3>3 DEF SpfRightHops, SpfEmpty
      <3>7. SpfRightHops(s, n, v, SpfInsert(g, oif))
        BY <3>4, <3>5, <3>6 DEF SpfRightHops
      <3>8. t.metric = [s.metric EXCEPT ![n] = v] /\ t.hops = [s.hops EXCEPT ![n] = SpfInsert(g, oif)]
        BY <1>6, <1>7, <2>3, <2>4, <2>6
      <3>9. QED
        BY <1>21, <1>22, <2>6, <3>4, <3>7, <3>8
    <2>7. QED
      BY <2>2, <2>5, <2>6
  <1>23. CASE oif \in SpfBi /\ spf_phase = "queue" /\ SpfSetData(SpfQueueNbr(oif, d))
    <2> DEFINE e == SpfQueueNbr(oif, d)
    <2>1. oif \in s.bi /\ n \in RtNode /\ oif[1] \in SpfSoFar /\ spf_metric[n] \in Nat
          /\ v \in Nat /\ v < SpfInfinite
      BY <1>6, <1>16, <1>23
    <2>2. e.metric = d.metric /\ e.hops = d.hops /\ ToSet(e.queue) = ToSet(d.queue) \cup {n}
      <3>1. CASE n \in ToSet(d.queue)
        BY <3>1 DEF SpfQueueNbr, n
      <3>2. CASE n \notin ToSet(d.queue)
        <4>1. e = SpfEnqueue(d, n)
          BY <3>2 DEF SpfQueueNbr, n
        <4>2. QED
          BY <1>9, <2>1, <3>2, <4>1, SpfEnqueueIs
      <3>3. QED
        BY <3>1, <3>2
    <2>3. spf_metric' = spf_metric /\ spf_hops' = spf_hops
          /\ ToSet(spf_queue') = ToSet(spf_queue) \cup {n}
      BY <1>9, <1>23, <2>2 DEF SpfSetData
    <2> HIDE DEF e
    <2>4. t = s
      BY <1>3, <1>6, <1>7, <1>12, <1>14, <1>23, <2>3, SpfSameView
    <2>5. n \in SpfKnown(s)
      <3>1. oif \in s.done
        BY <1>6, <1>23, <2>1 DEF SpfDone
      <3>2. spf_metric[n] <= v
        BY <1>4, <1>6, <3>1 DEF SpfMetricsRight, SpfOffer, v, n
      <3>3. n # s.root
        BY <1>3, <1>5, <1>23, SpfPeers DEF SpfTurn, n
      <3>4. SpfInfinite \in Nat
        BY SpfAssumption
      <3>5. spf_metric[n] < SpfInfinite
        BY <2>1, <3>2, <3>4
      <3>6. QED
        BY <1>6, <2>1, <3>3, <3>5 DEF SpfKnown
    <2>6. /\ ToSet(spf_queue) \subseteq SpfKnown(s)
          /\ \A m \in SpfKnown(s) \ ToSet(spf_queue) :
               \E i \in ToSet(spf_left) : i \in s.bi /\ RtPeer[i][1] = m
      BY <1>3, <1>23 DEF SpfTurn
    <2>7. ToSet(spf_queue') \subseteq SpfKnown(s)
      BY <2>3, <2>5, <2>6
    <2>8. ASSUME NEW m \in SpfKnown(s) \ ToSet(spf_queue')
          PROVE  \E i \in ToSet(spf_left') : i \in s.bi /\ RtPeer[i][1] = m
      <3>1. PICK i \in ToSet(spf_left) : i \in s.bi /\ RtPeer[i][1] = m
        BY <2>3, <2>6
      <3>2. i # oif
        BY <2>3, <3>1 DEF n
      <3>3. QED
        BY <1>5, <3>1, <3>2
    <2>9. SpfTurn(t, spf_phase', spf_node', ToSet(spf_left'), ToSet(spf_queue'))
      BY <1>1, <1>17, <1>18, <1>23, <2>4, <2>7, <2>8 DEF SpfTurn
    <2>10. QED
      BY <1>2, <1>3, <2>4, <2>9 DEF SpfPath, t
  <1>24. CASE oif \in SpfBi /\ spf_phase = "explore" /\ SpfSetData(SpfExploreNbr(spf_node, oif, d))
    <2> DEFINE e == SpfExploreNbr(spf_node, oif, d)
    <2>1. /\ oif \in s.bi /\ n \in RtNode /\ spf_node \in RtNode /\ spf_node = oif[1]
          /\ v = spf_metric[spf_node] + spf_cost[oif[2]] /\ v \in Nat /\ spf_metric[n] \in Nat
          /\ v <= spf_metric[n] /\ v = spf_metric[n] => n \in SpfKnown(s) \ SpfRecs(s)
      BY <1>6, <1>16, <1>24
    <2>2. /\ v > spf_metric[n] => e = d
          /\ v = spf_metric[n] =>
               /\ e.metric = spf_metric /\ e.queue = spf_queue
               /\ e.hops = [spf_hops EXCEPT ![n] = SpfUnion(spf_hops[spf_node], spf_hops[n])]
          /\ v < spf_metric[n] =>
               /\ e.metric = [spf_metric EXCEPT ![n] = v]
               /\ ToSet(e.queue) = ToSet(spf_queue) \cup {n}
               /\ e.hops = [spf_hops EXCEPT ![n] = SpfUnion(spf_hops[spf_node], SpfEmpty)]
      <3> DEFINE c == d.metric[spf_node] + spf_cost[oif[2]]
      <3>1. /\ c > d.metric[n] => e = d
            /\ c = d.metric[n] =>
                 /\ e.metric = d.metric /\ e.queue = d.queue
                 /\ e.hops = [d.hops EXCEPT ![n] = SpfUnion(d.hops[spf_node], d.hops[n])]
            /\ c < d.metric[n] =>
                 /\ e.metric = [d.metric EXCEPT ![n] = c]
                 /\ ToSet(e.queue) = ToSet(d.queue) \cup {n}
                 /\ e.hops = [d.hops EXCEPT ![n] = SpfUnion(d.hops[spf_node], SpfEmpty)]
        <4>1. /\ d \in SpfScratch /\ SpfQueued(d) /\ oif \in RtIntf /\ spf_cost \in [RtLink -> Nat]
              /\ spf_node \in RtNode /\ spf_node = oif[1]
          BY <1>5, <1>9, <2>1
        <4>2. QED
          BY <4>1, SpfExploreFields DEF n
      <3>2. c = v
        BY <1>9, <2>1
      <3> HIDE DEF c, e
      <3>3. QED
        BY <1>9, <3>1, <3>2
    <2>3. spf_metric' = e.metric /\ spf_hops' = e.hops /\ spf_queue' = e.queue
      BY <1>24 DEF SpfSetData
    <2> HIDE DEF e
    <2>4. SpfFarthest(s, oif[1]) /\ ToSet(spf_queue) = SpfKnown(s) \ SpfRecs(s)
      BY <1>3, <1>24, <2>1 DEF SpfTurn
    <2>5. CASE v > spf_metric[n]
      <3>1. t.metric = s.metric /\ t.hops = s.hops /\ spf_queue' = spf_queue
        BY <1>6, <1>7, <1>9, <2>2, <2>3, <2>5
      <3>2. QED
        BY <1>20, <1>24, <2>5, <3>1
    <2>6. CASE v = spf_metric[n]
      <3> DEFINE h == SpfUnion(spf_hops[spf_node], spf_hops[n])
      <3>1. v <= spf_metric[n] /\ n \in SpfKnown(s) \ SpfRecs(s)
        BY <2>1, <2>6
      <3>2. spf_hops[n] \in SpfArray /\ SpfRightHops(s, n, v, spf_hops[n])
        BY <1>4, <1>6, <1>9, <2>1, <2>6, <3>1 DEF SpfHopsRight
      <3>3. h \in SpfArray /\ SpfRightHops(s, n, v, h)
        BY <1>3, <1>4, <1>6, <2>1, <2>4, <3>2, SpfJoinRight DEF n, v
      <3>4. t.hops = [s.hops EXCEPT ![n] = h] /\ ToSet(spf_queue') = ToSet(spf_queue) \cup {n}
        BY <1>6, <1>7, <2>2, <2>3, <2>4, <2>6, <3>1
      <3>5. t.metric = [s.metric EXCEPT ![n] = v]
        <4>1. \A f \in [RtNode -> Nat] : f[n] = v => [f EXCEPT ![n] = v] = f
          BY <2>1
        <4>2. t.metric = spf_metric /\ s.metric = spf_metric
          BY <1>6, <1>7, <2>2, <2>3, <2>6
        <4>3. QED
          BY <1>9, <2>6, <4>1, <4>2
      <3> HIDE DEF h
      <3>6. QED
        BY <1>21, <1>24, <3>1, <3>3, <3>4, <3>5
    <2>7. CASE v < spf_metric[n]
      <3> DEFINE h == SpfUnion(spf_hops[spf_node], SpfEmpty)
      <3>1. v <= spf_metric[n]
        BY <2>1, <2>7
      <3>2. h \in SpfArray /\ SpfRightHops(s, n, v, h)
        BY <1>3, <1>4, <1>6, <2>1, <2>4, SpfEmptyIs, SpfJoinRight DEF n, v
      <3>3. t.hops = [s.hops EXCEPT ![n] = h] /\ ToSet(spf_queue') = ToSet(spf_queue) \cup {n}
            /\ t.metric = [s.metric EXCEPT ![n] = v]
        BY <1>6, <1>7, <2>2, <2>3, <2>7
      <3> HIDE DEF h
      <3>4. QED
        BY <1>21, <1>24, <3>1, <3>2, <3>3
    <2>8. QED
      BY <2>1, <2>5, <2>6, <2>7
  <1>25. \/ ~Bidirectional(oif)
         \/ spf_phase = "direct" /\ SpfSetData(SpfDirectNbr(oif, d))
         \/ spf_phase = "queue" /\ SpfSetData(SpfQueueNbr(oif, d))
         \/ spf_phase = "explore" /\ SpfSetData(SpfExploreNbr(spf_node, oif, d))
    BY DEF SpfNbr, oif, d
  <1>26. QED
    BY <1>10, <1>19, <1>22, <1>23, <1>24, <1>25

-----------------------------------------------------------------------------
(* The other steps.                                                        *)

SpfGood == SpfInv /\ SpfPath /\ SpfCorrect

LEMMA SpfInitGood == SpfInit => SpfGood
  <1> SUFFICES ASSUME SpfInit PROVE SpfGood
    OBVIOUS
  <1>1. SpfInv
    BY SpfInitInv
  <1>2. spf_phase = "idle" /\ rt_dead = "no" /\ SpfCosts
    BY SpfAssumption DEF SpfInit, RtInit, SpfCosts
  <1>3. QED
    BY <1>1, <1>2 DEF SpfGood, SpfPath, SpfLooking, SpfCorrect

\* The root alone has a metric, and its interfaces are all to come.
LEMMA SpfBeginGood == SpfGood /\ SpfInv' /\ SpfBegin => SpfGood'
  <1> SUFFICES ASSUME SpfGood, SpfInv', SpfBegin PROVE SpfGood'
    OBVIOUS
  <1> DEFINE root == Head(spf_roots)
             t == SpfRun'
  <1>1. /\ SpfSorts /\ SpfSorts' /\ SpfCosts /\ spf_roots # <<>> /\ rt_dead' = "no"
        /\ spf_metric' = [n \in RtNode |-> IF n = root THEN 0 ELSE SpfInfinite]
        /\ spf_results' = [spf_results EXCEPT ![root] = <<>>]
        /\ spf_node' = root /\ spf_left' = SpfSlots[root] /\ spf_phase' = "direct"
        /\ spf_roots' = spf_roots /\ spf_cost' = spf_cost
    BY DEF SpfGood, SpfPath, SpfInv, SpfBegin, SpfRunning, SpfSetData, spfConfigVars, rtVars
  <1>2. root \in RtNode /\ spf_results'[root] = <<>>
    BY <1>1, HeadTailProperties DEF SpfSorts
  <1>3. SpfCosts' /\ SpfLooking'
    BY <1>1 DEF SpfCosts, SpfLooking
  <1>4. t \in SpfView /\ t.root = root /\ t.res = <<>> /\ t.metric = spf_metric'
        /\ t.done = SpfDone'
    BY <1>1, <1>2, <1>3, SpfRunTypedNext, SpfRunFieldsNext
  <1>5. /\ \A i \in RtIntf : i[1] = root => i \in ToSet(spf_left')
        /\ \A i \in ToSet(spf_left') : i[1] = root
    <2>1. SpfSlots[root] \in Seq(RtIntf) /\ SpfListed(SpfSlots[root], {i \in RtIntf : i[1] = root})
      BY <1>2, SpfAssumption
    <2>2. QED
      BY <1>1, <2>1 DEF SpfListed
  <1> HIDE DEF root, t
  <1>6. Len(t.res) = 0 /\ 1 .. 0 = {}
    BY <1>4
  <1>7. SpfRecs(t) = {}
    BY <1>6 DEF SpfRecs
  <1>8. SpfKnown(t) = {}
    BY <1>1, <1>4, SpfAssumption DEF SpfKnown
  <1>9. SpfDone' = {}
    <2>1. SpfSoFar' = {root}
      BY <1>7, <1>4, SpfRunFieldsNext DEF t
    <2>2. SpfBi' \subseteq RtIntf
      BY DEF SpfBi
    <2>3. QED
      BY <1>1, <1>5, <2>1, <2>2 DEF SpfDone
  <1>10. SpfRecorded1(t)
    BY <1>6 DEF SpfRecorded1
  <1>11. SpfMetricsRight(t)
    <2>1. SpfInfinite \in Nat /\ SpfInfinite >= 1
      <3>1. SpfInfinite \in Nat /\ SpfMaxMetric \in Nat
        BY SpfAssumption
      <3>2. SpfMaxMetric * (0 + 1) < SpfInfinite
        BY <1>4, <1>6, <1>10, SpfFewResults
      <3>3. QED
        BY <3>1, <3>2
    <2>2. /\ t.metric[t.root] = 0
          /\ \A n \in RtNode : n # t.root => t.metric[n] >= 1 /\ t.metric[n] <= SpfInfinite
      BY <1>1, <1>2, <1>4, <2>1 DEF root
    <2>3. QED
      BY <1>4, <1>7, <1>8, <1>9, <2>2 DEF SpfMetricsRight
  <1>12. SpfHopsRight(t)
    BY <1>6, <1>8 DEF SpfHopsRight
  <1>13. SpfTurn(t, spf_phase', spf_node', ToSet(spf_left'), ToSet(spf_queue'))
    BY <1>1, <1>4, <1>5 DEF SpfTurn, root
  <1>14. SpfPath'
    BY <1>3, <1>10, <1>11, <1>12, <1>13 DEF SpfPath, SpfRight, t
  <1>15. SpfCorrect'
    BY <1>1 DEF SpfCorrect
  <1>16. QED
    BY <1>14, <1>15 DEF SpfGood

\* The root's interfaces are looked through once more; nothing is in the queue.
LEMMA SpfQueueRootGood == SpfGood /\ SpfInv' /\ SpfQueueRoot => SpfGood'
  <1> SUFFICES ASSUME SpfGood, SpfInv', SpfQueueRoot PROVE SpfGood'
    OBVIOUS
  <1> DEFINE s == SpfRun
             t == SpfRun'
  <1>1. /\ SpfSorts /\ SpfSorts' /\ SpfLoop /\ SpfCosts /\ rt_dead' = "no"
        /\ spf_phase = "direct" /\ spf_phase' = "queue" /\ spf_left = <<>>
        /\ spf_left' = SpfSlots[spf_node] /\ spf_node' = spf_node
        /\ spf_cost' = spf_cost /\ spf_up' = spf_up /\ spf_results' = spf_results
        /\ spf_roots' = spf_roots /\ spf_metric' = spf_metric /\ spf_hops' = spf_hops
        /\ spf_queue' = spf_queue
    BY DEF SpfGood, SpfPath, SpfInv, SpfQueueRoot, SpfRunning, spfConfigVars, spfDataVars, rtVars
  <1>2. SpfLooking /\ SpfLooking' /\ SpfCosts'
    BY <1>1 DEF SpfLooking, SpfCosts
  <1>3. /\ s \in SpfView /\ t \in SpfView /\ SpfRight(s)
        /\ SpfTurn(s, spf_phase, spf_node, ToSet(spf_left), ToSet(spf_queue))
    BY <1>1, <1>2, SpfRunTyped, SpfRunTypedNext DEF SpfGood, SpfPath
  <1>4. SpfBi' = SpfBi /\ SpfSoFar' = SpfSoFar /\ ToSet(<<>>) = {}
    BY <1>1 DEF SpfBi, SpfSoFar, Bidirectional, ToSet
  <1>5. SpfDone = {i \in SpfBi : i[1] \in SpfSoFar} /\ SpfDone' = SpfDone
    BY <1>1, <1>4 DEF SpfDone
  <1>6. SpfSameRun(s, t) /\ t.metric = s.metric /\ t.hops = s.hops /\ t.done = s.done
    BY <1>1, <1>4, <1>5, SpfRunFields, SpfRunFieldsNext DEF SpfSameRun
  <1>7. s.done = SpfDone /\ s.bi = SpfBi /\ SpfRecs(s) \cup {s.root} = SpfSoFar
        /\ s.root = Head(spf_roots)
    BY SpfRunFields
  <1> HIDE DEF s, t
  <1>8. t = s
    BY <1>3, <1>6, SpfSameView
  <1>9. s.res = <<>> /\ spf_node = s.root /\ spf_node \in RtNode /\ spf_queue = <<>>
    BY <1>1, <1>3 DEF SpfTurn, SpfLoop, SpfSorts
  <1>10. SpfSoFar = {spf_node}
    <2>1. Len(s.res) = 0 /\ 1 .. 0 = {}
      BY <1>9
    <2>2. SpfRecs(s) = {}
      BY <2>1 DEF SpfRecs
    <2>3. QED
      BY <1>7, <1>9, <2>2
  <1>11. ToSet(spf_left') = {i \in RtIntf : i[1] = spf_node}
    BY <1>1, <1>9, SpfAssumption DEF SpfListed
  <1>12. ASSUME NEW n \in SpfKnown(s)
         PROVE  \E i \in ToSet(spf_left') : i \in s.bi /\ RtPeer[i][1] = n
    <2>1. PICK i \in s.done : RtPeer[i][1] = n
      BY <1>3 DEF SpfRight, SpfMetricsRight
    <2>2. i \in SpfBi /\ i[1] = spf_node
      BY <1>5, <1>7, <1>10
    <2>3. i \in RtIntf
      BY <2>2 DEF SpfBi
    <2>4. QED
      BY <1>7, <1>11, <2>1, <2>2, <2>3
  <1>13. SpfTurn(t, spf_phase', spf_node', ToSet(spf_left'), ToSet(spf_queue'))
    BY <1>1, <1>4, <1>8, <1>9, <1>11, <1>12 DEF SpfTurn
  <1>14. SpfPath'
    BY <1>2, <1>3, <1>8, <1>13 DEF SpfPath, t
  <1>15. SpfCorrect'
    BY <1>1 DEF SpfCorrect
  <1>16. QED
    BY <1>14, <1>15 DEF SpfGood

\* Before a node is dequeued, or the run ends: the interfaces of the recorded
\* nodes have been looked through, and the others that have a metric are queued.
LEMMA SpfRoundDone ==
    ASSUME SpfGood, spf_phase \in {"queue", "explore"}, spf_left = <<>>
    PROVE  /\ SpfLooking /\ SpfSorts /\ SpfLoop /\ SpfCosts
           /\ SpfRun \in SpfView /\ SpfRight(SpfRun)
           /\ ToSet(spf_queue) = SpfKnown(SpfRun) \ SpfRecs(SpfRun)
           /\ SpfRun.done = {i \in SpfRun.bi : i[1] \in SpfRecs(SpfRun) \cup {SpfRun.root}}
           /\ spf_node \in SpfRecs(SpfRun) \cup {SpfRun.root}
           /\ \A n \in SpfKnown(SpfRun) : n # SpfRun.root
  <1> DEFINE s == SpfRun
  <1>1. SpfLooking /\ SpfSorts /\ SpfLoop /\ SpfCosts
    BY DEF SpfGood, SpfPath, SpfInv, SpfLooking
  <1>2. /\ s \in SpfView /\ SpfRight(s)
        /\ SpfTurn(s, spf_phase, spf_node, ToSet(spf_left), ToSet(spf_queue))
    BY <1>1, SpfRunTyped DEF SpfGood, SpfPath
  <1>3. ToSet(spf_left) = {}
    BY DEF ToSet
  <1>4. SpfDone = {i \in SpfBi : i[1] \in SpfSoFar}
    BY <1>3 DEF SpfDone
  <1>5. s.done = {i \in s.bi : i[1] \in SpfRecs(s) \cup {s.root}}
    BY <1>4, SpfRunFields
  <1> HIDE DEF s
  <1>6. spf_node \in SpfRecs(s) \cup {s.root} /\ ToSet(spf_queue) = SpfKnown(s) \ SpfRecs(s)
    <2>1. CASE spf_phase = "explore"
      BY <1>2, <2>1 DEF SpfTurn, SpfFarthest
    <2>2. CASE spf_phase = "queue"
      <3>1. s.res = <<>> /\ spf_node = s.root /\ ToSet(spf_queue) = SpfKnown(s)
        BY <1>2, <1>3, <2>2 DEF SpfTurn
      <3>2. Len(s.res) = 0 /\ 1 .. 0 = {}
        BY <3>1
      <3>3. SpfRecs(s) = {}
        BY <3>2 DEF SpfRecs
      <3>4. QED
        BY <3>1, <3>3
    <2>3. QED
      BY <2>1, <2>2
  <1>7. \A n \in SpfKnown(s) : n # s.root
    BY DEF SpfKnown
  <1>8. QED
    BY <1>1, <1>2, <1>5, <1>6, <1>7 DEF s

\* The nearest node in the queue has its result recorded, for the first time.
LEMMA SpfDequeueGood == SpfGood /\ SpfInv' /\ SpfDequeue => SpfGood'
  <1> SUFFICES ASSUME SpfGood, SpfInv', SpfDequeue PROVE SpfGood'
    OBVIOUS
  <1> DEFINE root == Head(spf_roots)
             n == Head(spf_queue)
             f == SpfFlush(SpfData, spf_node)
             u == SpfUnion(spf_hops[n], SpfEmpty)
             r == [node |-> n, metric |-> spf_metric[n], hops |-> u]
             e == [f EXCEPT !.queue = Tail(@), !.refs = [i \in RtIntf |-> @[i] + SpfCount(u, i)]]
             s == SpfRun
             t == SpfRun'
  <1>1. /\ spf_phase \in {"queue", "explore"} /\ spf_left = <<>> /\ spf_queue # <<>>
        /\ SpfSetData(e) /\ spf_results' = [spf_results EXCEPT ![root] = <<r>> \o @]
        /\ spf_node' = n /\ spf_left' = SpfSlots[n] /\ spf_phase' = "explore"
        /\ rt_dead' = (IF SpfRecorded(root, n) THEN "recorded" ELSE "no")
        /\ spf_roots' = spf_roots /\ spf_cost' = spf_cost /\ spf_up' = spf_up /\ SpfSorts'
    BY DEF SpfInv, SpfDequeue, spfConfigVars
  <1>2. /\ SpfSorts /\ SpfLoop /\ SpfCosts /\ s \in SpfView /\ SpfRight(s)
        /\ ToSet(spf_queue) = SpfKnown(s) \ SpfRecs(s)
        /\ s.done = {i \in s.bi : i[1] \in SpfRecs(s) \cup {s.root}}
        /\ spf_node \in SpfRecs(s) \cup {s.root}
        /\ \A m \in SpfKnown(s) : m # s.root
    BY <1>1, SpfRoundDone
  <1>3. SpfLooking' /\ SpfCosts' /\ t \in SpfView
    BY <1>1, <1>2, SpfRunTypedNext DEF SpfLooking, SpfCosts
  <1>4. /\ spf_queue \in Seq(RtNode) /\ KlDistinct(spf_queue) /\ KlSorted(spf_queue, spf_metric)
        /\ SpfData \in SpfScratch /\ SpfData.hops = spf_hops /\ SpfData.metric = spf_metric
        /\ SpfData.queue = spf_queue
        /\ spf_hops \in [RtNode -> SpfArray] /\ spf_metric \in [RtNode -> Nat]
        /\ spf_results \in [RtNode -> Seq(SpfEntry)] /\ spf_node \in RtNode
        /\ spf_roots \in Seq(RtNode) /\ spf_roots # <<>>
    BY <1>1, <1>2 DEF SpfSorts, SpfLoop, SpfQueued, SpfData, SpfScratch
  <1>5. root \in RtNode
    BY <1>4, HeadTailProperties
  <1>6. n \in RtNode /\ n = spf_queue[1] /\ n \in ToSet(spf_queue) /\ 1 \in 1 .. Len(spf_queue)
        /\ ToSet(Tail(spf_queue)) = ToSet(spf_queue) \ {n}
    BY <1>1, <1>4, KlTail
  <1>7. \A m \in ToSet(spf_queue) : spf_metric[n] <= spf_metric[m]
    <2>1. ASSUME NEW k \in 1 .. Len(spf_queue) PROVE spf_metric[n] <= spf_metric[spf_queue[k]]
      <3>1. spf_queue[k] \in RtNode /\ Len(spf_queue) \in Nat
        BY <1>4, LenProperties
      <3>2. k = 1 \/ 1 < k
        BY <3>1
      <3>3. CASE k = 1
        BY <1>4, <1>6, <3>1, <3>3
      <3>4. CASE 1 < k
        BY <1>6, <3>4, <1>4 DEF KlSorted
      <3>5. QED
        BY <3>2, <3>3, <3>4
    <2>2. DOMAIN spf_queue = 1 .. Len(spf_queue)
      BY <1>4, LenProperties
    <2>3. QED
      BY <2>1, <2>2 DEF ToSet
  <1>8. /\ s.bi = SpfBi /\ s.cost = spf_cost /\ s.root = root /\ s.res = spf_results[root]
        /\ s.metric = spf_metric /\ s.hops = spf_hops /\ s.done = SpfDone
        /\ SpfRecs(s) \cup {s.root} = SpfSoFar
    BY SpfRunFields
  <1>9. /\ t.bi = SpfBi' /\ t.cost = spf_cost /\ t.root = root
        /\ t.res = <<r>> \o spf_results[root] /\ t.metric = spf_metric' /\ t.hops = spf_hops'
        /\ t.done = SpfDone' /\ SpfRecs(t) \cup {t.root} = SpfSoFar'
    <2>1. spf_results'[root] = <<r>> \o spf_results[root]
      BY <1>1, <1>4, <1>5
    <2> HIDE DEF r
    <2>2. QED
      BY <1>1, <2>1, SpfRunFieldsNext
  <1>10. /\ f \in SpfScratch /\ f.metric = spf_metric /\ f.queue = spf_queue
         /\ f.hops = [spf_hops EXCEPT ![spf_node] = SpfEmpty]
    BY <1>4, SpfFlushIs
  <1>11. spf_metric' = spf_metric /\ spf_hops' = [spf_hops EXCEPT ![spf_node] = SpfEmpty]
         /\ spf_queue' = Tail(spf_queue)
    <2> HIDE DEF f, u
    <2>1. e.metric = f.metric /\ e.hops = f.hops /\ e.queue = Tail(f.queue)
      BY <1>10 DEF SpfScratch
    <2>2. QED
      BY <1>1, <1>10, <2>1 DEF SpfSetData
  <1> HIDE DEF f, e, s, t, u, root, n
  <1>12. n \in SpfKnown(s) \ SpfRecs(s) /\ n # spf_node
         /\ \A m \in SpfKnown(s) \ SpfRecs(s) : m # spf_node /\ m \in RtNode
    BY <1>2, <1>6 DEF SpfKnown
  <1>13. SpfRightHops(s, n, spf_metric[n], spf_hops[n])
    BY <1>2, <1>8, <1>12 DEF SpfRight, SpfHopsRight
  <1>14. /\ u \in SpfArray /\ SpfRightHops(s, n, spf_metric[n], u)
         /\ \A p \in RtPlace : spf_hops[n][p] # RtNoHop => \E l \in RtPlace : u[l] = spf_hops[n][p]
    <2>1. spf_hops[n] \in SpfArray /\ SpfEmpty \in SpfArray
      BY <1>4, <1>6, SpfEmptyIs
    <2>2. u \in SpfArray
      BY <2>1, SpfUnionIs DEF u
    <2>3. u[0] # RtNoHop
      BY <1>13, <2>1, SpfUnionFirst DEF u, SpfRightHops
    <2>4. \A p \in RtPlace : u[p] = RtNoHop \/ \E j \in RtPlace : u[p] = spf_hops[n][j]
      BY <2>1, SpfUnionFrom DEF u, SpfEmpty
    <2>5. \A p \in RtPlace : spf_hops[n][p] # RtNoHop => \E l \in RtPlace : u[l] = spf_hops[n][p]
      BY <2>1, SpfUnionKeeps DEF u
    <2>6. QED
      BY <1>13, <2>2, <2>3, <2>4, <2>5 DEF SpfRightHops
  <1>15. SpfBi' = SpfBi
    BY <1>1 DEF SpfBi, Bidirectional
  <1>16. /\ t.bi = s.bi /\ t.cost = s.cost /\ t.root = s.root /\ t.metric = s.metric
         /\ t.res = <<r>> \o s.res
         /\ \A m \in SpfKnown(s) \ SpfRecs(s) : t.hops[m] = s.hops[m]
    <2>1. \A m \in SpfKnown(s) \ SpfRecs(s) : spf_hops'[m] = spf_hops[m]
      BY <1>4, <1>11, <1>12
    <2> HIDE DEF r
    <2>2. QED
      BY <1>8, <1>9, <1>11, <1>15, <2>1
  <1>17. SpfRecs(t) = SpfRecs(s) \cup {n}
    <2>1. s.res \in Seq(SpfEntry) /\ r \in SpfEntry /\ r.node = n
      BY <1>2, <1>4, <1>6, <1>14 DEF SpfView, SpfEntry
    <2>2. Len(s.res) \in Nat
      BY <2>1, LenProperties
    <2> HIDE DEF r
    <2>3. /\ Len(t.res) = Len(s.res) + 1
          /\ \A k \in 1 .. Len(s.res) + 1 : t.res[k] = IF k = 1 THEN r ELSE s.res[k - 1]
      BY <1>16, <2>1, KlPrepend
    <2>4. ASSUME NEW k \in 1 .. Len(t.res) PROVE t.res[k].node \in SpfRecs(s) \cup {n}
      <3>1. k = 1 \/ k - 1 \in 1 .. Len(s.res)
        BY <2>2, <2>3
      <3>2. QED
        BY <2>1, <2>3, <3>1 DEF SpfRecs
    <2>5. ASSUME NEW k \in 1 .. Len(s.res) PROVE \E j \in 1 .. Len(t.res) : t.res[j] = s.res[k]
      <3>1. k + 1 \in 1 .. Len(t.res) /\ k + 1 # 1 /\ (k + 1) - 1 = k
        BY <2>2, <2>3
      <3>2. QED
        BY <2>3, <3>1
    <2>6. 1 \in 1 .. Len(t.res) /\ t.res[1].node = n
      BY <2>1, <2>2, <2>3
    <2>7. SpfRecs(t) \subseteq SpfRecs(s) \cup {n}
      BY <2>4 DEF SpfRecs
    <2>8. SpfRecs(s) \subseteq SpfRecs(t)
      BY <2>5 DEF SpfRecs
    <2>9. n \in SpfRecs(t)
      BY <2>6 DEF SpfRecs
    <2>10. QED
      BY <2>7, <2>8, <2>9
  <1>18. ToSet(spf_left') = {i \in RtIntf : i[1] = n}
    BY <1>1, <1>6, SpfAssumption DEF SpfListed
  <1>19. t.done = s.done
    <2>1. SpfDone' = {i \in SpfBi : i[1] \in SpfSoFar' /\ i \notin ToSet(spf_left')}
      BY <1>1, <1>15 DEF SpfDone
    <2>2. SpfSoFar' = SpfSoFar \cup {n} /\ n \notin SpfSoFar
      BY <1>2, <1>8, <1>9, <1>12, <1>16, <1>17
    <2>3. SpfBi \subseteq RtIntf
      BY DEF SpfBi
    <2>4. QED
      BY <1>2, <1>8, <1>9, <1>18, <2>1, <2>2, <2>3
  <1>20. SpfRight(t) /\ SpfKnown(t) = SpfKnown(s)
    <2>1. \A m \in SpfKnown(s) \ SpfRecs(s) : s.metric[n] <= s.metric[m]
      BY <1>2, <1>7, <1>8
    <2>2. SpfRightHops(s, n, s.metric[n], u)
          /\ t.res = <<[node |-> n, metric |-> s.metric[n], hops |-> u]>> \o s.res
      BY <1>8, <1>14, <1>16
    <2> HIDE DEF r
    <2>3. QED
      BY <1>2, <1>3, <1>12, <1>14, <1>16, <1>19, <2>1, <2>2, SpfNearestRecorded
  <1>21. SpfFarthest(t, n)
    <2>1. \A x \in SpfRecs(t) : t.metric[x] <= t.metric[n]
      <3>1. \A x \in SpfRecs(s) : s.metric[x] <= s.metric[n]
        BY <1>2, <1>12 DEF SpfRight, SpfMetricsRight
      <3>2. spf_metric[n] <= spf_metric[n]
        BY <1>4, <1>6
      <3>3. QED
        BY <1>8, <1>16, <1>17, <3>1, <3>2
    <2>2. t.hops[n] = spf_hops[n]
      BY <1>8, <1>12, <1>16
    <2>3. t.hops[n][0] # RtNoHop
      BY <1>13, <2>2 DEF SpfRightHops
    <2>4. 1 \in 1 .. Len(t.res) /\ t.res[1].node = n /\ t.res[1].hops = u
      <3>1. s.res \in Seq(SpfEntry) /\ r \in SpfEntry /\ r.node = n /\ r.hops = u
        BY <1>2, <1>4, <1>6, <1>14 DEF SpfView, SpfEntry
      <3> HIDE DEF r
      <3>2. Len(s.res) \in Nat
        BY <3>1, LenProperties
      <3>3. /\ Len(t.res) = Len(s.res) + 1
            /\ \A k \in 1 .. Len(s.res) + 1 : t.res[k] = IF k = 1 THEN r ELSE s.res[k - 1]
        BY <1>16, <3>1, KlPrepend
      <3>4. QED
        BY <3>1, <3>2, <3>3
    <2>5. QED
      BY <1>14, <1>17, <2>1, <2>2, <2>3, <2>4 DEF SpfFarthest
  <1>22. SpfTurn(t, spf_phase', spf_node', ToSet(spf_left'), ToSet(spf_queue'))
    <2>1. ToSet(spf_queue') = SpfKnown(t) \ SpfRecs(t)
      BY <1>2, <1>6, <1>11, <1>17, <1>20
    <2>2. \A i \in ToSet(spf_left') : i[1] = spf_node'
      BY <1>1, <1>18
    <2>3. QED
      BY <1>1, <1>21, <2>1, <2>2 DEF SpfTurn
  <1>23. SpfPath'
    BY <1>3, <1>20, <1>22 DEF SpfPath, t
  <1>24. ~SpfRecorded(root, n)
    BY <1>8, <1>12 DEF SpfRecorded, SpfRecs
  <1>25. SpfCorrect'
    BY <1>1, <1>24 DEF SpfCorrect
  <1>26. QED
    BY <1>23, <1>25 DEF SpfGood

\* Nothing is left in the queue: the results are the shortest paths.
LEMMA SpfClearGood == SpfGood /\ SpfInv' /\ SpfClear => SpfGood'
  <1> SUFFICES ASSUME SpfGood, SpfInv', SpfClear PROVE SpfGood'
    OBVIOUS
  <1> DEFINE s == SpfRun
  <1>1. /\ spf_phase \in {"queue", "explore"} /\ spf_left = <<>> /\ spf_queue = <<>>
        /\ spf_phase' = "install" /\ rt_dead' = "no"
        /\ spf_cost' = spf_cost /\ spf_up' = spf_up /\ spf_results' = spf_results
        /\ spf_roots' = spf_roots
    BY DEF SpfClear, ClearRoutes, spfConfigVars
  <1>2. /\ SpfCosts /\ s \in SpfView /\ SpfRight(s)
        /\ ToSet(spf_queue) = SpfKnown(s) \ SpfRecs(s)
        /\ s.done = {i \in s.bi : i[1] \in SpfRecs(s) \cup {s.root}}
    BY <1>1, SpfRoundDone
  <1>3. s.bi = SpfBi /\ s.cost = spf_cost /\ s.root = Head(spf_roots)
        /\ s.res = spf_results[Head(spf_roots)]
    BY SpfRunFields
  <1> HIDE DEF s
  <1>4. SpfKnown(s) = SpfRecs(s)
    <2>1. ToSet(spf_queue) = {}
      BY <1>1 DEF ToSet
    <2>2. SpfRecs(s) \subseteq SpfKnown(s)
      BY <1>2 DEF SpfRight, SpfRecorded1, SpfRecs
    <2>3. QED
      BY <1>2, <2>1, <2>2
  <1>5. SpfShortest(SpfBi, spf_cost, Head(spf_roots), spf_results[Head(spf_roots)])
    BY <1>2, <1>3, <1>4, SpfComplete
  <1>6. {i \in RtIntf : Bidirectional(i)}' = SpfBi
    BY <1>1 DEF SpfBi, Bidirectional
  <1>7. SpfCorrect'
    BY <1>1, <1>5, <1>6 DEF SpfCorrect
  <1>8. SpfPath'
    BY <1>1, <1>2 DEF SpfPath, SpfCosts, SpfLooking
  <1>9. QED
    BY <1>7, <1>8 DEF SpfGood

\* The steps of no run, and those that install its results.
LEMMA SpfRestGood ==
    ASSUME SpfGood, SpfInv',
           \/ SpfInstall \/ SpfFinish \/ (\E roots : RunSpf(roots)) \/ UNCHANGED spfVars
           \/ \E i \in RtIntf : \E cost \in 1 .. SpfMaxMetric : \E up : ConfigIntf(i, cost, up)
    PROVE  SpfGood'
  <1>1. SpfPath /\ SpfCorrect /\ SpfSorts
    BY DEF SpfGood, SpfInv
  <1>2. CASE SpfInstall
    <2>1. /\ spf_phase = "install" /\ rt_dead' = "no" /\ spf_phase' = spf_phase
          /\ spf_cost' = spf_cost /\ spf_up' = spf_up /\ spf_results' = spf_results
          /\ spf_roots' = spf_roots
      BY <1>2 DEF SpfInstall, SpfRunning, InstallRoute, rtVars, spfConfigVars, spfDataVars
    <2>2. {i \in RtIntf : Bidirectional(i)}' = {i \in RtIntf : Bidirectional(i)}
      BY <2>1 DEF Bidirectional
    <2>3. SpfCorrect'
      BY <1>1, <2>1, <2>2 DEF SpfCorrect
    <2>4. SpfPath'
      BY <1>1, <2>1 DEF SpfPath, SpfCosts, SpfLooking
    <2>5. QED
      BY <2>3, <2>4 DEF SpfGood
  <1>3. ASSUME spf_phase' = "idle", rt_dead' = rt_dead, SpfCosts' PROVE SpfGood'
    <2>1. SpfPath'
      BY <1>3 DEF SpfPath, SpfLooking
    <2>2. SpfCorrect'
      BY <1>1, <1>3 DEF SpfCorrect
    <2>3. QED
      BY <2>1, <2>2 DEF SpfGood
  <1>4. CASE SpfFinish
    <2>1. spf_phase' = "idle" /\ rt_dead' = rt_dead /\ spf_cost' = spf_cost
      BY <1>4 DEF SpfFinish, rtVars, spfConfigVars
    <2>2. QED
      BY <1>1, <1>3, <2>1 DEF SpfPath, SpfCosts
  <1>5. SpfIdle /\ spf_phase \in SpfPhase => spf_phase = "idle"
    BY <1>1 DEF SpfSorts, SpfIdle
  <1>6. CASE \E roots : RunSpf(roots)
    <2>1. SpfIdle /\ spf_phase' = spf_phase /\ rt_dead' = rt_dead /\ spf_cost' = spf_cost
      BY <1>6 DEF RunSpf, rtVars, spfConfigVars
    <2>2. QED
      BY <1>1, <1>3, <1>5, <2>1 DEF SpfPath, SpfCosts, SpfSorts
  <1>7. CASE \E i \in RtIntf : \E cost \in 1 .. SpfMaxMetric : \E up : ConfigIntf(i, cost, up)
    <2>1. PICK i \in RtIntf, cost \in 1 .. SpfMaxMetric : \E up : ConfigIntf(i, cost, up)
      BY <1>7
    <2>2. /\ SpfIdle /\ spf_phase' = spf_phase /\ rt_dead' = rt_dead
          /\ spf_cost' = [spf_cost EXCEPT ![i[2]] = cost]
      BY <2>1 DEF ConfigIntf, rtVars, spfLoopVars
    <2>3. spf_cost' \in [RtLink -> 1 .. SpfMaxMetric]
      BY <1>1, <2>2 DEF SpfPath, SpfCosts
    <2>4. QED
      BY <1>1, <1>3, <1>5, <2>2, <2>3 DEF SpfCosts, SpfSorts
  <1>8. CASE UNCHANGED spfVars
    <2>1. UNCHANGED <<rt_dead, spf_cost, spf_up, spf_phase, spf_roots, spf_metric, spf_hops,
                      spf_queue, spf_results, spf_node, spf_left>>
      BY <1>8 DEF spfVars, rtVars, spfConfigVars, spfDataVars, spfLoopVars
    <2>2. SpfBi' = SpfBi /\ SpfSoFar' = SpfSoFar
          /\ {i \in RtIntf : Bidirectional(i)}' = {i \in RtIntf : Bidirectional(i)}
      BY <2>1 DEF SpfBi, SpfSoFar, Bidirectional
    <2>3. SpfDone' = SpfDone
      BY <2>1, <2>2 DEF SpfDone
    <2>4. SpfRun' = SpfRun
      BY <2>1, <2>2, <2>3 DEF SpfRun
    <2>5. SpfPath'
      BY <1>1, <2>1, <2>4 DEF SpfPath, SpfCosts, SpfLooking
    <2>6. SpfCorrect'
      BY <1>1, <2>1, <2>2 DEF SpfCorrect
    <2>7. QED
      BY <2>5, <2>6 DEF SpfGood
  <1>9. QED
    BY <1>2, <1>4, <1>6, <1>7, <1>8

LEMMA SpfStepGood == SpfGood /\ [SpfNext]_spfVars => SpfGood'
  <1> SUFFICES ASSUME SpfGood, [SpfNext]_spfVars PROVE SpfGood'
    OBVIOUS
  <1>1. SpfInv /\ SpfInv' /\ SpfPath
    BY SpfStepInv DEF SpfGood
  <1>2. CASE SpfNbr
    <2>1. SpfPath'
      BY <1>1, <1>2, SpfNbrPath
    <2>2. spf_phase' = spf_phase /\ rt_dead' = "no" /\ spf_phase \in {"direct", "queue", "explore"}
      BY <1>1, <1>2 DEF SpfNbr, rtVars, SpfInv, SpfSorts, SpfPhase
    <2>3. SpfCorrect'
      BY <2>2 DEF SpfCorrect
    <2>4. QED
      BY <1>1, <2>1, <2>3 DEF SpfGood
  <1>3. CASE (\E n \in SpfRuns : RunSpf(<<n>>)) \/ RunSpf(SpfOrder)
    <2>1. \E roots : RunSpf(roots)
      BY <1>3
    <2>2. QED
      BY <1>1, <2>1, SpfRestGood
  <1>4. CASE \/ \E i \in SpfTouched, cost \in SpfMetrics : ConfigIntf(i, cost, spf_up[i])
             \/ \E i \in SpfTouched : ConfigIntf(i, spf_cost[i[2]], ~spf_up[i])
    <2>1. SpfMetrics \subseteq 1 .. SpfMaxMetric /\ SpfTouched \subseteq RtIntf
      BY SpfAssumption
    <2>2. \A i \in SpfTouched : i \in RtIntf /\ spf_cost[i[2]] \in 1 .. SpfMaxMetric
      BY <1>1, <2>1, SpfIntfTyped DEF SpfPath, SpfCosts
    <2>3. \E i \in RtIntf : \E cost \in 1 .. SpfMaxMetric : \E up : ConfigIntf(i, cost, up)
      BY <1>4, <2>1, <2>2
    <2>4. QED
      BY <1>1, <2>3, SpfRestGood
  <1>5. CASE SpfInstall \/ SpfFinish \/ UNCHANGED spfVars
    BY <1>1, <1>5, SpfRestGood
  <1>6. CASE SpfBegin \/ SpfQueueRoot \/ SpfDequeue \/ SpfClear
    BY <1>1, <1>6, SpfBeginGood, SpfQueueRootGood, SpfDequeueGood, SpfClearGood
  <1>7. QED
    BY <1>2, <1>3, <1>4, <1>5, <1>6 DEF SpfNext

\* Whatever the network, the costs and the states of its interfaces, and however
\* many next hops a route has: a run that goes over to spf_install_routes has
\* found the shortest paths from its root and no others, and none has recorded
\* a node twice (spf_record_result asserts that it has not).
THEOREM SpfAlwaysCorrect == SpfSpec => []SpfCorrect
  <1>1. SpfInit => SpfGood
    BY SpfInitGood
  <1>2. SpfGood /\ [SpfNext]_spfVars => SpfGood'
    BY SpfStepGood
  <1>3. SpfGood => SpfCorrect
    BY DEF SpfGood
  <1>4. QED
    BY <1>1, <1>2, <1>3, PTL DEF SpfSpec

=============================================================================
