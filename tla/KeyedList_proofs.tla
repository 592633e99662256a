-------------------------- MODULE KeyedList_proofs --------------------------
(***************************************************************************)
(* Lemmas about sequences of items and about the operators of KeyedList,   *)
(* for the lists of GlThread and the queue of Spf; and the induction over  *)
(* the numbers that the proofs of both use.                                *)
(***************************************************************************)
EXTENDS KeyedList, SequenceTheorems, FiniteSetTheorems, FunctionTheorems,
        WellFoundedInduction, TLAPS

\* No item is there twice.
KlDistinct(order) ==
    \A j, k \in 1 .. Len(order) : order[j] = order[k] => j = k

\* The items are in the order of the key.
KlSorted(order, key) ==
    \A j, k \in 1 .. Len(order) : j < k => key[order[j]] <= key[order[k]]

\* Induction, for a set of numbers.
LEMMA KlLeast ==
    ASSUME NEW T \in SUBSET Nat, T # {}
    PROVE  \E x \in T : \A y \in T : x <= y
  <1>1. PICK x \in T : \A y \in T : ~ (<<y, x>> \in OpToRel(<, Nat))
    BY WFMin, NatLessThanWellFounded
  <1>2. \A y \in T : ~(y < x)
    BY <1>1 DEF OpToRel
  <1>3. QED
    BY <1>2

\* A list of distinct items is no longer than there are items.
LEMMA KlLength ==
    ASSUME NEW S, IsFiniteSet(S), NEW order \in Seq(S), KlDistinct(order)
    PROVE  Cardinality(S) \in Nat /\ Len(order) <= Cardinality(S)
  <1>1. Len(order) \in Nat /\ order \in [1 .. Len(order) -> S]
    BY LenProperties
  <1>2. order \in Injection(1 .. Len(order), S)
    BY <1>1 DEF KlDistinct, Injection, IsInjective
  <1>3. Cardinality(1 .. Len(order)) <= Cardinality(S)
    BY <1>2, FS_Injection
  <1>4. Cardinality(1 .. Len(order)) = Len(order)
    BY <1>1, FS_Interval
  <1>5. QED
    BY <1>1, <1>3, <1>4, FS_CardinalityType

\* What InsertAt and RemoveAt of the community modules return.
LEMMA KlInsertAt ==
    ASSUME NEW S, NEW s \in Seq(S), NEW k \in 1 .. Len(s) + 1, NEW e \in S
    PROVE  /\ InsertAt(s, k, e) \in Seq(S)
           /\ Len(InsertAt(s, k, e)) = Len(s) + 1
           /\ \A j \in 1 .. Len(s) + 1 :
                InsertAt(s, k, e)[j] = IF j < k THEN s[j] ELSE IF j = k THEN e ELSE s[j - 1]
  <1> DEFINE a == SubSeq(s, 1, k - 1)
             b == SubSeq(s, k, Len(s))
             ab == a \o <<e>>
  <1>1. Len(s) \in Nat /\ k \in Int /\ \A i \in 1 .. Len(s) : s[i] \in S
    BY LenProperties
  <1>2. /\ a \in Seq(S) /\ Len(a) = k - 1 /\ \A i \in 1 .. k - 1 : a[i] = s[i]
        /\ b \in Seq(S) /\ Len(b) = Len(s) - k + 1
        /\ \A i \in 1 .. Len(s) - k + 1 : b[i] = s[k + i - 1]
    <2>1. /\ \A i \in 1 .. k - 1 : s[i] \in S
          /\ \A i \in k .. Len(s) : s[i] \in S
      BY <1>1
    <2>2. k - 1 \in Int /\ Len(s) \in Int /\ 1 \in Int /\ k \in Int
      BY <1>1
    <2>3. /\ a \in Seq(S) /\ Len(a) = (IF 1 <= k - 1 THEN k - 1 - 1 + 1 ELSE 0)
          /\ \A i \in 1 .. k - 1 - 1 + 1 : a[i] = s[1 + i - 1]
      BY <2>1, <2>2, SubSeqProperties
    <2>4. /\ b \in Seq(S) /\ Len(b) = (IF k <= Len(s) THEN Len(s) - k + 1 ELSE 0)
          /\ \A i \in 1 .. Len(s) - k + 1 : b[i] = s[k + i - 1]
      BY <2>1, <2>2, SubSeqProperties
    <2> HIDE DEF a, b
    <2>5. QED
      BY <1>1, <2>3, <2>4
  <1> HIDE DEF a, b
  <1>3. /\ <<e>> \in Seq(S) /\ Len(<<e>>) = 1 /\ <<e>>[1] = e
    OBVIOUS
  <1>4. /\ ab \in Seq(S) /\ Len(ab) = k
        /\ \A i \in 1 .. k : ab[i] = IF i < k THEN s[i] ELSE e
    <2>1. /\ ab \in Seq(S) /\ Len(ab) = Len(a) + Len(<<e>>)
          /\ \A i \in 1 .. Len(a) + Len(<<e>>) :
               ab[i] = IF i <= Len(a) THEN a[i] ELSE <<e>>[i - Len(a)]
      BY <1>2, <1>3, ConcatProperties
    <2> HIDE DEF ab
    <2>2. QED
      BY <1>1, <1>2, <1>3, <2>1
  <1> HIDE DEF ab
  <1>5. /\ ab \o b \in Seq(S) /\ Len(ab \o b) = Len(ab) + Len(b)
        /\ \A i \in 1 .. Len(ab) + Len(b) :
             (ab \o b)[i] = IF i <= Len(ab) THEN ab[i] ELSE b[i - Len(ab)]
    BY <1>2, <1>4, ConcatProperties
  <1>6. InsertAt(s, k, e) = ab \o b
    BY DEF InsertAt, a, b, ab
  <1>7. ASSUME NEW j \in 1 .. Len(s) + 1
        PROVE  InsertAt(s, k, e)[j] = IF j < k THEN s[j] ELSE IF j = k THEN e ELSE s[j - 1]
    <2>1. CASE j <= k
      BY <1>1, <1>2, <1>4, <1>5, <1>6, <2>1
    <2>2. CASE j > k
      <3>1. j - k \in 1 .. Len(s) - k + 1 /\ k + (j - k) - 1 = j - 1
        BY <1>1, <2>2
      <3>2. b[j - k] = s[j - 1]
        BY <1>2, <3>1
      <3>3. QED
        BY <1>1, <1>2, <1>4, <1>5, <1>6, <2>2, <3>2
    <2>3. QED
      BY <1>1, <2>1, <2>2
  <1>8. QED
    BY <1>1, <1>2, <1>4, <1>5, <1>6, <1>7

LEMMA KlRemoveAt ==
    ASSUME NEW S, NEW s \in Seq(S), NEW k \in 1 .. Len(s)
    PROVE  /\ RemoveAt(s, k) \in Seq(S)
           /\ Len(RemoveAt(s, k)) = Len(s) - 1
           /\ \A j \in 1 .. Len(s) - 1 :
                RemoveAt(s, k)[j] = IF j < k THEN s[j] ELSE s[j + 1]
  <1> DEFINE a == SubSeq(s, 1, k - 1)
             b == SubSeq(s, k + 1, Len(s))
  <1>1. Len(s) \in Nat /\ k \in Int /\ \A i \in 1 .. Len(s) : s[i] \in S
    BY LenProperties
  <1>2. /\ a \in Seq(S) /\ Len(a) = k - 1 /\ \A i \in 1 .. k - 1 : a[i] = s[i]
        /\ b \in Seq(S) /\ Len(b) = Len(s) - k
        /\ \A i \in 1 .. Len(s) - k : b[i] = s[k + i]
    <2>1. /\ \A i \in 1 .. k - 1 : s[i] \in S
          /\ \A i \in k + 1 .. Len(s) : s[i] \in S
      BY <1>1
    <2>2. k - 1 \in Int /\ Len(s) \in Int /\ 1 \in Int /\ k + 1 \in Int
      BY <1>1
    <2>3. /\ a \in Seq(S) /\ Len(a) = (IF 1 <= k - 1 THEN k - 1 - 1 + 1 ELSE 0)
          /\ \A i \in 1 .. k - 1 - 1 + 1 : a[i] = s[1 + i - 1]
      BY <2>1, <2>2, SubSeqProperties
    <2>4. /\ b \in Seq(S)
          /\ Len(b) = (IF k + 1 <= Len(s) THEN Len(s) - (k + 1) + 1 ELSE 0)
          /\ \A i \in 1 .. Len(s) - (k + 1) + 1 : b[i] = s[(k + 1) + i - 1]
      BY <2>1, <2>2, SubSeqProperties
    <2> HIDE DEF a, b
    <2>5. \A i \in 1 .. Len(s) - k : i \in 1 .. Len(s) - (k + 1) + 1 /\ (k + 1) + i - 1 = k + i
      BY <1>1
    <2>6. Len(a) = k - 1 /\ \A i \in 1 .. k - 1 : a[i] = s[i]
      BY <1>1, <2>3
    <2>7. Len(b) = Len(s) - k
      BY <1>1, <2>4
    <2>8. \A i \in 1 .. Len(s) - k : b[i] = s[k + i]
      BY <2>4, <2>5
    <2>9. QED
      BY <2>3, <2>4, <2>6, <2>7, <2>8
  <1> HIDE DEF a, b
  <1>3. /\ a \o b \in Seq(S) /\ Len(a \o b) = Len(a) + Len(b)
        /\ \A i \in 1 .. Len(a) + Len(b) :
             (a \o b)[i] = IF i <= Len(a) THEN a[i] ELSE b[i - Len(a)]
    BY <1>2, ConcatProperties
  <1>4. RemoveAt(s, k) = a \o b
    BY DEF RemoveAt, a, b
  <1>5. ASSUME NEW j \in 1 .. Len(s) - 1
        PROVE  RemoveAt(s, k)[j] = IF j < k THEN s[j] ELSE s[j + 1]
    <2>1. CASE j < k
      BY <1>1, <1>2, <1>3, <1>4, <2>1
    <2>2. CASE j >= k
      <3>1. j - (k - 1) \in 1 .. Len(s) - k /\ k + (j - (k - 1)) = j + 1
        BY <1>1, <2>2
      <3>2. b[j - (k - 1)] = s[j + 1]
        BY <1>2, <3>1
      <3>3. QED
        BY <1>1, <1>2, <1>3, <1>4, <2>2, <3>2
    <2>3. QED
      BY <1>1, <2>1, <2>2
  <1>6. QED
    BY <1>1, <1>2, <1>3, <1>4, <1>5

\* The first place is in front of all.
LEMMA KlInsertFirst ==
    ASSUME NEW S, NEW s \in Seq(S), NEW e \in S
    PROVE  InsertAt(s, 1, e) = <<e>> \o s
  <1>1. Len(s) \in Nat /\ 1 \in 1 .. Len(s) + 1
    BY LenProperties
  <1>2. /\ InsertAt(s, 1, e) \in Seq(S) /\ Len(InsertAt(s, 1, e)) = Len(s) + 1
        /\ \A j \in 1 .. Len(s) + 1 : InsertAt(s, 1, e)[j] =
             IF j < 1 THEN s[j] ELSE IF j = 1 THEN e ELSE s[j - 1]
    BY <1>1, KlInsertAt
  <1>3. <<e>> \in Seq(S) /\ Len(<<e>>) = 1 /\ <<e>>[1] = e
    OBVIOUS
  <1> DEFINE t == <<e>> \o s
  <1>4. /\ t \in Seq(S) /\ Len(t) = Len(<<e>>) + Len(s)
        /\ \A j \in 1 .. Len(<<e>>) + Len(s) :
             t[j] = IF j <= Len(<<e>>) THEN <<e>>[j] ELSE s[j - Len(<<e>>)]
    BY <1>3, ConcatProperties
  <1> HIDE DEF t
  <1>5. Len(t) = Len(s) + 1 /\ \A j \in 1 .. Len(s) + 1 : t[j] = IF j = 1 THEN e ELSE s[j - 1]
    BY <1>1, <1>3, <1>4
  <1>6. InsertAt(s, 1, e) = t
    BY <1>1, <1>2, <1>4, <1>5, SeqEqual
  <1>7. QED
    BY <1>6 DEF t

\* A list with one more item in front.
LEMMA KlPrepend ==
    ASSUME NEW S, NEW s \in Seq(S), NEW e \in S
    PROVE  /\ <<e>> \o s \in Seq(S)
           /\ Len(<<e>> \o s) = Len(s) + 1
           /\ \A k \in 1 .. Len(s) + 1 : (<<e>> \o s)[k] = IF k = 1 THEN e ELSE s[k - 1]
  <1> DEFINE t == <<e>> \o s
  <1>1. Len(s) \in Nat /\ 1 \in 1 .. Len(s) + 1
    BY LenProperties
  <1>2. t = InsertAt(s, 1, e)
    BY KlInsertFirst
  <1>3. /\ InsertAt(s, 1, e) \in Seq(S) /\ Len(InsertAt(s, 1, e)) = Len(s) + 1
        /\ \A j \in 1 .. Len(s) + 1 : InsertAt(s, 1, e)[j] =
             IF j < 1 THEN s[j] ELSE IF j = 1 THEN e ELSE s[j - 1]
    BY <1>1, KlInsertAt
  <1> HIDE DEF t
  <1>4. t \in Seq(S) /\ Len(t) = Len(s) + 1
        /\ \A j \in 1 .. Len(s) + 1 : t[j] = IF j < 1 THEN s[j] ELSE IF j = 1 THEN e ELSE s[j - 1]
    BY <1>2, <1>3
  <1>5. \A k \in 1 .. Len(s) + 1 : t[k] = IF k = 1 THEN e ELSE s[k - 1]
    BY <1>1, <1>4
  <1>6. QED
    BY <1>4, <1>5 DEF t

\* The removal of the first item leaves the rest.
LEMMA KlRemoveFirst ==
    ASSUME NEW S, NEW s \in Seq(S), Len(s) >= 1
    PROVE  RemoveAt(s, 1) = Tail(s)
  <1>1. Len(s) \in Nat /\ 1 \in 1 .. Len(s) /\ s # <<>>
    BY LenProperties
  <1>2. /\ RemoveAt(s, 1) \in Seq(S) /\ Len(RemoveAt(s, 1)) = Len(s) - 1
        /\ \A j \in 1 .. Len(s) - 1 : RemoveAt(s, 1)[j] = s[j + 1]
    BY <1>1, KlRemoveAt
  <1>3. /\ Tail(s) \in Seq(S) /\ Len(Tail(s)) = Len(s) - 1
        /\ \A j \in 1 .. Len(s) - 1 : Tail(s)[j] = s[j + 1]
    BY <1>1, HeadTailProperties
  <1>4. QED
    BY <1>2, <1>3, SeqEqual

\* The rest of a list of distinct items.
LEMMA KlTail ==
    ASSUME NEW S, NEW s \in Seq(S), KlDistinct(s), s # <<>>
    PROVE  /\ Head(s) \in S /\ Head(s) = s[1] /\ Head(s) \in ToSet(s) /\ 1 \in 1 .. Len(s)
           /\ Tail(s) \in Seq(S)
           /\ ToSet(Tail(s)) = ToSet(s) \ {Head(s)}
  <1> DEFINE n == Len(s)
             t == Tail(s)
             e == Head(s)
  <1>1. /\ e \in S /\ e = s[1] /\ t \in Seq(S) /\ Len(t) = n - 1 /\ n \in Nat /\ n >= 1
        /\ \A k \in 1 .. n - 1 : t[k] = s[k + 1]
    <2>1. e \in S /\ t \in Seq(S) /\ Len(t) = n - 1 /\ \A k \in 1 .. Len(t) : t[k] = s[k + 1]
      BY HeadTailProperties
    <2>2. n \in Nat /\ n >= 1 /\ e = s[1]
      BY EmptySeq
    <2>3. QED
      BY <2>1, <2>2
  <1>2. DOMAIN s = 1 .. n /\ DOMAIN t = 1 .. n - 1
    BY <1>1, LenProperties
  <1>3. \A j, k \in 1 .. n : s[j] = s[k] => j = k
    BY DEF KlDistinct
  <1>4. ToSet(s) = {s[k] : k \in 1 .. n} /\ ToSet(t) = {t[k] : k \in 1 .. n - 1}
    BY <1>2 DEF ToSet
  <1> HIDE DEF n, t, e
  <1>5. 1 \in 1 .. n
    BY <1>1
  <1>6. ASSUME NEW k \in 1 .. n - 1 PROVE t[k] \in ToSet(s) /\ t[k] # e
    <2>1. k + 1 \in 1 .. n /\ k + 1 # 1
      BY <1>1
    <2>2. s[k + 1] # s[1]
      BY <1>3, <1>5, <2>1
    <2>3. QED
      BY <1>1, <1>4, <2>1, <2>2
  <1>7. ASSUME NEW k \in 1 .. n, s[k] # e PROVE s[k] \in ToSet(t)
    <2>1. k # 1
      BY <1>1, <1>7
    <2>2. k - 1 \in 1 .. n - 1 /\ (k - 1) + 1 = k
      BY <1>1, <2>1
    <2>3. t[k - 1] = s[k]
      BY <1>1, <2>2
    <2>4. QED
      BY <1>4, <2>2, <2>3
  <1>8. ToSet(t) = ToSet(s) \ {e}
    BY <1>4, <1>6, <1>7
  <1>9. QED
    BY <1>1, <1>4, <1>5, <1>8 DEF n, t, e

\* An item that is taken out is not left, and the order of the others is kept,
\* whatever becomes of the item's own key.
LEMMA KlWithout ==
    ASSUME NEW S, NEW order \in Seq(S), KlDistinct(order), NEW e \in S,
           NEW key, NEW keyAfter, \A x \in S : x # e => keyAfter[x] = key[x]
    PROVE  /\ \A k \in 1 .. Len(Without(order, e)) : Without(order, e)[k] # e
           /\ KlSorted(order, key) => KlSorted(Without(order, e), keyAfter)
  <1>1. Len(order) \in Nat /\ DOMAIN order = 1 .. Len(order)
        /\ \A k \in 1 .. Len(order) : order[k] \in S
    BY LenProperties
  <1>2. CASE e \in ToSet(order)
    <2> DEFINE p == CHOOSE k \in DOMAIN order : order[k] = e
               w == RemoveAt(order, p)
    <2>1. \E k \in DOMAIN order : order[k] = e
      BY <1>2 DEF ToSet
    <2>2. p \in 1 .. Len(order) /\ order[p] = e
      BY <1>1, <2>1
    <2>3. Without(order, e) = w
      BY <1>2 DEF Without
    <2> HIDE DEF p
    <2>4. /\ Len(w) = Len(order) - 1
          /\ \A j \in 1 .. Len(order) - 1 : w[j] = IF j < p THEN order[j] ELSE order[j + 1]
      BY <2>2, KlRemoveAt
    <2> HIDE DEF w
    <2>5. ASSUME NEW k \in 1 .. Len(w)
          PROVE  \E j \in 1 .. Len(order) : w[k] = order[j] /\ j # p /\ j = (IF k < p THEN k ELSE k + 1)
      BY <1>1, <2>2, <2>4
    <2>6. \A k \in 1 .. Len(w) : w[k] # e /\ w[k] \in S
      BY <1>1, <2>2, <2>5 DEF KlDistinct
    <2>7. ASSUME KlSorted(order, key), NEW j \in 1 .. Len(w), NEW k \in 1 .. Len(w), j < k
          PROVE  keyAfter[w[j]] <= keyAfter[w[k]]
      <3>1. PICK jj \in 1 .. Len(order) : w[j] = order[jj] /\ jj = (IF j < p THEN j ELSE j + 1)
        BY <2>5
      <3>2. PICK kk \in 1 .. Len(order) : w[k] = order[kk] /\ kk = (IF k < p THEN k ELSE k + 1)
        BY <2>5
      <3>3. jj < kk
        BY <1>1, <2>2, <2>4, <2>7, <3>1, <3>2
      <3>4. key[order[jj]] <= key[order[kk]]
        BY <2>7, <3>3 DEF KlSorted
      <3>5. keyAfter[w[j]] = key[w[j]] /\ keyAfter[w[k]] = key[w[k]]
        BY <2>6
      <3>6. QED
        BY <3>1, <3>2, <3>4, <3>5
    <2>8. QED
      BY <2>3, <2>6, <2>7 DEF KlSorted
  <1>3. CASE e \notin ToSet(order)
    <2>1. Without(order, e) = order /\ \A k \in 1 .. Len(order) : order[k] # e
      BY <1>1, <1>3 DEF Without, ToSet
    <2>2. \A k \in 1 .. Len(order) : keyAfter[order[k]] = key[order[k]]
      BY <1>1, <2>1
    <2>3. KlSorted(order, key) => KlSorted(order, keyAfter)
      BY <2>2 DEF KlSorted
    <2>4. QED
      BY <2>1, <2>3
  <1>4. QED
    BY <1>2, <1>3

\* An item put in its place keeps the queue in order.
LEMMA KlPlacedSorted ==
    ASSUME NEW S, NEW order \in Seq(S), NEW key \in [S -> Nat], NEW e \in S,
           KlSorted(order, key), NEW q \in 1 .. Len(order) + 1,
           \A j \in 1 .. q - 1 : key[order[j]] <= key[e],
           \A j \in q .. Len(order) : key[order[j]] > key[e]
    PROVE  KlSorted(InsertAt(order, q, e), key)
  <1> DEFINE n == Len(order)
             s == InsertAt(order, q, e)
  <1>1. n \in Nat /\ q \in Int /\ \A j \in 1 .. n : order[j] \in S
    BY LenProperties
  <1>2. /\ Len(s) = n + 1
        /\ \A j \in 1 .. n + 1 : s[j] = IF j < q THEN order[j]
                                        ELSE IF j = q THEN e ELSE order[j - 1]
    <2>1. /\ Len(InsertAt(order, q, e)) = Len(order) + 1
          /\ \A j \in 1 .. Len(order) + 1 : InsertAt(order, q, e)[j] =
               IF j < q THEN order[j] ELSE IF j = q THEN e ELSE order[j - 1]
      BY <1>1, KlInsertAt
    <2>2. QED
      BY <2>1
  <1>3. key[e] \in Nat /\ \A j \in 1 .. n : key[order[j]] \in Nat
    <2>1. \A x \in S : key[x] \in Nat
      OBVIOUS
    <2>2. QED
      BY <1>1, <2>1
  <1> HIDE DEF s
  <1> SUFFICES ASSUME NEW j \in 1 .. n + 1, NEW k \in 1 .. n + 1, j < k
               PROVE  key[s[j]] <= key[s[k]]
    BY <1>2 DEF KlSorted, s
  <1>4. CASE k < q
    <2>1. j \in 1 .. n /\ k \in 1 .. n /\ s[j] = order[j] /\ s[k] = order[k]
      BY <1>1, <1>2, <1>4
    <2>2. QED
      BY <2>1 DEF KlSorted
  <1>5. CASE k = q
    <2>1. j \in 1 .. q - 1 /\ s[j] = order[j] /\ s[k] = e
      BY <1>1, <1>2, <1>5
    <2>2. QED
      BY <2>1
  <1>6. CASE k > q /\ j < q
    <2>1. j \in 1 .. q - 1 /\ j \in 1 .. n /\ s[j] = order[j]
          /\ k - 1 \in q .. n /\ k - 1 \in 1 .. n /\ s[k] = order[k - 1]
      BY <1>1, <1>2, <1>6
    <2>2. key[order[j]] <= key[e] /\ key[order[k - 1]] > key[e]
      BY <2>1
    <2>3. QED
      BY <1>3, <2>1, <2>2
  <1>7. CASE k > q /\ j = q
    <2>1. k - 1 \in q .. n /\ k - 1 \in 1 .. n /\ s[k] = order[k - 1] /\ s[j] = e
      BY <1>1, <1>2, <1>7
    <2>2. QED
      BY <1>3, <2>1
  <1>8. CASE k > q /\ j > q
    <2>1. /\ j - 1 \in 1 .. n /\ k - 1 \in 1 .. n /\ j - 1 < k - 1
          /\ s[j] = order[j - 1] /\ s[k] = order[k - 1]
      BY <1>1, <1>2, <1>8
    <2>2. QED
      BY <2>1 DEF KlSorted
  <1>9. QED
    BY <1>1, <1>4, <1>5, <1>6, <1>7, <1>8


\* What is left without an item: the other items, none of them twice.
LEMMA KlWithoutSet ==
    ASSUME NEW S, NEW order \in Seq(S), KlDistinct(order), NEW e \in S
    PROVE  /\ Without(order, e) \in Seq(S)
           /\ KlDistinct(Without(order, e))
           /\ ToSet(Without(order, e)) = ToSet(order) \ {e}
  <1>1. Len(order) \in Nat /\ DOMAIN order = 1 .. Len(order)
        /\ \A k \in 1 .. Len(order) : order[k] \in S
    BY LenProperties
  <1>2. CASE e \in ToSet(order)
    <2> DEFINE p == CHOOSE k \in DOMAIN order : order[k] = e
               w == RemoveAt(order, p)
    <2>1. \E k \in DOMAIN order : order[k] = e
      BY <1>2 DEF ToSet
    <2>2. p \in 1 .. Len(order) /\ order[p] = e
      BY <1>1, <2>1
    <2>3. Without(order, e) = w
      BY <1>2 DEF Without
    <2> HIDE DEF p
    <2>4. /\ w \in Seq(S) /\ Len(w) = Len(order) - 1
          /\ \A j \in 1 .. Len(order) - 1 : w[j] = IF j < p THEN order[j] ELSE order[j + 1]
      BY <2>2, KlRemoveAt
    <2> HIDE DEF w
    <2>5. \A j \in 1 .. Len(order) - 1 :
            /\ j < p => w[j] = order[j] /\ j \in 1 .. Len(order)
            /\ j >= p => w[j] = order[j + 1] /\ j + 1 \in 1 .. Len(order)
      <3> SUFFICES ASSUME NEW j \in 1 .. Len(order) - 1
                   PROVE  /\ j < p => w[j] = order[j] /\ j \in 1 .. Len(order)
                          /\ j >= p => w[j] = order[j + 1] /\ j + 1 \in 1 .. Len(order)
        OBVIOUS
      <3>1. j \in 1 .. Len(order) /\ j + 1 \in 1 .. Len(order) /\ (j >= p => ~(j < p))
        BY <1>1, <2>2
      <3>2. w[j] = IF j < p THEN order[j] ELSE order[j + 1]
        BY <2>4
      <3>3. QED
        BY <3>1, <3>2
    <2>6. KlDistinct(w)
      <3> SUFFICES ASSUME NEW j \in 1 .. Len(order) - 1, NEW k \in 1 .. Len(order) - 1,
                          w[j] = w[k], j < k
                   PROVE  FALSE
        BY <1>1, <2>4 DEF KlDistinct
      <3>1. j \in Int /\ k \in Int /\ p \in Int
        BY <1>1, <2>2
      <3>2. QED
        BY <1>1, <2>5, <3>1 DEF KlDistinct
    <2>7. ASSUME NEW x \in ToSet(w) PROVE x \in ToSet(order) /\ x # e
      <3>1. DOMAIN w = 1 .. Len(order) - 1
        BY <2>4, LenProperties
      <3>2. PICK j \in 1 .. Len(order) - 1 : w[j] = x
        BY <3>1 DEF ToSet
      <3>3. \E k \in 1 .. Len(order) : order[k] = x /\ k # p
        BY <1>1, <2>2, <2>5, <3>2
      <3>4. QED
        BY <1>1, <2>2, <3>3 DEF ToSet, KlDistinct
    <2>8. ASSUME NEW x \in ToSet(order), x # e PROVE x \in ToSet(w)
      <3>1. DOMAIN w = 1 .. Len(order) - 1
        BY <2>4, LenProperties
      <3>2. PICK k \in 1 .. Len(order) : order[k] = x
        BY <1>1 DEF ToSet
      <3>3. CASE k < p
        <4>1. k \in 1 .. Len(order) - 1 /\ w[k] = x
          BY <1>1, <2>2, <2>4, <3>2, <3>3
        <4>2. QED
          BY <3>1, <4>1 DEF ToSet
      <3>4. CASE k > p
        <4>1. k - 1 \in 1 .. Len(order) - 1 /\ ~(k - 1 < p) /\ (k - 1) + 1 = k
          BY <1>1, <2>2, <3>4
        <4>2. w[k - 1] = x
          BY <2>4, <3>2, <4>1
        <4>3. QED
          BY <3>1, <4>1, <4>2 DEF ToSet
      <3>5. QED
        BY <1>1, <2>2, <2>8, <3>2, <3>3, <3>4
    <2>9. QED
      BY <2>3, <2>4, <2>6, <2>7, <2>8
  <1>3. CASE e \notin ToSet(order)
    BY <1>3 DEF Without
  <1>4. QED
    BY <1>2, <1>3

\* An item more, which is nowhere else.
LEMMA KlInsertSet ==
    ASSUME NEW S, NEW order \in Seq(S), KlDistinct(order), NEW e \in S,
           \A k \in 1 .. Len(order) : order[k] # e, NEW q \in 1 .. Len(order) + 1
    PROVE  /\ InsertAt(order, q, e) \in Seq(S)
           /\ KlDistinct(InsertAt(order, q, e))
           /\ ToSet(InsertAt(order, q, e)) = ToSet(order) \cup {e}
  <1> DEFINE n == Len(order)
             s == InsertAt(order, q, e)
  <1>1. n \in Nat /\ q \in Int /\ DOMAIN order = 1 .. n
    BY LenProperties
  <1>2. /\ s \in Seq(S) /\ Len(s) = n + 1
        /\ \A j \in 1 .. n + 1 : s[j] = IF j < q THEN order[j]
                                        ELSE IF j = q THEN e ELSE order[j - 1]
    BY KlInsertAt
  <1> HIDE DEF s
  <1>3. DOMAIN s = 1 .. n + 1
    BY <1>2, LenProperties
  <1>4. \A j \in 1 .. n + 1 :
          /\ j < q => s[j] = order[j] /\ j \in 1 .. n
          /\ j = q => s[j] = e
          /\ j > q => s[j] = order[j - 1] /\ j - 1 \in 1 .. n
    BY <1>1, <1>2
  <1>5. KlDistinct(s)
    <2> SUFFICES ASSUME NEW j \in 1 .. n + 1, NEW k \in 1 .. n + 1, s[j] = s[k], j < k
                 PROVE  FALSE
      BY <1>1, <1>2 DEF KlDistinct
    <2>1. j \in Int /\ k \in Int
      BY <1>1
    <2>2. QED
      BY <1>1, <1>4, <2>1 DEF KlDistinct
  <1>6. ASSUME NEW x \in ToSet(s) PROVE x \in ToSet(order) \cup {e}
    <2>1. PICK j \in 1 .. n + 1 : s[j] = x
      BY <1>3 DEF ToSet
    <2>2. x = e \/ \E k \in 1 .. n : order[k] = x
      BY <1>1, <1>4, <2>1
    <2>3. QED
      BY <1>1, <2>2 DEF ToSet
  <1>7. ASSUME NEW x \in ToSet(order) PROVE x \in ToSet(s)
    <2>1. PICK k \in 1 .. n : order[k] = x
      BY <1>1 DEF ToSet
    <2>2. CASE k < q
      <3>1. k \in 1 .. n + 1 /\ s[k] = x
        BY <1>1, <1>2, <2>1, <2>2
      <3>2. QED
        BY <1>3, <3>1 DEF ToSet
    <2>3. CASE k >= q
      <3>1. k + 1 \in 1 .. n + 1 /\ ~(k + 1 < q) /\ k + 1 # q /\ (k + 1) - 1 = k
        BY <1>1, <2>3
      <3>2. s[k + 1] = x
        BY <1>2, <2>1, <3>1
      <3>3. QED
        BY <1>3, <3>1, <3>2 DEF ToSet
    <2>4. QED
      BY <1>1, <2>2, <2>3
  <1>8. e \in ToSet(s)
    <2>1. q \in 1 .. n + 1 /\ s[q] = e
      BY <1>1, <1>4
    <2>2. QED
      BY <1>3, <2>1 DEF ToSet
  <1>9. ToSet(s) = ToSet(order) \cup {e}
    BY <1>6, <1>7, <1>8
  <1>10. QED
    BY <1>2, <1>5, <1>9 DEF s

\* A new item has a place in a list in order, and the list stays in order.
LEMMA KlPlaced ==
    ASSUME NEW S, NEW order \in Seq(S), KlDistinct(order), NEW key \in [S -> Nat],
           KlSorted(order, key), NEW e \in S, e \notin ToSet(order)
    PROVE  /\ Placed(order, key, e) \in Seq(S)
           /\ KlDistinct(Placed(order, key, e))
           /\ KlSorted(Placed(order, key, e), key)
           /\ ToSet(Placed(order, key, e)) = ToSet(order) \cup {e}
  <1> DEFINE n == Len(order)
             place(k) == /\ \A j \in 1 .. (k - 1) : key[order[j]] <= key[e]
                         /\ \A j \in k .. n : key[order[j]] > key[e]
             q == CHOOSE k \in 1 .. n + 1 : place(k)
             T == {k \in 1 .. n + 1 : k = n + 1 \/ key[order[k]] > key[e]}
  <1>1. n \in Nat /\ DOMAIN order = 1 .. n /\ (\A k \in 1 .. n : order[k] \in S) /\ key[e] \in Nat
    BY LenProperties
  <1>2. \A k \in 1 .. n : order[k] # e /\ key[order[k]] \in Nat
    BY <1>1 DEF ToSet
  <1>3. PICK k \in T : \A j \in T : k <= j
    <2>1. T \in SUBSET Nat /\ n + 1 \in T
      BY <1>1
    <2> HIDE DEF T
    <2>2. QED
      BY <2>1, KlLeast
  <1>4. k \in 1 .. n + 1 /\ k \in Int /\ (k = n + 1 \/ key[order[k]] > key[e])
    BY <1>1, <1>3
  <1>5. ASSUME NEW j \in 1 .. (k - 1) PROVE key[order[j]] <= key[e]
    <2>1. j \in 1 .. n /\ j \in 1 .. n + 1 /\ ~(k <= j)
      BY <1>1, <1>4
    <2>2. j \notin T
      BY <1>3, <2>1
    <2>3. QED
      BY <1>1, <1>2, <2>1, <2>2
  <1>6. ASSUME NEW j \in k .. n PROVE key[order[j]] > key[e]
    <2>1. k \in 1 .. n /\ j \in 1 .. n /\ key[order[k]] > key[e]
      BY <1>1, <1>4
    <2>2. j = k \/ key[order[k]] <= key[order[j]]
      BY <1>1, <2>1 DEF KlSorted
    <2>3. QED
      BY <1>1, <1>2, <2>1, <2>2
  <1>7. q \in 1 .. n + 1 /\ place(q)
    <2>1. place(k)
      BY <1>5, <1>6
    <2> HIDE DEF place
    <2>2. QED
      BY <1>4, <2>1
  <1>8. Placed(order, key, e) = InsertAt(order, q, e)
    BY DEF Placed
  <1> HIDE DEF q
  <1>9. KlSorted(InsertAt(order, q, e), key)
    BY <1>7, KlPlacedSorted
  <1>10. QED
    BY <1>2, <1>7, <1>8, <1>9, KlInsertSet
====
