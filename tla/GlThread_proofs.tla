-------------------------- MODULE GlThread_proofs --------------------------
(***************************************************************************)
(* The lists of glueThread/glthread.c are sound, for any number of items:  *)
(* THEOREM GlAlwaysSound.  Each operation on the pointers is shown to keep *)
(* them those of a list (GlLinked), which then is the one of KeyedList's   *)
(* operators.                                                              *)
(***************************************************************************)
EXTENDS GlThread, KeyedList_proofs

-----------------------------------------------------------------------------
(* The pointers and the list they stand for.                               *)

\* The k-th cell of the list: its head, then its items.
GlCellAt(order, k) == IF k = 0 THEN GlHead ELSE order[k]

GlPointers == [left : [GlCell -> GlCell \cup {GlNull}], right : [GlCell -> GlCell \cup {GlNull}]]

\* The pointers g are those of a list with the items of order, and an item
\* that is not in it points nowhere.
GlLinked(g, order) ==
    /\ g \in GlPointers
    /\ order \in Seq(GlItem) /\ KlDistinct(order)
    /\ \A k \in 0 .. Len(order) :
         g.right[GlCellAt(order, k)] = IF k < Len(order) THEN order[k + 1] ELSE GlNull
    /\ \A k \in 1 .. Len(order) : g.left[order[k]] = GlCellAt(order, k - 1)
    /\ g.left[GlHead] = GlNull
    /\ \A e \in GlItem : (\A k \in 1 .. Len(order) : order[k] # e) =>
         g.left[e] = GlNull /\ g.right[e] = GlNull

\* What a typed list says of its cells.
LEMMA GlCells ==
    ASSUME NEW order \in Seq(GlItem)
    PROVE  /\ Len(order) \in Nat
           /\ \A k \in 1 .. Len(order) : order[k] \in GlItem /\ order[k] # GlHead /\ order[k] # GlNull
           /\ \A k \in 0 .. Len(order) : GlCellAt(order, k) \in GlCell /\ GlCellAt(order, k) # GlNull
  <1>1. Len(order) \in Nat /\ \A k \in 1 .. Len(order) : order[k] \in GlItem
    BY LenProperties
  <1>2. \A k \in 1 .. Len(order) : order[k] # GlHead /\ order[k] # GlNull
    BY <1>1, GlAssumption
  <1>3. ASSUME NEW k \in 0 .. Len(order)
        PROVE  GlCellAt(order, k) \in GlCell /\ GlCellAt(order, k) # GlNull
    <2>1. k = 0 \/ k \in 1 .. Len(order)
      BY <1>1
    <2>2. QED
      BY <1>1, <1>2, <2>1, GlAssumption DEF GlCellAt, GlCell
  <1>4. QED
    BY <1>1, <1>2, <1>3

\* glthread_add_next behind the k-th cell puts the item there, and nothing else
\* moves.
LEMMA GlAddNextLinks ==
    ASSUME NEW g, NEW order, GlLinked(g, order), NEW e \in GlItem,
           \A k \in 1 .. Len(order) : order[k] # e, NEW c \in 0 .. Len(order)
    PROVE  GlLinked(GlAddNext(g, GlCellAt(order, c), e), InsertAt(order, c + 1, e))
  <1> DEFINE n == Len(order)
             a == GlCellAt(order, c)
             h == GlAddNext(g, a, e)
             s == InsertAt(order, c + 1, e)
  <1>1. order \in Seq(GlItem) /\ n \in Nat /\ c + 1 \in 1 .. n + 1 /\ c \in Int
    BY LenProperties DEF GlLinked
  <1>2. /\ s \in Seq(GlItem) /\ Len(s) = n + 1
        /\ \A j \in 1 .. n + 1 : s[j] = IF j < c + 1 THEN order[j]
                                        ELSE IF j = c + 1 THEN e ELSE order[j - 1]
    <2> DEFINE k == c + 1
    <2>1. k \in 1 .. Len(order) + 1
      BY <1>1
    <2> HIDE DEF k
    <2>2. /\ InsertAt(order, k, e) \in Seq(GlItem)
          /\ Len(InsertAt(order, k, e)) = Len(order) + 1
          /\ \A j \in 1 .. Len(order) + 1 : InsertAt(order, k, e)[j] =
               IF j < k THEN order[j] ELSE IF j = k THEN e ELSE order[j - 1]
      BY <1>1, <2>1, KlInsertAt
    <2>3. QED
      BY <2>2 DEF k
  <1> HIDE DEF s
  <1>3. /\ \A k \in 1 .. n : order[k] \in GlItem /\ order[k] # GlHead /\ order[k] # GlNull
        /\ \A k \in 0 .. n : GlCellAt(order, k) \in GlCell /\ GlCellAt(order, k) # GlNull
        /\ a \in GlCell /\ e \in GlCell /\ e # GlNull /\ e # GlHead /\ GlHead \in GlCell
    BY <1>1, GlCells, GlAssumption DEF GlCell
  <1>4. \A j, k \in 0 .. n : GlCellAt(order, j) = GlCellAt(order, k) => j = k
    BY <1>1, <1>3 DEF GlLinked, KlDistinct, GlCellAt
  <1>5. KlDistinct(s)
    <2> SUFFICES ASSUME NEW j \in 1 .. n + 1, NEW k \in 1 .. n + 1, s[j] = s[k], j < k
                 PROVE  FALSE
      BY <1>1, <1>2 DEF KlDistinct
    <2>1. /\ j < c + 1 => s[j] = order[j] /\ j \in 1 .. n
          /\ j = c + 1 => s[j] = e
          /\ j > c + 1 => s[j] = order[j - 1] /\ j - 1 \in 1 .. n
          /\ k < c + 1 => s[k] = order[k] /\ k \in 1 .. n
          /\ k = c + 1 => s[k] = e
          /\ k > c + 1 => s[k] = order[k - 1] /\ k - 1 \in 1 .. n
      BY <1>1, <1>2
    <2>2. j \in Int /\ k \in Int
      BY <1>1
    <2>3. QED
      BY <1>1, <2>1, <2>2 DEF GlLinked, KlDistinct
  <1>6. /\ \A k \in 0 .. c : GlCellAt(s, k) = GlCellAt(order, k)
        /\ GlCellAt(s, c + 1) = e
        /\ \A k \in c + 2 .. n + 1 : GlCellAt(s, k) = GlCellAt(order, k - 1) /\ k - 1 \in 0 .. n
    BY <1>1, <1>2 DEF GlCellAt
  <1>7. /\ g.left \in [GlCell -> GlCell \cup {GlNull}]
        /\ g.right \in [GlCell -> GlCell \cup {GlNull}]
        /\ g.right[a] = IF c < n THEN order[c + 1] ELSE GlNull
        /\ g.left[e] = GlNull /\ g.right[e] = GlNull
    BY <1>1 DEF GlLinked, GlPointers
  \* The pointers after it, as functions of a cell.
  <1>8. /\ h.left \in [GlCell -> GlCell \cup {GlNull}]
        /\ h.right \in [GlCell -> GlCell \cup {GlNull}]
        /\ h = [left |-> h.left, right |-> h.right]
        /\ h.left[e] = a /\ h.right[a] = e
        /\ h.right[e] = IF c < n THEN order[c + 1] ELSE GlNull
        /\ c < n => h.left[order[c + 1]] = e
        /\ \A x \in GlCell : x # e /\ ~(c < n /\ x = order[c + 1]) => h.left[x] = g.left[x]
        /\ \A x \in GlCell : x # e /\ x # a => h.right[x] = g.right[x]
    <2>0. a # e
      BY <1>1, <1>3 DEF GlCellAt
    <2>1. CASE c < n
      <3>1. c + 1 \in 1 .. n
        BY <1>1, <2>1
      <3>2. PICK b \in GlItem : b = order[c + 1] /\ b # e /\ b # GlNull /\ b \in GlCell
        BY <1>3, <3>1 DEF GlCell
      <3>3. g.right[a] = b /\ b # GlNull
        BY <1>7, <2>1, <3>2
      <3>4. h = [left |-> [g.left EXCEPT ![e] = a, ![b] = e],
                 right |-> [g.right EXCEPT ![a] = e, ![e] = b]]
        BY <3>3 DEF GlAddNext
      <3> HIDE DEF a, h
      <3>5. h.left = [g.left EXCEPT ![e] = a, ![b] = e]
            /\ h.right = [g.right EXCEPT ![a] = e, ![e] = b]
        BY <3>4
      <3>6. QED
        BY <1>3, <1>7, <2>0, <2>1, <3>2, <3>4, <3>5
    <2>2. CASE ~(c < n)
      <3>1. h = [left |-> [g.left EXCEPT ![e] = a], right |-> [g.right EXCEPT ![a] = e]]
        BY <1>7, <2>2 DEF GlAddNext
      <3> HIDE DEF a, h
      <3>2. h.left = [g.left EXCEPT ![e] = a] /\ h.right = [g.right EXCEPT ![a] = e]
        BY <3>1
      <3>3. QED
        BY <1>3, <1>7, <2>0, <2>2, <3>1, <3>2
    <2>3. QED
      BY <2>1, <2>2
  <1> HIDE DEF h
  <1>9. h \in GlPointers
    BY <1>8 DEF GlPointers
  <1>10. ASSUME NEW k \in 0 .. n + 1
         PROVE  h.right[GlCellAt(s, k)] = IF k < n + 1 THEN s[k + 1] ELSE GlNull
    <2>1. CASE k < c
      <3>1. k \in 0 .. n /\ GlCellAt(s, k) = GlCellAt(order, k) /\ k + 1 \in 1 .. n + 1 /\ k < n
        BY <1>1, <1>6, <2>1
      <3>2. GlCellAt(order, k) # a /\ GlCellAt(order, k) # e
        BY <1>1, <1>3, <1>4, <2>1, <3>1 DEF GlCellAt
      <3>3. h.right[GlCellAt(s, k)] = order[k + 1]
        BY <1>3, <1>8, <3>1, <3>2 DEF GlLinked
      <3>4. s[k + 1] = order[k + 1]
        BY <1>1, <1>2, <2>1, <3>1
      <3>5. QED
        BY <1>1, <3>1, <3>3, <3>4
    <2>2. CASE k = c
      BY <1>1, <1>2, <1>6, <1>8, <2>2
    <2>3. CASE k = c + 1
      <3>1. h.right[GlCellAt(s, k)] = IF c < n THEN order[c + 1] ELSE GlNull
        BY <1>6, <1>8, <2>3
      <3>2. c < n => s[k + 1] = order[c + 1]
        BY <1>1, <1>2, <2>3
      <3>3. QED
        BY <1>1, <2>3, <3>1, <3>2
    <2>4. CASE k > c + 1
      <3>1. k - 1 \in 0 .. n /\ GlCellAt(s, k) = GlCellAt(order, k - 1) /\ k \in c + 2 .. n + 1
            /\ k - 1 # c /\ k - 1 \in 1 .. n
        BY <1>1, <1>6, <2>4
      <3>2. GlCellAt(order, k - 1) # a /\ GlCellAt(order, k - 1) # e
        BY <1>1, <1>3, <1>4, <3>1 DEF GlCellAt
      <3>3. h.right[GlCellAt(s, k)] = IF k - 1 < n THEN order[(k - 1) + 1] ELSE GlNull
        BY <1>3, <1>8, <3>1, <3>2 DEF GlLinked
      <3>4. k < n + 1 => s[k + 1] = order[k]
        BY <1>1, <1>2, <2>4
      <3>5. QED
        BY <1>1, <3>1, <3>3, <3>4
    <2>5. QED
      BY <1>1, <2>1, <2>2, <2>3, <2>4
  <1>11. ASSUME NEW k \in 1 .. n + 1
         PROVE  h.left[s[k]] = GlCellAt(s, k - 1)
    <2>1. CASE k < c + 1
      <3>1. k \in 1 .. n /\ s[k] = order[k] /\ GlCellAt(s, k - 1) = GlCellAt(order, k - 1)
        BY <1>1, <1>2, <1>6, <2>1
      <3>2. s[k] # e /\ s[k] \in GlCell /\ ~(c < n /\ s[k] = order[c + 1])
        BY <1>1, <1>3, <2>1, <3>1 DEF GlLinked, KlDistinct, GlCell
      <3>3. h.left[s[k]] = g.left[order[k]]
        BY <1>8, <3>1, <3>2
      <3>4. QED
        BY <3>1, <3>3 DEF GlLinked
    <2>2. CASE k = c + 1
      BY <1>1, <1>2, <1>6, <1>8, <2>2
    <2>3. CASE k = c + 2
      <3>1. c < n /\ s[k] = order[c + 1] /\ GlCellAt(s, k - 1) = e
        BY <1>1, <1>2, <1>6, <2>3
      <3>2. QED
        BY <1>8, <3>1
    <2>4. CASE k > c + 2
      <3>1. /\ k - 1 \in 1 .. n /\ s[k] = order[k - 1]
            /\ GlCellAt(s, k - 1) = GlCellAt(order, k - 2)
        <4>1. k - 1 \in 1 .. n /\ s[k] = order[k - 1] /\ k - 1 \in c + 2 .. n + 1
          BY <1>1, <1>2, <2>4
        <4>2. GlCellAt(s, k - 1) = GlCellAt(order, (k - 1) - 1) /\ (k - 1) - 1 = k - 2
          BY <1>6, <4>1
        <4>3. QED
          BY <4>1, <4>2
      <3>2. s[k] # e /\ s[k] \in GlCell /\ ~(c < n /\ s[k] = order[c + 1])
        BY <1>1, <1>3, <2>4, <3>1 DEF GlLinked, KlDistinct, GlCell
      <3>3. h.left[s[k]] = g.left[order[k - 1]]
        BY <1>8, <3>1, <3>2
      <3>4. g.left[order[k - 1]] = GlCellAt(order, (k - 1) - 1)
        BY <3>1 DEF GlLinked
      <3>5. (k - 1) - 1 = k - 2
        BY <1>1
      <3>6. QED
        BY <3>1, <3>3, <3>4, <3>5
    <2>5. QED
      BY <1>1, <2>1, <2>2, <2>3, <2>4
  <1>12. h.left[GlHead] = GlNull
    <2>1. GlHead # e /\ ~(c < n /\ GlHead = order[c + 1])
      BY <1>1, <1>3
    <2>2. QED
      BY <1>3, <1>8, <2>1 DEF GlLinked
  <1>13. ASSUME NEW x \in GlItem, \A k \in 1 .. n + 1 : s[k] # x
         PROVE  h.left[x] = GlNull /\ h.right[x] = GlNull
    <2>1. x # e
      <3>1. c + 1 \in 1 .. n + 1 /\ s[c + 1] = e
        BY <1>1, <1>2
      <3>2. QED
        BY <1>13, <3>1
    <2>2. \A k \in 1 .. n : order[k] # x
      <3> SUFFICES ASSUME NEW k \in 1 .. n, order[k] = x PROVE FALSE
        OBVIOUS
      <3>1. k < c + 1 => k \in 1 .. n + 1 /\ s[k] = x
        BY <1>1, <1>2
      <3>2. k >= c + 1 => k + 1 \in 1 .. n + 1 /\ s[k + 1] = order[(k + 1) - 1]
        BY <1>1, <1>2
      <3>3. (k + 1) - 1 = k /\ k \in Int
        BY <1>1
      <3>4. QED
        BY <1>1, <1>13, <3>1, <3>2, <3>3
    <2>3. x # a /\ ~(c < n /\ x = order[c + 1]) /\ x \in GlCell
      BY <1>1, <2>2, GlAssumption DEF GlCellAt, GlCell
    <2>4. QED
      BY <1>8, <2>1, <2>2, <2>3 DEF GlLinked
  <1>14. QED
    BY <1>2, <1>5, <1>9, <1>10, <1>11, <1>12, <1>13 DEF GlLinked, h, s, a
\* remove_glthread takes the p-th item out, and nothing else moves.
LEMMA GlRemovedAt ==
    ASSUME NEW g, NEW order, GlLinked(g, order), NEW p \in 1 .. Len(order)
    PROVE  GlLinked(GlRemoved(g, order[p]), RemoveAt(order, p))
  <1> DEFINE n == Len(order)
             e == order[p]
             a == GlCellAt(order, p - 1)
             h == GlRemoved(g, e)
             s == RemoveAt(order, p)
  <1>1. order \in Seq(GlItem) /\ n \in Nat /\ p \in Int
    BY LenProperties DEF GlLinked
  <1>2. /\ s \in Seq(GlItem) /\ Len(s) = n - 1
        /\ \A j \in 1 .. n - 1 : s[j] = IF j < p THEN order[j] ELSE order[j + 1]
    BY <1>1, KlRemoveAt
  <1> HIDE DEF s
  <1>3. /\ \A k \in 1 .. n : order[k] \in GlItem /\ order[k] # GlHead /\ order[k] # GlNull
        /\ \A k \in 0 .. n : GlCellAt(order, k) \in GlCell /\ GlCellAt(order, k) # GlNull
        /\ e \in GlItem /\ e \in GlCell /\ e # GlNull /\ e # GlHead /\ GlHead \in GlCell
        /\ a \in GlCell /\ a # GlNull
    <2>1. p - 1 \in 0 .. n
      BY <1>1
    <2>2. QED
      BY <1>1, <2>1, GlCells, GlAssumption DEF GlCell
  <1>4. \A j, k \in 0 .. n : GlCellAt(order, j) = GlCellAt(order, k) => j = k
    BY <1>1, <1>3 DEF GlLinked, KlDistinct, GlCellAt
  <1>5. KlDistinct(s)
    <2> SUFFICES ASSUME NEW j \in 1 .. n - 1, NEW k \in 1 .. n - 1, s[j] = s[k], j < k
                 PROVE  FALSE
      BY <1>1, <1>2 DEF KlDistinct
    <2>1. /\ j < p => s[j] = order[j] /\ j \in 1 .. n
          /\ j >= p => s[j] = order[j + 1] /\ j + 1 \in 1 .. n
          /\ k < p => s[k] = order[k] /\ k \in 1 .. n
          /\ k >= p => s[k] = order[k + 1] /\ k + 1 \in 1 .. n
      BY <1>1, <1>2
    <2>2. j \in Int /\ k \in Int
      BY <1>1
    <2>3. QED
      BY <1>1, <2>1, <2>2 DEF GlLinked, KlDistinct
  <1>6. /\ \A k \in 0 .. p - 1 : GlCellAt(s, k) = GlCellAt(order, k)
        /\ \A k \in p .. n - 1 : GlCellAt(s, k) = GlCellAt(order, k + 1)
    BY <1>1, <1>2 DEF GlCellAt
  <1>7. /\ g.left \in [GlCell -> GlCell \cup {GlNull}]
        /\ g.right \in [GlCell -> GlCell \cup {GlNull}]
        /\ g.left[e] = a
        /\ g.right[e] = IF p < n THEN order[p + 1] ELSE GlNull
    <2>1. e = GlCellAt(order, p) /\ p \in 0 .. n
      BY <1>1 DEF GlCellAt
    <2>2. QED
      BY <1>1, <2>1 DEF GlLinked, GlPointers
  \* The pointers after it, as functions of a cell.
  <1>8. /\ h.left \in [GlCell -> GlCell \cup {GlNull}]
        /\ h.right \in [GlCell -> GlCell \cup {GlNull}]
        /\ h = [left |-> h.left, right |-> h.right]
        /\ h.left[e] = GlNull /\ h.right[e] = GlNull
        /\ h.right[a] = IF p < n THEN order[p + 1] ELSE GlNull
        /\ p < n => h.left[order[p + 1]] = a
        /\ \A x \in GlCell : x # e /\ ~(p < n /\ x = order[p + 1]) => h.left[x] = g.left[x]
        /\ \A x \in GlCell : x # e /\ x # a => h.right[x] = g.right[x]
    <2>0. a # e
      <3>1. p - 1 \in 0 .. n /\ p \in 0 .. n /\ e = GlCellAt(order, p)
        BY <1>1 DEF GlCellAt
      <3>2. QED
        BY <1>1, <1>4, <3>1
    <2>1. CASE p < n
      <3>1. p + 1 \in 1 .. n
        BY <1>1, <2>1
      <3>2. PICK b \in GlItem : b = order[p + 1] /\ b # e /\ b # GlNull /\ b \in GlCell
        BY <1>1, <1>3, <3>1 DEF GlLinked, KlDistinct, GlCell
      <3>3. g.right[e] = b
        BY <1>7, <2>1, <3>2
      <3>4. h = [left |-> [g.left EXCEPT ![b] = a, ![e] = GlNull],
                 right |-> [g.right EXCEPT ![a] = b, ![e] = GlNull]]
        BY <1>3, <1>7, <3>2, <3>3 DEF GlRemoved
      <3> HIDE DEF a, h, e
      <3>5. /\ h.left = [g.left EXCEPT ![b] = a, ![e] = GlNull]
            /\ h.right = [g.right EXCEPT ![a] = b, ![e] = GlNull]
        BY <3>4
      <3>6. QED
        BY <1>3, <1>7, <2>0, <2>1, <3>2, <3>4, <3>5
    <2>2. CASE ~(p < n)
      <3>1. h = [left |-> [g.left EXCEPT ![e] = GlNull], right |-> [g.right EXCEPT ![a] = GlNull]]
        BY <1>3, <1>7, <2>2 DEF GlRemoved
      <3>2. g.right[e] = GlNull
        BY <1>7, <2>2
      <3> HIDE DEF a, h, e
      <3>3. h.left = [g.left EXCEPT ![e] = GlNull] /\ h.right = [g.right EXCEPT ![a] = GlNull]
        BY <3>1
      <3>4. QED
        BY <1>3, <1>7, <2>0, <2>2, <3>1, <3>2, <3>3
    <2>3. QED
      BY <2>1, <2>2
  <1> HIDE DEF h
  <1>9. h \in GlPointers
    BY <1>8 DEF GlPointers
  <1>10. ASSUME NEW k \in 0 .. n - 1
         PROVE  h.right[GlCellAt(s, k)] = IF k < n - 1 THEN s[k + 1] ELSE GlNull
    <2>1. CASE k < p - 1
      <3>1. k \in 0 .. n /\ GlCellAt(s, k) = GlCellAt(order, k) /\ k < n - 1 /\ k < n
        BY <1>1, <1>6, <2>1
      <3>2. GlCellAt(order, k) # a /\ GlCellAt(order, k) # e
        <4>1. p - 1 \in 0 .. n /\ p \in 0 .. n /\ e = GlCellAt(order, p) /\ k # p - 1 /\ k # p
          BY <1>1, <2>1 DEF GlCellAt
        <4>2. QED
          BY <1>4, <3>1, <4>1
      <3>3. h.right[GlCellAt(s, k)] = order[k + 1]
        BY <1>3, <1>8, <3>1, <3>2 DEF GlLinked
      <3>4. s[k + 1] = order[k + 1]
        BY <1>1, <1>2, <2>1, <3>1
      <3>5. QED
        BY <3>1, <3>3, <3>4
    <2>2. CASE k = p - 1
      <3>1. GlCellAt(s, k) = a /\ (k < n - 1 <=> p < n)
        BY <1>1, <1>6, <2>2
      <3>2. p < n => s[k + 1] = order[p + 1]
        BY <1>1, <1>2, <2>2
      <3>3. QED
        BY <1>8, <3>1, <3>2
    <2>3. CASE k >= p
      <3>1. k + 1 \in 0 .. n /\ GlCellAt(s, k) = GlCellAt(order, k + 1) /\ k \in Int
        BY <1>1, <1>6, <2>3
      <3>2. GlCellAt(order, k + 1) # a /\ GlCellAt(order, k + 1) # e
        <4>1. p - 1 \in 0 .. n /\ p \in 0 .. n /\ e = GlCellAt(order, p) /\ k + 1 # p - 1 /\ k + 1 # p
          BY <1>1, <2>3, <3>1 DEF GlCellAt
        <4>2. QED
          BY <1>4, <3>1, <4>1
      <3>3. h.right[GlCellAt(s, k)] = IF k + 1 < n THEN order[(k + 1) + 1] ELSE GlNull
        BY <1>3, <1>8, <3>1, <3>2 DEF GlLinked
      <3>4. k < n - 1 => s[k + 1] = order[(k + 1) + 1]
        BY <1>1, <1>2, <2>3, <3>1
      <3>5. QED
        BY <1>1, <3>1, <3>3, <3>4
    <2>4. QED
      BY <1>1, <2>1, <2>2, <2>3
  <1>11. ASSUME NEW k \in 1 .. n - 1
         PROVE  h.left[s[k]] = GlCellAt(s, k - 1)
    <2>1. CASE k < p
      <3>1. k \in 1 .. n /\ s[k] = order[k] /\ GlCellAt(s, k - 1) = GlCellAt(order, k - 1)
        BY <1>1, <1>2, <1>6, <2>1
      <3>2. s[k] # e /\ s[k] \in GlCell /\ ~(p < n /\ s[k] = order[p + 1])
        <4>1. p < n => p + 1 \in 1 .. n /\ k # p + 1
          BY <1>1, <2>1
        <4>2. QED
          BY <1>1, <1>3, <2>1, <3>1, <4>1 DEF GlLinked, KlDistinct, GlCell
      <3>3. h.left[s[k]] = g.left[order[k]]
        BY <1>8, <3>1, <3>2
      <3>4. QED
        BY <3>1, <3>3 DEF GlLinked
    <2>2. CASE k = p
      <3>1. p < n /\ s[k] = order[p + 1] /\ GlCellAt(s, k - 1) = a
        BY <1>1, <1>2, <1>6, <2>2
      <3>2. QED
        BY <1>8, <3>1
    <2>3. CASE k > p
      <3>1. /\ k + 1 \in 1 .. n /\ s[k] = order[k + 1]
            /\ GlCellAt(s, k - 1) = GlCellAt(order, k)
        <4>1. k + 1 \in 1 .. n /\ s[k] = order[k + 1] /\ k - 1 \in p .. n - 1
          BY <1>1, <1>2, <2>3
        <4>2. GlCellAt(s, k - 1) = GlCellAt(order, (k - 1) + 1) /\ (k - 1) + 1 = k
          BY <1>1, <1>6, <4>1
        <4>3. QED
          BY <4>1, <4>2
      <3>2. s[k] # e /\ s[k] \in GlCell /\ ~(p < n /\ s[k] = order[p + 1])
        <4>1. k + 1 # p /\ k + 1 # p + 1 /\ (p < n => p + 1 \in 1 .. n)
          BY <1>1, <2>3
        <4>2. QED
          BY <1>1, <1>3, <3>1, <4>1 DEF GlLinked, KlDistinct, GlCell
      <3>3. h.left[s[k]] = g.left[order[k + 1]]
        BY <1>8, <3>1, <3>2
      <3>4. g.left[order[k + 1]] = GlCellAt(order, (k + 1) - 1)
        BY <3>1 DEF GlLinked
      <3>5. (k + 1) - 1 = k
        BY <1>1
      <3>6. QED
        BY <3>1, <3>3, <3>4, <3>5
    <2>4. QED
      BY <1>1, <2>1, <2>2, <2>3
  <1>12. h.left[GlHead] = GlNull
    <2>1. GlHead # e /\ ~(p < n /\ GlHead = order[p + 1])
      BY <1>1, <1>3
    <2>2. QED
      BY <1>3, <1>8, <2>1 DEF GlLinked
  <1>13. ASSUME NEW x \in GlItem, \A k \in 1 .. n - 1 : s[k] # x
         PROVE  h.left[x] = GlNull /\ h.right[x] = GlNull
    <2>1. CASE x = e
      BY <1>8, <2>1
    <2>2. CASE x # e
      <3>1. \A k \in 1 .. n : order[k] # x
        <4> SUFFICES ASSUME NEW k \in 1 .. n, order[k] = x PROVE FALSE
          OBVIOUS
        <4>1. k < p => k \in 1 .. n - 1 /\ s[k] = x
          BY <1>1, <1>2
        <4>2. k > p => k - 1 \in 1 .. n - 1 /\ s[k - 1] = order[(k - 1) + 1]
          BY <1>1, <1>2
        <4>3. (k - 1) + 1 = k /\ k \in Int /\ k # p
          BY <1>1, <2>2
        <4>4. QED
          BY <1>1, <1>13, <4>1, <4>2, <4>3
      <3>2. x # a /\ ~(p < n /\ x = order[p + 1]) /\ x \in GlCell
        <4>1. p < n => p + 1 \in 1 .. n
          BY <1>1
        <4>2. p - 1 # 0 => p - 1 \in 1 .. n
          BY <1>1
        <4>3. QED
          BY <3>1, <4>1, <4>2, GlAssumption DEF GlCellAt, GlCell
      <3>3. QED
        BY <1>8, <2>2, <3>1, <3>2 DEF GlLinked
    <2>3. QED
      BY <2>1, <2>2
  <1>14. QED
    BY <1>2, <1>5, <1>9, <1>10, <1>11, <1>12, <1>13 DEF GlLinked, h, s, e

\* remove_glthread of any item, in the list or not.
LEMMA GlRemovedLinks ==
    ASSUME NEW g, NEW order, GlLinked(g, order), NEW e \in GlItem
    PROVE  GlLinked(GlRemoved(g, e), Without(order, e))
  <1>1. DOMAIN order = 1 .. Len(order)
    BY LenProperties DEF GlLinked
  <1>2. CASE e \in ToSet(order)
    <2> DEFINE p == CHOOSE k \in DOMAIN order : order[k] = e
    <2>1. \E k \in DOMAIN order : order[k] = e
      BY <1>2 DEF ToSet
    <2>2. p \in 1 .. Len(order) /\ order[p] = e
      BY <1>1, <2>1
    <2>3. Without(order, e) = RemoveAt(order, p)
      BY <1>2 DEF Without
    <2> HIDE DEF p
    <2>4. QED
      BY <2>2, <2>3, GlRemovedAt
  <1>3. CASE e \notin ToSet(order)
    <2>1. g.left[e] = GlNull
      BY <1>1, <1>3 DEF GlLinked, ToSet
    <2>2. QED
      BY <1>3, <2>1 DEF GlRemoved, Without
  <1>4. QED
    BY <1>2, <1>3
-----------------------------------------------------------------------------
(* The walk.                                                               *)

\* ITERATE_GLTHREAD visits the items in their order and ends.
LEMMA GlWalkIs ==
    ASSUME NEW g, NEW order, GlLinked(g, order)
    PROVE  /\ DOMAIN GlWalk(g) = 0 .. Cardinality(GlItem)
           /\ \A k \in 0 .. Cardinality(GlItem) :
                GlWalk(g)[k] = IF k <= Len(order) THEN GlCellAt(order, k) ELSE GlNull
  <1> DEFINE n == Cardinality(GlItem)
             step(at, k) == IF k = 0 THEN GlHead
                            ELSE IF at[k - 1] = GlNull THEN GlNull ELSE g.right[at[k - 1]]
             v == [k \in 0 .. n |-> IF k <= Len(order) THEN GlCellAt(order, k) ELSE GlNull]
             w == GlWalk(g)
  <1>1. order \in Seq(GlItem) /\ Len(order) \in Nat /\ n \in Nat /\ Len(order) <= n
    BY KlLength, GlAssumption, LenProperties DEF GlLinked
  <1> HIDE DEF n
  <1>2. ASSUME NEW k \in 0 .. n PROVE v[k] = step(v, k)
    <2>1. CASE k = 0
      BY <1>1, <2>1 DEF GlCellAt
    <2>2. CASE k # 0
      <3>1. k - 1 \in 0 .. n /\ k - 1 \in Int /\ k - 1 # k
        BY <1>1, <2>2
      <3>2. CASE k - 1 <= Len(order)
        <4>1. v[k - 1] = GlCellAt(order, k - 1) /\ v[k - 1] # GlNull
          BY <1>1, <3>1, <3>2, GlCells
        <4>2. step(v, k) = g.right[GlCellAt(order, k - 1)]
          BY <2>2, <4>1
        <4>3. g.right[GlCellAt(order, k - 1)] = IF k - 1 < Len(order) THEN order[(k - 1) + 1] ELSE GlNull
          BY <1>1, <3>1, <3>2 DEF GlLinked
        <4>4. (k - 1 < Len(order) <=> k <= Len(order)) /\ (k - 1) + 1 = k
          BY <1>1
        <4>5. QED
          BY <2>2, <4>2, <4>3, <4>4 DEF GlCellAt
      <3>3. CASE ~(k - 1 <= Len(order))
        <4>1. v[k - 1] = GlNull /\ ~(k <= Len(order))
          BY <1>1, <3>1, <3>3
        <4>2. QED
          BY <2>2, <4>1
      <3>4. QED
        BY <3>2, <3>3
    <2>3. QED
      BY <2>1, <2>2
  <1>3. v = [k \in 0 .. n |-> step(v, k)]
    BY <1>2
  <1>4. w = [k \in 0 .. n |-> step(w, k)]
    <2>1. w = CHOOSE at : at = [k \in 0 .. n |-> step(at, k)]
      BY DEF GlWalk, n
    <2> HIDE DEF v, w, step
    <2>2. QED
      BY <1>3, <2>1
  <1> HIDE DEF w, v, step
  <1>a. ASSUME NEW k \in 0 .. n PROVE w[k] = step(w, k)
    <2>1. [j \in 0 .. n |-> step(w, j)][k] = step(w, k)
      OBVIOUS
    <2>2. QED
      BY <1>4, <2>1
  <1>5. \A k \in 0 .. n : w[k] = v[k]
    <2> DEFINE T == {k \in 0 .. n : w[k] # v[k]}
    <2>1. SUFFICES ASSUME T # {} PROVE FALSE
      OBVIOUS
    <2>2. PICK m \in T : \A y \in T : m <= y
      <3>1. T \in SUBSET Nat
        BY <1>1
      <3> HIDE DEF T
      <3>2. QED
        BY <2>1, <3>1, KlLeast
    <2>3. m \in 0 .. n /\ w[m] # v[m]
      BY <2>2
    <2>4. w[m] = step(w, m) /\ v[m] = step(v, m)
      BY <1>2, <1>a, <2>3
    <2>5. m # 0
      BY <2>3, <2>4 DEF step
    <2>6. m - 1 \in 0 .. n /\ ~(m <= m - 1)
      BY <1>1, <2>3, <2>5
    <2>7. w[m - 1] = v[m - 1]
      BY <2>2, <2>6
    <2> HIDE DEF T
    <2>8. step(w, m) = step(v, m)
      BY <2>7 DEF step
    <2>9. QED
      BY <2>3, <2>4, <2>8
  <1>6. DOMAIN w = 0 .. n
    BY <1>4
  <1>7. QED
    BY <1>5, <1>6 DEF w, v, n
-----------------------------------------------------------------------------
(* The queue.                                                              *)

\* glthread_priority_insert puts a new item behind those that are not greater.
LEMMA GlPriorityInsertLinks ==
    ASSUME NEW g, NEW order, GlLinked(g, order), NEW e \in GlItem,
           \A k \in 1 .. Len(order) : order[k] # e,
           NEW key \in [GlItem -> GlKey], KlSorted(order, key)
    PROVE  /\ GlLinked(GlPriorityInsert(g, key, e), Placed(order, key, e))
           /\ KlSorted(Placed(order, key, e), key)
  <1> DEFINE m == Len(order)
             n == Cardinality(GlItem)
             fresh == [left |-> [g.left EXCEPT ![e] = GlNull],
                       right |-> [g.right EXCEPT ![e] = GlNull]]
             walk == GlWalk(g)
             ends(k) == \/ k = n \/ walk[k + 1] = GlNull
                        \/ key[e] < key[walk[k + 1]]
             prev == CHOOSE k \in DOMAIN walk : ends(k) /\ \A j \in 0..(k - 1) : ~ends(j)
  <1>1. /\ order \in Seq(GlItem) /\ m \in Nat /\ n \in Nat /\ m + 1 <= n
        /\ \A k \in 1 .. m : order[k] \in GlItem /\ order[k] # GlNull
    <2>1. order \in Seq(GlItem) /\ KlDistinct(order) /\ m \in Nat
      BY LenProperties DEF GlLinked
    <2>2. \A k \in 1 .. m : order[k] \in GlItem /\ order[k] # GlNull
      BY <2>1, GlCells
    <2>3. order \in Seq(GlItem \ {e})
      <3>1. order \in [1 .. m -> GlItem \ {e}]
        BY <2>1, <2>2, LenProperties
      <3>2. QED
        BY <2>1, <3>1, SeqDef
    <2>4. /\ IsFiniteSet(GlItem \ {e}) /\ Cardinality(GlItem \ {e}) = n - 1
          /\ n \in Nat
      BY GlAssumption, FS_RemoveElement, FS_CardinalityType
    <2>5. m <= n - 1
      BY <2>1, <2>3, <2>4, KlLength
    <2>6. QED
      BY <2>1, <2>2, <2>4, <2>5
  <1>2. fresh = g
    <2>1. g.left[e] = GlNull /\ g.right[e] = GlNull /\ g \in GlPointers
      BY DEF GlLinked
    <2>2. /\ g = [left |-> g.left, right |-> g.right]
          /\ g.left \in [GlCell -> GlCell \cup {GlNull}]
          /\ g.right \in [GlCell -> GlCell \cup {GlNull}]
      BY <2>1 DEF GlPointers
    <2>3. [g.left EXCEPT ![e] = GlNull] = g.left /\ [g.right EXCEPT ![e] = GlNull] = g.right
      BY <2>1, <2>2
    <2>4. QED
      BY <2>2, <2>3
  <1>3. /\ DOMAIN walk = 0 .. n
        /\ \A k \in 0 .. n : walk[k] = IF k <= m THEN GlCellAt(order, k) ELSE GlNull
    BY GlWalkIs
  <1> HIDE DEF n, walk, fresh
  <1>4. /\ \A k \in 0 .. m - 1 : ends(k) <=> key[e] < key[order[k + 1]]
        /\ ends(m)
    <2>1. ASSUME NEW k \in 0 .. m - 1 PROVE ends(k) <=> key[e] < key[order[k + 1]]
      <3>1. k # n /\ k + 1 \in 0 .. n /\ k + 1 \in 1 .. m /\ k + 1 # 0 /\ k + 1 <= m
        BY <1>1
      <3>2. walk[k + 1] = order[k + 1] /\ order[k + 1] # GlNull
        BY <1>1, <1>3, <3>1 DEF GlCellAt
      <3>3. QED
        BY <3>1, <3>2
    <2>2. m + 1 \in 0 .. n /\ ~(m + 1 <= m)
      BY <1>1
    <2>3. QED
      BY <1>3, <2>1, <2>2
  <1>5. prev \in 0 .. m /\ ends(prev) /\ \A j \in 0 .. prev - 1 : ~ends(j)
    <2> DEFINE T == {k \in 0 .. n : ends(k)}
    <2>1. T \in SUBSET Nat /\ m \in T
      BY <1>1, <1>4
    <2>2. PICK x \in T : \A y \in T : x <= y
      <3> HIDE DEF T
      <3>1. QED
        BY <2>1, KlLeast
    <2>3. x \in DOMAIN walk /\ ends(x) /\ \A j \in 0 .. (x - 1) : ~ends(j)
      <3>1. x \in 0 .. n /\ ends(x)
        BY <2>2
      <3>2. ASSUME NEW j \in 0 .. x - 1, ends(j) PROVE FALSE
        <4>1. j \in 0 .. n /\ ~(x <= j)
          BY <1>1, <3>1
        <4>2. QED
          BY <2>2, <3>2, <4>1
      <3>3. QED
        BY <1>3, <3>1, <3>2
    <2> HIDE DEF T, ends
    <2>4. prev \in 0 .. n /\ ends(prev) /\ \A j \in 0 .. prev - 1 : ~ends(j)
      BY <1>3, <2>3
    <2> HIDE DEF prev
    <2>5. prev <= m
      BY <1>1, <1>4, <2>4
    <2>6. QED
      BY <1>1, <2>4, <2>5
  <1>6. GlPriorityInsert(g, key, e) = GlAddNext(g, GlCellAt(order, prev), e)
    <2>1. GlPriorityInsert(g, key, e) = GlAddNext(fresh, GlWalk(fresh)[
             CHOOSE k \in DOMAIN GlWalk(fresh) :
               /\ \/ k = n \/ GlWalk(fresh)[k + 1] = GlNull
                  \/ key[e] < key[GlWalk(fresh)[k + 1]]
               /\ \A j \in 0..(k - 1) :
                    ~(\/ j = n \/ GlWalk(fresh)[j + 1] = GlNull
                      \/ key[e] < key[GlWalk(fresh)[j + 1]])], e)
      BY DEF GlPriorityInsert, fresh, n
    <2>2. GlPriorityInsert(g, key, e) = GlAddNext(g, walk[prev], e)
      BY <1>2, <2>1 DEF walk
    <2> HIDE DEF prev
    <2>3. prev \in 0 .. n /\ prev <= m
      BY <1>1, <1>5
    <2>4. QED
      BY <1>3, <2>2, <2>3
  <1>7. /\ \A j \in 1 .. prev : key[order[j]] <= key[e]
        /\ \A j \in prev + 1 .. m : key[order[j]] > key[e]
    <2> HIDE DEF prev, ends
    <2>0. key[e] \in Nat /\ \A j \in 1 .. m : key[order[j]] \in Nat
      BY <1>1, GlAssumption
    <2>1. ASSUME NEW j \in 1 .. prev PROVE key[order[j]] <= key[e]
      <3>1. j - 1 \in 0 .. prev - 1 /\ j - 1 \in 0 .. m - 1 /\ (j - 1) + 1 = j /\ j \in 1 .. m
        BY <1>1, <1>5
      <3>2. ~(key[e] < key[order[j]])
        BY <1>4, <1>5, <3>1
      <3>3. QED
        BY <2>0, <3>1, <3>2
    <2>2. ASSUME NEW j \in prev + 1 .. m PROVE key[order[j]] > key[e]
      <3>1. prev \in 0 .. m - 1 /\ prev + 1 \in 1 .. m /\ j \in 1 .. m
        BY <1>1, <1>5
      <3>2. key[e] < key[order[prev + 1]]
        BY <1>4, <1>5, <3>1
      <3>3. j = prev + 1 \/ key[order[prev + 1]] <= key[order[j]]
        BY <1>1, <3>1 DEF KlSorted
      <3>4. QED
        BY <2>0, <3>1, <3>2, <3>3
    <2>3. QED
      BY <2>1, <2>2
  <1> HIDE DEF prev
  <1>8. Placed(order, key, e) = InsertAt(order, prev + 1, e)
    <2> DEFINE place(k) == /\ \A j \in 1 .. (k - 1) : key[order[j]] <= key[e]
                           /\ \A j \in k .. m : key[order[j]] > key[e]
               q == CHOOSE k \in 1 .. m + 1 : place(k)
    <2>0. key[e] \in Nat /\ \A j \in 1 .. m : key[order[j]] \in Nat
      BY <1>1, GlAssumption
    <2>1. prev + 1 \in 1 .. m + 1 /\ (prev + 1) - 1 = prev /\ prev \in Int
      BY <1>1, <1>5
    <2>2. place(prev + 1)
      BY <1>7, <2>1
    <2>3. q \in 1 .. m + 1 /\ place(q)
      <3> HIDE DEF place
      <3>1. QED
        BY <2>1, <2>2
    <2>4. Placed(order, key, e) = InsertAt(order, q, e)
      BY DEF Placed
    <2> HIDE DEF q
    <2>5. q = prev + 1
      <3>1. CASE q < prev + 1
        <4>1. q \in 1 .. m /\ q \in q .. m /\ q \in 1 .. prev
          BY <1>1, <1>5, <2>3, <3>1
        <4>2. key[order[q]] > key[e] /\ key[order[q]] <= key[e]
          BY <1>7, <2>3, <4>1
        <4>3. QED
          BY <2>0, <4>1, <4>2
      <3>2. CASE q > prev + 1
        <4>1. prev + 1 \in 1 .. m /\ prev + 1 \in prev + 1 .. m /\ prev + 1 \in 1 .. q - 1
          BY <1>1, <1>5, <2>3, <3>2
        <4>2. key[order[prev + 1]] > key[e] /\ key[order[prev + 1]] <= key[e]
          BY <1>7, <2>3, <4>1
        <4>3. QED
          BY <2>0, <4>1, <4>2
      <3>3. QED
        BY <1>1, <2>1, <2>3, <3>1, <3>2
    <2>6. QED
      BY <2>4, <2>5
  <1>9. GlLinked(GlPriorityInsert(g, key, e), Placed(order, key, e))
    BY <1>5, <1>6, <1>8, GlAddNextLinks
  <1>10. KlSorted(Placed(order, key, e), key)
    <2>1. prev + 1 \in 1 .. m + 1 /\ (prev + 1) - 1 = prev
      BY <1>1, <1>5
    <2>2. key \in [GlItem -> Nat]
      BY GlAssumption
    <2> DEFINE q == prev + 1
    <2>3. /\ q \in 1 .. Len(order) + 1
          /\ \A j \in 1 .. q - 1 : key[order[j]] <= key[e]
          /\ \A j \in q .. Len(order) : key[order[j]] > key[e]
      BY <1>7, <2>1
    <2> HIDE DEF q
    <2>4. KlSorted(InsertAt(order, q, e), key)
      BY <1>1, <2>2, <2>3, KlPlacedSorted
    <2>5. QED
      BY <1>8, <2>4 DEF q
  <1>11. QED
    BY <1>9, <1>10
-----------------------------------------------------------------------------
(* The deletion of a whole list.                                           *)

\* A removal keeps the pointers' type.
LEMMA GlRemovedTyped ==
    ASSUME NEW g \in GlPointers, NEW e \in GlItem
    PROVE  GlRemoved(g, e) \in GlPointers
  <1>1. /\ g = [left |-> g.left, right |-> g.right]
        /\ g.left \in [GlCell -> GlCell \cup {GlNull}]
        /\ g.right \in [GlCell -> GlCell \cup {GlNull}]
        /\ e \in GlCell
    BY DEF GlPointers, GlCell
  <1>2. CASE g.left[e] = GlNull
    BY <1>2 DEF GlRemoved
  <1>3. CASE g.left[e] # GlNull /\ g.right[e] = GlNull
    <2>1. GlRemoved(g, e) = [left |-> [g.left EXCEPT ![e] = GlNull],
                             right |-> [g.right EXCEPT ![g.left[e]] = GlNull]]
      BY <1>3 DEF GlRemoved
    <2>2. /\ [g.left EXCEPT ![e] = GlNull] \in [GlCell -> GlCell \cup {GlNull}]
          /\ [g.right EXCEPT ![g.left[e]] = GlNull] \in [GlCell -> GlCell \cup {GlNull}]
      BY <1>1
    <2>3. QED
      BY <2>1, <2>2 DEF GlPointers
  <1>4. CASE g.left[e] # GlNull /\ g.right[e] # GlNull
    <2> DEFINE l == [g.left EXCEPT ![g.right[e]] = g.left[e], ![e] = GlNull]
               r == [g.right EXCEPT ![g.left[e]] = g.right[e], ![e] = GlNull]
    <2>1. GlRemoved(g, e) = [left |-> l, right |-> r]
      BY <1>4 DEF GlRemoved
    <2>2. l \in [GlCell -> GlCell \cup {GlNull}] /\ r \in [GlCell -> GlCell \cup {GlNull}]
      BY <1>1
    <2> HIDE DEF l, r
    <2>3. QED
      BY <2>1, <2>2 DEF GlPointers
  <1>5. QED
    BY <1>2, <1>3, <1>4

\* The removal of one after another, at the cells of walk, has a result after
\* each of them: the recursive function of glthread's deletion is defined.
LEMMA GlRemovals ==
    ASSUME NEW n \in Nat, NEW g \in GlPointers, NEW walk \in [1 .. n -> GlItem \cup {GlNull}]
    PROVE  \E f \in [0 .. n -> GlPointers] :
             /\ f[0] = g
             /\ \A k \in 1 .. n :
                  f[k] = IF walk[k] = GlNull THEN f[k - 1] ELSE GlRemoved(f[k - 1], walk[k])
  <1> DEFINE then(x, k) == IF walk[k] = GlNull THEN x ELSE GlRemoved(x, walk[k])
             solves(f, b) == f[0] = g /\ \A k \in 1 .. b : f[k] = then(f[k - 1], k)
             T == {b \in 0 .. n : \A f \in [0 .. b -> GlPointers] : ~solves(f, b)}
  <1>0. \A x \in GlPointers, k \in 1 .. n : then(x, k) \in GlPointers
    BY GlRemovedTyped
  <1> HIDE DEF then
  <1>1. SUFFICES ASSUME T # {} PROVE FALSE
    <2>1. n \in 0 .. n /\ n \notin T => \E f \in [0 .. n -> GlPointers] : solves(f, n)
      OBVIOUS
    <2> HIDE DEF T
    <2>2. n \in 0 .. n
      OBVIOUS
    <2>3. QED
      BY <2>1, <2>2 DEF then
  <1>2. PICK b \in T : \A c \in T : b <= c
    <2>1. T \in SUBSET Nat
      OBVIOUS
    <2> HIDE DEF T
    <2>2. QED
      BY <1>1, <2>1, KlLeast
  <1>3. b \in 0 .. n /\ \A f \in [0 .. b -> GlPointers] : ~solves(f, b)
    BY <1>2
  <1>4. CASE b = 0
    <2>1. [k \in 0 .. b |-> g] \in [0 .. b -> GlPointers] /\ solves([k \in 0 .. b |-> g], b)
      BY <1>4
    <2>2. QED
      BY <1>3, <2>1
  <1>5. CASE b # 0
    <2>1. b - 1 \in 0 .. n /\ ~(b <= b - 1) /\ b \in 1 .. n
      BY <1>3, <1>5
    <2>2. PICK f \in [0 .. b - 1 -> GlPointers] : solves(f, b - 1)
      BY <1>2, <2>1
    <2>3. f[b - 1] \in GlPointers /\ then(f[b - 1], b) \in GlPointers
      BY <1>0, <2>1
    <2> DEFINE h == [k \in 0 .. b |-> IF k = b THEN then(f[b - 1], b) ELSE f[k]]
    <2>4. /\ \A k \in 0 .. b - 1 : h[k] = f[k]
          /\ h[b] = then(f[b - 1], b)
      BY <2>1
    <2>5. h \in [0 .. b -> GlPointers]
      BY <2>1, <2>3
    <2> HIDE DEF h
    <2>6. ASSUME NEW k \in 1 .. b PROVE h[k] = then(h[k - 1], k)
      <3>1. k - 1 \in 0 .. b - 1 /\ (k = b \/ (k \in 1 .. b - 1 /\ k \in 0 .. b - 1))
        BY <2>1
      <3>2. QED
        BY <2>1, <2>2, <2>4, <3>1 DEF solves
    <2>7. h[0] = g
      <3>1. 0 \in 0 .. b - 1
        BY <2>1
      <3>2. QED
        BY <2>2, <2>4, <3>1 DEF solves
    <2>8. solves(h, b)
      BY <2>6, <2>7 DEF solves
    <2>9. QED
      BY <1>3, <2>5, <2>8
  <1>6. QED
    BY <1>4, <1>5

\* What is left after the removal of all that a walk visits.
LEMMA GlDeletedLinks ==
    ASSUME GlLinked(GlThese, gl_order), GlDeleteList
    PROVE  /\ GlLinked(GlThese', <<>>)
           /\ gl_order' = <<>>
  <1> DEFINE n == Cardinality(GlItem)
             m == Len(gl_order)
             walk == GlWalk(GlThese)
             step(g, k) == IF k = 0 THEN GlThese
                           ELSE IF walk[k] = GlNull THEN g[k - 1] ELSE GlRemoved(g[k - 1], walk[k])
             gs == CHOOSE g : g = [k \in 0 .. n |-> step(g, k)]
  <1>1. /\ gl_order \in Seq(GlItem) /\ m \in Nat /\ n \in Nat /\ m <= n
        /\ \A k \in 1 .. m : gl_order[k] \in GlItem /\ gl_order[k] # GlNull
        /\ GlThese \in GlPointers
    BY KlLength, GlAssumption, LenProperties, GlCells DEF GlLinked
  <1>2. gl_left' = gs[n].left /\ gl_right' = gs[n].right /\ gl_order' = <<>>
    BY DEF GlDeleteList, GlSet
  <1>3. \A k \in 1 .. n : walk[k] = IF k <= m THEN gl_order[k] ELSE GlNull
    <2>1. \A k \in 0 .. n : walk[k] = IF k <= m THEN GlCellAt(gl_order, k) ELSE GlNull
      BY GlWalkIs
    <2> HIDE DEF walk, n, m
    <2>2. \A k \in 1 .. n : k \in 0 .. n /\ k # 0
      BY <1>1
    <2>3. QED
      BY <2>1, <2>2 DEF GlCellAt
  <1> HIDE DEF walk, n, m
  <1>4. gs = [k \in 0 .. n |-> step(gs, k)]
    <2> DEFINE w == [k \in 1 .. n |-> walk[k]]
    <2>1. w \in [1 .. n -> GlItem \cup {GlNull}] /\ \A k \in 1 .. n : w[k] = walk[k]
      BY <1>1, <1>3
    <2> HIDE DEF w
    <2>2. n \in Nat /\ GlThese \in GlPointers
      BY <1>1
    <2>3. PICK f \in [0 .. n -> GlPointers] :
            /\ f[0] = GlThese
            /\ \A k \in 1 .. n :
                 f[k] = IF w[k] = GlNull THEN f[k - 1] ELSE GlRemoved(f[k - 1], w[k])
      BY <2>1, <2>2, GlRemovals
    <2>4. ASSUME NEW k \in 0 .. n PROVE f[k] = step(f, k)
      <3>1. CASE k = 0
        BY <2>3, <3>1
      <3>2. CASE k # 0
        <4>1. k \in 1 .. n /\ k - 1 \in 0 .. n
          BY <1>1, <3>2
        <4>2. f[k] = IF walk[k] = GlNull THEN f[k - 1] ELSE GlRemoved(f[k - 1], walk[k])
          BY <2>1, <2>3, <4>1
        <4>3. QED
          BY <3>2, <4>2
      <3>3. QED
        BY <3>1, <3>2
    <2>5. f = [k \in 0 .. n |-> step(f, k)]
      BY <2>4
    <2> HIDE DEF step
    <2>6. QED
      BY <2>5
  <1> HIDE DEF gs, step
  <1>5. \A k \in 0 .. n : gs[k] = step(gs, k)
    <2> SUFFICES ASSUME NEW k \in 0 .. n PROVE gs[k] = step(gs, k)
      OBVIOUS
    <2>1. [j \in 0 .. n |-> step(gs, j)][k] = step(gs, k)
      OBVIOUS
    <2>2. QED
      BY <1>4, <2>1
  <1> DEFINE rest(k) == IF k <= m THEN SubSeq(gl_order, k + 1, m) ELSE <<>>
             T == {k \in 0 .. n : ~GlLinked(gs[k], rest(k))}
  <1>6. T = {}
    <2>1. SUFFICES ASSUME T # {} PROVE FALSE
      OBVIOUS
    <2>2. PICK k \in T : \A j \in T : k <= j
      <3>1. T \in SUBSET Nat
        BY <1>1
      <3> HIDE DEF T
      <3>2. QED
        BY <2>1, <3>1, KlLeast
    <2>3. k \in 0 .. n /\ ~GlLinked(gs[k], rest(k))
      BY <2>2
    <2>4. CASE k = 0
      <3>1. gs[k] = GlThese
        BY <1>5, <2>3, <2>4 DEF step
      <3>2. rest(k) = gl_order
        BY <1>1, <2>4, SubSeqFull DEF m
      <3>3. QED
        BY <2>3, <3>1, <3>2
    <2>5. CASE k # 0
      <3>1. k \in 1 .. n /\ k - 1 \in 0 .. n /\ ~(k <= k - 1) /\ (k - 1) + 1 = k
        BY <1>1, <2>3, <2>5
      <3>2. GlLinked(gs[k - 1], rest(k - 1))
        BY <2>2, <3>1
      <3>3. gs[k] = IF walk[k] = GlNull THEN gs[k - 1] ELSE GlRemoved(gs[k - 1], walk[k])
        BY <1>5, <2>3, <2>5 DEF step
      <3>4. CASE k <= m
        <4>1. k \in 1 .. m /\ k - 1 <= m /\ m \in k .. m
          BY <1>1, <3>1, <3>4
        <4>2. rest(k - 1) = SubSeq(gl_order, k, m)
          BY <3>1, <4>1
        <4> DEFINE q == SubSeq(gl_order, k, m)
        <4>3. /\ q \in Seq(GlItem) /\ Len(q) = m - k + 1
              /\ q[1] = gl_order[k] /\ Tail(q) = SubSeq(gl_order, k + 1, m)
          <5>1. k \in Int /\ m \in Int /\ \A i \in k .. m : gl_order[i] \in GlItem
            BY <1>1, <3>1
          <5>2. /\ q \in Seq(GlItem) /\ Len(q) = (IF k <= m THEN m - k + 1 ELSE 0)
                /\ \A i \in 1 .. m - k + 1 : q[i] = gl_order[k + i - 1]
            BY <5>1, SubSeqProperties
          <5>3. 1 \in 1 .. m - k + 1 /\ k + 1 - 1 = k
            BY <4>1, <5>1
          <5>4. Tail(q) = SubSeq(gl_order, k + 1, m)
            BY <1>1, <4>1, HeadTailOfSubSeq DEF m
          <5> HIDE DEF q
          <5>5. QED
            BY <3>4, <5>2, <5>3, <5>4
        <4> HIDE DEF q
        <4>4. 1 \in 1 .. Len(q) /\ Len(q) >= 1
          BY <1>1, <3>1, <4>1, <4>3
        <4>5. GlLinked(GlRemoved(gs[k - 1], q[1]), RemoveAt(q, 1))
          BY <3>2, <4>2, <4>4, GlRemovedAt DEF q
        <4>6. gs[k] = GlRemoved(gs[k - 1], q[1])
          BY <1>1, <1>3, <3>1, <3>3, <3>4, <4>1, <4>3
        <4>7. rest(k) = RemoveAt(q, 1)
          BY <3>4, <4>3, <4>4, KlRemoveFirst
        <4>8. QED
          BY <2>3, <4>5, <4>6, <4>7
      <3>5. CASE ~(k <= m)
        <4>1. gs[k] = gs[k - 1] /\ rest(k) = <<>>
          BY <1>3, <3>1, <3>3, <3>5
        <4>2. rest(k - 1) = <<>>
          <5>1. k - 1 <= m => SubSeq(gl_order, (k - 1) + 1, m) = <<>>
            BY <1>1, <3>1, <3>5, SubSeqEmpty
          <5>2. QED
            BY <5>1
        <4>3. QED
          BY <2>3, <3>2, <4>1, <4>2
      <3>6. QED
        BY <3>4, <3>5
    <2>6. QED
      BY <2>4, <2>5
  <1>7. GlLinked(gs[n], <<>>)
    <2>1. n \in 0 .. n
      BY <1>1
    <2>2. rest(n) = <<>>
      <3>1. n <= m => SubSeq(gl_order, n + 1, m) = <<>>
        BY <1>1, SubSeqEmpty
      <3>2. QED
        BY <3>1
    <2>3. GlLinked(gs[n], rest(n))
      BY <1>6, <2>1
    <2>4. QED
      BY <2>2, <2>3
  <1>8. GlThese' = gs[n]
    <2>1. gs[n] = [left |-> gs[n].left, right |-> gs[n].right]
      BY <1>7 DEF GlLinked, GlPointers
    <2>2. QED
      BY <1>2, <2>1 DEF GlThese
  <1>9. QED
    BY <1>2, <1>7, <1>8
-----------------------------------------------------------------------------
(* The list as a whole.                                                    *)

\* The inductive invariant: the pointers are those of the list, and a queue is
\* in the order of its comparison.
GlInv ==
    /\ GlTypeOK
    /\ GlLinked(GlThese, gl_order)
    /\ gl_use = "queue" => KlSorted(gl_order, gl_key)

\* The invariant after a step that sets the pointers to h and the list to s.
LEMMA GlSetKeeps ==
    ASSUME GlInv, NEW h, NEW s, GlLinked(h, s), GlSet(h), gl_order' = s,
           gl_use' = gl_use, gl_key' \in [GlItem -> GlKey],
           gl_use = "queue" => KlSorted(s, gl_key')
    PROVE  GlInv'
  <1>1. h \in GlPointers /\ s \in Seq(GlItem)
    BY DEF GlLinked
  <1>2. /\ h = [left |-> h.left, right |-> h.right]
        /\ h.left \in [GlCell -> GlCell \cup {GlNull}]
        /\ h.right \in [GlCell -> GlCell \cup {GlNull}]
    BY <1>1 DEF GlPointers
  <1>3. GlThese' = h
    BY <1>2 DEF GlThese, GlSet
  <1>4. GlTypeOK'
    BY <1>1, <1>2 DEF GlInv, GlTypeOK, GlSet
  <1>5. GlLinked(GlThese', gl_order')
    BY <1>3
  <1>6. gl_use' = "queue" => KlSorted(gl_order', gl_key')
    OBVIOUS
  <1>7. QED
    BY <1>4, <1>5, <1>6 DEF GlInv, GlLinked, KlSorted, KlDistinct, GlCellAt, GlPointers, GlThese

\* An item whose own glue looks empty is in no list, and the other way round.
LEMMA GlEmptyIs ==
    ASSUME GlInv, NEW e \in GlItem
    PROVE  GlEmpty(e) <=> \A k \in 1 .. Len(gl_order) : gl_order[k] # e
  <1>1. gl_order \in Seq(GlItem) /\ Len(gl_order) \in Nat
    BY LenProperties DEF GlInv, GlTypeOK
  <1>2. ASSUME NEW k \in 1 .. Len(gl_order), gl_order[k] = e PROVE gl_left[e] # GlNull
    <2>1. k - 1 \in 0 .. Len(gl_order)
      BY <1>1
    <2>2. gl_left[e] = GlCellAt(gl_order, k - 1)
      BY <1>2 DEF GlInv, GlLinked, GlThese
    <2>3. QED
      BY <1>1, <2>1, <2>2, GlCells
  <1>3. ASSUME \A k \in 1 .. Len(gl_order) : gl_order[k] # e PROVE GlEmpty(e)
    BY <1>3 DEF GlInv, GlLinked, GlThese, GlEmpty
  <1>4. QED
    BY <1>2, <1>3 DEF GlEmpty

LEMMA GlPushKeeps ==
    ASSUME GlInv, NEW e \in GlItem, GlPush(e)
    PROVE  GlInv'
  <1>1. gl_order \in Seq(GlItem) /\ Len(gl_order) \in Nat /\ 0 \in 0 .. Len(gl_order)
    BY LenProperties DEF GlInv, GlTypeOK
  <1>2. \A k \in 1 .. Len(gl_order) : gl_order[k] # e
    BY GlEmptyIs DEF GlPush
  <1>3. GlLinked(GlAddNext(GlThese, GlCellAt(gl_order, 0), e), InsertAt(gl_order, 0 + 1, e))
    BY <1>1, <1>2, GlAddNextLinks DEF GlInv
  <1>4. GlCellAt(gl_order, 0) = GlHead /\ InsertAt(gl_order, 0 + 1, e) = <<e>> \o gl_order
    BY <1>1, KlInsertFirst DEF GlCellAt
  <1> DEFINE h == GlAddNext(GlThese, GlHead, e)
             s == <<e>> \o gl_order
  <1>5. GlLinked(h, s)
    BY <1>3, <1>4
  <1>6. GlSet(h) /\ gl_order' = s /\ gl_use' = gl_use /\ gl_key' = gl_key /\ gl_use # "queue"
    BY DEF GlPush
  <1>7. gl_key' \in [GlItem -> GlKey]
    BY <1>6 DEF GlInv, GlTypeOK
  <1> HIDE DEF h, s
  <1>8. QED
    BY <1>5, <1>6, <1>7, GlSetKeeps

LEMMA GlEnqueueKeeps ==
    ASSUME GlInv, NEW e \in GlItem, NEW key \in GlKey, GlEnqueue(e, key)
    PROVE  GlInv'
  <1> DEFINE after == [gl_key EXCEPT ![e] = key]
             g == GlRemoved(GlThese, e)
             w == Without(gl_order, e)
             h == GlPriorityInsert(g, after, e)
             s == Placed(w, after, e)
  <1>1. /\ gl_order \in Seq(GlItem) /\ KlDistinct(gl_order) /\ GlLinked(GlThese, gl_order)
        /\ gl_key \in [GlItem -> GlKey]
    BY DEF GlInv, GlTypeOK, GlLinked
  <1>2. gl_use = "queue" /\ gl_key' = after /\ GlSet(h) /\ gl_order' = s /\ gl_use' = gl_use
    BY DEF GlEnqueue
  <1>3. KlSorted(gl_order, gl_key)
    BY <1>2 DEF GlInv
  <1>4. /\ after \in [GlItem -> GlKey]
        /\ \A x \in GlItem : x # e => after[x] = gl_key[x]
    BY <1>1
  <1> HIDE DEF after
  <1>5. GlLinked(g, w)
    BY <1>1, GlRemovedLinks
  <1>6. (\A k \in 1 .. Len(w) : w[k] # e) /\ KlSorted(w, after)
    BY <1>1, <1>3, <1>4, KlWithout
  <1> HIDE DEF g, w
  <1>7. GlLinked(h, s) /\ KlSorted(s, after)
    BY <1>4, <1>5, <1>6, GlPriorityInsertLinks
  <1> HIDE DEF h, s
  <1>8. QED
    BY <1>2, <1>4, <1>7, GlSetKeeps

LEMMA GlRemoveKeeps ==
    ASSUME GlInv, NEW e \in GlItem, GlRemove(e)
    PROVE  GlInv'
  <1> DEFINE h == GlRemoved(GlThese, e)
             s == Without(gl_order, e)
  <1>1. /\ gl_order \in Seq(GlItem) /\ KlDistinct(gl_order) /\ GlLinked(GlThese, gl_order)
        /\ gl_key \in [GlItem -> GlKey]
    BY DEF GlInv, GlTypeOK, GlLinked
  <1>2. GlSet(h) /\ gl_order' = s /\ gl_use' = gl_use /\ gl_key' = gl_key
    BY DEF GlRemove
  <1>3. GlLinked(h, s)
    BY <1>1, GlRemovedLinks
  <1>4. KlSorted(gl_order, gl_key) => KlSorted(s, gl_key)
    BY <1>1, KlWithout
  <1>5. gl_use = "queue" => KlSorted(s, gl_key')
    BY <1>2, <1>4 DEF GlInv
  <1> HIDE DEF h, s
  <1>6. QED
    BY <1>1, <1>2, <1>3, <1>5, GlSetKeeps

LEMMA GlDequeueKeeps ==
    ASSUME GlInv, GlDequeue
    PROVE  GlInv'
  <1>1. /\ gl_order \in Seq(GlItem) /\ Len(gl_order) \in Nat /\ KlDistinct(gl_order)
        /\ GlLinked(GlThese, gl_order)
        /\ gl_key \in [GlItem -> GlKey] /\ gl_use = "queue"
    BY LenProperties DEF GlInv, GlTypeOK, GlLinked, GlDequeue
  <1>2. Len(gl_order) >= 1 /\ gl_right[GlHead] = gl_order[1]
    <2>1. 0 \in 0 .. Len(gl_order) /\ GlCellAt(gl_order, 0) = GlHead
      BY <1>1 DEF GlCellAt
    <2>2. gl_right[GlHead] = IF 0 < Len(gl_order) THEN gl_order[0 + 1] ELSE GlNull
      BY <1>1, <2>1 DEF GlLinked, GlThese
    <2>3. gl_left[GlHead] = GlNull
      BY <1>1 DEF GlLinked, GlThese
    <2>4. gl_right[GlHead] # GlNull
      BY <2>3 DEF GlDequeue, GlEmpty
    <2>5. QED
      BY <1>1, <2>2, <2>4
  <1> DEFINE e == gl_order[1]
             h == GlRemoved(GlThese, e)
             s == Tail(gl_order)
  <1>3. 1 \in 1 .. Len(gl_order) /\ e \in GlItem
    BY <1>1, <1>2, LenProperties
  <1>4. GlSet(h) /\ gl_order' = s /\ gl_use' = gl_use /\ gl_key' = gl_key
    BY <1>2 DEF GlDequeue
  <1>5. GlLinked(GlRemoved(GlThese, gl_order[1]), RemoveAt(gl_order, 1))
    BY <1>1, <1>3, GlRemovedAt
  <1>6. RemoveAt(gl_order, 1) = s
    BY <1>1, <1>2, KlRemoveFirst
  <1>7. GlLinked(h, s)
    BY <1>5, <1>6
  <1>8. KlSorted(s, gl_key)
    <2>1. KlSorted(gl_order, gl_key)
      BY <1>1 DEF GlInv
    <2>2. Len(s) = Len(gl_order) - 1 /\ \A j \in 1 .. Len(gl_order) - 1 : s[j] = gl_order[j + 1]
      BY <1>1, <1>3, HeadTailProperties
    <2> HIDE DEF s
    <2>3. ASSUME NEW j \in 1 .. Len(s), NEW k \in 1 .. Len(s), j < k
          PROVE  gl_key[s[j]] <= gl_key[s[k]]
      <3>1. /\ j + 1 \in 1 .. Len(gl_order) /\ k + 1 \in 1 .. Len(gl_order) /\ j + 1 < k + 1
            /\ s[j] = gl_order[j + 1] /\ s[k] = gl_order[k + 1]
        BY <1>1, <2>2, <2>3
      <3>2. QED
        BY <2>1, <3>1 DEF KlSorted
    <2>4. QED
      BY <2>3 DEF KlSorted
  <1> HIDE DEF h, s
  <1>9. QED
    BY <1>1, <1>4, <1>7, <1>8, GlSetKeeps

LEMMA GlDeleteListKeeps ==
    ASSUME GlInv, GlDeleteList
    PROVE  GlInv'
  <1>1. GlLinked(GlThese', <<>>) /\ gl_order' = <<>>
    BY GlDeletedLinks DEF GlInv
  <1>2. gl_use' = gl_use /\ gl_key' = gl_key
    BY DEF GlDeleteList
  <1>3. GlThese' \in GlPointers
    BY <1>1 DEF GlLinked
  <1>4. GlTypeOK'
    BY <1>1, <1>2, <1>3 DEF GlInv, GlTypeOK, GlPointers, GlThese
  <1>5. KlSorted(gl_order', gl_key')
    BY <1>1 DEF KlSorted
  <1>6. QED
    BY <1>1, <1>4, <1>5 DEF GlInv, GlLinked, KlSorted, KlDistinct, GlCellAt, GlPointers, GlThese

LEMMA GlInvStart == GlInit => GlInv
  <1> SUFFICES ASSUME GlInit PROVE GlInv
    OBVIOUS
  <1>1. GlTypeOK
    BY GlAssumption DEF GlInit, GlTypeOK
  <1>2. Len(gl_order) = 0
    BY DEF GlInit
  <1>3. GlThese \in GlPointers
    BY DEF GlInit, GlThese, GlPointers
  <1>4. GlLinked(GlThese, gl_order)
    BY <1>1, <1>2, <1>3 DEF GlInit, GlLinked, GlThese, KlDistinct, GlCellAt, GlCell, GlTypeOK
  <1>5. KlSorted(gl_order, gl_key)
    BY <1>2 DEF KlSorted
  <1>6. QED
    BY <1>1, <1>4, <1>5 DEF GlInv

LEMMA GlInvNext ==
    ASSUME GlInv, [GlNext]_glVars
    PROVE  GlInv'
  <1>1. ASSUME NEW e \in GlItem, GlPush(e) PROVE GlInv'
    BY <1>1, GlPushKeeps
  <1>2. ASSUME NEW e \in GlItem, NEW key \in GlKey, GlEnqueue(e, key) PROVE GlInv'
    BY <1>2, GlEnqueueKeeps
  <1>3. ASSUME NEW e \in GlItem, GlRemove(e) PROVE GlInv'
    BY <1>3, GlRemoveKeeps
  <1>4. CASE GlDequeue
    BY <1>4, GlDequeueKeeps
  <1>5. CASE GlDeleteList
    BY <1>5, GlDeleteListKeeps
  <1>6. CASE UNCHANGED glVars
    BY <1>6 DEF glVars, GlInv, GlTypeOK, GlLinked, KlSorted, KlDistinct, GlCellAt, GlThese
  <1>7. QED
    BY <1>1, <1>2, <1>3, <1>4, <1>5, <1>6 DEF GlNext

LEMMA GlInvSound == GlInv => GlSound
  <1> SUFFICES ASSUME GlInv PROVE GlSound
    OBVIOUS
  <1>1. /\ gl_order \in Seq(GlItem) /\ Len(gl_order) \in Nat /\ DOMAIN gl_order = 1 .. Len(gl_order)
        /\ GlLinked(GlThese, gl_order) /\ Cardinality(GlItem) \in Nat
    BY LenProperties, GlAssumption, FS_CardinalityType DEF GlInv, GlTypeOK
  <1>2. ASSUME NEW k \in 1 .. Cardinality(GlItem)
        PROVE  GlWalk(GlThese)[k] = IF k \in DOMAIN gl_order THEN gl_order[k] ELSE GlNull
    <2>1. k \in 0 .. Cardinality(GlItem) /\ k # 0 /\ (k \in DOMAIN gl_order <=> k <= Len(gl_order))
      BY <1>1
    <2>2. GlWalk(GlThese)[k] = IF k <= Len(gl_order) THEN GlCellAt(gl_order, k) ELSE GlNull
      BY <1>1, <2>1, GlWalkIs
    <2>3. QED
      BY <2>1, <2>2 DEF GlCellAt
  <1>3. ASSUME NEW k \in DOMAIN gl_order
        PROVE  gl_left[gl_order[k]] = IF k = 1 THEN GlHead ELSE gl_order[k - 1]
    <2>1. gl_left[gl_order[k]] = GlCellAt(gl_order, k - 1)
      BY <1>1 DEF GlLinked, GlThese
    <2>2. k - 1 = 0 <=> k = 1
      BY <1>1
    <2>3. QED
      BY <2>1, <2>2 DEF GlCellAt
  <1>4. \A e \in GlItem : GlEmpty(e) <=> \A k \in DOMAIN gl_order : gl_order[k] # e
    BY <1>1, GlEmptyIs
  <1>5. QED
    BY <1>2, <1>3, <1>4 DEF GlSound

\* glthread.c keeps its lists: whatever is pushed, enqueued anew, removed from
\* the list or from none, dequeued or deleted, in any order and for any number
\* of items, a walk to the right visits the items in their order and ends, the
\* left pointers lead back the same way, and an item's own glue looks empty
\* exactly when it is in no list.
THEOREM GlAlwaysSound == GlSpec => []GlSound
  <1>1. GlInit => GlInv
    BY GlInvStart
  <1>2. GlInv /\ [GlNext]_glVars => GlInv'
    BY GlInvNext
  <1>3. GlInv => GlSound
    BY GlInvSound
  <1>4. QED
    BY <1>1, <1>2, <1>3, PTL DEF GlSpec
====
