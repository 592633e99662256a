---------------------------- MODULE AvlTree_proofs ----------------------------
(***************************************************************************)
(* The balanced tree, for any finite set of keys.  A tree is well when two *)
(* ghosts exist: U, the members below each node, by which the keys are in  *)
(* order and the pointers agree, and H, the height below each node, which  *)
(* every balance field tells.  The operations are followed by these ghosts *)
(* alone: a rotation, a new leaf, a climb and a removal each give new ones.*)
(***************************************************************************)
EXTENDS AvlTree, FiniteSetTheorems, WellFoundedInduction, TLAPS

-----------------------------------------------------------------------------
(* Loops.                                                                  *)

\* Induction, for a set of numbers: KlLeast, without the libraries of lists.
LEMMA AvLeast ==
    ASSUME NEW T \in SUBSET Nat, T # {}
    PROVE  \E x \in T : \A y \in T : x <= y
  <1>1. PICK x \in T : \A y \in T : ~ (<<y, x>> \in OpToRel(<, Nat))
    BY WFMin, NatLessThanWellFounded
  <1>2. \A y \in T : ~(y < x)
    BY <1>1 DEF OpToRel
  <1>3. QED
    BY <1>2

AvAfterAt(round, x, after, i) == IF i = 0 THEN x ELSE round[after[i - 1]]

AvAfter(round, x, n, after) == after = [i \in 0 .. n |-> AvAfterAt(round, x, after, i)]

LEMMA AvAfterIs ==
    ASSUME NEW round, NEW x, NEW n \in Nat, NEW after, AvAfter(round, x, n, after)
    PROVE  after[0] = x /\ \A i \in 1 .. n : after[i] = round[after[i - 1]]
  <1> DEFINE g == [i \in 0 .. n |-> AvAfterAt(round, x, after, i)]
  <1>1. after = g
    BY DEF AvAfter
  <1>2. g[0] = x /\ \A i \in 1 .. n : g[i] = round[after[i - 1]]
    BY DEF AvAfterAt
  <1> HIDE DEF g
  <1>3. QED
    BY <1>1, <1>2

LEMMA AvAfterExists ==
    ASSUME NEW round, NEW x, NEW n \in Nat
    PROVE  \E after : AvAfter(round, x, n, after)
  <1> DEFINE T == {m \in Nat : ~ \E after : AvAfter(round, x, m, after)}
  <1>1. SUFFICES ASSUME T # {} PROVE FALSE
    OBVIOUS
  <1>2. PICK m \in T : \A k \in T : m <= k
    BY <1>1, AvLeast
  <1>3. m # 0
    <2> DEFINE f == [i \in 0 .. 0 |-> x]
    <2>1. AvAfter(round, x, 0, f)
      BY DEF AvAfter, AvAfterAt
    <2>2. QED
      BY <2>1, <1>2
  <1>4. PICK g : AvAfter(round, x, m - 1, g)
    BY <1>2, <1>3
  <1> DEFINE f == [i \in 0 .. m |-> IF i = m THEN round[g[m - 1]] ELSE g[i]]
  <1>5. g[0] = x /\ \A i \in 1 .. m - 1 : g[i] = round[g[i - 1]]
    BY <1>2, <1>3, <1>4, AvAfterIs
  <1>6. f[0] = x /\ \A i \in 1 .. m : f[i] = round[f[i - 1]]
    BY <1>2, <1>3, <1>5
  <1>7. f = [i \in 0 .. m |-> f[i]]
    OBVIOUS
  <1>8. AvAfter(round, x, m, f)
    <2> HIDE DEF f
    <2>1. \A i \in 0 .. m : f[i] = AvAfterAt(round, x, f, i)
      BY <1>6 DEF AvAfterAt
    <2>2. QED
      BY <2>1, <1>7 DEF AvAfter
  <1>9. QED
    BY <1>2, <1>8

LEMMA AvManyIsNat == AvMany \in Nat
  BY AvAssumption, FS_CardinalityType DEF AvMany

\* What a loop does, round by round.
LEMMA AvLoopIs ==
    ASSUME NEW round, NEW x
    PROVE  /\ AvLoop(round, x)[0] = x
           /\ \A i \in 1 .. AvMany : AvLoop(round, x)[i] = round[AvLoop(round, x)[i - 1]]
  <1> DEFINE f == CHOOSE g : AvAfter(round, x, AvMany, g)
  <1>1. AvAfter(round, x, AvMany, f)
    BY AvAfterExists, AvManyIsNat
  <1>2. AvLoop(round, x) = f
    BY DEF AvLoop, AvAfter, AvAfterAt
  <1> HIDE DEF f
  <1>4. AvAfter(round, x, AvMany, AvLoop(round, x))
    BY <1>1, <1>2
  <1>3. QED
    BY <1>4, AvAfterIs, AvManyIsNat

\* What holds at first and is kept by each round holds in the end.
LEMMA AvLoopKeeps ==
    ASSUME NEW round, NEW x, NEW S, x \in S, \A y \in S : round[y] \in S
    PROVE  \A i \in 0 .. AvMany : AvLoop(round, x)[i] \in S
  <1> DEFINE at == AvLoop(round, x)
             T == {i \in Nat : i <= AvMany /\ at[i] \notin S}
  <1>1. at[0] = x /\ \A i \in 1 .. AvMany : at[i] = round[at[i - 1]]
    BY AvLoopIs
  <1> HIDE DEF at
  <1>2. SUFFICES ASSUME T # {} PROVE FALSE
    BY AvManyIsNat DEF at
  <1>3. PICK i \in T : \A j \in T : i <= j
    BY <1>2, AvLeast
  <1>4. CASE i = 0
    BY <1>1, <1>3, <1>4
  <1>5. CASE i # 0
    <2>1. i - 1 \in Nat /\ i - 1 <= AvMany /\ i - 1 \notin T
      BY <1>3, <1>5, AvManyIsNat
    <2>2. at[i - 1] \in S
      BY <2>1
    <2>3. QED
      BY <1>1, <1>3, <1>5, <2>1, <2>2, AvManyIsNat
  <1>6. QED
    BY <1>4, <1>5

-----------------------------------------------------------------------------
(* Sides and order.                                                        *)

\* x lies beyond y on side s.
AvBeyond(s, x, y) == IF s = 1 THEN x > y ELSE x < y

LEMMA AvSides ==
    /\ -1 \in AvSide /\ 1 \in AvSide
    /\ \A s \in AvSide : -s \in AvSide /\ -s # s /\ -(-s) = s
    /\ \A s, u \in AvSide : u = s \/ u = -s
  <1>1. -1 \in AvSide /\ 1 \in AvSide
    BY DEF AvSide
  <1>2. \A s \in AvSide : -s \in AvSide /\ -s # s /\ -(-s) = s
    BY DEF AvSide
  <1>3. \A s, u \in AvSide : u = s \/ u = -s
    BY DEF AvSide
  <1>4. QED
    BY <1>1, <1>2, <1>3

LEMMA AvOrder ==
    ASSUME NEW s \in AvSide
    PROVE  /\ \A x \in Int : ~AvBeyond(s, x, x)
           /\ \A x, y \in Int : AvBeyond(-s, x, y) <=> AvBeyond(s, y, x)
           /\ \A x, y \in Int : x = y \/ AvBeyond(s, x, y) \/ AvBeyond(s, y, x)
           /\ \A x, y, z \in Int : AvBeyond(s, x, y) /\ AvBeyond(s, y, z) => AvBeyond(s, x, z)
           /\ \A x, y \in Int : ~(AvBeyond(s, x, y) /\ AvBeyond(s, y, x))
  BY DEF AvSide, AvBeyond

LEMMA AvTowardIs ==
    ASSUME NEW n \in Int, NEW k \in Int, n # k
    PROVE  AvToward(n, k) \in AvSide /\ AvBeyond(AvToward(n, k), k, n)
  BY DEF AvToward, AvBeyond, AvSide

LEMMA AvKeys == AvKey \subseteq Nat /\ AvKey \subseteq Int /\ AvNull \notin AvKey /\ AvLink \subseteq Nat
                /\ AvKey \subseteq AvLink /\ AvNull \in AvLink /\ -1 \notin AvLink
  BY AvAssumption DEF AvNull, AvLink

-----------------------------------------------------------------------------
(* The helpers, field by field.                                            *)

LEMMA AvTreeFields ==
    ASSUME NEW t \in AvTree
    PROVE  /\ t.kid \in [AvSide -> [AvKey -> AvLink]] /\ t.parent \in [AvKey -> AvLink]
           /\ t.balance \in [AvKey -> -2 .. 2] /\ t.root \in AvLink
           /\ t.end \in [AvSide -> AvLink] /\ t.height \in Int
  BY DEF AvTree

LEMMA AvRootPut ==
    ASSUME NEW t \in AvTree, NEW c \in AvLink
    PROVE  LET u == [t EXCEPT !.root = c] IN
           /\ u \in AvTree /\ u.root = c
           /\ u.kid = t.kid /\ u.parent = t.parent /\ u.balance = t.balance
           /\ u.end = t.end /\ u.height = t.height
  BY DEF AvTree

LEMMA AvKidPut ==
    ASSUME NEW t \in AvTree, NEW p \in AvKey, NEW s \in AvSide, NEW c \in AvLink
    PROVE  LET u == [t EXCEPT !.kid[s][p] = c] IN
           /\ u \in AvTree /\ u.root = t.root
           /\ \A x \in AvSide : \A m \in AvKey :
                u.kid[x][m] = IF m = p /\ x = s THEN c ELSE t.kid[x][m]
           /\ u.parent = t.parent /\ u.balance = t.balance
           /\ u.end = t.end /\ u.height = t.height
  <1> DEFINE u == [t EXCEPT !.kid[s][p] = c]
  <1>1. u \in AvTree
    BY DEF AvTree
  <1>2. /\ u.kid = [t.kid EXCEPT ![s] = [@ EXCEPT ![p] = c]]
        /\ u.root = t.root /\ u.parent = t.parent /\ u.balance = t.balance
        /\ u.end = t.end /\ u.height = t.height
    BY DEF AvTree
  <1>3. t.kid \in [AvSide -> [AvKey -> AvLink]]
    BY DEF AvTree
  <1> HIDE DEF u
  <1>4. \A x \in AvSide : \A m \in AvKey :
          u.kid[x][m] = IF m = p /\ x = s THEN c ELSE t.kid[x][m]
    BY <1>2, <1>3
  <1>5. QED
    BY <1>1, <1>2, <1>4 DEF u

\* What a link put at p on side s leaves.
AvKidIs(t, p, s, c, u) ==
    \A x \in AvSide : \A m \in AvKey : u.kid[x][m] = IF m = p /\ x = s THEN c ELSE t.kid[x][m]

LEMMA AvKidPutIs ==
    ASSUME NEW t \in AvTree, NEW p \in AvKey, NEW s \in AvSide, NEW c \in AvLink,
           NEW u, u = [t EXCEPT !.kid[s][p] = c]
    PROVE  AvKidIs(t, p, s, c, u)
  BY AvKidPut DEF AvKidIs

LEMMA AvParentPut ==
    ASSUME NEW t \in AvTree, NEW k \in AvKey, NEW p \in AvLink
    PROVE  LET u == [t EXCEPT !.parent[k] = p] IN
           /\ u \in AvTree /\ u.root = t.root
           /\ \A m \in AvKey : u.parent[m] = IF m = k THEN p ELSE t.parent[m]
           /\ u.kid = t.kid /\ u.balance = t.balance
           /\ u.end = t.end /\ u.height = t.height
  BY DEF AvTree

AvChildSet(t, p, s, c, u) ==
    /\ u \in AvTree
    /\ u.root = IF p = AvNull THEN c ELSE t.root
    /\ \A x \in AvSide : \A m \in AvKey :
         u.kid[x][m] = IF m = p /\ x = s THEN c ELSE t.kid[x][m]
    /\ u.parent = t.parent
    /\ u.balance = t.balance /\ u.end = t.end /\ u.height = t.height

LEMMA AvSetChildIs ==
    ASSUME NEW t \in AvTree, NEW p \in AvLink, NEW s \in AvSide, NEW c \in AvLink
    PROVE  AvChildSet(t, p, s, c, AvSetChild(t, p, s, c))
  <1>1. CASE p = AvNull
    <2>1. AvSetChild(t, p, s, c) = [t EXCEPT !.root = c] /\ \A m \in AvKey : m # p
      BY <1>1, AvKeys DEF AvSetChild
    <2>2. QED
      BY <1>1, <2>1, AvRootPut DEF AvChildSet
  <1>2. CASE p # AvNull
    <2>1. AvSetChild(t, p, s, c) = [t EXCEPT !.kid[s][p] = c] /\ p \in AvKey
      BY <1>2 DEF AvSetChild, AvLink
    <2>2. QED
      BY <1>2, <2>1, AvKidPut DEF AvChildSet
  <1>3. QED
    BY <1>1, <1>2

AvParentSet(t, k, p, u) ==
    /\ u \in AvTree /\ u.root = t.root /\ u.kid = t.kid
    /\ \A m \in AvKey : u.parent[m] = IF m = k THEN p ELSE t.parent[m]
    /\ u.balance = t.balance /\ u.end = t.end /\ u.height = t.height

LEMMA AvSetParentIs ==
    ASSUME NEW t \in AvTree, NEW k \in AvLink, NEW p \in AvLink
    PROVE  AvParentSet(t, k, p, AvSetParent(t, k, p))
  <1>1. CASE k = AvNull
    BY <1>1, AvKeys DEF AvSetParent, AvParentSet
  <1>2. CASE k # AvNull
    <2>1. AvSetParent(t, k, p) = [t EXCEPT !.parent[k] = p] /\ k \in AvKey
      BY <1>2 DEF AvSetParent, AvLink
    <2>2. QED
      BY <1>2, <2>1, AvParentPut DEF AvParentSet
  <1>3. QED
    BY <1>1, <1>2

\* What a rotation of p to the other side leaves, where no node is met twice.
AvRotated(t, p, s, u) ==
    LET q == t.kid[s][p]
        up == t.parent[p]
        moved == t.kid[-s][q] IN
    /\ u \in AvTree
    /\ u.root = IF up = AvNull THEN q ELSE t.root
    /\ u.kid[s][p] = moved /\ u.kid[-s][p] = t.kid[-s][p]
    /\ u.kid[-s][q] = p /\ u.kid[s][q] = t.kid[s][q]
    /\ \A x \in AvSide : \A m \in AvKey \ {p, q} :
         u.kid[x][m] = IF m = up /\ x = AvSideOf(t, up, p) THEN q ELSE t.kid[x][m]
    /\ \A m \in AvKey : u.parent[m] = IF m = moved THEN p ELSE IF m = p THEN q
                                       ELSE IF m = q THEN up ELSE t.parent[m]
    /\ u.balance = t.balance /\ u.end = t.end /\ u.height = t.height

\* x stands for e in a lemma: expanded only by the steps that need e itself.
AvIs(x, e) == x = e

LEMMA AvRotateSteps ==
    ASSUME NEW t \in AvTree, NEW p \in AvKey, NEW s \in AvSide,
           NEW q, NEW up, NEW moved, NEW side \in AvSide,
           AvIs(q, t.kid[s][p]), AvIs(up, t.parent[p]), AvIs(moved, t.kid[-s][q]),
           AvIs(side, AvSideOf(t, up, p)),
           q \in AvKey, q # p, up \notin {p, q}, moved \notin {p, q},
           NEW a, AvIs(a, AvSetChild(t, up, side, q)),
           NEW b, AvIs(b, AvSetParent(a, q, up)),
           NEW c, AvIs(c, AvSetParent(b, p, q)),
           NEW d, AvIs(d, AvSetChild(c, p, s, moved)),
           NEW e, AvIs(e, AvSetParent(d, moved, p)),
           NEW u, AvIs(u, AvSetChild(e, q, -s, p))
    PROVE  AvRotated(t, p, s, u)
  <1>0. q = t.kid[s][p] /\ up = t.parent[p] /\ moved = t.kid[-s][q] /\ side = AvSideOf(t, up, p)
    BY Zenon DEF AvIs
  <1>a. /\ a = AvSetChild(t, up, side, q) /\ b = AvSetParent(a, q, up) /\ c = AvSetParent(b, p, q)
        /\ d = AvSetChild(c, p, s, moved) /\ e = AvSetParent(d, moved, p) /\ u = AvSetChild(e, q, -s, p)
    BY Zenon DEF AvIs
  <1>1. /\ up \in AvLink /\ moved \in AvLink /\ -s \in AvSide /\ -s # s /\ p \in AvLink /\ q \in AvLink
        /\ p # AvNull /\ q # AvNull
    <2>1. -s \in AvSide /\ -s # s
      BY AvSides
    <2>2. up \in AvLink /\ moved \in AvLink
      BY <1>0, <2>1, AvTreeFields
    <2>3. p \in AvLink /\ q \in AvLink /\ p # AvNull /\ q # AvNull
      BY AvKeys
    <2>4. QED
      BY <2>1, <2>2, <2>3
  <1>4. AvChildSet(t, up, side, q, a) /\ a \in AvTree
    <2>1. AvChildSet(t, up, side, q, a)
      BY <1>a, <1>1, AvSetChildIs
    <2>2. QED
      BY <2>1 DEF AvChildSet
  <1>5. AvParentSet(a, q, up, b) /\ b \in AvTree
    <2>1. AvParentSet(a, q, up, b)
      BY <1>a, <1>1, <1>4, AvSetParentIs
    <2>2. QED
      BY <2>1 DEF AvParentSet
  <1>6. AvParentSet(b, p, q, c) /\ c \in AvTree
    <2>1. AvParentSet(b, p, q, c)
      BY <1>a, <1>1, <1>5, AvSetParentIs
    <2>2. QED
      BY <2>1 DEF AvParentSet
  <1>7. AvChildSet(c, p, s, moved, d) /\ d \in AvTree
    <2>1. AvChildSet(c, p, s, moved, d)
      BY <1>a, <1>1, <1>6, AvSetChildIs
    <2>2. QED
      BY <2>1 DEF AvChildSet
  <1>8. AvParentSet(d, moved, p, e) /\ e \in AvTree
    <2>1. AvParentSet(d, moved, p, e)
      BY <1>a, <1>1, <1>7, AvSetParentIs
    <2>2. QED
      BY <2>1 DEF AvParentSet
  <1>9. AvChildSet(e, q, -s, p, u) /\ u \in AvTree
    <2>1. AvChildSet(e, q, -s, p, u)
      BY <1>a, <1>1, <1>8, AvSetChildIs
    <2>2. QED
      BY <2>1 DEF AvChildSet
  <1>10. u.root = IF up = AvNull THEN q ELSE t.root
    BY <1>1, <1>4, <1>5, <1>6, <1>7, <1>8, <1>9 DEF AvChildSet, AvParentSet
  <1>11. u.balance = t.balance /\ u.end = t.end /\ u.height = t.height
    BY <1>4, <1>5, <1>6, <1>7, <1>8, <1>9 DEF AvChildSet, AvParentSet
  <1>12. \A m \in AvKey : u.parent[m] = IF m = moved THEN p ELSE IF m = p THEN q
                                         ELSE IF m = q THEN up ELSE t.parent[m]
    BY <1>4, <1>5, <1>6, <1>7, <1>8, <1>9 DEF AvChildSet, AvParentSet
  <1>13. \A x \in AvSide : \A m \in AvKey :
           u.kid[x][m] = IF m = q /\ x = -s THEN p
                         ELSE IF m = p /\ x = s THEN moved
                         ELSE IF m = up /\ x = side THEN q ELSE t.kid[x][m]
    BY <1>4, <1>5, <1>6, <1>7, <1>8, <1>9 DEF AvChildSet, AvParentSet
  <1>14. \A x \in AvSide : \A m \in AvKey \ {p, q} :
           u.kid[x][m] = IF m = up /\ x = AvSideOf(t, up, p) THEN q ELSE t.kid[x][m]
    BY <1>0, <1>13
  <1>15. /\ u.kid[s][p] = moved /\ u.kid[-s][p] = t.kid[-s][p]
         /\ u.kid[-s][q] = p /\ u.kid[s][q] = t.kid[s][q]
    BY <1>1, <1>13
  <1>16. QED
    <2>1. u.root = IF t.parent[p] = AvNull THEN t.kid[s][p] ELSE t.root
      BY <1>0, <1>10
    <2>2. /\ u.kid[s][p] = t.kid[-s][t.kid[s][p]] /\ u.kid[-s][p] = t.kid[-s][p]
          /\ u.kid[-s][t.kid[s][p]] = p /\ u.kid[s][t.kid[s][p]] = t.kid[s][t.kid[s][p]]
      BY <1>0, <1>15
    <2>3. \A x \in AvSide : \A m \in AvKey \ {p, t.kid[s][p]} :
            u.kid[x][m] = IF m = t.parent[p] /\ x = AvSideOf(t, t.parent[p], p)
                          THEN t.kid[s][p] ELSE t.kid[x][m]
      BY <1>0, <1>14
    <2>4. \A m \in AvKey :
            u.parent[m] = IF m = t.kid[-s][t.kid[s][p]] THEN p ELSE IF m = p THEN t.kid[s][p]
                          ELSE IF m = t.kid[s][p] THEN t.parent[p] ELSE t.parent[m]
      BY <1>0, <1>12
    <2>5. QED
      BY <1>9, <1>11, <2>1, <2>2, <2>3, <2>4, Zenon DEF AvRotated

LEMMA AvRotateIs ==
    ASSUME NEW t \in AvTree, NEW p \in AvKey, NEW s \in AvSide,
           t.kid[s][p] \in AvKey \ {p}, t.parent[p] \notin {p, t.kid[s][p]},
           t.kid[-s][t.kid[s][p]] \notin {p, t.kid[s][p]}
    PROVE  AvRotated(t, p, s, AvRotate(t, p, s))
  <1>1. AvSideOf(t, t.parent[p], p) \in AvSide
    BY DEF AvSideOf, AvSide
  <1>2. QED
    BY <1>1, AvRotateSteps DEF AvIs, AvRotate

-----------------------------------------------------------------------------
(* Search trees.  U is a ghost: the members below each node, itself among  *)
(* them.                                                                   *)

\* The child of n on side s points back, and all below it lies on that side.
AvEdge(t, M, U, n, s) ==
    /\ t.kid[s][n] # AvNull => t.kid[s][n] \in M /\ t.parent[t.kid[s][n]] = n
    /\ \A x \in U[t.kid[s][n]] : AvBeyond(s, x, n)

AvNode(t, M, U, n) ==
    /\ \A s \in AvSide : AvEdge(t, M, U, n, s)
    /\ \A s \in AvSide : U[n] = {n} \cup U[t.kid[s][n]] \cup U[t.kid[-s][n]]

AvOrdered(t, M, U) ==
    /\ t \in AvTree /\ M \subseteq AvKey
    /\ U \in [AvLink -> SUBSET M] /\ U[AvNull] = {} /\ U[t.root] = M
    /\ t.root # AvNull => t.root \in M /\ t.parent[t.root] = AvNull
    /\ \A n \in M : AvNode(t, M, U, n)

LEMMA AvChildIs ==
    ASSUME NEW t, NEW M, NEW U, AvOrdered(t, M, U), NEW n \in M, NEW s \in AvSide
    PROVE  /\ t.kid[s][n] \in AvLink /\ t.parent[n] \in AvLink
           /\ n \in U[n] /\ U[n] \subseteq M /\ U[t.kid[s][n]] \subseteq U[n] /\ n \notin U[t.kid[s][n]]
           /\ t.kid[s][n] # AvNull => t.kid[s][n] \in U[t.kid[s][n]]
           /\ t.kid[s][n] # n /\ (t.kid[s][n] # AvNull => t.kid[s][n] # t.kid[-s][n])
           /\ U[t.kid[s][n]] \cap U[t.kid[-s][n]] = {}
  <1>1. /\ t \in AvTree /\ M \subseteq AvKey /\ U \in [AvLink -> SUBSET M] /\ U[AvNull] = {}
        /\ \A m \in M : AvNode(t, M, U, m)
    BY DEF AvOrdered
  <1>2. -s \in AvSide /\ -(-s) = s
    BY AvSides
  <1>3. t.kid[s][n] \in AvLink /\ t.kid[-s][n] \in AvLink /\ t.parent[n] \in AvLink /\ n \in AvLink
    BY <1>1, <1>2, AvTreeFields, AvKeys
  <1>4. AvEdge(t, M, U, n, s) /\ AvEdge(t, M, U, n, -s)
    BY <1>1, <1>2 DEF AvNode
  <1>5. U[n] = {n} \cup U[t.kid[s][n]] \cup U[t.kid[-s][n]]
    BY <1>1 DEF AvNode
  <1>6. U[n] \subseteq M
    BY <1>1, <1>3
  <1>7. n \notin U[t.kid[s][n]]
    BY <1>1, <1>4, AvOrder, AvKeys DEF AvEdge
  <1>8. \A m \in M : m \in U[m]
    BY <1>1 DEF AvNode, AvSide
  <1>9. t.kid[s][n] # AvNull => t.kid[s][n] \in U[t.kid[s][n]]
    BY <1>4, <1>8 DEF AvEdge
  <1>10. U[t.kid[s][n]] \cap U[t.kid[-s][n]] = {}
    <2>1. SUFFICES ASSUME NEW x \in U[t.kid[s][n]], x \in U[t.kid[-s][n]] PROVE FALSE
      OBVIOUS
    <2>2. AvBeyond(s, x, n) /\ AvBeyond(-s, x, n)
      BY <1>4, <2>1 DEF AvEdge
    <2>3. x \in Int /\ n \in Int
      BY <1>1, <1>5, <1>6, <2>1, AvKeys
    <2>4. QED
      BY <2>2, <2>3, AvOrder
  <1>11. n # AvNull
    BY <1>1, AvKeys
  <1>12. QED
    BY <1>3, <1>5, <1>6, <1>7, <1>8, <1>9, <1>10, <1>11

LEMMA AvBelow ==
    ASSUME NEW t, NEW M, NEW U, AvOrdered(t, M, U), NEW n \in M, NEW s \in AvSide
    PROVE  /\ U[n] = {n} \cup U[t.kid[s][n]] \cup U[t.kid[-s][n]]
           /\ t.kid[s][n] # AvNull => t.kid[s][n] \in M /\ t.parent[t.kid[s][n]] = n
           /\ \A x \in U[t.kid[s][n]] : AvBeyond(s, x, n) /\ x \in M
  BY AvChildIs DEF AvOrdered, AvNode, AvEdge

\* How many members are below a node, and how many are not.
LEMMA AvCount ==
    ASSUME NEW t, NEW M, NEW U, AvOrdered(t, M, U), NEW n \in M, NEW s \in AvSide
    PROVE  /\ IsFiniteSet(M)
           /\ Cardinality(U[n]) \in Nat /\ Cardinality(M \ U[n]) \in Nat
           /\ Cardinality(U[t.kid[s][n]]) \in Nat /\ Cardinality(M \ U[t.kid[s][n]]) \in Nat
           /\ Cardinality(U[t.kid[s][n]]) < Cardinality(U[n])
           /\ Cardinality(M \ U[n]) < Cardinality(M \ U[t.kid[s][n]])
           /\ Cardinality(U[n]) <= AvMany /\ Cardinality(M \ U[n]) < AvMany
  <1> DEFINE c == t.kid[s][n]
  <1>1. n \in U[n] /\ U[n] \subseteq M /\ U[c] \subseteq U[n] /\ n \notin U[c] /\ M \subseteq AvKey
    BY AvChildIs DEF AvOrdered
  <1> HIDE DEF c
  <1>2. IsFiniteSet(AvKey) /\ IsFiniteSet(M) /\ IsFiniteSet(U[n]) /\ IsFiniteSet(M \ U[c])
    BY <1>1, AvAssumption, FS_Subset
  <1>3. U[c] \subseteq U[n] /\ U[c] # U[n] /\ M \ U[n] \subseteq M \ U[c] /\ M \ U[n] # M \ U[c]
    BY <1>1
  <1>4. Cardinality(U[n]) \in Nat /\ Cardinality(U[c]) \in Nat /\ Cardinality(U[c]) < Cardinality(U[n])
    BY <1>2, <1>3, FS_Subset, FS_CardinalityType
  <1>5. /\ Cardinality(M \ U[n]) \in Nat /\ Cardinality(M \ U[c]) \in Nat
        /\ Cardinality(M \ U[n]) < Cardinality(M \ U[c])
    BY <1>2, <1>3, FS_Subset, FS_CardinalityType
  <1>6. U[n] \subseteq AvKey /\ M \ U[n] \subseteq AvKey /\ M \ U[n] # AvKey
    BY <1>1
  <1>7. Cardinality(U[n]) <= AvMany /\ Cardinality(M \ U[n]) < AvMany
    BY <1>2, <1>6, FS_Subset, FS_CardinalityType DEF AvMany
  <1>8. QED
    BY <1>2, <1>4, <1>5, <1>7 DEF c

\* Induction from the leaves up.
LEMMA AvRises ==
    ASSUME NEW t, NEW M, NEW U, AvOrdered(t, M, U), NEW S,
           \A n \in M : (\A s \in AvSide : t.kid[s][n] \in S \/ t.kid[s][n] = AvNull) => n \in S
    PROVE  M \subseteq S
  <1> DEFINE T == {Cardinality(U[n]) : n \in M \ S}
  <1>1. SUFFICES ASSUME T # {} PROVE FALSE
    OBVIOUS
  <1>2. T \subseteq Nat
    <2>1. 1 \in AvSide
      BY AvSides
    <2>2. \A n \in M : Cardinality(U[n]) \in Nat
      BY <2>1, AvCount
    <2>3. QED
      BY <2>2
  <1>3. PICK i \in T : \A j \in T : i <= j
    BY <1>1, <1>2, AvLeast
  <1>4. PICK n \in M \ S : i = Cardinality(U[n])
    BY <1>3
  <1>5. PICK s \in AvSide : t.kid[s][n] \notin S /\ t.kid[s][n] # AvNull
    BY <1>4
  <1>6. t.kid[s][n] \in M \ S
    BY <1>4, <1>5, AvBelow
  <1>7. Cardinality(U[t.kid[s][n]]) \in T
    BY <1>6
  <1>8. Cardinality(U[t.kid[s][n]]) < Cardinality(U[n]) /\ Cardinality(U[t.kid[s][n]]) \in Nat /\ Cardinality(U[n]) \in Nat
    BY <1>4, AvCount
  <1>9. QED
    BY <1>3, <1>4, <1>7, <1>8

\* Every member but the root hangs from another.
LEMMA AvHangs ==
    ASSUME NEW t, NEW M, NEW U, AvOrdered(t, M, U), NEW k \in M, k # t.root
    PROVE  t.parent[k] \in M /\ \E s \in AvSide : t.kid[s][t.parent[k]] = k
  <1> DEFINE S == {n \in M : k \in U[n] /\ n # k => \E m \in M : \E s \in AvSide : t.kid[s][m] = k}
  <1>1. ASSUME NEW n \in M, \A s \in AvSide : t.kid[s][n] \in S \/ t.kid[s][n] = AvNull
        PROVE  n \in S
    <2>1. SUFFICES ASSUME k \in U[n], n # k
                   PROVE  \E m \in M : \E s \in AvSide : t.kid[s][m] = k
      OBVIOUS
    <2>2. PICK s \in AvSide : k \in U[t.kid[s][n]]
      <3>1. U[n] = {n} \cup U[t.kid[1][n]] \cup U[t.kid[-1][n]]
        BY AvBelow, AvSides
      <3>2. QED
        BY <2>1, <3>1, AvSides
    <2>3. CASE t.kid[s][n] = k
      BY <2>3
    <2>4. CASE t.kid[s][n] # k
      <3>1. t.kid[s][n] # AvNull
        BY <2>2 DEF AvOrdered
      <3>2. QED
        BY <1>1, <2>2, <2>4, <3>1
    <2>5. QED
      BY <2>3, <2>4
  <1>2. M \subseteq S
    <2> HIDE DEF S
    <2>1. QED
      BY <1>1, AvRises
  <1>3. t.root \in M /\ k \in U[t.root]
    BY DEF AvOrdered
  <1>4. PICK m \in M, s \in AvSide : t.kid[s][m] = k
    BY <1>2, <1>3
  <1>5. k # AvNull
    BY AvKeys DEF AvOrdered
  <1>6. t.parent[k] = m
    BY <1>4, <1>5, AvBelow
  <1>7. QED
    BY <1>4, <1>6

\* A member hangs from its parent on the side that the code finds.
LEMMA AvSideIs ==
    ASSUME NEW t, NEW M, NEW U, AvOrdered(t, M, U), NEW k \in M
    PROVE  /\ AvSideOf(t, t.parent[k], k) \in AvSide
           /\ IF k = t.root THEN t.parent[k] = AvNull
              ELSE t.parent[k] \in M /\ t.kid[AvSideOf(t, t.parent[k], k)][t.parent[k]] = k
  <1>1. CASE k = t.root
    BY <1>1, AvKeys DEF AvOrdered, AvSideOf, AvSide
  <1>2. CASE k # t.root
    <2>1. t.parent[k] \in M /\ \E s \in AvSide : t.kid[s][t.parent[k]] = k
      BY <1>2, AvHangs
    <2>2. t.parent[k] # AvNull
      BY <2>1, AvKeys DEF AvOrdered
    <2>3. QED
      BY <1>2, <2>1, <2>2 DEF AvSideOf, AvSide
  <1>3. QED
    BY <1>1, <1>2

\* Induction from the root down.
LEMMA AvSinks ==
    ASSUME NEW t, NEW M, NEW U, AvOrdered(t, M, U), NEW S,
           t.root \in M => t.root \in S,
           \A n \in M \cap S : \A s \in AvSide : t.kid[s][n] # AvNull => t.kid[s][n] \in S
    PROVE  M \subseteq S
  <1> DEFINE T == {Cardinality(M \ U[n]) : n \in M \ S}
  <1>1. SUFFICES ASSUME T # {} PROVE FALSE
    OBVIOUS
  <1>2. T \subseteq Nat
    <2>1. 1 \in AvSide
      BY AvSides
    <2>2. \A n \in M : Cardinality(M \ U[n]) \in Nat
      BY <2>1, AvCount
    <2>3. QED
      BY <2>2
  <1>3. PICK i \in T : \A j \in T : i <= j
    BY <1>1, <1>2, AvLeast
  <1>4. PICK n \in M \ S : i = Cardinality(M \ U[n])
    BY <1>3
  <1>5. n # t.root
    BY <1>4
  <1>6. PICK s \in AvSide : t.parent[n] \in M /\ t.kid[s][t.parent[n]] = n
    BY <1>4, <1>5, AvHangs
  <1>7. n # AvNull
    BY <1>4, AvKeys DEF AvOrdered
  <1>8. t.parent[n] \in M \ S
    BY <1>4, <1>6, <1>7
  <1>9. Cardinality(M \ U[t.parent[n]]) \in T
    BY <1>8
  <1>10. /\ Cardinality(M \ U[t.parent[n]]) < Cardinality(M \ U[n])
         /\ Cardinality(M \ U[t.parent[n]]) \in Nat /\ Cardinality(M \ U[n]) \in Nat
    BY <1>6, AvCount
  <1>11. QED
    <2>1. i <= Cardinality(M \ U[t.parent[n]])
      BY <1>3, <1>9
    <2> HIDE DEF T
    <2>2. QED
      BY <1>4, <1>10, <2>1

\* No member that is not below a node lies between two that are.
LEMMA AvConvex ==
    ASSUME NEW t, NEW M, NEW U, AvOrdered(t, M, U), NEW n \in M, NEW x \in M \ U[n],
           NEW y \in U[n], NEW z \in U[n], NEW s \in AvSide
    PROVE  ~ (AvBeyond(s, x, y) /\ AvBeyond(s, z, x))
  <1> DEFINE Between(m) == \E a \in M \ U[m] : \E b, c \in U[m] : \E u \in AvSide :
                             AvBeyond(u, a, b) /\ AvBeyond(u, c, a)
             S == {m \in M : ~Between(m)}
  <1>1. t.root \in M => t.root \in S
    BY DEF AvOrdered
  <1>2. ASSUME NEW m \in M \cap S, NEW u \in AvSide, t.kid[u][m] # AvNull
        PROVE  t.kid[u][m] \in S
    <2>8. -u \in AvSide /\ -(-u) = u
      BY AvSides
    <2>9. t.kid[u][m] \in M /\ U[t.kid[u][m]] \subseteq U[m] /\ U[m] \subseteq M
      BY <1>2, AvBelow, AvChildIs
    <2>10. U[m] = {m} \cup U[t.kid[u][m]] \cup U[t.kid[-u][m]]
      BY <1>2, AvBelow
    <2>11. \A e \in U[t.kid[u][m]] : AvBeyond(u, e, m)
      BY <1>2, AvBelow
    <2>12. \A e \in U[t.kid[-u][m]] : AvBeyond(-u, e, m)
      BY <1>2, <2>8, AvBelow
    <2>13. M \subseteq Int
      BY AvKeys DEF AvOrdered
    <2>1. /\ t.kid[u][m] \in M /\ U[t.kid[u][m]] \subseteq U[m]
          /\ U[m] = {m} \cup U[t.kid[u][m]] \cup U[t.kid[-u][m]]
          /\ \A e \in U[t.kid[u][m]] : AvBeyond(u, e, m)
          /\ \A e \in U[t.kid[-u][m]] : AvBeyond(-u, e, m)
          /\ M \subseteq Int /\ U[m] \subseteq M
      BY <2>9, <2>10, <2>11, <2>12, <2>13
    <2>2. SUFFICES ASSUME NEW a \in M \ U[t.kid[u][m]], NEW b \in U[t.kid[u][m]],
                          NEW c \in U[t.kid[u][m]], NEW v \in AvSide,
                          AvBeyond(v, a, b), AvBeyond(v, c, a)
                   PROVE  FALSE
      BY <2>1
    <2>3. a \in Int /\ b \in Int /\ c \in Int /\ m \in Int /\ AvBeyond(u, b, m) /\ AvBeyond(u, c, m)
      BY <2>1, <2>2
    <2>4. CASE a \notin U[m]
      BY <1>2, <2>1, <2>2, <2>4
    <2>5. CASE a = m
      BY <2>2, <2>3, <2>5 DEF AvBeyond, AvSide
    <2>6. CASE a \in U[t.kid[-u][m]]
      <3>1. AvBeyond(-u, a, m)
        BY <2>1, <2>6
      <3>2. QED
        BY <2>2, <2>3, <3>1 DEF AvBeyond, AvSide
    <2>7. QED
      BY <2>1, <2>2, <2>4, <2>5, <2>6
  <1>3. M \subseteq S
    <2> HIDE DEF S
    <2>1. QED
      BY <1>1, <1>2, AvSinks
  <1>4. QED
    BY <1>3

-----------------------------------------------------------------------------
(* A rotation keeps the order.                                             *)

\* The child q of p on side s has taken the place of p.
AvTurned(t, M, p, s, u) ==
    LET q == t.kid[s][p] IN
    /\ u.root = IF t.root = p THEN q ELSE t.root
    /\ u.kid[s][p] = t.kid[-s][q] /\ u.kid[-s][p] = t.kid[-s][p]
    /\ u.kid[-s][q] = p /\ u.kid[s][q] = t.kid[s][q]
    /\ \A m \in M \ {p, q} : \A x \in AvSide :
         u.kid[x][m] = IF t.kid[x][m] = p THEN q ELSE t.kid[x][m]
    /\ u.parent[q] = t.parent[p]
    /\ u.balance = t.balance /\ u.end = t.end /\ u.height = t.height

\* The members below each node after a rotation.
AvTurn(t, U, p, s) ==
    [x \in AvLink |->
       IF x = t.kid[s][p] THEN U[p]
       ELSE IF x = p THEN {p} \cup U[t.kid[-s][p]] \cup U[t.kid[-s][t.kid[s][p]]]
       ELSE U[x]]

LEMMA AvTurnMeets ==
    ASSUME NEW t, NEW M, NEW U, AvOrdered(t, M, U), NEW p \in M, NEW s \in AvSide,
           t.kid[s][p] # AvNull,
           NEW q, q = t.kid[s][p], NEW moved, moved = t.kid[-s][q], NEW up, up = t.parent[p]
    PROVE  /\ p \in AvKey /\ q \in AvKey \ {p} /\ q \in M /\ t.parent[q] = p
           /\ up \in AvLink \ {p, q} /\ moved \in AvLink \ {p, q}
           /\ -s \in AvSide /\ -s # s
  <1>1. -s \in AvSide /\ -s # s
    BY AvSides
  <1>2. p \in AvKey /\ q \in M /\ q \in AvKey /\ t.parent[q] = p
    BY AvBelow DEF AvOrdered
  <1>3. q # p /\ moved # q /\ up \in AvLink /\ moved \in AvLink
    BY <1>1, <1>2, AvChildIs
  <1>4. moved # p
    <2>1. U[moved] \subseteq U[q] /\ p \notin U[q] /\ p \in U[p]
      BY <1>1, <1>2, AvChildIs
    <2>2. QED
      BY <2>1
  <1>5. up # p /\ up # q
    <2>1. CASE p = t.root
      BY <1>2, <2>1, AvKeys DEF AvOrdered
    <2>2. CASE p # t.root
      <3>1. PICK x \in AvSide : up \in M /\ t.kid[x][up] = p
        BY <2>2, AvHangs
      <3>2. up # p
        BY <3>1, AvChildIs
      <3>3. p \in U[up] /\ U[p] \subseteq U[up] /\ up \notin U[p]
        BY <3>1, AvChildIs
      <3>4. q \in U[p]
        BY <1>2, AvChildIs
      <3>5. QED
        BY <3>2, <3>3, <3>4
    <2>3. QED
      BY <2>1, <2>2
  <1>6. QED
    BY <1>1, <1>2, <1>3, <1>4, <1>5

\* What a node p has around it, when the node it meets on side s exists.
AvTurnMet(t, M, p, s) ==
    /\ p \in AvKey /\ t.kid[s][p] \in AvKey \ {p} /\ t.kid[s][p] \in M
    /\ t.parent[t.kid[s][p]] = p
    /\ t.parent[p] \in AvLink \ {p, t.kid[s][p]}
    /\ t.kid[-s][t.kid[s][p]] \in AvLink \ {p, t.kid[s][p]}
    /\ -s \in AvSide /\ -s # s

LEMMA AvTurnMeetsAt ==
    ASSUME NEW t, NEW M, NEW U, AvOrdered(t, M, U), NEW p \in M, NEW s \in AvSide,
           t.kid[s][p] # AvNull
    PROVE  AvTurnMet(t, M, p, s)
  BY AvTurnMeets DEF AvTurnMet

LEMMA AvTurnIs ==
    ASSUME NEW t, NEW M, NEW U, AvOrdered(t, M, U), NEW p \in M, NEW s \in AvSide,
           t.kid[s][p] # AvNull
    PROVE  /\ AvRotated(t, p, s, AvRotate(t, p, s))
           /\ AvTurned(t, M, p, s, AvRotate(t, p, s))
  <1> DEFINE u == AvRotate(t, p, s)
             q == t.kid[s][p]
             moved == t.kid[-s][q]
             up == t.parent[p]
             side == AvSideOf(t, up, p)
  <1>1. /\ p \in AvKey /\ q \in AvKey \ {p} /\ q \in M /\ t.parent[q] = p
        /\ up \in AvLink \ {p, q} /\ moved \in AvLink \ {p, q}
        /\ -s \in AvSide /\ -s # s
    BY AvTurnMeets
  <1>2. AvRotated(t, p, s, u)
    BY <1>1, AvRotateIs DEF AvOrdered
  <1>3. side \in AvSide /\ IF p = t.root THEN up = AvNull ELSE up \in M /\ t.kid[side][up] = p
    BY AvSideIs
  <1>4. p # AvNull /\ AvNull \notin M /\ M \subseteq AvKey
    BY AvKeys DEF AvOrdered
  <1> HIDE DEF u
  <1>5. u.root = IF t.root = p THEN q ELSE t.root
    BY <1>2, <1>3, <1>4 DEF AvRotated
  <1>6. ASSUME NEW m \in M \ {p, q}, NEW x \in AvSide
        PROVE  u.kid[x][m] = IF t.kid[x][m] = p THEN q ELSE t.kid[x][m]
    <2>1. u.kid[x][m] = IF m = up /\ x = side THEN q ELSE t.kid[x][m]
      BY <1>2, <1>4 DEF AvRotated
    <2>2. ASSUME t.kid[x][m] = p PROVE m = up /\ x = side
      <3>1. m = up
        BY <1>4, <2>2, AvBelow
      <3>2. up \in M /\ t.kid[side][up] = p
        BY <1>3, <1>4, <3>1
      <3>3. x = side \/ x = -side
        BY <1>3, AvSides
      <3>4. t.kid[side][up] # t.kid[-side][up]
        BY <1>3, <1>4, <3>2, AvChildIs
      <3>5. QED
        BY <2>2, <3>1, <3>2, <3>3, <3>4
    <2>3. ASSUME m = up, x = side PROVE t.kid[x][m] = p
      BY <1>3, <1>4, <2>3
    <2>4. QED
      BY <2>1, <2>2, <2>3
  <1>7. u.parent[q] = up
    BY <1>1, <1>2 DEF AvRotated
  <1>8. QED
    BY <1>2, <1>5, <1>6, <1>7 DEF AvTurned, AvRotated, u

LEMMA AvTurnKeeps ==
    ASSUME NEW t, NEW M, NEW U, AvOrdered(t, M, U), NEW p \in M, NEW s \in AvSide,
           t.kid[s][p] # AvNull,
           NEW u, AvRotated(t, p, s, u), AvTurned(t, M, p, s, u),
           NEW V, V = AvTurn(t, U, p, s)
    PROVE  AvOrdered(u, M, V) /\ V[t.kid[s][p]] = U[p]
  <1> DEFINE q == t.kid[s][p]
             moved == t.kid[-s][q]
             other == t.kid[-s][p]
             far == t.kid[s][q]
             up == t.parent[p]
  <1>1. /\ p \in AvKey /\ q \in AvKey \ {p} /\ q \in M /\ t.parent[q] = p
        /\ up \in AvLink \ {p, q} /\ moved \in AvLink \ {p, q}
        /\ -s \in AvSide /\ -s # s
    BY AvTurnMeets
  <1>2. /\ t \in AvTree /\ M \subseteq AvKey /\ U \in [AvLink -> SUBSET M] /\ U[AvNull] = {}
        /\ U[t.root] = M /\ (t.root # AvNull => t.root \in M /\ t.parent[t.root] = AvNull)
        /\ \A n \in M : AvNode(t, M, U, n)
    BY DEF AvOrdered
  <1>3. AvEdge(t, M, U, p, s) /\ AvEdge(t, M, U, p, -s) /\ AvEdge(t, M, U, q, s) /\ AvEdge(t, M, U, q, -s)
    BY <1>1, <1>2 DEF AvNode
  <1>4. U[p] = {p} \cup U[q] \cup U[other] /\ U[q] = {q} \cup U[far] \cup U[moved]
    BY <1>1, <1>2 DEF AvNode
  <1>5. /\ other \in AvLink /\ far \in AvLink
        /\ p \in U[p] /\ q \in U[q] /\ U[p] \subseteq M
        /\ AvNull # p /\ AvNull # q
    <2>1. other \in AvLink /\ p \in U[p] /\ U[p] \subseteq M
      BY <1>1, AvChildIs
    <2>2. far \in AvLink /\ q \in U[q]
      BY <1>1, AvChildIs
    <2>3. QED
      BY <2>1, <2>2, <1>1, AvKeys
  <1>6. other # p /\ other # q /\ far # p /\ far # q
    <2>1. other # p /\ q # other /\ far # q
      BY <1>1, AvChildIs
    <2>2. p \notin U[far] /\ (far # AvNull => far \in U[far])
      <3>1. p \notin U[q] /\ U[far] \subseteq U[q]
        BY <1>1, AvChildIs
      <3>2. far # AvNull => far \in U[far]
        BY <1>1, AvChildIs
      <3>3. QED
        BY <3>1, <3>2
    <2>3. QED
      BY <1>5, <2>1, <2>2
  <1>7. /\ u \in AvTree
        /\ u.root = IF t.root = p THEN q ELSE t.root
        /\ u.kid[s][p] = moved /\ u.kid[-s][p] = other
        /\ u.kid[-s][q] = p /\ u.kid[s][q] = far
    BY DEF AvTurned, AvRotated
  <1>8. \A m \in M \ {p, q} : \A x \in AvSide :
          u.kid[x][m] = IF t.kid[x][m] = p THEN q ELSE t.kid[x][m]
    BY DEF AvTurned
  <1>9. \A m \in AvKey : u.parent[m] = IF m = moved THEN p ELSE IF m = p THEN q
                                       ELSE IF m = q THEN up ELSE t.parent[m]
    BY DEF AvRotated
  <1>10. /\ V[q] = U[p] /\ V[p] = {p} \cup U[other] \cup U[moved]
         /\ \A x \in AvLink \ {p, q} : V[x] = U[x]
    BY <1>1, <1>2, AvKeys, Zenon DEF AvTurn
  <1>11. V \in [AvLink -> SUBSET M]
    <2>1. \A x \in AvLink : V[x] \in SUBSET M
      BY <1>1, <1>2, <1>5, <1>10
    <2>2. V = [x \in AvLink |-> V[x]]
      BY DEF AvTurn
    <2>3. QED
      BY <2>1, <2>2
  <1>21. \A n \in U[p] : n \in Int
    BY <1>2, <1>5, AvKeys
  <1>22. p \in Int /\ q \in Int /\ M \subseteq Int
    BY <1>1, <1>2, AvKeys
  <1> HIDE DEF q, moved, other, far, up
  <1>12. V[AvNull] = {} /\ V[u.root] = M
    <2>1. V[AvNull] = {}
      BY <1>2, <1>5, <1>10, AvKeys
    <2>2. CASE t.root = p
      BY <2>1, <2>2, <1>2, <1>7, <1>10
    <2>3. CASE t.root # p
      <3>1. t.root # q
        BY <1>1, <1>2, <1>5
      <3>2. t.root \in AvLink
        BY <1>2, AvTreeFields
      <3>3. QED
        BY <2>1, <2>3, <3>1, <3>2, <1>2, <1>7, <1>10
    <2>4. QED
      BY <2>1, <2>2, <2>3
  <1>13. u.root # AvNull => u.root \in M /\ u.parent[u.root] = AvNull
    <2>1. CASE t.root = p
      BY <2>1, <1>1, <1>2, <1>7, <1>9, <1>5 DEF up
    <2>2. CASE t.root # p
      <3>1. SUFFICES ASSUME t.root # AvNull PROVE t.root \in M /\ u.parent[t.root] = AvNull
        BY <1>7, <2>2
      <3>2. t.root \in AvKey /\ t.root # q /\ t.parent[t.root] = AvNull
        BY <1>1, <1>2, <1>5, <3>1
      <3>3. t.root # moved
        BY <3>1, <3>2, <1>2, <1>3, <1>1, <1>5 DEF AvEdge, moved
      <3>4. QED
        BY <2>2, <3>1, <3>2, <3>3, <1>2, <1>9
    <2>3. QED
      BY <2>1, <2>2
  <1>14. AvNode(u, M, V, p)
    <2>1. moved # AvNull => moved \in M /\ u.parent[moved] = p
      BY <1>1, <1>2, <1>3, <1>9 DEF AvEdge, moved
    <2>2. other # AvNull => other \in M /\ u.parent[other] = p
      <3>1. other # AvNull => other \in M /\ t.parent[other] = p
        BY <1>3 DEF AvEdge, other
      <3>2. QED
        BY <3>1, <1>1, <1>2, <1>6, <1>9
    <2>3. V[moved] = U[moved] /\ V[other] = U[other]
      BY <1>1, <1>5, <1>6, <1>10
    <2>4. \A x \in U[moved] : AvBeyond(s, x, p)
      BY <1>3, <1>4 DEF AvEdge, q
    <2>5. \A x \in U[other] : AvBeyond(-s, x, p)
      BY <1>3 DEF AvEdge, other
    <2>6. AvEdge(u, M, V, p, s) /\ AvEdge(u, M, V, p, -s)
      BY <2>1, <2>2, <2>3, <2>4, <2>5, <1>7 DEF AvEdge
    <2>7. V[p] = {p} \cup V[u.kid[s][p]] \cup V[u.kid[-s][p]]
      BY <2>3, <1>7, <1>10
    <2>8. \A x \in AvSide : (x = s /\ -x = -s) \/ (x = -s /\ -x = s)
      BY AvSides
    <2>9. QED
      BY <2>6, <2>7, <2>8 DEF AvNode
  <1>15. AvNode(u, M, V, q)
    <2>1. u.parent[p] = q
      BY <1>1, <1>9
    <2>2. far # AvNull => far \in M /\ u.parent[far] = q
      <3>1. far # AvNull => far \in M /\ t.parent[far] = q
        BY <1>3 DEF AvEdge, far
      <3>2. far # AvNull => far # moved
        <4>1. far # AvNull => far # t.kid[-s][q]
          BY <1>1, AvChildIs DEF far
        <4>2. QED
          BY <4>1 DEF moved
      <3>3. QED
        BY <3>1, <3>2, <1>1, <1>2, <1>6, <1>9
    <2>3. V[far] = U[far]
      BY <1>5, <1>6, <1>10
    <2>4. \A x \in U[far] : AvBeyond(s, x, q)
      BY <1>3 DEF AvEdge, far
    <2>5. \A x \in V[p] : AvBeyond(-s, x, q)
      <3>1. AvBeyond(s, q, p)
        BY <1>3, <1>5 DEF AvEdge, q
      <3>2. AvBeyond(-s, p, q)
        BY <3>1, <1>22, AvOrder
      <3>3. \A x \in U[other] : AvBeyond(-s, x, q)
        <4>1. \A x \in U[other] : AvBeyond(-s, x, p) /\ x \in Int
          BY <1>3, <1>4, <1>21 DEF AvEdge, other
        <4>2. QED
          BY <4>1, <3>2, <1>1, <1>22, AvOrder
      <3>4. \A x \in U[moved] : AvBeyond(-s, x, q)
        BY <1>3 DEF AvEdge, moved
      <3>5. QED
        BY <3>2, <3>3, <3>4, <1>10
    <2>6. AvEdge(u, M, V, q, s) /\ AvEdge(u, M, V, q, -s)
      BY <2>1, <2>2, <2>3, <2>4, <2>5, <1>7 DEF AvEdge
    <2>7. V[q] = {q} \cup V[u.kid[s][q]] \cup V[u.kid[-s][q]]
      BY <2>3, <1>4, <1>7, <1>10
    <2>8. \A x \in AvSide : (x = s /\ -x = -s) \/ (x = -s /\ -x = s)
      BY AvSides
    <2>9. QED
      BY <2>6, <2>7, <2>8 DEF AvNode
  <1>16. ASSUME NEW m \in M \ {p, q}
         PROVE  AvNode(u, M, V, m)
    <2>1. AvNode(t, M, U, m) /\ m \in AvKey /\ m # AvNull
      BY <1>2, AvKeys
    <2>2. ASSUME NEW x \in AvSide
          PROVE  AvEdge(u, M, V, m, x) /\ V[u.kid[x][m]] = U[t.kid[x][m]]
      <3>1. AvEdge(t, M, U, m, x) /\ t.kid[x][m] \in AvLink
        BY <1>2, <2>1, <2>2, AvChildIs DEF AvNode
      <3>2. CASE t.kid[x][m] = p
        <4>1. u.kid[x][m] = q /\ m = up
          BY <1>5, <1>8, <3>1, <3>2 DEF AvEdge, up
        <4>2. u.parent[q] = up
          BY <1>1, <1>9
        <4>3. QED
          BY <4>1, <4>2, <3>1, <3>2, <1>1, <1>10 DEF AvEdge
      <3>3. CASE t.kid[x][m] # p
        <4>1. u.kid[x][m] = t.kid[x][m]
          BY <1>8, <3>3
        <4>2. t.kid[x][m] # q
          BY <1>1, <1>5, <3>1 DEF AvEdge
        <4>3. V[t.kid[x][m]] = U[t.kid[x][m]]
          BY <3>1, <3>3, <4>2, <1>10
        <4>4. t.kid[x][m] # AvNull => t.kid[x][m] # moved
          BY <1>1, <1>3, <3>1 DEF AvEdge, moved
        <4>5. t.kid[x][m] # AvNull => u.parent[t.kid[x][m]] = t.parent[t.kid[x][m]]
          BY <4>2, <4>4, <3>1, <3>3, <1>2, <1>9 DEF AvEdge
        <4>6. QED
          BY <4>1, <4>3, <4>5, <3>1 DEF AvEdge
      <3>4. QED
        BY <3>2, <3>3
    <2>3. V[m] = U[m]
      BY <1>10, <2>1, AvKeys
    <2>4. \A x \in AvSide : -x \in AvSide
      BY AvSides
    <2>5. \A x \in AvSide : U[m] = {m} \cup U[t.kid[x][m]] \cup U[t.kid[-x][m]]
      BY <2>1 DEF AvNode
    <2>6. QED
      BY <2>2, <2>3, <2>4, <2>5 DEF AvNode
  <1>17. AvOrdered(u, M, V)
    BY <1>2, <1>7, <1>11, <1>12, <1>13, <1>14, <1>15, <1>16 DEF AvOrdered
  <1>18. QED
    BY <1>10, <1>17 DEF q

LEMMA AvTurns ==
    ASSUME NEW t, NEW M, NEW U, AvOrdered(t, M, U), NEW p \in M, NEW s \in AvSide,
           t.kid[s][p] # AvNull
    PROVE  /\ AvTurned(t, M, p, s, AvRotate(t, p, s))
           /\ \E V : AvOrdered(AvRotate(t, p, s), M, V) /\ V[t.kid[s][p]] = U[p]
  BY AvTurnIs, AvTurnKeeps

\* Two rotations: g, the inner grandchild of n on side s, takes the place of n.
AvTwisted(t, M, n, s, u) ==
    LET c == t.kid[s][n]
        g == t.kid[-s][c] IN
    /\ u.root = IF t.root = n THEN g ELSE t.root
    /\ u.kid[s][n] = t.kid[-s][g] /\ u.kid[-s][n] = t.kid[-s][n]
    /\ u.kid[-s][c] = t.kid[s][g] /\ u.kid[s][c] = t.kid[s][c]
    /\ u.kid[-s][g] = n /\ u.kid[s][g] = c
    /\ \A m \in M \ {n, c, g} : \A x \in AvSide :
         u.kid[x][m] = IF t.kid[x][m] = n THEN g ELSE t.kid[x][m]
    /\ u.parent[g] = t.parent[n]
    /\ u.balance = t.balance /\ u.end = t.end /\ u.height = t.height

LEMMA AvRotatedElsewhere ==
    ASSUME NEW t, NEW p, NEW s, NEW u, AvRotated(t, p, s, u), NEW m \in AvKey,
           m # p, m # t.kid[s][p], m # t.kid[-s][t.kid[s][p]]
    PROVE  u.parent[m] = t.parent[m]
  BY DEF AvRotated

AvMet(t, M, n, s, c, g) ==
    /\ c \in M \ {n} /\ g \in M \ {n, c} /\ t.parent[c] = n /\ t.parent[g] = c
    /\ t.parent[n] \notin {n, c, g} /\ -s \in AvSide /\ -s # s
    /\ \A x \in AvSide : t.kid[x][g] \notin {n, c, g}

LEMMA AvTwistMeets ==
    ASSUME NEW t, NEW M, NEW U, AvOrdered(t, M, U), NEW n \in M, NEW s \in AvSide,
           NEW c, AvIs(c, t.kid[s][n]), NEW g, AvIs(g, t.kid[-s][c]), c # AvNull, g # AvNull
    PROVE  AvMet(t, M, n, s, c, g)
  <1>0. c = t.kid[s][n] /\ g = t.kid[-s][c]
    BY DEF AvIs
  <1>1. -s \in AvSide /\ -s # s /\ -(-s) = s
    BY AvSides
  <1>2. n \in AvKey /\ c \in AvKey \ {n} /\ c \in M /\ t.parent[c] = n /\ t.parent[n] \notin {n, c} /\ g # n
    BY <1>0, AvTurnMeets
  <1>3. g \in M /\ t.parent[g] = c /\ g # c
    BY <1>0, <1>1, <1>2, AvBelow, AvChildIs
  <1>4. g \in U[g] /\ U[g] \subseteq U[c] /\ U[c] \subseteq U[n] /\ n \notin U[c] /\ c \notin U[g]
    <2>1. g \in U[g]
      BY <1>3, AvChildIs
    <2>2. U[g] \subseteq U[c] /\ c \notin U[g]
      BY <1>0, <1>1, <1>2, AvChildIs
    <2>3. U[c] \subseteq U[n] /\ n \notin U[c]
      BY <1>0, AvChildIs
    <2>4. QED
      BY <2>1, <2>2, <2>3
  <1>5. t.parent[n] # g
    <2>1. CASE n = t.root
      BY <1>3, <2>1, AvKeys DEF AvOrdered
    <2>2. CASE n # t.root
      <3>1. PICK x \in AvSide : t.parent[n] \in M /\ t.kid[x][t.parent[n]] = n
        BY <2>2, AvHangs
      <3>2. U[n] \subseteq U[t.parent[n]] /\ t.parent[n] \notin U[n]
        BY <3>1, AvChildIs
      <3>3. QED
        BY <1>4, <3>2
    <2>3. QED
      BY <2>1, <2>2
  <1>6. ASSUME NEW x \in AvSide PROVE t.kid[x][g] \notin {n, c, g}
    <2>1. t.kid[x][g] # g
      BY <1>3, AvChildIs
    <2>2. U[t.kid[x][g]] \subseteq U[g]
      BY <1>3, AvChildIs
    <2>3. t.kid[x][g] # AvNull => t.kid[x][g] \in U[t.kid[x][g]]
      BY <1>3, AvChildIs
    <2>4. n # AvNull
      BY AvKeys DEF AvOrdered
    <2>5. n \notin U[g] /\ c \notin U[g]
      BY <1>4
    <2>6. QED
      BY <2>1, <2>2, <2>3, <2>4, <2>5
  <1>7. QED
    BY <1>1, <1>2, <1>3, <1>4, <1>5, <1>6 DEF AvMet

LEMMA AvTwistSteps ==
    ASSUME NEW t, NEW M, NEW U, AvOrdered(t, M, U), NEW n \in M, NEW s \in AvSide,
           NEW c, AvIs(c, t.kid[s][n]), NEW g, AvIs(g, t.kid[-s][c]), c # AvNull, g # AvNull,
           NEW u, AvIs(u, AvRotate(AvRotate(t, c, -s), n, s))
    PROVE  AvTwisted(t, M, n, s, u) /\ \E V : AvOrdered(u, M, V) /\ V[g] = U[n]
  <1>0. c = t.kid[s][n] /\ g = t.kid[-s][c]
    BY DEF AvIs
  <1>u. u = AvRotate(AvRotate(t, c, -s), n, s)
    BY DEF AvIs
  <1>1. /\ c \in M \ {n} /\ g \in M \ {n, c} /\ t.parent[c] = n /\ t.parent[g] = c
        /\ -s \in AvSide /\ -s # s
        /\ \A x \in AvSide : t.kid[x][g] \notin {n, c, g}
    <2>1. AvMet(t, M, n, s, c, g)
      BY <1>0, AvTwistMeets
    <2>2. QED
      BY <2>1 DEF AvMet
  <1>2. -(-s) = s
    BY AvSides
  <1> DEFINE v == AvRotate(t, c, -s)
  <1>3. AvTurned(t, M, c, -s, v) /\ AvRotated(t, c, -s, v)
    BY <1>0, <1>1, AvTurnIs, Zenon
  <1> DEFINE V == AvTurn(t, U, c, -s)
  <1>4. AvOrdered(v, M, V)
    <2> HIDE DEF v
    <2>1. QED
      BY <1>0, <1>1, <1>3, AvTurnKeeps, Zenon
  <1>5. V[n] = U[n]
    BY <1>0, <1>1, AvKeys, Zenon DEF AvTurn, AvOrdered
  <1> HIDE DEF v, V
  <1>6. /\ v.root = (IF t.root = c THEN g ELSE t.root)
        /\ v.kid[-s][c] = t.kid[s][g] /\ v.kid[s][c] = t.kid[s][c]
        /\ v.kid[s][g] = c /\ v.kid[-s][g] = t.kid[-s][g]
        /\ \A m \in M \ {c, g} : \A x \in AvSide :
             v.kid[x][m] = IF t.kid[x][m] = c THEN g ELSE t.kid[x][m]
        /\ v.balance = t.balance /\ v.end = t.end /\ v.height = t.height
    <2>1. AvTurned(t, M, c, -s, v) /\ t.kid[-s][c] = g /\ -(-s) = s
      BY <1>0, <1>2, <1>3, Zenon
    <2>2. v.root = (IF t.root = c THEN g ELSE t.root)
      BY <2>1, Zenon DEF AvTurned
    <2>3. /\ v.kid[-s][c] = t.kid[s][g] /\ v.kid[s][c] = t.kid[s][c]
          /\ v.kid[s][g] = c /\ v.kid[-s][g] = t.kid[-s][g]
      BY <2>1, Zenon DEF AvTurned
    <2>4. \A m \in M \ {c, g} : \A x \in AvSide :
            v.kid[x][m] = IF t.kid[x][m] = c THEN g ELSE t.kid[x][m]
      BY <2>1, Zenon DEF AvTurned
    <2>5. v.balance = t.balance /\ v.end = t.end /\ v.height = t.height
      BY <2>1, Zenon DEF AvTurned
    <2>6. QED
      BY <2>2, <2>3, <2>4, <2>5, Zenon
  <1>7. v.parent[n] = t.parent[n]
    <2>1. n \in AvKey
      BY DEF AvOrdered
    <2>2. n # c /\ n # t.kid[-s][c] /\ n # t.kid[-(-s)][t.kid[-s][c]]
      BY <1>0, <1>1, <1>2, Zenon
    <2>4. AvRotated(t, c, -s, v)
      BY <1>3
    <2>3. QED
      BY <2>1, <2>2, <2>4, AvRotatedElsewhere
  <1>8. /\ v.kid[s][n] = g
        /\ v.kid[-s][n] = t.kid[-s][n]
    <2>1. t.kid[-s][n] # c
      BY <1>0, AvChildIs
    <2>2. QED
      BY <1>0, <1>1, <1>6, <2>1, Zenon
  <1>9. AvTurned(v, M, n, s, u) /\ \E W : AvOrdered(u, M, W) /\ W[g] = V[n]
    BY <1>u, <1>4, <1>8, AvTurns DEF v
  <1>10. /\ u.root = (IF v.root = n THEN g ELSE v.root)
         /\ u.kid[s][n] = v.kid[-s][g] /\ u.kid[-s][n] = v.kid[-s][n]
         /\ u.kid[-s][g] = n /\ u.kid[s][g] = v.kid[s][g]
         /\ \A m \in M \ {n, g} : \A x \in AvSide :
              u.kid[x][m] = IF v.kid[x][m] = n THEN g ELSE v.kid[x][m]
         /\ u.parent[g] = v.parent[n]
         /\ u.balance = v.balance /\ u.end = v.end /\ u.height = v.height
    BY <1>8, <1>9 DEF AvTurned
  <1>11. t.root # c
    BY <1>1, AvKeys DEF AvOrdered
  <1>12. ASSUME NEW m \in M \ {n, c, g}, NEW x \in AvSide
         PROVE  u.kid[x][m] = IF t.kid[x][m] = n THEN g ELSE t.kid[x][m]
    <2>1. t.kid[x][m] # c
      <3>1. t.kid[x][m] # AvNull => t.parent[t.kid[x][m]] = m
        BY <1>12, AvBelow
      <3>2. QED
        BY <3>1, <1>1, <1>12
    <2>2. v.kid[x][m] = t.kid[x][m]
      BY <2>1, <1>6, <1>12
    <2>3. u.kid[x][m] = IF v.kid[x][m] = n THEN g ELSE v.kid[x][m]
      BY <1>10, <1>12
    <2>4. QED
      BY <2>2, <2>3
  <1>13. u.kid[-s][c] = t.kid[s][g] /\ u.kid[s][c] = t.kid[s][c]
    <2>1. t.kid[s][g] # n /\ t.kid[s][c] # n
      <3>4. n \notin U[c]
        BY <1>0, AvChildIs
      <3>5. U[t.kid[s][c]] \subseteq U[c] /\ (t.kid[s][c] # AvNull => t.kid[s][c] \in U[t.kid[s][c]])
        <4>1. U[t.kid[s][c]] \subseteq U[c]
          BY <1>1, AvChildIs
        <4>2. t.kid[s][c] # AvNull => t.kid[s][c] \in U[t.kid[s][c]]
          BY <1>1, AvChildIs
        <4>3. QED
          BY <4>1, <4>2
      <3>1. U[t.kid[s][c]] \subseteq U[c] /\ n \notin U[c] /\ (t.kid[s][c] # AvNull => t.kid[s][c] \in U[t.kid[s][c]])
        BY <3>4, <3>5
      <3>2. n # AvNull
        BY AvKeys DEF AvOrdered
      <3>3. QED
        BY <1>1, <3>1, <3>2
    <2>2. QED
      BY <2>1, <1>1, <1>6, <1>10
  <1>14. AvTwisted(t, M, n, s, u)
    <2>1. u.root = IF t.root = n THEN g ELSE t.root
      BY <1>6, <1>10, <1>11
    <2>2. u.kid[s][n] = t.kid[-s][g] /\ u.kid[-s][n] = t.kid[-s][n]
      BY <1>6, <1>8, <1>10
    <2>3. u.kid[-s][g] = n /\ u.kid[s][g] = c
      BY <1>6, <1>10
    <2>4. /\ u.parent[g] = t.parent[n]
          /\ u.balance = t.balance /\ u.end = t.end /\ u.height = t.height
      BY <1>6, <1>7, <1>10
    <2>5. t.kid[s][n] = c /\ t.kid[-s][c] = g
      BY <1>0, Zenon
    <2>6. QED
      BY <2>1, <2>2, <2>3, <2>4, <2>5, <1>12, <1>13 DEF AvTwisted
  <1>15. QED
    BY <1>5, <1>9, <1>14

AvTwist(t, n, s) == AvRotate(AvRotate(t, t.kid[s][n], -s), n, s)

LEMMA AvTwists ==
    ASSUME NEW t, NEW M, NEW U, AvOrdered(t, M, U), NEW n \in M, NEW s \in AvSide,
           t.kid[s][n] # AvNull, t.kid[-s][t.kid[s][n]] # AvNull
    PROVE  /\ AvTwisted(t, M, n, s, AvTwist(t, n, s))
           /\ \E V : AvOrdered(AvTwist(t, n, s), M, V) /\ V[t.kid[-s][t.kid[s][n]]] = U[n]
  BY AvTwistSteps DEF AvIs, AvTwist

-----------------------------------------------------------------------------
(* Heights.  H is a ghost: the height of the subtree of each node.         *)

\* A node of balance b whose subtrees on side s and on the other have the
\* heights l and m has the height h.
AvLevel(s, b, l, m, h) ==
    /\ b = IF s = 1 THEN l - m ELSE m - l
    /\ b \in {-1, 0, 1}
    /\ h = 1 + IF l < m THEN m ELSE l

LEMMA AvLevelTurns ==
    ASSUME NEW s \in AvSide, NEW b, NEW l \in Int, NEW m \in Int, NEW h, AvLevel(s, b, l, m, h)
    PROVE  AvLevel(-s, b, m, l, h)
  BY DEF AvLevel, AvSide

\* The height that a node sees on its side s, where the node a sees its side x
\* e levels higher than it is.
AvSeen(t, H, m, s, a, x, e) == H[t.kid[s][m]] + IF m = a /\ s = x THEN e ELSE 0

AvHigh(M, H) == H \in [AvLink -> Int] /\ H[AvNull] = -1 /\ \A m \in M : H[m] >= 0

AvHeights(t, M, H, a, x, e) ==
    /\ AvHigh(M, H)
    /\ \A m \in M : \A s \in AvSide :
         AvLevel(s, t.balance[m], AvSeen(t, H, m, s, a, x, e), AvSeen(t, H, m, -s, a, x, e), H[m])

\* The same for all members but those in X, none of which sees amiss.
AvHeightsBut(t, M, H, X) ==
    /\ AvHigh(M, H)
    /\ \A m \in M \ X : \A s \in AvSide :
         AvLevel(s, t.balance[m], H[t.kid[s][m]], H[t.kid[-s][m]], H[m])

LEMMA AvHangsOnce ==
    ASSUME NEW t, NEW M, NEW U, AvOrdered(t, M, U), NEW k \in M, NEW m \in M, NEW x \in AvSide
    PROVE  t.kid[x][m] = k <=> m = t.parent[k] /\ x = AvSideOf(t, t.parent[k], k)
  <1> DEFINE up == t.parent[k]
             side == AvSideOf(t, up, k)
  <1>1. side \in AvSide /\ IF k = t.root THEN up = AvNull ELSE up \in M /\ t.kid[side][up] = k
    BY AvSideIs
  <1>2. k # AvNull /\ m # AvNull
    BY AvKeys DEF AvOrdered
  <1> HIDE DEF side
  <1>3. ASSUME t.kid[x][m] = k PROVE m = up /\ x = side
    <2>1. m = up
      BY <1>2, <1>3, AvBelow
    <2>2. up \in M /\ t.kid[side][up] = k
      BY <1>1, <1>2, <2>1
    <2>3. x = side \/ x = -side
      BY <1>1, AvSides
    <2>4. t.kid[side][up] # t.kid[-side][up]
      BY <1>1, <1>2, <2>2, AvChildIs
    <2>5. QED
      BY <1>3, <2>1, <2>2, <2>3, <2>4
  <1>4. ASSUME m = up, x = side PROVE t.kid[x][m] = k
    BY <1>1, <1>2, <1>4
  <1>5. QED
    BY <1>3, <1>4 DEF side

LEMMA AvLevelBoth ==
    ASSUME NEW t, NEW m, NEW s \in AvSide, NEW b, NEW G,
           G[t.kid[s][m]] \in Int, G[t.kid[-s][m]] \in Int,
           AvLevel(s, b, G[t.kid[s][m]], G[t.kid[-s][m]], G[m])
    PROVE  \A x \in AvSide : AvLevel(x, b, G[t.kid[x][m]], G[t.kid[-x][m]], G[m])
  <1>1. AvLevel(-s, b, G[t.kid[-s][m]], G[t.kid[s][m]], G[m])
    BY AvLevelTurns
  <1>2. -(-s) = s /\ \A x \in AvSide : x = s \/ x = -s
    BY AvSides
  <1>3. QED
    BY <1>1, <1>2

\* In the tree u and its heights G top has taken the place of n, with a subtree
\* e levels lower; only members of X have other children and heights than before.
AvReplaced(t, M, H, n, X, u, G, top, e) ==
    /\ X \in SUBSET M /\ n \in X /\ t.parent[n] \notin X
    /\ \A m \in M \ X : \A x \in AvSide : t.kid[x][m] \in X => t.kid[x][m] = n
    /\ \A m \in M \ X : \A x \in AvSide :
         u.kid[x][m] = IF t.kid[x][m] = n THEN top ELSE t.kid[x][m]
    /\ \A m \in M \ X : u.balance[m] = t.balance[m]
    /\ \A x \in AvLink \ X : G[x] = H[x]
    /\ G[top] = H[n] - e
    /\ \A m \in X : \A x \in AvSide :
         AvLevel(x, u.balance[m], G[u.kid[x][m]], G[u.kid[-x][m]], G[m])
    /\ \A m \in X : \A x \in AvSide : G[u.kid[x][m]] \in Int

\* Then only the parent of n sees amiss.
LEMMA AvAround ==
    ASSUME NEW t, NEW M, NEW U, AvOrdered(t, M, U), NEW n \in M, NEW X, NEW H,
           AvHeightsBut(t, M, H, X), NEW u, NEW G, AvHigh(M, G), NEW e \in Int, NEW top,
           AvReplaced(t, M, H, n, X, u, G, top, e)
    PROVE  AvHeights(u, M, G, t.parent[n], AvSideOf(t, t.parent[n], n), e)
  <1> DEFINE up == t.parent[n]
             side == AvSideOf(t, up, n)
  <1>1. \A x \in AvSide : -x \in AvSide /\ -x # x
    BY AvSides
  <1>10. X \in SUBSET M /\ n \in X /\ up \notin X
    BY DEF AvReplaced
  <1>11. \A m \in M \ X : \A x \in AvSide :
           /\ t.kid[x][m] \in X => t.kid[x][m] = n
           /\ u.kid[x][m] = IF t.kid[x][m] = n THEN top ELSE t.kid[x][m]
    BY DEF AvReplaced
  <1>12. /\ \A m \in M \ X : u.balance[m] = t.balance[m]
         /\ \A x \in AvLink \ X : G[x] = H[x]
         /\ G[top] = H[n] - e
    BY DEF AvReplaced
  <1>13. \A m \in X : \A x \in AvSide :
           /\ AvLevel(x, u.balance[m], G[u.kid[x][m]], G[u.kid[-x][m]], G[m])
           /\ G[u.kid[x][m]] \in Int
    BY DEF AvReplaced
  <1>2. ASSUME NEW m \in X, NEW x \in AvSide
        PROVE  AvLevel(x, u.balance[m], AvSeen(u, G, m, x, up, side, e),
                       AvSeen(u, G, m, -x, up, side, e), G[m])
    <2>1. m # up /\ -x \in AvSide
      BY <1>1, <1>2, <1>10
    <2>2. G[u.kid[x][m]] \in Int /\ G[u.kid[-x][m]] \in Int
      BY <1>2, <1>13, <2>1
    <2>3. /\ AvSeen(u, G, m, x, up, side, e) = G[u.kid[x][m]]
          /\ AvSeen(u, G, m, -x, up, side, e) = G[u.kid[-x][m]]
      BY <2>1, <2>2 DEF AvSeen
    <2>4. QED
      BY <1>2, <1>13, <2>3
  <1>3. ASSUME NEW m \in M \ X, NEW x \in AvSide
        PROVE  AvSeen(u, G, m, x, up, side, e) = H[t.kid[x][m]]
    <2>1. t.kid[x][m] \in AvLink /\ H[t.kid[x][m]] \in Int
      BY AvChildIs DEF AvHeightsBut, AvHigh
    <2>2. t.kid[x][m] = n <=> m = up /\ x = side
      BY AvHangsOnce
    <2>3. CASE t.kid[x][m] = n
      <3>1. u.kid[x][m] = top /\ m = up /\ x = side
        BY <1>11, <2>2, <2>3
      <3>2. AvSeen(u, G, m, x, up, side, e) = G[top] + e
        BY <3>1 DEF AvSeen
      <3>3. G[top] + e = H[n]
        BY <1>12, <2>1, <2>3, AvKeys DEF AvOrdered, AvHeightsBut, AvHigh
      <3>4. QED
        BY <2>3, <3>2, <3>3
    <2>4. CASE t.kid[x][m] # n
      <3>1. u.kid[x][m] = t.kid[x][m] /\ t.kid[x][m] \notin X /\ ~(m = up /\ x = side)
        BY <1>11, <2>2, <2>4
      <3>2. G[u.kid[x][m]] = H[t.kid[x][m]]
        BY <1>12, <2>1, <3>1
      <3>3. QED
        BY <2>1, <3>1, <3>2 DEF AvSeen
    <2>5. QED
      BY <2>3, <2>4
  <1>4. ASSUME NEW m \in M \ X, NEW x \in AvSide
        PROVE  AvLevel(x, u.balance[m], AvSeen(u, G, m, x, up, side, e),
                       AvSeen(u, G, m, -x, up, side, e), G[m])
    <2>1. AvLevel(x, t.balance[m], H[t.kid[x][m]], H[t.kid[-x][m]], H[m])
      BY DEF AvHeightsBut
    <2>2. u.balance[m] = t.balance[m] /\ G[m] = H[m]
      BY <1>12, AvKeys DEF AvOrdered
    <2>3. /\ AvSeen(u, G, m, x, up, side, e) = H[t.kid[x][m]]
          /\ AvSeen(u, G, m, -x, up, side, e) = H[t.kid[-x][m]]
      BY <1>1, <1>3
    <2>4. QED
      BY <2>1, <2>2, <2>3
  <1> HIDE DEF up, side
  <1>5. \A m \in M : \A x \in AvSide :
          AvLevel(x, u.balance[m], AvSeen(u, G, m, x, up, side, e), AvSeen(u, G, m, -x, up, side, e), G[m])
    BY <1>2, <1>4
  <1>6. AvHeights(u, M, G, up, side, e)
    BY <1>5 DEF AvHeights
  <1>7. QED
    BY <1>6 DEF up, side

LEMMA AvAlike ==
    ASSUME NEW t, NEW M, NEW U, AvOrdered(t, M, U), NEW v, v \in AvTree,
           v.kid = t.kid, v.parent = t.parent, v.root = t.root
    PROVE  AvOrdered(v, M, U)
  BY DEF AvOrdered, AvNode, AvEdge

\* What a rebalance leaves, when it makes the subtree of n e levels lower.
AvRebalanced(t, M, U, H, n, e, u) ==
    \E V, G : \E top \in M :
      /\ AvOrdered(u, M, V) /\ V[top] = U[n] /\ u.parent[top] = t.parent[n]
      /\ AvHeights(u, M, G, t.parent[n], AvSideOf(t, t.parent[n], n), e)
      /\ u.root = IF t.root = n THEN top ELSE t.root
      /\ G[u.root] = IF t.root = n THEN H[n] - e ELSE H[t.root]
      /\ u.end = t.end /\ u.height = t.height

\* One rotation.
LEMMA AvOnce ==
    ASSUME NEW t, NEW M, NEW U, AvOrdered(t, M, U), NEW n \in M, NEW s \in AvSide,
           NEW c, AvIs(c, t.kid[s][n]), c # AvNull, NEW X, AvIs(X, {n, c}),
           NEW H, AvHeightsBut(t, M, H, X),
           NEW v \in AvTree, v.kid = t.kid, v.parent = t.parent, v.root = t.root,
           v.end = t.end, v.height = t.height,
           \A m \in M \ X : v.balance[m] = t.balance[m],
           NEW hn \in Nat, NEW hc \in Nat,
           AvLevel(s, v.balance[n], H[t.kid[-s][c]], H[t.kid[-s][n]], hn),
           AvLevel(s, v.balance[c], H[t.kid[s][c]], hn, hc)
    PROVE  AvRebalanced(t, M, U, H, n, H[n] - hc, AvRotate(v, n, s))
  <1> DEFINE u == AvRotate(v, n, s)
             G == [x \in AvLink |-> IF x = n THEN hn ELSE IF x = c THEN hc ELSE H[x]]
  <1>1. /\ n \in AvKey /\ c \in AvKey \ {n} /\ c \in M /\ t.parent[c] = n
        /\ t.parent[n] \in AvLink \ {n, c} /\ t.kid[-s][c] \in AvLink \ {n, c}
        /\ -s \in AvSide /\ -s # s
    <2>1. AvTurnMet(t, M, n, s)
      BY AvTurnMeetsAt DEF AvIs
    <2>2. t.kid[s][n] = c
      BY Zenon DEF AvIs
    <2>3. QED
      BY <2>1, <2>2 DEF AvTurnMet
  <1>2. AvOrdered(v, M, U)
    BY AvAlike
  <1>3. AvTurned(v, M, n, s, u) /\ \E V : AvOrdered(u, M, V) /\ V[c] = U[n]
    BY <1>2, AvTurns DEF AvIs
  <1> HIDE DEF u
  <1>30. n \notin U[c] /\ t.kid[-s][n] # c
    BY <1>1, AvChildIs, Zenon DEF AvIs
  <1>31. \A x : x \in X <=> x = n \/ x = c
    BY DEF AvIs
  <1>32. /\ u.root = (IF v.root = n THEN c ELSE v.root)
         /\ u.kid[s][n] = v.kid[-s][c] /\ u.kid[-s][n] = v.kid[-s][n]
         /\ u.kid[-s][c] = n /\ u.kid[s][c] = v.kid[s][c]
         /\ u.parent[c] = v.parent[n]
         /\ u.balance = v.balance /\ u.end = v.end /\ u.height = v.height
    <2>1. c = v.kid[s][n] /\ AvTurned(v, M, n, s, u)
      BY <1>3 DEF AvIs
    <2>2. u.root = (IF v.root = n THEN c ELSE v.root)
      BY <2>1, Zenon DEF AvTurned
    <2>3. u.kid[s][n] = v.kid[-s][c] /\ u.kid[-s][n] = v.kid[-s][n]
      BY <2>1, Zenon DEF AvTurned
    <2>4. u.kid[-s][c] = n /\ u.kid[s][c] = v.kid[s][c]
      BY <2>1, Zenon DEF AvTurned
    <2>5. /\ u.parent[c] = v.parent[n]
          /\ u.balance = v.balance /\ u.end = v.end /\ u.height = v.height
      BY <2>1, Zenon DEF AvTurned
    <2>6. QED
      BY <2>2, <2>3, <2>4, <2>5
  <1>33. \A m \in M \ {n, c} : \A x \in AvSide :
             u.kid[x][m] = IF v.kid[x][m] = n THEN c ELSE v.kid[x][m]
    <2>1. c = v.kid[s][n] /\ AvTurned(v, M, n, s, u)
      BY <1>3 DEF AvIs
    <2>2. QED
      BY <2>1, Zenon DEF AvTurned
  <1>4. /\ u.root = IF t.root = n THEN c ELSE t.root
        /\ u.kid[s][n] = t.kid[-s][c] /\ u.kid[-s][n] = t.kid[-s][n]
        /\ u.kid[-s][c] = n /\ u.kid[s][c] = t.kid[s][c]
        /\ \A m \in M \ X : \A x \in AvSide :
             u.kid[x][m] = IF t.kid[x][m] = n THEN c ELSE t.kid[x][m]
        /\ u.parent[c] = t.parent[n]
        /\ u.balance = v.balance /\ u.end = t.end /\ u.height = t.height
    BY <1>31, <1>32, <1>33
  <1>5. t.kid[s][c] \in AvLink \ {n, c} /\ t.kid[-s][n] \in AvLink \ {n, c}
    <2>1. t.kid[s][c] \in AvLink /\ t.kid[s][c] # c
      BY <1>1, AvChildIs
    <2>2. t.kid[-s][n] \in AvLink /\ t.kid[-s][n] # n /\ t.kid[-s][n] # c
      BY <1>1, <1>30, AvChildIs
    <2>3. n \notin U[c]
      BY <1>30
    <2>4. U[t.kid[s][c]] \subseteq U[c] /\ (t.kid[s][c] # AvNull => t.kid[s][c] \in U[t.kid[s][c]])
      <3>1. U[t.kid[s][c]] \subseteq U[c]
        BY <1>1, AvChildIs
      <3>2. t.kid[s][c] # AvNull => t.kid[s][c] \in U[t.kid[s][c]]
        BY <1>1, AvChildIs
      <3>3. QED
        BY <3>1, <3>2
    <2>5. n # AvNull
      BY <1>1, AvKeys
    <2>6. QED
      BY <2>1, <2>2, <2>3, <2>4, <2>5
  <1>6. AvHigh(M, H) /\ H \in [AvLink -> Int]
    BY DEF AvHeightsBut, AvHigh
  <1>7. /\ G \in [AvLink -> Int] /\ G[n] = hn /\ G[c] = hc
        /\ \A x \in AvLink \ X : G[x] = H[x]
    BY <1>1, <1>6, <1>31, AvKeys
  <1> HIDE DEF G
  <1>8. AvHigh(M, G)
    <2>1. M \subseteq AvLink /\ AvNull \in AvLink \ X
      BY <1>1, <1>31, AvKeys DEF AvOrdered
    <2>2. QED
      BY <1>6, <1>7, <1>31, <2>1 DEF AvHigh
  <1>9. \A m \in M \ X : \A x \in AvSide : t.kid[x][m] \in X => t.kid[x][m] = n
    <2>1. SUFFICES ASSUME NEW m \in M \ X, NEW x \in AvSide, t.kid[x][m] = c PROVE FALSE
      BY <1>31
    <2>2. t.kid[x][m] # AvNull => t.parent[t.kid[x][m]] = m
      BY <2>1, AvBelow
    <2>3. QED
      BY <1>1, <1>31, <2>1, <2>2
  <1>10. \A m \in X : \A x \in AvSide :
           AvLevel(x, u.balance[m], G[u.kid[x][m]], G[u.kid[-x][m]], G[m])
    <2>1. /\ G[u.kid[s][n]] = H[t.kid[-s][c]] /\ G[u.kid[-s][n]] = H[t.kid[-s][n]]
          /\ G[u.kid[s][c]] = H[t.kid[s][c]] /\ G[u.kid[-s][c]] = hn
      BY <1>1, <1>4, <1>5, <1>7, <1>31
    <2>2. /\ G[u.kid[s][n]] \in Int /\ G[u.kid[-s][n]] \in Int
          /\ G[u.kid[s][c]] \in Int /\ G[u.kid[-s][c]] \in Int
      BY <1>1, <1>5, <1>6, <2>1
    <2>3. \A x \in AvSide : AvLevel(x, u.balance[n], G[u.kid[x][n]], G[u.kid[-x][n]], G[n])
      <3>1. AvLevel(s, u.balance[n], G[u.kid[s][n]], G[u.kid[-s][n]], G[n])
        BY <1>4, <1>7, <2>1
      <3>2. QED
        BY <2>2, <3>1, AvLevelBoth
    <2>4. \A x \in AvSide : AvLevel(x, u.balance[c], G[u.kid[x][c]], G[u.kid[-x][c]], G[c])
      <3>1. AvLevel(s, u.balance[c], G[u.kid[s][c]], G[u.kid[-s][c]], G[c])
        BY <1>4, <1>7, <2>1
      <3>2. QED
        BY <2>2, <3>1, AvLevelBoth
    <2>5. QED
      BY <1>31, <2>3, <2>4
  <1>11. \A m \in X : \A x \in AvSide : G[u.kid[x][m]] \in Int
    <2>1. PICK V : AvOrdered(u, M, V)
      BY <1>3
    <2>2. \A m \in M : \A x \in AvSide : u.kid[x][m] \in AvLink
      BY <2>1, AvChildIs
    <2>3. QED
      BY <1>1, <1>7, <1>31, <2>2
  <1>12. H[n] - hc \in Int /\ G[c] = H[n] - (H[n] - hc)
    BY <1>1, <1>6, <1>7, AvKeys
  <1>13. AvHeights(u, M, G, t.parent[n], AvSideOf(t, t.parent[n], n), H[n] - hc)
    <2>1. X \in SUBSET M /\ n \in X /\ t.parent[n] \notin X
      BY <1>1, <1>31
    <2>2. \A m \in M \ X : \A x \in AvSide :
             /\ t.kid[x][m] \in X => t.kid[x][m] = n
             /\ u.kid[x][m] = IF t.kid[x][m] = n THEN c ELSE t.kid[x][m]
      BY <1>4, <1>9
    <2>3. \A m \in M \ X : u.balance[m] = t.balance[m]
      BY <1>4
    <2> DEFINE e == H[n] - hc
    <2>4. e \in Int /\ G[c] = H[n] - e
      BY <1>12
    <2> HIDE DEF e
    <2>7. AvReplaced(t, M, H, n, X, u, G, c, e)
      BY <2>1, <2>2, <2>3, <2>4, <1>7, <1>10, <1>11 DEF AvReplaced
    <2>5. AvHeights(u, M, G, t.parent[n], AvSideOf(t, t.parent[n], n), e)
      BY <2>4, <2>7, <1>8, AvAround
    <2>6. QED
      BY <2>5 DEF e
  <1>14. G[u.root] = IF t.root = n THEN H[n] - (H[n] - hc) ELSE H[t.root]
    <2>1. t.root # c
      BY <1>1, AvKeys DEF AvOrdered
    <2>2. t.root \in AvLink
      BY AvTreeFields DEF AvOrdered
    <2>3. QED
      BY <1>4, <1>7, <1>12, <1>31, <2>1, <2>2
  <1>15. PICK V : AvOrdered(u, M, V) /\ V[c] = U[n]
    BY <1>3
  <1>16. QED
    BY <1>1, <1>4, <1>13, <1>14, <1>15 DEF AvRebalanced, u

\* Two rotations.
LEMMA AvTwice ==
    ASSUME NEW t, NEW M, NEW U, AvOrdered(t, M, U), NEW n \in M, NEW s \in AvSide,
           NEW c, AvIs(c, t.kid[s][n]), NEW g, AvIs(g, t.kid[-s][c]), c # AvNull, g # AvNull,
           NEW X, AvIs(X, {n, c, g}), NEW H, AvHeightsBut(t, M, H, X),
           NEW v \in AvTree, v.kid = t.kid, v.parent = t.parent, v.root = t.root,
           v.end = t.end, v.height = t.height,
           \A m \in M \ X : v.balance[m] = t.balance[m],
           NEW hn \in Nat, NEW hc \in Nat, NEW hg \in Nat,
           AvLevel(s, v.balance[n], H[t.kid[-s][g]], H[t.kid[-s][n]], hn),
           AvLevel(s, v.balance[c], H[t.kid[s][c]], H[t.kid[s][g]], hc),
           AvLevel(s, v.balance[g], hc, hn, hg)
    PROVE  AvRebalanced(t, M, U, H, n, H[n] - hg, AvRotate(AvRotate(v, c, -s), n, s))
  <1> DEFINE u == AvTwist(v, n, s)
             G == [x \in AvLink |-> IF x = n THEN hn ELSE IF x = c THEN hc
                                    ELSE IF x = g THEN hg ELSE H[x]]
  <1>1. /\ c \in M \ {n} /\ g \in M \ {n, c} /\ t.parent[c] = n /\ t.parent[g] = c
        /\ t.parent[n] \notin {n, c, g} /\ -s \in AvSide /\ -s # s
        /\ \A x \in AvSide : t.kid[x][g] \notin {n, c, g}
    <2>1. AvMet(t, M, n, s, c, g)
      BY AvTwistMeets, Zenon
    <2>2. QED
      BY <2>1, Zenon DEF AvMet
  <1>2. AvOrdered(v, M, U)
    BY AvAlike, Zenon
  <1>3. AvTwisted(v, M, n, s, u) /\ \E V : AvOrdered(u, M, V) /\ V[g] = U[n]
    <2>1. c = v.kid[s][n] /\ g = v.kid[-s][c]
      BY Zenon DEF AvIs
    <2> HIDE DEF u
    <2>2. v.kid[s][n] # AvNull /\ v.kid[-s][v.kid[s][n]] # AvNull
      BY <2>1
    <2>3. AvTwisted(v, M, n, s, u)
      BY <1>2, <2>2, AvTwists DEF u
    <2>4. \E V : AvOrdered(u, M, V) /\ V[v.kid[-s][v.kid[s][n]]] = U[n]
      BY <1>2, <2>2, AvTwists DEF u
    <2>6. v.kid[-s][v.kid[s][n]] = g
      BY <2>1
    <2>5. QED
      BY <2>3, <2>4, <2>6
  <1> HIDE DEF u
  <1>30. n \notin U[c] /\ t.kid[-s][n] # c
    BY <1>1, AvChildIs, Zenon DEF AvIs
  <1>31. \A x : x \in X <=> x = n \/ x = c \/ x = g
    BY Zenon DEF AvIs
  <1>32. t.kid[-s][c] = g
    BY Zenon DEF AvIs
  <1>33. c = v.kid[s][n] /\ g = v.kid[-s][c] /\ AvTwisted(v, M, n, s, u)
    BY <1>3, Zenon DEF AvIs
  <1>34. /\ u.root = (IF v.root = n THEN g ELSE v.root)
         /\ u.kid[s][n] = v.kid[-s][g] /\ u.kid[-s][n] = v.kid[-s][n]
         /\ u.kid[-s][c] = v.kid[s][g] /\ u.kid[s][c] = v.kid[s][c]
         /\ u.kid[-s][g] = n /\ u.kid[s][g] = c
    <2>1. u.root = (IF v.root = n THEN g ELSE v.root)
      BY <1>33, Zenon DEF AvTwisted
    <2>2. u.kid[s][n] = v.kid[-s][g] /\ u.kid[-s][n] = v.kid[-s][n]
      BY <1>33, Zenon DEF AvTwisted
    <2>3. u.kid[-s][c] = v.kid[s][g] /\ u.kid[s][c] = v.kid[s][c]
      BY <1>33, Zenon DEF AvTwisted
    <2>4. u.kid[-s][g] = n /\ u.kid[s][g] = c
      BY <1>33, Zenon DEF AvTwisted
    <2>5. QED
      BY <2>1, <2>2, <2>3, <2>4
  <1>35. /\ u.parent[g] = v.parent[n]
         /\ u.balance = v.balance /\ u.end = v.end /\ u.height = v.height
    <2>1. QED
      BY <1>33, Zenon DEF AvTwisted
  <1>36. \A m \in M \ {n, c, g} : \A x \in AvSide :
             u.kid[x][m] = IF v.kid[x][m] = n THEN g ELSE v.kid[x][m]
    <2>1. QED
      BY <1>33, Zenon DEF AvTwisted
  <1>4. /\ u.root = IF t.root = n THEN g ELSE t.root
        /\ u.kid[s][n] = t.kid[-s][g] /\ u.kid[-s][n] = t.kid[-s][n]
        /\ u.kid[-s][c] = t.kid[s][g] /\ u.kid[s][c] = t.kid[s][c]
        /\ u.kid[-s][g] = n /\ u.kid[s][g] = c
        /\ \A m \in M \ X : \A x \in AvSide :
             u.kid[x][m] = IF t.kid[x][m] = n THEN g ELSE t.kid[x][m]
        /\ u.parent[g] = t.parent[n]
        /\ u.balance = v.balance /\ u.end = t.end /\ u.height = t.height
    BY <1>31, <1>34, <1>35, <1>36
  <1>5. /\ t.kid[s][g] \in AvLink \ X /\ t.kid[-s][g] \in AvLink \ X
        /\ t.kid[s][c] \in AvLink \ X /\ t.kid[-s][n] \in AvLink \ X
    <2>1. t.kid[s][g] \in AvLink /\ t.kid[-s][g] \in AvLink
      BY <1>1, AvChildIs
    <2>2. t.kid[s][c] \in AvLink /\ t.kid[s][c] # c
      BY <1>1, AvChildIs
    <2>3. t.kid[-s][n] \in AvLink /\ t.kid[-s][n] # n
      BY <1>1, AvChildIs
    <2>4. U[t.kid[s][c]] \subseteq U[c]
      BY <1>1, AvChildIs
    <2>5. t.kid[s][c] # AvNull => t.kid[s][c] \in U[t.kid[s][c]] /\ t.parent[t.kid[s][c]] = c
      <3>1. t.kid[s][c] # AvNull => t.kid[s][c] \in U[t.kid[s][c]]
        BY <1>1, AvChildIs
      <3>2. t.kid[s][c] # AvNull => t.parent[t.kid[s][c]] = c
        BY <1>1, AvBelow
      <3>3. QED
        BY <3>1, <3>2
    <2>6. t.kid[-s][n] # AvNull => t.parent[t.kid[-s][n]] = n
      BY <1>1, AvBelow
    <2>7. n # AvNull /\ g # AvNull
      BY <1>1, AvKeys DEF AvOrdered
    <2>8. t.kid[s][c] # AvNull => t.kid[s][c] # t.kid[-s][c]
      BY <1>1, AvChildIs
    <2>9. t.kid[s][c] # g /\ t.kid[s][c] # n
      BY <1>30, <1>32, <2>4, <2>5, <2>7, <2>8
    <2>10. t.kid[-s][n] # g
      BY <1>1, <2>6, <2>7
    <2>11. QED
      BY <1>1, <1>30, <1>31, <2>1, <2>2, <2>3, <2>9, <2>10
  <1>6. AvHigh(M, H) /\ H \in [AvLink -> Int]
    BY DEF AvHeightsBut, AvHigh
  <1>7. /\ G \in [AvLink -> Int] /\ G[n] = hn /\ G[c] = hc /\ G[g] = hg
        /\ \A x \in AvLink \ X : G[x] = H[x]
    BY <1>1, <1>6, <1>31, AvKeys DEF AvOrdered
  <1> HIDE DEF G
  <1>8. AvHigh(M, G)
    <2>1. M \subseteq AvLink /\ AvNull \in AvLink \ X
      BY <1>1, <1>31, AvKeys DEF AvOrdered
    <2>2. QED
      BY <1>6, <1>7, <1>31, <2>1 DEF AvHigh
  <1>9. \A m \in M \ X : \A x \in AvSide : t.kid[x][m] \in X => t.kid[x][m] = n
    <2>1. SUFFICES ASSUME NEW m \in M \ X, NEW x \in AvSide, t.kid[x][m] = c \/ t.kid[x][m] = g
                   PROVE  FALSE
      BY <1>31
    <2>2. t.kid[x][m] # AvNull => t.parent[t.kid[x][m]] = m
      BY <2>1, AvBelow
    <2>3. g # AvNull
      BY <1>1, AvKeys DEF AvOrdered
    <2>4. QED
      BY <1>1, <1>31, <2>1, <2>2, <2>3
  <1>10. \A m \in X : \A x \in AvSide :
           AvLevel(x, u.balance[m], G[u.kid[x][m]], G[u.kid[-x][m]], G[m])
    <2>1. /\ G[u.kid[s][n]] = H[t.kid[-s][g]] /\ G[u.kid[-s][n]] = H[t.kid[-s][n]]
          /\ G[u.kid[s][c]] = H[t.kid[s][c]] /\ G[u.kid[-s][c]] = H[t.kid[s][g]]
          /\ G[u.kid[s][g]] = hc /\ G[u.kid[-s][g]] = hn
      BY <1>4, <1>5, <1>7
    <2>2. /\ G[u.kid[s][n]] \in Int /\ G[u.kid[-s][n]] \in Int
          /\ G[u.kid[s][c]] \in Int /\ G[u.kid[-s][c]] \in Int
          /\ G[u.kid[s][g]] \in Int /\ G[u.kid[-s][g]] \in Int
      BY <1>5, <1>6, <2>1
    <2>3. \A x \in AvSide : AvLevel(x, u.balance[n], G[u.kid[x][n]], G[u.kid[-x][n]], G[n])
      <3>1. AvLevel(s, u.balance[n], G[u.kid[s][n]], G[u.kid[-s][n]], G[n])
        BY <1>4, <1>7, <2>1
      <3>2. QED
        BY <2>2, <3>1, AvLevelBoth
    <2>4. \A x \in AvSide : AvLevel(x, u.balance[c], G[u.kid[x][c]], G[u.kid[-x][c]], G[c])
      <3>1. AvLevel(s, u.balance[c], G[u.kid[s][c]], G[u.kid[-s][c]], G[c])
        BY <1>4, <1>7, <2>1
      <3>2. QED
        BY <2>2, <3>1, AvLevelBoth
    <2>5. \A x \in AvSide : AvLevel(x, u.balance[g], G[u.kid[x][g]], G[u.kid[-x][g]], G[g])
      <3>1. AvLevel(s, u.balance[g], G[u.kid[s][g]], G[u.kid[-s][g]], G[g])
        BY <1>4, <1>7, <2>1
      <3>2. QED
        BY <2>2, <3>1, AvLevelBoth
    <2>6. QED
      BY <1>31, <2>3, <2>4, <2>5
  <1>11. \A m \in X : \A x \in AvSide : G[u.kid[x][m]] \in Int
    <2>1. PICK V : AvOrdered(u, M, V)
      BY <1>3
    <2>2. \A m \in M : \A x \in AvSide : u.kid[x][m] \in AvLink
      BY <2>1, AvChildIs
    <2>3. QED
      BY <1>1, <1>7, <1>31, <2>2
  <1>12. H[n] - hg \in Int /\ G[g] = H[n] - (H[n] - hg)
    BY <1>1, <1>6, <1>7, AvKeys DEF AvOrdered
  <1>13. AvHeights(u, M, G, t.parent[n], AvSideOf(t, t.parent[n], n), H[n] - hg)
    <2>1. X \in SUBSET M /\ n \in X /\ t.parent[n] \notin X
      BY <1>1, <1>31
    <2>2. \A m \in M \ X : \A x \in AvSide :
             /\ t.kid[x][m] \in X => t.kid[x][m] = n
             /\ u.kid[x][m] = IF t.kid[x][m] = n THEN g ELSE t.kid[x][m]
      BY <1>4, <1>9
    <2>3. \A m \in M \ X : u.balance[m] = t.balance[m]
      BY <1>4
    <2> DEFINE e == H[n] - hg
    <2>4. e \in Int /\ G[g] = H[n] - e
      BY <1>12
    <2> HIDE DEF e
    <2>5. AvReplaced(t, M, H, n, X, u, G, g, e)
      BY <2>1, <2>2, <2>3, <2>4, <1>7, <1>10, <1>11 DEF AvReplaced
    <2>6. AvHeights(u, M, G, t.parent[n], AvSideOf(t, t.parent[n], n), e)
      BY <2>4, <2>5, <1>8, AvAround
    <2>7. QED
      BY <2>6 DEF e
  <1>14. G[u.root] = IF t.root = n THEN H[n] - (H[n] - hg) ELSE H[t.root]
    <2>1. t.root # c /\ t.root # g
      BY <1>1, AvKeys DEF AvOrdered
    <2>2. t.root \in AvLink
      BY AvTreeFields DEF AvOrdered
    <2>3. QED
      BY <1>4, <1>7, <1>12, <1>31, <2>1, <2>2
  <1>15. PICK V : AvOrdered(u, M, V) /\ V[g] = U[n]
    BY <1>3
  <1>16. AvRebalanced(t, M, U, H, n, H[n] - hg, u)
    BY <1>1, <1>4, <1>13, <1>14, <1>15 DEF AvRebalanced
  <1>17. u = AvRotate(AvRotate(v, c, -s), n, s)
    BY <1>33, Zenon DEF u, AvTwist
  <1>18. QED
    BY <1>16, <1>17

AvSameShape(t, v) ==
    /\ v \in AvTree /\ v.kid = t.kid /\ v.parent = t.parent /\ v.root = t.root
    /\ v.end = t.end /\ v.height = t.height

AvPut(t, n, b) == [t EXCEPT !.balance[n] = b]

AvHasPut(t, n, b, u) == \A m \in AvKey : u.balance[m] = IF m = n THEN b ELSE t.balance[m]

LEMMA AvPutIs ==
    ASSUME NEW t \in AvTree, NEW n \in AvKey, NEW b \in -2 .. 2
    PROVE  /\ AvPut(t, n, b) \in AvTree /\ AvSameShape(t, AvPut(t, n, b))
           /\ AvHasPut(t, n, b, AvPut(t, n, b))
  <1>1. AvPut(t, n, b) \in AvTree /\ AvSameShape(t, AvPut(t, n, b))
    BY DEF AvTree, AvSameShape, AvPut
  <1>2. AvHasPut(t, n, b, AvPut(t, n, b))
    BY DEF AvTree, AvHasPut, AvPut
  <1>3. QED
    BY <1>1, <1>2

AvHasTwo(t, n, b, c, d, u) ==
    \A m \in AvKey : u.balance[m] = IF m = n THEN b ELSE IF m = c THEN d ELSE t.balance[m]

AvHasThree(t, n, b, c, d, g, e, u) ==
    \A m \in AvKey :
      u.balance[m] = IF m = n THEN b ELSE IF m = c THEN d ELSE IF m = g THEN e ELSE t.balance[m]

LEMMA AvPutTwice ==
    ASSUME NEW t \in AvTree, NEW n \in AvKey, NEW c \in AvKey, n # c, NEW b \in -2 .. 2, NEW d \in -2 .. 2,
           NEW v, AvIs(v, [t EXCEPT !.balance[n] = b, !.balance[c] = d])
    PROVE  AvSameShape(t, v) /\ AvHasTwo(t, n, b, c, d, v)
  <1> DEFINE w == AvPut(t, n, b)
  <1>1. v = AvPut(w, c, d)
    BY DEF AvIs, AvPut
  <1> HIDE DEF w
  <1>2. w \in AvTree /\ AvSameShape(t, w)
    BY AvPutIs DEF w
  <1>3. AvHasPut(t, n, b, w)
    BY AvPutIs DEF w
  <1>4. AvSameShape(w, v)
    BY <1>1, <1>2, AvPutIs
  <1>5. AvHasPut(w, c, d, v)
    BY <1>1, <1>2, AvPutIs
  <1>6. AvSameShape(t, v)
    BY <1>2, <1>4 DEF AvSameShape
  <1>7. QED
    BY <1>3, <1>5, <1>6 DEF AvHasPut, AvHasTwo

LEMMA AvPutThrice ==
    ASSUME NEW t \in AvTree, NEW n \in AvKey, NEW c \in AvKey, NEW g \in AvKey, n # c, g # n, g # c,
           NEW b \in -2 .. 2, NEW d \in -2 .. 2, NEW e \in -2 .. 2,
           NEW v, AvIs(v, [t EXCEPT !.balance[n] = b, !.balance[c] = d, !.balance[g] = e])
    PROVE  AvSameShape(t, v) /\ AvHasThree(t, n, b, c, d, g, e, v)
  <1> DEFINE w == AvPut(t, n, b)
             x == AvPut(w, c, d)
  <1>1. v = AvPut(x, g, e)
    BY DEF AvIs, AvPut
  <1> HIDE DEF x
  <1> HIDE DEF w
  <1>2. w \in AvTree /\ AvSameShape(t, w)
    BY AvPutIs DEF w
  <1>3. AvHasPut(t, n, b, w)
    BY AvPutIs DEF w
  <1>4. x \in AvTree /\ AvSameShape(w, x)
    BY <1>2, AvPutIs DEF x
  <1>5. AvHasPut(w, c, d, x)
    BY <1>2, AvPutIs DEF x
  <1>6. AvSameShape(x, v)
    BY <1>1, <1>4, AvPutIs
  <1>7. AvHasPut(x, g, e, v)
    BY <1>1, <1>4, AvPutIs
  <1>8. AvSameShape(t, v)
    BY <1>2, <1>4, <1>6 DEF AvSameShape
  <1>9. QED
    BY <1>3, <1>5, <1>7, <1>8 DEF AvHasPut, AvHasThree

\* The arithmetic of the two kinds of rebalance, with h the height of the low side.
LEMMA AvOnceLevels ==
    ASSUME NEW s \in AvSide, NEW h \in Int, NEW far \in Int, NEW near \in Int,
           AvLevel(s, s, far, near, h + 2)
    PROVE  AvLevel(s, 0, near, h, h + 1) /\ AvLevel(s, 0, far, h + 1, h + 2)
  BY DEF AvLevel, AvSide

LEMMA AvTwiceLevels ==
    ASSUME NEW s \in AvSide, NEW h \in Int, NEW far \in Int, NEW near \in Int, NEW b,
           NEW x \in Int, NEW y \in Int,
           AvLevel(s, -s, far, near, h + 2), AvLevel(s, b, x, y, near)
    PROVE  /\ AvLevel(s, IF b = s THEN -s ELSE 0, y, h, h + 1)
           /\ AvLevel(s, IF b = -s THEN s ELSE 0, far, x, h + 1)
           /\ AvLevel(s, 0, h + 1, h + 1, h + 2)
           /\ near = h + 1
  <1>1. CASE s = 1
    BY <1>1 DEF AvLevel, AvSide
  <1>2. CASE s = -1
    BY <1>2 DEF AvLevel, AvSide
  <1>3. QED
    BY <1>1, <1>2 DEF AvSide

\* A rebalance makes the subtree as high as its low side and two.
LEMMA AvRebalances ==
    ASSUME NEW t, NEW M, NEW U, AvOrdered(t, M, U), NEW n \in M, NEW s \in AvSide,
           NEW H, AvHeightsBut(t, M, H, {n}),
           NEW h, h = H[t.kid[-s][n]], H[t.kid[s][n]] = h + 2,
           t.balance[t.kid[s][n]] # 0
    PROVE  AvRebalanced(t, M, U, H, n, H[n] - (h + 2), AvRebalance(t, n, s))
  <1> DEFINE c == t.kid[s][n]
             g == t.kid[-s][c]
  <1>1. AvHigh(M, H) /\ H \in [AvLink -> Int] /\ H[AvNull] = -1 /\ \A m \in M : H[m] >= 0
    BY DEF AvHeightsBut, AvHigh
  <1>2. -s \in AvSide /\ -s # s /\ -(-s) = s
    BY AvSides
  <1>3. h \in Int /\ h >= -1
    <2>1. t.kid[-s][n] \in AvLink /\ (t.kid[-s][n] # AvNull => t.kid[-s][n] \in M)
      BY <1>2, AvChildIs, AvBelow
    <2>2. QED
      BY <1>1, <2>1
  <1>4. c # AvNull /\ c \in M /\ H[c] = h + 2
    <2>1. c # AvNull
      BY <1>1, <1>3
    <2>2. QED
      BY <2>1, AvBelow
  <1>5. t \in AvTree /\ n \in AvKey /\ c \in AvKey \ {n} /\ M \subseteq AvKey
    <2>1. n \in AvKey /\ c \in AvKey \ {n}
      BY <1>4, AvTurnMeets
    <2>2. QED
      BY <2>1 DEF AvOrdered
  <1> HIDE DEF c
  <1>6. AvLevel(s, t.balance[c], H[t.kid[s][c]], H[g], h + 2)
    BY <1>4, <1>5 DEF AvHeightsBut
  <1>7. t.kid[s][c] \in AvLink /\ g \in AvLink /\ t.kid[-s][n] \in AvLink
    <2>1. t.kid[s][c] \in AvLink
      BY <1>4, AvChildIs
    <2>2. g \in AvLink
      BY <1>2, <1>4, AvChildIs
    <2>3. t.kid[-s][n] \in AvLink
      BY <1>2, AvChildIs
    <2>4. QED
      BY <2>1, <2>2, <2>3
  <1>8. t.balance[c] \in AvSide
    BY <1>6 DEF AvLevel, AvSide, c
  <1>9. CASE t.balance[c] = s
    <2> DEFINE v == [t EXCEPT !.balance[n] = 0, !.balance[c] = 0]
    <2>1. AvSameShape(t, v) /\ AvHasTwo(t, n, 0, c, 0, v)
      <3>1. v = [t EXCEPT !.balance[n] = 0, !.balance[c] = 0] /\ 0 \in -2 .. 2
        OBVIOUS
      <3> HIDE DEF v
      <3>2. n # c /\ c \in AvKey
        BY <1>5
      <3>3. QED
        BY <1>5, <3>1, <3>2, AvPutTwice, Zenon DEF AvIs
    <2>2. AvRebalance(t, n, s) = AvRotate(v, n, s)
      BY <1>9 DEF AvRebalance, c
    <2> HIDE DEF v, g
    <2>3. /\ v \in AvTree /\ v.kid = t.kid /\ v.parent = t.parent /\ v.root = t.root
          /\ v.end = t.end /\ v.height = t.height
      BY <2>1 DEF AvSameShape
    <2>4. v.balance[n] = 0 /\ v.balance[c] = 0 /\ \A m \in M \ {n, c} : v.balance[m] = t.balance[m]
      BY <1>5, <2>1 DEF AvHasTwo
    <2>5. AvLevel(s, 0, H[g], h, h + 1) /\ AvLevel(s, 0, H[t.kid[s][c]], h + 1, h + 2)
      BY <1>1, <1>3, <1>6, <1>7, <1>9, AvOnceLevels
    <2>6. h + 1 \in Nat /\ h + 2 \in Nat
      BY <1>3
    <2>7. AvHeightsBut(t, M, H, {n, c})
      BY DEF AvHeightsBut
    <2>8. AvLevel(s, v.balance[n], H[t.kid[-s][c]], H[t.kid[-s][n]], h + 1)
      BY <2>4, <2>5 DEF g
    <2>9. AvLevel(s, v.balance[c], H[t.kid[s][c]], h + 1, h + 2)
      BY <2>4, <2>5
    <2> DEFINE hn == h + 1
               hc == h + 2
    <2>10. hn \in Nat /\ hc \in Nat
      BY <2>6
    <2>11. AvLevel(s, v.balance[n], H[t.kid[-s][c]], H[t.kid[-s][n]], hn)
      BY <2>8
    <2>12. AvLevel(s, v.balance[c], H[t.kid[s][c]], hn, hc)
      BY <2>9
    <2>13. c = t.kid[s][n]
      BY DEF c
    <2> HIDE DEF hn, hc
    <2>14. AvRebalanced(t, M, U, H, n, H[n] - hc, AvRotate(v, n, s))
      BY <1>4, <2>3, <2>4, <2>7, <2>10, <2>11, <2>12, <2>13, AvOnce, Zenon DEF AvIs
    <2>15. QED
      BY <2>2, <2>14 DEF hc
  <1>10. CASE t.balance[c] # s
    <2>1. t.balance[c] = -s
      BY <1>8, <1>10, AvSides
    <2>2. H[g] \in Int /\ H[t.kid[s][c]] \in Int
      BY <1>1, <1>7
    <2>3. g # AvNull /\ g \in M /\ g \in AvKey \ {n, c} /\ t.kid[s][g] \in AvLink /\ t.kid[-s][g] \in AvLink
      <3>1. g # AvNull
        BY <1>1, <1>3, <1>6, <2>1, <2>2 DEF AvLevel, AvSide
      <3>2. AvMet(t, M, n, s, c, g)
        BY <1>4, <3>1, AvTwistMeets DEF AvIs, c
      <3>3. g \in M \ {n, c}
        BY <3>2 DEF AvMet
      <3>4. t.kid[s][g] \in AvLink /\ t.kid[-s][g] \in AvLink
        BY <1>2, <3>3, AvChildIs
      <3>5. QED
        BY <1>5, <3>1, <3>3, <3>4
    <2> DEFINE bn == IF t.balance[g] = s THEN -s ELSE 0
               bc == IF t.balance[g] = -s THEN s ELSE 0
               v == [t EXCEPT !.balance[n] = bn, !.balance[c] = bc, !.balance[g] = 0]
    <2>4. bn \in -2 .. 2 /\ bc \in -2 .. 2 /\ 0 \in -2 .. 2
      BY DEF AvSide
    <2>5. AvRebalance(t, n, s) = AvRotate(AvRotate(v, c, -s), n, s)
      BY <1>10 DEF AvRebalance, c
    <2> HIDE DEF g
    <2> HIDE DEF bn, bc
    <2>6. AvSameShape(t, v) /\ AvHasThree(t, n, bn, c, bc, g, 0, v)
      <3>1. v = [t EXCEPT !.balance[n] = bn, !.balance[c] = bc, !.balance[g] = 0]
        OBVIOUS
      <3> HIDE DEF v
      <3>2. n # c /\ g # n /\ g # c /\ c \in AvKey /\ g \in AvKey
        BY <1>5, <2>3
      <3>3. QED
        BY <1>5, <2>4, <3>1, <3>2, AvPutThrice, Zenon DEF AvIs
    <2> HIDE DEF v
    <2>7. /\ v \in AvTree /\ v.kid = t.kid /\ v.parent = t.parent /\ v.root = t.root
          /\ v.end = t.end /\ v.height = t.height
      BY <2>6 DEF AvSameShape
    <2>8. v.balance[n] = bn /\ v.balance[c] = bc /\ v.balance[g] = 0
      BY <1>5, <2>3, <2>6 DEF AvHasThree
    <2>9. \A m \in M \ {n, c, g} : v.balance[m] = t.balance[m]
      BY <1>5, <2>6 DEF AvHasThree
    <2>10. AvLevel(s, t.balance[g], H[t.kid[s][g]], H[t.kid[-s][g]], H[g])
      BY <2>3 DEF AvHeightsBut
    <2>11. H[t.kid[s][g]] \in Int /\ H[t.kid[-s][g]] \in Int
      BY <1>1, <2>3
    <2>12. /\ AvLevel(s, bn, H[t.kid[-s][g]], h, h + 1)
           /\ AvLevel(s, bc, H[t.kid[s][c]], H[t.kid[s][g]], h + 1)
           /\ AvLevel(s, 0, h + 1, h + 1, h + 2)
      <3>1. AvLevel(s, -s, H[t.kid[s][c]], H[g], h + 2)
        BY <1>6, <2>1
      <3>2. AvLevel(s, bn, H[t.kid[-s][g]], h, h + 1)
        <4> DEFINE b == t.balance[g]
                   x == H[t.kid[s][g]]
                   y == H[t.kid[-s][g]]
        <4>1. x \in Int /\ y \in Int /\ AvLevel(s, b, x, y, H[g])
          BY <2>10, <2>11
        <4>2. bn = IF b = s THEN -s ELSE 0
          BY DEF bn
        <4> HIDE DEF b, x, y
        <4>3. AvLevel(s, IF b = s THEN -s ELSE 0, y, h, h + 1)
          BY <1>3, <2>2, <3>1, <4>1, AvTwiceLevels
        <4>4. AvLevel(s, bn, y, h, h + 1)
          BY <4>2, <4>3
        <4>5. QED
          BY <4>4 DEF y
      <3>3. AvLevel(s, bc, H[t.kid[s][c]], H[t.kid[s][g]], h + 1) /\ AvLevel(s, 0, h + 1, h + 1, h + 2)
        <4> DEFINE b == t.balance[g]
                   x == H[t.kid[s][g]]
                   y == H[t.kid[-s][g]]
                   z == H[t.kid[s][c]]
        <4>1. x \in Int /\ y \in Int /\ AvLevel(s, b, x, y, H[g]) /\ AvLevel(s, -s, z, H[g], h + 2)
          BY <2>10, <2>11, <3>1
        <4>2. bc = IF b = -s THEN s ELSE 0
          BY DEF bc
        <4>3. z \in Int /\ H[g] \in Int
          BY <2>2
        <4> HIDE DEF b, x, y, z
        <4>4. AvLevel(s, IF b = -s THEN s ELSE 0, z, x, h + 1)
          BY <1>3, <4>1, <4>3, AvTwiceLevels
        <4>5. AvLevel(s, 0, h + 1, h + 1, h + 2)
          BY <1>3, <4>1, <4>3, AvTwiceLevels
        <4>6. AvLevel(s, bc, z, x, h + 1)
          BY <4>2, <4>4
        <4>7. QED
          BY <4>5, <4>6 DEF x, z
      <3>5. QED
        BY <3>2, <3>3
    <2> DEFINE hn == h + 1
               hg == h + 2
    <2>13. hn \in Nat /\ hg \in Nat
      BY <1>3
    <2>14. AvLevel(s, v.balance[n], H[t.kid[-s][g]], H[t.kid[-s][n]], hn)
      BY <2>8, <2>12
    <2>15. AvLevel(s, v.balance[c], H[t.kid[s][c]], H[t.kid[s][g]], hn)
      BY <2>8, <2>12
    <2>16. AvLevel(s, v.balance[g], hn, hn, hg)
      BY <2>8, <2>12
    <2>17. AvHeightsBut(t, M, H, {n, c, g})
      BY DEF AvHeightsBut
    <2>18. c = t.kid[s][n] /\ g = t.kid[-s][c]
      BY DEF c, g
    <2> HIDE DEF hn, hg
    <2>19. AvRebalanced(t, M, U, H, n, H[n] - hg, AvRotate(AvRotate(v, c, -s), n, s))
      BY <1>4, <2>3, <2>7, <2>9, <2>13, <2>14, <2>15, <2>16, <2>17, <2>18, AvTwice, Zenon DEF AvIs
    <2>20. QED
      BY <2>5, <2>19 DEF hg
  <1>11. QED
    BY <1>9, <1>10

-----------------------------------------------------------------------------
(* Loops that end.                                                         *)

\* Where each round goes from a state to one of a lower rank, or changes
\* nothing, no round changes anything in the end.
AvDescends(round, S) ==
    \A y, r : <<y, r>> \in S =>
      r \in Nat /\ (round[y] = y \/ \E q : q < r /\ <<round[y], q>> \in S)

LEMMA AvLoopEnds ==
    ASSUME NEW round, NEW x, NEW S, AvDescends(round, S), NEW r, <<x, r>> \in S, r <= AvMany
    PROVE  LET y == AvLoop(round, x)[AvMany] IN
           round[y] = y /\ \E q : <<y, q>> \in S
  <1> DEFINE at == AvLoop(round, x)
             Good(i) == \E q : <<at[i], q>> \in S /\ (round[at[i]] = at[i] \/ q + i <= r)
             T == {i \in Nat : i <= AvMany /\ ~Good(i)}
  <1>1. at[0] = x /\ \A i \in 1 .. AvMany : at[i] = round[at[i - 1]]
    BY AvLoopIs
  <1>2. r \in Nat
    BY DEF AvDescends
  <1> HIDE DEF at
  <1>3. ASSUME T # {} PROVE FALSE
    <2>1. PICK i \in T : \A j \in T : i <= j
      BY <1>3, AvLeast
    <2>2. i # 0
      BY <1>1, <1>2, <2>1
    <2>3. i - 1 \in Nat /\ i - 1 <= AvMany /\ i - 1 \notin T /\ i \in 1 .. AvMany
      BY <2>1, <2>2, AvManyIsNat
    <2>4. PICK q : <<at[i - 1], q>> \in S /\ (round[at[i - 1]] = at[i - 1] \/ q + (i - 1) <= r)
      BY <2>3
    <2>5. at[i] = round[at[i - 1]]
      BY <1>1, <2>3
    <2>6. CASE round[at[i - 1]] = at[i - 1]
      BY <2>1, <2>4, <2>5, <2>6
    <2>7. CASE round[at[i - 1]] # at[i - 1]
      <3>1. q \in Nat
        BY <2>4 DEF AvDescends
      <3>2. PICK p : p < q /\ <<at[i], p>> \in S
        BY <2>4, <2>5, <2>7 DEF AvDescends
      <3>3. p \in Nat
        BY <3>2 DEF AvDescends
      <3>4. p + i <= r
        BY <1>2, <2>1, <2>4, <2>7, <3>1, <3>2, <3>3
      <3>5. QED
        BY <2>1, <3>2, <3>4
    <2>8. QED
      BY <2>6, <2>7
  <1>4. PICK q : <<at[AvMany], q>> \in S /\ (round[at[AvMany]] = at[AvMany] \/ q + AvMany <= r)
    BY <1>3, AvManyIsNat
  <1>5. CASE round[at[AvMany]] = at[AvMany]
    BY <1>4, <1>5 DEF at
  <1>6. CASE round[at[AvMany]] # at[AvMany]
    <2>1. q \in Nat
      BY <1>4 DEF AvDescends
    <2>2. PICK p : p < q /\ <<round[at[AvMany]], p>> \in S
      BY <1>4, <1>6 DEF AvDescends
    <2>3. p \in Nat
      BY <2>2 DEF AvDescends
    <2>4. QED
      BY <1>2, <1>4, <1>6, <2>1, <2>2, <2>3, AvManyIsNat
  <1>7. QED
    BY <1>5, <1>6

-----------------------------------------------------------------------------
(* The way down to a key.                                                  *)

\* P is the way from the root to the node p, on which the key k is looked for.
AvWay(t, M, k, p, P) ==
    /\ P \subseteq M /\ k \notin P
    /\ p # AvNull => p \in P /\ t.root \in P
    /\ p = AvNull => P = {}
    /\ \A m \in P : m # p => t.kid[AvToward(m, k)][m] \in P
    /\ \A m \in P : m # t.root => t.parent[m] \in P /\ t.kid[AvToward(t.parent[m], k)][t.parent[m]] = m

\* What do_lookup knows: B is the part of the way from the node top on.
AvLooked(t, M, U, k, l, P) ==
    /\ l \in AvLook
    /\ AvWay(t, M, k, l.parent, P)
    /\ l.node = IF l.parent = AvNull THEN t.root ELSE t.kid[AvToward(l.parent, k)][l.parent]
    /\ k \in M => k \in U[l.node]
    /\ l.parent = AvNull => l.below = {} /\ l.unbalanced = t.root
    /\ l.parent # AvNull =>
         /\ l.below \subseteq P /\ l.unbalanced \in l.below /\ l.parent \in l.below
         /\ l.below \subseteq U[l.unbalanced] /\ U[l.node] \subseteq U[l.unbalanced]
         /\ l.unbalanced = t.root \/ t.balance[l.unbalanced] # 0
         /\ \A m \in l.below : m # l.unbalanced => t.balance[m] = 0 /\ t.parent[m] \in l.below
         /\ \A m \in l.below : m # l.parent => t.kid[AvToward(m, k)][m] \in l.below

LEMMA AvLookFields ==
    ASSUME NEW l \in AvLook
    PROVE  l.node \in AvLink /\ l.parent \in AvLink /\ l.unbalanced \in AvLink /\ l.below \in SUBSET AvKey
  BY DEF AvLook

\* One round.
LEMMA AvLooksOn ==
    ASSUME NEW t, NEW M, NEW U, AvOrdered(t, M, U), NEW k \in AvKey,
           NEW l, NEW P, AvLooked(t, M, U, k, l, P), l.node \notin {AvNull, k},
           NEW n, AvIs(n, l.node), NEW s, AvIs(s, AvToward(n, k)),
           NEW y, AvIs(y, AvLookRound(t, k)[l]), NEW Q, AvIs(Q, P \cup {n})
    PROVE  AvLooked(t, M, U, k, y, Q) /\ n \in M /\ y.node = t.kid[s][n] /\ s \in AvSide
  <1>1. l \in AvLook /\ AvWay(t, M, k, l.parent, P)
    BY DEF AvLooked
  <1>2. n \in AvKey /\ k \in Int /\ n \in Int
    BY <1>1, AvLookFields, AvKeys DEF AvIs, AvLink, AvLook
  <1>3. s \in AvSide /\ AvBeyond(s, k, n)
    BY <1>2, AvTowardIs DEF AvIs
  <1>4. /\ t \in AvTree /\ M \subseteq AvKey /\ U[AvNull] = {} /\ U[t.root] = M
        /\ (t.root # AvNull => t.root \in M /\ t.parent[t.root] = AvNull)
    BY DEF AvOrdered
  <1>5. \A m \in P : AvToward(m, k) \in AvSide /\ m \in M /\ m # AvNull /\ m # k
    BY <1>1, <1>2, <1>4, AvTowardIs, AvKeys DEF AvWay
  <1>6. /\ n \in M /\ t.parent[n] = l.parent
        /\ (l.parent = AvNull => n = t.root)
        /\ (l.parent # AvNull => n # t.root /\ t.kid[AvToward(l.parent, k)][l.parent] = n /\ l.parent \in P)
    <2>1. CASE l.parent = AvNull
      BY <1>4, <2>1 DEF AvIs, AvLooked
    <2>2. CASE l.parent # AvNull
      <3>1. l.parent \in P /\ n = t.kid[AvToward(l.parent, k)][l.parent] /\ n # AvNull
        BY <1>1, <2>2 DEF AvIs, AvLooked, AvWay
      <3>2. n \in M /\ t.parent[n] = l.parent
        BY <1>5, <3>1, AvBelow
      <3>3. QED
        BY <1>4, <2>2, <3>1, <3>2
    <2>3. QED
      BY <2>1, <2>2
  <1>7. t.kid[s][n] \in AvLink /\ n # AvNull
    BY <1>2, <1>3, <1>6, AvChildIs, AvKeys
  <1>8. k \in M => k \in U[t.kid[s][n]]
    <2>1. SUFFICES ASSUME k \in M PROVE k \in U[t.kid[s][n]]
      OBVIOUS
    <2>2. k \in U[n] /\ k # n
      BY <2>1 DEF AvIs, AvLooked
    <2>3. U[n] = {n} \cup U[t.kid[s][n]] \cup U[t.kid[-s][n]]
      BY <1>3, <1>6, AvBelow
    <2>4. k \notin U[t.kid[-s][n]]
      <3>1. -s \in AvSide
        BY <1>3, AvSides
      <3>2. k \in U[t.kid[-s][n]] => AvBeyond(-s, k, n)
        BY <1>6, <3>1, AvBelow
      <3>3. ~AvBeyond(-s, k, n)
        BY <1>2, <1>3, AvOrder
      <3>4. QED
        BY <3>2, <3>3
    <2>5. QED
      BY <2>2, <2>3, <2>4
  <1>9. /\ y.node = t.kid[s][n] /\ y.parent = n
        /\ y.unbalanced = (IF t.balance[n] # 0 THEN n ELSE l.unbalanced)
        /\ y.below = (IF t.balance[n] # 0 THEN {n} ELSE l.below \cup {n})
    BY <1>1 DEF AvIs, AvLookRound
  <1>10. y \in AvLook
    <2>1. y.node \in AvLink /\ y.parent \in AvLink
      BY <1>2, <1>7, <1>9, AvKeys
    <2>2. y.unbalanced \in AvLink /\ y.below \in SUBSET AvKey
      BY <1>1, <1>2, <1>9, AvLookFields, AvKeys
    <2>3. y = [node |-> t.kid[s][n], parent |-> n,
               unbalanced |-> IF t.balance[n] # 0 THEN n ELSE l.unbalanced,
               below |-> IF t.balance[n] # 0 THEN {n} ELSE l.below \cup {n}]
      BY <1>1 DEF AvIs, AvLookRound
    <2>4. QED
      BY <2>1, <2>2, <2>3, <1>9 DEF AvLook
  <1>12. Q = P \cup {n} /\ s = AvToward(n, k) /\ k # n /\ n = l.node
    BY DEF AvIs
  <1>11. AvWay(t, M, k, n, Q)
    <2>1. Q \subseteq M /\ k \notin Q /\ n \in Q
      BY <1>1, <1>6, <1>12 DEF AvWay
    <2>2. t.root \in Q
      BY <1>1, <1>6, <1>12 DEF AvWay
    <2>3. \A m \in Q : m # n => t.kid[AvToward(m, k)][m] \in Q
      BY <1>1, <1>6, <1>12 DEF AvWay
    <2>4. \A m \in Q : m # t.root => t.parent[m] \in Q /\ t.kid[AvToward(t.parent[m], k)][t.parent[m]] = m
      BY <1>1, <1>6, <1>12 DEF AvWay
    <2>5. QED
      BY <1>7, <2>1, <2>2, <2>3, <2>4 DEF AvWay
  <1>13. /\ y.below \subseteq Q /\ y.unbalanced \in y.below /\ n \in y.below
         /\ y.unbalanced = t.root \/ t.balance[y.unbalanced] # 0
    BY <1>6, <1>9, <1>12, Zenon DEF AvLooked
  <1>14. \A m \in y.below : m # y.unbalanced => t.balance[m] = 0 /\ t.parent[m] \in y.below
    BY <1>6, <1>9 DEF AvLooked
  <1>15. \A m \in y.below : m # n => t.kid[AvToward(m, k)][m] \in y.below
    BY <1>6, <1>9 DEF AvLooked
  <1>18. y.below \subseteq U[y.unbalanced] /\ U[t.kid[s][n]] \subseteq U[y.unbalanced]
    <2>1. U[t.kid[s][n]] \subseteq U[n] /\ n \in U[n]
      BY <1>3, <1>6, AvChildIs
    <2>2. CASE t.balance[n] # 0
      BY <1>9, <2>1, <2>2
    <2>3. CASE t.balance[n] = 0
      <3>1. l.unbalanced = y.unbalanced /\ y.below = l.below \cup {n}
        BY <1>9, <2>3
      <3>2. l.below \subseteq U[l.unbalanced] /\ U[n] \subseteq U[l.unbalanced]
        BY <1>6, <1>12 DEF AvLooked
      <3>3. QED
        BY <2>1, <3>1, <3>2
    <2>4. QED
      BY <2>2, <2>3
  <1>16. AvLooked(t, M, U, k, y, Q)
    BY <1>7, <1>8, <1>9, <1>10, <1>11, <1>12, <1>13, <1>14, <1>15, <1>18, Zenon DEF AvLooked
  <1>17. QED
    BY <1>3, <1>6, <1>9, <1>16

LEMMA AvLookupIs ==
    ASSUME NEW t, NEW M, NEW U, AvOrdered(t, M, U), NEW k \in AvKey
    PROVE  /\ \E P : AvLooked(t, M, U, k, AvLookup(t, k), P)
           /\ AvLookup(t, k).node \in {AvNull, k}
           /\ AvFound(t, k) <=> k \in M
  <1> DEFINE x == [node |-> t.root, parent |-> AvNull, unbalanced |-> t.root, below |-> {}]
             round == AvLookRound(t, k)
             S == {z \in AvLook \X Nat : z[2] = Cardinality(U[z[1].node])
                                         /\ \E P : AvLooked(t, M, U, k, z[1], P)}
             last == AvLookup(t, k)
  <1>1. t \in AvTree /\ M \subseteq AvKey /\ U[AvNull] = {} /\ U[t.root] = M /\ (t.root # AvNull => t.root \in M)
    BY DEF AvOrdered
  <1>2. t.root \in AvLink /\ AvNull \in AvLink
    BY <1>1, AvTreeFields, AvKeys
  <1>3. x \in AvLook
    BY <1>2 DEF AvLook
  <1>4. AvLooked(t, M, U, k, x, {})
    <2>1. AvWay(t, M, k, AvNull, {})
      BY DEF AvWay
    <2>2. QED
      BY <1>1, <1>3, <2>1 DEF AvLooked
  <1>5. IsFiniteSet(M) /\ Cardinality(M) \in Nat /\ Cardinality(M) <= AvMany
    BY <1>1, AvAssumption, FS_Subset, FS_CardinalityType DEF AvMany
  <1> DEFINE r == Cardinality(M)
  <1>6. <<x, r>> \in S
    BY <1>1, <1>3, <1>4, <1>5
  <1>7. AvDescends(round, S)
    <2>1. SUFFICES ASSUME NEW l, NEW q, <<l, q>> \in S
                   PROVE  q \in Nat /\ (round[l] = l \/ \E p : p < q /\ <<round[l], p>> \in S)
      BY DEF AvDescends
    <2>2. l \in AvLook /\ q \in Nat /\ q = Cardinality(U[l.node]) /\ \E P : AvLooked(t, M, U, k, l, P)
      BY <2>1
    <2>3. CASE l.node \in {AvNull, k}
      BY <2>2, <2>3 DEF AvLookRound
    <2>4. CASE l.node \notin {AvNull, k}
      <3> DEFINE n == l.node
                 s == AvToward(n, k)
                 y == AvLookRound(t, k)[l]
      <3>1. PICK P : AvLooked(t, M, U, k, l, P)
        BY <2>2
      <3> DEFINE Q == P \cup {n}
      <3>2. AvLooked(t, M, U, k, y, Q) /\ n \in M /\ y.node = t.kid[s][n] /\ s \in AvSide
        BY <2>4, <3>1, AvLooksOn DEF AvIs
      <3> HIDE DEF y, s
      <3>3. Cardinality(U[y.node]) \in Nat /\ Cardinality(U[y.node]) < Cardinality(U[n])
        BY <3>2, AvCount
      <3>4. y \in AvLook
        BY <3>2 DEF AvLooked
      <3>5. <<y, Cardinality(U[y.node])>> \in S
        BY <3>2, <3>3, <3>4
      <3>6. QED
        BY <2>2, <3>3, <3>5 DEF y
    <2>5. QED
      BY <2>3, <2>4
  <1>8. last = AvLoop(round, x)[AvMany]
    BY DEF AvLookup
  <1>9. round[last] = last /\ \E q : <<last, q>> \in S
    <2> HIDE DEF round, x, S, r, last
    <2>1. r <= AvMany
      BY <1>5 DEF r
    <2>2. QED
      BY <1>6, <1>7, <1>8, <2>1, AvLoopEnds
  <1> HIDE DEF last
  <1>10. last \in AvLook /\ \E P : AvLooked(t, M, U, k, last, P)
    BY <1>9
  <1>11. PICK P : AvLooked(t, M, U, k, last, P)
    BY <1>10
  <1>12. last.node \in {AvNull, k}
    <2>1. SUFFICES ASSUME last.node \notin {AvNull, k} PROVE FALSE
      OBVIOUS
    <2> DEFINE n == last.node
               s == AvToward(n, k)
               y == AvLookRound(t, k)[last]
               Q == P \cup {n}
    <2>4. AvLooked(t, M, U, k, y, Q) /\ n \in M /\ y.node = t.kid[s][n] /\ s \in AvSide
      BY <1>11, <2>1, AvLooksOn DEF AvIs
    <2>2. n \in M /\ round[last].node = t.kid[s][n] /\ s \in AvSide
      BY <2>4
    <2>3. t.kid[s][n] # n
      BY <2>2, AvChildIs
    <2>5. QED
      BY <1>9, <2>2, <2>3
  <1>13. last.node = k <=> k \in M
    <2>1. ASSUME k \in M PROVE last.node = k
      BY <1>1, <1>11, <1>12, <2>1 DEF AvLooked
    <2>2. ASSUME last.node = k PROVE k \in M
      <3>1. CASE last.parent = AvNull
        BY <1>1, <1>11, <2>2, <3>1, AvKeys DEF AvLooked
      <3>2. CASE last.parent # AvNull
        <4>1. last.parent \in M /\ last.parent # k /\ k = t.kid[AvToward(last.parent, k)][last.parent]
          BY <1>11, <2>2, <3>2 DEF AvLooked, AvWay
        <4>2. AvToward(last.parent, k) \in AvSide
          BY <1>1, <4>1, AvTowardIs, AvKeys
        <4>3. QED
          BY <4>1, <4>2, AvBelow, AvKeys
      <3>3. QED
        BY <3>1, <3>2
    <2>3. QED
      BY <2>1, <2>2
  <1>14. QED
    BY <1>11, <1>12, <1>13 DEF last, AvFound

LEMMA AvOffWay ==
    ASSUME NEW t, NEW M, NEW U, AvOrdered(t, M, U), NEW k, NEW p, NEW P, AvWay(t, M, k, p, P),
           NEW m \in M, NEW x \in AvSide, t.kid[x][m] \in P
    PROVE  m \in P /\ x = AvToward(m, k)
  <1> DEFINE c == t.kid[x][m]
  <1>1. c \in M /\ c # AvNull /\ m # AvNull
    BY AvKeys, Zenon DEF AvWay, AvOrdered
  <1>2. t.parent[c] = m
    BY <1>1, AvBelow
  <1>3. c # t.root
    BY <1>1, <1>2 DEF AvOrdered
  <1>4. m \in P /\ t.kid[AvToward(m, k)][m] = c
    BY <1>2, <1>3 DEF AvWay
  <1>5. AvToward(m, k) \in AvSide
    BY DEF AvToward, AvSide
  <1>6. t.kid[x][m] # t.kid[-x][m]
    BY <1>1, AvChildIs
  <1>7. AvToward(m, k) = x \/ AvToward(m, k) = -x
    BY <1>5, AvSides
  <1>8. QED
    BY <1>4, <1>6, <1>7

-----------------------------------------------------------------------------
(* A new leaf.                                                             *)

AvCleared(t, k, u) ==
    /\ u \in AvTree /\ u.root = t.root /\ u.end = t.end /\ u.height = t.height
    /\ \A x \in AvSide : \A m \in AvKey : u.kid[x][m] = IF m = k THEN AvNull ELSE t.kid[x][m]
    /\ \A m \in AvKey : u.parent[m] = IF m = k THEN AvNull ELSE t.parent[m]
    /\ \A m \in AvKey : u.balance[m] = IF m = k THEN 0 ELSE t.balance[m]

LEMMA AvClearIs ==
    ASSUME NEW t \in AvTree, NEW k \in AvKey
    PROVE  AvCleared(t, k, AvClear(t, k))
  <1> DEFINE u == AvClear(t, k)
             a == [t EXCEPT !.kid[-1][k] = AvNull]
             b == [a EXCEPT !.kid[1][k] = AvNull]
             c == [b EXCEPT !.parent[k] = AvNull]
  <1>1. u = AvPut(c, k, 0)
    BY DEF AvClear, AvPut
  <1>2. AvNull \in AvLink /\ -1 \in AvSide /\ 1 \in AvSide /\ 0 \in -2 .. 2
    BY AvKeys, AvSides
  <1>3. /\ a \in AvTree /\ a.root = t.root
        /\ a.parent = t.parent /\ a.balance = t.balance /\ a.end = t.end /\ a.height = t.height
    BY <1>2, AvKidPut
  <1>4. \A x \in AvSide : \A m \in AvKey :
                a.kid[x][m] = IF m = k /\ x = -1 THEN AvNull ELSE t.kid[x][m]
    <2>1. AvKidIs(t, k, -1, AvNull, a)
      BY <1>2, AvKidPutIs
    <2> HIDE DEF a
    <2>2. QED
      BY <2>1 DEF AvKidIs
  <1> HIDE DEF a
  <1>5. /\ b \in AvTree /\ b.root = a.root
        /\ b.parent = a.parent /\ b.balance = a.balance /\ b.end = a.end /\ b.height = a.height
    BY <1>2, <1>3, AvKidPut
  <1>6. \A x \in AvSide : \A m \in AvKey :
                b.kid[x][m] = IF m = k /\ x = 1 THEN AvNull ELSE a.kid[x][m]
    <2>1. AvKidIs(a, k, 1, AvNull, b)
      BY <1>2, <1>3, AvKidPutIs
    <2> HIDE DEF b
    <2>2. QED
      BY <2>1 DEF AvKidIs
  <1> HIDE DEF b
  <1>7. /\ c \in AvTree /\ c.root = b.root
        /\ c.kid = b.kid /\ c.balance = b.balance /\ c.end = b.end /\ c.height = b.height
    BY <1>2, <1>5, AvParentPut
  <1>8. \A m \in AvKey : c.parent[m] = IF m = k THEN AvNull ELSE b.parent[m]
    BY <1>2, <1>5, AvParentPut
  <1> HIDE DEF c, u
  <1>9. AvSameShape(c, u) /\ AvHasPut(c, k, 0, u)
    BY <1>1, <1>2, <1>7, AvPutIs
  <1>10. /\ u \in AvTree /\ u.kid = c.kid /\ u.parent = c.parent /\ u.root = c.root
         /\ u.end = c.end /\ u.height = c.height
    BY <1>9 DEF AvSameShape
  <1>11. \A m \in AvKey : u.balance[m] = IF m = k THEN 0 ELSE c.balance[m]
    BY <1>9 DEF AvHasPut
  <1>12. \A x \in AvSide : x = -1 \/ x = 1
    BY DEF AvSide
  <1>13. \A x \in AvSide : \A m \in AvKey : u.kid[x][m] = IF m = k THEN AvNull ELSE t.kid[x][m]
    BY <1>4, <1>6, <1>7, <1>10, <1>12
  <1>14. \A m \in AvKey : u.parent[m] = IF m = k THEN AvNull ELSE t.parent[m]
    BY <1>3, <1>5, <1>8, <1>10
  <1>15. \A m \in AvKey : u.balance[m] = IF m = k THEN 0 ELSE t.balance[m]
    BY <1>3, <1>5, <1>7, <1>11
  <1>16. u.root = t.root /\ u.end = t.end /\ u.height = t.height
    BY <1>3, <1>5, <1>7, <1>10
  <1>17. AvCleared(t, k, u)
    BY <1>10, <1>13, <1>14, <1>15, <1>16 DEF AvCleared
  <1>18. QED
    BY <1>17 DEF u

\* The leaf k hangs from p on side s; b are the balances.
AvHung(t, p, s, k, b, u) ==
    /\ u \in AvTree /\ u.root = t.root /\ u.height = t.height
    /\ \A x \in AvSide : \A m \in AvKey :
         u.kid[x][m] = IF m = k THEN AvNull ELSE IF m = p /\ x = s THEN k ELSE t.kid[x][m]
    /\ \A m \in AvKey : u.parent[m] = IF m = k THEN p ELSE t.parent[m]
    /\ \A x \in AvSide : u.end[x] = IF x = s /\ t.end[s] = p THEN k ELSE t.end[x]
    /\ u.balance = b

LEMMA AvHangIs ==
    ASSUME NEW t \in AvTree, NEW p \in AvKey, NEW k \in AvKey, p # k
    PROVE  /\ AvHung(t, p, AvToward(p, k), k, AvHang(t, p, k).balance, AvHang(t, p, k))
           /\ \A m \in AvKey : AvHang(t, p, k).balance[m] = IF m = k THEN 0 ELSE t.balance[m]
  <1> DEFINE s == AvToward(p, k)
             a == AvClear(t, k)
             b == AvSetChild(a, p, s, k)
             u == AvHang(t, p, k)
  <1>1. s \in AvSide /\ p # AvNull /\ p \in AvLink /\ k \in AvLink
    BY AvKeys DEF AvToward, AvSide
  <1>2. AvCleared(t, k, a)
    BY AvClearIs
  <1>3. u = [b EXCEPT !.parent[k] = p, !.end[s] = IF @ = p THEN k ELSE @]
    BY DEF AvHang
  <1> HIDE DEF a, s, u
  <1>4. a \in AvTree
    BY <1>2 DEF AvCleared
  <1>5. AvChildSet(a, p, s, k, b)
    BY <1>1, <1>4, AvSetChildIs
  <1> HIDE DEF b
  <1>6. /\ b \in AvTree /\ b.root = a.root /\ b.parent = a.parent /\ b.balance = a.balance
        /\ b.end = a.end /\ b.height = a.height
        /\ \A x \in AvSide : \A m \in AvKey :
             b.kid[x][m] = IF m = p /\ x = s THEN k ELSE a.kid[x][m]
    BY <1>1, <1>5 DEF AvChildSet
  <1>7. /\ a.root = t.root /\ a.end = t.end /\ a.height = t.height
        /\ \A x \in AvSide : \A m \in AvKey : a.kid[x][m] = IF m = k THEN AvNull ELSE t.kid[x][m]
        /\ \A m \in AvKey : a.parent[m] = IF m = k THEN AvNull ELSE t.parent[m]
        /\ \A m \in AvKey : a.balance[m] = IF m = k THEN 0 ELSE t.balance[m]
    BY <1>2 DEF AvCleared
  <1>8. /\ u.root = b.root /\ u.kid = b.kid /\ u.balance = b.balance /\ u.height = b.height
        /\ u.parent = [b.parent EXCEPT ![k] = p]
        /\ u.end = [b.end EXCEPT ![s] = IF @ = p THEN k ELSE @]
    BY <1>3, <1>6 DEF AvTree
  <1>9. u \in AvTree
    BY <1>1, <1>3, <1>6 DEF AvTree
  <1>10. b.parent \in [AvKey -> AvLink] /\ b.end \in [AvSide -> AvLink]
    BY <1>6, AvTreeFields
  <1>11. \A m \in AvKey : u.parent[m] = IF m = k THEN p ELSE t.parent[m]
    BY <1>6, <1>7, <1>8, <1>10
  <1>12. \A x \in AvSide : u.end[x] = IF x = s /\ t.end[s] = p THEN k ELSE t.end[x]
    BY <1>6, <1>7, <1>8, <1>10
  <1>13. \A x \in AvSide : \A m \in AvKey :
           u.kid[x][m] = IF m = k THEN AvNull ELSE IF m = p /\ x = s THEN k ELSE t.kid[x][m]
    BY <1>6, <1>7, <1>8
  <1>14. \A m \in AvKey : u.balance[m] = IF m = k THEN 0 ELSE t.balance[m]
    BY <1>6, <1>7, <1>8
  <1>15. u.root = t.root /\ u.height = t.height
    BY <1>6, <1>7, <1>8
  <1>16. AvHung(t, p, s, k, u.balance, u)
    BY <1>9, <1>11, <1>12, <1>13, <1>15 DEF AvHung
  <1>17. QED
    BY <1>14, <1>16 DEF u, s

\* The members below each node with the leaf k, on the way P to it.
AvGrow(U, P, k) ==
    [x \in AvLink |-> IF x = k THEN {k} ELSE IF x \in P THEN U[x] \cup {k} ELSE U[x]]

LEMMA AvGrows ==
    ASSUME NEW t, NEW M, NEW U, AvOrdered(t, M, U), NEW k \in AvKey, k \notin M,
           NEW p, NEW P, AvWay(t, M, k, p, P), p # AvNull,
           NEW s, AvIs(s, AvToward(p, k)), t.kid[s][p] = AvNull,
           NEW b, NEW u, AvHung(t, p, s, k, b, u),
           NEW V, AvIs(V, AvGrow(U, P, k)), NEW N, N = M \cup {k}
    PROVE  AvOrdered(u, N, V)
  <1>1. /\ t \in AvTree /\ M \subseteq AvKey /\ U \in [AvLink -> SUBSET M] /\ U[AvNull] = {}
        /\ U[t.root] = M /\ (t.root # AvNull => t.root \in M /\ t.parent[t.root] = AvNull)
        /\ \A n \in M : AvNode(t, M, U, n)
    BY DEF AvOrdered
  <1>2. /\ P \subseteq M /\ k \notin P /\ p \in P /\ t.root \in P
        /\ \A m \in P : m # p => t.kid[AvToward(m, k)][m] \in P
    BY DEF AvWay
  <1>3. AvNull \in AvLink /\ AvNull \notin AvKey /\ k \in AvLink /\ k # AvNull /\ M \subseteq Int /\ k \in Int
    BY <1>1, AvKeys
  <1>4. s \in AvSide /\ AvBeyond(s, k, p)
    BY <1>1, <1>2, <1>3, AvTowardIs DEF AvIs
  <1>5. /\ u \in AvTree /\ u.root = t.root
        /\ \A x \in AvSide : \A m \in AvKey :
             u.kid[x][m] = IF m = k THEN AvNull ELSE IF m = p /\ x = s THEN k ELSE t.kid[x][m]
        /\ \A m \in AvKey : u.parent[m] = IF m = k THEN p ELSE t.parent[m]
    BY DEF AvHung
  <1>6. /\ V[k] = {k}
        /\ \A x \in AvLink : x # k /\ x \in P => V[x] = U[x] \cup {k}
        /\ \A x \in AvLink : x # k /\ x \notin P => V[x] = U[x]
    BY <1>3 DEF AvIs, AvGrow
  <1>7. V \in [AvLink -> SUBSET N]
    <2>1. \A x \in AvLink : V[x] \in SUBSET N
      BY <1>1, <1>6
    <2>2. V = [x \in AvLink |-> V[x]]
      BY DEF AvIs, AvGrow
    <2>3. QED
      BY <2>1, <2>2
  <1>20. s = AvToward(p, k)
    BY DEF AvIs
  <1>8. V[AvNull] = {} /\ V[u.root] = N /\ u.root \in N /\ u.parent[u.root] = AvNull
    <2>1. t.root \in AvKey /\ t.root # k /\ t.root \in AvLink
      BY <1>1, <1>2, AvKeys
    <2>2. V[AvNull] = {}
      BY <1>1, <1>2, <1>3, <1>6
    <2>3. V[t.root] = U[t.root] \cup {k}
      BY <1>2, <1>6, <2>1
    <2>4. QED
      BY <1>1, <1>2, <1>5, <2>1, <2>2, <2>3
  <1>9. AvNode(u, N, V, k)
    <2>1. \A x \in AvSide : u.kid[x][k] = AvNull /\ -x \in AvSide
      BY <1>5, AvSides
    <2>2. QED
      BY <1>6, <1>8, <2>1 DEF AvNode, AvEdge
  <1>10. ASSUME NEW m \in M, NEW x \in AvSide
         PROVE  /\ AvEdge(u, N, V, m, x)
                /\ V[u.kid[x][m]] = IF m \in P /\ x = AvToward(m, k) THEN U[t.kid[x][m]] \cup {k}
                                    ELSE U[t.kid[x][m]]
    <2>1. m \in AvKey /\ m # k /\ t.kid[x][m] \in AvLink
      BY <1>1, <1>10, AvChildIs
    <2>2. AvEdge(t, M, U, m, x)
      BY <1>1, <1>10 DEF AvNode
    <2>3. CASE m = p /\ x = s
      <3>1. u.kid[x][m] = k /\ u.parent[k] = m /\ AvBeyond(x, k, m) /\ t.kid[x][m] = AvNull
        BY <1>4, <1>5, <2>1, <2>3
      <3>2. x = AvToward(m, k) /\ m \in P
        BY <1>2, <1>20, <2>3
      <3>3. QED
        BY <1>1, <1>3, <1>6, <3>1, <3>2 DEF AvEdge
    <2>4. CASE ~(m = p /\ x = s)
      <3>1. u.kid[x][m] = t.kid[x][m] /\ t.kid[x][m] # k
        <4>1. t.kid[x][m] # AvNull => t.kid[x][m] \in M
          BY <2>2 DEF AvEdge
        <4>2. QED
          BY <1>3, <1>5, <2>1, <2>4, <4>1
      <3>2. t.kid[x][m] # AvNull => t.kid[x][m] \in N /\ u.parent[t.kid[x][m]] = m
        <4>1. t.kid[x][m] # AvNull => t.kid[x][m] \in M /\ t.parent[t.kid[x][m]] = m
          BY <2>2 DEF AvEdge
        <4>2. QED
          BY <1>1, <1>5, <4>1
      <3>3. CASE m \in P /\ x = AvToward(m, k)
        <4>1. m # p
          BY <1>20, <2>4, <3>3
        <4>2. t.kid[x][m] \in P
          BY <1>2, <3>3, <4>1
        <4>3. V[t.kid[x][m]] = U[t.kid[x][m]] \cup {k}
          BY <1>6, <2>1, <3>1, <4>2
        <4>4. AvBeyond(x, k, m)
          BY <1>3, <1>10, <2>1, <3>3, AvTowardIs
        <4>5. QED
          BY <2>2, <3>1, <3>2, <3>3, <4>3, <4>4 DEF AvEdge
      <3>4. CASE ~(m \in P /\ x = AvToward(m, k))
        <4>1. t.kid[x][m] \notin P
          BY <1>10, <3>4, AvOffWay
        <4>2. V[t.kid[x][m]] = U[t.kid[x][m]]
          BY <1>6, <2>1, <3>1, <4>1
        <4>3. QED
          BY <2>2, <3>1, <3>2, <3>4, <4>2 DEF AvEdge
      <3>5. QED
        BY <3>3, <3>4
    <2>5. QED
      BY <2>3, <2>4
  <1>11. ASSUME NEW m \in M
         PROVE  AvNode(u, N, V, m)
    <2>1. m \in AvLink /\ m # k
      BY <1>1, <1>11, AvKeys
    <2>2. \A x \in AvSide : U[m] = {m} \cup U[t.kid[x][m]] \cup U[t.kid[-x][m]]
      BY <1>1, <1>11 DEF AvNode
    <2>3. AvToward(m, k) \in AvSide
      BY DEF AvToward, AvSide
    <2>4. \A x \in AvSide : -x \in AvSide /\ -x # x /\ (AvToward(m, k) = x \/ AvToward(m, k) = -x)
      BY <2>3, AvSides
    <2>5. ASSUME NEW x \in AvSide
          PROVE  V[m] = {m} \cup V[u.kid[x][m]] \cup V[u.kid[-x][m]]
      <3>1. U[m] = {m} \cup U[t.kid[x][m]] \cup U[t.kid[-x][m]]
        BY <2>2
      <3>2. CASE m \in P
        <4>1. V[m] = U[m] \cup {k}
          BY <1>6, <2>1, <3>2
        <4>2. -x \in AvSide /\ -x # x
          BY <2>4
        <4>3. CASE AvToward(m, k) = x
          <5>1. V[u.kid[x][m]] = U[t.kid[x][m]] \cup {k}
            BY <1>10, <3>2, <4>3
          <5>2. V[u.kid[-x][m]] = U[t.kid[-x][m]]
            BY <1>10, <4>2, <4>3
          <5>3. QED
            BY <3>1, <4>1, <5>1, <5>2
        <4>4. CASE AvToward(m, k) = -x
          <5>1. V[u.kid[x][m]] = U[t.kid[x][m]]
            BY <1>10, <4>2, <4>4
          <5>2. V[u.kid[-x][m]] = U[t.kid[-x][m]] \cup {k}
            BY <1>10, <3>2, <4>2, <4>4
          <5>3. QED
            BY <3>1, <4>1, <5>1, <5>2
        <4>5. QED
          BY <2>4, <4>3, <4>4
      <3>3. CASE m \notin P
        <4>1. V[m] = U[m]
          BY <1>6, <2>1, <3>3
        <4>2. V[u.kid[x][m]] = U[t.kid[x][m]] /\ V[u.kid[-x][m]] = U[t.kid[-x][m]]
          BY <1>10, <2>4, <3>3
        <4>3. QED
          BY <3>1, <4>1, <4>2
      <3>4. QED
        BY <3>2, <3>3
    <2>6. \A x \in AvSide : AvEdge(u, N, V, m, x)
      BY <1>10
    <2>7. QED
      BY <2>5, <2>6 DEF AvNode
  <1>12. \A n \in N : AvNode(u, N, V, n)
    BY <1>9, <1>11
  <1>13. N \subseteq AvKey
    BY <1>1
  <1>14. QED
    BY <1>5, <1>7, <1>8, <1>12, <1>13 DEF AvOrdered

\* The heights with the leaf k: the nodes of B below top are one level higher.
AvGrowHigh(H, B, top, k) ==
    [x \in AvLink |-> IF x = k THEN 0 ELSE IF x \in B /\ x # top THEN H[x] + 1 ELSE H[x]]

AvMoreIf(c) == IF c THEN 1 ELSE 0

AvLeafBalances(t, B, k, b) ==
    \A m \in AvKey : b[m] = IF m = k THEN 0 ELSE IF m \in B THEN t.balance[m] + AvToward(m, k)
                            ELSE t.balance[m]

\* Only the node top may have levels that do not agree: it sees k's side higher.
AvGrownHigh(t, H, k, top, u, N, G) ==
    /\ AvHeightsBut(u, N, G, {top})
    /\ \A x \in AvSide : G[u.kid[x][top]] = H[t.kid[x][top]] + AvMoreIf(x = AvToward(top, k))
    /\ G[top] = H[top] /\ G[t.root] = H[t.root]

LEMMA AvGrowsHigh ==
    ASSUME NEW t, NEW M, NEW U, AvOrdered(t, M, U), NEW k \in AvKey, k \notin M,
           NEW l, NEW P, AvLooked(t, M, U, k, l, P), NEW p, AvIs(p, l.parent), p # AvNull, l.node = AvNull,
           NEW s, AvIs(s, AvToward(p, k)), NEW B, AvIs(B, l.below), NEW top, AvIs(top, l.unbalanced),
           NEW H, AvHeightsBut(t, M, H, {}),
           NEW b, AvLeafBalances(t, B, k, b),
           NEW u, AvHung(t, p, s, k, b, u),
           NEW G, AvIs(G, AvGrowHigh(H, B, top, k)), NEW N, N = M \cup {k}
    PROVE  AvGrownHigh(t, H, k, top, u, N, G)
  <1>0. \A m \in AvKey : b[m] = IF m = k THEN 0 ELSE IF m \in B THEN t.balance[m] + AvToward(m, k)
                                 ELSE t.balance[m]
    BY DEF AvLeafBalances
  <1>1. /\ AvHigh(M, H)
        /\ \A m \in M : \A s_1 \in AvSide :
             AvLevel(s_1, t.balance[m], H[t.kid[s_1][m]], H[t.kid[-s_1][m]], H[m])
    BY DEF AvHeightsBut
  <1>2. H \in [AvLink -> Int] /\ H[AvNull] = -1 /\ \A m \in M : H[m] >= 0
    BY <1>1 DEF AvHigh
  <1>3. /\ AvWay(t, M, k, p, P) /\ B \subseteq P /\ top \in B /\ p \in B /\ B \subseteq U[top]
        /\ \A m \in B : m # top => t.balance[m] = 0 /\ t.parent[m] \in B
        /\ \A m \in B : m # p => t.kid[AvToward(m, k)][m] \in B
        /\ t.kid[s][p] = AvNull
    BY DEF AvIs, AvLooked
  <1>4. P \subseteq M /\ M \subseteq AvKey /\ M \subseteq AvLink /\ AvNull \in AvLink /\ AvNull \notin AvKey
        /\ k \in AvLink /\ M \subseteq Int /\ k \in Int
    BY <1>3, AvKeys DEF AvWay, AvOrdered
  <1>5. /\ u.root = t.root
        /\ \A x \in AvSide : \A m \in AvKey :
             u.kid[x][m] = IF m = k THEN AvNull ELSE IF m = p /\ x = s THEN k ELSE t.kid[x][m]
        /\ u.balance = b
    BY DEF AvHung
  <1>6. /\ G \in [AvLink -> Int] /\ G[k] = 0
        /\ \A x \in AvLink : x # k /\ x \in B /\ x # top => G[x] = H[x] + 1
        /\ \A x \in AvLink : x # k /\ (x \notin B \/ x = top) => G[x] = H[x]
    BY <1>2, <1>4 DEF AvIs, AvGrowHigh
  <1>7. s = AvToward(p, k)
    BY DEF AvIs
  <1>8. ASSUME NEW m \in M, NEW x \in AvSide
        PROVE  /\ G[u.kid[x][m]] = H[t.kid[x][m]] + AvMoreIf(m \in B /\ x = AvToward(m, k))
               /\ t.kid[x][m] \in AvLink
    <2>1. m \in AvKey /\ m # k /\ t.kid[x][m] \in AvLink
      BY <1>4, <1>8, AvChildIs
    <2>2. t.kid[x][m] # AvNull => t.kid[x][m] \in M /\ t.parent[t.kid[x][m]] = m
      BY <1>8, AvBelow
    <2>3. CASE m = p /\ x = s
      <3>1. u.kid[x][m] = k /\ t.kid[x][m] = AvNull /\ m \in B /\ x = AvToward(m, k)
        BY <1>3, <1>5, <1>7, <2>1, <2>3
      <3>2. G[u.kid[x][m]] = 0 /\ H[t.kid[x][m]] = -1
        BY <1>2, <1>6, <3>1
      <3>3. QED
        BY <2>1, <3>1, <3>2 DEF AvMoreIf
    <2>4. CASE ~(m = p /\ x = s)
      <3>1. u.kid[x][m] = t.kid[x][m] /\ t.kid[x][m] # k
        BY <1>4, <1>5, <2>1, <2>2, <2>4
      <3>2. CASE m \in B /\ x = AvToward(m, k)
        <4>1. m # p /\ t.kid[x][m] \in B
          BY <1>3, <1>7, <2>4, <3>2
        <4>2. t.kid[x][m] # top
          <5>1. m \in U[top] /\ m \notin U[t.kid[x][m]]
            BY <1>3, <1>8, <3>2, AvChildIs
          <5>2. QED
            BY <5>1
        <4>3. G[u.kid[x][m]] = H[t.kid[x][m]] + 1
          BY <1>6, <2>1, <3>1, <4>1, <4>2
        <4>4. QED
          BY <2>1, <3>2, <4>3 DEF AvMoreIf
      <3>3. CASE ~(m \in B /\ x = AvToward(m, k))
        <4>1. t.kid[x][m] \notin B \/ t.kid[x][m] = top
          <5>1. SUFFICES ASSUME t.kid[x][m] \in B, t.kid[x][m] # top PROVE FALSE
            OBVIOUS
          <5>2. t.kid[x][m] \in P
            BY <1>3, <5>1
          <5>3. x = AvToward(m, k)
            BY <1>3, <1>8, <5>2, AvOffWay
          <5>4. t.kid[x][m] # AvNull
            BY <1>3, <1>4, <5>1
          <5>5. m \in B
            BY <1>3, <2>2, <5>1, <5>4
          <5>6. QED
            BY <3>3, <5>3, <5>5
        <4>2. G[u.kid[x][m]] = H[t.kid[x][m]]
          BY <1>6, <2>1, <3>1, <4>1
        <4>3. H[t.kid[x][m]] \in Int
          BY <1>2, <2>1
        <4>4. QED
          BY <2>1, <3>3, <4>2, <4>3 DEF AvMoreIf
      <3>4. QED
        BY <3>2, <3>3
    <2>5. QED
      BY <2>3, <2>4
  <1>9. AvHigh(N, G)
    <2>1. G[AvNull] = -1
      BY <1>2, <1>3, <1>4, <1>6
    <2>2. \A m \in M : G[m] >= 0
      BY <1>2, <1>4, <1>6
    <2>3. QED
      BY <1>6, <2>1, <2>2 DEF AvHigh
  <1>10. ASSUME NEW m \in M \ {top}, NEW x \in AvSide
         PROVE  AvLevel(x, u.balance[m], G[u.kid[x][m]], G[u.kid[-x][m]], G[m])
    <2>1. AvLevel(x, t.balance[m], H[t.kid[x][m]], H[t.kid[-x][m]], H[m])
      BY <1>1
    <2>2. -x \in AvSide /\ -x # x
      BY AvSides
    <2>3. H[t.kid[x][m]] \in Int /\ H[t.kid[-x][m]] \in Int /\ H[m] \in Int
      BY <1>2, <1>4, <1>8, <2>2
    <2>4. /\ G[u.kid[x][m]] = H[t.kid[x][m]] + AvMoreIf(m \in B /\ x = AvToward(m, k))
          /\ G[u.kid[-x][m]] = H[t.kid[-x][m]] + AvMoreIf(m \in B /\ -x = AvToward(m, k))
      BY <1>8, <2>2
    <2>5. m \in AvLink /\ m \in AvKey /\ m # k
      BY <1>4
    <2>6. CASE m \notin B
      <3>1. G[m] = H[m] /\ u.balance[m] = t.balance[m]
        BY <1>0, <1>5, <1>6, <2>5, <2>6
      <3>2. G[u.kid[x][m]] = H[t.kid[x][m]] /\ G[u.kid[-x][m]] = H[t.kid[-x][m]]
        BY <2>3, <2>4, <2>6 DEF AvMoreIf
      <3>3. QED
        BY <2>1, <3>1, <3>2
    <2>7. CASE m \in B
      <3>1. G[m] = H[m] + 1 /\ t.balance[m] = 0 /\ u.balance[m] = t.balance[m] + AvToward(m, k)
        BY <1>0, <1>3, <1>5, <1>6, <2>5, <2>7
      <3>2. AvToward(m, k) = x \/ AvToward(m, k) = -x
        BY AvSides DEF AvToward, AvSide
      <3>3. CASE AvToward(m, k) = x
        <4>1. G[u.kid[x][m]] = H[t.kid[x][m]] + 1 /\ G[u.kid[-x][m]] = H[t.kid[-x][m]]
          BY <2>2, <2>3, <2>4, <2>7, <3>3 DEF AvMoreIf
        <4>2. u.balance[m] = x
          BY <3>1, <3>3 DEF AvSide
        <4>3. QED
          BY <2>1, <2>3, <3>1, <4>1, <4>2 DEF AvLevel, AvSide
      <3>4. CASE AvToward(m, k) = -x
        <4>1. G[u.kid[x][m]] = H[t.kid[x][m]] /\ G[u.kid[-x][m]] = H[t.kid[-x][m]] + 1
          BY <2>2, <2>3, <2>4, <2>7, <3>4 DEF AvMoreIf
        <4>2. u.balance[m] = -x
          BY <3>1, <3>4 DEF AvSide
        <4>3. QED
          BY <2>1, <2>3, <3>1, <4>1, <4>2 DEF AvLevel, AvSide
      <3>5. QED
        BY <3>2, <3>3, <3>4
    <2>8. QED
      BY <2>6, <2>7
  <1>11. ASSUME NEW x \in AvSide
         PROVE  AvLevel(x, u.balance[k], G[u.kid[x][k]], G[u.kid[-x][k]], G[k])
    <2>1. u.kid[x][k] = AvNull /\ u.kid[-x][k] = AvNull /\ u.balance[k] = 0
      BY <1>0, <1>5, AvSides
    <2>2. G[AvNull] = -1 /\ G[k] = 0
      BY <1>2, <1>3, <1>4, <1>6
    <2>3. QED
      BY <2>1, <2>2 DEF AvLevel
  <1>12. AvHeightsBut(u, N, G, {top})
    BY <1>9, <1>10, <1>11 DEF AvHeightsBut
  <1>13. \A x \in AvSide : G[u.kid[x][top]] = H[t.kid[x][top]] + AvMoreIf(x = AvToward(top, k))
    <2>1. top \in M /\ top \in B
      BY <1>3, <1>4
    <2>2. QED
      BY <1>8, <2>1
  <1>14. G[top] = H[top] /\ G[t.root] = H[t.root]
    <2>1. t.root \in M /\ t.parent[t.root] = AvNull
      BY <1>3 DEF AvWay, AvOrdered
    <2>2. t.root \notin B \/ t.root = top
      <3>1. AvNull \notin B
        BY <1>3, <1>4
      <3>2. t.root \in B /\ t.root # top => t.parent[t.root] \in B
        BY <1>3
      <3>3. QED
        BY <2>1, <3>1, <3>2
    <2>3. top \in AvLink /\ top # k /\ t.root \in AvLink /\ t.root # k
      <3>1. top \in M
        BY <1>3, <1>4
      <3>2. M \subseteq AvLink
        BY <1>4
      <3>3. QED
        BY <2>1, <3>1, <3>2
    <2>4. G[top] = H[top]
      BY <1>6, <2>3
    <2>5. G[t.root] = H[t.root]
      BY <1>6, <2>2, <2>3
    <2>6. QED
      BY <2>4, <2>5
  <1>15. QED
    BY <1>12, <1>13, <1>14 DEF AvGrownHigh

-----------------------------------------------------------------------------
(* The tree as it is between operations.                                   *)

\* first and last are the extreme members.
AvEnded(t, M) ==
    \A s \in AvSide :
      IF M = {} THEN t.end[s] = AvNull
      ELSE t.end[s] \in M /\ \A m \in M : m = t.end[s] \/ AvBeyond(s, t.end[s], m)

AvWell(t, M) ==
    \E U, H : /\ AvOrdered(t, M, U) /\ AvHeightsBut(t, M, H, {})
              /\ t.height = H[t.root] /\ AvEnded(t, M)

LEMMA AvSeenRight ==
    ASSUME NEW t, NEW M, NEW U, AvOrdered(t, M, U), NEW H, NEW a, NEW x, NEW e,
           AvHeights(t, M, H, a, x, e), e = 0 \/ a \notin M
    PROVE  AvHeightsBut(t, M, H, {})
  <1>1. AvHigh(M, H) /\ H \in [AvLink -> Int]
    BY DEF AvHeights, AvHigh
  <1>2. ASSUME NEW m \in M, NEW s \in AvSide
        PROVE  AvSeen(t, H, m, s, a, x, e) = H[t.kid[s][m]]
    <2>1. H[t.kid[s][m]] \in Int
      BY <1>1, <1>2, AvChildIs
    <2>2. QED
      BY <1>2, <2>1 DEF AvSeen
  <1>3. \A s \in AvSide : -s \in AvSide
    BY AvSides
  <1>4. \A m \in M : \A s \in AvSide : AvLevel(s, t.balance[m], H[t.kid[s][m]], H[t.kid[-s][m]], H[m])
    BY <1>2, <1>3 DEF AvHeights
  <1>5. QED
    BY <1>1, <1>4 DEF AvHeightsBut

LEMMA AvEndsGrow ==
    ASSUME NEW t, NEW M, NEW U, AvOrdered(t, M, U), AvEnded(t, M), NEW k \in AvKey, k \notin M,
           NEW p \in M, NEW s \in AvSide, AvBeyond(s, k, p),
           NEW b, NEW u, AvHung(t, p, s, k, b, u),
           NEW N, N = M \cup {k}, NEW V, AvOrdered(u, N, V)
    PROVE  AvEnded(u, N)
  <1>1. M \subseteq Int /\ k \in Int /\ p \in Int /\ p # k /\ p \in AvKey /\ M \subseteq AvKey
    BY AvKeys DEF AvOrdered
  <1>2. \A x \in AvSide : u.end[x] = IF x = s /\ t.end[s] = p THEN k ELSE t.end[x]
    BY DEF AvHung
  <1>3. \A x \in AvSide : t.end[x] \in M /\ \A m \in M : m = t.end[x] \/ AvBeyond(x, t.end[x], m)
    BY DEF AvEnded
  <1>4. ASSUME NEW x \in AvSide
        PROVE  u.end[x] \in N /\ \A m \in N : m = u.end[x] \/ AvBeyond(x, u.end[x], m)
    <2> DEFINE e == t.end[x]
    <2>1. e \in M /\ e \in Int /\ \A m \in M : m = e \/ AvBeyond(x, e, m)
      BY <1>1, <1>3, <1>4
    <2> HIDE DEF e
    <2>2. CASE x = s /\ e = p
      <3>1. u.end[x] = k
        BY <1>2, <2>2 DEF e
      <3>2. \A m \in M : AvBeyond(x, k, m)
        <4>1. \A m \in M : m = p \/ AvBeyond(s, p, m)
          BY <2>1, <2>2
        <4>2. QED
          BY <1>1, <2>2, <4>1, AvOrder
      <3>3. QED
        BY <3>1, <3>2
    <2>3. CASE ~(x = s /\ e = p)
      <3>1. u.end[x] = e
        BY <1>2, <1>4, <2>3 DEF e
      <3>2. AvBeyond(x, e, k)
        <4>1. CASE x = s
          <5>1. e # p /\ AvBeyond(s, e, p)
            BY <2>1, <2>3, <4>1
          <5>2. SUFFICES ASSUME ~AvBeyond(s, e, k) PROVE FALSE
            BY <4>1
          <5>3. e # k
            BY <2>1
          <5>4. AvBeyond(s, k, e)
            BY <1>1, <2>1, <5>2, <5>3, AvOrder
          <5>5. V[p] = {p} \cup V[u.kid[s][p]] \cup V[u.kid[-s][p]] /\ u.kid[s][p] = k /\ k # AvNull
            <6>1. u.kid[s][p] = k
              BY <1>1 DEF AvHung
            <6>2. k # AvNull /\ p \in N
              BY AvKeys
            <6>3. QED
              BY <6>1, <6>2, AvBelow
          <5>6. k \in V[k] /\ p \in V[p] /\ k \in V[p]
            <6>1. k \in N /\ p \in N
              OBVIOUS
            <6>2. k \in V[k]
              BY <6>1, AvChildIs
            <6>3. p \in V[p]
              BY <5>5
            <6>4. QED
              BY <5>5, <6>2, <6>3
          <5>7. e \in V[p]
            <6>1. e \in N /\ p \in N
              BY <2>1
            <6>2. QED
              BY <5>1, <5>4, <5>6, <6>1, AvConvex
          <5>8. e \in V[k]
            <6>1. -s \in AvSide /\ p \in N
              BY AvSides
            <6>2. e \in V[u.kid[-s][p]] => AvBeyond(-s, e, p)
              BY <6>1, AvBelow
            <6>3. ~AvBeyond(-s, e, p)
              BY <1>1, <2>1, <5>1, AvOrder
            <6>4. QED
              BY <5>1, <5>5, <5>7, <6>2, <6>3
          <5>9. V[k] = {k} \cup V[u.kid[s][k]] \cup V[u.kid[-s][k]]
            BY AvBelow
          <5>10. u.kid[s][k] = AvNull /\ u.kid[-s][k] = AvNull /\ V[AvNull] = {}
            BY AvSides DEF AvHung, AvOrdered
          <5>11. QED
            BY <5>3, <5>8, <5>9, <5>10
        <4>2. CASE x # s
          <5>1. x = -s
            BY <4>2, AvSides
          <5>2. AvBeyond(x, p, k)
            BY <1>1, <5>1, AvOrder
          <5>3. p = e \/ AvBeyond(x, e, p)
            BY <2>1
          <5>4. QED
            BY <1>1, <2>1, <5>2, <5>3, AvOrder
        <4>3. QED
          BY <4>1, <4>2
      <3>3. QED
        BY <2>1, <3>1, <3>2
    <2>4. QED
      BY <2>2, <2>3
  <1>5. QED
    BY <1>4 DEF AvEnded

LEMMA AvEndPut ==
    ASSUME NEW t \in AvTree, NEW e \in [AvSide -> AvLink]
    PROVE  LET u == [t EXCEPT !.end = e] IN
           /\ u \in AvTree /\ u.root = t.root /\ u.kid = t.kid /\ u.parent = t.parent
           /\ u.balance = t.balance /\ u.end = e /\ u.height = t.height
  BY DEF AvTree

LEMMA AvHeightPut ==
    ASSUME NEW t \in AvTree, NEW h \in Int
    PROVE  LET u == [t EXCEPT !.height = h] IN
           /\ u \in AvTree /\ u.root = t.root /\ u.kid = t.kid /\ u.parent = t.parent
           /\ u.balance = t.balance /\ u.end = t.end /\ u.height = h
  BY DEF AvTree

LEMMA AvInsertsFirst ==
    ASSUME NEW t, NEW U, AvOrdered(t, {}, U), t.height = -1, NEW k \in AvKey,
           NEW u, AvIs(u, [AvClear(t, k) EXCEPT !.root = k, !.end = [s \in AvSide |-> k], !.height = @ + 1])
    PROVE  AvWell(u, {k})
  <1> DEFINE a == AvClear(t, k)
             V == [x \in AvLink |-> IF x = k THEN {k} ELSE {}]
             G == [x \in AvLink |-> IF x = k THEN 0 ELSE -1]
             N == {k}
  <1>1. t \in AvTree
    BY DEF AvOrdered
  <1>2. AvCleared(t, k, a)
    BY <1>1, AvClearIs
  <1>3. u = [a EXCEPT !.root = k, !.end = [s \in AvSide |-> k], !.height = @ + 1]
    BY DEF AvIs
  <1> HIDE DEF a
  <1>4. a \in AvTree /\ a.height = -1
    BY <1>2 DEF AvCleared
  <1>5. k \in AvLink /\ k # AvNull /\ AvNull \in AvLink
    BY AvKeys
  <1>6. /\ u \in AvTree /\ u.kid = a.kid /\ u.parent = a.parent /\ u.balance = a.balance
        /\ u.root = k /\ \A s \in AvSide : u.end[s] = k
        /\ u.height = 0
    <2> DEFINE e == [s \in AvSide |-> k]
    <2>1. e \in [AvSide -> AvLink] /\ \A s \in AvSide : e[s] = k
      BY <1>5
    <2> DEFINE b == [a EXCEPT !.root = k]
               c == [b EXCEPT !.end = e]
    <2>2. u = [c EXCEPT !.height = @ + 1]
      BY <1>3
    <2> HIDE DEF e
    <2>3. /\ b \in AvTree /\ b.kid = a.kid /\ b.parent = a.parent /\ b.balance = a.balance
          /\ b.root = k /\ b.height = a.height
      BY <1>4, <1>5, AvRootPut
    <2> HIDE DEF b
    <2>4. /\ c \in AvTree /\ c.kid = b.kid /\ c.parent = b.parent /\ c.balance = b.balance
          /\ c.root = k /\ c.end = e /\ c.height = b.height
      BY <2>1, <2>3, AvEndPut
    <2> HIDE DEF c
    <2>5. u = [c EXCEPT !.height = 0]
      BY <1>4, <2>2, <2>3, <2>4 DEF AvTree
    <2>6. /\ u \in AvTree /\ u.kid = c.kid /\ u.parent = c.parent /\ u.balance = c.balance
          /\ u.root = k /\ u.end = e /\ u.height = 0
      BY <2>4, <2>5, AvHeightPut
    <2>7. QED
      BY <2>1, <2>3, <2>4, <2>6
  <1>7. u.parent[k] = AvNull /\ u.balance[k] = 0 /\ \A x \in AvSide : u.kid[x][k] = AvNull
    BY <1>2, <1>6 DEF AvCleared
  <1>8. V[AvNull] = {} /\ V[k] = {k} /\ G[AvNull] = -1 /\ G[k] = 0
    BY <1>5
  <1>9. V \in [AvLink -> SUBSET N] /\ G \in [AvLink -> Int]
    OBVIOUS
  <1> HIDE DEF V, G
  <1>10. \A s \in AvSide : u.kid[s][k] = AvNull /\ u.kid[-s][k] = AvNull
    BY <1>7, AvSides
  <1>11. AvNode(u, N, V, k)
    BY <1>8, <1>10 DEF AvNode, AvEdge
  <1>12. AvOrdered(u, N, V)
    BY <1>6, <1>7, <1>8, <1>9, <1>11 DEF AvOrdered
  <1>13. AvHigh(N, G)
    BY <1>8, <1>9 DEF AvHigh
  <1>14. \A s \in AvSide : AvLevel(s, u.balance[k], G[u.kid[s][k]], G[u.kid[-s][k]], G[k])
    BY <1>7, <1>8, <1>10 DEF AvLevel
  <1>15. AvHeightsBut(u, N, G, {})
    BY <1>13, <1>14 DEF AvHeightsBut
  <1>16. AvEnded(u, N)
    BY <1>6 DEF AvEnded
  <1>17. u.height = G[u.root]
    BY <1>6, <1>8
  <1>18. QED
    BY <1>12, <1>15, <1>16, <1>17 DEF AvWell

LEMMA AvHungBalanced ==
    ASSUME NEW t, NEW p, NEW s, NEW k, NEW a, AvHung(t, p, s, k, a.balance, a),
           NEW b \in [AvKey -> -2 .. 2],
           NEW u, u = [a EXCEPT !.balance = b]
    PROVE  AvHung(t, p, s, k, b, u)
  <1>1. a \in AvTree
    BY DEF AvHung
  <1>2. /\ u \in AvTree /\ u.kid = a.kid /\ u.parent = a.parent /\ u.root = a.root
        /\ u.end = a.end /\ u.height = a.height /\ u.balance = b
    BY <1>1 DEF AvTree
  <1>3. QED
    BY <1>2 DEF AvHung

\* The three ways in which the last node that leans takes a leaf on side w.
LEMMA AvLevelLeaf ==
    ASSUME NEW w \in AvSide, NEW b, NEW l \in Int, NEW m \in Int, NEW h, AvLevel(w, b, l, m, h)
    PROVE  /\ b \in {-w, 0, w}
           /\ b = 0 => AvLevel(w, b + w, l + 1, m, h + 1) /\ b + w \in AvSide
           /\ b = -w => AvLevel(w, b + w, l + 1, m, h) /\ b + w = 0
           /\ b = w => l + 1 = m + 2 /\ h = m + 2 /\ (b + w) \div 2 = w /\ b + w \notin {-1, 0, 1}
  <1>1. CASE w = 1
    BY <1>1 DEF AvLevel, AvSide
  <1>2. CASE w = -1
    BY <1>2 DEF AvLevel, AvSide
  <1>3. QED
    BY <1>1, <1>2 DEF AvSide

\* A member that the tree has at its root becomes one level higher.
LEMMA AvRootRises ==
    ASSUME NEW t, NEW M, NEW U, AvOrdered(t, M, U), NEW top \in M, top = t.root,
           NEW G, AvHeightsBut(t, M, G, {top}), NEW w \in AvSide,
           AvLevel(w, t.balance[top], G[t.kid[w][top]], G[t.kid[-w][top]], G[top] + 1),
           NEW F, AvIs(F, [G EXCEPT ![top] = @ + 1])
    PROVE  AvHeightsBut(t, M, F, {})
  <1>1. M \subseteq AvLink /\ AvNull \in AvLink /\ top # AvNull /\ AvNull \notin M
    BY AvKeys DEF AvOrdered
  <1>2. G \in [AvLink -> Int] /\ G[AvNull] = -1 /\ \A m \in M : G[m] >= 0
    BY DEF AvHeightsBut, AvHigh
  <1>3. F \in [AvLink -> Int] /\ F[top] = G[top] + 1 /\ \A x \in AvLink : x # top => F[x] = G[x]
    BY <1>1, <1>2 DEF AvIs
  <1>4. AvHigh(M, F)
    <2>1. \A m \in M : F[m] >= 0
      BY <1>1, <1>2, <1>3
    <2>2. QED
      BY <1>1, <1>2, <1>3, <2>1 DEF AvHigh
  <1>5. ASSUME NEW m \in M, NEW x \in AvSide
        PROVE  F[t.kid[x][m]] = G[t.kid[x][m]]
    <2>1. t.kid[x][m] \in AvLink
      BY AvChildIs
    <2>2. t.kid[x][m] # top
      <3>1. SUFFICES ASSUME t.kid[x][m] = top PROVE FALSE
        OBVIOUS
      <3>2. t.parent[top] = m
        BY <1>1, <3>1, AvBelow
      <3>3. t.parent[top] = AvNull
        BY <1>1 DEF AvOrdered
      <3>4. QED
        BY <1>1, <3>2, <3>3
    <2>3. QED
      BY <1>3, <2>1, <2>2
  <1>6. ASSUME NEW m \in M, NEW x \in AvSide
        PROVE  AvLevel(x, t.balance[m], F[t.kid[x][m]], F[t.kid[-x][m]], F[m])
    <2>1. F[t.kid[x][m]] = G[t.kid[x][m]] /\ F[t.kid[-x][m]] = G[t.kid[-x][m]]
      BY <1>5, <1>6, AvSides
    <2>2. CASE m = top
      <3>1. AvLevel(w, t.balance[top], F[t.kid[w][top]], F[t.kid[-w][top]], F[top])
        <4>1. F[t.kid[w][top]] = G[t.kid[w][top]] /\ F[t.kid[-w][top]] = G[t.kid[-w][top]]
          BY <1>5, AvSides
        <4>2. QED
          BY <1>3, <4>1
      <3>2. F[t.kid[w][top]] \in Int /\ F[t.kid[-w][top]] \in Int
        <4>1. t.kid[w][top] \in AvLink /\ -w \in AvSide
          BY AvChildIs, AvSides
        <4>2. t.kid[-w][top] \in AvLink
          BY <4>1, AvChildIs
        <4>3. QED
          BY <1>3, <4>1, <4>2
      <3>3. QED
        BY <1>6, <2>2, <3>1, <3>2, AvLevelBoth
    <2>3. CASE m # top
      <3>1. AvLevel(x, t.balance[m], G[t.kid[x][m]], G[t.kid[-x][m]], G[m])
        BY <1>6, <2>3 DEF AvHeightsBut
      <3>2. F[m] = G[m]
        BY <1>1, <1>3, <1>6, <2>3
      <3>3. QED
        BY <2>1, <3>1, <3>2
    <2>4. QED
      BY <2>2, <2>3
  <1>7. QED
    BY <1>4, <1>6 DEF AvHeightsBut

LEMMA AvLevelled ==
    ASSUME NEW t, NEW M, NEW U, AvOrdered(t, M, U), NEW n \in M, NEW H, AvHeightsBut(t, M, H, {n}),
           NEW w \in AvSide, AvLevel(w, t.balance[n], H[t.kid[w][n]], H[t.kid[-w][n]], H[n])
    PROVE  AvHeightsBut(t, M, H, {})
  <1>1. H \in [AvLink -> Int]
    BY DEF AvHeightsBut, AvHigh
  <1>2. t.kid[w][n] \in AvLink /\ -w \in AvSide
    BY AvChildIs, AvSides
  <1>3. t.kid[-w][n] \in AvLink
    BY <1>2, AvChildIs
  <1>4. H[t.kid[w][n]] \in Int /\ H[t.kid[-w][n]] \in Int
    BY <1>1, <1>2, <1>3
  <1>5. \A x \in AvSide : AvLevel(x, t.balance[n], H[t.kid[x][n]], H[t.kid[-x][n]], H[n])
    BY <1>4, AvLevelBoth
  <1>6. QED
    BY <1>5 DEF AvHeightsBut

\* A rebalance that leaves the subtree as high as it was.
LEMMA AvRebalancedWell ==
    ASSUME NEW t, NEW M, NEW U, AvOrdered(t, M, U), NEW n \in M, NEW H, NEW e, NEW u,
           AvRebalanced(t, M, U, H, n, e, u), e = 0, t.height = H[t.root], AvEnded(t, M),
           H[n] \in Int
    PROVE  AvWell(u, M)
  <1>1. PICK V, G : \E top \in M :
          /\ AvOrdered(u, M, V) /\ V[top] = U[n] /\ u.parent[top] = t.parent[n]
          /\ AvHeights(u, M, G, t.parent[n], AvSideOf(t, t.parent[n], n), e)
          /\ u.root = IF t.root = n THEN top ELSE t.root
          /\ G[u.root] = IF t.root = n THEN H[n] - e ELSE H[t.root]
          /\ u.end = t.end /\ u.height = t.height
    BY DEF AvRebalanced
  <1>2. AvOrdered(u, M, V) /\ u.end = t.end /\ u.height = t.height
    BY <1>1
  <1>3. AvHeights(u, M, G, t.parent[n], AvSideOf(t, t.parent[n], n), e)
    BY <1>1
  <1>4. AvHeightsBut(u, M, G, {})
    BY <1>2, <1>3, AvSeenRight
  <1>5. G[u.root] = H[t.root]
    BY <1>1
  <1>6. AvEnded(u, M)
    BY <1>2 DEF AvEnded
  <1>7. QED
    BY <1>2, <1>4, <1>5, <1>6 DEF AvWell

AvInsertBalanced(new, top) ==
    CASE new.balance[top] \in AvSide -> [new EXCEPT !.height = @ + 1]
      [] new.balance[top] = 0 -> new
      [] OTHER -> AvRebalance(new, top, new.balance[top] \div 2)

LEMMA AvInsertsLeaf ==
    ASSUME NEW t, NEW M, NEW U, AvOrdered(t, M, U), NEW k \in AvKey, k \notin M,
           NEW l, NEW P, AvLooked(t, M, U, k, l, P), NEW p, p = l.parent, p # AvNull, l.node = AvNull,
           NEW s, s = AvToward(p, k), NEW B, B = l.below, NEW top, top = l.unbalanced,
           NEW H, AvHeightsBut(t, M, H, {}), t.height = H[t.root], AvEnded(t, M),
           NEW b, AvLeafBalances(t, B, k, b),
           NEW u, AvHung(t, p, s, k, b, u), NEW N, N = M \cup {k}
    PROVE  AvWell(AvInsertBalanced(u, top), N)
  <1> DEFINE V == AvGrow(U, P, k)
             G == AvGrowHigh(H, B, top, k)
             w == AvToward(top, k)
  <1>1. M \subseteq AvKey /\ p \in M /\ p \in P /\ t.kid[s][p] = AvNull /\ AvWay(t, M, k, p, P)
    BY DEF AvLooked, AvWay, AvOrdered
  <1>2. AvOrdered(u, N, V)
    BY <1>1, AvGrows DEF AvIs
  <1>3. /\ AvHeightsBut(u, N, G, {top})
        /\ \A x \in AvSide : G[u.kid[x][top]] = H[t.kid[x][top]] + AvMoreIf(x = AvToward(top, k))
        /\ G[top] = H[top] /\ G[t.root] = H[t.root]
    <2>1. AvGrownHigh(t, H, k, top, u, N, G)
      BY AvGrowsHigh DEF AvIs
    <2>2. QED
      BY <2>1 DEF AvGrownHigh
  <1> HIDE DEF V, G
  <1>0. \A m \in AvKey : b[m] = IF m = k THEN 0 ELSE IF m \in B THEN t.balance[m] + AvToward(m, k)
                                 ELSE t.balance[m]
    BY DEF AvLeafBalances
  <1>4. s \in AvSide /\ AvBeyond(s, k, p)
    <2>1. p \in Int /\ k \in Int /\ p # k
      BY <1>1, AvKeys
    <2>2. QED
      BY <2>1, AvTowardIs
  <1>5. AvEnded(u, N)
    BY <1>1, <1>2, <1>4, AvEndsGrow
  <1>6. top \in M /\ top \in B /\ top \in AvKey /\ top # k /\ top \in N
    BY <1>1 DEF AvLooked, AvWay
  <1>7. w \in AvSide /\ -w \in AvSide /\ -w # w
    <2>1. w \in AvSide
      BY <1>6, AvTowardIs, AvKeys
    <2>2. QED
      BY <2>1, AvSides
  <1>8. u.balance[top] = t.balance[top] + w
    BY <1>0, <1>6 DEF AvHung
  <1> DEFINE high == H[t.kid[w][top]]
             low == H[t.kid[-w][top]]
  <1>9. high \in Int /\ low \in Int /\ low >= -1 /\ AvLevel(w, t.balance[top], high, low, H[top])
    <2>1. t.kid[w][top] \in AvLink /\ t.kid[-w][top] \in AvLink
      BY <1>6, <1>7, AvChildIs
    <2>2. H \in [AvLink -> Int] /\ H[AvNull] = -1 /\ \A m \in M : H[m] >= 0
      BY DEF AvHeightsBut, AvHigh
    <2>3. t.kid[-w][top] # AvNull => t.kid[-w][top] \in M
      BY <1>6, <1>7, AvBelow
    <2>4. H[t.kid[-w][top]] >= -1
      <3>1. CASE t.kid[-w][top] = AvNull
        BY <2>2, <3>1
      <3>2. CASE t.kid[-w][top] # AvNull
        <4>1. H[t.kid[-w][top]] >= 0 /\ H[t.kid[-w][top]] \in Int
          BY <2>1, <2>2, <2>3, <3>2
        <4>2. QED
          BY <4>1
      <3>3. QED
        BY <3>1, <3>2
    <2>5. AvLevel(w, t.balance[top], H[t.kid[w][top]], H[t.kid[-w][top]], H[top])
      BY <1>6, <1>7 DEF AvHeightsBut
    <2>6. QED
      BY <2>1, <2>2, <2>4, <2>5
  <1>10. G[u.kid[w][top]] = high + 1 /\ G[u.kid[-w][top]] = low
    <2>1. G[u.kid[w][top]] = high + 1
      BY <1>3, <1>7 DEF AvMoreIf
    <2>2. G[u.kid[-w][top]] = low
      BY <1>3, <1>7, <1>9 DEF AvMoreIf
    <2>3. QED
      BY <2>1, <2>2
  <1>11. u.root = t.root /\ u.height = t.height /\ u \in AvTree
    BY DEF AvHung
  <1>12. u.height = G[u.root] /\ G[top] = H[top] /\ G[top] \in Int
    <2>1. G[top] \in Int
      BY <1>3, <1>6, AvKeys DEF AvHeightsBut, AvHigh
    <2>2. QED
      BY <1>3, <1>11, <2>1
  <1> HIDE DEF high, low
  <1>13. /\ t.balance[top] \in {-w, 0, w}
         /\ t.balance[top] = 0 => AvLevel(w, u.balance[top], high + 1, low, H[top] + 1) /\ u.balance[top] \in AvSide
         /\ t.balance[top] = -w => AvLevel(w, u.balance[top], high + 1, low, H[top]) /\ u.balance[top] = 0
         /\ t.balance[top] = w => high + 1 = low + 2 /\ H[top] = low + 2 /\ u.balance[top] \div 2 = w
                                  /\ u.balance[top] \notin {-1, 0, 1}
    <2> DEFINE o == t.balance[top]
    <2>1. /\ o \in {-w, 0, w}
          /\ o = 0 => AvLevel(w, o + w, high + 1, low, H[top] + 1) /\ o + w \in AvSide
          /\ o = -w => AvLevel(w, o + w, high + 1, low, H[top]) /\ o + w = 0
          /\ o = w => high + 1 = low + 2 /\ H[top] = low + 2 /\ (o + w) \div 2 = w /\ o + w \notin {-1, 0, 1}
      BY <1>7, <1>9, AvLevelLeaf
    <2>2. QED
      BY <1>8, <2>1
  <1>14. CASE t.balance[top] = 0
    <2> DEFINE F == [G EXCEPT ![top] = @ + 1]
               v == [u EXCEPT !.height = @ + 1]
    <2>1. top = t.root
      BY <1>14 DEF AvLooked
    <2>2. AvHeightsBut(u, N, F, {})
      <3>1. AvLevel(w, u.balance[top], G[u.kid[w][top]], G[u.kid[-w][top]], G[top] + 1)
        BY <1>10, <1>12, <1>13, <1>14
      <3>2. QED
        BY <1>2, <1>3, <1>6, <1>7, <1>11, <2>1, <3>1, AvRootRises DEF AvIs
    <2>3. F[top] = G[top] + 1
      <3>1. G \in [AvLink -> Int] /\ top \in AvLink
        BY <1>3, <1>6, AvKeys DEF AvHeightsBut, AvHigh
      <3>2. QED
        BY <3>1
    <2>4. v = [u EXCEPT !.height = u.height + 1] /\ u.height + 1 \in Int
      BY <1>11, AvTreeFields
    <2>5. /\ v \in AvTree /\ v.root = u.root /\ v.kid = u.kid /\ v.parent = u.parent
          /\ v.balance = u.balance /\ v.end = u.end /\ v.height = u.height + 1
      BY <1>11, <2>4, AvHeightPut
    <2> HIDE DEF F, v
    <2>6. AvOrdered(v, N, V)
      BY <1>2, <2>5, AvAlike
    <2>7. AvHeightsBut(v, N, F, {})
      BY <2>2, <2>5 DEF AvHeightsBut
    <2>8. AvEnded(v, N)
      BY <1>5, <2>5 DEF AvEnded
    <2>9. v.height = F[v.root]
      BY <1>11, <1>12, <2>1, <2>3, <2>5
    <2>10. AvWell(v, N)
      BY <2>6, <2>7, <2>8, <2>9 DEF AvWell
    <2>11. AvInsertBalanced(u, top) = v
      <3>1. u.balance[top] \in AvSide /\ u.balance[top] # 0
        BY <1>13, <1>14 DEF AvSide
      <3>2. v = [u EXCEPT !.height = @ + 1]
        BY DEF v
      <3>3. QED
        BY <3>1, <3>2 DEF AvInsertBalanced
    <2>12. QED
      BY <2>10, <2>11
  <1>15. CASE t.balance[top] = -w
    <2>1. AvLevel(w, u.balance[top], G[u.kid[w][top]], G[u.kid[-w][top]], G[top])
      BY <1>10, <1>12, <1>13, <1>15
    <2>2. AvHeightsBut(u, N, G, {})
      BY <1>2, <1>3, <1>6, <1>7, <2>1, AvLevelled
    <2>3. AvWell(u, N)
      BY <1>2, <1>5, <1>12, <2>2 DEF AvWell
    <2>4. AvInsertBalanced(u, top) = u
      BY <1>13, <1>15 DEF AvInsertBalanced, AvSide
    <2>5. QED
      BY <2>3, <2>4
  <1>16. CASE t.balance[top] = w
    <2> DEFINE c == t.kid[w][top]
    <2>1. high >= 0
      BY <1>9, <1>13, <1>16
    <2>2. c # AvNull
      BY <2>1 DEF high, AvHeightsBut, AvHigh
    <2>3. top # p
      BY <1>1, <2>2
    <2>4. c \in B /\ c \in M
      BY <1>6, <1>7, <2>2, <2>3, AvBelow DEF AvLooked
    <2>5. c # top
      BY <1>6, <1>7, AvChildIs
    <2>6. t.balance[c] = 0 /\ c \in AvKey /\ c # k
      BY <1>1, <2>4, <2>5 DEF AvLooked
    <2>7. u.kid[w][top] = c
      BY <1>6, <1>7, <2>3 DEF AvHung
    <2> HIDE DEF c
    <2>8. u.balance[c] # 0
      <3>1. u.balance[c] = 0 + AvToward(c, k)
        BY <1>0, <2>4, <2>6 DEF AvHung
      <3>2. QED
        BY <3>1 DEF AvToward
    <2> DEFINE h == G[u.kid[-w][top]]
    <2>9. h = low /\ G[u.kid[w][top]] = h + 2 /\ G[top] = h + 2
      BY <1>10, <1>12, <1>13, <1>16
    <2>10. AvRebalanced(u, N, V, G, top, G[top] - (h + 2), AvRebalance(u, top, w))
      <3>1. u.balance[u.kid[w][top]] # 0
        BY <2>7, <2>8
      <3>2. QED
        BY <1>2, <1>3, <1>6, <1>7, <2>9, <3>1, AvRebalances
    <2> HIDE DEF h
    <2>11. G[top] - (h + 2) = 0
      BY <1>9, <2>9
    <2>12. AvWell(AvRebalance(u, top, w), N)
      BY <1>2, <1>5, <1>6, <1>12, <2>10, <2>11, AvRebalancedWell
    <2>13. AvInsertBalanced(u, top) = AvRebalance(u, top, w)
      BY <1>13, <1>16 DEF AvInsertBalanced, AvSide
    <2>14. QED
      BY <2>12, <2>13
  <1>17. QED
    BY <1>13, <1>14, <1>15, <1>16

LEMMA AvInsertsBelow ==
    ASSUME NEW t, NEW M, NEW U, AvOrdered(t, M, U), NEW k \in AvKey, k \notin M,
           NEW l, NEW P, AvLooked(t, M, U, k, l, P), l.parent # AvNull, l.node = AvNull,
           NEW H, AvHeightsBut(t, M, H, {}), t.height = H[t.root], AvEnded(t, M),
           NEW a, AvIs(a, AvHang(t, l.parent, k)),
           NEW b, AvIs(b, [n \in AvKey |-> IF n \in l.below THEN a.balance[n] + AvToward(n, k) ELSE a.balance[n]]),
           NEW u, AvIs(u, [a EXCEPT !.balance = b])
    PROVE  AvWell(AvInsertBalanced(u, l.unbalanced), M \cup {k})
  <1> DEFINE p == l.parent
             s == AvToward(p, k)
  <1>1. t \in AvTree /\ M \subseteq AvKey /\ p \in M /\ p \in AvKey /\ p # k /\ l.below \subseteq M
    BY DEF AvLooked, AvWay, AvOrdered
  <1>2. /\ AvHung(t, p, s, k, a.balance, a)
        /\ \A m \in AvKey : a.balance[m] = IF m = k THEN 0 ELSE t.balance[m]
    BY <1>1, AvHangIs DEF AvIs
  <1>3. b \in [AvKey -> -2 .. 2]
    <2>1. a \in AvTree
      BY <1>2 DEF AvHung
    <2>2. \A n \in AvKey : a.balance[n] \in -2 .. 2
      BY <2>1, AvTreeFields
    <2>3. ASSUME NEW n \in l.below PROVE a.balance[n] + AvToward(n, k) \in -2 .. 2
      <3>1. n \in M /\ n # k /\ n \in AvKey
        BY <1>1, <2>3
      <3>2. AvLevel(1, t.balance[n], H[t.kid[1][n]], H[t.kid[-1][n]], H[n])
        BY <3>1, AvSides DEF AvHeightsBut
      <3>3. a.balance[n] \in {-1, 0, 1}
        BY <1>2, <3>1, <3>2 DEF AvLevel
      <3>4. QED
        BY <3>3 DEF AvToward
    <2>4. QED
      BY <2>2, <2>3 DEF AvIs
  <1>4. AvHung(t, p, s, k, b, u)
    BY <1>2, <1>3, AvHungBalanced DEF AvIs
  <1>5. AvLeafBalances(t, l.below, k, b)
    <2>1. k \notin l.below
      BY <1>1
    <2>2. QED
      BY <1>2, <2>1 DEF AvIs, AvLeafBalances
  <1>6. QED
    BY <1>4, <1>5, AvInsertsLeaf

\* An insertion keeps the tree well formed.
LEMMA AvInserts ==
    ASSUME NEW t, NEW M, AvWell(t, M), NEW k \in AvKey, k \notin M
    PROVE  AvWell(AvInserted(t, k), M \cup {k})
  <1>1. PICK U, H : /\ AvOrdered(t, M, U) /\ AvHeightsBut(t, M, H, {})
                    /\ t.height = H[t.root] /\ AvEnded(t, M)
    BY DEF AvWell
  <1> DEFINE l == AvLookup(t, k)
  <1>2. /\ \E P : AvLooked(t, M, U, k, l, P)
        /\ l.node \in {AvNull, k}
        /\ l.node # k
    BY <1>1, AvLookupIs DEF AvFound
  <1> HIDE DEF l
  <1>3. PICK P : AvLooked(t, M, U, k, l, P)
    BY <1>2
  <1>4. l.node = AvNull
    BY <1>2
  <1>5. CASE l.parent = AvNull
    <2>1. t.root = AvNull
      BY <1>3, <1>4, <1>5 DEF AvLooked
    <2>2. M = {} /\ t.height = -1
      BY <1>1, <2>1 DEF AvOrdered, AvHeightsBut, AvHigh
    <2>3. AvInserted(t, k) = [AvClear(t, k) EXCEPT !.root = k, !.end = [s \in AvSide |-> k], !.height = @ + 1]
      BY <1>5 DEF AvInserted, l
    <2>4. AvWell(AvInserted(t, k), {k})
      BY <1>1, <2>2, <2>3, AvInsertsFirst DEF AvIs
    <2>5. QED
      BY <2>2, <2>4
  <1>6. CASE l.parent # AvNull
    <2> DEFINE a == AvHang(t, l.parent, k)
               b == [n \in AvKey |-> IF n \in l.below THEN a.balance[n] + AvToward(n, k) ELSE a.balance[n]]
               u == [a EXCEPT !.balance = b]
    <2>1. AvInserted(t, k) = AvInsertBalanced(u, l.unbalanced)
      BY <1>6 DEF AvInserted, AvInsertBalanced, l
    <2>2. AvWell(AvInsertBalanced(u, l.unbalanced), M \cup {k})
      BY <1>1, <1>3, <1>4, <1>6, AvInsertsBelow DEF AvIs
    <2>3. QED
      BY <2>1, <2>2
  <1>7. QED
    BY <1>5, <1>6

-----------------------------------------------------------------------------
(* The nodes that lie next to a node.                                      *)

\* m is the last of the members in S on side s.
AvLast(S, s, m) == m \in S /\ \A x \in S : x = m \/ AvBeyond(s, m, x)

LEMMA AvOutmostIs ==
    ASSUME NEW t, NEW M, NEW U, AvOrdered(t, M, U), NEW n \in M, NEW s \in AvSide,
           NEW m, AvIs(m, AvOutmost(t, n, s))
    PROVE  /\ m \in M /\ t.kid[s][m] = AvNull
           /\ AvLast(U[n], s, m)
  <1> DEFINE round == [x \in AvKey |-> IF t.kid[s][x] = AvNull THEN x ELSE t.kid[s][x]]
             S == {z \in M \X Nat : /\ z[2] = Cardinality(U[z[1]])
                                    /\ z[1] \in U[n] /\ U[z[1]] \subseteq U[n]
                                    /\ \A x \in U[n] : x \in U[z[1]] \/ AvBeyond(s, z[1], x)}
             r == Cardinality(U[n])
  <1>1. M \subseteq AvKey /\ M \subseteq Int /\ AvNull \notin M /\ -s \in AvSide
    BY AvKeys, AvSides DEF AvOrdered
  <1>2. <<n, r>> \in S
    <2>1. r \in Nat /\ n \in U[n]
      BY AvCount, AvChildIs
    <2>2. QED
      BY <2>1
  <1>3. AvDescends(round, S)
    <2>1. SUFFICES ASSUME NEW y, NEW q, <<y, q>> \in S
                   PROVE  q \in Nat /\ (round[y] = y \/ \E p : p < q /\ <<round[y], p>> \in S)
      BY DEF AvDescends
    <2>2. /\ y \in M /\ q \in Nat /\ q = Cardinality(U[y]) /\ y \in U[n] /\ U[y] \subseteq U[n]
          /\ \A x \in U[n] : x \in U[y] \/ AvBeyond(s, y, x)
      BY <2>1
    <2>3. CASE t.kid[s][y] = AvNull
      BY <1>1, <2>2, <2>3
    <2>4. CASE t.kid[s][y] # AvNull
      <3> DEFINE c == t.kid[s][y]
      <3>1. round[y] = c
        BY <1>1, <2>2, <2>4
      <3>2. c \in M /\ c \in U[c] /\ U[c] \subseteq U[y] /\ AvBeyond(s, c, y)
        <4>1. c \in M /\ c \in U[c] /\ U[c] \subseteq U[y]
          BY <2>2, <2>4, AvBelow, AvChildIs
        <4>2. QED
          BY <2>2, <4>1, AvBelow
      <3>3. U[y] = {y} \cup U[c] \cup U[t.kid[-s][y]]
        BY <2>2, AvBelow
      <3>4. \A x \in U[t.kid[-s][y]] : AvBeyond(-s, x, y) /\ x \in M
        BY <1>1, <2>2, AvBelow
      <3>5. Cardinality(U[c]) \in Nat /\ Cardinality(U[c]) < q
        BY <2>2, AvCount
      <3>8. U[n] \subseteq M
        BY AvChildIs
      <3> HIDE DEF c
      <3>6. ASSUME NEW x \in U[n], x \notin U[c]
            PROVE  AvBeyond(s, c, x)
        <4>1. x = y \/ AvBeyond(s, y, x)
          <5>1. x \in U[t.kid[-s][y]] => AvBeyond(s, y, x)
            BY <1>1, <2>2, <3>4, AvOrder
          <5>2. QED
            BY <2>2, <3>3, <3>6, <5>1
        <4>2. x \in Int /\ y \in Int /\ c \in Int
          BY <1>1, <2>2, <3>2, <3>6, <3>8
        <4>3. QED
          BY <3>2, <4>1, <4>2, AvOrder
      <3>7. <<c, Cardinality(U[c])>> \in S
        <4>1. c \in U[n] /\ U[c] \subseteq U[n]
          BY <2>2, <3>2
        <4>2. QED
          BY <3>2, <3>5, <3>6, <4>1
      <3>9. QED
        BY <2>2, <3>1, <3>5, <3>7
    <2>5. QED
      BY <2>3, <2>4
  <1>4. m = AvLoop(round, n)[AvMany]
    BY DEF AvIs, AvOutmost
  <1>5. round[m] = m /\ \E q : <<m, q>> \in S
    <2>1. r <= AvMany
      BY AvCount, AvSides
    <2> HIDE DEF round, S, r
    <2>2. QED
      BY <1>2, <1>3, <1>4, <2>1, AvLoopEnds
  <1>6. /\ m \in M /\ m \in U[n]
        /\ \A x \in U[n] : x \in U[m] \/ AvBeyond(s, m, x)
    BY <1>5
  <1>7. t.kid[s][m] = AvNull
    <2>1. t.kid[s][m] # m
      BY <1>6, AvChildIs
    <2>2. QED
      BY <1>1, <1>5, <1>6, <2>1
  <1>8. U[m] = {m} \cup U[t.kid[-s][m]]
    <2>1. U[m] = {m} \cup U[t.kid[s][m]] \cup U[t.kid[-s][m]]
      BY <1>6, AvBelow
    <2>2. QED
      BY <1>7, <2>1 DEF AvOrdered
  <1>9. \A x \in U[t.kid[-s][m]] : AvBeyond(s, m, x)
    <2>1. \A x \in U[t.kid[-s][m]] : AvBeyond(-s, x, m) /\ x \in M
      BY <1>1, <1>6, AvBelow
    <2>2. QED
      BY <1>1, <1>6, <2>1, AvOrder
  <1>10. QED
    BY <1>6, <1>7, <1>8, <1>9 DEF AvLast

\* r is the member next to k on side s, if there is one.
AvBeside(M, k, s, r) ==
    IF \E x \in M : AvBeyond(s, x, k)
    THEN r \in M /\ AvBeyond(s, r, k) /\ \A x \in M : AvBeyond(s, x, k) => x = r \/ AvBeyond(s, x, r)
    ELSE r = AvNull

LEMMA AvNeighbourIs ==
    ASSUME NEW t, NEW M, NEW U, AvOrdered(t, M, U), NEW k \in M, NEW s \in AvSide
    PROVE  AvBeside(M, k, s, AvNeighbour(t, k, s))
  <1>1. M \subseteq AvKey /\ M \subseteq Int /\ AvNull \notin M /\ -s \in AvSide /\ k \in U[k] /\ U[k] \subseteq M
        /\ U[t.root] = M /\ (t.root # AvNull => t.root \in M /\ t.parent[t.root] = AvNull) /\ U[AvNull] = {}
    <2>1. M \subseteq AvKey /\ U[t.root] = M /\ U[AvNull] = {}
          /\ (t.root # AvNull => t.root \in M /\ t.parent[t.root] = AvNull)
      BY DEF AvOrdered
    <2>2. k \in U[k] /\ U[k] \subseteq M
      BY AvChildIs
    <2>3. -s \in AvSide
      BY AvSides
    <2>4. QED
      BY <2>1, <2>2, <2>3, AvKeys
  <1>2. CASE t.kid[s][k] # AvNull
    <2> DEFINE c == t.kid[s][k]
               r == AvOutmost(t, c, -s)
    <2>1. AvNeighbour(t, k, s) = r
      BY <1>2 DEF AvNeighbour
    <2>2. c \in M /\ U[c] \subseteq U[k] /\ \A x \in U[c] : AvBeyond(s, x, k) /\ x \in M
      <3>1. c \in M /\ U[c] \subseteq U[k]
        BY <1>2, AvBelow, AvChildIs
      <3>2. QED
        BY <3>1, AvBelow
    <2>3. AvLast(U[c], -s, r)
      BY <1>1, <2>2, AvOutmostIs DEF AvIs
    <2>4. U[k] = {k} \cup U[c] \cup U[t.kid[-s][k]]
      BY AvBelow
    <2>5. \A x \in U[t.kid[-s][k]] : AvBeyond(-s, x, k) /\ x \in M
      BY <1>1, AvBelow
    <2> HIDE DEF c, r
    <2>6. r \in U[c] /\ r \in M /\ AvBeyond(s, r, k) /\ \A x \in U[c] : x = r \/ AvBeyond(-s, r, x)
      BY <2>2, <2>3 DEF AvLast
    <2>7. ASSUME NEW x \in M, AvBeyond(s, x, k) PROVE x = r \/ AvBeyond(s, x, r)
      <3>1. x \in Int /\ k \in Int /\ r \in Int
        BY <1>1, <2>6, <2>7
      <3>2. CASE x \in U[c]
        BY <2>6, <3>1, <3>2, AvOrder
      <3>3. CASE x \notin U[c]
        <4>1. x \notin U[t.kid[-s][k]]
          BY <2>5, <2>7, <3>1, AvOrder
        <4>2. x # k
          BY <2>7, <3>1, AvOrder
        <4>3. x \in M \ U[k]
          BY <2>4, <2>7, <3>3, <4>1, <4>2
        <4>4. r \in U[k]
          BY <2>2, <2>6
        <4>5. ~AvBeyond(s, r, x)
          BY <1>1, <2>7, <4>3, <4>4, AvConvex
        <4>6. QED
          BY <3>1, <4>5, AvOrder
      <3>4. QED
        BY <3>2, <3>3
    <2>8. QED
      BY <2>1, <2>6, <2>7 DEF AvBeside
  <1>3. CASE t.kid[s][k] = AvNull
    <2> DEFINE climb == [n \in AvKey |->
                 LET p == t.parent[n] IN IF p # AvNull /\ t.kid[s][p] = n THEN p ELSE n]
               S == {z \in M \X Nat : z[2] = Cardinality(M \ U[z[1]]) /\ AvLast(U[z[1]], s, k)}
               r == Cardinality(M \ U[k])
               m == AvLoop(climb, k)[AvMany]
    <2>1. AvNeighbour(t, k, s) = t.parent[m]
      BY <1>3 DEF AvNeighbour
    <2>2. <<k, r>> \in S
      <3>1. U[k] = {k} \cup U[t.kid[s][k]] \cup U[t.kid[-s][k]]
        BY AvBelow
      <3>2. \A x \in U[t.kid[-s][k]] : AvBeyond(-s, x, k) /\ x \in M
        BY <1>1, AvBelow
      <3>3. \A x \in U[t.kid[-s][k]] : AvBeyond(s, k, x)
        BY <1>1, <3>2, AvOrder
      <3>4. AvLast(U[k], s, k)
        BY <1>1, <1>3, <3>1, <3>3 DEF AvLast
      <3>5. r \in Nat
        BY AvCount
      <3>6. QED
        BY <3>4, <3>5
    <2>3. ASSUME NEW n \in M, NEW p, p = t.parent[n], p # AvNull, AvLast(U[n], s, k)
          PROVE  /\ p \in M /\ p \in U[p] /\ n # t.root
                 /\ t.kid[s][p] = n \/ t.kid[-s][p] = n
                 /\ U[p] = {p} \cup U[t.kid[s][p]] \cup U[t.kid[-s][p]]
                 /\ \A x \in U[t.kid[s][p]] : AvBeyond(s, x, p) /\ x \in M
                 /\ \A x \in U[t.kid[-s][p]] : AvBeyond(-s, x, p) /\ x \in M
      <3>1. n # t.root
        BY <1>1, <2>3
      <3>2. p \in M /\ \E x \in AvSide : t.kid[x][p] = n
        BY <2>3, <3>1, AvHangs
      <3>3. t.kid[s][p] = n \/ t.kid[-s][p] = n
        BY <3>2, AvSides
      <3>4. p \in U[p]
        BY <3>2, AvChildIs
      <3>5. U[p] = {p} \cup U[t.kid[s][p]] \cup U[t.kid[-s][p]]
        BY <3>2, AvBelow
      <3>6. \A x \in U[t.kid[s][p]] : AvBeyond(s, x, p) /\ x \in M
        BY <3>2, AvBelow
      <3>7. \A x \in U[t.kid[-s][p]] : AvBeyond(-s, x, p) /\ x \in M
        BY <1>1, <3>2, AvBelow
      <3>8. QED
        BY <3>1, <3>2, <3>3, <3>4, <3>5, <3>6, <3>7
    <2>4. AvDescends(climb, S)
      <3>1. SUFFICES ASSUME NEW n, NEW q, <<n, q>> \in S
                     PROVE  q \in Nat /\ (climb[n] = n \/ \E p : p < q /\ <<climb[n], p>> \in S)
        BY DEF AvDescends
      <3>2. n \in M /\ q \in Nat /\ q = Cardinality(M \ U[n]) /\ AvLast(U[n], s, k)
        BY <3>1
      <3> DEFINE p == t.parent[n]
      <3>3. CASE ~(p # AvNull /\ t.kid[s][p] = n)
        BY <1>1, <3>2, <3>3
      <3>4. CASE p # AvNull /\ t.kid[s][p] = n
        <4>1. climb[n] = p
          BY <1>1, <3>2, <3>4
        <4>2. /\ p \in M
              /\ U[p] = {p} \cup U[t.kid[s][p]] \cup U[t.kid[-s][p]]
              /\ \A x \in U[t.kid[s][p]] : AvBeyond(s, x, p) /\ x \in M
              /\ \A x \in U[t.kid[-s][p]] : AvBeyond(-s, x, p) /\ x \in M
          BY <2>3, <3>2, <3>4
        <4>3. Cardinality(M \ U[p]) \in Nat /\ Cardinality(M \ U[p]) < q
          <5>1. /\ Cardinality(M \ U[p]) \in Nat
                /\ Cardinality(M \ U[p]) < Cardinality(M \ U[t.kid[s][p]])
            BY <4>2, AvCount, Zenon
          <5>2. QED
            BY <3>2, <3>4, <5>1
        <4>4. k \in U[n] /\ \A x \in U[n] : x = k \/ AvBeyond(s, k, x)
          BY <3>2 DEF AvLast
        <4>5. AvBeyond(s, k, p)
          BY <3>4, <4>2, <4>4
        <4>6. \A x \in U[t.kid[-s][p]] : AvBeyond(s, p, x)
          BY <1>1, <4>2, AvOrder, Zenon
        <4>7. \A x \in U[t.kid[-s][p]] : AvBeyond(s, k, x)
          <5>1. \A x \in U[t.kid[-s][p]] : x \in Int /\ AvBeyond(s, p, x)
            BY <1>1, <4>2, <4>6
          <5>2. p \in Int /\ k \in Int
            BY <1>1, <4>2
          <5>3. QED
            BY <4>5, <5>1, <5>2, AvOrder
        <4>8. AvLast(U[p], s, k)
          BY <3>4, <4>2, <4>4, <4>5, <4>7 DEF AvLast
        <4>9. <<p, Cardinality(M \ U[p])>> \in S
          BY <4>2, <4>3, <4>8, Zenon
        <4>10. QED
          BY <3>2, <4>1, <4>3, <4>9, Zenon
      <3>5. QED
        BY <3>3, <3>4, Zenon
    <2>5. climb[m] = m /\ \E q : <<m, q>> \in S
      <3>1. r <= AvMany
        <4>1. r \in Nat /\ r < AvMany
          BY AvCount
        <4>2. QED
          BY <4>1, AvManyIsNat
      <3> HIDE DEF climb, S, r
      <3>2. QED
        BY <2>2, <2>4, <3>1, AvLoopEnds
    <2> HIDE DEF m
    <2>6. m \in M /\ AvLast(U[m], s, k)
      BY <2>5
    <2> DEFINE p == t.parent[m]
    <2>7. p = AvNull \/ t.kid[s][p] # m
      <3>1. SUFFICES ASSUME p # AvNull, t.kid[s][p] = m PROVE FALSE
        OBVIOUS
      <3>2. p = m
        BY <1>1, <2>5, <2>6, <3>1
      <3>3. p \in M
        BY <2>6, <3>2
      <3>4. t.kid[s][p] # p
        BY <3>3, AvChildIs
      <3>5. QED
        BY <3>1, <3>2, <3>4
    <2>8. k \in U[m] /\ \A x \in U[m] : x = k \/ AvBeyond(s, k, x)
      BY <2>6 DEF AvLast
    <2>9. CASE p = AvNull
      <3>1. m = t.root
        <4>1. SUFFICES ASSUME m # t.root PROVE FALSE
          OBVIOUS
        <4>2. p \in M
          BY <2>6, <4>1, AvHangs
        <4>3. QED
          BY <1>1, <2>9, <4>2
      <3>2. \A x \in M : ~AvBeyond(s, x, k)
        BY <1>1, <2>8, <3>1, AvOrder
      <3>3. QED
        BY <2>1, <2>9, <3>2 DEF AvBeside
    <2>10. CASE p # AvNull
      <3>1. /\ p \in M /\ p \in U[p]
            /\ t.kid[s][p] = m \/ t.kid[-s][p] = m
            /\ U[p] = {p} \cup U[t.kid[s][p]] \cup U[t.kid[-s][p]]
            /\ \A x \in U[t.kid[s][p]] : AvBeyond(s, x, p) /\ x \in M
            /\ \A x \in U[t.kid[-s][p]] : AvBeyond(-s, x, p) /\ x \in M
        BY <2>3, <2>6, <2>10
      <3>2. t.kid[-s][p] = m
        BY <2>7, <2>10, <3>1
      <3>3. AvBeyond(s, p, k) /\ k \in U[p]
        BY <1>1, <2>8, <3>1, <3>2, AvOrder, Zenon
      <3>4. ASSUME NEW x \in M, AvBeyond(s, x, k) PROVE x = p \/ AvBeyond(s, x, p)
        <4>1. x \in Int /\ k \in Int /\ p \in Int
          BY <1>1, <3>1, <3>4
        <4>2. x \notin U[m]
          BY <2>8, <3>4, <4>1, AvOrder
        <4>3. CASE x \in U[p]
          BY <3>1, <3>2, <4>2, <4>3
        <4>4. CASE x \notin U[p]
          <5>1. ~AvBeyond(s, p, x)
            BY <3>1, <3>3, <3>4, <4>4, AvConvex
          <5>2. QED
            BY <4>1, <5>1, AvOrder
        <4>5. QED
          BY <4>3, <4>4
      <3>5. AvBeside(M, k, s, p)
        BY <3>1, <3>3, <3>4 DEF AvBeside
      <3>6. QED
        BY <2>1, <3>5
    <2>11. QED
      BY <2>9, <2>10
  <1>4. QED
    BY <1>2, <1>3

LEMMA AvEndsIs ==
    ASSUME NEW t, NEW M, NEW U, AvOrdered(t, M, U), AvEnded(t, M), NEW k \in M,
           NEW u, AvIs(u, AvEnds(t, k))
    PROVE  /\ u \in AvTree /\ u.root = t.root /\ u.kid = t.kid /\ u.parent = t.parent
           /\ u.balance = t.balance /\ u.height = t.height
           /\ AvEnded(u, M \ {k})
  <1> DEFINE e == [s \in AvSide |-> IF t.end[s] = k THEN AvNeighbour(t, k, -s) ELSE t.end[s]]
             N == M \ {k}
  <1>1. M \subseteq AvKey /\ M \subseteq Int /\ t \in AvTree /\ M \subseteq AvLink /\ AvNull \in AvLink
    BY AvKeys DEF AvOrdered
  <1>2. \A s \in AvSide : AvBeside(M, k, s, AvNeighbour(t, k, s))
    BY AvNeighbourIs
  <1>3. \A s \in AvSide : t.end[s] \in M /\ \A m \in M : m = t.end[s] \/ AvBeyond(s, t.end[s], m)
    BY DEF AvEnded
  <1>4. ASSUME NEW s \in AvSide
        PROVE  /\ N = {} => e[s] = AvNull
               /\ N # {} => e[s] \in N /\ \A m \in N : m = e[s] \/ AvBeyond(s, e[s], m)
    <2>1. CASE t.end[s] = k
      <3> DEFINE r == AvNeighbour(t, k, -s)
      <3>1. e[s] = r
        BY <1>4, <2>1
      <3>2. AvBeside(M, k, -s, r)
        BY <1>2, <1>4, AvSides
      <3> HIDE DEF e, r
      <3>3. \A m \in N : AvBeyond(-s, m, k)
        <4>1. \A m \in N : AvBeyond(s, k, m) /\ m \in Int /\ k \in Int
          BY <1>1, <1>3, <1>4, <2>1
        <4>2. QED
          BY <1>4, <4>1, AvOrder
      <3>4. CASE N = {}
        <4>1. ~AvBeyond(-s, k, k)
          BY <1>1, <1>4, AvOrder, AvSides
        <4>2. \A x \in M : x = k
          BY <3>4
        <4>3. r = AvNull
          BY <3>2, <4>1, <4>2 DEF AvBeside
        <4>4. QED
          BY <3>1, <3>4, <4>3
      <3>5. CASE N # {}
        <4>1. \E x \in M : AvBeyond(-s, x, k)
          BY <3>3, <3>5
        <4>2. r \in M /\ AvBeyond(-s, r, k) /\ \A x \in M : AvBeyond(-s, x, k) => x = r \/ AvBeyond(-s, x, r)
          BY <3>2, <4>1 DEF AvBeside
        <4>3. r # k
          BY <1>1, <1>4, <4>2, AvOrder, AvSides
        <4>4. \A m \in N : m = r \/ AvBeyond(-s, m, r)
          BY <3>3, <4>2
        <4>5. \A m \in N : m = r \/ AvBeyond(s, r, m)
          <5>1. \A m \in N : m \in Int /\ r \in Int
            BY <1>1, <4>2
          <5>2. QED
            BY <1>4, <4>4, <5>1, AvOrder
        <4>6. QED
          BY <3>1, <3>5, <4>2, <4>3, <4>5
      <3>6. QED
        BY <3>4, <3>5
    <2>2. CASE t.end[s] # k
      <3>1. e[s] = t.end[s]
        BY <1>4, <2>2
      <3> HIDE DEF e
      <3>2. QED
        BY <1>3, <1>4, <2>2, <3>1
    <2>3. QED
      BY <2>1, <2>2
  <1>5. e \in [AvSide -> AvLink]
    <2>1. \A s \in AvSide : e[s] \in AvLink
      BY <1>1, <1>4
    <2>2. QED
      BY <2>1
  <1>6. u = [t EXCEPT !.end = e]
    BY <1>1 DEF AvIs, AvEnds
  <1> HIDE DEF e
  <1>7. /\ u \in AvTree /\ u.root = t.root /\ u.kid = t.kid /\ u.parent = t.parent
        /\ u.balance = t.balance /\ u.end = e /\ u.height = t.height
    BY <1>1, <1>5, <1>6, AvEndPut
  <1>8. AvEnded(u, N)
    BY <1>4, <1>7 DEF AvEnded
  <1>9. QED
    BY <1>7, <1>8

-----------------------------------------------------------------------------
(* The climb after a removal.                                              *)

LEMMA AvClimbFields ==
    ASSUME NEW t \in AvTree, NEW n \in AvLink \cup {-1}, NEW s \in AvSide
    PROVE  LET x == [tree |-> t, node |-> n, side |-> s] IN
           x \in AvClimb /\ x.tree = t /\ x.node = n /\ x.side = s
  BY DEF AvClimb

\* What a round of the climb makes of x.
AvShrunk(x, t, n, s, y) ==
    /\ n = -1 => y = x
    /\ n = AvNull => y = [tree |-> [t EXCEPT !.height = @ - 1], node |-> -1, side |-> s]
    /\ n \in AvKey =>
         LET up == t.parent[n]
             side == AvSideOf(t, up, n)
             b == t.balance[n] - s
             c == t.kid[-s][n] IN
         /\ b = 0 => y = [tree |-> AvPut(t, n, b), node |-> up, side |-> side]
         /\ b = -s => y = [tree |-> AvPut(t, n, b), node |-> -1, side |-> s]
         /\ b \notin {0, -s} /\ t.balance[c] = 0 =>
              y = [tree |-> AvRotate([t EXCEPT !.balance[n] = -s, !.balance[c] = s], n, -s),
                   node |-> -1, side |-> s]
         /\ b \notin {0, -s} /\ t.balance[c] # 0 =>
              y = [tree |-> AvRebalance(AvPut(t, n, b), n, -s), node |-> up, side |-> side]

LEMMA AvShrinkRoundIs ==
    ASSUME NEW x \in AvClimb, NEW t, t = x.tree, NEW n, n = x.node, NEW s, s = x.side
    PROVE  AvShrunk(x, t, n, s, AvShrinkRound[x])
  <1>1. x = [tree |-> t, node |-> n, side |-> s] /\ t \in AvTree /\ s \in AvSide /\ -s \in AvSide
    BY AvSides DEF AvClimb
  <1>2. -1 \notin AvKey /\ AvNull \notin AvKey /\ -1 # AvNull /\ s # 0 /\ -s # 0
    BY <1>1, AvKeys DEF AvNull, AvSide
  <1>3. ASSUME n = -1 PROVE AvShrinkRound[x] = x
    BY <1>2, <1>3 DEF AvShrinkRound
  <1>4. ASSUME n = AvNull
        PROVE  AvShrinkRound[x] = [tree |-> [t EXCEPT !.height = @ - 1], node |-> -1, side |-> s]
    <2>1. AvShrinkRound[x] = [x EXCEPT !.tree.height = @ - 1, !.node = -1]
      BY <1>2, <1>4 DEF AvShrinkRound
    <2>2. QED
      BY <1>1, <2>1
  <1>5. ASSUME n \in AvKey
        PROVE  LET up == t.parent[n]
                   side == AvSideOf(t, up, n)
                   b == t.balance[n] - s
                   c == t.kid[-s][n] IN
               /\ b = 0 => AvShrinkRound[x] = [tree |-> AvPut(t, n, b), node |-> up, side |-> side]
               /\ b = -s => AvShrinkRound[x] = [tree |-> AvPut(t, n, b), node |-> -1, side |-> s]
               /\ b \notin {0, -s} /\ t.balance[c] = 0 =>
                    AvShrinkRound[x] =
                      [tree |-> AvRotate([t EXCEPT !.balance[n] = -s, !.balance[c] = s], n, -s),
                       node |-> -1, side |-> s]
               /\ b \notin {0, -s} /\ t.balance[c] # 0 =>
                    AvShrinkRound[x] = [tree |-> AvRebalance(AvPut(t, n, b), n, -s), node |-> up, side |-> side]
    <2> DEFINE up == t.parent[n]
               side == AvSideOf(t, up, n)
               b == t.balance[n] - s
               c == t.kid[-s][n]
    <2>1. n # -1 /\ n # AvNull
      BY <1>2, <1>5
    <2>2. ASSUME b = 0
          PROVE  AvShrinkRound[x] = [tree |-> AvPut(t, n, b), node |-> up, side |-> side]
      BY <1>1, <1>2, <1>5, <2>1, <2>2 DEF AvShrinkRound, AvPut
    <2>3. ASSUME b = -s
          PROVE  AvShrinkRound[x] = [tree |-> AvPut(t, n, b), node |-> -1, side |-> s]
      <3>1. AvShrinkRound[x] = [x EXCEPT !.tree = AvPut(t, n, b), !.node = -1]
        BY <1>1, <1>2, <1>5, <2>1, <2>3 DEF AvShrinkRound, AvPut
      <3>2. QED
        BY <1>1, <3>1
    <2>4. ASSUME b \notin {0, -s}, t.balance[c] = 0
          PROVE  AvShrinkRound[x] =
                   [tree |-> AvRotate([t EXCEPT !.balance[n] = -s, !.balance[c] = s], n, -s),
                    node |-> -1, side |-> s]
      <3> DEFINE v == AvRotate([t EXCEPT !.balance[n] = -s, !.balance[c] = s], n, -s)
      <3>1. AvShrinkRound[x] = [x EXCEPT !.tree = v, !.node = -1]
        BY <1>1, <1>2, <1>5, <2>1, <2>4 DEF AvShrinkRound
      <3>2. QED
        BY <1>1, <3>1
    <2>5. ASSUME b \notin {0, -s}, t.balance[c] # 0
          PROVE  AvShrinkRound[x] = [tree |-> AvRebalance(AvPut(t, n, b), n, -s), node |-> up, side |-> side]
      BY <1>1, <1>2, <1>5, <2>1, <2>5, Zenon DEF AvShrinkRound, AvPut
    <2>6. QED
      BY <2>2, <2>3, <2>4, <2>5
  <1>6. QED
    BY <1>3, <1>4, <1>5 DEF AvShrunk

LEMMA AvSeenNone ==
    ASSUME NEW t, NEW M, NEW U, AvOrdered(t, M, U), NEW H, AvHeightsBut(t, M, H, {}),
           NEW a, a \notin M, NEW x, NEW e
    PROVE  AvHeights(t, M, H, a, x, e)
  <1>1. AvHigh(M, H) /\ H \in [AvLink -> Int]
    BY DEF AvHeightsBut, AvHigh
  <1>2. ASSUME NEW m \in M, NEW s \in AvSide
        PROVE  AvSeen(t, H, m, s, a, x, e) = H[t.kid[s][m]]
    <2>1. H[t.kid[s][m]] \in Int
      BY <1>1, <1>2, AvChildIs
    <2>2. QED
      BY <1>2, <2>1 DEF AvSeen
  <1>3. \A s \in AvSide : -s \in AvSide
    BY AvSides
  <1>4. \A m \in M : \A s \in AvSide :
          AvLevel(s, t.balance[m], AvSeen(t, H, m, s, a, x, e), AvSeen(t, H, m, -s, a, x, e), H[m])
    BY <1>2, <1>3 DEF AvHeightsBut
  <1>5. QED
    BY <1>1, <1>4 DEF AvHeights

\* How far a climb still has to go from the node n.
AvClimbRank(M, U, n) ==
    IF n = -1 THEN 0 ELSE IF n = AvNull THEN 1 ELSE Cardinality(M \ U[n]) + 2

\* The climb x: its node is the only one that sees amiss.
AvShrinking(M, E, x, r) ==
    /\ x \in AvClimb /\ x.tree.end = E /\ x.node \in M \cup {AvNull, -1}
    /\ \E U, H :
         /\ AvOrdered(x.tree, M, U)
         /\ AvHeights(x.tree, M, H, x.node, x.side, 1)
         /\ x.tree.height = H[x.tree.root] + AvMoreIf(x.node = AvNull)
         /\ r = AvClimbRank(M, U, x.node)

AvShrinksOn(M, E, y, r) == \E q \in Nat : q < r /\ AvShrinking(M, E, y, q)

LEMMA AvShrinksDone ==
    ASSUME NEW t, NEW M, NEW U, AvOrdered(t, M, U), NEW H, AvHeightsBut(t, M, H, {}),
           t.height = H[t.root], NEW s \in AvSide, NEW r \in Nat, r > 0
    PROVE  AvShrinksOn(M, t.end, [tree |-> t, node |-> -1, side |-> s], r)
  <1> DEFINE x == [tree |-> t, node |-> -1, side |-> s]
  <1>1. t \in AvTree /\ -1 \notin M /\ -1 # AvNull /\ H \in [AvLink -> Int] /\ t.root \in AvLink
    BY AvKeys, AvTreeFields DEF AvOrdered, AvHeightsBut, AvHigh, AvNull
  <1>2. x \in AvClimb /\ x.tree = t /\ x.node = -1 /\ x.side = s
    BY <1>1, AvClimbFields
  <1> HIDE DEF x
  <1>3. AvHeights(t, M, H, -1, s, 1)
    BY <1>1, AvSeenNone
  <1>4. t.height = H[t.root] + AvMoreIf(-1 = AvNull)
    BY <1>1 DEF AvMoreIf
  <1>5. AvShrinking(M, t.end, x, 0)
    BY <1>2, <1>3, <1>4 DEF AvShrinking, AvClimbRank
  <1>6. QED
    BY <1>5 DEF AvShrinksOn, x

LEMMA AvShrinksUp ==
    ASSUME NEW t, NEW M, NEW U, AvOrdered(t, M, U), NEW H, NEW top \in M, NEW up, up = t.parent[top],
           NEW side \in AvSide, AvHeights(t, M, H, up, side, 1),
           t.height = H[t.root] + AvMoreIf(up = AvNull),
           NEW r, r = Cardinality(M \ U[top]) + 2
    PROVE  AvShrinksOn(M, t.end, [tree |-> t, node |-> up, side |-> side], r)
  <1> DEFINE x == [tree |-> t, node |-> up, side |-> side]
  <1>1. t \in AvTree /\ up \in AvLink /\ -1 \notin AvLink /\ -1 # AvNull
    <2>1. t \in AvTree
      BY DEF AvOrdered
    <2>2. up \in AvLink
      BY AvChildIs, AvSides
    <2>3. QED
      BY <2>1, <2>2, AvKeys DEF AvNull
  <1>2. x \in AvClimb /\ x.tree = t /\ x.node = up /\ x.side = side
    BY <1>1, AvClimbFields
  <1> HIDE DEF x
  <1>3. Cardinality(M \ U[top]) \in Nat
    BY AvCount, AvSides
  <1>4. up # AvNull => up \in M /\ Cardinality(M \ U[up]) \in Nat /\ Cardinality(M \ U[up]) < Cardinality(M \ U[top])
    <2>1. SUFFICES ASSUME up # AvNull
                   PROVE  up \in M /\ Cardinality(M \ U[up]) \in Nat
                          /\ Cardinality(M \ U[up]) < Cardinality(M \ U[top])
      OBVIOUS
    <2>2. top # t.root
      BY <2>1, AvKeys DEF AvOrdered
    <2>3. up \in M /\ \E s \in AvSide : t.kid[s][up] = top
      BY <2>2, AvHangs
    <2>4. PICK s \in AvSide : t.kid[s][up] = top
      BY <2>3
    <2>5. /\ Cardinality(M \ U[up]) \in Nat
          /\ Cardinality(M \ U[up]) < Cardinality(M \ U[t.kid[s][up]])
      BY <2>3, AvCount
    <2>6. QED
      BY <2>3, <2>4, <2>5
  <1> DEFINE q == AvClimbRank(M, U, up)
  <1>5. q \in Nat /\ q < r
    BY <1>1, <1>3, <1>4 DEF AvClimbRank
  <1>6. up \in M \cup {AvNull, -1}
    BY <1>4
  <1>7. AvShrinking(M, t.end, x, q)
    BY <1>2, <1>6 DEF AvShrinking
  <1>8. QED
    BY <1>5, <1>7 DEF AvShrinksOn, x

\* The three ways in which a node takes it that its side s has become lower.
LEMMA AvLevelSinks ==
    ASSUME NEW s \in AvSide, NEW b, NEW l \in Int, NEW m \in Int, NEW h, AvLevel(s, b, l + 1, m, h)
    PROVE  /\ b \in {-1, 0, 1} /\ b - s \in -2 .. 2
           /\ b - s = 0 => AvLevel(s, b - s, l, m, h - 1)
           /\ b - s = -s => AvLevel(s, b - s, l, m, h)
           /\ b - s \notin {0, -s} => m = l + 2 /\ h = l + 3
  <1>1. CASE s = 1
    BY <1>1 DEF AvLevel, AvSide
  <1>2. CASE s = -1
    BY <1>2 DEF AvLevel, AvSide
  <1>3. QED
    BY <1>1, <1>2 DEF AvSide

\* What a node sees that has become lower on its side s.
LEMMA AvSeesAmiss ==
    ASSUME NEW t, NEW M, NEW U, AvOrdered(t, M, U), NEW H, NEW n \in M, NEW s \in AvSide,
           AvHeights(t, M, H, n, s, 1)
    PROVE  /\ AvHeightsBut(t, M, H, {n}) /\ H \in [AvLink -> Int]
           /\ H[t.kid[s][n]] \in Int /\ H[t.kid[-s][n]] \in Int
           /\ AvLevel(s, t.balance[n], H[t.kid[s][n]] + 1, H[t.kid[-s][n]], H[n])
  <1>1. AvHigh(M, H) /\ H \in [AvLink -> Int]
    BY DEF AvHeights, AvHigh
  <1>2. -s \in AvSide /\ -s # s /\ \A x \in AvSide : -x \in AvSide
    BY AvSides
  <1>3. H[t.kid[s][n]] \in Int /\ H[t.kid[-s][n]] \in Int
    <2>1. t.kid[s][n] \in AvLink
      BY AvChildIs
    <2>2. t.kid[-s][n] \in AvLink
      BY <1>2, AvChildIs
    <2>3. QED
      BY <1>1, <2>1, <2>2
  <1>4. AvSeen(t, H, n, s, n, s, 1) = H[t.kid[s][n]] + 1 /\ AvSeen(t, H, n, -s, n, s, 1) = H[t.kid[-s][n]]
    BY <1>2, <1>3 DEF AvSeen
  <1>5. AvLevel(s, t.balance[n], H[t.kid[s][n]] + 1, H[t.kid[-s][n]], H[n])
    BY <1>4 DEF AvHeights
  <1>6. ASSUME NEW m \in M \ {n}, NEW x \in AvSide
        PROVE  AvSeen(t, H, m, x, n, s, 1) = H[t.kid[x][m]]
    <2>1. H[t.kid[x][m]] \in Int
      BY <1>1, <1>6, AvChildIs
    <2>2. QED
      BY <1>6, <2>1 DEF AvSeen
  <1>7. \A m \in M \ {n} : \A x \in AvSide :
          AvLevel(x, t.balance[m], H[t.kid[x][m]], H[t.kid[-x][m]], H[m])
    BY <1>2, <1>6 DEF AvHeights
  <1>8. AvHeightsBut(t, M, H, {n})
    BY <1>1, <1>7 DEF AvHeightsBut
  <1>9. QED
    BY <1>1, <1>3, <1>5, <1>8

\* The node itself becomes lower: the climb goes on.
LEMMA AvShrinksPast ==
    ASSUME NEW t, NEW M, NEW U, AvOrdered(t, M, U), NEW H, NEW n \in M, NEW s \in AvSide,
           AvHeights(t, M, H, n, s, 1), t.height = H[t.root],
           NEW b, b = t.balance[n] - s, b = 0,
           NEW up, up = t.parent[n], NEW side, side = AvSideOf(t, up, n),
           NEW u, AvIs(u, AvPut(t, n, b))
    PROVE  AvShrinksOn(M, t.end, [tree |-> u, node |-> up, side |-> side], Cardinality(M \ U[n]) + 2)
  <1> DEFINE G == [H EXCEPT ![n] = @ - 1]
             l == H[t.kid[s][n]]
             m == H[t.kid[-s][n]]
  <1>1. /\ AvHeightsBut(t, M, H, {n}) /\ H \in [AvLink -> Int] /\ l \in Int /\ m \in Int
        /\ AvLevel(s, t.balance[n], l + 1, m, H[n])
    BY AvSeesAmiss
  <1>2. t \in AvTree /\ n \in AvKey /\ n \in AvLink /\ n # AvNull /\ M \subseteq AvLink /\ AvNull \in AvLink
    BY AvKeys DEF AvOrdered
  <1>3. AvSameShape(t, u) /\ AvHasPut(t, n, b, u)
    BY <1>2, AvPutIs DEF AvIs
  <1>4. /\ u \in AvTree /\ u.kid = t.kid /\ u.parent = t.parent /\ u.root = t.root
        /\ u.end = t.end /\ u.height = t.height
        /\ \A k \in AvKey : u.balance[k] = IF k = n THEN b ELSE t.balance[k]
    BY <1>3 DEF AvSameShape, AvHasPut
  <1>5. AvOrdered(u, M, U)
    BY <1>4, AvAlike
  <1>6. AvLevel(s, b, l, m, H[n] - 1)
    BY <1>1, AvLevelSinks
  <1>7. l >= -1 /\ m >= -1 /\ H[AvNull] = -1 /\ H[n] \in Int /\ \A k \in M : H[k] >= 0
    <2>1. \A k \in M : H[k] >= 0
      BY DEF AvHeights, AvHigh
    <2>2. H[AvNull] = -1
      BY DEF AvHeights, AvHigh
    <2>3. \A x \in AvSide : t.kid[x][n] # AvNull => t.kid[x][n] \in M
      BY AvBelow
    <2>4. \A x \in AvSide : t.kid[x][n] = AvNull \/ H[t.kid[x][n]] >= 0
      BY <2>1, <2>3
    <2>5. s \in AvSide /\ -s \in AvSide
      BY AvSides
    <2>6. l >= -1
      BY <1>1, <2>2, <2>4, <2>5
    <2>7. m >= -1
      BY <1>1, <2>2, <2>4, <2>5
    <2>8. QED
      BY <1>1, <1>2, <2>1, <2>2, <2>6, <2>7
  <1>8. G \in [AvLink -> Int] /\ G[n] = H[n] - 1 /\ \A x \in AvLink : x # n => G[x] = H[x]
    BY <1>1, <1>2, <1>7
  <1> HIDE DEF G, l, m
  <1>9. H[n] - 1 >= 0
    BY <1>6, <1>1, <1>7 DEF AvLevel
  <1>10. AvHigh(M, G)
    <2>1. \A k \in M : G[k] >= 0
      BY <1>2, <1>7, <1>8, <1>9
    <2>2. QED
      BY <1>2, <1>7, <1>8, <2>1 DEF AvHigh
  <1>11. \A x \in AvSide : t.kid[x][n] \in AvLink /\ t.kid[x][n] # n
    BY AvChildIs
  <1>12. -s \in AvSide
    BY AvSides
  <1>13. AvLevel(s, u.balance[n], G[u.kid[s][n]], G[u.kid[-s][n]], G[n])
    <2>1. G[t.kid[s][n]] = l /\ G[t.kid[-s][n]] = m
      BY <1>8, <1>11, <1>12 DEF l, m
    <2>2. u.balance[n] = b
      BY <1>2, <1>4
    <2>3. QED
      BY <1>4, <1>6, <1>8, <2>1, <2>2
  <1>14. \A x \in AvSide : AvLevel(x, u.balance[n], G[u.kid[x][n]], G[u.kid[-x][n]], G[n])
    <2>1. G[u.kid[s][n]] \in Int /\ G[u.kid[-s][n]] \in Int
      BY <1>4, <1>8, <1>11, <1>12
    <2>2. QED
      BY <1>13, <2>1, AvLevelBoth
  <1>15. AvReplaced(t, M, H, n, {n}, u, G, n, 1)
    <2>1. t.parent[n] # n
      <3>1. n # t.root => t.parent[n] \in M /\ \E x \in AvSide : t.kid[x][t.parent[n]] = n
        BY AvHangs
      <3>2. n = t.root => t.parent[n] = AvNull
        BY <1>2 DEF AvOrdered
      <3>3. QED
        BY <1>2, <1>11, <3>1, <3>2
    <2>2. \A k \in M \ {n} : u.balance[k] = t.balance[k]
      BY <1>2, <1>4 DEF AvOrdered
    <2>3. \A x \in AvSide : G[u.kid[x][n]] \in Int
      BY <1>4, <1>8, <1>11
    <2>4. QED
      BY <1>4, <1>8, <1>14, <2>1, <2>2, <2>3 DEF AvReplaced
  <1>16. AvHeights(u, M, G, up, side, 1)
    BY <1>1, <1>10, <1>15, AvAround
  <1>17. u.height = G[u.root] + AvMoreIf(up = AvNull)
    <2>1. CASE up = AvNull
      <3>1. t.root = n
        <4>1. AvNull \notin M
          BY AvKeys DEF AvOrdered
        <4>2. n # t.root => up \in M
          BY AvHangs
        <4>3. QED
          BY <2>1, <4>1, <4>2
      <3>2. QED
        BY <1>4, <1>7, <1>8, <2>1, <3>1 DEF AvMoreIf
    <2>2. CASE up # AvNull
      <3>1. t.root # n /\ t.root \in AvLink
        BY <1>2, <2>2, AvTreeFields DEF AvOrdered
      <3>2. H[t.root] \in Int
        BY <1>1, <3>1
      <3>3. QED
        BY <1>4, <1>8, <2>2, <3>1, <3>2 DEF AvMoreIf
    <2>3. QED
      BY <2>1, <2>2
  <1>18. side \in AvSide
    BY AvSideIs
  <1>19. up = u.parent[n]
    BY <1>4
  <1>20. AvShrinksOn(M, u.end, [tree |-> u, node |-> up, side |-> side], Cardinality(M \ U[n]) + 2)
    BY <1>5, <1>16, <1>17, <1>18, <1>19, AvShrinksUp
  <1>21. QED
    BY <1>4, <1>20

\* The node leans away from its side s, and stays as high as it was.
LEMMA AvShrinksHere ==
    ASSUME NEW t, NEW M, NEW U, AvOrdered(t, M, U), NEW H, NEW n \in M, NEW s \in AvSide,
           AvHeights(t, M, H, n, s, 1), t.height = H[t.root],
           NEW b, b = t.balance[n] - s, b = -s,
           NEW u, AvIs(u, AvPut(t, n, b)), NEW r \in Nat, r > 0
    PROVE  AvShrinksOn(M, t.end, [tree |-> u, node |-> -1, side |-> s], r)
  <1>1. /\ AvHeightsBut(t, M, H, {n}) /\ H \in [AvLink -> Int]
        /\ H[t.kid[s][n]] \in Int /\ H[t.kid[-s][n]] \in Int
        /\ AvLevel(s, t.balance[n], H[t.kid[s][n]] + 1, H[t.kid[-s][n]], H[n])
    BY AvSeesAmiss
  <1>2. t \in AvTree /\ n \in AvKey /\ M \subseteq AvKey /\ b \in -2 .. 2
    BY AvKeys DEF AvOrdered, AvSide
  <1>3. AvSameShape(t, u) /\ AvHasPut(t, n, b, u)
    BY <1>2, AvPutIs DEF AvIs
  <1>4. /\ u \in AvTree /\ u.kid = t.kid /\ u.parent = t.parent /\ u.root = t.root
        /\ u.end = t.end /\ u.height = t.height
        /\ \A k \in AvKey : u.balance[k] = IF k = n THEN b ELSE t.balance[k]
    BY <1>3 DEF AvSameShape, AvHasPut
  <1>5. AvOrdered(u, M, U)
    BY <1>4, AvAlike
  <1>6. AvLevel(s, b, H[t.kid[s][n]], H[t.kid[-s][n]], H[n])
    <2> DEFINE l == H[t.kid[s][n]]
               m == H[t.kid[-s][n]]
    <2>1. l \in Int /\ m \in Int /\ AvLevel(s, t.balance[n], l + 1, m, H[n])
      BY <1>1
    <2> HIDE DEF l, m
    <2>2. t.balance[n] - s = -s => AvLevel(s, t.balance[n] - s, l, m, H[n])
      BY <2>1, AvLevelSinks
    <2>3. QED
      BY <2>2 DEF l, m
  <1>7. AvHeightsBut(u, M, H, {n})
    BY <1>1, <1>2, <1>4 DEF AvHeightsBut
  <1>8. AvLevel(s, u.balance[n], H[u.kid[s][n]], H[u.kid[-s][n]], H[n])
    BY <1>2, <1>4, <1>6
  <1>9. AvHeightsBut(u, M, H, {})
    BY <1>5, <1>7, <1>8, AvLevelled
  <1>10. AvShrinksOn(M, u.end, [tree |-> u, node |-> -1, side |-> s], r)
    BY <1>4, <1>5, <1>9, AvShrinksDone
  <1>11. QED
    BY <1>4, <1>10

\* The other side is two levels higher, and its node leans to neither side:
\* one rotation, after which the subtree is as high as it was.
LEMMA AvShrinksTurned ==
    ASSUME NEW t, NEW M, NEW U, AvOrdered(t, M, U), NEW H, NEW n \in M, NEW s \in AvSide,
           AvHeights(t, M, H, n, s, 1), t.height = H[t.root],
           t.balance[n] - s \notin {0, -s},
           NEW w, AvIs(w, -s), NEW c, c = t.kid[w][n], t.balance[c] = 0,
           NEW v, AvIs(v, [t EXCEPT !.balance[n] = w, !.balance[c] = s]),
           NEW u, AvIs(u, AvRotate(v, n, w)), NEW r \in Nat, r > 0
    PROVE  AvShrinksOn(M, t.end, [tree |-> u, node |-> -1, side |-> s], r)
  <1> DEFINE l == H[t.kid[s][n]]
             m == H[t.kid[w][n]]
             X == {n, c}
  <1>1. /\ AvHeightsBut(t, M, H, {n}) /\ H \in [AvLink -> Int] /\ l \in Int /\ m \in Int
        /\ AvLevel(s, t.balance[n], l + 1, m, H[n])
    BY AvSeesAmiss DEF AvIs
  <1>2. w \in AvSide /\ -w = s /\ w # s /\ \A x \in AvSide : -x \in AvSide
    BY AvSides DEF AvIs
  <1> HIDE DEF l, m
  <1>3. m = l + 2 /\ H[n] = l + 3
    BY <1>1, AvLevelSinks
  <1>4. /\ t \in AvTree /\ n \in AvKey /\ M \subseteq AvKey /\ M \subseteq AvLink
        /\ H[AvNull] = -1 /\ \A k \in M : H[k] >= 0
    BY AvKeys DEF AvOrdered, AvHeights, AvHigh
  <1>5. l >= -1
    <2>1. t.kid[s][n] # AvNull => t.kid[s][n] \in M
      BY AvBelow
    <2>2. t.kid[s][n] = AvNull \/ l >= 0
      BY <1>4, <2>1 DEF l
    <2>3. QED
      BY <1>1, <1>4, <2>2 DEF l
  <1>6. c # AvNull
    BY <1>1, <1>3, <1>4, <1>5 DEF m
  <1>7. c \in M /\ c # n /\ c \in AvKey
    <2>1. c \in M
      BY <1>2, <1>6, AvBelow
    <2>2. c # n
      BY <1>2, AvChildIs
    <2>3. QED
      BY <1>4, <2>1, <2>2
  <1> DEFINE far == H[t.kid[w][c]]
             near == H[t.kid[-w][c]]
  <1>8. AvLevel(w, 0, far, near, m)
    <2>1. AvLevel(w, t.balance[c], far, near, H[c])
      BY <1>1, <1>2, <1>7 DEF AvHeightsBut
    <2>2. QED
      BY <2>1 DEF m
  <1>9. far \in Int /\ near \in Int
    <2>1. t.kid[w][c] \in AvLink
      BY <1>2, <1>7, AvChildIs
    <2>2. t.kid[-w][c] \in AvLink
      BY <1>2, <1>7, AvChildIs
    <2>3. QED
      BY <1>1, <2>1, <2>2
  <1> HIDE DEF far, near
  <1>10. far = l + 1 /\ near = l + 1
    BY <1>1, <1>3, <1>8, <1>9, <1>2 DEF AvLevel, AvSide
  <1>11. AvSameShape(t, v) /\ AvHasTwo(t, n, w, c, s, v)
    <2>1. w \in -2 .. 2 /\ s \in -2 .. 2
      BY <1>2 DEF AvSide
    <2>2. QED
      BY <1>4, <1>7, <2>1, AvPutTwice, Zenon
  <1>12. /\ v \in AvTree /\ v.kid = t.kid /\ v.parent = t.parent /\ v.root = t.root
         /\ v.end = t.end /\ v.height = t.height
         /\ v.balance[n] = w /\ v.balance[c] = s
         /\ \A k \in M \ X : v.balance[k] = t.balance[k]
    BY <1>4, <1>7, <1>11 DEF AvSameShape, AvHasTwo
  <1> DEFINE hn == l + 2
             hc == l + 3
  <1>13. hn \in Nat /\ hc \in Nat
    BY <1>1, <1>5
  <1>14. AvLevel(w, v.balance[n], near, l, hn)
    BY <1>1, <1>2, <1>10, <1>12 DEF AvLevel, AvSide
  <1>15. AvLevel(w, v.balance[c], far, hn, hc)
    BY <1>1, <1>2, <1>10, <1>12 DEF AvLevel, AvSide
  <1>16. AvHeightsBut(t, M, H, X)
    BY <1>1 DEF AvHeightsBut
  <1>17. H[n] - hc = 0
    BY <1>1, <1>3
  <1> HIDE DEF hn, hc
  <1>18. AvLevel(w, v.balance[n], H[t.kid[-w][c]], H[t.kid[-w][n]], hn)
    BY <1>2, <1>14 DEF near, l
  <1>19. AvLevel(w, v.balance[c], H[t.kid[w][c]], hn, hc)
    BY <1>15 DEF far
  <1>20. AvRebalanced(t, M, U, H, n, H[n] - hc, AvRotate(v, n, w))
    BY <1>2, <1>6, <1>12, <1>13, <1>16, <1>18, <1>19, AvOnce, Zenon DEF AvIs
  <1>21. AvRebalanced(t, M, U, H, n, 0, u)
    BY <1>17, <1>20 DEF AvIs
  <1>22. PICK V, G : \E top \in M :
           /\ AvOrdered(u, M, V) /\ V[top] = U[n] /\ u.parent[top] = t.parent[n]
           /\ AvHeights(u, M, G, t.parent[n], AvSideOf(t, t.parent[n], n), 0)
           /\ u.root = IF t.root = n THEN top ELSE t.root
           /\ G[u.root] = IF t.root = n THEN H[n] - 0 ELSE H[t.root]
           /\ u.end = t.end /\ u.height = t.height
    BY <1>21 DEF AvRebalanced
  <1>23. AvOrdered(u, M, V) /\ u.end = t.end /\ u.height = t.height
    BY <1>22
  <1>24. AvHeights(u, M, G, t.parent[n], AvSideOf(t, t.parent[n], n), 0)
    BY <1>22
  <1>25. AvHeightsBut(u, M, G, {})
    BY <1>23, <1>24, AvSeenRight
  <1>26. u.height = G[u.root]
    BY <1>1, <1>3, <1>22, <1>23
  <1>27. AvShrinksOn(M, u.end, [tree |-> u, node |-> -1, side |-> s], r)
    BY <1>23, <1>25, <1>26, AvShrinksDone
  <1>28. QED
    BY <1>23, <1>27

\* The other side is two levels higher, and its node leans: a rebalance, after
\* which the subtree is one level lower.
LEMMA AvShrinksLower ==
    ASSUME NEW t, NEW M, NEW U, AvOrdered(t, M, U), NEW H, NEW n \in M, NEW s \in AvSide,
           AvHeights(t, M, H, n, s, 1), t.height = H[t.root],
           NEW b, b = t.balance[n] - s, b \notin {0, -s},
           NEW w, AvIs(w, -s), t.balance[t.kid[w][n]] # 0,
           NEW up, up = t.parent[n], NEW side, side = AvSideOf(t, up, n),
           NEW u, AvIs(u, AvRebalance(AvPut(t, n, b), n, w))
    PROVE  AvShrinksOn(M, t.end, [tree |-> u, node |-> up, side |-> side], Cardinality(M \ U[n]) + 2)
  <1> DEFINE l == H[t.kid[s][n]]
             m == H[t.kid[w][n]]
             v == AvPut(t, n, b)
  <1>1. /\ AvHeightsBut(t, M, H, {n}) /\ H \in [AvLink -> Int] /\ l \in Int /\ m \in Int
        /\ AvLevel(s, t.balance[n], l + 1, m, H[n])
    BY AvSeesAmiss DEF AvIs
  <1>2. w \in AvSide /\ -w = s /\ w # s /\ \A x \in AvSide : -x \in AvSide
    BY AvSides DEF AvIs
  <1> HIDE DEF l, m
  <1>3. m = l + 2 /\ H[n] = l + 3 /\ b \in -2 .. 2
    <2> DEFINE o == t.balance[n]
               h == H[n]
    <2>0. AvLevel(s, o, l + 1, m, h)
      BY <1>1
    <2> HIDE DEF o, h
    <2>1. o \in {-1, 0, 1}
      BY <1>1, <2>0, AvLevelSinks
    <2>2. o - s \notin {0, -s} => m = l + 2 /\ h = l + 3
      BY <1>1, <2>0 DEF AvLevel, AvSide
    <2>3. b = o - s
      BY DEF o
    <2>4. b \in -2 .. 2
      BY <2>1, <2>3 DEF AvSide
    <2>5. QED
      BY <2>2, <2>3, <2>4 DEF h
  <1>4. t \in AvTree /\ n \in AvKey /\ M \subseteq AvKey /\ AvNull \notin M
    BY AvKeys DEF AvOrdered
  <1>5. AvSameShape(t, v) /\ AvHasPut(t, n, b, v)
    BY <1>3, <1>4, AvPutIs
  <1> HIDE DEF v
  <1>6. /\ v \in AvTree /\ v.kid = t.kid /\ v.parent = t.parent /\ v.root = t.root
        /\ v.end = t.end /\ v.height = t.height
        /\ \A k \in AvKey : v.balance[k] = IF k = n THEN b ELSE t.balance[k]
    BY <1>5 DEF AvSameShape, AvHasPut
  <1>7. AvOrdered(v, M, U)
    BY <1>6, AvAlike
  <1>8. AvHeightsBut(v, M, H, {n})
    BY <1>1, <1>4, <1>6 DEF AvHeightsBut
  <1>9. v.balance[v.kid[w][n]] # 0
    <2>1. v.kid[w][n] = t.kid[w][n] /\ t.kid[w][n] # n
      BY <1>2, <1>6, AvChildIs
    <2>2. CASE t.kid[w][n] = AvNull
      <3>1. m = -1
        BY <2>2 DEF m, AvHeights, AvHigh
      <3>2. l >= -1
        <4>1. t.kid[s][n] # AvNull => t.kid[s][n] \in M
          BY AvBelow
        <4>2. H[AvNull] = -1 /\ \A k \in M : H[k] >= 0
          BY DEF AvHeights, AvHigh
        <4>3. t.kid[s][n] = AvNull \/ l >= 0
          BY <4>1, <4>2 DEF l
        <4>4. QED
          BY <1>1, <4>2, <4>3 DEF l
      <3>3. QED
        BY <1>1, <1>3, <3>1, <3>2
    <2>3. CASE t.kid[w][n] # AvNull
      <3>1. t.kid[w][n] \in AvKey
        BY <1>2, <1>4, <2>3, AvBelow
      <3>2. QED
        BY <1>6, <2>1, <3>1
    <2>4. QED
      BY <2>2, <2>3
  <1>10. H[v.kid[-w][n]] = l /\ H[v.kid[w][n]] = l + 2
    BY <1>2, <1>3, <1>6 DEF l, m
  <1>11. AvRebalanced(v, M, U, H, n, H[n] - (l + 2), AvRebalance(v, n, w))
    BY <1>2, <1>7, <1>8, <1>9, <1>10, AvRebalances
  <1>12. H[n] - (l + 2) = 1
    BY <1>1, <1>3
  <1>13. AvRebalanced(v, M, U, H, n, 1, u)
    BY <1>11, <1>12 DEF AvIs, v
  <1>14. AvSideOf(v, v.parent[n], n) = side /\ v.parent[n] = up
    BY <1>6 DEF AvSideOf
  <1>15. PICK V, G : \E top \in M :
           /\ AvOrdered(u, M, V) /\ V[top] = U[n] /\ u.parent[top] = v.parent[n]
           /\ AvHeights(u, M, G, v.parent[n], AvSideOf(v, v.parent[n], n), 1)
           /\ u.root = IF v.root = n THEN top ELSE v.root
           /\ G[u.root] = IF v.root = n THEN H[n] - 1 ELSE H[v.root]
           /\ u.end = v.end /\ u.height = v.height
    BY <1>13 DEF AvRebalanced
  <1>16. PICK top \in M :
           /\ AvOrdered(u, M, V) /\ V[top] = U[n] /\ u.parent[top] = up
           /\ AvHeights(u, M, G, up, side, 1)
           /\ u.root = IF t.root = n THEN top ELSE t.root
           /\ G[u.root] = IF t.root = n THEN H[n] - 1 ELSE H[t.root]
           /\ u.end = t.end /\ u.height = t.height
    BY <1>6, <1>14, <1>15
  <1>17. u.height = G[u.root] + AvMoreIf(up = AvNull)
    <2>1. CASE up = AvNull
      <3>1. t.root = n
        <4>1. n # t.root => up \in M
          BY AvHangs
        <4>2. QED
          BY <1>4, <2>1, <4>1
      <3>2. QED
        BY <1>1, <1>3, <1>16, <2>1, <3>1 DEF AvMoreIf
    <2>2. CASE up # AvNull
      <3>1. t.root # n /\ t.root \in AvLink
        BY <1>4, <2>2, AvTreeFields DEF AvOrdered
      <3>2. H[t.root] \in Int
        BY <1>1, <3>1
      <3>3. QED
        BY <1>16, <2>2, <3>1, <3>2 DEF AvMoreIf
    <2>3. QED
      BY <2>1, <2>2
  <1>18. side \in AvSide
    BY AvSideIs
  <1>19. AvShrinksOn(M, u.end, [tree |-> u, node |-> up, side |-> side], Cardinality(M \ V[top]) + 2)
    BY <1>16, <1>17, <1>18, AvShrinksUp
  <1>20. QED
    BY <1>16, <1>19

\* One round.
LEMMA AvShrinkRounds ==
    ASSUME NEW M, NEW E, NEW x, NEW r \in Nat, AvShrinking(M, E, x, r), x.node # -1
    PROVE  AvShrinksOn(M, E, AvShrinkRound[x], r)
  <1> DEFINE t == x.tree
             n == x.node
             s == x.side
             y == AvShrinkRound[x]
  <1>1. x \in AvClimb /\ t.end = E /\ n \in M \cup {AvNull} /\ t \in AvTree /\ s \in AvSide
    BY DEF AvShrinking, AvClimb
  <1>2. PICK U, H :
          /\ AvOrdered(t, M, U) /\ AvHeights(t, M, H, n, s, 1)
          /\ t.height = H[t.root] + AvMoreIf(n = AvNull)
          /\ r = AvClimbRank(M, U, n)
    BY DEF AvShrinking
  <1>3. n # -1 /\ AvNull \notin M /\ M \subseteq AvKey
    BY <1>2, AvKeys DEF AvOrdered
  <1>4. CASE n = AvNull
    <2> DEFINE u == [t EXCEPT !.height = @ - 1]
    <2>1. y = [tree |-> u, node |-> -1, side |-> s]
      <3>1. AvShrunk(x, t, n, s, y)
        BY <1>1, AvShrinkRoundIs
      <3>2. QED
        BY <1>4, <3>1 DEF AvShrunk
    <2>2. u = [t EXCEPT !.height = t.height - 1] /\ t.height - 1 \in Int
      BY <1>1, AvTreeFields
    <2>3. /\ u \in AvTree /\ u.root = t.root /\ u.kid = t.kid /\ u.parent = t.parent
          /\ u.balance = t.balance /\ u.end = t.end /\ u.height = t.height - 1
      BY <1>1, <2>2, AvHeightPut
    <2> HIDE DEF u, t, n, s, y
    <2>4. AvOrdered(u, M, U)
      BY <1>2, <2>3, AvAlike
    <2>5. AvHeightsBut(t, M, H, {})
      BY <1>2, <1>3, <1>4, AvSeenRight
    <2>6. AvHeightsBut(u, M, H, {})
      BY <2>3, <2>5 DEF AvHeightsBut
    <2>7. u.height = H[u.root]
      <3>1. H[t.root] \in Int
        BY <1>1, <2>5, AvTreeFields DEF AvHeightsBut, AvHigh
      <3>2. QED
        BY <1>2, <1>4, <2>3, <3>1 DEF AvMoreIf
    <2>8. r > 0
      BY <1>2, <1>3, <1>4 DEF AvClimbRank
    <2>9. AvShrinksOn(M, u.end, [tree |-> u, node |-> -1, side |-> s], r)
      BY <1>1, <2>4, <2>6, <2>7, <2>8, AvShrinksDone
    <2>10. QED
      BY <1>1, <2>1, <2>3, <2>9 DEF y
  <1>5. CASE n # AvNull
    <2> DEFINE up == t.parent[n]
               side == AvSideOf(t, up, n)
               b == t.balance[n] - s
               w == -s
               c == t.kid[w][n]
    <2>1. n \in M /\ n \in AvKey
      BY <1>1, <1>3, <1>5
    <2>2. r = Cardinality(M \ U[n]) + 2 /\ r > 0
      <3>1. Cardinality(M \ U[n]) \in Nat
        BY <1>2, <2>1, AvCount, AvSides
      <3>2. QED
        BY <1>2, <1>3, <1>5, <3>1 DEF AvClimbRank
    <2>3. /\ b = 0 => y = [tree |-> AvPut(t, n, b), node |-> up, side |-> side]
          /\ b = -s => y = [tree |-> AvPut(t, n, b), node |-> -1, side |-> s]
          /\ b \notin {0, -s} /\ t.balance[c] = 0 =>
               y = [tree |-> AvRotate([t EXCEPT !.balance[n] = w, !.balance[c] = s], n, w),
                    node |-> -1, side |-> s]
          /\ b \notin {0, -s} /\ t.balance[c] # 0 =>
               y = [tree |-> AvRebalance(AvPut(t, n, b), n, w), node |-> up, side |-> side]
      <3>1. AvShrunk(x, t, n, s, y)
        BY <1>1, AvShrinkRoundIs
      <3> HIDE DEF t, n, s, y
      <3>2. QED
        BY <2>1, <3>1 DEF AvShrunk
    <2>4. t.height = H[t.root]
      <3>1. t.root \in AvLink /\ H \in [AvLink -> Int]
        BY <1>1, <1>2, AvTreeFields DEF AvHeights, AvHigh
      <3>2. H[t.root] \in Int
        BY <3>1
      <3>3. QED
        BY <1>2, <1>5, <3>2 DEF AvMoreIf
    <2> HIDE DEF t, n, s, y
    <2>5. CASE b = 0
      <3>1. AvShrinksOn(M, t.end, [tree |-> AvPut(t, n, b), node |-> up, side |-> side], Cardinality(M \ U[n]) + 2)
        BY <1>1, <1>2, <2>1, <2>4, <2>5, AvShrinksPast DEF AvIs
      <3>2. QED
        BY <1>1, <2>2, <2>3, <2>5, <3>1 DEF y
    <2>6. CASE b = -s
      <3>1. AvShrinksOn(M, t.end, [tree |-> AvPut(t, n, b), node |-> -1, side |-> s], r)
        BY <1>1, <1>2, <2>1, <2>2, <2>4, <2>6, AvShrinksHere DEF AvIs
      <3>2. QED
        BY <1>1, <2>3, <2>6, <3>1 DEF y
    <2>7. CASE b \notin {0, -s} /\ t.balance[c] = 0
      <3> DEFINE v == [t EXCEPT !.balance[n] = w, !.balance[c] = s]
      <3>1. AvShrinksOn(M, t.end, [tree |-> AvRotate(v, n, w), node |-> -1, side |-> s], r)
        BY <1>1, <1>2, <2>1, <2>2, <2>4, <2>7, AvShrinksTurned DEF AvIs
      <3>2. QED
        BY <1>1, <2>3, <2>7, <3>1 DEF y
    <2>8. CASE b \notin {0, -s} /\ t.balance[c] # 0
      <3>1. AvShrinksOn(M, t.end, [tree |-> AvRebalance(AvPut(t, n, b), n, w), node |-> up, side |-> side],
                        Cardinality(M \ U[n]) + 2)
        BY <1>1, <1>2, <2>1, <2>4, <2>8, AvShrinksLower DEF AvIs
      <3>2. QED
        BY <1>1, <2>2, <2>3, <2>8, <3>1 DEF y
    <2>9. QED
      BY <2>5, <2>6, <2>7, <2>8
  <1>6. QED
    BY <1>4, <1>5

\* A tree that is right but for the fields of nodes that are not in it.
AvSoundTree(t, M) == \E U, H : AvOrdered(t, M, U) /\ AvHeightsBut(t, M, H, {}) /\ t.height = H[t.root]

\* The climb leaves the tree right.
LEMMA AvShrinks ==
    ASSUME NEW M, NEW E, NEW t \in AvTree, NEW n, NEW s, NEW r \in Nat, r <= AvMany,
           AvShrinking(M, E, [tree |-> t, node |-> n, side |-> s], r)
    PROVE  AvSoundTree(AvShrink(t, n, s), M) /\ AvShrink(t, n, s).end = E
  <1> DEFINE x == [tree |-> t, node |-> n, side |-> s]
             S == {z \in AvClimb \X Nat : AvShrinking(M, E, z[1], z[2])}
             y == AvLoop(AvShrinkRound, x)[AvMany]
  <1>1. <<x, r>> \in S
    BY DEF AvShrinking
  <1>2. AvDescends(AvShrinkRound, S)
    <2>1. SUFFICES ASSUME NEW z, NEW q, <<z, q>> \in S
                   PROVE  q \in Nat /\ (AvShrinkRound[z] = z \/ \E p : p < q /\ <<AvShrinkRound[z], p>> \in S)
      BY DEF AvDescends
    <2>2. z \in AvClimb /\ q \in Nat /\ AvShrinking(M, E, z, q)
      BY <2>1
    <2>3. CASE z.node = -1
      BY <2>2, <2>3, AvShrinkRoundIs DEF AvShrunk
    <2>4. CASE z.node # -1
      <3>1. AvShrinksOn(M, E, AvShrinkRound[z], q)
        BY <2>2, <2>4, AvShrinkRounds
      <3>2. PICK p \in Nat : p < q /\ AvShrinking(M, E, AvShrinkRound[z], p)
        BY <3>1 DEF AvShrinksOn
      <3>3. AvShrinkRound[z] \in AvClimb
        BY <3>2 DEF AvShrinking
      <3>4. QED
        BY <2>2, <3>2, <3>3
    <2>5. QED
      BY <2>3, <2>4
  <1>3. AvShrink(t, n, s) = y.tree
    BY DEF AvShrink
  <1> HIDE DEF x
  <1>4. AvShrinkRound[y] = y /\ \E q : <<y, q>> \in S
    <2> HIDE DEF S
    <2>1. QED
      BY <1>1, <1>2, AvLoopEnds
  <1> HIDE DEF y
  <1> DEFINE T == {q \in Nat : AvShrinking(M, E, y, q)}
  <1>5. T # {}
    BY <1>4
  <1>6. PICK q \in T : \A p \in T : q <= p
    BY <1>5, AvLeast
  <1>7. y.node = -1
    <2>1. SUFFICES ASSUME y.node # -1 PROVE FALSE
      OBVIOUS
    <2>2. AvShrinksOn(M, E, AvShrinkRound[y], q)
      BY <1>6, <2>1, AvShrinkRounds
    <2>3. PICK p \in Nat : p < q /\ AvShrinking(M, E, y, p)
      BY <1>4, <2>2 DEF AvShrinksOn
    <2>4. QED
      BY <1>6, <2>3
  <1>8. PICK U, H :
          /\ AvOrdered(y.tree, M, U) /\ AvHeights(y.tree, M, H, y.node, y.side, 1)
          /\ y.tree.height = H[y.tree.root] + AvMoreIf(y.node = AvNull)
    BY <1>6 DEF AvShrinking
  <1>9. y.node \notin M /\ y.node # AvNull
    BY <1>7, <1>8, AvKeys DEF AvOrdered
  <1>10. AvHeightsBut(y.tree, M, H, {})
    BY <1>8, <1>9, AvSeenRight
  <1>11. y.tree.height = H[y.tree.root]
    <2>1. y.tree.root \in AvLink /\ H \in [AvLink -> Int]
      BY <1>8, AvTreeFields DEF AvOrdered, AvHeights, AvHigh
    <2>2. H[y.tree.root] \in Int
      BY <2>1
    <2>3. QED
      BY <1>8, <1>9, <2>2 DEF AvMoreIf
  <1>12. y.tree.end = E
    BY <1>6 DEF AvShrinking
  <1>13. QED
    BY <1>3, <1>8, <1>10, <1>11, <1>12 DEF AvSoundTree

LEMMA AvClears ==
    ASSUME NEW t, NEW M, AvSoundTree(t, M), NEW k \in AvKey, k \notin M,
           NEW u, AvIs(u, AvClear(t, k))
    PROVE  AvSoundTree(u, M) /\ u.end = t.end
  <1>1. PICK U, H : AvOrdered(t, M, U) /\ AvHeightsBut(t, M, H, {}) /\ t.height = H[t.root]
    BY DEF AvSoundTree
  <1>2. t \in AvTree /\ M \subseteq AvKey
    BY <1>1 DEF AvOrdered
  <1>3. AvCleared(t, k, u)
    BY <1>2, AvClearIs DEF AvIs
  <1>4. /\ u \in AvTree /\ u.root = t.root /\ u.end = t.end /\ u.height = t.height
        /\ \A x \in AvSide : \A m \in M : u.kid[x][m] = t.kid[x][m]
        /\ \A m \in M : u.parent[m] = t.parent[m]
        /\ \A m \in M : u.balance[m] = t.balance[m]
    BY <1>2, <1>3 DEF AvCleared
  <1>5. \A x \in AvSide : -x \in AvSide
    BY AvSides
  <1>6. ASSUME NEW m \in M PROVE AvNode(u, M, U, m)
    <2>1. AvNode(t, M, U, m)
      BY <1>1 DEF AvOrdered
    <2>2. ASSUME NEW x \in AvSide PROVE AvEdge(u, M, U, m, x)
      <3>1. AvEdge(t, M, U, m, x) /\ u.kid[x][m] = t.kid[x][m]
        BY <1>4, <2>1 DEF AvNode
      <3>2. QED
        BY <1>4, <3>1 DEF AvEdge
    <2>3. \A x \in AvSide : U[m] = {m} \cup U[u.kid[x][m]] \cup U[u.kid[-x][m]]
      BY <1>4, <1>5, <2>1 DEF AvNode
    <2>4. QED
      BY <2>2, <2>3 DEF AvNode
  <1>7. AvOrdered(u, M, U)
    BY <1>1, <1>4, <1>6 DEF AvOrdered
  <1>8. AvHeightsBut(u, M, H, {})
    BY <1>1, <1>4, <1>5 DEF AvHeightsBut
  <1>9. QED
    BY <1>1, <1>4, <1>7, <1>8 DEF AvSoundTree

\* The climb from a node has fewer rounds than there are keys, where one is free.
LEMMA AvClimbFits ==
    ASSUME NEW t, NEW M, NEW U, AvOrdered(t, M, U), NEW k \in AvKey, k \notin M,
           NEW n \in M \cup {AvNull}
    PROVE  AvClimbRank(M, U, n) \in Nat /\ AvClimbRank(M, U, n) <= AvMany
  <1>1. M \subseteq AvKey /\ AvNull \notin M /\ n # -1 /\ IsFiniteSet(AvKey)
    BY AvKeys, AvAssumption DEF AvOrdered, AvNull
  <1> DEFINE A == AvKey \ {k}
  <1>2. IsFiniteSet(A) /\ Cardinality(A) = AvMany - 1 /\ Cardinality(A) \in Nat
    BY <1>1, FS_RemoveElement, FS_CardinalityType DEF AvMany
  <1> HIDE DEF A
  <1>3. CASE n = AvNull
    BY <1>1, <1>2, <1>3, AvManyIsNat DEF AvClimbRank
  <1>4. CASE n # AvNull
    <2>1. n \in M /\ n \in A /\ n \in U[n]
      BY <1>1, <1>4, AvChildIs, AvSides DEF A
    <2> DEFINE B == A \ {n}
    <2>2. IsFiniteSet(B) /\ Cardinality(B) = Cardinality(A) - 1 /\ Cardinality(B) \in Nat
      BY <1>2, <2>1, FS_RemoveElement, FS_CardinalityType
    <2>3. M \ U[n] \subseteq B
      BY <1>1, <2>1 DEF A
    <2> HIDE DEF B
    <2>4. Cardinality(M \ U[n]) <= Cardinality(B) /\ Cardinality(M \ U[n]) \in Nat
      BY <2>2, <2>3, FS_Subset, FS_CardinalityType
    <2>5. AvClimbRank(M, U, n) = Cardinality(M \ U[n]) + 2
      BY <1>1, <1>4 DEF AvClimbRank
    <2>6. QED
      BY <1>2, <2>2, <2>4, <2>5, AvManyIsNat
  <1>5. QED
    BY <1>3, <1>4

\* From a node that has become lower on side s, the climb and the removal of
\* the node's fields leave the tree right.
LEMMA AvShrinksClear ==
    ASSUME NEW t, NEW M, NEW U, AvOrdered(t, M, U), NEW H, NEW n \in M \cup {AvNull}, NEW s \in AvSide,
           AvHeights(t, M, H, n, s, 1), t.height = H[t.root] + AvMoreIf(n = AvNull),
           NEW k \in AvKey, k \notin M,
           NEW u, u = AvClear(AvShrink(t, n, s), k)
    PROVE  AvSoundTree(u, M) /\ u.end = t.end
  <1> DEFINE x == [tree |-> t, node |-> n, side |-> s]
             r == AvClimbRank(M, U, n)
             v == AvShrink(t, n, s)
  <1>1. r \in Nat /\ r <= AvMany
    BY AvClimbFits
  <1>2. t \in AvTree /\ n \in AvLink \cup {-1}
    BY AvKeys DEF AvOrdered
  <1>3. x \in AvClimb /\ x.tree = t /\ x.node = n /\ x.side = s
    BY <1>2, AvClimbFields
  <1>4. AvShrinking(M, t.end, x, r)
    <2> HIDE DEF x
    <2>1. QED
      BY <1>3 DEF AvShrinking
  <1> HIDE DEF r
  <1>5. AvSoundTree(v, M) /\ v.end = t.end
    BY <1>1, <1>2, <1>4, AvShrinks
  <1> HIDE DEF v
  <1>6. u = AvClear(v, k)
    BY DEF v
  <1>7. QED
    BY <1>5, <1>6, AvClears DEF AvIs

-----------------------------------------------------------------------------
(* Removals.                                                               *)

\* The subtree c hangs from p on side s, or is the whole tree.
AvPlaced(t, p, s, c, u) ==
    /\ u \in AvTree /\ u.root = IF p = AvNull THEN c ELSE t.root
    /\ \A x \in AvSide : \A m \in AvKey : u.kid[x][m] = IF m = p /\ x = s THEN c ELSE t.kid[x][m]
    /\ \A m \in AvKey : u.parent[m] = IF m = c THEN p ELSE t.parent[m]
    /\ u.balance = t.balance /\ u.end = t.end /\ u.height = t.height

LEMMA AvPlaces ==
    ASSUME NEW t \in AvTree, NEW p \in AvLink, NEW s \in AvSide, NEW c \in AvLink,
           NEW u, u = AvSetParent(AvSetChild(t, p, s, c), c, p)
    PROVE  AvPlaced(t, p, s, c, u)
  <1> DEFINE a == AvSetChild(t, p, s, c)
  <1>1. AvChildSet(t, p, s, c, a)
    BY AvSetChildIs
  <1> HIDE DEF a
  <1>2. a \in AvTree
    BY <1>1 DEF AvChildSet
  <1>3. AvParentSet(a, c, p, u)
    BY <1>2, AvSetParentIs DEF a
  <1>4. QED
    BY <1>1, <1>3 DEF AvPlaced, AvChildSet, AvParentSet

\* The members below each node without k.
AvWithout(U, k) == [x \in AvLink |-> U[x] \ {k}]

LEMMA AvCutIs ==
    ASSUME NEW t, NEW M, NEW U, AvOrdered(t, M, U), NEW H, AvHeightsBut(t, M, H, {}),
           t.height = H[t.root], NEW k \in M,
           NEW y \in AvSide, t.kid[-y][k] = AvNull, NEW c, AvIs(c, t.kid[y][k]),
           NEW p, AvIs(p, t.parent[k]), NEW s, AvIs(s, AvSideOf(t, p, k)),
           NEW u, AvPlaced(t, p, s, c, u), NEW N, N = M \ {k}, NEW V, AvIs(V, AvWithout(U, k))
    PROVE  /\ AvOrdered(u, N, V) /\ AvHeights(u, N, H, p, s, 1)
           /\ u.height = H[u.root] + AvMoreIf(p = AvNull)
           /\ p \in N \cup {AvNull} /\ s \in AvSide
  <1>1. /\ t \in AvTree /\ M \subseteq AvKey /\ U \in [AvLink -> SUBSET M] /\ U[AvNull] = {} /\ U[t.root] = M
        /\ t.root # AvNull => t.root \in M /\ t.parent[t.root] = AvNull
    BY DEF AvOrdered
  <1>2. /\ k \in AvKey /\ k # AvNull /\ N \subseteq AvKey /\ AvNull \in AvLink /\ M \subseteq AvLink
        /\ AvNull \notin M
    BY <1>1, AvKeys
  <1>3. /\ u \in AvTree /\ u.root = IF p = AvNull THEN c ELSE t.root
        /\ \A x \in AvSide : \A m \in AvKey : u.kid[x][m] = IF m = p /\ x = s THEN c ELSE t.kid[x][m]
        /\ \A m \in AvKey : u.parent[m] = IF m = c THEN p ELSE t.parent[m]
        /\ u.balance = t.balance /\ u.end = t.end /\ u.height = t.height
    BY DEF AvPlaced
  <1>4. H \in [AvLink -> Int] /\ H[AvNull] = -1 /\ \A m \in M : H[m] >= 0
    BY DEF AvHeightsBut, AvHigh
  <1>5. c \in AvLink /\ c # k /\ (c # AvNull => c \in N /\ t.parent[c] = k)
    <2>1. c \in AvLink /\ c # k
      BY AvChildIs DEF AvIs
    <2>2. c # AvNull => c \in M /\ t.parent[c] = k
      BY AvBelow DEF AvIs
    <2>3. QED
      BY <2>1, <2>2
  <1>6. s \in AvSide /\ IF k = t.root THEN p = AvNull ELSE p \in M /\ t.kid[s][p] = k
    BY AvSideIs DEF AvIs
  <1>7. p # k
    <2>1. CASE p = AvNull
      BY <1>2, <2>1
    <2>2. CASE p # AvNull
      <3>1. p \in M /\ t.kid[s][p] = k
        BY <1>6, <2>2
      <3>2. t.kid[s][p] # p
        BY <1>6, <3>1, AvChildIs
      <3>3. QED
        BY <3>1, <3>2
    <2>3. QED
      BY <2>1, <2>2
  <1>8. p = t.parent[k] /\ s = AvSideOf(t, t.parent[k], k)
    BY DEF AvIs
  <1>9. U[k] = {k} \cup U[c] /\ k \notin U[c]
    <2>1. U[k] = {k} \cup U[t.kid[y][k]] \cup U[t.kid[-y][k]]
      BY AvBelow
    <2>2. k \notin U[t.kid[y][k]]
      BY AvChildIs
    <2>3. QED
      BY <1>1, <2>1, <2>2 DEF AvIs
  <1>10. H[k] = H[c] + 1 /\ H[c] \in Int
    <2>1. AvLevel(y, t.balance[k], H[c], -1, H[k])
      BY <1>4 DEF AvIs, AvHeightsBut
    <2>2. H[c] \in Int
      BY <1>4, <1>5
    <2>3. H[c] >= -1
      BY <1>4, <1>5, <2>2
    <2>4. QED
      BY <2>1, <2>2, <2>3 DEF AvLevel
  <1>11. V \in [AvLink -> SUBSET N] /\ \A x \in AvLink : V[x] = U[x] \ {k}
    BY <1>1 DEF AvIs, AvWithout
  <1>12. ASSUME NEW m \in N, NEW x \in AvSide
         PROVE  /\ V[u.kid[x][m]] = U[t.kid[x][m]] \ {k}
                /\ u.kid[x][m] # AvNull => u.kid[x][m] \in N /\ u.parent[u.kid[x][m]] = m
                /\ H[t.kid[x][m]] = H[u.kid[x][m]] + IF m = p /\ x = s THEN 1 ELSE 0
    <2>1. m \in M /\ m # k /\ m \in AvKey /\ t.kid[x][m] \in AvLink
      BY <1>2, <1>12, AvChildIs
    <2>2. CASE m = p /\ x = s
      <3>1. u.kid[x][m] = c /\ t.kid[x][m] = k
        BY <1>2, <1>3, <1>6, <2>1, <2>2
      <3>2. V[c] = U[k] \ {k}
        BY <1>5, <1>9, <1>11
      <3>3. c # AvNull => c \in N /\ u.parent[c] = m
        BY <1>2, <1>3, <1>5, <2>2
      <3>4. H[k] = H[c] + 1
        BY <1>10
      <3>5. QED
        BY <2>2, <3>1, <3>2, <3>3, <3>4
    <2>3. CASE ~(m = p /\ x = s)
      <3>1. u.kid[x][m] = t.kid[x][m]
        BY <1>3, <2>1, <2>3
      <3>2. t.kid[x][m] # AvNull => t.kid[x][m] \in M /\ t.parent[t.kid[x][m]] = m
        BY <1>12, <2>1, AvBelow
      <3>3. t.kid[x][m] # k
        <4>1. t.kid[x][m] = k <=> m = t.parent[k] /\ x = AvSideOf(t, t.parent[k], k)
          BY <1>12, <2>1, AvHangsOnce
        <4>2. QED
          BY <1>8, <2>3, <4>1
      <3>4. t.kid[x][m] # c \/ c = AvNull
        BY <1>5, <2>1, <3>2
      <3>5. t.kid[x][m] # AvNull => t.kid[x][m] \in N /\ u.parent[t.kid[x][m]] = m
        BY <1>2, <1>3, <3>2, <3>3, <3>4
      <3>6. H[t.kid[x][m]] \in Int
        BY <1>4, <2>1
      <3>7. QED
        BY <1>11, <2>1, <2>3, <3>1, <3>5, <3>6
    <2>4. QED
      BY <2>2, <2>3
  <1>13. ASSUME NEW m \in N PROVE AvNode(u, N, V, m)
    <2>1. m \in M /\ m # k /\ m \in AvLink
      BY <1>2, <1>13
    <2>2. ASSUME NEW x \in AvSide PROVE AvEdge(u, N, V, m, x)
      <3>1. \A z \in U[t.kid[x][m]] : AvBeyond(x, z, m) /\ z \in M
        BY <2>1, <2>2, AvBelow
      <3>2. V[u.kid[x][m]] = U[t.kid[x][m]] \ {k}
        BY <1>12, <1>13, <2>2
      <3>3. u.kid[x][m] # AvNull => u.kid[x][m] \in N /\ u.parent[u.kid[x][m]] = m
        BY <1>12, <1>13, <2>2
      <3>4. QED
        BY <3>1, <3>2, <3>3 DEF AvEdge
    <2>3. ASSUME NEW x \in AvSide PROVE V[m] = {m} \cup V[u.kid[x][m]] \cup V[u.kid[-x][m]]
      <3>1. U[m] = {m} \cup U[t.kid[x][m]] \cup U[t.kid[-x][m]]
        BY <2>1, <2>3, AvBelow
      <3>2. V[u.kid[x][m]] = U[t.kid[x][m]] \ {k}
        BY <1>12, <1>13, <2>3
      <3>3. -x \in AvSide
        BY <2>3, AvSides
      <3>4. V[u.kid[-x][m]] = U[t.kid[-x][m]] \ {k}
        BY <1>12, <1>13, <3>3
      <3>5. V[m] = U[m] \ {k}
        BY <1>11, <2>1
      <3>6. QED
        BY <2>1, <3>1, <3>2, <3>4, <3>5
    <2>4. QED
      BY <2>2, <2>3 DEF AvNode
  <1>14. V[AvNull] = {} /\ V[u.root] = N
    <2>1. V[AvNull] = {}
      BY <1>1, <1>2, <1>11
    <2>2. CASE p = AvNull
      <3>1. k = t.root /\ u.root = c
        BY <1>2, <1>3, <1>6, <2>2
      <3>2. QED
        BY <1>1, <1>5, <1>9, <1>11, <2>1, <3>1
    <2>3. CASE p # AvNull
      <3>1. u.root = t.root /\ t.root \in AvLink
        BY <1>1, <1>3, <2>3, AvTreeFields
      <3>2. QED
        BY <1>1, <1>11, <2>1, <3>1
    <2>4. QED
      BY <2>2, <2>3
  <1>15. u.root # AvNull => u.root \in N /\ u.parent[u.root] = AvNull
    <2>1. CASE p = AvNull
      BY <1>2, <1>3, <1>5, <2>1
    <2>2. CASE p # AvNull
      <3>1. u.root = t.root /\ t.root # k
        BY <1>3, <1>6, <2>2
      <3>2. t.root # AvNull => t.root \in N /\ t.parent[t.root] = AvNull /\ t.root # c
        BY <1>1, <1>2, <1>5, <3>1
      <3>3. QED
        BY <1>2, <1>3, <3>1, <3>2
    <2>3. QED
      BY <2>1, <2>2
  <1>16. AvOrdered(u, N, V)
    BY <1>2, <1>3, <1>11, <1>13, <1>14, <1>15 DEF AvOrdered
  <1>17. AvHigh(N, H)
    BY <1>4 DEF AvHigh
  <1>18. ASSUME NEW m \in N, NEW x \in AvSide
         PROVE  AvSeen(u, H, m, x, p, s, 1) = H[t.kid[x][m]]
    BY <1>12, <1>18 DEF AvSeen
  <1>19. \A x \in AvSide : -x \in AvSide
    BY AvSides
  <1>20. \A m \in N : \A x \in AvSide :
           AvLevel(x, u.balance[m], AvSeen(u, H, m, x, p, s, 1), AvSeen(u, H, m, -x, p, s, 1), H[m])
    BY <1>3, <1>18, <1>19 DEF AvHeightsBut
  <1>21. AvHeights(u, N, H, p, s, 1)
    BY <1>17, <1>20 DEF AvHeights
  <1>22. u.height = H[u.root] + AvMoreIf(p = AvNull)
    <2>1. CASE p = AvNull
      <3>1. k = t.root /\ u.root = c
        BY <1>2, <1>3, <1>6, <2>1
      <3>2. QED
        BY <1>3, <1>10, <2>1, <3>1 DEF AvMoreIf
    <2>2. CASE p # AvNull
      <3>1. H[t.root] \in Int
        BY <1>1, <1>4, AvTreeFields
      <3>2. QED
        BY <1>3, <2>2, <3>1 DEF AvMoreIf
    <2>3. QED
      BY <2>1, <2>2
  <1>23. p \in N \cup {AvNull}
    BY <1>6, <1>7
  <1>24. QED
    BY <1>6, <1>16, <1>21, <1>22, <1>23

LEMMA AvCuts ==
    ASSUME NEW t, NEW M, NEW U, AvOrdered(t, M, U), NEW H, AvHeightsBut(t, M, H, {}),
           t.height = H[t.root], NEW k \in M, \E x \in AvSide : t.kid[x][k] = AvNull
    PROVE  AvSoundTree(AvCut(t, k), M \ {k}) /\ AvCut(t, k).end = t.end
  <1> DEFINE y == IF t.kid[-1][k] = AvNull THEN 1 ELSE -1
             c == IF t.kid[-1][k] = AvNull THEN t.kid[1][k] ELSE t.kid[-1][k]
             p == t.parent[k]
             s == AvSideOf(t, p, k)
             u == AvSetParent(AvSetChild(t, p, s, c), c, p)
             N == M \ {k}
             V == AvWithout(U, k)
  <1>1. y \in AvSide /\ t.kid[-y][k] = AvNull /\ c = t.kid[y][k]
    <2>1. t.kid[-1][k] = AvNull \/ t.kid[1][k] = AvNull
      BY DEF AvSide
    <2>2. CASE t.kid[-1][k] = AvNull
      BY <2>2 DEF AvSide
    <2>3. CASE t.kid[-1][k] # AvNull
      BY <2>1, <2>3 DEF AvSide
    <2>4. QED
      BY <2>2, <2>3
  <1>2. AvCut(t, k) = AvClear(AvShrink(u, p, s), k)
    BY DEF AvCut
  <1>3. t \in AvTree /\ k \in AvKey /\ M \subseteq AvKey
    BY DEF AvOrdered
  <1> HIDE DEF y, c
  <1>4. c \in AvLink /\ p \in AvLink /\ s \in AvSide
    <2>1. c \in AvLink /\ p \in AvLink
      BY <1>1, AvChildIs
    <2>2. s \in AvSide
      BY AvSideIs
    <2>3. QED
      BY <2>1, <2>2
  <1>5. AvPlaced(t, p, s, c, u)
    BY <1>3, <1>4, AvPlaces
  <1> HIDE DEF u, V
  <1>6. /\ AvOrdered(u, N, V) /\ AvHeights(u, N, H, p, s, 1)
        /\ u.height = H[u.root] + AvMoreIf(p = AvNull)
        /\ p \in N \cup {AvNull} /\ s \in AvSide
    BY <1>1, <1>5, AvCutIs DEF AvIs, V
  <1>7. AvSoundTree(AvCut(t, k), N) /\ AvCut(t, k).end = u.end
    BY <1>2, <1>3, <1>6, AvShrinksClear
  <1>8. u.end = t.end
    BY <1>5 DEF AvPlaced
  <1>9. QED
    BY <1>7, <1>8

\* What is below a node that is below another is below the other.
LEMMA AvBelowAll ==
    ASSUME NEW t, NEW M, NEW U, AvOrdered(t, M, U)
    PROVE  \A y \in M : \A x \in U[y] : U[x] \subseteq U[y] /\ (x = y \/ t.parent[x] \in U[y])
  <1> DEFINE S == {y \in M : \A x \in U[y] : U[x] \subseteq U[y] /\ (x = y \/ t.parent[x] \in U[y])}
  <1>1. ASSUME NEW n \in M, \A s \in AvSide : t.kid[s][n] \in S \/ t.kid[s][n] = AvNull
        PROVE  n \in S
    <2>1. SUFFICES ASSUME NEW x \in U[n]
                   PROVE  U[x] \subseteq U[n] /\ (x = n \/ t.parent[x] \in U[n])
      BY <1>1
    <2>2. CASE x = n
      BY <2>2
    <2>3. CASE x # n
      <3>1. U[n] = {n} \cup U[t.kid[1][n]] \cup U[t.kid[-1][n]]
        BY <1>1, AvBelow, AvSides
      <3>2. PICK s \in AvSide : x \in U[t.kid[s][n]]
        BY <2>1, <2>3, <3>1, AvSides
      <3>3. t.kid[s][n] # AvNull
        BY <3>2 DEF AvOrdered
      <3>4. t.kid[s][n] \in S
        BY <1>1, <3>3
      <3>5. U[x] \subseteq U[t.kid[s][n]] /\ (x = t.kid[s][n] \/ t.parent[x] \in U[t.kid[s][n]])
        BY <3>2, <3>4
      <3>6. U[t.kid[s][n]] \subseteq U[n] /\ n \in U[n]
        BY <1>1, AvChildIs
      <3>7. t.parent[t.kid[s][n]] = n
        BY <1>1, <3>3, AvBelow
      <3>8. QED
        BY <3>5, <3>6, <3>7
    <2>4. QED
      BY <2>2, <2>3
  <1> HIDE DEF S
  <1>2. M \subseteq S
    BY <1>1, AvRises
  <1>3. QED
    BY <1>2 DEF S

\* The nodes that the removal of k, which has two children, meets: its
\* successor next, which hangs from the node from, has no child on side -1.
AvSwapMet(t, M, U, k, p, left, right, next, from, rest) ==
    /\ left \in M /\ right \in M /\ next \in M
    /\ left = t.kid[-1][k] /\ right = t.kid[1][k]
    /\ t.parent[left] = k /\ t.parent[right] = k
    /\ p = t.parent[k] /\ from = t.parent[next]
    /\ next \in U[right] /\ t.kid[-1][next] = AvNull /\ rest = t.kid[1][next]
    /\ \A x \in U[right] : x = next \/ AvBeyond(1, x, next)
    /\ k \notin U[right] /\ left \notin U[right] /\ left # k
    /\ p # k /\ p \notin U[k]
    /\ rest # next /\ (rest # AvNull => rest \in U[right] /\ rest # right /\ t.parent[rest] = next)
    /\ IF from = k THEN next = right
       ELSE next # right /\ from \in U[right] /\ from # next /\ t.kid[-1][from] = next

LEMMA AvSwapMeets ==
    ASSUME NEW t, NEW M, NEW U, AvOrdered(t, M, U), NEW k \in M,
           NEW p, p = t.parent[k],
           NEW left, left = t.kid[-1][k], left # AvNull,
           NEW right, right = t.kid[1][k], right # AvNull,
           NEW next, AvIs(next, AvOutmost(t, right, -1)),
           NEW from, from = t.parent[next], NEW rest, rest = t.kid[1][next]
    PROVE  AvSwapMet(t, M, U, k, p, left, right, next, from, rest)
  <1>1. -1 \in AvSide /\ 1 \in AvSide
    BY AvSides
  <1>2. left \in M /\ t.parent[left] = k /\ left # k
    <2>1. left \in M /\ t.parent[left] = k
      BY <1>1, AvBelow
    <2>2. left # k
      BY <1>1, AvChildIs
    <2>3. QED
      BY <2>1, <2>2
  <1>3. right \in M /\ t.parent[right] = k /\ right # k
    <2>1. right \in M /\ t.parent[right] = k
      BY <1>1, AvBelow
    <2>2. right # k
      BY <1>1, AvChildIs
    <2>3. QED
      BY <2>1, <2>2
  <1>4. next \in M /\ t.kid[-1][next] = AvNull /\ AvLast(U[right], -1, next)
    BY <1>1, <1>3, AvOutmostIs
  <1>5. M \subseteq Int /\ M \subseteq AvKey /\ AvNull \notin M
    BY AvKeys DEF AvOrdered
  <1>6. U[right] \subseteq M /\ U[right] \subseteq U[k] /\ right \in U[right] /\ k \notin U[right]
    <2>1. U[right] \subseteq U[k] /\ k \notin U[right]
      BY <1>1, AvChildIs
    <2>2. U[right] \subseteq M /\ right \in U[right]
      BY <1>1, <1>3, AvChildIs
    <2>3. QED
      BY <2>1, <2>2
  <1>7. next \in U[right] /\ \A x \in U[right] : x = next \/ AvBeyond(1, x, next)
    <2>1. next \in U[right] /\ \A x \in U[right] : x = next \/ AvBeyond(-1, next, x)
      BY <1>4 DEF AvLast
    <2>2. QED
      BY <2>1 DEF AvBeyond
  <1>8. left \notin U[right]
    <2>1. U[t.kid[1][k]] \cap U[t.kid[-1][k]] = {}
      BY <1>1, AvChildIs, Zenon
    <2>2. left \in U[left]
      BY <1>1, <1>2, AvChildIs
    <2>3. QED
      BY <2>1, <2>2
  <1>9. \A y \in M : \A x \in U[y] : U[x] \subseteq U[y] /\ (x = y \/ t.parent[x] \in U[y])
    BY AvBelowAll
  <1>10. p # k /\ p \notin U[k]
    <2>1. CASE k = t.root
      <3>1. p = AvNull
        BY <1>5, <2>1 DEF AvOrdered
      <3>2. U[k] \subseteq M
        BY <1>1, AvChildIs
      <3>3. QED
        BY <1>5, <3>1, <3>2
    <2>2. CASE k # t.root
      <3>1. p \in M /\ \E s \in AvSide : t.kid[s][p] = k
        BY <2>2, AvHangs
      <3>2. PICK s \in AvSide : t.kid[s][p] = k
        BY <3>1
      <3>3. p \notin U[t.kid[s][p]] /\ t.kid[s][p] # p
        BY <3>1, AvChildIs
      <3>4. QED
        BY <3>2, <3>3
    <2>3. QED
      BY <2>1, <2>2
  <1>11. rest # next /\ (rest # AvNull => rest \in U[right] /\ t.parent[rest] = next)
    <2>1. rest # next
      BY <1>1, <1>4, AvChildIs
    <2>2. rest # AvNull => rest \in U[rest] /\ t.parent[rest] = next
      BY <1>1, <1>4, AvChildIs, AvBelow
    <2>3. U[rest] \subseteq U[next]
      BY <1>1, <1>4, AvChildIs
    <2>4. U[next] \subseteq U[right]
      BY <1>3, <1>7, <1>9
    <2>5. QED
      BY <2>1, <2>2, <2>3, <2>4
  <1>12. rest # AvNull => rest # right
    BY <1>3, <1>4, <1>6, <1>7, <1>11
  <1>13. CASE next = right
    <2>1. from = k
      BY <1>3, <1>13
    <2>2. QED
      BY <1>2, <1>3, <1>4, <1>6, <1>7, <1>8, <1>10, <1>11, <1>12, <1>13, <2>1 DEF AvSwapMet
  <1>14. CASE next # right
    <2>1. from \in U[right]
      BY <1>3, <1>7, <1>9, <1>14
    <2>2. from # k
      BY <1>6, <2>1
    <2>3. next # t.root
      BY <1>5, <1>6, <2>1 DEF AvOrdered
    <2>4. from \in M /\ \E s \in AvSide : t.kid[s][from] = next
      BY <1>4, <2>3, AvHangs
    <2>5. PICK s \in AvSide : t.kid[s][from] = next
      BY <2>4
    <2>6. from # next /\ next \in U[next]
      <3>1. t.kid[s][from] # from
        BY <2>4, AvChildIs
      <3>2. next \in U[next]
        BY <1>1, <1>4, AvChildIs
      <3>3. QED
        BY <2>5, <3>1, <3>2
    <2>7. AvBeyond(s, next, from)
      BY <2>4, <2>5, <2>6, AvBelow
    <2>8. AvBeyond(1, from, next)
      BY <1>7, <2>1, <2>6
    <2>9. s = -1
      BY <1>4, <1>5, <2>4, <2>7, <2>8 DEF AvBeyond, AvSide
    <2>10. QED
      BY <1>2, <1>3, <1>4, <1>6, <1>7, <1>8, <1>10, <1>11, <1>12, <1>14, <2>1, <2>2, <2>5, <2>6, <2>9 DEF AvSwapMet
  <1>15. QED
    BY <1>13, <1>14

\* The successor next has taken the place of k.
AvSwapped(t, k, p, s, left, right, next, from, rest, u) ==
    /\ u \in AvTree /\ u.root = IF p = AvNull THEN next ELSE t.root
    /\ u.kid[-1][next] = left /\ u.kid[1][next] = IF from = k THEN rest ELSE right
    /\ \A x \in AvSide : \A m \in AvKey \ {k, next} :
         u.kid[x][m] = IF m = p /\ x = s THEN next ELSE IF m = from /\ x = -1 THEN rest ELSE t.kid[x][m]
    /\ u.parent[next] = p /\ u.parent[left] = next /\ (right # next => u.parent[right] = next)
    /\ rest # AvNull => u.parent[rest] = IF from = k THEN next ELSE from
    /\ \A m \in AvKey \ {next, left, right, rest} : u.parent[m] = t.parent[m]
    /\ \A m \in AvKey : u.balance[m] = IF m = next THEN t.balance[k] ELSE t.balance[m]
    /\ u.end = t.end /\ u.height = t.height

\* Its first steps, after which left hangs from next.
AvSwapBegun(t, k, p, s, left, next, u) ==
    /\ u \in AvTree /\ u.root = IF p = AvNull THEN next ELSE t.root
    /\ \A x \in AvSide : \A m \in AvKey :
         u.kid[x][m] = IF m = next /\ x = -1 THEN left
                       ELSE IF m = p /\ x = s THEN next ELSE t.kid[x][m]
    /\ \A m \in AvKey : u.parent[m] = IF m = left THEN next ELSE IF m = next THEN p ELSE t.parent[m]
    /\ \A m \in AvKey : u.balance[m] = IF m = next THEN t.balance[k] ELSE t.balance[m]
    /\ u.end = t.end /\ u.height = t.height

LEMMA AvSwapBegins ==
    ASSUME NEW t \in AvTree, NEW k \in AvKey, NEW p \in AvLink, NEW s \in AvSide,
           NEW left \in AvLink, NEW next \in AvKey,
           NEW hung, AvIs(hung, AvSetParent(AvSetChild(t, p, s, next), next, p)),
           NEW put, AvIs(put, [hung EXCEPT !.balance[next] = t.balance[k]]),
           NEW u, AvIs(u, AvSetParent(AvSetChild(put, next, -1, left), left, next))
    PROVE  AvSwapBegun(t, k, p, s, left, next, u)
  <1>1. next \in AvLink /\ -1 \in AvSide /\ next # AvNull
    BY AvKeys, AvSides
  <1>2. AvPlaced(t, p, s, next, hung)
    BY <1>1, AvPlaces DEF AvIs
  <1>3. hung \in AvTree
    BY <1>2 DEF AvPlaced
  <1>4. t.balance[k] \in -2 .. 2
    BY AvTreeFields
  <1>5. put = AvPut(hung, next, t.balance[k])
    BY DEF AvIs, AvPut
  <1>6. AvSameShape(hung, put) /\ AvHasPut(hung, next, t.balance[k], put)
    BY <1>3, <1>4, <1>5, AvPutIs
  <1>7. put \in AvTree
    BY <1>6 DEF AvSameShape
  <1>8. AvPlaced(put, next, -1, left, u)
    BY <1>1, <1>7, AvPlaces DEF AvIs
  <1>9. /\ hung.root = IF p = AvNull THEN next ELSE t.root
        /\ \A x \in AvSide : \A m \in AvKey : hung.kid[x][m] = IF m = p /\ x = s THEN next ELSE t.kid[x][m]
        /\ \A m \in AvKey : hung.parent[m] = IF m = next THEN p ELSE t.parent[m]
        /\ hung.balance = t.balance /\ hung.end = t.end /\ hung.height = t.height
    BY <1>2 DEF AvPlaced
  <1>10. /\ put.kid = hung.kid /\ put.parent = hung.parent /\ put.root = hung.root
         /\ put.end = hung.end /\ put.height = hung.height
         /\ \A m \in AvKey : put.balance[m] = IF m = next THEN t.balance[k] ELSE hung.balance[m]
    BY <1>6 DEF AvSameShape, AvHasPut
  <1>11. /\ u \in AvTree /\ u.root = put.root
         /\ \A x \in AvSide : \A m \in AvKey : u.kid[x][m] = IF m = next /\ x = -1 THEN left ELSE put.kid[x][m]
         /\ \A m \in AvKey : u.parent[m] = IF m = left THEN next ELSE put.parent[m]
         /\ u.balance = put.balance /\ u.end = put.end /\ u.height = put.height
    BY <1>1, <1>8 DEF AvPlaced
  <1>12. u.root = IF p = AvNull THEN next ELSE t.root
    BY <1>9, <1>10, <1>11
  <1>13. \A x \in AvSide : \A m \in AvKey :
           u.kid[x][m] = IF m = next /\ x = -1 THEN left
                         ELSE IF m = p /\ x = s THEN next ELSE t.kid[x][m]
    BY <1>9, <1>10, <1>11
  <1>14. \A m \in AvKey : u.parent[m] = IF m = left THEN next ELSE IF m = next THEN p ELSE t.parent[m]
    BY <1>9, <1>10, <1>11
  <1>15. \A m \in AvKey : u.balance[m] = IF m = next THEN t.balance[k] ELSE t.balance[m]
    BY <1>9, <1>10, <1>11
  <1>16. QED
    BY <1>9, <1>10, <1>11, <1>12, <1>13, <1>14, <1>15 DEF AvSwapBegun

LEMMA AvSwapNear ==
    ASSUME NEW t, NEW M, NEW U, AvOrdered(t, M, U), NEW k \in M,
           NEW p, NEW left, NEW right, NEW next, NEW from, NEW rest,
           AvSwapMet(t, M, U, k, p, left, right, next, from, rest), from = k,
           NEW s \in AvSide, NEW u, AvSwapBegun(t, k, p, s, left, next, u)
    PROVE  AvSwapped(t, k, p, s, left, right, next, from, rest, u)
  <1>1. M \subseteq AvKey /\ k \in AvKey
    BY DEF AvOrdered
  <1>2. /\ left \in AvKey /\ right \in AvKey /\ next \in AvKey
        /\ next = right /\ left # next /\ rest # next /\ p # next
        /\ rest = t.kid[1][next] /\ (rest # AvNull => rest \in AvKey /\ t.parent[rest] = next /\ rest # left)
    <2>1. left \in M /\ right \in M /\ next \in M /\ next \in U[right] /\ left \notin U[right] /\ rest # next
          /\ p \notin U[k] /\ right = t.kid[1][k]
          /\ rest = t.kid[1][next] /\ (rest # AvNull => rest \in U[right] /\ t.parent[rest] = next)
      BY DEF AvSwapMet
    <2>2. next = right
      BY DEF AvSwapMet
    <2>3. U[right] \subseteq U[k] /\ U[right] \subseteq M
      <3>1. U[right] \subseteq U[k]
        BY <2>1, AvChildIs, AvSides
      <3>2. U[right] \subseteq M
        BY <2>1, AvChildIs, AvSides
      <3>3. QED
        BY <3>1, <3>2
    <2>4. QED
      BY <1>1, <2>1, <2>2, <2>3
  <1>3. /\ u \in AvTree /\ u.root = IF p = AvNull THEN next ELSE t.root
        /\ \A x \in AvSide : \A m \in AvKey :
             u.kid[x][m] = IF m = next /\ x = -1 THEN left
                           ELSE IF m = p /\ x = s THEN next ELSE t.kid[x][m]
        /\ \A m \in AvKey : u.parent[m] = IF m = left THEN next ELSE IF m = next THEN p ELSE t.parent[m]
        /\ \A m \in AvKey : u.balance[m] = IF m = next THEN t.balance[k] ELSE t.balance[m]
        /\ u.end = t.end /\ u.height = t.height
    BY DEF AvSwapBegun
  <1>4. u.kid[-1][next] = left
    BY <1>2, <1>3, AvSides
  <1>5. u.kid[1][next] = rest
    <2>1. 1 \in AvSide /\ 1 # -1
      BY AvSides
    <2>2. QED
      BY <1>2, <1>3, <2>1
  <1>6. \A x \in AvSide : \A m \in AvKey \ {k, next} :
          u.kid[x][m] = IF m = p /\ x = s THEN next ELSE IF m = from /\ x = -1 THEN rest ELSE t.kid[x][m]
    BY <1>3
  <1>7. u.parent[next] = p /\ u.parent[left] = next
    BY <1>2, <1>3
  <1>8. rest # AvNull => u.parent[rest] = next
    BY <1>2, <1>3
  <1>9. \A m \in AvKey \ {next, left, right, rest} : u.parent[m] = t.parent[m]
    BY <1>3
  <1>10. QED
    BY <1>2, <1>3, <1>4, <1>5, <1>6, <1>7, <1>8, <1>9 DEF AvSwapped

LEMMA AvSwapFar ==
    ASSUME NEW t, NEW M, NEW U, AvOrdered(t, M, U), NEW k \in M,
           NEW p, NEW left, NEW right, NEW next, NEW from, NEW rest,
           AvSwapMet(t, M, U, k, p, left, right, next, from, rest), from # k,
           NEW s \in AvSide, NEW placed, AvSwapBegun(t, k, p, s, left, next, placed),
           NEW taken, AvIs(taken, AvSetParent(AvSetChild(placed, from, -1, rest), rest, from)),
           NEW u, AvIs(u, AvSetParent(AvSetChild(taken, next, 1, right), right, next))
    PROVE  AvSwapped(t, k, p, s, left, right, next, from, rest, u)
  <1>1. M \subseteq AvKey /\ k \in AvKey /\ AvNull \notin M
    BY AvKeys DEF AvOrdered
  <1>2. /\ left \in M /\ right \in M /\ next \in M /\ next \in U[right] /\ left \notin U[right] /\ rest # next
        /\ p \notin U[k] /\ right = t.kid[1][k]
        /\ rest = t.kid[1][next] /\ (rest # AvNull => rest \in U[right] /\ rest # right /\ t.parent[rest] = next)
        /\ next # right /\ from \in U[right] /\ from # next
    BY DEF AvSwapMet
  <1>3. U[right] \subseteq U[k] /\ U[right] \subseteq M /\ right \in U[right]
    <2>1. U[right] \subseteq U[k]
      BY <1>2, AvChildIs, AvSides
    <2>2. U[right] \subseteq M /\ right \in U[right]
      BY <1>2, AvChildIs, AvSides
    <2>3. QED
      BY <2>1, <2>2
  <1>4. /\ left \in AvKey /\ right \in AvKey /\ next \in AvKey /\ from \in AvKey
        /\ left # next /\ left # right /\ left # AvNull /\ right # AvNull
        /\ p # next /\ p # from /\ next # AvNull /\ from # AvNull
        /\ (rest # AvNull => rest \in AvKey /\ rest # left)
    BY <1>1, <1>2, <1>3
  <1>5. rest \in AvLink /\ from \in AvLink /\ right \in AvLink /\ next \in AvLink /\ -1 \in AvSide /\ 1 \in AvSide
        /\ 1 # -1
    BY <1>4, AvKeys, AvSides, Zenon
  <1>6. /\ placed \in AvTree /\ placed.root = IF p = AvNull THEN next ELSE t.root
        /\ \A x \in AvSide : \A m \in AvKey :
             placed.kid[x][m] = IF m = next /\ x = -1 THEN left
                                ELSE IF m = p /\ x = s THEN next ELSE t.kid[x][m]
        /\ \A m \in AvKey : placed.parent[m] = IF m = left THEN next ELSE IF m = next THEN p ELSE t.parent[m]
        /\ \A m \in AvKey : placed.balance[m] = IF m = next THEN t.balance[k] ELSE t.balance[m]
        /\ placed.end = t.end /\ placed.height = t.height
    BY DEF AvSwapBegun
  <1>7. AvPlaced(placed, from, -1, rest, taken)
    BY <1>5, <1>6, AvPlaces DEF AvIs
  <1>8. /\ taken \in AvTree /\ taken.root = placed.root
        /\ \A x \in AvSide : \A m \in AvKey :
             taken.kid[x][m] = IF m = from /\ x = -1 THEN rest ELSE placed.kid[x][m]
        /\ \A m \in AvKey : taken.parent[m] = IF m = rest THEN from ELSE placed.parent[m]
        /\ taken.balance = placed.balance /\ taken.end = placed.end /\ taken.height = placed.height
    BY <1>4, <1>7 DEF AvPlaced
  <1>9. AvPlaced(taken, next, 1, right, u)
    BY <1>5, <1>8, AvPlaces DEF AvIs
  <1>10. /\ u \in AvTree /\ u.root = taken.root
         /\ \A x \in AvSide : \A m \in AvKey :
              u.kid[x][m] = IF m = next /\ x = 1 THEN right ELSE taken.kid[x][m]
         /\ \A m \in AvKey : u.parent[m] = IF m = right THEN next ELSE taken.parent[m]
         /\ u.balance = taken.balance /\ u.end = taken.end /\ u.height = taken.height
    BY <1>4, <1>9 DEF AvPlaced
  <1>11. u.root = IF p = AvNull THEN next ELSE t.root
    BY <1>6, <1>8, <1>10
  <1>12. u.kid[-1][next] = left
    BY <1>2, <1>4, <1>5, <1>6, <1>8, <1>10
  <1>13. u.kid[1][next] = right
    BY <1>4, <1>5, <1>10
  <1>14. \A x \in AvSide : \A m \in AvKey \ {k, next} :
           u.kid[x][m] = IF m = p /\ x = s THEN next ELSE IF m = from /\ x = -1 THEN rest ELSE t.kid[x][m]
    BY <1>4, <1>6, <1>8, <1>10
  <1>15. u.parent[next] = p
    BY <1>2, <1>4, <1>6, <1>8, <1>10
  <1>16. u.parent[left] = next
    <2>1. taken.parent[left] = placed.parent[left]
      BY <1>4, <1>8
    <2>2. QED
      BY <1>4, <1>6, <1>10, <2>1
  <1>17. u.parent[right] = next
    BY <1>4, <1>10
  <1>18. rest # AvNull => u.parent[rest] = from
    BY <1>2, <1>4, <1>8, <1>10
  <1>19. \A m \in AvKey \ {next, left, right, rest} : u.parent[m] = t.parent[m]
    BY <1>6, <1>8, <1>10
  <1>20. \A m \in AvKey : u.balance[m] = IF m = next THEN t.balance[k] ELSE t.balance[m]
    BY <1>6, <1>8, <1>10
  <1>21. u.end = t.end /\ u.height = t.height
    BY <1>6, <1>8, <1>10
  <1>22. QED
    BY <1>10, <1>11, <1>12, <1>13, <1>14, <1>15, <1>16, <1>17, <1>18, <1>19, <1>20, <1>21 DEF AvSwapped

\* The members below each node, and the heights, after the swap.
AvSwapUnder(U, k, next, right) ==
    [x \in AvLink |-> IF x = next THEN U[k] \ {k} ELSE IF x \in U[right] THEN U[x] \ {next} ELSE U[x] \ {k}]

AvSwapHigh(H, k, next) == [H EXCEPT ![next] = H[k]]

\* What the ghosts are for the children of a node.
AvSwapKids(t, U, H, N, u, V, G, m, x, d, e) ==
    /\ V[u.kid[x][m]] = U[t.kid[x][m]] \ {d}
    /\ u.kid[x][m] # AvNull => u.kid[x][m] \in N /\ u.parent[u.kid[x][m]] = m
    /\ H[t.kid[x][m]] = G[u.kid[x][m]] + e
    /\ G[u.kid[x][m]] \in Int

LEMMA AvSwapElsewhere ==
    ASSUME NEW t, NEW M, NEW U, AvOrdered(t, M, U), NEW H, AvHeightsBut(t, M, H, {}), NEW k \in M,
           NEW p, NEW left, NEW right, NEW next, NEW from, NEW rest,
           AvSwapMet(t, M, U, k, p, left, right, next, from, rest),
           NEW s, AvIs(s, AvSideOf(t, t.parent[k], k)),
           NEW u, AvSwapped(t, k, p, s, left, right, next, from, rest, u),
           NEW N, AvIs(N, M \ {k}), NEW V, AvIs(V, AvSwapUnder(U, k, next, right)), NEW G, AvIs(G, AvSwapHigh(H, k, next)),
           NEW f, AvIs(f, IF from = k THEN next ELSE from), NEW z, AvIs(z, IF from = k THEN 1 ELSE -1),
           NEW m \in N, m # next, NEW x \in AvSide,
           NEW d, AvIs(d, IF m \in U[right] THEN next ELSE k)
    PROVE  AvSwapKids(t, U, H, N, u, V, G, m, x, d, IF m = f /\ x = z THEN 1 ELSE 0)
  <1> DEFINE c == t.kid[x][m]
  <1>1. /\ M \subseteq AvKey /\ U \in [AvLink -> SUBSET M] /\ U[AvNull] = {}
        /\ AvNull \notin M /\ M \subseteq AvLink /\ AvNull \in AvLink
    BY AvKeys DEF AvOrdered
  <1>2. H \in [AvLink -> Int] /\ H[AvNull] = -1 /\ \A y \in M : H[y] >= 0
    BY DEF AvHeightsBut, AvHigh
  <1>3. /\ left \in M /\ right \in M /\ next \in M
        /\ left = t.kid[-1][k] /\ right = t.kid[1][k]
        /\ t.parent[left] = k /\ t.parent[right] = k
        /\ p = t.parent[k] /\ from = t.parent[next]
        /\ next \in U[right] /\ t.kid[-1][next] = AvNull /\ rest = t.kid[1][next]
        /\ k \notin U[right] /\ left \notin U[right] /\ left # k
        /\ p # k /\ p \notin U[k]
        /\ rest # next /\ (rest # AvNull => rest \in U[right] /\ rest # right /\ t.parent[rest] = next)
        /\ IF from = k THEN next = right
           ELSE next # right /\ from \in U[right] /\ from # next /\ t.kid[-1][from] = next
    BY DEF AvSwapMet
  <1>4. /\ \A y \in AvSide : \A i \in AvKey \ {k, next} :
             u.kid[y][i] = IF i = p /\ y = s THEN next ELSE IF i = from /\ y = -1 THEN rest ELSE t.kid[y][i]
        /\ u.parent[next] = p /\ u.parent[left] = next /\ (right # next => u.parent[right] = next)
        /\ rest # AvNull => u.parent[rest] = IF from = k THEN next ELSE from
        /\ \A i \in AvKey \ {next, left, right, rest} : u.parent[i] = t.parent[i]
    BY DEF AvSwapped
  <1>5. \A y \in M : \A i \in U[y] : U[i] \subseteq U[y] /\ (i = y \/ t.parent[i] \in U[y])
    BY AvBelowAll
  <1>6. m \in M /\ m # k /\ m \in AvKey /\ c \in AvLink
    BY <1>1, AvChildIs DEF AvIs
  <1>7. U[right] \subseteq U[k] /\ U[right] \subseteq M
    <2>1. 1 \in AvSide
      BY AvSides
    <2>2. U[right] \subseteq U[k]
      BY <1>3, <2>1, AvChildIs
    <2>3. U[right] \subseteq M
      BY <1>3, <2>1, AvChildIs
    <2>4. QED
      BY <2>2, <2>3
  <1>8. /\ \A y \in AvLink : y = next => V[y] = U[k] \ {k}
        /\ \A y \in AvLink : y # next /\ y \in U[right] => V[y] = U[y] \ {next}
        /\ \A y \in AvLink : y # next /\ y \notin U[right] => V[y] = U[y] \ {k}
    BY DEF AvIs, AvSwapUnder
  <1>9. G \in [AvLink -> Int] /\ G[next] = H[k] /\ \A y \in AvLink : y # next => G[y] = H[y]
    BY <1>1, <1>2, <1>3 DEF AvIs, AvSwapHigh
  <1>10. c # AvNull => c \in M /\ t.parent[c] = m
    BY <1>6, AvBelow
  <1>11. c = k <=> m = p /\ x = s
    <2>1. c = k <=> m = t.parent[k] /\ x = AvSideOf(t, t.parent[k], k)
      BY <1>6, AvHangsOnce
    <2>2. QED
      BY <1>3, <2>1 DEF AvIs
  <1>12. f \in U[k]
    BY <1>3, <1>7 DEF AvIs
  <1>13. z = IF from = k THEN 1 ELSE -1
    BY DEF AvIs
  <1>14. f = IF from = k THEN next ELSE from
    BY DEF AvIs
  <1>15. d = IF m \in U[right] THEN next ELSE k
    BY DEF AvIs
  <1>20. N = M \ {k}
    BY DEF AvIs
  <1> HIDE DEF c
  <1>16. CASE m = p /\ x = s
    <2>1. u.kid[x][m] = next /\ c = k
      BY <1>4, <1>6, <1>11, <1>16
    <2>2. d = k
      BY <1>3, <1>7, <1>15, <1>16
    <2>3. V[next] = U[k] \ {k}
      BY <1>1, <1>3, <1>8
    <2>4. next \in N /\ u.parent[next] = m
      BY <1>3, <1>4, <1>16, <1>20
    <2>5. m # f
      BY <1>3, <1>12, <1>16
    <2>6. H[k] = G[next] /\ G[next] \in Int
      BY <1>1, <1>3, <1>9
    <2>7. QED
      BY <2>1, <2>2, <2>3, <2>4, <2>5, <2>6 DEF AvSwapKids, c
  <1>17. CASE ~(m = p /\ x = s) /\ m = from /\ x = -1
    <2>1. from # k /\ u.kid[x][m] = rest /\ c = next
      BY <1>3, <1>4, <1>6, <1>17 DEF c
    <2>2. d = next /\ f = m /\ z = -1
      BY <1>3, <1>13, <1>14, <1>15, <1>17, <2>1
    <2>3. U[next] = {next} \cup U[rest] /\ next \notin U[rest]
      <3>1. -1 \in AvSide /\ 1 \in AvSide
        BY AvSides
      <3>2. U[next] = {next} \cup U[t.kid[1][next]] \cup U[t.kid[-1][next]]
        BY <1>3, <3>1, AvBelow
      <3>3. next \notin U[t.kid[1][next]]
        BY <1>3, <3>1, AvChildIs
      <3>4. QED
        BY <1>1, <1>3, <3>2, <3>3
    <2>4. V[rest] = U[rest]
      <3>1. CASE rest = AvNull
        BY <1>1, <1>3, <1>8, <3>1, Zenon
      <3>2. CASE rest # AvNull
        <4>1. rest \in AvLink /\ rest # next /\ rest \in U[right]
          BY <1>1, <1>3, <1>7, <3>2
        <4>2. V[rest] = U[rest] \ {next}
          BY <1>8, <4>1
        <4>3. QED
          BY <2>3, <4>2
      <3>3. QED
        BY <3>1, <3>2
    <2>5. rest # AvNull => rest \in N /\ u.parent[rest] = m
      BY <1>3, <1>4, <1>7, <1>17, <1>20, <2>1
    <2>6. H[next] = G[rest] + 1 /\ G[rest] \in Int
      <3>1. rest \in AvLink
        BY <1>1, <1>3, <1>7
      <3>2. G[rest] = H[rest] /\ H[rest] \in Int
        BY <1>2, <1>3, <1>9, <3>1
      <3>3. AvLevel(1, t.balance[next], H[rest], -1, H[next])
        <4>1. AvLevel(1, t.balance[next], H[t.kid[1][next]], H[t.kid[-1][next]], H[next])
          BY <1>3, AvSides DEF AvHeightsBut
        <4>2. QED
          BY <1>2, <1>3, <4>1
      <3>4. H[rest] >= -1
        <4>1. CASE rest = AvNull
          BY <1>2, <3>2, <4>1
        <4>2. CASE rest # AvNull
          <5>1. H[rest] >= 0
            BY <1>2, <1>3, <1>7, <4>2
          <5>2. QED
            BY <3>2, <5>1
        <4>3. QED
          BY <4>1, <4>2
      <3>5. QED
        BY <3>2, <3>3, <3>4 DEF AvLevel
    <2>7. QED
      BY <1>17, <2>1, <2>2, <2>3, <2>4, <2>5, <2>6 DEF AvSwapKids, c
  <1>18. CASE ~(m = p /\ x = s) /\ ~(m = from /\ x = -1)
    <2>1. u.kid[x][m] = c /\ c # k
      BY <1>4, <1>6, <1>11, <1>18 DEF c
    <2>2. c # next
      <3>1. SUFFICES ASSUME c = next PROVE FALSE
        OBVIOUS
      <3>2. m = from
        BY <1>1, <1>3, <1>10, <3>1
      <3>3. from # k /\ t.kid[-1][from] = next
        BY <1>3, <1>6, <3>2
      <3>4. x # -1
        BY <1>18, <3>2
      <3>5. -x = -1
        BY <3>4 DEF AvSide
      <3>6. t.kid[x][m] # t.kid[-x][m]
        BY <1>1, <1>3, <1>6, <3>1, AvChildIs DEF c
      <3>7. QED
        BY <3>1, <3>2, <3>3, <3>5, <3>6 DEF c
    <2>3. V[c] = U[c] \ {d}
      <3>1. CASE c = AvNull
        <4>1. V[c] = U[c] \ {k} \/ V[c] = U[c] \ {next}
          BY <1>8, <1>6, <2>2
        <4>2. QED
          BY <1>1, <3>1, <4>1
      <3>2. CASE c # AvNull
        <4>1. c \in U[c] /\ U[c] \subseteq U[m]
          BY <1>6, <3>2, AvChildIs DEF c
        <4>2. m \in U[right] => c \in U[right]
          BY <1>3, <1>5, <4>1
        <4>3. c # right
          BY <1>3, <1>6, <1>10, <3>2
        <4>4. c \in U[right] => m \in U[right]
          BY <1>3, <1>5, <1>10, <3>2, <4>3
        <4>5. CASE m \in U[right]
          BY <1>6, <1>8, <1>15, <2>2, <4>2, <4>5
        <4>6. CASE m \notin U[right]
          BY <1>6, <1>8, <1>15, <2>2, <4>4, <4>6
        <4>7. QED
          BY <4>5, <4>6
      <3>3. QED
        BY <3>1, <3>2
    <2>4. c # AvNull => c \in N /\ u.parent[c] = m
      <3>1. SUFFICES ASSUME c # AvNull PROVE c \in N /\ u.parent[c] = m
        OBVIOUS
      <3>2. c # left /\ c # right /\ c # rest
        BY <1>3, <1>6, <1>10, <3>1
      <3>3. c \in AvKey \ {next, left, right, rest}
        BY <1>1, <1>10, <2>2, <3>1, <3>2
      <3>4. QED
        BY <1>4, <1>10, <1>20, <2>1, <3>1, <3>3
    <2>5. H[c] = G[c] /\ G[c] \in Int
      BY <1>6, <1>9, <2>2
    <2>6. ~(m = f /\ x = z)
      BY <1>13, <1>14, <1>18
    <2>7. QED
      BY <2>1, <2>3, <2>4, <2>5, <2>6 DEF AvSwapKids, c
  <1>19. QED
    BY <1>16, <1>17, <1>18

\* What they are for the children of the successor.
AvSwapNextKids(U, H, N, u, V, G, left, right, next, e) ==
    /\ V[u.kid[-1][next]] = U[left] /\ V[u.kid[1][next]] = U[right] \ {next}
    /\ \A x \in AvSide : u.kid[x][next] # AvNull => u.kid[x][next] \in N /\ u.parent[u.kid[x][next]] = next
    /\ H[left] = G[u.kid[-1][next]] /\ H[right] = G[u.kid[1][next]] + e
    /\ \A x \in AvSide : G[u.kid[x][next]] \in Int

LEMMA AvSwapHere ==
    ASSUME NEW t, NEW M, NEW U, AvOrdered(t, M, U), NEW H, AvHeightsBut(t, M, H, {}), NEW k \in M,
           NEW p, NEW left, NEW right, NEW next, NEW from, NEW rest,
           AvSwapMet(t, M, U, k, p, left, right, next, from, rest),
           NEW s, s = AvSideOf(t, t.parent[k], k),
           NEW u, AvSwapped(t, k, p, s, left, right, next, from, rest, u),
           NEW N, AvIs(N, M \ {k}), NEW V, AvIs(V, AvSwapUnder(U, k, next, right)), NEW G, AvIs(G, AvSwapHigh(H, k, next))
    PROVE  AvSwapNextKids(U, H, N, u, V, G, left, right, next, IF from = k THEN 1 ELSE 0)
  <1>1. /\ M \subseteq AvKey /\ U \in [AvLink -> SUBSET M] /\ U[AvNull] = {}
        /\ AvNull \notin M /\ M \subseteq AvLink /\ AvNull \in AvLink
    BY AvKeys DEF AvOrdered
  <1>2. H \in [AvLink -> Int] /\ H[AvNull] = -1 /\ \A y \in M : H[y] >= 0
    BY DEF AvHeightsBut, AvHigh
  <1>3. /\ left \in M /\ right \in M /\ next \in M
        /\ left = t.kid[-1][k] /\ right = t.kid[1][k]
        /\ t.kid[-1][next] = AvNull /\ rest = t.kid[1][next] /\ next \in U[right]
        /\ k \notin U[right] /\ left \notin U[right] /\ left # k
        /\ rest # next /\ (rest # AvNull => rest \in U[right] /\ rest # right /\ t.parent[rest] = next)
        /\ IF from = k THEN next = right ELSE next # right
    BY DEF AvSwapMet
  <1>4. /\ u.kid[-1][next] = left /\ u.kid[1][next] = IF from = k THEN rest ELSE right
        /\ u.parent[next] = p /\ u.parent[left] = next /\ (right # next => u.parent[right] = next)
        /\ rest # AvNull => u.parent[rest] = IF from = k THEN next ELSE from
    BY DEF AvSwapped
  <1>5. 1 \in AvSide /\ -1 \in AvSide /\ \A x \in AvSide : x = 1 \/ x = -1
    BY DEF AvSide
  <1>6. /\ k \notin U[left] /\ U[right] \subseteq M /\ right \in U[right]
    <2>1. k \notin U[left]
      BY <1>3, <1>5, AvChildIs
    <2>2. U[right] \subseteq M /\ right \in U[right]
      BY <1>3, <1>5, AvChildIs
    <2>3. QED
      BY <2>1, <2>2
  <1>7. /\ \A y \in AvLink : y # next /\ y \in U[right] => V[y] = U[y] \ {next}
        /\ \A y \in AvLink : y # next /\ y \notin U[right] => V[y] = U[y] \ {k}
    BY DEF AvIs, AvSwapUnder
  <1>8. G \in [AvLink -> Int] /\ \A y \in AvLink : y # next => G[y] = H[y]
    BY <1>1, <1>2, <1>3 DEF AvIs, AvSwapHigh
  <1>9. N = M \ {k}
    BY DEF AvIs
  <1>10. left # next /\ left \in AvLink /\ left \in N
    BY <1>1, <1>3, <1>9
  <1>11. V[left] = U[left] /\ G[left] = H[left] /\ G[left] \in Int
    <2>1. V[left] = U[left] \ {k}
      BY <1>3, <1>7, <1>10
    <2>2. V[left] = U[left]
      BY <1>6, <2>1
    <2>3. G[left] = H[left]
      BY <1>8, <1>10
    <2>4. G[left] \in Int
      BY <1>8, <1>10
    <2>5. QED
      BY <2>2, <2>3, <2>4
  <1>12. CASE from # k
    <2>1. u.kid[1][next] = right /\ right # next /\ right \in AvLink /\ right \in N /\ right \in U[right]
      BY <1>1, <1>3, <1>4, <1>6, <1>9, <1>12
    <2>2. V[right] = U[right] \ {next} /\ G[right] = H[right] /\ G[right] \in Int
      BY <1>7, <1>8, <2>1
    <2>3. u.parent[right] = next
      BY <1>4, <2>1
    <2>4. H[right] = G[right] + 0
      BY <2>2
    <2>5. QED
      BY <1>4, <1>5, <1>10, <1>11, <1>12, <2>1, <2>2, <2>3, <2>4 DEF AvSwapNextKids
  <1>13. CASE from = k
    <2>1. u.kid[1][next] = rest /\ right = next
      BY <1>3, <1>4, <1>13
    <2>2. U[next] = {next} \cup U[rest] /\ next \notin U[rest]
      <3>1. U[next] = {next} \cup U[t.kid[1][next]] \cup U[t.kid[-1][next]]
        BY <1>3, <1>5, AvBelow
      <3>2. next \notin U[t.kid[1][next]]
        BY <1>3, <1>5, AvChildIs
      <3>3. QED
        BY <1>1, <1>3, <3>1, <3>2
    <2>3. rest \in AvLink
      BY <1>1, <1>3, <1>6
    <2>4. V[rest] = U[rest]
      <3>1. CASE rest = AvNull
        BY <1>1, <1>3, <1>7, <3>1, Zenon
      <3>2. CASE rest # AvNull
        <4>1. rest \in AvLink /\ rest # next /\ rest \in U[right]
          BY <1>3, <2>3, <3>2
        <4>2. V[rest] = U[rest] \ {next}
          BY <1>7, <4>1
        <4>3. QED
          BY <2>2, <4>2
      <3>3. QED
        BY <3>1, <3>2
    <2>5. V[rest] = U[right] \ {next}
      BY <2>1, <2>2, <2>4
    <2>6. rest # AvNull => rest \in N /\ u.parent[rest] = next
      BY <1>3, <1>4, <1>6, <1>9, <1>13
    <2>7. G[rest] = H[rest] /\ H[rest] \in Int
      BY <1>2, <1>3, <1>8, <2>3
    <2>8. H[next] = H[rest] + 1
      <3>1. AvLevel(1, t.balance[next], H[rest], -1, H[next])
        <4>1. AvLevel(1, t.balance[next], H[t.kid[1][next]], H[t.kid[-1][next]], H[next])
          BY <1>3, <1>5 DEF AvHeightsBut
        <4>2. QED
          BY <1>2, <1>3, <4>1
      <3>2. H[rest] >= -1
        <4>1. CASE rest = AvNull
          BY <1>2, <2>7, <4>1
        <4>2. CASE rest # AvNull
          <5>1. H[rest] >= 0
            BY <1>2, <1>3, <1>6, <4>2
          <5>2. QED
            BY <2>7, <5>1
        <4>3. QED
          BY <4>1, <4>2
      <3>3. QED
        BY <2>7, <3>1, <3>2 DEF AvLevel
    <2>9. H[right] = G[rest] + 1 /\ G[rest] \in Int
      BY <2>1, <2>7, <2>8
    <2>10. QED
      BY <1>4, <1>5, <1>10, <1>11, <1>13, <2>1, <2>5, <2>6, <2>9 DEF AvSwapNextKids
  <1>14. QED
    BY <1>12, <1>13

LEMMA AvSwapIs ==
    ASSUME NEW t, NEW M, NEW U, AvOrdered(t, M, U), NEW H, AvHeightsBut(t, M, H, {}), NEW k \in M,
           t.height = H[t.root],
           NEW p, NEW left, NEW right, NEW next, NEW from, NEW rest,
           AvSwapMet(t, M, U, k, p, left, right, next, from, rest),
           NEW s, AvIs(s, AvSideOf(t, t.parent[k], k)),
           NEW u, AvSwapped(t, k, p, s, left, right, next, from, rest, u),
           NEW N, AvIs(N, M \ {k}), NEW V, AvIs(V, AvSwapUnder(U, k, next, right)), NEW G, AvIs(G, AvSwapHigh(H, k, next)),
           NEW f, AvIs(f, IF from = k THEN next ELSE from), NEW z, AvIs(z, IF from = k THEN 1 ELSE -1)
    PROVE  /\ AvOrdered(u, N, V) /\ AvHeights(u, N, G, f, z, 1)
           /\ u.height = G[u.root] + AvMoreIf(f = AvNull)
           /\ f \in N /\ z \in AvSide
  <1>1. /\ M \subseteq AvKey /\ U \in [AvLink -> SUBSET M] /\ U[AvNull] = {} /\ U[t.root] = M
        /\ t.root # AvNull => t.root \in M /\ t.parent[t.root] = AvNull
        /\ AvNull \notin M /\ M \subseteq AvLink /\ AvNull \in AvLink /\ M \subseteq Int
        /\ t.root \in AvLink
    <2>1. /\ M \subseteq AvKey /\ U \in [AvLink -> SUBSET M] /\ U[AvNull] = {} /\ U[t.root] = M
          /\ t.root # AvNull => t.root \in M /\ t.parent[t.root] = AvNull
          /\ t \in AvTree
      BY DEF AvOrdered
    <2>2. QED
      BY <2>1, AvKeys, AvTreeFields
  <1>2. H \in [AvLink -> Int] /\ H[AvNull] = -1 /\ \A y \in M : H[y] >= 0
    BY DEF AvHeightsBut, AvHigh
  <1>3. /\ left \in M /\ right \in M /\ next \in M
        /\ left = t.kid[-1][k] /\ right = t.kid[1][k]
        /\ t.parent[left] = k /\ t.parent[right] = k
        /\ p = t.parent[k] /\ from = t.parent[next]
        /\ next \in U[right] /\ k \notin U[right]
        /\ \A x \in U[right] : x = next \/ AvBeyond(1, x, next)
        /\ (rest # AvNull => rest \in U[right] /\ t.parent[rest] = next)
        /\ from # k => from \in U[right] /\ from # next
    BY DEF AvSwapMet
  <1>4. /\ u \in AvTree /\ u.root = IF p = AvNull THEN next ELSE t.root
        /\ u.parent[next] = p
        /\ \A i \in AvKey \ {next, left, right, rest} : u.parent[i] = t.parent[i]
        /\ \A m \in AvKey : u.balance[m] = IF m = next THEN t.balance[k] ELSE t.balance[m]
        /\ u.end = t.end /\ u.height = t.height
    BY DEF AvSwapped
  <1>5. 1 \in AvSide /\ -1 \in AvSide /\ \A x \in AvSide : -x \in AvSide /\ -x # x /\ (x = 1 \/ x = -1)
    <2>1. 1 \in AvSide /\ -1 \in AvSide /\ \A x \in AvSide : -x \in AvSide /\ -x # x
      BY AvSides
    <2>2. \A x \in AvSide : x = 1 \/ x = -1
      BY DEF AvSide
    <2>3. QED
      BY <2>1, <2>2
  <1>6. U[right] \subseteq M /\ U[right] \subseteq U[k] /\ k \in U[k] /\ U[k] \subseteq M
        /\ U[k] = {k} \cup U[right] \cup U[left] /\ k \notin U[left]
    <2>1. U[right] \subseteq U[k] /\ k \in U[k] /\ U[k] \subseteq M
      BY <1>3, <1>5, AvChildIs
    <2>2. U[k] = {k} \cup U[t.kid[1][k]] \cup U[t.kid[-1][k]]
      BY <1>5, AvBelow
    <2>3. k \notin U[t.kid[-1][k]]
      BY <1>5, AvChildIs
    <2>4. QED
      BY <1>3, <2>1, <2>2, <2>3
  <1>7. /\ V[next] = U[k] \ {k}
        /\ \A y \in AvLink : y # next /\ y \in U[right] => V[y] = U[y] \ {next}
        /\ \A y \in AvLink : y # next /\ y \notin U[right] => V[y] = U[y] \ {k}
    <2>1. next \in AvLink
      BY <1>1, <1>3
    <2>2. V[next] = U[k] \ {k}
      BY <2>1 DEF AvIs, AvSwapUnder
    <2>3. \A y \in AvLink : y # next /\ y \in U[right] => V[y] = U[y] \ {next}
      BY DEF AvIs, AvSwapUnder
    <2>4. \A y \in AvLink : y # next /\ y \notin U[right] => V[y] = U[y] \ {k}
      BY DEF AvIs, AvSwapUnder
    <2>5. QED
      BY <2>2, <2>3, <2>4
  <1>8. \A y \in U[right] : U[y] \subseteq U[right]
    BY <1>3, AvBelowAll
  <1>9. V \in [AvLink -> SUBSET N]
    <2>1. \A y \in AvLink : y \in U[right] => U[y] \ {next} \subseteq N
      BY <1>3, <1>6, <1>8 DEF AvIs
    <2>2. \A y \in AvLink : U[y] \ {k} \subseteq N
      BY <1>1 DEF AvIs
    <2>3. \A y \in AvLink : (IF y = next THEN U[k] \ {k} ELSE IF y \in U[right] THEN U[y] \ {next} ELSE U[y] \ {k})
                           \in SUBSET N
      <3>1. U[k] \ {k} \subseteq N
        BY <1>6 DEF AvIs
      <3>2. QED
        BY <2>1, <2>2, <3>1
    <2>4. QED
      BY <2>3 DEF AvIs, AvSwapUnder
  <1>10. G \in [AvLink -> Int] /\ G[next] = H[k] /\ \A y \in AvLink : y # next => G[y] = H[y]
    BY <1>1, <1>2, <1>3 DEF AvIs, AvSwapHigh
  <1>11. f \in N /\ z \in AvSide
    BY <1>3, <1>5, <1>6 DEF AvIs
  <1>12. f = (IF from = k THEN next ELSE from) /\ z = (IF from = k THEN 1 ELSE -1) /\ N = M \ {k}
    BY DEF AvIs
  <1> DEFINE D(m) == IF m \in U[right] THEN next ELSE k
  <1>13. \A m \in N \ {next} : \A x \in AvSide :
           AvSwapKids(t, U, H, N, u, V, G, m, x, D(m), IF m = f /\ x = z THEN 1 ELSE 0)
    <2>1. SUFFICES ASSUME NEW m \in N, m # next, NEW x \in AvSide
                   PROVE  AvSwapKids(t, U, H, N, u, V, G, m, x, D(m), IF m = f /\ x = z THEN 1 ELSE 0)
      OBVIOUS
    <2>2. QED
      BY <2>1, AvSwapElsewhere DEF AvIs
  <1>14. /\ V[u.kid[-1][next]] = U[left] /\ V[u.kid[1][next]] = U[right] \ {next}
         /\ \A x \in AvSide : u.kid[x][next] # AvNull => u.kid[x][next] \in N /\ u.parent[u.kid[x][next]] = next
         /\ H[left] = G[u.kid[-1][next]] /\ H[right] = G[u.kid[1][next]] + IF from = k THEN 1 ELSE 0
         /\ \A x \in AvSide : G[u.kid[x][next]] \in Int
    <2>1. AvSwapNextKids(U, H, N, u, V, G, left, right, next, IF from = k THEN 1 ELSE 0)
      BY AvSwapHere DEF AvIs
    <2>2. QED
      BY <2>1 DEF AvSwapNextKids
  <1> HIDE DEF D
  <1>15. ASSUME NEW m \in N, m # next PROVE AvNode(u, N, V, m)
    <2>1. m \in M /\ m # k /\ m \in AvLink
      BY <1>1, <1>12, <1>15
    <2>2. \A x \in AvSide : /\ V[u.kid[x][m]] = U[t.kid[x][m]] \ {D(m)}
                            /\ u.kid[x][m] # AvNull => u.kid[x][m] \in N /\ u.parent[u.kid[x][m]] = m
      BY <1>13, <1>15 DEF AvSwapKids
    <2>3. V[m] = U[m] \ {D(m)} /\ m # D(m)
      BY <1>7, <1>15, <2>1 DEF D
    <2>4. ASSUME NEW x \in AvSide PROVE AvEdge(u, N, V, m, x)
      <3>1. \A i \in U[t.kid[x][m]] : AvBeyond(x, i, m) /\ i \in M
        BY <2>1, <2>4, AvBelow
      <3>2. QED
        BY <2>2, <2>4, <3>1 DEF AvEdge
    <2>5. ASSUME NEW x \in AvSide PROVE V[m] = {m} \cup V[u.kid[x][m]] \cup V[u.kid[-x][m]]
      <3>1. U[m] = {m} \cup U[t.kid[x][m]] \cup U[t.kid[-x][m]]
        BY <2>1, <2>5, AvBelow
      <3>2. V[u.kid[x][m]] = U[t.kid[x][m]] \ {D(m)} /\ V[u.kid[-x][m]] = U[t.kid[-x][m]] \ {D(m)}
        BY <1>5, <2>2, <2>5
      <3>3. QED
        BY <2>3, <3>1, <3>2
    <2>6. QED
      BY <2>4, <2>5 DEF AvNode
  <1>16. AvNode(u, N, V, next)
    <2>1. V[next] = {next} \cup V[u.kid[-1][next]] \cup V[u.kid[1][next]]
      BY <1>3, <1>6, <1>7, <1>14
    <2>2. \A i \in V[u.kid[1][next]] : AvBeyond(1, i, next)
      BY <1>3, <1>14
    <2>3. \A i \in V[u.kid[-1][next]] : AvBeyond(-1, i, next)
      <3>1. SUFFICES ASSUME NEW i \in U[left] PROVE AvBeyond(-1, i, next)
        BY <1>14
      <3>2. AvBeyond(-1, i, k) /\ i \in M
        BY <1>3, <1>5, AvBelow
      <3>3. AvBeyond(1, next, k)
        BY <1>3, <1>5, AvBelow
      <3>4. i \in Int /\ k \in Int /\ next \in Int
        BY <1>1, <1>3, <3>2
      <3>5. QED
        BY <3>2, <3>3, <3>4 DEF AvBeyond
    <2>4. \A x \in AvSide : AvEdge(u, N, V, next, x)
      <3>1. AvEdge(u, N, V, next, 1)
        BY <1>5, <1>14, <2>2 DEF AvEdge
      <3>2. AvEdge(u, N, V, next, -1)
        BY <1>5, <1>14, <2>3 DEF AvEdge
      <3>3. QED
        BY <1>5, <3>1, <3>2
    <2>5. \A x \in AvSide : V[next] = {next} \cup V[u.kid[x][next]] \cup V[u.kid[-x][next]]
      <3>1. ASSUME NEW x \in AvSide PROVE V[next] = {next} \cup V[u.kid[x][next]] \cup V[u.kid[-x][next]]
        <4>1. CASE x = 1
          BY <2>1, <4>1
        <4>2. CASE x = -1
          <5>1. -x = 1
            BY <1>5, <3>1, <4>2
          <5>2. QED
            BY <2>1, <4>2, <5>1
        <4>3. QED
          BY <1>5, <3>1, <4>1, <4>2
      <3>2. QED
        BY <3>1
    <2>6. QED
      BY <2>4, <2>5 DEF AvNode
  <1>17. p = AvNull => k = t.root
    <2>1. k # t.root => t.parent[k] \in M
      BY AvHangs
    <2>2. QED
      BY <1>1, <1>3, <2>1
  <1>18. V[AvNull] = {}
    BY <1>1, <1>3, <1>6, <1>7
  <1>19. p # AvNull => t.root # k /\ t.root \in M /\ t.root # next /\ t.root \notin U[right]
    <2>1. SUFFICES ASSUME p # AvNull PROVE t.root # k /\ t.root \in M /\ t.root # next /\ t.root \notin U[right]
      OBVIOUS
    <2>2. t.root # k
      BY <1>1, <1>3, <2>1
    <2>3. t.root # AvNull
      BY <1>1
    <2>4. t.root \notin U[right]
      BY <1>1, <1>3, <1>8
    <2>5. QED
      BY <1>1, <1>3, <2>2, <2>3, <2>4
  <1>20. V[u.root] = N
    <2>1. CASE p = AvNull
      BY <1>1, <1>4, <1>7, <1>12, <1>17, <2>1
    <2>2. CASE p # AvNull
      BY <1>1, <1>4, <1>7, <1>12, <1>19, <2>2
    <2>3. QED
      BY <2>1, <2>2
  <1>21. u.root \in N /\ u.parent[u.root] = AvNull
    <2>1. CASE p = AvNull
      BY <1>3, <1>4, <1>12, <2>1
    <2>2. CASE p # AvNull
      <3>1. u.root = t.root /\ t.root \in N /\ t.parent[t.root] = AvNull
        BY <1>1, <1>4, <1>12, <1>19, <2>2
      <3>2. t.root # left /\ t.root # right
        BY <1>1, <1>3, <3>1
      <3>3. t.root # rest
        BY <1>1, <1>3, <1>12, <3>1
      <3>4. t.root \in AvKey \ {next, left, right, rest}
        BY <1>1, <1>19, <2>2, <3>2, <3>3
      <3>5. QED
        BY <1>4, <3>1, <3>4
    <2>3. QED
      BY <2>1, <2>2
  <1>22. AvOrdered(u, N, V)
    <2>1. N \subseteq AvKey
      BY <1>1, <1>12
    <2>2. \A m \in N : AvNode(u, N, V, m)
      BY <1>15, <1>16
    <2>3. QED
      BY <1>4, <1>9, <1>18, <1>20, <1>21, <2>1, <2>2 DEF AvOrdered
  <1>23. AvHigh(N, G)
    <2>1. G[AvNull] = -1
      BY <1>1, <1>2, <1>3, <1>10
    <2>2. \A m \in N : G[m] >= 0
      <3>1. ASSUME NEW m \in N PROVE G[m] >= 0
        <4>1. m \in M /\ m \in AvLink
          BY <1>1, <1>12, <3>1
        <4>2. QED
          BY <1>2, <1>10, <4>1
      <3>2. QED
        BY <3>1
    <2>3. QED
      BY <1>10, <2>1, <2>2 DEF AvHigh
  <1>24. ASSUME NEW m \in N, m # next, NEW x \in AvSide
         PROVE  AvSeen(u, G, m, x, f, z, 1) = H[t.kid[x][m]]
    <2>1. AvSwapKids(t, U, H, N, u, V, G, m, x, D(m), IF m = f /\ x = z THEN 1 ELSE 0)
      BY <1>13, <1>24
    <2>2. QED
      BY <2>1 DEF AvSwapKids, AvSeen
  <1>25. AvSeen(u, G, next, 1, f, z, 1) = H[right] /\ AvSeen(u, G, next, -1, f, z, 1) = H[left]
    <2>1. next = f <=> from = k
      BY <1>3, <1>12
    <2>2. G[u.kid[1][next]] \in Int /\ G[u.kid[-1][next]] \in Int
      BY <1>5, <1>14
    <2>3. CASE from = k
      <3>1. next = f /\ z = 1 /\ H[right] = G[u.kid[1][next]] + 1
        BY <1>12, <1>14, <2>3
      <3>2. QED
        BY <1>14, <2>2, <3>1 DEF AvSeen
    <2>4. CASE from # k
      <3>1. next # f /\ H[right] = G[u.kid[1][next]] + 0
        BY <1>14, <2>1, <2>4
      <3>2. QED
        BY <1>14, <2>2, <3>1 DEF AvSeen
    <2>5. QED
      BY <2>3, <2>4
  <1>26. ASSUME NEW m \in N, NEW x \in AvSide
         PROVE  AvLevel(x, u.balance[m], AvSeen(u, G, m, x, f, z, 1), AvSeen(u, G, m, -x, f, z, 1), G[m])
    <2>1. m \in M /\ m \in AvKey /\ m \in AvLink
      BY <1>1, <1>12, <1>26
    <2>2. CASE m = next
      <3>1. AvLevel(x, t.balance[k], H[t.kid[x][k]], H[t.kid[-x][k]], H[k])
        BY <1>26 DEF AvHeightsBut
      <3>2. u.balance[m] = t.balance[k] /\ G[m] = H[k]
        BY <1>4, <1>10, <2>1, <2>2
      <3>3. CASE x = 1
        BY <1>3, <1>25, <2>2, <3>1, <3>2, <3>3
      <3>4. CASE x = -1
        <4>1. -x = 1
          BY <1>5, <1>26, <3>4
        <4>2. QED
          BY <1>3, <1>25, <2>2, <3>1, <3>2, <3>4, <4>1
      <3>5. QED
        BY <1>5, <1>26, <3>3, <3>4
    <2>3. CASE m # next
      <3>1. AvLevel(x, t.balance[m], H[t.kid[x][m]], H[t.kid[-x][m]], H[m])
        BY <1>26, <2>1 DEF AvHeightsBut
      <3>2. u.balance[m] = t.balance[m] /\ G[m] = H[m]
        BY <1>4, <1>10, <2>1, <2>3
      <3>3. AvSeen(u, G, m, x, f, z, 1) = H[t.kid[x][m]]
        BY <1>24, <1>26, <2>3
      <3>4. AvSeen(u, G, m, -x, f, z, 1) = H[t.kid[-x][m]]
        BY <1>5, <1>24, <1>26, <2>3
      <3>5. QED
        BY <3>1, <3>2, <3>3, <3>4
    <2>4. QED
      BY <2>2, <2>3
  <1>27. AvHeights(u, N, G, f, z, 1)
    BY <1>23, <1>26 DEF AvHeights
  <1>28. u.height = G[u.root] + AvMoreIf(f = AvNull)
    <2>1. f # AvNull
      BY <1>1, <1>11, <1>12
    <2>2. G[u.root] = H[t.root]
      <3>1. CASE p = AvNull
        BY <1>4, <1>10, <1>17, <3>1
      <3>2. CASE p # AvNull
        BY <1>1, <1>4, <1>10, <1>19, <3>2
      <3>3. QED
        BY <3>1, <3>2
    <2>3. H[t.root] \in Int
      BY <1>1, <1>2
    <2>4. QED
      BY <1>4, <2>1, <2>2, <2>3 DEF AvMoreIf
  <1>29. QED
    BY <1>11, <1>22, <1>27, <1>28

LEMMA AvSwaps ==
    ASSUME NEW t, NEW M, NEW U, AvOrdered(t, M, U), NEW H, AvHeightsBut(t, M, H, {}),
           t.height = H[t.root], NEW k \in M, t.kid[-1][k] # AvNull, t.kid[1][k] # AvNull
    PROVE  AvSoundTree(AvSwap(t, k), M \ {k}) /\ AvSwap(t, k).end = t.end
  <1> DEFINE p == t.parent[k]
             s == AvSideOf(t, p, k)
             left == t.kid[-1][k]
             right == t.kid[1][k]
             next == AvOutmost(t, right, -1)
             from == t.parent[next]
             rest == t.kid[1][next]
             hung == AvSetParent(AvSetChild(t, p, s, next), next, p)
             put == [hung EXCEPT !.balance[next] = t.balance[k]]
             placed == AvSetParent(AvSetChild(put, next, -1, left), left, next)
             taken == AvSetParent(AvSetChild(placed, from, -1, rest), rest, from)
             moved == AvSetParent(AvSetChild(taken, next, 1, right), right, next)
             u == IF from = k THEN placed ELSE moved
             f == IF from = k THEN next ELSE from
             z == IF from = k THEN 1 ELSE -1
             N == M \ {k}
             V == AvSwapUnder(U, k, next, right)
             G == AvSwapHigh(H, k, next)
  <1>1. AvSwap(t, k) = AvClear(IF from = k THEN AvShrink(placed, next, 1) ELSE AvShrink(moved, from, -1), k)
    BY DEF AvSwap
  <1>2. AvSwap(t, k) = AvClear(AvShrink(u, f, z), k)
    <2> HIDE DEF placed, moved, next, from
    <2>1. QED
      BY <1>1
  <1>3. AvSwapMet(t, M, U, k, p, left, right, next, from, rest)
    BY AvSwapMeets DEF AvIs
  <1>4. t \in AvTree /\ k \in AvKey /\ M \subseteq AvKey /\ k \notin N
    BY DEF AvOrdered
  <1>5. p \in AvLink /\ left \in AvLink /\ s \in AvSide
    <2>1. p \in AvLink /\ left \in AvLink
      BY AvChildIs, AvSides
    <2>2. s \in AvSide
      BY AvSideIs
    <2>3. QED
      BY <2>1, <2>2
  <1>6. next \in AvKey
    BY <1>3, <1>4 DEF AvSwapMet
  <1> HIDE DEF next, from, rest, left, right, p
  <1>7. AvSwapBegun(t, k, p, s, left, next, placed)
    <2> HIDE DEF s
    <2>1. QED
      BY <1>4, <1>5, <1>6, AvSwapBegins DEF AvIs
  <1>8. s = AvSideOf(t, t.parent[k], k)
    BY DEF p
  <1> HIDE DEF s, placed
  <1>9. AvSwapped(t, k, p, s, left, right, next, from, rest, u)
    <2>1. CASE from = k
      <3>1. AvSwapped(t, k, p, s, left, right, next, from, rest, placed)
        BY <1>3, <1>5, <1>7, <2>1, AvSwapNear
      <3>2. QED
        BY <2>1, <3>1
    <2>2. CASE from # k
      <3>1. AvSwapped(t, k, p, s, left, right, next, from, rest, moved)
        BY <1>3, <1>5, <1>7, <2>2, AvSwapFar DEF AvIs
      <3>2. QED
        BY <2>2, <3>1
    <2>3. QED
      BY <2>1, <2>2
  <1> HIDE DEF u
  <1>10. /\ AvOrdered(u, N, V) /\ AvHeights(u, N, G, f, z, 1)
         /\ u.height = G[u.root] + AvMoreIf(f = AvNull)
         /\ f \in N /\ z \in AvSide
    BY <1>3, <1>8, <1>9, AvSwapIs DEF AvIs
  <1> HIDE DEF V, G, f, z
  <1>11. AvSoundTree(AvSwap(t, k), N) /\ AvSwap(t, k).end = u.end
    BY <1>2, <1>4, <1>10, AvShrinksClear
  <1>12. u.end = t.end
    BY <1>9 DEF AvSwapped
  <1>13. QED
    BY <1>11, <1>12

\* avltree_remove of a node keeps a well tree well.
LEMMA AvRemoves ==
    ASSUME NEW t, NEW M, AvWell(t, M), NEW k \in M
    PROVE  AvWell(AvRemoved(t, k), M \ {k})
  <1>1. PICK U, H : /\ AvOrdered(t, M, U) /\ AvHeightsBut(t, M, H, {})
                    /\ t.height = H[t.root] /\ AvEnded(t, M)
    BY DEF AvWell
  <1> DEFINE u == AvEnds(t, k)
             N == M \ {k}
  <1>2. /\ u \in AvTree /\ u.root = t.root /\ u.kid = t.kid /\ u.parent = t.parent
        /\ u.balance = t.balance /\ u.height = t.height
        /\ AvEnded(u, N)
    BY <1>1, AvEndsIs DEF AvIs
  <1>3. AvRemoved(t, k) = IF AvNull \in {t.kid[s][k] : s \in AvSide} THEN AvCut(u, k) ELSE AvSwap(u, k)
    BY DEF AvRemoved
  <1> HIDE DEF u
  <1>4. AvOrdered(u, M, U)
    BY <1>1, <1>2, AvAlike
  <1>5. AvHeightsBut(u, M, H, {})
    BY <1>1, <1>2 DEF AvHeightsBut
  <1>6. u.height = H[u.root]
    BY <1>1, <1>2
  <1>7. AvSoundTree(AvRemoved(t, k), N) /\ AvRemoved(t, k).end = u.end
    <2>1. CASE \E s \in AvSide : t.kid[s][k] = AvNull
      <3>1. AvRemoved(t, k) = AvCut(u, k)
        BY <1>3, <2>1
      <3>2. \E s \in AvSide : u.kid[s][k] = AvNull
        BY <1>2, <2>1
      <3>3. AvSoundTree(AvCut(u, k), N) /\ AvCut(u, k).end = u.end
        BY <1>4, <1>5, <1>6, <3>2, AvCuts
      <3>4. QED
        BY <3>1, <3>3
    <2>2. CASE ~\E s \in AvSide : t.kid[s][k] = AvNull
      <3>1. AvRemoved(t, k) = AvSwap(u, k)
        BY <1>3, <2>2
      <3>2. u.kid[-1][k] # AvNull /\ u.kid[1][k] # AvNull
        BY <1>2, <2>2, AvSides
      <3>3. AvSoundTree(AvSwap(u, k), N) /\ AvSwap(u, k).end = u.end
        BY <1>4, <1>5, <1>6, <3>2, AvSwaps
      <3>4. QED
        BY <3>1, <3>3
    <2>3. QED
      BY <2>1, <2>2
  <1>8. AvEnded(AvRemoved(t, k), N)
    BY <1>2, <1>7 DEF AvEnded
  <1>9. QED
    BY <1>7, <1>8 DEF AvSoundTree, AvWell

-----------------------------------------------------------------------------
(* What the properties say of a well tree.                                 *)

\* A round that, where it has X for the children of a node, has it for the node.
AvFills(t, M, X, W, round) ==
    \A w \in W : /\ round[w] \in W
                 /\ w[AvNull] = X[AvNull] => round[w][AvNull] = X[AvNull]
                 /\ \A n \in M : (\A s \in AvSide : w[t.kid[s][n]] = X[t.kid[s][n]]) => round[w][n] = X[n]

LEMMA AvFilled ==
    ASSUME NEW t, NEW M, NEW U, AvOrdered(t, M, U), NEW X, NEW W, NEW round, AvFills(t, M, X, W, round),
           NEW x \in W, x[AvNull] = X[AvNull]
    PROVE  \A n \in M \cup {AvNull} : AvLoop(round, x)[AvMany][n] = X[n]
  <1> DEFINE at == AvLoop(round, x)
             Good(i) == /\ at[i] \in W /\ at[i][AvNull] = X[AvNull]
                        /\ \A n \in M : Cardinality(U[n]) <= i => at[i][n] = X[n]
             T == {i \in Nat : i <= AvMany /\ ~Good(i)}
  <1>1. at[0] = x /\ \A i \in 1 .. AvMany : at[i] = round[at[i - 1]]
    BY AvLoopIs
  <1>2. \A n \in M : \A s \in AvSide :
          /\ Cardinality(U[n]) \in Nat /\ Cardinality(U[t.kid[s][n]]) \in Nat
          /\ Cardinality(U[t.kid[s][n]]) < Cardinality(U[n]) /\ Cardinality(U[n]) <= AvMany
    BY AvCount
  <1>3. \A n \in M : \A s \in AvSide : t.kid[s][n] # AvNull => t.kid[s][n] \in M
    BY AvBelow
  <1> HIDE DEF at
  <1>4. Good(0)
    <2>1. \A n \in M : Cardinality(U[n]) > 0
      BY <1>2, AvSides
    <2>2. \A n \in M : ~(Cardinality(U[n]) <= 0)
      <3>1. ASSUME NEW n \in M PROVE ~(Cardinality(U[n]) <= 0)
        <4>1. Cardinality(U[n]) \in Nat
          BY <1>2, AvSides
        <4>2. QED
          BY <2>1, <4>1
      <3>2. QED
        BY <3>1
    <2>3. at[0] \in W /\ at[0][AvNull] = X[AvNull]
      BY <1>1
    <2>4. QED
      BY <2>2, <2>3
  <1>5. ASSUME NEW i \in Nat, i # 0, i <= AvMany, Good(i - 1) PROVE Good(i)
    <2>1. at[i] = round[at[i - 1]]
      BY <1>1, <1>5, AvManyIsNat
    <2>2. at[i] \in W /\ at[i][AvNull] = X[AvNull]
      BY <1>5, <2>1 DEF AvFills
    <2>3. ASSUME NEW n \in M, Cardinality(U[n]) <= i PROVE at[i][n] = X[n]
      <3>1. ASSUME NEW s \in AvSide PROVE at[i - 1][t.kid[s][n]] = X[t.kid[s][n]]
        <4>1. CASE t.kid[s][n] = AvNull
          BY <1>5, <4>1
        <4>2. CASE t.kid[s][n] # AvNull
          <5>1. Cardinality(U[t.kid[s][n]]) <= i - 1
            BY <1>2, <1>5, <2>3, <3>1
          <5>2. QED
            BY <1>3, <1>5, <3>1, <4>2, <5>1
        <4>3. QED
          BY <4>1, <4>2
      <3>2. QED
        BY <1>5, <2>1, <3>1 DEF AvFills
    <2>4. QED
      BY <2>2, <2>3
  <1> HIDE DEF Good
  <1>6. T = {}
    <2>1. SUFFICES ASSUME T # {} PROVE FALSE
      OBVIOUS
    <2>2. PICK i \in T : \A j \in T : i <= j
      BY <2>1, AvLeast
    <2>3. i # 0
      BY <1>4, <2>2
    <2>4. i - 1 \in Nat /\ i - 1 <= AvMany /\ ~(i <= i - 1)
      BY <2>2, <2>3, AvManyIsNat
    <2>5. Good(i - 1)
      BY <2>2, <2>4
    <2>6. QED
      BY <1>5, <2>2, <2>3, <2>5
  <1>7. Good(AvMany)
    BY <1>6, AvManyIsNat
  <1>8. QED
    BY <1>2, <1>7, AvSides DEF Good, at

AvUnderRound(t) == [u \in [AvLink -> SUBSET AvKey] |-> [n \in AvLink |->
    IF n = AvNull THEN {} ELSE {n} \cup u[t.kid[-1][n]] \cup u[t.kid[1][n]]]]

AvHeightRound(t) == [h \in [AvLink -> Int] |-> [n \in AvLink |->
    IF n = AvNull THEN -1
    ELSE LET l == h[t.kid[-1][n]]
             r == h[t.kid[1][n]] IN 1 + (IF l < r THEN r ELSE l)]]

LEMMA AvUnderIs ==
    ASSUME NEW t, NEW M, NEW U, AvOrdered(t, M, U)
    PROVE  \A n \in M \cup {AvNull} : AvUnder(t)[n] = U[n]
  <1> DEFINE W == [AvLink -> SUBSET AvKey]
             x == [n \in AvLink |-> {}]
             round == AvUnderRound(t)
  <1>1. AvUnder(t) = AvLoop(round, x)[AvMany]
    BY DEF AvUnder, AvUnderRound
  <1>2. t \in AvTree /\ M \subseteq AvKey /\ U[AvNull] = {}
    BY DEF AvOrdered
  <1>3. \A s \in AvSide : \A n \in AvKey : t.kid[s][n] \in AvLink
    BY <1>2, AvTreeFields
  <1>4. x \in W /\ x[AvNull] = U[AvNull]
    BY <1>2, AvKeys
  <1>5. AvFills(t, M, U, W, round)
    <2>1. SUFFICES ASSUME NEW w \in W
                   PROVE  /\ round[w] \in W /\ round[w][AvNull] = {}
                          /\ \A n \in M : (\A s \in AvSide : w[t.kid[s][n]] = U[t.kid[s][n]]) => round[w][n] = U[n]
      BY <1>2 DEF AvFills
    <2> DEFINE v == [n \in AvLink |-> IF n = AvNull THEN {} ELSE {n} \cup w[t.kid[-1][n]] \cup w[t.kid[1][n]]]
    <2>2. round[w] = v
      BY <2>1 DEF AvUnderRound
    <2>3. v \in W
      <3>1. ASSUME NEW n \in AvLink
            PROVE  (IF n = AvNull THEN {} ELSE {n} \cup w[t.kid[-1][n]] \cup w[t.kid[1][n]]) \in SUBSET AvKey
        <4>1. CASE n = AvNull
          BY <4>1
        <4>2. CASE n # AvNull
          <5>1. n \in AvKey
            BY <4>2 DEF AvLink
          <5>2. w[t.kid[-1][n]] \in SUBSET AvKey /\ w[t.kid[1][n]] \in SUBSET AvKey
            BY <1>3, <5>1, AvSides
          <5>3. QED
            BY <4>2, <5>1, <5>2
        <4>3. QED
          BY <4>1, <4>2
      <3>2. QED
        BY <3>1
    <2>4. v[AvNull] = {}
      BY AvKeys
    <2>5. ASSUME NEW n \in M, \A s \in AvSide : w[t.kid[s][n]] = U[t.kid[s][n]] PROVE v[n] = U[n]
      <3>1. v[n] = {n} \cup w[t.kid[-1][n]] \cup w[t.kid[1][n]]
        BY <1>2, AvKeys
      <3>2. U[n] = {n} \cup U[t.kid[1][n]] \cup U[t.kid[-1][n]]
        BY AvBelow, AvSides
      <3>3. w[t.kid[-1][n]] = U[t.kid[-1][n]] /\ w[t.kid[1][n]] = U[t.kid[1][n]]
        BY <2>5, AvSides
      <3>4. QED
        BY <3>1, <3>2, <3>3
    <2> HIDE DEF v
    <2>6. QED
      BY <2>2, <2>3, <2>4, <2>5
  <1> HIDE DEF W, x, round
  <1>6. QED
    BY <1>1, <1>4, <1>5, AvFilled

LEMMA AvHeightIs ==
    ASSUME NEW t, NEW M, NEW U, AvOrdered(t, M, U), NEW H, AvHeightsBut(t, M, H, {})
    PROVE  \A n \in M \cup {AvNull} : AvHeight(t)[n] = H[n]
  <1> DEFINE W == [AvLink -> Int]
             x == [n \in AvLink |-> -1]
             round == AvHeightRound(t)
  <1>1. AvHeight(t) = AvLoop(round, x)[AvMany]
    BY DEF AvHeight, AvHeightRound
  <1>2. t \in AvTree /\ M \subseteq AvKey
    BY DEF AvOrdered
  <1>3. \A s \in AvSide : \A n \in AvKey : t.kid[s][n] \in AvLink
    BY <1>2, AvTreeFields
  <1>4. H \in W /\ H[AvNull] = -1
    BY DEF AvHeightsBut, AvHigh
  <1>5. x \in W /\ x[AvNull] = H[AvNull]
    BY <1>4, AvKeys
  <1>6. AvFills(t, M, H, W, round)
    <2>1. SUFFICES ASSUME NEW w \in W
                   PROVE  /\ round[w] \in W /\ round[w][AvNull] = -1
                          /\ \A n \in M : (\A s \in AvSide : w[t.kid[s][n]] = H[t.kid[s][n]]) => round[w][n] = H[n]
      BY <1>4 DEF AvFills
    <2> DEFINE higher(l, r) == 1 + (IF l < r THEN r ELSE l)
               v == [n \in AvLink |-> IF n = AvNull THEN -1 ELSE higher(w[t.kid[-1][n]], w[t.kid[1][n]])]
    <2>2. round[w] = v
      BY <2>1 DEF AvHeightRound
    <2>3. v \in W
      <3>1. ASSUME NEW n \in AvLink
            PROVE  (IF n = AvNull THEN -1 ELSE higher(w[t.kid[-1][n]], w[t.kid[1][n]])) \in Int
        <4>1. CASE n = AvNull
          BY <4>1
        <4>2. CASE n # AvNull
          <5>1. n \in AvKey
            BY <4>2 DEF AvLink
          <5>2. w[t.kid[-1][n]] \in Int /\ w[t.kid[1][n]] \in Int
            BY <1>3, <5>1, AvSides
          <5>3. QED
            BY <4>2, <5>2
        <4>3. QED
          BY <4>1, <4>2
      <3>2. QED
        BY <3>1
    <2>4. v[AvNull] = -1
      BY AvKeys
    <2>5. ASSUME NEW n \in M, \A s \in AvSide : w[t.kid[s][n]] = H[t.kid[s][n]] PROVE v[n] = H[n]
      <3>1. v[n] = higher(w[t.kid[-1][n]], w[t.kid[1][n]])
        BY <1>2, AvKeys
      <3>2. AvLevel(-1, t.balance[n], H[t.kid[-1][n]], H[t.kid[-(-1)][n]], H[n])
        BY AvSides DEF AvHeightsBut
      <3>3. -(-1) = 1
        BY AvSides
      <3>4. H[n] = 1 + (IF H[t.kid[-1][n]] < H[t.kid[1][n]] THEN H[t.kid[1][n]] ELSE H[t.kid[-1][n]])
        BY <3>2, <3>3 DEF AvLevel
      <3>5. w[t.kid[-1][n]] = H[t.kid[-1][n]] /\ w[t.kid[1][n]] = H[t.kid[1][n]]
        BY <2>5, AvSides
      <3>6. QED
        BY <3>1, <3>4, <3>5
    <2> HIDE DEF v
    <2>6. QED
      BY <2>2, <2>3, <2>4, <2>5
  <1> HIDE DEF W, x, round
  <1>7. QED
    BY <1>1, <1>5, <1>6, AvFilled

\* A well tree is sound.
AvSoundAs(t, M) ==
    LET under == AvUnder(t)
        height == AvHeight(t) IN
    /\ under[t.root] = M
    /\ t.root # AvNull => t.parent[t.root] = AvNull
    /\ \A n \in M : \A s \in AvSide :
         /\ \A k \in under[t.kid[s][n]] : IF s = 1 THEN k > n ELSE k < n
         /\ t.kid[s][n] # AvNull => t.parent[t.kid[s][n]] = n
    /\ \A n \in M :
         /\ t.balance[n] = height[t.kid[1][n]] - height[t.kid[-1][n]]
         /\ t.balance[n] \in -1 .. 1
    /\ t.height = height[t.root]
    /\ \A s \in AvSide :
         IF M = {} THEN t.end[s] = AvNull
         ELSE t.end[s] \in M /\ \A k \in M : (t.end[s] - k) * s >= 0

LEMMA AvWellIsSound ==
    ASSUME NEW t, NEW M, AvWell(t, M)
    PROVE  AvSoundAs(t, M)
  <1> DEFINE under == AvUnder(t)
             height == AvHeight(t)
  <1>1. PICK U, H : /\ AvOrdered(t, M, U) /\ AvHeightsBut(t, M, H, {})
                    /\ t.height = H[t.root] /\ AvEnded(t, M)
    BY DEF AvWell
  <1>2. \A n \in M \cup {AvNull} : under[n] = U[n]
    BY <1>1, AvUnderIs
  <1>3. \A n \in M \cup {AvNull} : height[n] = H[n]
    BY <1>1, AvHeightIs
  <1>4. /\ U[t.root] = M /\ t.root \in M \cup {AvNull}
        /\ t.root # AvNull => t.parent[t.root] = AvNull
        /\ M \subseteq AvKey
    BY <1>1 DEF AvOrdered
  <1>5. \A n \in M : \A s \in AvSide : t.kid[s][n] \in M \cup {AvNull}
    BY <1>1, AvBelow
  <1> HIDE DEF under, height
  <1>6. under[t.root] = M /\ t.height = height[t.root]
    BY <1>1, <1>2, <1>3, <1>4
  <1>7. ASSUME NEW n \in M, NEW s \in AvSide
        PROVE  /\ \A k \in under[t.kid[s][n]] : IF s = 1 THEN k > n ELSE k < n
               /\ t.kid[s][n] # AvNull => t.parent[t.kid[s][n]] = n
    <2>1. \A k \in U[t.kid[s][n]] : AvBeyond(s, k, n)
      BY <1>1, <1>7, AvBelow
    <2>2. t.kid[s][n] # AvNull => t.parent[t.kid[s][n]] = n
      BY <1>1, <1>7, AvBelow
    <2>3. under[t.kid[s][n]] = U[t.kid[s][n]]
      BY <1>2, <1>5, <1>7
    <2>4. QED
      BY <2>1, <2>2, <2>3 DEF AvBeyond
  <1>8. ASSUME NEW n \in M
        PROVE  /\ t.balance[n] = height[t.kid[1][n]] - height[t.kid[-1][n]]
               /\ t.balance[n] \in -1 .. 1
    <2>1. AvLevel(1, t.balance[n], H[t.kid[1][n]], H[t.kid[-1][n]], H[n])
      BY <1>1, AvSides DEF AvHeightsBut
    <2>2. height[t.kid[1][n]] = H[t.kid[1][n]] /\ height[t.kid[-1][n]] = H[t.kid[-1][n]]
      BY <1>3, <1>5, <1>8, AvSides
    <2>3. t.balance[n] = H[t.kid[1][n]] - H[t.kid[-1][n]] /\ t.balance[n] \in {-1, 0, 1}
      BY <2>1 DEF AvLevel
    <2>4. t.balance[n] \in -1 .. 1
      BY <2>3
    <2>5. QED
      BY <2>2, <2>3, <2>4
  <1>9. ASSUME NEW s \in AvSide
        PROVE  IF M = {} THEN t.end[s] = AvNull
               ELSE t.end[s] \in M /\ \A k \in M : (t.end[s] - k) * s >= 0
    <2>1. CASE M = {}
      BY <1>1, <1>9, <2>1 DEF AvEnded
    <2>2. CASE M # {}
      <3>1. t.end[s] \in M /\ \A k \in M : k = t.end[s] \/ AvBeyond(s, t.end[s], k)
        BY <1>1, <1>9, <2>2 DEF AvEnded
      <3>2. ASSUME NEW k \in M PROVE (t.end[s] - k) * s >= 0
        <4> DEFINE e == t.end[s]
        <4>1. e \in Int /\ k \in Int
          BY <1>4, <3>1, AvKeys
        <4>2. k = e \/ AvBeyond(s, e, k)
          BY <3>1
        <4> HIDE DEF e
        <4>3. CASE s = 1
          <5>1. e >= k
            BY <4>1, <4>2, <4>3 DEF AvBeyond
          <5>2. (e - k) * 1 >= 0
            BY <4>1, <5>1
          <5>3. QED
            BY <4>3, <5>2 DEF e
        <4>4. CASE s = -1
          <5>1. e <= k
            BY <4>1, <4>2, <4>4 DEF AvBeyond
          <5>2. (e - k) * (-1) >= 0
            BY <4>1, <5>1
          <5>3. QED
            BY <4>4, <5>2 DEF e
        <4>5. s = 1 \/ s = -1
          BY <1>9 DEF AvSide
        <4>6. QED
          BY <4>3, <4>4, <4>5 DEF e
      <3>3. QED
        BY <2>2, <3>1, <3>2
    <2>3. QED
      BY <2>1, <2>2
  <1>10. QED
    BY <1>4, <1>6, <1>7, <1>8, <1>9 DEF AvSoundAs, under, height

-----------------------------------------------------------------------------
(* The actions.                                                            *)

\* A well tree is a tree, its keys are keys, and it finds those it has.
LEMMA AvWellFinds ==
    ASSUME NEW t, NEW M, AvWell(t, M)
    PROVE  /\ t \in AvTree /\ M \subseteq AvKey /\ (t.root = AvNull <=> M = {})
           /\ AvEnded(t, M)
           /\ \A k \in AvKey : AvFound(t, k) <=> k \in M
           /\ \A k \in M : \A s \in AvSide : AvBeside(M, k, s, AvNeighbour(t, k, s))
  <1>1. PICK U, H : AvOrdered(t, M, U) /\ AvEnded(t, M)
    BY DEF AvWell
  <1>2. \A k \in AvKey : AvFound(t, k) <=> k \in M
    BY <1>1, AvLookupIs
  <1>3. \A k \in M : \A s \in AvSide : AvBeside(M, k, s, AvNeighbour(t, k, s))
    BY <1>1, AvNeighbourIs
  <1>4. t \in AvTree /\ M \subseteq AvKey /\ U[AvNull] = {} /\ U[t.root] = M /\ (t.root # AvNull => t.root \in M)
    BY <1>1 DEF AvOrdered
  <1>5. QED
    BY <1>1, <1>2, <1>3, <1>4

\* What AvTypeOK, AvCleans and the proofs need of the tree, at any time.
AvInv == AvTypeOK /\ AvWell(av_tree, av_members) /\ AvCleans

LEMMA AvInitFits == AvInit => AvInv
  <1> SUFFICES ASSUME AvInit PROVE AvInv
    OBVIOUS
  <1> DEFINE t == av_tree
             U == [n \in AvLink |-> {}]
             H == [n \in AvLink |-> -1]
  <1>1. /\ t = [kid |-> [s \in AvSide |-> [k \in AvKey |-> AvNull]],
                parent |-> [k \in AvKey |-> AvNull],
                balance |-> [k \in AvKey |-> 0],
                root |-> AvNull, end |-> [s \in AvSide |-> AvNull], height |-> -1]
        /\ av_members = {} /\ av_next = -1
    BY DEF AvInit
  <1>2. t \in AvTree
    <2>1. AvNull \in AvLink /\ 0 \in -2 .. 2 /\ -1 \in Int
      BY AvKeys
    <2>2. QED
      BY <1>1, <2>1 DEF AvTree
  <1>3. t.root = AvNull /\ t.height = -1 /\ \A s \in AvSide : t.end[s] = AvNull
    BY <1>1
  <1> HIDE DEF t
  <1>4. U \in [AvLink -> SUBSET {}] /\ U[AvNull] = {} /\ H \in [AvLink -> Int] /\ H[AvNull] = -1
    BY AvKeys
  <1> HIDE DEF U, H
  <1>5. AvOrdered(t, {}, U)
    BY <1>2, <1>3, <1>4 DEF AvOrdered
  <1>6. AvHeightsBut(t, {}, H, {})
    BY <1>4 DEF AvHeightsBut, AvHigh
  <1>7. t.height = H[t.root]
    BY <1>3, <1>4
  <1>8. AvEnded(t, {})
    BY <1>3 DEF AvEnded
  <1>9. AvWell(t, {})
    BY <1>5, <1>6, <1>7, <1>8 DEF AvWell
  <1>10. QED
    BY <1>1, <1>2, <1>9 DEF AvInv, AvTypeOK, AvCleans, t

LEMMA AvInsertFits == ASSUME NEW k \in AvKey, AvInv, AvInsert(k) PROVE AvInv'
  <1>1. AvWell(av_tree, av_members) /\ av_members \subseteq AvKey /\ av_next = -1
    BY DEF AvInv, AvTypeOK, AvInsert
  <1>2. k \notin av_members
    BY <1>1, AvWellFinds DEF AvInsert
  <1>3. av_tree' = AvInserted(av_tree, k) /\ av_members' = av_members \cup {k} /\ av_next' = -1
    BY <1>1 DEF AvInsert
  <1>4. AvWell(AvInserted(av_tree, k), av_members \cup {k})
    BY <1>1, <1>2, AvInserts
  <1>5. AvWell(av_tree, av_members)'
    BY <1>3, <1>4
  <1>6. AvInserted(av_tree, k) \in AvTree
    BY <1>4, AvWellFinds
  <1>7. QED
    BY <1>1, <1>3, <1>5, <1>6 DEF AvInv, AvTypeOK, AvCleans

LEMMA AvRemoveFits == ASSUME NEW k \in AvKey, AvInv, AvRemove(k) PROVE AvInv'
  <1>1. AvWell(av_tree, av_members) /\ av_members \subseteq AvKey /\ av_next = -1
    BY DEF AvInv, AvTypeOK, AvRemove
  <1>2. k \in av_members
    BY <1>1, AvWellFinds DEF AvRemove
  <1>3. av_tree' = AvRemoved(av_tree, k) /\ av_members' = av_members \ {k} /\ av_next' = -1
    BY <1>1 DEF AvRemove
  <1>4. AvWell(AvRemoved(av_tree, k), av_members \ {k})
    BY <1>1, <1>2, AvRemoves
  <1>5. AvWell(av_tree, av_members)'
    BY <1>3, <1>4
  <1>6. AvRemoved(av_tree, k) \in AvTree
    BY <1>4, AvWellFinds
  <1>7. QED
    BY <1>1, <1>3, <1>5, <1>6 DEF AvInv, AvTypeOK, AvCleans

LEMMA AvCleanBeginFits == ASSUME AvInv, AvCleanBegin PROVE AvInv'
  <1>1. AvWell(av_tree, av_members) /\ av_tree.root # AvNull /\ av_members \subseteq AvKey
    BY DEF AvInv, AvTypeOK, AvCleanBegin
  <1>2. av_next' = av_tree.end[-1] /\ av_tree' = av_tree /\ av_members' = av_members
    BY DEF AvCleanBegin
  <1>3. av_members # {} /\ AvEnded(av_tree, av_members)
    BY <1>1, AvWellFinds
  <1>4. av_next' \in av_members /\ \A k \in av_members : k = av_next' \/ AvBeyond(-1, av_next', k)
    BY <1>2, <1>3, AvSides DEF AvEnded
  <1>5. \A k \in av_members : av_next' <= k
    BY <1>1, <1>4, AvKeys DEF AvBeyond
  <1>6. AvWell(av_tree, av_members)'
    BY <1>1, <1>2
  <1>7. QED
    BY <1>1, <1>2, <1>3, <1>4, <1>5, <1>6 DEF AvInv, AvTypeOK, AvCleans, AvLink

LEMMA AvCleanStepFits == ASSUME AvInv, AvCleanStep PROVE AvInv'
  <1> DEFINE k == av_next
             next == AvNeighbour(av_tree, k, 1)
             M == av_members
  <1>1. AvWell(av_tree, M) /\ M \subseteq AvKey /\ k \in AvKey
    BY DEF AvInv, AvTypeOK, AvCleanStep
  <1>2. av_next' = next /\ av_tree' = AvRemoved(av_tree, k) /\ av_members' = M \ {k}
    BY DEF AvCleanStep
  <1>3. k # -1 /\ k # AvNull
    BY <1>1, AvKeys DEF AvLink
  <1>4. k \in M /\ \A x \in M : k <= x
    BY <1>3 DEF AvInv, AvCleans
  <1>5. AvBeside(M, k, 1, next)
    BY <1>1, <1>4, AvSides, AvWellFinds
  <1>6. AvWell(AvRemoved(av_tree, k), M \ {k})
    BY <1>1, <1>4, AvRemoves
  <1>7. AvRemoved(av_tree, k) \in AvTree
    BY <1>6, AvWellFinds
  <1> HIDE DEF next
  <1>8. IF M \ {k} = {} THEN next = AvNull
        ELSE next \in M \ {k} /\ \A x \in M \ {k} : next <= x
    <2>1. M \subseteq Int /\ k \in Int
      BY <1>1, AvKeys
    <2>2. \A x : x \in M \ {k} => x \in M /\ x \in Int /\ k < x
      BY <1>4, <2>1
    <2>3. CASE M \ {k} = {}
      <3>1. ~\E x \in M : x > k
        BY <2>1, <2>3
      <3>2. next = AvNull
        BY <1>5, <3>1 DEF AvBeside, AvBeyond
      <3>3. QED
        BY <2>3, <3>2
    <2>4. CASE M \ {k} # {}
      <3>1. \E x \in M : x > k
        BY <2>1, <2>2, <2>4
      <3>2. next \in M /\ next > k /\ \A x \in M : x > k => x = next \/ x > next
        BY <1>5, <3>1 DEF AvBeside, AvBeyond
      <3>3. next \in M \ {k}
        BY <2>1, <3>2
      <3>4. ASSUME NEW x \in M \ {k} PROVE next <= x
        <4>1. x \in M /\ x \in Int /\ next \in Int /\ x > k
          BY <2>1, <2>2, <3>2, <3>4
        <4>2. QED
          BY <3>2, <4>1
      <3>5. QED
        BY <2>4, <3>3, <3>4
    <2>5. QED
      BY <2>3, <2>4
  <1>9. next \in AvLink
    BY <1>1, <1>8, AvKeys
  <1>10. AvWell(av_tree, av_members)'
    BY <1>2, <1>6
  <1>11. AvTypeOK'
    BY <1>1, <1>2, <1>7, <1>9 DEF AvTypeOK
  <1>12. AvCleans'
    BY <1>2, <1>8 DEF AvCleans
  <1>13. QED
    BY <1>10, <1>11, <1>12 DEF AvInv

LEMMA AvCleanEndFits == ASSUME AvInv, AvCleanEnd PROVE AvInv'
  <1>1. av_next' = -1 /\ av_tree' = av_tree /\ av_members' = av_members
    BY DEF AvCleanEnd
  <1>2. AvWell(av_tree, av_members)'
    BY <1>1 DEF AvInv
  <1>3. QED
    BY <1>1, <1>2 DEF AvInv, AvTypeOK, AvCleans

LEMMA AvStepFits == AvInv /\ [AvNext]_avVars => AvInv'
  <1> SUFFICES ASSUME AvInv, [AvNext]_avVars PROVE AvInv'
    OBVIOUS
  <1>1. CASE \E k \in AvKey : AvInsert(k)
    BY <1>1, AvInsertFits
  <1>2. CASE \E k \in AvKey : AvRemove(k)
    BY <1>2, AvRemoveFits
  <1>3. CASE AvCleanBegin
    BY <1>3, AvCleanBeginFits
  <1>4. CASE AvCleanStep
    BY <1>4, AvCleanStepFits
  <1>5. CASE AvCleanEnd
    BY <1>5, AvCleanEndFits
  <1>6. CASE UNCHANGED avVars
    <2>1. av_next' = av_next /\ av_tree' = av_tree /\ av_members' = av_members
      BY <1>6 DEF avVars
    <2>2. AvWell(av_tree, av_members)'
      BY <2>1 DEF AvInv
    <2>3. QED
      BY <2>1, <2>2 DEF AvInv, AvTypeOK, AvCleans
  <1>7. QED
    BY <1>1, <1>2, <1>3, <1>4, <1>5, <1>6 DEF AvNext

LEMMA AvInvIsSound == AvInv => AvSound
  <1>1. ASSUME AvInv PROVE AvSound
    <2>1. AvSoundAs(av_tree, av_members)
      BY <1>1, AvWellIsSound DEF AvInv
    <2>2. QED
      BY <2>1 DEF AvSoundAs, AvSound
  <1>2. QED
    BY <1>1

\* Whatever keys are inserted and removed, the tree is well at any time: the
\* keys lie in order below pointers that agree, the heights of two siblings
\* differ by at most one as their parent's balance says, and the loop of
\* isis_cleanup_lspdb stands where it should.
THEOREM AvInvariant == AvSpec => []AvInv
  <1>1. QED
    BY AvInitFits, AvStepFits, PTL DEF AvSpec

\* The tree of avlTree.c, its keys and the loop's pointer have their types.
THEOREM AvTypes == AvSpec => []AvTypeOK
  <1>1. AvInv => AvTypeOK
    BY DEF AvInv
  <1>2. QED
    BY <1>1, AvInvariant, PTL

\* avltree_insert and avltree_remove keep the tree sound: in order, balanced,
\* with true balance fields, height and ends.
THEOREM AvSoundAlways == AvSpec => []AvSound
  <1>1. QED
    BY AvInvIsSound, AvInvariant, PTL

\* The loop of isis_cleanup_lspdb, which removes each node it stands on, passes
\* over none.
THEOREM AvCleansAlways == AvSpec => []AvCleans
  <1>1. AvInv => AvCleans
    BY DEF AvInv
  <1>2. QED
    BY <1>1, AvInvariant, PTL

=============================================================================
