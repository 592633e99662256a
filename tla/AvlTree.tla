------------------------------ MODULE AvlTree ------------------------------
(***************************************************************************)
(* The balanced tree of avlTree/avlTree.c, which holds a router's link     *)
(* state database.                                                         *)
(*                                                                         *)
(* A node is named by its key.  What the code writes twice, for the left   *)
(* and for the right, is written once here: a side is -1 or 1, as in the   *)
(* balance of a node, the height on side 1 less the height on side -1.     *)
(* The fields of a node outside the tree are not kept; avltree_insert      *)
(* clears them.                                                            *)
(***************************************************************************)
EXTENDS Integers, FiniteSets

CONSTANT AvKey      \* the keys

ASSUME AvAssumption == AvKey \subseteq Nat \ {0} /\ IsFiniteSet(AvKey)

AvNull == 0
AvSide == {-1, 1}
AvLink == AvKey \cup {AvNull}

VARIABLES
    av_tree,        \* the tree and its nodes
    av_members,     \* history: the keys that have been inserted and not removed
    av_next         \* next_avltree_node_ptr of the loop that empties the tree;
                    \* -1 when it does not run

avVars == <<av_tree, av_members, av_next>>

AvTree == [kid : [AvSide -> [AvKey -> AvLink]], parent : [AvKey -> AvLink],
           balance : [AvKey -> -2 .. 2], root : AvLink,
           end : [AvSide -> AvLink], height : Int]

AvTypeOK ==
    /\ av_tree \in AvTree
    /\ av_members \subseteq AvKey
    /\ av_next \in AvLink \cup {-1}

\* avltree_init
AvInit ==
    /\ av_tree = [kid |-> [s \in AvSide |-> [k \in AvKey |-> AvNull]],
                  parent |-> [k \in AvKey |-> AvNull],
                  balance |-> [k \in AvKey |-> 0],
                  root |-> AvNull, end |-> [s \in AvSide |-> AvNull], height |-> -1]
    /\ av_members = {}
    /\ av_next = -1

-----------------------------------------------------------------------------
\* The child of a node becomes c, or the root does.
AvSetChild(t, p, s, c) ==
    IF p = AvNull THEN [t EXCEPT !.root = c] ELSE [t EXCEPT !.kid[s][p] = c]

AvSetParent(t, k, p) == IF k = AvNull THEN t ELSE [t EXCEPT !.parent[k] = p]

\* The side on which a node hangs from its parent.
AvSideOf(t, p, k) == IF p # AvNull /\ t.kid[-1][p] = k THEN -1 ELSE 1

\* Mutant: the parent of the subtree that changes sides is not set.
AvRotateLoose(t, p, s) ==
    LET q == t.kid[s][p]
        parent == t.parent[p]
        hung == AvSetParent(AvSetChild(t, parent, AvSideOf(t, parent, p), q), q, parent) IN
    AvSetChild(AvSetChild(AvSetParent(hung, p, q), p, s, t.kid[-s][q]), q, -s, p)

\* rotate_left (s = 1), rotate_right (s = -1)
AvRotate(t, p, s) ==
    LET q == t.kid[s][p]
        parent == t.parent[p]
        moved == t.kid[-s][q]
        hung == AvSetParent(AvSetChild(t, parent, AvSideOf(t, parent, p), q), q, parent)
        turned == AvSetChild(AvSetParent(hung, p, q), p, s, moved) IN
    AvSetChild(AvSetParent(turned, moved, p), q, -s, p)

\* The node n is two levels too high on side s, and its child there does not
\* lean the other way, or does: one rotation, or two.
AvRebalance(t, n, s) ==
    LET c == t.kid[s][n]
        g == t.kid[-s][c] IN
    IF t.balance[c] = s
    THEN AvRotate([t EXCEPT !.balance[n] = 0, !.balance[c] = 0], n, s)
    ELSE AvRotate(AvRotate(
           [t EXCEPT !.balance[n] = IF t.balance[g] = s THEN -s ELSE 0,
                     !.balance[c] = IF t.balance[g] = -s THEN s ELSE 0,
                     !.balance[g] = 0], c, -s), n, s)

\* A loop: after i rounds, each of which is the function round, x has become
\* AvLoop(round, x)[i].  No loop of the tree goes on for more rounds than
\* there are keys; one that has ended leaves what it has alone.
AvMany == Cardinality(AvKey)

AvLoop(round, x) ==
    LET after[i \in 0 .. AvMany] == IF i = 0 THEN x ELSE round[after[i - 1]]
    IN  after

\* On which side of the node n the key k belongs.
AvToward(n, k) == IF k < n THEN -1 ELSE 1

\* What do_lookup has found: the node it stands on, the last one before it,
\* the last one that leans to a side, or else the root, and the nodes it has
\* met from there on.
AvLook == [node : AvLink, parent : AvLink, unbalanced : AvLink, below : SUBSET AvKey]

\* do_lookup
AvLookRound(t, k) == [l \in AvLook |->
    IF l.node \in {AvNull, k} THEN l
    ELSE LET n == l.node
             leans == t.balance[n] # 0 IN
         [node |-> t.kid[AvToward(n, k)][n], parent |-> n,
          unbalanced |-> IF leans THEN n ELSE l.unbalanced,
          below |-> IF leans THEN {n} ELSE l.below \cup {n}]]

AvLookup(t, k) ==
    AvLoop(AvLookRound(t, k),
           [node |-> t.root, parent |-> AvNull, unbalanced |-> t.root, below |-> {}])[AvMany]

\* avltree_lookup
AvFound(t, k) == AvLookup(t, k).node = k

\* The fields of a new node, and of one that has left the tree.
AvClear(t, k) ==
    [t EXCEPT !.kid[-1][k] = AvNull, !.kid[1][k] = AvNull, !.parent[k] = AvNull,
              !.balance[k] = 0]

\* The new leaf, with its parent and the ends of the tree.
AvHang(t, p, k) ==
    LET s == AvToward(p, k) IN
    [AvSetChild(AvClear(t, k), p, s, k)
       EXCEPT !.parent[k] = p, !.end[s] = IF @ = p THEN k ELSE @]

\* avltree_insert, of a key that is not found
AvInserted(t, k) ==
    LET l == AvLookup(t, k)
        top == l.unbalanced IN
    IF l.parent = AvNull
    THEN [AvClear(t, k) EXCEPT !.root = k, !.end = [s \in AvSide |-> k], !.height = @ + 1]
    ELSE LET new == [AvHang(t, l.parent, k) EXCEPT !.balance = [n \in AvKey |->
                       IF n \in l.below THEN @[n] + AvToward(n, k) ELSE @[n]]] IN
         CASE new.balance[top] \in AvSide -> [new EXCEPT !.height = @ + 1]
           [] new.balance[top] = 0 -> new
           [] OTHER -> AvRebalance(new, top, new.balance[top] \div 2)

\* The climb of avltree_remove: the side of the node has become lower.  At
\* AvNull the whole tree has; at -1 the climb has ended.
AvClimb == [tree : AvTree, node : AvLink \cup {-1}, side : AvSide]

AvShrinkRound == [x \in AvClimb |->
    LET t == x.tree
        n == x.node
        s == x.side
        up == t.parent[n]
        side == AvSideOf(t, up, n)
        b == t.balance[n] - s
        new == [t EXCEPT !.balance[n] = b] IN
    CASE n = -1 -> x
      [] n = AvNull -> [x EXCEPT !.tree.height = @ - 1, !.node = -1]
      [] n \in AvKey /\ b = 0 -> [tree |-> new, node |-> up, side |-> side]
      [] n \in AvKey /\ b = -s -> [x EXCEPT !.tree = new, !.node = -1]
      [] n \in AvKey /\ b \notin {0, -s} ->
           LET c == t.kid[-s][n] IN
           IF t.balance[c] = 0
           THEN [x EXCEPT !.tree = AvRotate([t EXCEPT !.balance[n] = -s, !.balance[c] = s], n, -s),
                          !.node = -1]
           ELSE [tree |-> AvRebalance(new, n, -s), node |-> up, side |-> side]]

AvShrink(t, n, s) == AvLoop(AvShrinkRound, [tree |-> t, node |-> n, side |-> s])[AvMany].tree

\* get_first (s = -1), get_last (s = 1)
AvOutmost(t, n, s) ==
    AvLoop([m \in AvKey |-> IF t.kid[s][m] = AvNull THEN m ELSE t.kid[s][m]], n)[AvMany]

\* avltree_next (s = 1), avltree_prev (s = -1)
AvNeighbour(t, k, s) ==
    LET climb == [n \in AvKey |->
          LET p == t.parent[n] IN IF p # AvNull /\ t.kid[s][p] = n THEN p ELSE n]
    IN  IF t.kid[s][k] # AvNull THEN AvOutmost(t, t.kid[s][k], -s)
        ELSE t.parent[AvLoop(climb, k)[AvMany]]

\* The ends of the tree without k.
AvEnds(t, k) ==
    [t EXCEPT !.end = [s \in AvSide |-> IF @[s] = k THEN AvNeighbour(t, k, -s) ELSE @[s]]]

\* avltree_remove of a node with at most one child: the child takes its place.
AvCut(t, k) ==
    LET p == t.parent[k]
        s == AvSideOf(t, p, k)
        child == IF t.kid[-1][k] = AvNull THEN t.kid[1][k] ELSE t.kid[-1][k]
        cut == AvSetParent(AvSetChild(t, p, s, child), child, p) IN
    AvClear(AvShrink(cut, p, s), k)

\* avltree_remove of a node with two children: its successor takes its place
\* and its balance, and leaves its own place to its right child.
AvSwap(t, k) ==
    LET p == t.parent[k]
        left == t.kid[-1][k]
        right == t.kid[1][k]
        next == AvOutmost(t, right, -1)
        from == t.parent[next]
        rest == t.kid[1][next]
        hung == AvSetParent(AvSetChild(t, p, AvSideOf(t, p, k), next), next, p)
        placed == AvSetParent(AvSetChild([hung EXCEPT !.balance[next] = t.balance[k]],
                                         next, -1, left), left, next)
        taken == AvSetParent(AvSetChild(placed, from, -1, rest), rest, from) IN
    AvClear(IF from = k THEN AvShrink(placed, next, 1)
            ELSE AvShrink(AvSetParent(AvSetChild(taken, next, 1, right), right, next), from, -1), k)

AvRemoved(t, k) ==
    IF AvNull \in {t.kid[s][k] : s \in AvSide} THEN AvCut(AvEnds(t, k), k)
    ELSE AvSwap(AvEnds(t, k), k)

-----------------------------------------------------------------------------
\* avltree_insert; a key that is there already is returned.
AvInsert(k) ==
    /\ av_next = -1
    /\ ~AvFound(av_tree, k)
    /\ av_tree' = AvInserted(av_tree, k)
    /\ av_members' = av_members \cup {k}
    /\ UNCHANGED av_next

\* avltree_remove, of a node in the tree
AvRemove(k) ==
    /\ av_next = -1
    /\ AvFound(av_tree, k)
    /\ av_tree' = AvRemoved(av_tree, k)
    /\ av_members' = av_members \ {k}
    /\ UNCHANGED av_next

\* isis_cleanup_lspdb: ITERATE_AVL_TREE_BEGIN ...
AvCleanBegin ==
    /\ av_next = -1
    /\ av_tree.root # AvNull
    /\ av_next' = av_tree.end[-1]
    /\ UNCHANGED <<av_tree, av_members>>

\* Mutant: the next node is looked for after the removal, not before.
AvCleanStepLate ==
    /\ av_next \in AvKey
    /\ av_next' = AvNeighbour(AvRemoved(av_tree, av_next), av_next, 1)
    /\ av_tree' = AvRemoved(av_tree, av_next)
    /\ av_members' = av_members \ {av_next}

\* ... and one round, that finds the next node and removes the one it has.
AvCleanStep ==
    /\ av_next \in AvKey
    /\ av_next' = AvNeighbour(av_tree, av_next, 1)
    /\ av_tree' = AvRemoved(av_tree, av_next)
    /\ av_members' = av_members \ {av_next}

AvCleanEnd ==
    /\ av_next = AvNull
    /\ av_next' = -1
    /\ UNCHANGED <<av_tree, av_members>>

AvNext ==
    \/ \E k \in AvKey : AvInsert(k)
    \/ \E k \in AvKey : AvRemove(k)
    \/ AvCleanBegin
    \/ AvCleanStep
    \/ AvCleanEnd

AvSpec == AvInit /\ [][AvNext]_avVars

-----------------------------------------------------------------------------
\* The keys of the subtree of each node.
AvUnder(t) ==
    AvLoop([u \in [AvLink -> SUBSET AvKey] |-> [n \in AvLink |->
              IF n = AvNull THEN {} ELSE {n} \cup u[t.kid[-1][n]] \cup u[t.kid[1][n]]]],
           [n \in AvLink |-> {}])[AvMany]

\* The height of the subtree of each node.
AvHeight(t) ==
    AvLoop([h \in [AvLink -> Int] |-> [n \in AvLink |->
              IF n = AvNull THEN -1
              ELSE LET l == h[t.kid[-1][n]]
                       r == h[t.kid[1][n]] IN 1 + (IF l < r THEN r ELSE l)]],
           [n \in AvLink |-> -1])[AvMany]

\* After any sequence of insertions and removals the tree holds the keys that
\* are in it, in order, under pointers that agree; it is balanced, every
\* balance field and the height are true, and first and last are its ends.
AvSound ==
    LET t == av_tree
        under == AvUnder(t)
        height == AvHeight(t) IN
    /\ under[t.root] = av_members
    /\ t.root # AvNull => t.parent[t.root] = AvNull
    /\ \A n \in av_members : \A s \in AvSide :
         /\ \A k \in under[t.kid[s][n]] : IF s = 1 THEN k > n ELSE k < n
         /\ t.kid[s][n] # AvNull => t.parent[t.kid[s][n]] = n
    /\ \A n \in av_members :
         /\ t.balance[n] = height[t.kid[1][n]] - height[t.kid[-1][n]]
         /\ t.balance[n] \in -1 .. 1
    /\ t.height = height[t.root]
    /\ \A s \in AvSide :
         IF av_members = {} THEN t.end[s] = AvNull
         ELSE t.end[s] \in av_members /\ \A k \in av_members : (t.end[s] - k) * s >= 0

\* The loop that removes every node it stands on passes over none: it stands
\* at the first node that is left, and when it ends there is none.
AvCleans ==
    av_next # -1 =>
        IF av_members = {} THEN av_next = AvNull
        ELSE av_next \in av_members /\ \A k \in av_members : av_next <= k

=============================================================================
