------------------------------- MODULE GlThread -------------------------------
(***************************************************************************)
(* The doubly linked lists of glueThread/glthread.c: a head and the glue   *)
(* fields of the items.                                                    *)
(*                                                                         *)
(* The lists are used in two ways.  A queue is kept in the order of a      *)
(* comparison: the slots of the wheel and SPF's queue of nodes, where      *)
(* IS_GLTHREAD_LIST_EMPTY of an item's own glue tells whether the item is  *)
(* queued.  A stack takes new items at the head: the reschedule list, the  *)
(* ARP and MAC entries, the routes, the nodes of the graph.                *)
(* glthread_add_last and glthread_add_before are left out: the program     *)
(* does not call them.  get_glthread_list_count has no return statement    *)
(* and yields 0 as the program is built, so the case of one item in        *)
(* glthread_priority_insert is never taken.                                *)
(***************************************************************************)
EXTENDS KeyedList, FiniteSets

CONSTANTS
    GlItem,     \* the items
    GlHead,     \* the head
    GlNull,     \* the null pointer
    GlKey       \* the values the comparison is of

ASSUME GlAssumption ==
    /\ IsFiniteSet(GlItem) /\ GlHead \notin GlItem /\ GlNull \notin GlItem \cup {GlHead}
    /\ GlKey \subseteq Nat

VARIABLES
    gl_use,     \* whether the list is a "queue" or a "stack"
    gl_left,    \* left of the head and of each item
    gl_right,   \* right of the head and of each item
    gl_key,     \* what the comparison reads of each item
    gl_order    \* history: the items the list should have, from the head on

glVars == <<gl_use, gl_left, gl_right, gl_key, gl_order>>

GlCell == GlItem \cup {GlHead}

GlTypeOK ==
    /\ gl_use \in {"queue", "stack"}
    /\ gl_left \in [GlCell -> GlCell \cup {GlNull}]
    /\ gl_right \in [GlCell -> GlCell \cup {GlNull}]
    /\ gl_key \in [GlItem -> GlKey]
    /\ gl_order \in Seq(GlItem)

GlInit ==
    /\ gl_use \in {"queue", "stack"}
    /\ gl_left = [c \in GlCell |-> GlNull]
    /\ gl_right = [c \in GlCell |-> GlNull]
    /\ gl_key \in [GlItem -> GlKey]
    /\ gl_order = <<>>

-----------------------------------------------------------------------------
\* glthread_add_next, in the pointers g of all cells: the item's right is only
\* written if there is a next.
GlAddNext(g, c, e) ==
    IF g.right[c] = GlNull
      THEN [left |-> [g.left EXCEPT ![e] = c], right |-> [g.right EXCEPT ![c] = e]]
      ELSE [left |-> [g.left EXCEPT ![e] = c, ![g.right[c]] = e],
            right |-> [g.right EXCEPT ![c] = e, ![e] = g.right[c]]]

\* Mutant: the last item of a list keeps its pointer to the one before.
GlRemovedHalf(g, e) ==
    CASE g.left[e] = GlNull -> g
      [] g.left[e] # GlNull /\ g.right[e] = GlNull ->
           [g EXCEPT !.right[g.left[e]] = GlNull]
      [] OTHER -> [left |-> [g.left EXCEPT ![g.right[e]] = g.left[e], ![e] = GlNull],
                   right |-> [g.right EXCEPT ![g.left[e]] = g.right[e], ![e] = GlNull]]

\* remove_glthread of an item; nothing changes for an item of no list.  Its
\* case of a cell without a left one and with a right one is a head: nothing
\* removes one.
GlRemoved(g, e) ==
    CASE g.left[e] = GlNull -> g
      [] g.left[e] # GlNull /\ g.right[e] = GlNull ->
           [left |-> [g.left EXCEPT ![e] = GlNull],
            right |-> [g.right EXCEPT ![g.left[e]] = GlNull]]
      [] OTHER -> [left |-> [g.left EXCEPT ![g.right[e]] = g.left[e], ![e] = GlNull],
                   right |-> [g.right EXCEPT ![g.left[e]] = g.right[e], ![e] = GlNull]]

\* The cells of ITERATE_GLTHREAD, the head as number 0; GlNull from the end on.
GlWalk(g) ==
    LET at[k \in 0..Cardinality(GlItem)] ==
          IF k = 0 THEN GlHead
          ELSE IF at[k - 1] = GlNull THEN GlNull ELSE g.right[at[k - 1]] IN at

\* glthread_priority_insert, with a comparison that yields -1 for less: behind
\* the last cell before the first item that is greater.
GlPriorityInsert(g, key, e) ==
    LET fresh == [left |-> [g.left EXCEPT ![e] = GlNull],
                  right |-> [g.right EXCEPT ![e] = GlNull]]
        walk == GlWalk(fresh)
        ends(k) == \/ k = Cardinality(GlItem) \/ walk[k + 1] = GlNull
                   \/ key[e] < key[walk[k + 1]]
        prev == CHOOSE k \in DOMAIN walk : ends(k) /\ \A j \in 0..(k - 1) : ~ends(j) IN
      GlAddNext(fresh, walk[prev], e)

\* IS_GLTHREAD_LIST_EMPTY
GlEmpty(c) == gl_left[c] = GlNull /\ gl_right[c] = GlNull

GlThese == [left |-> gl_left, right |-> gl_right]

GlSet(g) == gl_left' = g.left /\ gl_right' = g.right

-----------------------------------------------------------------------------
\* An item that is in no list is pushed on a stack.
GlPush(e) ==
    /\ gl_use = "stack" /\ GlEmpty(e)
    /\ GlSet(GlAddNext(GlThese, GlHead, e))
    /\ gl_order' = <<e>> \o gl_order
    /\ UNCHANGED <<gl_use, gl_key>>

\* A timer is put where the wheel wants it, or a node in SPF's queue: taken out
\* if it is queued, given its new time or distance, and inserted.
GlEnqueue(e, key) ==
    /\ gl_use = "queue"
    /\ gl_key' = [gl_key EXCEPT ![e] = key]
    /\ GlSet(GlPriorityInsert(GlRemoved(GlThese, e), gl_key', e))
    /\ gl_order' = Placed(Without(gl_order, e), gl_key', e)
    /\ UNCHANGED gl_use

\* remove_glthread, of an item of the list or of none: a wheel element that is
\* in no slot, or that is not on the reschedule list, is removed all the same.
GlRemove(e) ==
    /\ GlSet(GlRemoved(GlThese, e))
    /\ gl_order' = Without(gl_order, e)
    /\ UNCHANGED <<gl_use, gl_key>>

\* dequeue_glthread_first
GlDequeue ==
    /\ gl_use = "queue" /\ ~GlEmpty(GlHead)
    /\ GlSet(GlRemoved(GlThese, gl_right[GlHead]))
    /\ gl_order' = Tail(gl_order)
    /\ UNCHANGED <<gl_use, gl_key>>

\* delete_glthread_list, and the callers' own loops that remove all they visit.
GlDeleteList ==
    /\ LET walk == GlWalk(GlThese)
           g[k \in 0..Cardinality(GlItem)] ==
             IF k = 0 THEN GlThese
             ELSE IF walk[k] = GlNull THEN g[k - 1] ELSE GlRemoved(g[k - 1], walk[k]) IN
         GlSet(g[Cardinality(GlItem)])
    /\ gl_order' = <<>>
    /\ UNCHANGED <<gl_use, gl_key>>

GlNext ==
    \/ \E e \in GlItem : GlPush(e)
    \/ \E e \in GlItem, key \in GlKey : GlEnqueue(e, key)
    \/ \E e \in GlItem : GlRemove(e)
    \/ GlDequeue
    \/ GlDeleteList

GlSpec == GlInit /\ [][GlNext]_glVars

-----------------------------------------------------------------------------
\* A walk to the right visits what was inserted and not removed, once each and
\* in the order of the comparison, equal items in the order they came; the left
\* pointers lead back the same way, so that a removal in the middle of a walk
\* is safe; and an item's own glue looks empty exactly when it is in no list,
\* which SPF decides by whether to queue a node and the wheel asserts.
GlSound ==
    /\ \A k \in 1..Cardinality(GlItem) :
         GlWalk(GlThese)[k] = IF k \in DOMAIN gl_order THEN gl_order[k] ELSE GlNull
    /\ \A k \in DOMAIN gl_order :
         gl_left[gl_order[k]] = IF k = 1 THEN GlHead ELSE gl_order[k - 1]
    /\ \A e \in GlItem : GlEmpty(e) <=> \A k \in DOMAIN gl_order : gl_order[k] # e

=============================================================================
