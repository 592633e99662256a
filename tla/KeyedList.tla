------------------------------ MODULE KeyedList ------------------------------
(***************************************************************************)
(* What remove_glthread and glthread_priority_insert do to a list that is  *)
(* kept in the order of a key, as a sequence of its items.  GlThread shows *)
(* that the pointers of glueThread/glthread.c keep such lists; SPF's queue *)
(* of nodes is one.                                                        *)
(***************************************************************************)
EXTENDS Naturals, Sequences, SequencesExt

\* The list without an item, which is there once at most.
Without(order, e) ==
    IF e \in ToSet(order)
      THEN RemoveAt(order, CHOOSE k \in DOMAIN order : order[k] = e)
      ELSE order

\* The list with a new item behind those whose key is not greater.
Placed(order, key, e) ==
    InsertAt(order,
             CHOOSE k \in 1 .. Len(order) + 1 :
               /\ \A j \in 1 .. (k - 1) : key[order[j]] <= key[e]
               /\ \A j \in k .. Len(order) : key[order[j]] > key[e],
             e)

=============================================================================
