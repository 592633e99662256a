-------------------------- MODULE MCIsisAdjacency --------------------------
(* A router with two interfaces.  The second adjacency that comes up is     *)
(* where isis_restart_reconciliation_timer is reached.                      *)
EXTENDS IsisAdjacency
=============================================================================
