--------------------------- MODULE MCDPCoordinator ---------------------------
(* The coordinator with small sets of requests and ranks. *)
EXTENDS DPCoordinator

\* One rank that may die and one that does not.
FirstRank == {1}
=============================================================================
