-------------------------------- MODULE Queues --------------------------------
(***************************************************************************)
(* What one observer sees of a list that it shares with others.            *)
(***************************************************************************)
EXTENDS SequencesExt

\* The elements of q that are in S, in their order.
Only(q, S) == FoldLeft(LAMBDA kept, e : IF e \in S THEN Append(kept, e) ELSE kept, <<>>, q)
=============================================================================
