---------------------------- MODULE MCModelRunner ----------------------------
(* The model runner on a small instance. *)
EXTENDS ModelRunner

\* Graphs for two rows, so that a single decode runs with a padding row, and for
\* four, more than max_num_seqs allows.
TwoAndFour == <<2, 4>>

\* Requests differ in nothing but their ids.
IdSymmetry == Permutations(Ids)
=============================================================================
