------------------------------ MODULE MCClient ------------------------------
EXTENDS Client, TLC

\* Ranks differ in nothing but their names.
RankSymmetry == Permutations(Ranks)
=============================================================================
