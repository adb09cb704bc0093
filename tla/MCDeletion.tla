----------------------------- MODULE MCDeletion -----------------------------
EXTENDS Deletion, TLC

MCSymmetry == Permutations(Executor) \cup Permutations(Request)
=============================================================================
