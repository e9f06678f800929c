---------------------------- MODULE MCThreadPool ----------------------------
EXTENDS ThreadPool, TLC

CONSTANTS w1, w2, w3, t1, t2, t3, x1, x2

Symmetry == Permutations(Workers) \cup Permutations(Tasks)
=============================================================================
