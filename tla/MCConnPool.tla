----------------------------- MODULE MCConnPool -----------------------------
EXTENDS ConnPool, TLC

CONSTANTS u1, u2, u3, u4, u5

Symmetry == Permutations(Users \ Careless)
=============================================================================
