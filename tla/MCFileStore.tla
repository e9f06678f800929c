----------------------------- MODULE MCFileStore -----------------------------
EXTENDS FileStore, TLC

CONSTANTS u1, u2, f1, d1, d2, d3

Symmetry == Permutations(Users) \union Permutations(Ids) \union Permutations(Files)
==============================================================================
