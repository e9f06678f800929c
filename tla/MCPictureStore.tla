---------------------------- MODULE MCPictureStore ----------------------------
EXTENDS PictureStore, TLC

CONSTANTS u1, u2, f1, f2, d1, d2

Symmetry == Permutations(Users) \union Permutations(Ids) \union Permutations(Files)
===============================================================================
