----------------------------- MODULE MCHttpConn -----------------------------
(* Instances of HttpConn for TLC: workers and memory blocks are            *)
(* interchangeable, connections are not (they are numbered).               *)
EXTENDS HttpConn, TLC

Symmetry == Permutations(Workers) \cup Permutations(Addrs)
=============================================================================
