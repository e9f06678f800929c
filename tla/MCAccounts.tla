----------------------------- MODULE MCAccounts -----------------------------
(* Two workers and the loop thread; one user, whom both workers register   *)
(* with different passwords.                                               *)
EXTENDS Accounts, TLC

CONSTANTS loop, w1, w2, u1, p1, p2
=============================================================================
