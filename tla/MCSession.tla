----------------------------- MODULE MCSession -----------------------------
(* Instances of Session for TLC. *)
EXTENDS Session, TLC

CONSTANTS u1, u2

\* Requests are interchangeable.
Perms == Permutations(Calls)
=============================================================================
