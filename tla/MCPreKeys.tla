----------------------------- MODULE MCPreKeys -----------------------------
(* An instance of PreKeys for TLC. *)
EXTENDS PreKeys, TLC

\* Users, devices, identity keys and requests are interchangeable.
Perms ==
    {p1 @@ p2 @@ p3 @@ p4 : p1 \in Permutations(Users), p2 \in Permutations(Devices),
                            p3 \in Permutations(SignKeys), p4 \in Permutations(Calls)}
=============================================================================
