------------------------------- MODULE MCHub -------------------------------
(* Instances of Hub for TLC: alice with several connections, bob with one. *)
EXTENDS Hub, TLC

CONSTANTS alice, bob, a1, a2, b1

MCUsers == {alice, bob}
MCUserOf == (a1 :> alice) @@ (a2 :> alice) @@ (b1 :> bob)
MCUserOf2 == (a1 :> alice) @@ (a2 :> alice)
MCMembers == <<alice, bob>>
MCMembers1 == <<alice>>

\* The connections of one user are interchangeable until they register.
Perms2 == Permutations({a1, a2})
=============================================================================
