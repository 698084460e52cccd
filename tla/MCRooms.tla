------------------------------ MODULE MCRooms ------------------------------
(* Instances of Rooms for TLC. *)
EXTENDS Rooms, TLC

CONSTANTS alice, bob, carol

\* Alice invites Bob; Bob and Carol; herself and Bob twice.
Some == {<<bob>>, <<bob, carol>>, <<alice, bob, bob>>}

AliceAndBob == {<<alice, bob>>}

Perms == Permutations(Calls)
=============================================================================
