---------------------------- MODULE MCFriendship ----------------------------
(* Instances of Friendship for TLC: two users, two calls at a time. *)
EXTENDS Friendship, TLC

CONSTANTS alice, bob

\* Alice and Bob about each other.
Others == {<<alice, bob>>, <<bob, alice>>}
Before == {<<alice, bob>>}

\* Calls are interchangeable.
CallPerms == Permutations(Calls)
=============================================================================
