---------------------------- MODULE MCSenderKeys ----------------------------
(* Instances of SenderKeys for TLC. *)
EXTENDS SenderKeys, TLC

CONSTANTS alice, bob, lobby, m1, m2, b1, b2

\* Alice and Bob in one room.
UserOf2 == (m1 :> alice) @@ (m2 :> bob)
RoomOf2 == (m1 :> lobby) @@ (m2 :> lobby)

\* Bob has two connections; nothing is ever sent to Alice that is told apart here.
BothBobs == (b1 :> bob) @@ (b2 :> bob)
ConnPerms == Permutations({b1, b2})

\* Alice asks Bob.
OneWay == {<<m1, m2>>}
=============================================================================
