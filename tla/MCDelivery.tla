----------------------------- MODULE MCDelivery -----------------------------
(* An instance of Delivery for TLC: an item for Alice, and Bob's connection. *)
EXTENDS Delivery, TLC

CONSTANTS alice, bob, i1, a1, b1

ToAlice == i1 :> alice
OneEach == (a1 :> alice) @@ (b1 :> bob)
=============================================================================
