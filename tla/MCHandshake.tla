----------------------------- MODULE MCHandshake -----------------------------
(* The instance of Handshake for TLC: an agent build inside the SaaS's window  *)
(* and one above it.                                                           *)
EXTENDS Handshake

CONSTANT r1

Builds == {[named |-> TRUE, speaks |-> v] : v \in {1, 2}}
Values == {Nothing, r1}
=============================================================================
