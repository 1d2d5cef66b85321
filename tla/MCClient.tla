------------------------------ MODULE MCClient ------------------------------
(***************************************************************************)
(* Instances of ChatClient for TLC: two users of one client.               *)
(***************************************************************************)
EXTENDS ChatClient

CONSTANTS alice, bob, r1, r2
=============================================================================
