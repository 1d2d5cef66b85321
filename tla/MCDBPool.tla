------------------------------ MODULE MCDBPool ------------------------------
(***************************************************************************)
(* Instances of DBPool for TLC: three threads, at most two connections.    *)
(***************************************************************************)
EXTENDS DBPool

CONSTANTS t1, t2, t3, p1, p2
=============================================================================
