---------------------------- MODULE MCDirectory ----------------------------
(***************************************************************************)
(* Instances of Directory for TLC: two threads, one or two connections.    *)
(***************************************************************************)
EXTENDS Directory

CONSTANTS t1, t2, p1, p2, ann, ben

AnnKnown == <<ann>>
=============================================================================
