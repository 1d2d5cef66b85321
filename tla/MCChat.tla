------------------------------- MODULE MCChat -------------------------------
(***************************************************************************)
(* Instances of ChatSafety for TLC: two servers, two or three users, and   *)
(* three or four connections.  Each run takes one value of each constant.  *)
(***************************************************************************)
EXTENDS ChatSafety

CONSTANTS s1, s2, alice, bob, carol, c1, c2, c3, m1, m2, g1

(* c1 and c2 are clients on one or on both servers; c3 is logged in at the  *)
(* start, as bob, who sends all the messages.                               *)
TwoHomes == [c \in Conns |-> IF c = c2 THEN s2 ELSE s1]
OneServer == [c \in Conns |-> s1]

MayAlice  == [c \in Conns |-> IF c \in {c1, c2} THEN {alice} ELSE {}]
MaySwitch == [c \in Conns |-> IF c = c1 THEN {alice, carol} ELSE IF c = c2 THEN {alice} ELSE {}]
MayOne    == [c \in Conns |-> IF c = c1 THEN {alice} ELSE IF c = c2 THEN {carol} ELSE {}]

PreBob   == [c \in Conns |-> IF c = c3 THEN bob ELSE NoUser]

(* m1 is for alice, m2 for carol, g1 for a group of alice and bob; or all    *)
(* is for alice, g1 for a group of hers that bob is not in: groupChat does   *)
(* not ask who sends.                                                       *)
Receivers == [m \in Msgs |-> IF m = g1 THEN {alice, bob} ELSE
                             IF m = m2 THEN {carol} ELSE {alice}]
ToAlice   == [m \in Msgs |-> {alice}]
FromBob == [m \in Msgs |-> c3]
=============================================================================
