----------------------------- MODULE MCDelivery -----------------------------
(***************************************************************************)
(* The instances of MCChat, for the specification with the history variable. *)
(***************************************************************************)
EXTENDS MCChat, ChatDelivery
=============================================================================
