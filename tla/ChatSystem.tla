---- MODULE ChatSystem ----
(***************************************************************************)
(* What the modules of the message path have in common: who takes part,    *)
(* what is sent, and what may go wrong.                                    *)
(***************************************************************************)

(* The ChatServer processes, the user ids, and those of them that have a    *)
(* row in table user.  NoUser is the id -1 of a default-constructed User.   *)
CONSTANTS Servers, Users, Registered, NoUser

CONSTANT Msgs     \* chat messages, each sent at most once

CONSTANT Faults   \* the kinds of faults that may happen

FaultKinds ==
  { "db",         \* a method of the model classes fails
    "vanish",     \* a client goes away without logging out
    "kill",       \* a server process is killed
    "sigint",     \* a server process gets a ctrl + c
    "restart",    \* a server that died is started again
    "redis",      \* redis connections of a server break
    "race",       \* an unsynchronised access to _userConnMap goes wrong
    "context" }   \* an unsynchronised access to a hiredis context goes wrong

ASSUME SystemOK ==
  /\ Registered \subseteq Users
  /\ NoUser \notin Users
  /\ Faults \subseteq FaultKinds
====
