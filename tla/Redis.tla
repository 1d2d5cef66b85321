------------------------------- MODULE Redis -------------------------------
(***************************************************************************)
(* The publish/subscribe channel between chat servers: the Redis class of  *)
(* src/server/redis/redis.cc and, as an external component, the redis      *)
(* server behind it.  Channel u carries the messages for user u.           *)
(*                                                                         *)
(* A server writes SUBSCRIBE and UNSUBSCRIBE on one context and does not   *)
(* wait for the answer, so such a command is in flight (subCmds) until     *)
(* redis executes it.  PUBLISH waits for its answer on another context: it *)
(* is one step, which hands a copy to every server subscribed at that      *)
(* moment, and to none when nobody is.                                     *)
(*                                                                         *)
(* The module has no behaviour of its own: its operators are conjuncts of  *)
(* the actions of ChatService.                                             *)
(***************************************************************************)
EXTENDS ChatSystem, Naturals, Sequences

VARIABLES linked,    \* server -> those of its contexts that are usable
          subCmds,   \* server -> commands written and not yet executed
          subs,      \* server -> channels redis has it subscribed to
          inbox      \* server -> copies pushed to its observer thread

redisVars == <<linked, subCmds, subs, inbox>>

(* _publish_context and _subcribe_context, a connection each. *)
Contexts == {"pub", "sub"}

Command == [op : {"sub"}, user : Users] \cup [op : {"unsub"}, user : Users \cup {NoUser}]
Copy    == [to : Users, msg : Msgs]

RedisTypeOK ==
  /\ linked \in [Servers -> SUBSET Contexts]
  /\ subCmds \in [Servers -> Seq(Command)]
  /\ subs \in [Servers -> SUBSET Users]
  /\ inbox \in [Servers -> Seq(Copy)]

-----------------------------------------------------------------------------
(* The contexts lost of server s are closed or broken, and nothing in the  *)
(* program ever connects them again.  With the one of the subscriptions,   *)
(* redis forgets what s had subscribed to.                                 *)
Disconnect(s, lost) ==
  /\ linked' = [linked EXCEPT ![s] = @ \ lost]
  /\ IF "sub" \in lost
     THEN /\ subCmds' = [subCmds EXCEPT ![s] = <<>>]
          /\ subs' = [subs EXCEPT ![s] = {}]
          /\ inbox' = [inbox EXCEPT ![s] = <<>>]
     ELSE UNCHANGED <<subCmds, subs, inbox>>

(* Two threads write to the output buffer of one context, which has no      *)
(* lock: a command is lost, or redis gets the bytes of both mixed and       *)
(* closes the connection.                                                   *)
Garble(s, x) == UNCHANGED redisVars \/ Disconnect(s, {x})

(* redisAppendCommand and redisBufferWrite; on a broken context they fail  *)
(* and every caller ignores the result.                                    *)
WriteCommand(s, op, u) ==
  /\ subCmds' = IF "sub" \in linked[s]
                THEN [subCmds EXCEPT ![s] = Append(@, [op |-> op, user |-> u])]
                ELSE subCmds
  /\ UNCHANGED <<linked, subs, inbox>>

(* torn: does another thread use the same context right now? *)
subscribe(s, u, torn)   == WriteCommand(s, "sub", u) \/ (torn /\ Garble(s, "sub"))
unsubscribe(s, u, torn) == WriteCommand(s, "unsub", u) \/ (torn /\ Garble(s, "sub"))

(* Redis hands n copies of m to every server that has subscribed to u.     *)
Push(s, u, m, n) ==
  LET x == [to |-> u, msg |-> m] IN
  /\ inbox' = [r \in Servers |->
                 IF "pub" \notin linked[s] \/ u \notin subs[r] THEN inbox[r]
                 ELSE IF n = 1 THEN Append(inbox[r], x) ELSE Append(Append(inbox[r], x), x)]
  /\ UNCHANGED <<linked, subCmds, subs>>

(* Two threads that write the same buffer may write what is in it twice.    *)
publish(s, u, m, torn) ==
  Push(s, u, m, 1) \/ (torn /\ (Push(s, u, m, 2) \/ Garble(s, "pub")))

(* The effect of one command on the set of channels of a connection. *)
Apply(cmd, chans) ==
  IF cmd.op = "sub" THEN chans \cup {cmd.user} ELSE chans \ {cmd.user}

(* The redis server executes the oldest command of server s. *)
ExecuteCommand(s) ==
  /\ subCmds[s] # <<>>
  /\ subs' = [subs EXCEPT ![s] = Apply(Head(subCmds[s]), @)]
  /\ subCmds' = [subCmds EXCEPT ![s] = Tail(@)]
  /\ UNCHANGED <<linked, inbox>>

(* The observer thread is done with the oldest copy pushed to server s. *)
Consume(s) ==
  /\ inbox' = [inbox EXCEPT ![s] = Tail(@)]
  /\ UNCHANGED <<linked, subCmds, subs>>

(* Redis::connect of a new server process. *)
connect(s) ==
  /\ linked' = [linked EXCEPT ![s] = Contexts]
  /\ UNCHANGED <<subCmds, subs, inbox>>
=============================================================================
