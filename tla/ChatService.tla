---------------------------- MODULE ChatService ----------------------------
(***************************************************************************)
(* The cluster: several ChatServer processes that share one database and   *)
(* one redis, and the clients connected to them.                           *)
(*                                                                         *)
(* A request handler of ChatService runs in the IO thread of its           *)
(* connection, so the handlers of one connection follow each other and     *)
(* those of different connections interleave.  An action is the part of a  *)
(* handler between two accesses to state that others see: the connection   *)
(* map under its mutex, one SQL statement, one redis command, one send.    *)
(* h[c] holds the program counter and the local variables of connection c. *)
(*                                                                         *)
(* A login that is refused (wrong password, user online, no database       *)
(* connection) changes nothing and is a stuttering step.  Registration,    *)
(* friends and the group tables are in Directory, the client is ChatClient. *)
(***************************************************************************)
EXTENDS Redis, ChatDB

CONSTANTS Conns,         \* TCP connections
          NoConn,
          Home,          \* connection -> the server that accepts it
          May,           \* connection -> users who log in on that client
          Rcpt,          \* message -> its receiver, or its group's members
          From,          \* message -> the connection it is sent on
          OneMsgs,       \* the one-to-one messages; the others go to a group
          Pre,           \* connection -> user with a session at the start
          MaxLogins,     \* bound: login requests per connection
          SingleClient   \* does a user leave one client before using another?

Free  == "free"          \* value of a mutex nobody holds
NoMsg == "none"          \* a handler that carries no message

ASSUME ServiceOK ==
  /\ NoConn \notin Conns /\ Free \notin Conns /\ NoMsg \notin Msgs
  /\ Home \in [Conns -> Servers]
  /\ May \in [Conns -> SUBSET Users]
  /\ Rcpt \in [Msgs -> SUBSET Users]
  /\ From \in [Msgs -> Conns]
  /\ OneMsgs \subseteq Msgs
  /\ \A m \in OneMsgs : \E u \in Users : Rcpt[m] = {u}
  /\ Pre \in [Conns -> Registered \cup {NoUser}]
  /\ \A c, d \in Conns : Pre[c] = Pre[d] => c = d \/ Pre[c] = NoUser
  /\ MaxLogins \in Nat
  /\ SingleClient \in BOOLEAN

VARIABLES up,            \* server -> "running", "resetting" or how it ended
          userConnMap,   \* server -> user -> connection: _userConnMap
          connMutex,     \* server -> connection whose handler holds _connMutex
          conn,          \* connection -> "new", "up", "gone" (peer left), "down"
          who,           \* connection -> user whose session it carries, for its client
          logins,        \* connection -> login requests made
          h,             \* connection -> its handler
          sent,          \* messages the clients have sent
          got,           \* connection -> message -> copies sent down to it
          noticed        \* messages whose sender was told they are cached

netVars  == <<conn, who, logins>>
mapVars  == <<userConnMap, connMutex>>
chatVars == <<sent, got, noticed>>
vars == <<up, mapVars, netVars, h, chatVars, dbVars, redisVars>>

(* A handler about to ...  (login, loginout, close, oneChat, groupChat)     *)
LoginPcs  == {"li_insert", "li_subscribe", "li_online", "li_offmsg", "li_remove", "li_ack"}
LogoutPcs == {"lo_lock", "lo_erase", "lo_unsub"}
ClosePcs  == {"cl_unsub", "cl_update"}
ChatPcs   == {"oc_send", "oc_query", "oc_publish", "oc_store"}
GroupPcs  == {"gc_lock", "gc_next", "gc_publish", "gc_store"}
Pcs == {"idle"} \cup LoginPcs \cup LogoutPcs \cup ClosePcs \cup ChatPcs \cup GroupPcs

Handler == [pc   : Pcs,
            user : Users \cup {NoUser},    \* the user being handled
            msg  : Msgs \cup {NoMsg},
            peer : Conns \cup {NoConn},    \* the iterator oneChat holds
            todo : SUBSET Users,           \* group members still to serve
            rows : [Msgs -> Nat]]          \* offline messages read at login

Idle == [pc |-> "idle", user |-> NoUser, msg |-> NoMsg, peer |-> NoConn,
         todo |-> {}, rows |-> NoRows]

Alive(s) == up[s] \in {"running", "resetting"}
Ends == {"exited", "killed", "nullrow", "race"}

TypeOK ==
  /\ RedisTypeOK /\ DbTypeOK
  /\ up \in [Servers -> {"running", "resetting"} \cup Ends]
  /\ userConnMap \in [Servers -> [Users -> Conns \cup {NoConn}]]
  /\ connMutex \in [Servers -> Conns \cup {Free}]
  /\ conn \in [Conns -> {"new", "up", "gone", "down"}]
  /\ who \in [Conns -> Users \cup {NoUser}]
  /\ logins \in [Conns -> 0..MaxLogins]
  /\ h \in [Conns -> Handler]
  /\ sent \subseteq Msgs
  /\ got \in [Conns -> [Msgs -> Nat]]
  /\ noticed \subseteq Msgs

(* Sessions named by Pre are complete: entered, subscribed and online. *)
Init ==
  /\ up = [s \in Servers |-> "running"]
  /\ userConnMap = [s \in Servers |-> [u \in Users |->
        IF \E c \in Conns : Home[c] = s /\ Pre[c] = u
        THEN CHOOSE c \in Conns : Home[c] = s /\ Pre[c] = u
        ELSE NoConn]]
  /\ connMutex = [s \in Servers |-> Free]
  /\ conn = [c \in Conns |-> IF Pre[c] = NoUser THEN "new" ELSE "up"]
  /\ who = Pre
  /\ logins = [c \in Conns |-> 0]
  /\ h = [c \in Conns |-> Idle]
  /\ sent = {} /\ noticed = {}
  /\ got = [c \in Conns |-> NoRows]
  /\ userState = [u \in Users |->
        IF \E c \in Conns : Pre[c] = u THEN "online" ELSE "offline"]
  /\ offlineMessage = [u \in Users |-> NoRows]
  /\ linked = [s \in Servers |-> Contexts]
  /\ subCmds = [s \in Servers |-> <<>>]
  /\ subs = [s \in Servers |-> {u \in Users : \E c \in Conns : Home[c] = s /\ Pre[c] = u}]
  /\ inbox = [s \in Servers |-> <<>>]

-----------------------------------------------------------------------------
(* A client sends its next request and onMessage enters the handler. *)
Ready(c) == conn[c] = "up" /\ h[c].pc = "idle"
At(c, p) == h[c].pc = p
Goto(c, p) == h' = [h EXCEPT ![c].pc = p]
Finish(c)  == h' = [h EXCEPT ![c] = Idle]
MutexFree(c) == connMutex[Home[c]] = Free
Entry(c, u)  == userConnMap[Home[c]][u]

(* Another handler of the process is about to use the same hiredis context; *)
(* so may the observer thread, which gets its copies off the one of the     *)
(* channels.                                                                *)
SubscribePcs == {"li_subscribe", "lo_unsub", "cl_unsub"}
PublishPcs   == {"oc_publish", "gc_publish"}
Torn(c, pcs) ==
  /\ "context" \in Faults
  /\ \/ \E d \in Conns \ {c} : Home[d] = Home[c] /\ h[d].pc \in pcs
     \/ pcs = SubscribePcs /\ inbox[Home[c]] # <<>>

Deliver(c, m) ==
  got' = IF conn[c] = "up" THEN [got EXCEPT ![c][m] = @ + 1] ELSE got

(* A process ends: its clients see their connections close. *)
Die(s, how) ==
  LET Mine == {c \in Conns : Home[c] = s /\ conn[c] # "new"} IN
  /\ up' = [up EXCEPT ![s] = how]
  /\ userConnMap' = [userConnMap EXCEPT ![s] = [u \in Users |-> NoConn]]
  /\ connMutex' = [connMutex EXCEPT ![s] = Free]
  /\ conn' = [c \in Conns |-> IF c \in Mine THEN "down" ELSE conn[c]]
  /\ who'  = [c \in Conns |-> IF c \in Mine THEN NoUser ELSE who[c]]
  /\ h'    = [c \in Conns |-> IF c \in Mine THEN Idle ELSE h[c]]
  /\ Disconnect(s, Contexts)
  /\ UNCHANGED <<logins, chatVars, dbVars>>

-----------------------------------------------------------------------------
(*                      login                                              *)

(* Another client of user u is in use, or its login is being answered. *)
InUse(u) == \E d \in Conns : \/ conn[d] = "up" /\ who[d] = u
                             \/ h[d].user = u /\ h[d].pc \in LoginPcs

CanLogin(c, u) ==
  /\ Ready(c) \/ (conn[c] = "new" /\ up[Home[c]] = "running")
  /\ who[c] = NoUser /\ logins[c] < MaxLogins
  /\ u \in May[c] /\ (SingleClient => ~InUse(u))

(* A mistake in LoginQuery: the state of the user is not looked at. *)
LoginQueryAnyState(c, u) ==
  /\ CanLogin(c, u) /\ u \in Registered
  /\ conn' = [conn EXCEPT ![c] = "up"]
  /\ logins' = [logins EXCEPT ![c] = @ + 1]
  /\ h' = [h EXCEPT ![c] = [Idle EXCEPT !.pc = "li_insert", !.user = u]]
  /\ UNCHANGED <<up, mapVars, who, chatVars, dbVars, redisVars>>

(* The query of the user's row, which passed.  A new connection is accepted *)
(* with its first request.                                                  *)
LoginQuery(c, u) ==
  /\ CanLogin(c, u) /\ u \in Registered /\ userState[u] = "offline"
  /\ conn' = [conn EXCEPT ![c] = "up"]
  /\ logins' = [logins EXCEPT ![c] = @ + 1]
  /\ h' = [h EXCEPT ![c] = [Idle EXCEPT !.pc = "li_insert", !.user = u]]
  /\ UNCHANGED <<up, mapVars, who, chatVars, dbVars, redisVars>>

(* A mistake in LoginInsert: no lock_guard. *)
LoginInsertUnlocked(c) ==
  LET s == Home[c]  u == h[c].user IN
  /\ At(c, "li_insert")
  /\ userConnMap' = IF Entry(c, u) = NoConn
                    THEN [userConnMap EXCEPT ![s][u] = c] ELSE userConnMap
  /\ Goto(c, "li_subscribe")
  /\ UNCHANGED <<up, connMutex, netVars, chatVars, dbVars, redisVars>>

(* insert keeps the entry that is already there. *)
LoginInsert(c) ==
  LET s == Home[c]  u == h[c].user IN
  /\ At(c, "li_insert") /\ MutexFree(c)
  /\ userConnMap' = IF Entry(c, u) = NoConn
                    THEN [userConnMap EXCEPT ![s][u] = c] ELSE userConnMap
  /\ Goto(c, "li_subscribe")
  /\ UNCHANGED <<up, connMutex, netVars, chatVars, dbVars, redisVars>>

LoginSubscribe(c) ==
  /\ At(c, "li_subscribe")
  /\ subscribe(Home[c], h[c].user, Torn(c, SubscribePcs))
  /\ Goto(c, "li_online")
  /\ UNCHANGED <<up, mapVars, netVars, chatVars, dbVars>>

LoginOnline(c) ==
  /\ At(c, "li_online")
  /\ UpdateState(h[c].user, "online")
  /\ Goto(c, "li_offmsg")
  /\ UNCHANGED <<up, mapVars, netVars, chatVars, redisVars>>

LoginOffline(c) ==
  /\ At(c, "li_offmsg")
  /\ \E rows \in {offlineMessage[h[c].user], NoRows} :
       /\ QueryOffline(h[c].user, rows)
       /\ h' = [h EXCEPT ![c].rows = rows,
                         ![c].pc = IF rows = NoRows THEN "li_ack" ELSE "li_remove"]
  /\ UNCHANGED <<up, mapVars, netVars, chatVars, dbVars, redisVars>>

(* A mistake in LoginRemove: the messages read are not deleted. *)
LoginRemoveNothing(c) ==
  /\ At(c, "li_remove")
  /\ Goto(c, "li_ack")
  /\ UNCHANGED <<up, mapVars, netVars, chatVars, dbVars, redisVars>>

LoginRemove(c) ==
  /\ At(c, "li_remove")
  /\ RemoveOffline(h[c].user)
  /\ Goto(c, "li_ack")
  /\ UNCHANGED <<up, mapVars, netVars, chatVars, redisVars>>

LoginAck(c) ==
  /\ At(c, "li_ack")
  /\ who' = [who EXCEPT ![c] = h[c].user]
  /\ got' = IF conn[c] = "up"
            THEN [got EXCEPT ![c] = [m \in Msgs |-> @[m] + h[c].rows[m]]] ELSE got
  /\ Finish(c)
  /\ UNCHANGED <<up, mapVars, conn, logins, sent, noticed, dbVars, redisVars>>

Login(c) == \/ LoginInsert(c) \/ LoginSubscribe(c) \/ LoginOnline(c)
            \/ LoginOffline(c) \/ LoginRemove(c) \/ LoginAck(c)

-----------------------------------------------------------------------------
(*                      loginout                                           *)

(* The client goes back to its first menu without waiting for the answer. *)
LogoutRequest(c) ==
  /\ Ready(c) /\ who[c] # NoUser
  /\ h' = [h EXCEPT ![c] = [Idle EXCEPT !.pc = "lo_lock", !.user = who[c]]]
  /\ who' = [who EXCEPT ![c] = NoUser]
  /\ UNCHANGED <<up, mapVars, conn, logins, chatVars, dbVars, redisVars>>

(* A mistake in LogoutUpdate: the User it builds has no state yet. *)
LogoutBlankState(c) ==
  /\ At(c, "lo_lock") /\ MutexFree(c) /\ Entry(c, h[c].user) # NoConn
  /\ connMutex' = [connMutex EXCEPT ![Home[c]] = c]
  /\ UpdateState(h[c].user, "")
  /\ Goto(c, "lo_erase")
  /\ UNCHANGED <<up, userConnMap, netVars, chatVars, redisVars>>

LogoutUpdate(c) ==
  /\ At(c, "lo_lock") /\ MutexFree(c) /\ Entry(c, h[c].user) # NoConn
  /\ connMutex' = [connMutex EXCEPT ![Home[c]] = c]
  /\ UpdateState(h[c].user, "offline")
  /\ Goto(c, "lo_erase")
  /\ UNCHANGED <<up, userConnMap, netVars, chatVars, redisVars>>

LogoutFail(c) ==
  /\ At(c, "lo_lock") /\ MutexFree(c) /\ Entry(c, h[c].user) = NoConn
  /\ Finish(c)
  /\ UNCHANGED <<up, mapVars, netVars, chatVars, dbVars, redisVars>>

(* A mistake in LogoutErase: the entry stays. *)
LogoutKeepsEntry(c) ==
  /\ At(c, "lo_erase")
  /\ Goto(c, "lo_unsub")
  /\ UNCHANGED <<up, mapVars, netVars, chatVars, dbVars, redisVars>>

LogoutErase(c) ==
  /\ At(c, "lo_erase")
  /\ userConnMap' = [userConnMap EXCEPT ![Home[c]][h[c].user] = NoConn]
  /\ Goto(c, "lo_unsub")
  /\ UNCHANGED <<up, connMutex, netVars, chatVars, dbVars, redisVars>>

(* Mistakes in LogoutUnsubscribe: the mutex is not unlocked, or the channel *)
(* stays.                                                                   *)
LogoutKeepsMutex(c) ==
  /\ At(c, "lo_unsub")
  /\ unsubscribe(Home[c], h[c].user, Torn(c, SubscribePcs))
  /\ Finish(c)
  /\ UNCHANGED <<up, mapVars, netVars, chatVars, dbVars>>

LogoutStaysSubscribed(c) ==
  /\ At(c, "lo_unsub")
  /\ connMutex' = [connMutex EXCEPT ![Home[c]] = Free]
  /\ Finish(c)
  /\ UNCHANGED <<up, userConnMap, netVars, chatVars, dbVars, redisVars>>

LogoutUnsubscribe(c) ==
  /\ At(c, "lo_unsub")
  /\ unsubscribe(Home[c], h[c].user, Torn(c, SubscribePcs))
  /\ connMutex' = [connMutex EXCEPT ![Home[c]] = Free]
  /\ Finish(c)
  /\ UNCHANGED <<up, userConnMap, netVars, chatVars, dbVars>>

Logout(c) == \/ LogoutUpdate(c) \/ LogoutFail(c)
             \/ LogoutErase(c) \/ LogoutUnsubscribe(c)

-----------------------------------------------------------------------------
(*                      clientCloseException                               *)

Vanish(c) ==
  /\ "vanish" \in Faults /\ conn[c] = "up"
  /\ conn' = [conn EXCEPT ![c] = "gone"]
  /\ UNCHANGED <<up, mapVars, who, logins, h, chatVars, dbVars, redisVars>>

(* A mistake in CloseErase: the scan finds the user but erases nothing. *)
CloseKeepsEntry(c) ==
  LET mine == {u \in Users : userConnMap[Home[c]][u] = c} IN
  /\ conn[c] = "gone" /\ At(c, "idle") /\ MutexFree(c)
  /\ \E u \in IF mine = {} THEN {NoUser} ELSE mine :
       h' = [h EXCEPT ![c] = [Idle EXCEPT !.pc = "cl_unsub", !.user = u]]
  /\ conn' = [conn EXCEPT ![c] = "down"]
  /\ who' = [who EXCEPT ![c] = NoUser]
  /\ UNCHANGED <<up, mapVars, logins, chatVars, dbVars, redisVars>>

(* The scan of the map stops at the first entry of the connection. *)
CloseErase(c) ==
  LET s    == Home[c]
      mine == {u \in Users : userConnMap[s][u] = c}
  IN
  /\ conn[c] = "gone" /\ At(c, "idle") /\ MutexFree(c)
  /\ \E u \in IF mine = {} THEN {NoUser} ELSE mine :
       /\ userConnMap' = [userConnMap EXCEPT ![s] =
                            [v \in Users |-> IF v = u THEN NoConn ELSE @[v]]]
       /\ h' = [h EXCEPT ![c] = [Idle EXCEPT !.pc = "cl_unsub", !.user = u]]
  /\ conn' = [conn EXCEPT ![c] = "down"]
  /\ who' = [who EXCEPT ![c] = NoUser]
  /\ UNCHANGED <<up, connMutex, logins, chatVars, dbVars, redisVars>>

CloseUnsubscribe(c) ==
  /\ At(c, "cl_unsub")
  /\ unsubscribe(Home[c], h[c].user, Torn(c, SubscribePcs))
  /\ IF h[c].user = NoUser THEN Finish(c) ELSE Goto(c, "cl_update")
  /\ UNCHANGED <<up, mapVars, netVars, chatVars, dbVars>>

(* A mistake in CloseUpdate: the table is not told. *)
CloseForgetsTable(c) ==
  /\ At(c, "cl_update")
  /\ Finish(c)
  /\ UNCHANGED <<up, mapVars, netVars, chatVars, dbVars, redisVars>>

CloseUpdate(c) ==
  /\ At(c, "cl_update")
  /\ UpdateState(h[c].user, "offline")
  /\ Finish(c)
  /\ UNCHANGED <<up, mapVars, netVars, chatVars, redisVars>>

Close(c) == CloseErase(c) \/ CloseUnsubscribe(c) \/ CloseUpdate(c)

-----------------------------------------------------------------------------
(*                      oneChat                                            *)

(* Another handler is about to change the nodes of c's _userConnMap. *)
Writing(c) == \E d \in Conns :
  /\ Home[d] = Home[c]
  /\ \/ MutexFree(d) /\ At(d, "li_insert")
     \/ MutexFree(d) /\ At(d, "idle") /\ conn[d] = "gone"
     \/ At(d, "lo_erase")

CanSend(c, m) == Ready(c) /\ who[c] # NoUser /\ From[m] = c /\ m \notin sent

(* find without the mutex: during a write to the map it may miss an entry. *)
OneChat(c, m) ==
  /\ CanSend(c, m) /\ m \in OneMsgs
  /\ sent' = sent \cup {m}
  /\ \E u \in Rcpt[m] :
     \E p \in {Entry(c, u)} \cup IF "race" \in Faults /\ Writing(c) THEN {NoConn} ELSE {} :
       h' = [h EXCEPT ![c] =
              [Idle EXCEPT !.pc = IF p = NoConn THEN "oc_query" ELSE "oc_send",
                           !.user = u, !.msg = m, !.peer = p]]
  /\ UNCHANGED <<up, mapVars, netVars, got, noticed, dbVars, redisVars>>

(* The iterator's node may have been freed since, and used for another.     *)
Stale(c) == Entry(c, h[c].user) # h[c].peer
Targets(c) ==
  {h[c].peer} \cup IF "race" \in Faults /\ Stale(c)
                   THEN {Entry(c, v) : v \in Users} \ {NoConn} ELSE {}

(* A mistake in ChatSend: conn->send, the connection of the sender. *)
ChatSendBack(c) ==
  /\ At(c, "oc_send")
  /\ Deliver(c, h[c].msg)
  /\ Finish(c)
  /\ UNCHANGED <<up, mapVars, netVars, sent, noticed, dbVars, redisVars>>

ChatSend(c) ==
  /\ At(c, "oc_send")
  /\ \E p \in Targets(c) : Deliver(p, h[c].msg)
  /\ Finish(c)
  /\ UNCHANGED <<up, mapVars, netVars, sent, noticed, dbVars, redisVars>>

(* A mistake in ChatQuery: the test of the state is the wrong way round. *)
ChatQuerySwapped(c) ==
  /\ At(c, "oc_query")
  /\ \E online \in BOOLEAN :
       /\ QueryOnline(h[c].user, online)
       /\ Goto(c, IF online THEN "oc_store" ELSE "oc_publish")
  /\ UNCHANGED <<up, mapVars, netVars, chatVars, dbVars, redisVars>>

ChatQuery(c) ==
  /\ At(c, "oc_query")
  /\ \E online \in BOOLEAN :
       /\ QueryOnline(h[c].user, online)
       /\ Goto(c, IF online THEN "oc_publish" ELSE "oc_store")
  /\ UNCHANGED <<up, mapVars, netVars, chatVars, dbVars, redisVars>>

ChatPublish(c) ==
  /\ At(c, "oc_publish")
  /\ publish(Home[c], h[c].user, h[c].msg, Torn(c, PublishPcs))
  /\ Finish(c)
  /\ UNCHANGED <<up, mapVars, netVars, chatVars, dbVars>>

(* The sender is told that the message is cached, whatever insert returned. *)
ChatStore(c) ==
  /\ At(c, "oc_store")
  /\ StoreOffline(h[c].user, h[c].msg)
  /\ noticed' = noticed \cup {h[c].msg}
  /\ Finish(c)
  /\ UNCHANGED <<up, mapVars, netVars, sent, got, redisVars>>

Chat(c) == ChatSend(c) \/ ChatQuery(c) \/ ChatPublish(c) \/ ChatStore(c)

-----------------------------------------------------------------------------
(*                      groupChat                                          *)

GroupChat(c, m) ==
  /\ CanSend(c, m) /\ m \notin OneMsgs
  /\ sent' = sent \cup {m}
  /\ \E members \in {Rcpt[m] \ {who[c]}} \cup IF DbFault THEN {{}} ELSE {} :
       h' = [h EXCEPT ![c] = [Idle EXCEPT !.pc = "gc_lock", !.msg = m, !.todo = members]]
  /\ UNCHANGED <<up, mapVars, netVars, got, noticed, dbVars, redisVars>>

GroupLock(c) ==
  /\ At(c, "gc_lock") /\ MutexFree(c)
  /\ connMutex' = [connMutex EXCEPT ![Home[c]] = c]
  /\ Goto(c, "gc_next")
  /\ UNCHANGED <<up, userConnMap, netVars, chatVars, dbVars, redisVars>>

(* A mistake in GroupSend: conn->send, the connection of the sender. *)
GroupSendBack(c) ==
  /\ At(c, "gc_next")
  /\ \E u \in h[c].todo :
       /\ Entry(c, u) # NoConn
       /\ Deliver(c, h[c].msg)
       /\ h' = [h EXCEPT ![c].todo = @ \ {u}]
  /\ UNCHANGED <<up, mapVars, netVars, sent, noticed, dbVars, redisVars>>

GroupSend(c) ==
  /\ At(c, "gc_next")
  /\ \E u \in h[c].todo :
       /\ Entry(c, u) # NoConn
       /\ Deliver(Entry(c, u), h[c].msg)
       /\ h' = [h EXCEPT ![c].todo = @ \ {u}]
  /\ UNCHANGED <<up, mapVars, netVars, sent, noticed, dbVars, redisVars>>

GroupQuery(c) ==
  /\ At(c, "gc_next")
  /\ \E u \in h[c].todo, online \in BOOLEAN :
       /\ Entry(c, u) = NoConn
       /\ QueryOnline(u, online)
       /\ h' = [h EXCEPT ![c].todo = @ \ {u}, ![c].user = u,
                         ![c].pc = IF online THEN "gc_publish" ELSE "gc_store"]
  /\ UNCHANGED <<up, mapVars, netVars, chatVars, dbVars, redisVars>>

GroupPublish(c) ==
  /\ At(c, "gc_publish")
  /\ publish(Home[c], h[c].user, h[c].msg, Torn(c, PublishPcs))
  /\ Goto(c, "gc_next")
  /\ UNCHANGED <<up, mapVars, netVars, chatVars, dbVars>>

(* A mistake in GroupStore: members who are offline are left out. *)
GroupStoreNothing(c) ==
  /\ At(c, "gc_store")
  /\ Goto(c, "gc_next")
  /\ UNCHANGED <<up, mapVars, netVars, chatVars, dbVars, redisVars>>

GroupStore(c) ==
  /\ At(c, "gc_store")
  /\ StoreOffline(h[c].user, h[c].msg)
  /\ Goto(c, "gc_next")
  /\ UNCHANGED <<up, mapVars, netVars, chatVars, redisVars>>

(* A mistake in GroupDone: the mutex is not released. *)
GroupKeepsMutex(c) ==
  /\ At(c, "gc_next") /\ h[c].todo = {}
  /\ Finish(c)
  /\ UNCHANGED <<up, mapVars, netVars, chatVars, dbVars, redisVars>>

GroupDone(c) ==
  /\ At(c, "gc_next") /\ h[c].todo = {}
  /\ connMutex' = [connMutex EXCEPT ![Home[c]] = Free]
  /\ Finish(c)
  /\ UNCHANGED <<up, userConnMap, netVars, chatVars, dbVars, redisVars>>

Group(c) == \/ GroupLock(c) \/ GroupSend(c) \/ GroupQuery(c)
            \/ GroupPublish(c) \/ GroupStore(c) \/ GroupDone(c)

-----------------------------------------------------------------------------
(* handleRedisSubscribeMessage, in the observer thread.  It holds the mutex *)
(* from the find to the store, and nothing else under the mutex depends on  *)
(* the order of the store, so the whole call is one step.                   *)
Observe(s) ==
  /\ inbox[s] # <<>> /\ connMutex[s] = Free
  /\ LET u == Head(inbox[s]).to  m == Head(inbox[s]).msg  c == userConnMap[s][u] IN
     \/ c # NoConn /\ Deliver(c, m) /\ UNCHANGED dbVars
     \/ c = NoConn /\ StoreOffline(u, m) /\ UNCHANGED got
  /\ Consume(s)
  /\ UNCHANGED <<up, mapVars, netVars, h, sent, noticed>>

-----------------------------------------------------------------------------
(*                      the end of a server process                        *)

Kill(s) == "kill" \in Faults /\ Alive(s) /\ Die(s, "killed")

(* resetHandler of main.cc; the other threads run until exit ends them. *)
SigintReset(s) ==
  /\ "sigint" \in Faults /\ up[s] = "running"
  /\ up' = [up EXCEPT ![s] = "resetting"]
  /\ ResetState
  /\ UNCHANGED <<mapVars, netVars, h, chatVars, redisVars>>

SigintExit(s) == up[s] = "resetting" /\ Die(s, "exited")

(* UserModel::query reads a null row: an unknown id to log in or to chat to. *)
NullRow(c) ==
  /\ \/ \E u \in Users \ Registered : CanLogin(c, u)
     \/ At(c, "oc_query") /\ h[c].user \notin Registered
  /\ Die(Home[c], "nullrow")

RaceCrash(c) ==
  /\ \/ "race" \in Faults /\ \E m \in OneMsgs : CanSend(c, m) /\ Writing(c)
     \/ "race" \in Faults /\ At(c, "oc_send") /\ Stale(c)
     \/ \E pcs \in {SubscribePcs, PublishPcs} : h[c].pc \in pcs /\ Torn(c, pcs)
  /\ Die(Home[c], "race")

Restart(s) ==
  /\ "restart" \in Faults /\ up[s] \in Ends
  /\ up' = [up EXCEPT ![s] = "running"]
  /\ connect(s)
  /\ UNCHANGED <<mapVars, netVars, h, chatVars, dbVars>>

BreakLink(s) ==
  /\ "redis" \in Faults /\ Alive(s)
  /\ \E lost \in (SUBSET linked[s]) \ {{}} : Disconnect(s, lost)
  /\ UNCHANGED <<up, mapVars, netVars, h, chatVars, dbVars>>

Execute(s) ==
  /\ ExecuteCommand(s)
  /\ UNCHANGED <<up, mapVars, netVars, h, chatVars, dbVars>>

-----------------------------------------------------------------------------
Steps(c) == Login(c) \/ Logout(c) \/ Close(c) \/ Chat(c) \/ Group(c)

Requests(c) ==
  \/ \E u \in Users : LoginQuery(c, u)
  \/ LogoutRequest(c) \/ Vanish(c)
  \/ \E m \in Msgs : OneChat(c, m) \/ GroupChat(c, m)
  \/ NullRow(c) \/ RaceCrash(c)

Server(s) == \/ Observe(s) \/ Execute(s) \/ Kill(s) \/ SigintReset(s)
             \/ SigintExit(s) \/ Restart(s) \/ BreakLink(s)

Next == \/ \E c \in Conns : Requests(c) \/ Steps(c)
        \/ \E s \in Servers : Server(s)

Spec == Init /\ [][Next]_vars

(* Threads run and redis answers; clients and faults owe nothing.  Waiting  *)
(* for _connMutex is weakly fair only: since the requests are bounded, the  *)
(* mutex is in the end free for good.                                       *)
Fairness == /\ \A c \in Conns : WF_vars(Steps(c))
            /\ \A s \in Servers : WF_vars(Observe(s)) /\ WF_vars(Execute(s))
                               /\ WF_vars(SigintExit(s))
FairSpec == Spec /\ Fairness
=============================================================================
