------------------------- MODULE ChatServiceProofs -------------------------
(***************************************************************************)
(* Proofs about ChatService, for any servers, users, connections, messages *)
(* and faults.                                                             *)
(***************************************************************************)
EXTENDS ChatSafety, TLAPS

-----------------------------------------------------------------------------
(*                      what the helpers do                                *)

(* Idle is a handler, whatever its program counter and user are set to. *)
LEMMA IdleType == Idle \in Handler /\ Idle.pc = "idle" /\ Idle.user = NoUser
<1>1. NoRows \in [Msgs -> Nat]  BY DEF NoRows
<1>2. "idle" \in Pcs            BY DEF Pcs
<1>3. QED                       BY <1>1, <1>2 DEF Idle, Handler

LEMMA StartType ==
  ASSUME NEW p \in Pcs, NEW u \in Users \cup {NoUser}
  PROVE  LET i == [Idle EXCEPT !.pc = p, !.user = u] IN
         i \in Handler /\ i.pc = p /\ i.user = u
BY IdleType DEF Handler

(* A step of one handler keeps all handlers well formed if the new one is.  *)
Shape == TypeOK /\ HandlersOK

LEMMA HandlerStep ==
  ASSUME Shape, NEW c \in Conns, NEW x \in Handler, WellFormed(x),
         h' = [h EXCEPT ![c] = x]
  PROVE  h' \in [Conns -> Handler] /\ HandlersOK'
<1>1. h \in [Conns -> Handler] /\ h' \in [Conns -> Handler]
  BY DEF Shape, TypeOK
<1>2. \A d \in Conns : h'[d] = IF d = c THEN x ELSE h[d]
  BY <1>1
<1>3. \A d \in Conns : WellFormed(h'[d])
  BY <1>2 DEF Shape, HandlersOK
<1>4. QED
  BY <1>1, <1>3 DEF HandlersOK, WellFormed

LEMMA GotoStep ==
  ASSUME Shape, NEW c \in Conns, NEW p \in Pcs \ {"oc_send"}, Goto(c, p),
         p \in NeedsUser => h[c].user \in Users,
         p \in ChatPcs \cup GroupPcs => h[c].msg \in Msgs
  PROVE  h' \in [Conns -> Handler] /\ HandlersOK'
<1> DEFINE x == [h[c] EXCEPT !.pc = p]
<1>1. h[c] \in Handler
  BY DEF Shape, TypeOK
<1>2. x \in Handler /\ x.pc = p /\ x.user = h[c].user /\ x.msg = h[c].msg
  BY <1>1 DEF Handler
<1>3. WellFormed(x)
  BY <1>2 DEF WellFormed
<1>4. h' = [h EXCEPT ![c] = x]
  BY DEF Goto
<1>5. QED
  BY <1>2, <1>3, <1>4, HandlerStep

LEMMA FinishStep ==
  ASSUME Shape, NEW c \in Conns, Finish(c)
  PROVE  h' \in [Conns -> Handler] /\ HandlersOK'
<1>1. WellFormed(Idle)
  BY IdleType DEF WellFormed, NeedsUser, LoginPcs, LogoutPcs, ChatPcs, GroupPcs
<1>2. QED
  BY <1>1, IdleType, HandlerStep DEF Finish

LEMMA DeliverType ==
  ASSUME TypeOK, NEW c \in Conns, NEW m \in Msgs, Deliver(c, m)
  PROVE  got' \in [Conns -> [Msgs -> Nat]]
BY DEF Deliver, TypeOK

(* What a handler's program counter tells of its locals. *)
LEMMA Locals ==
  ASSUME Shape, NEW c \in Conns
  PROVE  /\ h[c] \in Handler /\ Home[c] \in Servers
         /\ h[c].pc \in NeedsUser => h[c].user \in Users
         /\ h[c].pc \in ChatPcs \cup GroupPcs => h[c].msg \in Msgs
         /\ h[c].pc = "oc_send" => h[c].peer \in Conns
BY ServiceOK DEF Shape, TypeOK, HandlersOK, WellFormed

(* The operations of the tables. *)
LEMMA UpdateTypes ==
  ASSUME DbTypeOK, NEW u \in Users, NEW st \in {"online", "offline"}, UpdateState(u, st)
  PROVE  DbTypeOK'
BY DEF DbTypeOK, UpdateState

LEMMA ResetTypes == ASSUME DbTypeOK, ResetState PROVE DbTypeOK'
BY DEF DbTypeOK, ResetState

LEMMA StoreTypes ==
  ASSUME DbTypeOK, NEW u \in Users, NEW m \in Msgs, StoreOffline(u, m)
  PROVE  DbTypeOK'
BY DEF DbTypeOK, StoreOffline

LEMMA RemoveTypes ==
  ASSUME DbTypeOK, NEW u \in Users, RemoveOffline(u)
  PROVE  DbTypeOK'
BY DEF DbTypeOK, RemoveOffline, NoRows

(* The operations of the channels. *)
LEMMA WriteTypes ==
  ASSUME RedisTypeOK, NEW s \in Servers, NEW op, NEW u,
         [op |-> op, user |-> u] \in Command, WriteCommand(s, op, u)
  PROVE  RedisTypeOK'
BY DEF RedisTypeOK, WriteCommand

LEMMA LinkTypes ==
  ASSUME RedisTypeOK, NEW s \in Servers, (\E lost : Disconnect(s, lost)) \/ connect(s)
  PROVE  RedisTypeOK'
<1>1. ASSUME NEW lost, Disconnect(s, lost) PROVE RedisTypeOK'
  <2>1. <<>> \in Seq(Command) /\ <<>> \in Seq(Copy)
    OBVIOUS
  <2>2. QED  BY <1>1, <2>1 DEF RedisTypeOK, Disconnect
<1>2. CASE connect(s)
  BY <1>2 DEF RedisTypeOK, connect
<1>3. QED  BY <1>1, <1>2

LEMMA GarbleTypes ==
  ASSUME RedisTypeOK, NEW s \in Servers, NEW x, Garble(s, x)
  PROVE  RedisTypeOK'
<1>1. CASE UNCHANGED redisVars
  BY <1>1 DEF RedisTypeOK, redisVars
<1>2. CASE Disconnect(s, {x})
  BY <1>2, LinkTypes
<1>3. QED  BY <1>1, <1>2 DEF Garble

LEMMA SubscribeTypes ==
  ASSUME RedisTypeOK, NEW s \in Servers, NEW torn
  PROVE  /\ \A u \in Users : subscribe(s, u, torn) => RedisTypeOK'
         /\ \A u \in Users \cup {NoUser} : unsubscribe(s, u, torn) => RedisTypeOK'
<1>1. \A u \in Users : [op |-> "sub", user |-> u] \in Command  BY DEF Command
<1>2. \A u \in Users \cup {NoUser} : [op |-> "unsub", user |-> u] \in Command  BY DEF Command
<1>3. QED  BY <1>1, <1>2, WriteTypes, GarbleTypes DEF subscribe, unsubscribe

LEMMA PushTypes ==
  ASSUME RedisTypeOK, NEW s \in Servers, NEW u \in Users, NEW m \in Msgs, NEW n,
         Push(s, u, m, n)
  PROVE  RedisTypeOK'
<1> DEFINE x == [to |-> u, msg |-> m]
<1>1. x \in Copy  BY DEF Copy
<1>2. \A r \in Servers : /\ Append(inbox[r], x) \in Seq(Copy)
                        /\ Append(Append(inbox[r], x), x) \in Seq(Copy)
  BY <1>1 DEF RedisTypeOK
<1>3. inbox' \in [Servers -> Seq(Copy)]
  BY <1>2 DEF RedisTypeOK, Push
<1>4. QED  BY <1>3 DEF RedisTypeOK, Push

LEMMA PublishTypes ==
  ASSUME RedisTypeOK, NEW s \in Servers, NEW u \in Users, NEW m \in Msgs, NEW torn,
         publish(s, u, m, torn)
  PROVE  RedisTypeOK'
BY PushTypes, GarbleTypes DEF publish

LEMMA ConsumeTypes ==
  ASSUME RedisTypeOK, NEW s \in Servers, inbox[s] # <<>>, Consume(s)
  PROVE  RedisTypeOK'
BY DEF RedisTypeOK, Consume

LEMMA ExecuteTypes ==
  ASSUME RedisTypeOK, NEW s \in Servers, ExecuteCommand(s)
  PROVE  RedisTypeOK'
<1>1. Head(subCmds[s]) \in Command /\ Tail(subCmds[s]) \in Seq(Command)
  BY DEF RedisTypeOK, ExecuteCommand
<1>2. Apply(Head(subCmds[s]), subs[s]) \in SUBSET Users
  BY <1>1 DEF RedisTypeOK, Apply, Command
<1>3. QED  BY <1>1, <1>2 DEF RedisTypeOK, ExecuteCommand

-----------------------------------------------------------------------------
(*                      type correctness                                   *)

LEMMA TypeInit == Init => TypeOK
<1> SUFFICES ASSUME Init PROVE TypeOK
  OBVIOUS
<1> USE ServiceOK, SystemOK DEF Init
<1>1. NoRows \in [Msgs -> Nat]
  BY DEF NoRows
<1>2. RedisTypeOK
  <2>1. <<>> \in Seq(Command) /\ <<>> \in Seq(Copy)
    OBVIOUS
  <2>2. QED  BY <2>1 DEF RedisTypeOK
<1>3. DbTypeOK
  BY <1>1 DEF DbTypeOK
<1>4. userConnMap \in [Servers -> [Users -> Conns \cup {NoConn}]]
  OBVIOUS
<1>5. who \in [Conns -> Users \cup {NoUser}]
  OBVIOUS
<1>6. h \in [Conns -> Handler]
  BY IdleType
<1>7. QED  BY <1>1, <1>2, <1>3, <1>4, <1>5, <1>6 DEF TypeOK

LEMMA TypeLogin ==
  ASSUME Shape, NEW c \in Conns, Login(c) \/ \E u \in Users : LoginQuery(c, u)
  PROVE  Shape'
<1> USE ServiceOK, SystemOK DEF At, Pcs, LoginPcs, NeedsUser, ChatPcs, GroupPcs
<1>0. /\ TypeOK /\ h \in [Conns -> Handler]
      /\ Home[c] \in Servers /\ (h[c].pc \in LoginPcs => h[c].user \in Users)
  BY Locals DEF TypeOK, Shape
<1>1. CASE \E u \in Users : LoginQuery(c, u)
  <2> PICK u \in Users : LoginQuery(c, u)
    BY <1>1
  <2> DEFINE x == [Idle EXCEPT !.pc = "li_insert", !.user = u]
  <2>1. x \in Handler /\ x.pc = "li_insert" /\ x.user = u
    BY StartType
  <2>2. h' \in [Conns -> Handler] /\ HandlersOK'
    <3>1. h' = [h EXCEPT ![c] = x]
      BY DEF LoginQuery
    <3>2. WellFormed(x)
      BY <2>1 DEF WellFormed
    <3>3. QED
      BY <2>1, <3>1, <3>2, HandlerStep
  <2>3. logins[c] \in 0..MaxLogins /\ logins[c] < MaxLogins
    BY <1>0 DEF LoginQuery, CanLogin, TypeOK
  <2>4. logins[c] + 1 \in 0..MaxLogins
    BY <2>3
  <2>5. logins' \in [Conns -> 0..MaxLogins]
    BY <1>0, <2>4 DEF LoginQuery, TypeOK
  <2>6. QED
    BY <1>0, <2>2, <2>5
    DEF LoginQuery, Shape, TypeOK, mapVars, chatVars, dbVars, redisVars, DbTypeOK, RedisTypeOK
<1>2. CASE LoginInsert(c)
  <2>1. h' \in [Conns -> Handler] /\ HandlersOK'
    BY <1>0, <1>2, GotoStep DEF LoginInsert
  <2>2. userConnMap' \in [Servers -> [Users -> Conns \cup {NoConn}]]
    BY <1>0, <1>2 DEF LoginInsert, TypeOK, Entry
  <2>3. QED
    BY <1>0, <1>2, <2>1, <2>2
    DEF LoginInsert, Shape, TypeOK, netVars, chatVars, dbVars, redisVars, DbTypeOK, RedisTypeOK
<1>3. CASE LoginSubscribe(c)
  <2>1. h' \in [Conns -> Handler] /\ HandlersOK'
    BY <1>0, <1>3, GotoStep DEF LoginSubscribe
  <2>2. RedisTypeOK'
    BY <1>0, <1>3, SubscribeTypes DEF LoginSubscribe, TypeOK
  <2>3. QED
    BY <1>0, <1>3, <2>1, <2>2 DEF LoginSubscribe, Shape, TypeOK, mapVars, netVars, chatVars, dbVars, DbTypeOK
<1>4. CASE LoginOnline(c)
  <2>1. h' \in [Conns -> Handler] /\ HandlersOK'
    BY <1>0, <1>4, GotoStep DEF LoginOnline
  <2>2. DbTypeOK'
    BY <1>0, <1>4, UpdateTypes DEF LoginOnline, TypeOK
  <2>3. QED
    BY <1>0, <1>4, <2>1, <2>2 DEF LoginOnline, Shape, TypeOK, mapVars, netVars, chatVars, redisVars, RedisTypeOK
<1>5. CASE LoginOffline(c)
  <2> PICK rows \in {offlineMessage[h[c].user], NoRows} :
        h' = [h EXCEPT ![c].rows = rows,
                       ![c].pc = IF rows = NoRows THEN "li_ack" ELSE "li_remove"]
    BY <1>5 DEF LoginOffline
  <2> DEFINE p == IF rows = NoRows THEN "li_ack" ELSE "li_remove"
             x == [h[c] EXCEPT !.rows = rows, !.pc = p]
  <2>1. rows \in [Msgs -> Nat] /\ p \in {"li_ack", "li_remove"}
    BY <1>0, <1>5 DEF LoginOffline, TypeOK, DbTypeOK, NoRows
  <2>2. x \in Handler /\ x.pc = p /\ x.user = h[c].user
    <3> HIDE DEF p
    <3>1. h[c] \in Handler /\ p \in Pcs
      BY <1>0, <2>1
    <3>2. QED
      BY <2>1, <3>1 DEF Handler
  <2>3. WellFormed(x)
    BY <1>0, <1>5, <2>2 DEF WellFormed, LoginOffline
  <2>4. h' = [h EXCEPT ![c] = x]
    BY <1>0
  <2>5. h' \in [Conns -> Handler] /\ HandlersOK'
    BY <2>2, <2>3, <2>4, HandlerStep
  <2>6. QED
    BY <1>0, <1>5, <2>5
    DEF LoginOffline, Shape, TypeOK, mapVars, netVars, chatVars, dbVars, redisVars, DbTypeOK, RedisTypeOK
<1>6. CASE LoginRemove(c)
  <2>1. h' \in [Conns -> Handler] /\ HandlersOK'
    BY <1>0, <1>6, GotoStep DEF LoginRemove
  <2>2. DbTypeOK'
    BY <1>0, <1>6, RemoveTypes DEF LoginRemove, TypeOK
  <2>3. QED
    BY <1>0, <1>6, <2>1, <2>2 DEF LoginRemove, Shape, TypeOK, mapVars, netVars, chatVars, redisVars, RedisTypeOK
<1>7. CASE LoginAck(c)
  <2>1. h' \in [Conns -> Handler] /\ HandlersOK'
    BY <1>7, FinishStep DEF LoginAck
  <2>2. who' \in [Conns -> Users \cup {NoUser}]
    BY <1>0, <1>7 DEF LoginAck, TypeOK
  <2>3. h[c].rows \in [Msgs -> Nat]
    BY <1>0 DEF Handler
  <2>4. got' \in [Conns -> [Msgs -> Nat]]
    BY <1>0, <1>7, <2>3 DEF LoginAck, TypeOK
  <2>5. QED
    BY <1>0, <1>7, <2>1, <2>2, <2>4
    DEF LoginAck, Shape, TypeOK, mapVars, dbVars, redisVars, DbTypeOK, RedisTypeOK
<1>8. QED  BY <1>1, <1>2, <1>3, <1>4, <1>5, <1>6, <1>7 DEF Login

LEMMA TypeLogout ==
  ASSUME Shape, NEW c \in Conns, Logout(c) \/ LogoutRequest(c) \/ Vanish(c)
  PROVE  Shape'
<1> USE ServiceOK, SystemOK DEF At, Pcs, LogoutPcs, NeedsUser, ChatPcs, GroupPcs
<1>0. /\ TypeOK /\ h \in [Conns -> Handler]
      /\ Home[c] \in Servers /\ (h[c].pc \in LogoutPcs => h[c].user \in Users)
  BY Locals DEF TypeOK, Shape
<1>1. CASE LogoutRequest(c)
  <2> DEFINE x == [Idle EXCEPT !.pc = "lo_lock", !.user = who[c]]
  <2>1. who[c] \in Users
    BY <1>0, <1>1 DEF LogoutRequest, TypeOK
  <2>2. x \in Handler /\ x.pc = "lo_lock" /\ x.user = who[c]
    BY <2>1, StartType
  <2>3. WellFormed(x)
    BY <2>1, <2>2 DEF WellFormed
  <2>4. h' = [h EXCEPT ![c] = x]
    BY <1>1 DEF LogoutRequest
  <2>5. h' \in [Conns -> Handler] /\ HandlersOK'
    BY <2>2, <2>3, <2>4, HandlerStep
  <2>6. QED
    BY <1>0, <1>1, <2>5
    DEF LogoutRequest, Shape, TypeOK, mapVars, chatVars, dbVars, redisVars, DbTypeOK, RedisTypeOK
<1>2. CASE LogoutUpdate(c)
  <2>1. h' \in [Conns -> Handler] /\ HandlersOK'
    BY <1>0, <1>2, GotoStep DEF LogoutUpdate
  <2>2. DbTypeOK'
    BY <1>0, <1>2, UpdateTypes DEF LogoutUpdate, TypeOK
  <2>3. QED
    BY <1>0, <1>2, <2>1, <2>2 DEF LogoutUpdate, Shape, TypeOK, netVars, chatVars, redisVars, RedisTypeOK
<1>3. CASE LogoutFail(c)
  <2>1. h' \in [Conns -> Handler] /\ HandlersOK'
    BY <1>3, FinishStep DEF LogoutFail
  <2>2. QED
    BY <1>0, <1>3, <2>1
    DEF LogoutFail, Shape, TypeOK, mapVars, netVars, chatVars, dbVars, redisVars, DbTypeOK, RedisTypeOK
<1>4. CASE LogoutErase(c)
  <2>1. h' \in [Conns -> Handler] /\ HandlersOK'
    BY <1>0, <1>4, GotoStep DEF LogoutErase
  <2>2. QED
    BY <1>0, <1>4, <2>1
    DEF LogoutErase, Shape, TypeOK, netVars, chatVars, dbVars, redisVars, DbTypeOK, RedisTypeOK
<1>5. CASE LogoutUnsubscribe(c)
  <2>1. h' \in [Conns -> Handler] /\ HandlersOK'
    BY <1>5, FinishStep DEF LogoutUnsubscribe
  <2>2. RedisTypeOK'
    BY <1>0, <1>5, SubscribeTypes DEF LogoutUnsubscribe, TypeOK
  <2>3. QED
    BY <1>0, <1>5, <2>1, <2>2 DEF LogoutUnsubscribe, Shape, TypeOK, netVars, chatVars, dbVars, DbTypeOK
<1>6. CASE Vanish(c)
  <2>1. HandlersOK'
    BY <1>6 DEF Vanish, Shape, HandlersOK, WellFormed
  <2>2. QED
    BY <1>0, <1>6, <2>1
    DEF Vanish, Shape, TypeOK, mapVars, chatVars, dbVars, redisVars, DbTypeOK, RedisTypeOK
<1>7. QED  BY <1>1, <1>2, <1>3, <1>4, <1>5, <1>6 DEF Logout

LEMMA TypeClose ==
  ASSUME Shape, NEW c \in Conns, Close(c)
  PROVE  Shape'
<1> USE ServiceOK, SystemOK DEF At, Pcs, ClosePcs, LoginPcs, LogoutPcs, NeedsUser, ChatPcs, GroupPcs
<1>0. /\ TypeOK /\ h \in [Conns -> Handler] /\ h[c] \in Handler
      /\ Home[c] \in Servers /\ (h[c].pc \in NeedsUser => h[c].user \in Users)
  BY Locals DEF TypeOK, Shape
<1>1. CASE CloseErase(c)
  <2> DEFINE mine == {u \in Users : userConnMap[Home[c]][u] = c}
  <2> PICK u \in IF mine = {} THEN {NoUser} ELSE mine :
        /\ userConnMap' = [userConnMap EXCEPT ![Home[c]] =
                             [v \in Users |-> IF v = u THEN NoConn ELSE @[v]]]
        /\ h' = [h EXCEPT ![c] = [Idle EXCEPT !.pc = "cl_unsub", !.user = u]]
    BY <1>1 DEF CloseErase
  <2> DEFINE x == [Idle EXCEPT !.pc = "cl_unsub", !.user = u]
  <2>1. u \in Users \cup {NoUser}
    BY SMTT(30)
  <2>2. x \in Handler /\ x.pc = "cl_unsub"
    BY <2>1, StartType, Zenon
  <2>3. WellFormed(x)
    BY <2>2 DEF WellFormed
  <2>4. h' \in [Conns -> Handler] /\ HandlersOK'
    BY <2>2, <2>3, HandlerStep
  <2>5. userConnMap' \in [Servers -> [Users -> Conns \cup {NoConn}]]
    BY <1>0 DEF TypeOK
  <2>6. QED
    BY <1>0, <1>1, <2>4, <2>5
    DEF CloseErase, Shape, TypeOK, chatVars, dbVars, redisVars, DbTypeOK, RedisTypeOK
<1>2. CASE CloseUnsubscribe(c)
  <2>1. h' \in [Conns -> Handler] /\ HandlersOK'
    <3>1. CASE h[c].user = NoUser
      BY <1>2, <3>1, FinishStep DEF CloseUnsubscribe
    <3>2. CASE h[c].user # NoUser
      <4>1. h[c].user \in Users /\ Goto(c, "cl_update")
        BY <1>0, <1>2, <3>2 DEF CloseUnsubscribe, Handler
      <4>2. QED
        BY <4>1, GotoStep
    <3>3. QED  BY <3>1, <3>2
  <2>2. RedisTypeOK'
    BY <1>0, <1>2, SubscribeTypes DEF CloseUnsubscribe, TypeOK, Handler
  <2>3. QED
    BY <1>0, <1>2, <2>1, <2>2 DEF CloseUnsubscribe, Shape, TypeOK, mapVars, netVars, chatVars, dbVars, DbTypeOK
<1>3. CASE CloseUpdate(c)
  <2>1. h' \in [Conns -> Handler] /\ HandlersOK'
    BY <1>3, FinishStep DEF CloseUpdate
  <2>2. DbTypeOK'
    BY <1>0, <1>3, UpdateTypes DEF CloseUpdate, TypeOK
  <2>3. QED
    BY <1>0, <1>3, <2>1, <2>2 DEF CloseUpdate, Shape, TypeOK, mapVars, netVars, chatVars, redisVars, RedisTypeOK
<1>4. QED  BY <1>1, <1>2, <1>3 DEF Close

(* The handler oneChat starts with, whichever way its map lookup went. *)
LEMMA ChatStart ==
  ASSUME Shape, NEW c \in Conns, NEW u \in Users, NEW m \in Msgs,
         NEW p \in Conns \cup {NoConn},
         h' = [h EXCEPT ![c] =
                [Idle EXCEPT !.pc = IF p = NoConn THEN "oc_query" ELSE "oc_send",
                             !.user = u, !.msg = m, !.peer = p]]
  PROVE  h' \in [Conns -> Handler] /\ HandlersOK'
<1>1. PICK q : q = IF p = NoConn THEN "oc_query" ELSE "oc_send"
  OBVIOUS
<1>2. q \in Pcs /\ q \in {"oc_query", "oc_send"} /\ (q = "oc_send" => p \in Conns)
  BY <1>1 DEF Pcs, ChatPcs
<1>3. SUFFICES ASSUME NEW x, x = [Idle EXCEPT !.pc = q, !.user = u, !.msg = m, !.peer = p]
      PROVE  h' \in [Conns -> Handler] /\ HandlersOK'
  OBVIOUS
<1>4. x \in Handler /\ x.pc = q /\ x.user = u /\ x.msg = m /\ x.peer = p
  BY <1>2, <1>3, IdleType DEF Handler
<1>5. WellFormed(x)
  BY <1>2, <1>4 DEF WellFormed, NeedsUser, LoginPcs, LogoutPcs, ChatPcs, GroupPcs
<1>6. h' = [h EXCEPT ![c] = x]
  BY <1>1, <1>3
<1>7. QED
  BY <1>4, <1>5, <1>6, HandlerStep

LEMMA TypeChat ==
  ASSUME Shape, NEW c \in Conns, Chat(c) \/ \E m \in Msgs : OneChat(c, m)
  PROVE  Shape'
<1> USE ServiceOK, SystemOK DEF At, Pcs, ChatPcs, LoginPcs, LogoutPcs, NeedsUser, GroupPcs
<1>0. /\ TypeOK /\ h \in [Conns -> Handler] /\ h[c] \in Handler /\ Home[c] \in Servers
      /\ h[c].pc \in ChatPcs => h[c].user \in Users /\ h[c].msg \in Msgs
      /\ h[c].pc = "oc_send" => h[c].peer \in Conns
  BY Locals DEF TypeOK, Shape
<1>1. CASE \E m \in Msgs : OneChat(c, m)
  <2> PICK m \in Msgs : OneChat(c, m)
    BY <1>1
  <2>0. PICK u \in Rcpt[m] :
        \E p \in {Entry(c, u)} \cup IF "race" \in Faults /\ Writing(c) THEN {NoConn} ELSE {} :
          h' = [h EXCEPT ![c] =
                 [Idle EXCEPT !.pc = IF p = NoConn THEN "oc_query" ELSE "oc_send",
                              !.user = u, !.msg = m, !.peer = p]]
    BY DEF OneChat
  <2>1. PICK p \in {Entry(c, u)} \cup IF "race" \in Faults /\ Writing(c) THEN {NoConn} ELSE {} :
          h' = [h EXCEPT ![c] =
                 [Idle EXCEPT !.pc = IF p = NoConn THEN "oc_query" ELSE "oc_send",
                              !.user = u, !.msg = m, !.peer = p]]
    BY <2>0
  <2>2. u \in Users /\ p \in Conns \cup {NoConn}
    BY <1>0, <2>1 DEF TypeOK, Entry
  <2>3. h' \in [Conns -> Handler] /\ HandlersOK'
    BY <2>1, <2>2, ChatStart
  <2>4. QED
    BY <1>0, <2>3
    DEF OneChat, Shape, TypeOK, mapVars, netVars, dbVars, redisVars, DbTypeOK, RedisTypeOK
<1>2. CASE ChatSend(c)
  <2>1. h' \in [Conns -> Handler] /\ HandlersOK'
    BY <1>2, FinishStep DEF ChatSend
  <2>2. Targets(c) \subseteq Conns
    BY <1>0, <1>2 DEF ChatSend, Targets, Entry, TypeOK
  <2>3. got' \in [Conns -> [Msgs -> Nat]]
    BY <1>0, <1>2, <2>2, DeliverType DEF ChatSend
  <2>4. QED
    BY <1>0, <1>2, <2>1, <2>3
    DEF ChatSend, Shape, TypeOK, mapVars, netVars, dbVars, redisVars, DbTypeOK, RedisTypeOK
<1>3. CASE ChatQuery(c)
  <2>1. PICK online \in BOOLEAN : Goto(c, IF online THEN "oc_publish" ELSE "oc_store")
    BY <1>3 DEF ChatQuery
  <2>2. h' \in [Conns -> Handler] /\ HandlersOK'
    <3>1. CASE online
      BY <1>0, <1>3, <2>1, <3>1, GotoStep DEF ChatQuery
    <3>2. CASE ~online
      BY <1>0, <1>3, <2>1, <3>2, GotoStep DEF ChatQuery
    <3>3. QED  BY <3>1, <3>2
  <2>3. QED
    BY <1>0, <1>3, <2>2
    DEF ChatQuery, Shape, TypeOK, mapVars, netVars, chatVars, dbVars, redisVars, DbTypeOK, RedisTypeOK
<1>4. CASE ChatPublish(c)
  <2>1. h' \in [Conns -> Handler] /\ HandlersOK'
    BY <1>4, FinishStep DEF ChatPublish
  <2>2. RedisTypeOK'
    BY <1>0, <1>4, PublishTypes DEF ChatPublish, TypeOK
  <2>3. QED
    BY <1>0, <1>4, <2>1, <2>2 DEF ChatPublish, Shape, TypeOK, mapVars, netVars, chatVars, dbVars, DbTypeOK
<1>5. CASE ChatStore(c)
  <2>1. h' \in [Conns -> Handler] /\ HandlersOK'
    BY <1>5, FinishStep DEF ChatStore
  <2>2. DbTypeOK'
    BY <1>0, <1>5, StoreTypes DEF ChatStore, TypeOK
  <2>3. QED
    BY <1>0, <1>5, <2>1, <2>2 DEF ChatStore, Shape, TypeOK, mapVars, netVars, redisVars, RedisTypeOK
<1>6. QED  BY <1>1, <1>2, <1>3, <1>4, <1>5 DEF Chat

LEMMA TypeGroup ==
  ASSUME Shape, NEW c \in Conns, Group(c) \/ \E m \in Msgs : GroupChat(c, m)
  PROVE  Shape'
<1> USE ServiceOK, SystemOK DEF At, Pcs, ChatPcs, LoginPcs, LogoutPcs, NeedsUser, GroupPcs
<1>0. /\ TypeOK /\ h \in [Conns -> Handler] /\ h[c] \in Handler /\ Home[c] \in Servers
      /\ h[c].pc \in GroupPcs => h[c].msg \in Msgs
      /\ h[c].pc \in {"gc_publish", "gc_store"} => h[c].user \in Users
      /\ h[c].todo \subseteq Users
  BY Locals DEF TypeOK, Shape, Handler
<1>1. CASE \E m \in Msgs : GroupChat(c, m)
  <2> PICK m \in Msgs : GroupChat(c, m)
    BY <1>1
  <2>1. PICK members \in {Rcpt[m] \ {who[c]}} \cup IF DbFault THEN {{}} ELSE {} :
          h' = [h EXCEPT ![c] = [Idle EXCEPT !.pc = "gc_lock", !.msg = m, !.todo = members]]
    BY DEF GroupChat
  <2> DEFINE x == [Idle EXCEPT !.pc = "gc_lock", !.msg = m, !.todo = members]
  <2>2. members \subseteq Users
    BY <2>1
  <2>3. x \in Handler /\ x.pc = "gc_lock" /\ x.msg = m
    BY <2>2, IdleType DEF Handler
  <2>4. WellFormed(x)
    BY <2>3 DEF WellFormed
  <2>5. h' \in [Conns -> Handler] /\ HandlersOK'
    BY <2>1, <2>3, <2>4, HandlerStep
  <2>6. QED
    BY <1>0, <2>5
    DEF GroupChat, Shape, TypeOK, mapVars, netVars, dbVars, redisVars, DbTypeOK, RedisTypeOK
<1>2. CASE GroupLock(c)
  <2>1. h' \in [Conns -> Handler] /\ HandlersOK'
    BY <1>0, <1>2, GotoStep DEF GroupLock
  <2>2. QED
    BY <1>0, <1>2, <2>1
    DEF GroupLock, Shape, TypeOK, netVars, chatVars, dbVars, redisVars, DbTypeOK, RedisTypeOK
<1>3. CASE GroupSend(c)
  <2> PICK u \in h[c].todo : /\ Entry(c, u) # NoConn
                             /\ Deliver(Entry(c, u), h[c].msg)
                             /\ h' = [h EXCEPT ![c].todo = @ \ {u}]
    BY <1>3 DEF GroupSend
  <2> DEFINE x == [h[c] EXCEPT !.todo = @ \ {u}]
  <2>1. x \in Handler /\ x.pc = h[c].pc /\ x.msg = h[c].msg
    BY <1>0 DEF Handler
  <2>2. WellFormed(x)
    BY <1>0, <1>3, <2>1 DEF WellFormed, GroupSend
  <2>3. h' = [h EXCEPT ![c] = x]
    BY <1>0
  <2>4. h' \in [Conns -> Handler] /\ HandlersOK'
    BY <2>1, <2>2, <2>3, HandlerStep
  <2>5. Entry(c, u) \in Conns
    BY <1>0 DEF TypeOK, Entry
  <2>6. got' \in [Conns -> [Msgs -> Nat]]
    BY <1>0, <1>3, <2>5, DeliverType DEF GroupSend
  <2>7. QED
    BY <1>0, <1>3, <2>4, <2>6
    DEF GroupSend, Shape, TypeOK, mapVars, netVars, dbVars, redisVars, DbTypeOK, RedisTypeOK
<1>4. CASE GroupQuery(c)
  <2> PICK u \in h[c].todo, online \in BOOLEAN :
        h' = [h EXCEPT ![c].todo = @ \ {u}, ![c].user = u,
                       ![c].pc = IF online THEN "gc_publish" ELSE "gc_store"]
    BY <1>4 DEF GroupQuery
  <2> DEFINE p == IF online THEN "gc_publish" ELSE "gc_store"
             rest == h[c].todo \ {u}
             y == [h[c] EXCEPT !.todo = rest]
             z == [y EXCEPT !.user = u]
             x == [z EXCEPT !.pc = p]
  <2>1. p \in {"gc_publish", "gc_store"}
    OBVIOUS
  <2>2. x \in Handler /\ x.pc = p /\ x.user = u /\ x.msg = h[c].msg
    <3>1. p \in Pcs /\ u \in Users /\ rest \in SUBSET Users
      BY <1>0, <2>1
    <3> HIDE DEF p, rest
    <3>2. y \in Handler /\ y.msg = h[c].msg
      BY <1>0, <3>1 DEF Handler
    <3> HIDE DEF y
    <3>3. z \in Handler /\ z.user = u /\ z.msg = y.msg
      BY <3>1, <3>2 DEF Handler
    <3> HIDE DEF z
    <3>4. x \in Handler /\ x.pc = p /\ x.user = z.user /\ x.msg = z.msg
      BY <3>1, <3>3 DEF Handler
    <3>5. QED
      BY <3>2, <3>3, <3>4
  <2>3. WellFormed(x)
    BY <1>0, <1>4, <2>1, <2>2 DEF WellFormed, GroupQuery
  <2>4. h' = [h EXCEPT ![c] = x]
    BY <1>0
  <2>5. h' \in [Conns -> Handler] /\ HandlersOK'
    BY <2>2, <2>3, <2>4, HandlerStep
  <2>6. QED
    BY <1>0, <1>4, <2>5
    DEF GroupQuery, Shape, TypeOK, mapVars, netVars, chatVars, dbVars, redisVars, DbTypeOK, RedisTypeOK
<1>5. CASE GroupPublish(c)
  <2>1. h' \in [Conns -> Handler] /\ HandlersOK'
    BY <1>0, <1>5, GotoStep DEF GroupPublish
  <2>2. RedisTypeOK'
    BY <1>0, <1>5, PublishTypes DEF GroupPublish, TypeOK
  <2>3. QED
    BY <1>0, <1>5, <2>1, <2>2 DEF GroupPublish, Shape, TypeOK, mapVars, netVars, chatVars, dbVars, DbTypeOK
<1>6. CASE GroupStore(c)
  <2>1. h' \in [Conns -> Handler] /\ HandlersOK'
    BY <1>0, <1>6, GotoStep DEF GroupStore
  <2>2. DbTypeOK'
    BY <1>0, <1>6, StoreTypes DEF GroupStore, TypeOK
  <2>3. QED
    BY <1>0, <1>6, <2>1, <2>2 DEF GroupStore, Shape, TypeOK, mapVars, netVars, chatVars, redisVars, RedisTypeOK
<1>7. CASE GroupDone(c)
  <2>1. h' \in [Conns -> Handler] /\ HandlersOK'
    BY <1>7, FinishStep DEF GroupDone
  <2>2. QED
    BY <1>0, <1>7, <2>1
    DEF GroupDone, Shape, TypeOK, netVars, chatVars, dbVars, redisVars, DbTypeOK, RedisTypeOK
<1>8. QED  BY <1>1, <1>2, <1>3, <1>4, <1>5, <1>6, <1>7 DEF Group

LEMMA TypeDie ==
  ASSUME Shape, NEW s \in Servers, NEW how \in Ends, Die(s, how)
  PROVE  Shape'
<1> USE ServiceOK, SystemOK
<1>0. TypeOK /\ h \in [Conns -> Handler]
  BY DEF Shape, TypeOK
<1> DEFINE Mine == {c \in Conns : Home[c] = s /\ conn[c] # "new"}
<1>1. h' = [c \in Conns |-> IF c \in Mine THEN Idle ELSE h[c]]
  BY DEF Die
<1>2. h' \in [Conns -> Handler]
  BY <1>0, <1>1, IdleType
<1>3. WellFormed(Idle)
  BY IdleType DEF WellFormed, NeedsUser, LoginPcs, LogoutPcs, ChatPcs, GroupPcs
<1>4. \A c \in Conns : WellFormed(h'[c])
  BY <1>1, <1>3 DEF Shape, HandlersOK
<1>5. HandlersOK'
  BY <1>4 DEF HandlersOK, WellFormed
<1>6. RedisTypeOK'
  BY <1>0, LinkTypes DEF Die, TypeOK
<1>7. who' \in [Conns -> Users \cup {NoUser}] /\ conn' \in [Conns -> {"new", "up", "gone", "down"}]
  BY <1>0 DEF Die, TypeOK
<1>8. userConnMap' \in [Servers -> [Users -> Conns \cup {NoConn}]]
  BY <1>0 DEF Die, TypeOK
<1>9. /\ up' \in [Servers -> {"running", "resetting"} \cup Ends]
      /\ connMutex' \in [Servers -> Conns \cup {Free}]
  BY <1>0 DEF Die, TypeOK
<1>10. DbTypeOK'
  BY <1>0 DEF Die, TypeOK, DbTypeOK, dbVars
<1>11. QED
  BY <1>0, <1>2, <1>5, <1>6, <1>7, <1>8, <1>9, <1>10 DEF Die, Shape, TypeOK, chatVars

LEMMA TypeServer ==
  ASSUME Shape, NEW s \in Servers, Server(s)
  PROVE  Shape'
<1> USE ServiceOK, SystemOK
<1>0. TypeOK
  BY DEF Shape
<1>1. CASE Observe(s)
  <2>1. Head(inbox[s]) \in Copy
    BY <1>0, <1>1 DEF Observe, TypeOK, RedisTypeOK
  <2>2. RedisTypeOK'
    BY <1>0, <1>1, ConsumeTypes DEF Observe, TypeOK
  <2>3. DbTypeOK' /\ got' \in [Conns -> [Msgs -> Nat]]
    <3> DEFINE u == Head(inbox[s]).to
               m == Head(inbox[s]).msg
               c == userConnMap[s][u]
    <3>1. u \in Users /\ m \in Msgs
      BY <2>1 DEF Copy
    <3>2. c \in Conns \cup {NoConn}
      BY <1>0, <3>1 DEF TypeOK
    <3>3. CASE c # NoConn /\ Deliver(c, m) /\ UNCHANGED dbVars
      BY <1>0, <3>1, <3>2, <3>3, DeliverType DEF TypeOK, dbVars, DbTypeOK
    <3>4. CASE c = NoConn /\ StoreOffline(u, m) /\ UNCHANGED got
      BY <1>0, <3>1, <3>4, StoreTypes DEF TypeOK
    <3>5. QED
      BY <1>1, <3>3, <3>4 DEF Observe
  <2>4. HandlersOK'
    BY <1>1 DEF Observe, Shape, HandlersOK, WellFormed
  <2>5. QED
    BY <1>0, <1>1, <2>2, <2>3, <2>4 DEF Observe, Shape, TypeOK, mapVars, netVars
<1>2. CASE Execute(s)
  <2>1. RedisTypeOK'
    BY <1>0, <1>2, ExecuteTypes DEF Execute, TypeOK
  <2>2. HandlersOK'
    BY <1>2 DEF Execute, Shape, HandlersOK, WellFormed
  <2>3. QED
    BY <1>0, <1>2, <2>1, <2>2 DEF Execute, Shape, TypeOK, mapVars, netVars, chatVars, dbVars, DbTypeOK
<1>3. CASE Kill(s) \/ SigintExit(s)
  BY <1>3, TypeDie DEF Kill, SigintExit, Ends
<1>4. CASE SigintReset(s)
  <2>1. DbTypeOK'
    BY <1>0, <1>4, ResetTypes DEF SigintReset, TypeOK
  <2>2. HandlersOK'
    BY <1>4 DEF SigintReset, Shape, HandlersOK, WellFormed
  <2>3. QED
    BY <1>0, <1>4, <2>1, <2>2
    DEF SigintReset, Shape, TypeOK, mapVars, netVars, chatVars, redisVars, RedisTypeOK
<1>5. CASE Restart(s)
  <2>1. RedisTypeOK'
    BY <1>0, <1>5, LinkTypes DEF Restart, TypeOK
  <2>2. HandlersOK'
    BY <1>5 DEF Restart, Shape, HandlersOK, WellFormed
  <2>3. QED
    BY <1>0, <1>5, <2>1, <2>2
    DEF Restart, Shape, TypeOK, mapVars, netVars, chatVars, dbVars, DbTypeOK
<1>6. CASE BreakLink(s)
  <2>1. RedisTypeOK'
    BY <1>0, <1>6, LinkTypes DEF BreakLink, TypeOK
  <2>2. HandlersOK'
    BY <1>6 DEF BreakLink, Shape, HandlersOK, WellFormed
  <2>3. QED
    BY <1>0, <1>6, <2>1, <2>2
    DEF BreakLink, Shape, TypeOK, mapVars, netVars, chatVars, dbVars, DbTypeOK
<1>7. QED  BY <1>1, <1>2, <1>3, <1>4, <1>5, <1>6 DEF Server

LEMMA TypeNext == Shape /\ [Next]_vars => Shape'
<1> SUFFICES ASSUME Shape, [Next]_vars PROVE Shape'
  OBVIOUS
<1>1. CASE \E c \in Conns : Requests(c) \/ Steps(c)
  <2> PICK c \in Conns : Requests(c) \/ Steps(c)
    BY <1>1
  <2>1. CASE NullRow(c) \/ RaceCrash(c)
    BY <2>1, TypeDie, ServiceOK DEF NullRow, RaceCrash, Ends
  <2>2. CASE ~(NullRow(c) \/ RaceCrash(c))
    BY <2>2, TypeLogin, TypeLogout, TypeClose, TypeChat, TypeGroup DEF Requests, Steps
  <2>3. QED  BY <2>1, <2>2
<1>2. CASE \E s \in Servers : Server(s)
  BY <1>2, TypeServer
<1>3. CASE UNCHANGED vars
  BY <1>3 DEF vars, Shape, TypeOK, HandlersOK, WellFormed, mapVars, netVars, chatVars,
              dbVars, redisVars, DbTypeOK, RedisTypeOK
<1>4. QED  BY <1>1, <1>2, <1>3 DEF Next

THEOREM TypeCorrect == Spec => []TypeOK
<1>1. Init => Shape
  <2>1. WellFormed(Idle)
    BY IdleType DEF WellFormed, NeedsUser, LoginPcs, LogoutPcs, ChatPcs, GroupPcs
  <2>2. Init => HandlersOK
    BY <2>1 DEF Init, HandlersOK
  <2>3. QED
    BY <2>2, TypeInit DEF Shape
<1>2. Shape => TypeOK
  BY DEF Shape
<1>3. QED
  BY <1>1, <1>2, TypeNext, PTL DEF Spec

-----------------------------------------------------------------------------
(*                      the connection map                                 *)

LEMMA SessionsInit == Init => SessionsOK /\ SessionMapSound
<1> SUFFICES ASSUME Init PROVE SessionsOK /\ SessionMapSound
  OBVIOUS
<1> USE ServiceOK, SystemOK DEF Init, Alive
<1>1. \A c \in Conns : h[c].pc = "idle"
  BY IdleType
<1>2. SessionsOK
  BY <1>1 DEF SessionsOK, LoginPcs, LogoutPcs
<1>3. ASSUME NEW s \in Servers, NEW u \in Users, userConnMap[s][u] # NoConn
      PROVE  LET c == userConnMap[s][u] IN
             Home[c] = s /\ Alive(s) /\ conn[c] \in {"up", "gone"} /\ Carries(c, u)
  <2>1. PICK c \in Conns : Home[c] = s /\ Pre[c] = u /\ userConnMap[s][u] = c
    BY <1>3
  <2>2. conn[c] = "up" /\ who[c] = u
    BY <2>1
  <2>3. QED
    BY <2>1, <2>2 DEF Carries
<1>4. QED
  BY <1>2, <1>3 DEF SessionMapSound

(* A step of one handler that leaves the map, the connections and their     *)
(* sessions alone, and under which its connection belongs to whom it did.   *)
LEMMA KeepSessions ==
  ASSUME IInv, NEW c \in Conns, UNCHANGED <<up, userConnMap, conn, who>>,
         \A d \in Conns : d # c => h'[d] = h[d],
         h'[c].pc \in LoginPcs \cup LogoutPcs => who[c] = NoUser,
         h'[c].pc \notin {"idle"} \cup ClosePcs => conn[c] \in {"up", "gone"},
         \A u \in Users : Carries(c, u) => Carries(c, u)'
  PROVE  SessionsOK' /\ SessionMapSound'
<1>1. SessionsOK'
  BY DEF IInv, SessionsOK, Alive
<1>2. \A d \in Conns, u \in Users : Carries(d, u) => Carries(d, u)'
  BY DEF Carries
<1>3. userConnMap \in [Servers -> [Users -> Conns \cup {NoConn}]]
  BY DEF IInv, TypeOK
<1>4. SessionMapSound'
  BY <1>2, <1>3 DEF IInv, SessionMapSound, Alive
<1>5. QED  BY <1>1, <1>4

(* SessionMapSound, said of a given connection. *)
LEMMA MapUse ==
  ASSUME IInv, NEW s \in Servers, NEW u \in Users, NEW c \in Conns, userConnMap[s][u] = c
  PROVE  Home[c] = s /\ Alive(s) /\ conn[c] \in {"up", "gone"} /\ Carries(c, u)
BY ServiceOK DEF IInv, SessionMapSound

LEMMA MapIntro ==
  ASSUME TypeOK',
         \A s \in Servers, u \in Users, c \in Conns : userConnMap'[s][u] = c =>
           /\ Home[c] = s /\ Alive(s)' /\ conn'[c] \in {"up", "gone"}
           /\ Carries(c, u)'
  PROVE  SessionMapSound'
<1> SUFFICES ASSUME NEW s \in Servers, NEW u \in Users, userConnMap'[s][u] # NoConn
             PROVE  (LET c == userConnMap[s][u] IN
                     Home[c] = s /\ Alive(s) /\ conn[c] \in {"up", "gone"} /\ Carries(c, u))'
  BY DEF SessionMapSound
<1>1. PICK c \in Conns : userConnMap'[s][u] = c
  BY DEF TypeOK
<1>2. QED
  BY <1>1 DEF Carries

LEMMA GotoFields ==
  ASSUME TypeOK, NEW c \in Conns, NEW p, Goto(c, p)
  PROVE  /\ h'[c].pc = p /\ h'[c].user = h[c].user
         /\ \A d \in Conns : d # c => h'[d] = h[d]
<1>1. h \in [Conns -> Handler]
  BY DEF TypeOK
<1>2. h' = [h EXCEPT ![c] = [h[c] EXCEPT !.pc = p]] /\ h[c] \in Handler
  BY <1>1 DEF Goto
<1>3. QED
  BY <1>1, <1>2 DEF Handler

LEMMA FinishFields ==
  ASSUME TypeOK, NEW c \in Conns, Finish(c)
  PROVE  /\ h'[c].pc = "idle" /\ h'[c].user = NoUser
         /\ \A d \in Conns : d # c => h'[d] = h[d]
<1>1. h \in [Conns -> Handler]
  BY DEF TypeOK
<1>2. QED
  BY <1>1, IdleType DEF Finish

(* A handler that goes on or returns, and touches nothing a session is made *)
(* of, keeps the sessions if its connection does not leave EnteredPcs.      *)
LEMMA GotoSessions ==
  ASSUME IInv, NEW c \in Conns, NEW p, Goto(c, p),
         UNCHANGED <<up, userConnMap, conn, who>>,
         h[c].pc \notin {"idle"} \cup ClosePcs,
         p \in LoginPcs \cup LogoutPcs => h[c].pc \in LoginPcs \cup LogoutPcs,
         h[c].pc \in EnteredPcs => p \in EnteredPcs
  PROVE  SessionsOK' /\ SessionMapSound'
<1>1. h'[c].pc = p /\ h'[c].user = h[c].user /\ \A d \in Conns : d # c => h'[d] = h[d]
  BY GotoFields DEF IInv
<1>2. \A u \in Users : Carries(c, u) => Carries(c, u)'
  BY <1>1 DEF Carries
<1>3. QED
  BY <1>1, <1>2, KeepSessions DEF IInv, SessionsOK

LEMMA FinishSessions ==
  ASSUME IInv, NEW c \in Conns, Finish(c), UNCHANGED <<up, userConnMap, conn, who>>,
         h[c].pc \notin EnteredPcs
  PROVE  SessionsOK' /\ SessionMapSound'
<1>1. h'[c].pc = "idle" /\ \A d \in Conns : d # c => h'[d] = h[d]
  BY FinishFields DEF IInv
<1>2. \A u \in Users : Carries(c, u) => Carries(c, u)'
  BY <1>1 DEF Carries
<1>3. QED
  BY <1>1, <1>2, KeepSessions DEF LoginPcs, LogoutPcs

LEMMA SessionsLogin ==
  ASSUME IInv, NEW c \in Conns, Login(c) \/ \E u \in Users : LoginQuery(c, u)
  PROVE  SessionsOK' /\ SessionMapSound'
<1> USE ServiceOK, SystemOK DEF At, EnteredPcs, LoginPcs, LogoutPcs, ClosePcs
<1>0. /\ TypeOK /\ Home[c] \in Servers /\ h \in [Conns -> Handler]
      /\ userConnMap \in [Servers -> [Users -> Conns \cup {NoConn}]]
      /\ conn \in [Conns -> {"new", "up", "gone", "down"}]
      /\ who \in [Conns -> Users \cup {NoUser}]
      /\ h[c].pc \in LoginPcs =>
           h[c].user \in Users /\ who[c] = NoUser /\ conn[c] \in {"up", "gone"} /\ Alive(Home[c])
  BY DEF IInv, TypeOK, HandlersOK, WellFormed, NeedsUser, SessionsOK
<1>1. CASE \E u \in Users : LoginQuery(c, u)
  <2> PICK u \in Users : LoginQuery(c, u)
    BY <1>1
  <2> DEFINE x == [Idle EXCEPT !.pc = "li_insert", !.user = u]
  <2>1. x.pc = "li_insert" /\ h' = [h EXCEPT ![c] = x]
    BY StartType DEF LoginQuery, Pcs
  <2>2. h'[c].pc = "li_insert" /\ \A d \in Conns : d # c => h'[d] = h[d]
    BY <1>0, <2>1
  <2>3. who[c] = NoUser /\ Alive(Home[c]) /\ (h[c].pc = "idle" \/ conn[c] = "new")
    BY <1>0 DEF LoginQuery, CanLogin, Ready, IInv, SessionsOK, Alive
  <2>4. conn' = [conn EXCEPT ![c] = "up"] /\ UNCHANGED <<up, userConnMap, who>>
    BY DEF LoginQuery, mapVars
  <2>5. SessionsOK'
    BY <1>0, <2>2, <2>3, <2>4 DEF IInv, SessionsOK, Alive
  <2>6. \A s \in Servers, v \in Users : userConnMap[s][v] # c
    <3> SUFFICES ASSUME NEW s \in Servers, NEW v \in Users, userConnMap[s][v] = c PROVE FALSE
      OBVIOUS
    <3>1. conn[c] \in {"up", "gone"} /\ Carries(c, v)
      BY DEF IInv, SessionMapSound
    <3>2. QED
      BY <2>3, <3>1 DEF Carries
  <2>7. SessionMapSound'
    BY <1>0, <2>2, <2>4, <2>6 DEF IInv, SessionMapSound, Carries, Alive
  <2>8. QED  BY <2>5, <2>7
<1>2. CASE LoginInsert(c)
  <2>1. h'[c].pc = "li_subscribe" /\ h'[c].user = h[c].user /\ \A d \in Conns : d # c => h'[d] = h[d]
    BY <1>0, <1>2, GotoFields DEF LoginInsert
  <2>2. UNCHANGED <<up, conn, who>>
    BY <1>2 DEF LoginInsert, netVars
  <2>3. SessionsOK'
    BY <1>0, <1>2, <2>1, <2>2 DEF LoginInsert, IInv, SessionsOK, Alive
  <2>4. \A s \in Servers, v \in Users :
          userConnMap'[s][v] = userConnMap[s][v]
          \/ (s = Home[c] /\ v = h[c].user /\ userConnMap'[s][v] = c)
    BY <1>0, <1>2 DEF LoginInsert
  <2>5. \A d \in Conns, v \in Users : Carries(d, v) => Carries(d, v)'
    BY <1>0, <1>2, <2>1, <2>2 DEF Carries, LoginInsert
  <2>6. \A v \in Users : v = h[c].user => Carries(c, v)'
    BY <1>0, <1>2, <2>1 DEF Carries, LoginInsert
  <2>7. SessionMapSound'
    <3> SUFFICES ASSUME NEW s \in Servers, NEW v \in Users, NEW d \in Conns,
                        userConnMap'[s][v] = d
                 PROVE  Home[d] = s /\ Alive(s)' /\ conn'[d] \in {"up", "gone"} /\ Carries(d, v)'
      BY <1>0, MapIntro, TypeLogin DEF IInv, Shape
    <3>1. CASE userConnMap[s][v] = d
      <4>1. Home[d] = s /\ Alive(s) /\ conn[d] \in {"up", "gone"} /\ Carries(d, v)
        BY <3>1, MapUse
      <4>2. Carries(d, v)'
        BY <2>5, <4>1
      <4>3. QED
        BY <2>2, <4>1, <4>2 DEF Alive
    <3>2. CASE s = Home[c] /\ v = h[c].user /\ d = c
      <4>1. Alive(Home[c]) /\ conn[c] \in {"up", "gone"}
        BY <1>0, <1>2 DEF LoginInsert
      <4>2. Carries(c, v)'
        BY <2>6, <3>2
      <4>3. QED
        BY <2>2, <3>2, <4>1, <4>2 DEF Alive
    <3>3. QED  BY <2>4, <3>1, <3>2
  <2>8. QED  BY <2>3, <2>7
<1>3. CASE LoginSubscribe(c)
  <2>1. UNCHANGED <<up, userConnMap, conn, who>> /\ Goto(c, "li_online") /\ h[c].pc \in EnteredPcs
    BY <1>3 DEF LoginSubscribe, mapVars, netVars
  <2>2. QED
    BY <1>3, <2>1, GotoSessions DEF LoginSubscribe
<1>4. CASE LoginOnline(c)
  <2>1. UNCHANGED <<up, userConnMap, conn, who>> /\ Goto(c, "li_offmsg") /\ h[c].pc \in EnteredPcs
    BY <1>4 DEF LoginOnline, mapVars, netVars
  <2>2. QED
    BY <1>4, <2>1, GotoSessions DEF LoginOnline
<1>5. CASE LoginOffline(c)
  <2> PICK rows \in {offlineMessage[h[c].user], NoRows} :
        h' = [h EXCEPT ![c].rows = rows,
                       ![c].pc = IF rows = NoRows THEN "li_ack" ELSE "li_remove"]
    BY <1>5 DEF LoginOffline
  <2>1. /\ h'[c].pc \in {"li_ack", "li_remove"} /\ h'[c].user = h[c].user
        /\ \A d \in Conns : d # c => h'[d] = h[d]
    BY <1>0 DEF Handler
  <2>2. QED
    BY <1>0, <1>5, <2>1, KeepSessions DEF LoginOffline, mapVars, netVars, Carries
<1>6. CASE LoginRemove(c)
  <2>1. UNCHANGED <<up, userConnMap, conn, who>> /\ Goto(c, "li_ack") /\ h[c].pc \in EnteredPcs
    BY <1>6 DEF LoginRemove, mapVars, netVars
  <2>2. QED
    BY <1>6, <2>1, GotoSessions DEF LoginRemove
<1>7. CASE LoginAck(c)
  <2>1. h'[c].pc = "idle" /\ \A d \in Conns : d # c => h'[d] = h[d]
    BY <1>0, <1>7, FinishFields DEF LoginAck
  <2>2. who' = [who EXCEPT ![c] = h[c].user] /\ UNCHANGED <<up, userConnMap, conn>>
    BY <1>7 DEF LoginAck, mapVars
  <2>3. SessionsOK'
    BY <1>0, <1>7, <2>1, <2>2 DEF LoginAck, IInv, SessionsOK, Alive
  <2>4. \A d \in Conns, v \in Users : Carries(d, v) => Carries(d, v)'
    BY <1>0, <1>7, <2>1, <2>2 DEF Carries, LoginAck
  <2>5. SessionMapSound'
    BY <1>0, <2>2, <2>4 DEF IInv, SessionMapSound, Alive
  <2>6. QED  BY <2>3, <2>5
<1>8. QED  BY <1>1, <1>2, <1>3, <1>4, <1>5, <1>6, <1>7 DEF Login

LEMMA SessionsLogout ==
  ASSUME IInv, NEW c \in Conns, Logout(c) \/ LogoutRequest(c) \/ Vanish(c)
  PROVE  SessionsOK' /\ SessionMapSound'
<1> USE ServiceOK, SystemOK DEF At, EnteredPcs, LoginPcs, LogoutPcs, ClosePcs
<1>0. /\ TypeOK /\ Home[c] \in Servers /\ h \in [Conns -> Handler]
      /\ userConnMap \in [Servers -> [Users -> Conns \cup {NoConn}]]
      /\ conn \in [Conns -> {"new", "up", "gone", "down"}]
      /\ who \in [Conns -> Users \cup {NoUser}]
      /\ h[c].pc \in LogoutPcs => h[c].user \in Users /\ who[c] = NoUser
  BY DEF IInv, TypeOK, HandlersOK, WellFormed, NeedsUser, SessionsOK
<1>1. CASE LogoutRequest(c)
  <2>1. PICK u \in Users : u = who[c]
    BY <1>0, <1>1 DEF LogoutRequest
  <2> DEFINE x == [Idle EXCEPT !.pc = "lo_lock", !.user = u]
  <2>2. /\ x.pc = "lo_lock" /\ x.user = u
        /\ h' = [h EXCEPT ![c] = x]
    <3>1. h' = [h EXCEPT ![c] = x]
      BY <1>1, <2>1 DEF LogoutRequest
    <3>2. x.pc = "lo_lock" /\ x.user = u
      BY DEF Idle
    <3>3. QED  BY <3>1, <3>2
  <2>3. h'[c].pc = "lo_lock" /\ h'[c].user = u /\ \A d \in Conns : d # c => h'[d] = h[d]
    BY <1>0, <2>2
  <2>4. who' = [who EXCEPT ![c] = NoUser] /\ UNCHANGED <<up, userConnMap, conn>>
    BY <1>1 DEF LogoutRequest, mapVars
  <2>5. SessionsOK'
    BY <1>0, <1>1, <2>3, <2>4 DEF LogoutRequest, Ready, IInv, SessionsOK, Alive
  <2>6. \A d \in Conns, v \in Users : Carries(d, v) => Carries(d, v)'
    BY <1>0, <1>1, <2>1, <2>3, <2>4 DEF Carries, LogoutRequest, Ready
  <2>7. SessionMapSound'
    BY <1>0, <2>4, <2>6 DEF IInv, SessionMapSound, Alive
  <2>8. QED  BY <2>5, <2>7
<1>2. CASE LogoutUpdate(c)
  <2>1. UNCHANGED <<up, userConnMap, conn, who>> /\ Goto(c, "lo_erase")
    BY <1>2 DEF LogoutUpdate, netVars
  <2>2. QED
    BY <1>2, <2>1, GotoSessions DEF LogoutUpdate
<1>3. CASE LogoutFail(c)
  <2>1. h'[c].pc = "idle" /\ \A d \in Conns : d # c => h'[d] = h[d]
    BY <1>0, <1>3, FinishFields DEF LogoutFail
  <2>2. UNCHANGED <<up, userConnMap, conn, who>>
    BY <1>3 DEF LogoutFail, mapVars, netVars
  <2>3. SessionsOK'
    BY <2>1, <2>2 DEF IInv, SessionsOK, Alive
  <2>4. SessionMapSound'
    <3> SUFFICES ASSUME NEW s \in Servers, NEW v \in Users, NEW d \in Conns,
                        userConnMap'[s][v] = d
                 PROVE  Home[d] = s /\ Alive(s)' /\ conn'[d] \in {"up", "gone"} /\ Carries(d, v)'
      BY <1>0, MapIntro, TypeLogout DEF IInv, Shape
    <3>1. Home[d] = s /\ Alive(s) /\ conn[d] \in {"up", "gone"} /\ Carries(d, v)
      BY <2>2, MapUse
    <3>2. d = c => v # h[c].user
      BY <1>3, <2>2, <3>1 DEF LogoutFail, Entry
    <3>3. Carries(d, v)'
      BY <1>0, <1>3, <2>1, <2>2, <3>1, <3>2 DEF Carries, LogoutFail
    <3>4. QED
      BY <2>2, <3>1, <3>3 DEF Alive
  <2>5. QED  BY <2>3, <2>4
<1>4. CASE LogoutErase(c)
  <2>1. /\ h'[c].pc = "lo_unsub" /\ h'[c].user = h[c].user
        /\ \A d \in Conns : d # c => h'[d] = h[d]
    BY <1>0, <1>4, GotoFields DEF LogoutErase
  <2>2. UNCHANGED <<up, conn, who>>
    BY <1>4 DEF LogoutErase, netVars
  <2>3. SessionsOK'
    BY <1>0, <1>4, <2>1, <2>2 DEF LogoutErase, IInv, SessionsOK, Alive
  <2>4. \A s \in Servers, v \in Users, d \in Conns : userConnMap'[s][v] = d =>
          userConnMap[s][v] = d /\ ~(s = Home[c] /\ v = h[c].user)
    BY <1>0, <1>4 DEF LogoutErase
  <2>5. SessionMapSound'
    <3> SUFFICES ASSUME NEW s \in Servers, NEW v \in Users, NEW d \in Conns,
                        userConnMap'[s][v] = d
                 PROVE  Home[d] = s /\ Alive(s)' /\ conn'[d] \in {"up", "gone"} /\ Carries(d, v)'
      BY <1>0, <1>4, MapIntro, TypeLogout DEF IInv, Shape
    <3>1. Home[d] = s /\ Alive(s) /\ conn[d] \in {"up", "gone"} /\ Carries(d, v)
      BY <2>4, MapUse
    <3>2. d = c => v # h[c].user
      BY <2>4, <3>1
    <3>3. Carries(d, v)'
      BY <1>0, <1>4, <2>1, <2>2, <3>1, <3>2 DEF Carries, LogoutErase
    <3>4. QED
      BY <2>2, <3>1, <3>3 DEF Alive
  <2>6. QED  BY <2>3, <2>5
<1>5. CASE LogoutUnsubscribe(c)
  <2>1. UNCHANGED <<up, userConnMap, conn, who>> /\ Finish(c)
    BY <1>5 DEF LogoutUnsubscribe, netVars
  <2>2. QED
    BY <1>5, <2>1, FinishSessions DEF LogoutUnsubscribe
<1>6. CASE Vanish(c)
  <2>1. conn' = [conn EXCEPT ![c] = "gone"] /\ conn[c] = "up"
    BY <1>6 DEF Vanish
  <2>2. UNCHANGED <<up, userConnMap, h, who>>
    BY <1>6 DEF Vanish, mapVars
  <2>3. SessionsOK'
    BY <1>0, <2>1, <2>2 DEF IInv, SessionsOK, Alive
  <2>4. SessionMapSound'
    BY <1>0, <2>1, <2>2 DEF IInv, SessionMapSound, Carries, Alive
  <2>5. QED  BY <2>3, <2>4
<1>7. QED  BY <1>1, <1>2, <1>3, <1>4, <1>5, <1>6 DEF Logout

LEMMA SessionsClose ==
  ASSUME IInv, NEW c \in Conns, Close(c)
  PROVE  SessionsOK' /\ SessionMapSound'
<1> USE ServiceOK, SystemOK DEF At, EnteredPcs, LoginPcs, LogoutPcs, ClosePcs
<1>0. /\ TypeOK /\ Home[c] \in Servers /\ h \in [Conns -> Handler]
      /\ userConnMap \in [Servers -> [Users -> Conns \cup {NoConn}]]
      /\ conn \in [Conns -> {"new", "up", "gone", "down"}]
      /\ who \in [Conns -> Users \cup {NoUser}]
  BY DEF IInv, TypeOK
<1>1. CASE CloseErase(c)
  <2> DEFINE s == Home[c]
             mine == {u \in Users : userConnMap[s][u] = c}
  <2>1. PICK w \in IF mine = {} THEN {NoUser} ELSE mine :
          /\ userConnMap' = [userConnMap EXCEPT ![s] =
                               [v \in Users |-> IF v = w THEN NoConn ELSE userConnMap[s][v]]]
          /\ h' = [h EXCEPT ![c] = [Idle EXCEPT !.pc = "cl_unsub", !.user = w]]
    BY <1>1 DEF CloseErase
  <2>2. /\ conn[c] = "gone" /\ h[c].pc = "idle"
        /\ conn' = [conn EXCEPT ![c] = "down"] /\ who' = [who EXCEPT ![c] = NoUser]
        /\ UNCHANGED up
    BY <1>1 DEF CloseErase
  <2> DEFINE x == [Idle EXCEPT !.pc = "cl_unsub", !.user = w]
  <2>3. x.pc = "cl_unsub"
    BY DEF Idle
  <2>4. h'[c].pc = "cl_unsub" /\ \A d \in Conns : d # c => h'[d] = h[d]
    BY <1>0, <2>1, <2>3
  <2>5. SessionsOK'
    BY <1>0, <2>2, <2>4 DEF IInv, SessionsOK, Alive
  <2>6. \A r \in Servers, v \in Users, d \in Conns : userConnMap'[r][v] = d =>
          userConnMap[r][v] = d /\ ~(r = s /\ v = w)
    BY <1>0, <2>1
  <2>7. ASSUME NEW r \in Servers, NEW v \in Users, userConnMap'[r][v] = c
        PROVE  FALSE
    (* The connection carries one session only, whose entry the scan found. *)
    <3>1. userConnMap[r][v] = c /\ ~(r = s /\ v = w)
      BY <2>6, <2>7
    <3>2. r = s /\ who[c] = v
      BY <2>2, <3>1, MapUse DEF Carries
    <3>3. w \in mine
      BY <2>1, <3>1, <3>2
    <3>4. userConnMap[s][w] = c /\ w \in Users
      BY <3>3
    <3>5. who[c] = w
      <4>1. Carries(c, w)
        BY <1>0, <3>4, MapUse
      <4>2. QED
        BY <2>2, <4>1 DEF Carries
    <3>6. QED  BY <3>1, <3>2, <3>5
  <2>8. SessionMapSound'
    <3> SUFFICES ASSUME NEW r \in Servers, NEW v \in Users, NEW d \in Conns,
                        userConnMap'[r][v] = d
                 PROVE  Home[d] = r /\ Alive(r)' /\ conn'[d] \in {"up", "gone"} /\ Carries(d, v)'
      BY <1>0, <1>1, MapIntro, TypeClose DEF IInv, Shape
    <3>1. d # c
      BY <2>7
    <3>2. Home[d] = r /\ Alive(r) /\ conn[d] \in {"up", "gone"} /\ Carries(d, v)
      BY <2>6, MapUse
    <3>3. QED
      BY <1>0, <2>2, <2>4, <3>1, <3>2 DEF Alive, Carries
  <2>9. QED  BY <2>5, <2>8
<1>2. CASE CloseUnsubscribe(c)
  <2>1. UNCHANGED <<up, userConnMap, conn, who>> /\ h[c].pc = "cl_unsub"
    BY <1>2 DEF CloseUnsubscribe, mapVars, netVars
  <2>2. CASE h[c].user = NoUser
    BY <1>2, <2>1, <2>2, FinishSessions DEF CloseUnsubscribe
  <2>3. CASE h[c].user # NoUser
    <3>1. Goto(c, "cl_update")
      BY <1>2, <2>3 DEF CloseUnsubscribe
    <3>2. h'[c].pc = "cl_update" /\ h'[c].user = h[c].user /\ \A d \in Conns : d # c => h'[d] = h[d]
      BY <1>0, <3>1, GotoFields
    <3>3. \A u \in Users : Carries(c, u) => Carries(c, u)'
      BY <2>1, <3>2 DEF Carries
    <3>4. QED
      BY <2>1, <3>2, <3>3, KeepSessions
  <2>4. QED  BY <2>2, <2>3
<1>3. CASE CloseUpdate(c)
  <2>1. UNCHANGED <<up, userConnMap, conn, who>> /\ Finish(c) /\ h[c].pc = "cl_update"
    BY <1>3 DEF CloseUpdate, mapVars, netVars
  <2>2. QED
    BY <2>1, FinishSessions
<1>4. QED  BY <1>1, <1>2, <1>3 DEF Close

LEMMA SessionsChat ==
  ASSUME IInv, NEW c \in Conns, Chat(c) \/ \E m \in Msgs : OneChat(c, m) \/ GroupChat(c, m)
  PROVE  SessionsOK' /\ SessionMapSound'
<1> USE ServiceOK, SystemOK DEF At, EnteredPcs, LoginPcs, LogoutPcs, ClosePcs
<1>0. TypeOK /\ h \in [Conns -> Handler]
  BY DEF IInv, TypeOK
<1>1. CASE \E m \in Msgs : OneChat(c, m) \/ GroupChat(c, m)
  <2>1. Ready(c) /\ UNCHANGED <<up, userConnMap, conn, who>>
    BY <1>1 DEF OneChat, GroupChat, CanSend, mapVars, netVars
  <2>2. PICK x : h' = [h EXCEPT ![c] = x] /\ x.pc \in {"oc_query", "oc_send", "gc_lock"}
    <3>1. PICK m \in Msgs : OneChat(c, m) \/ GroupChat(c, m)
      BY <1>1
    <3>2. CASE OneChat(c, m)
      <4>1. PICK u, p : h' = [h EXCEPT ![c] =
              [Idle EXCEPT !.pc = IF p = NoConn THEN "oc_query" ELSE "oc_send",
                           !.user = u, !.msg = m, !.peer = p]]
        BY <3>2 DEF OneChat
      <4> DEFINE x == [Idle EXCEPT !.pc = IF p = NoConn THEN "oc_query" ELSE "oc_send",
                                   !.user = u, !.msg = m, !.peer = p]
      <4>2. x.pc \in {"oc_query", "oc_send"}
        BY DEF Idle
      <4>3. QED  BY <4>1, <4>2
    <3>3. CASE GroupChat(c, m)
      <4>1. PICK g : h' = [h EXCEPT ![c] = [Idle EXCEPT !.pc = "gc_lock", !.msg = m, !.todo = g]]
        BY <3>3 DEF GroupChat
      <4>2. [Idle EXCEPT !.pc = "gc_lock", !.msg = m, !.todo = g].pc = "gc_lock"
        BY DEF Idle
      <4>3. QED  BY <4>1, <4>2
    <3>4. QED  BY <3>1, <3>2, <3>3
  <2>3. h'[c].pc \in {"oc_query", "oc_send", "gc_lock"} /\ \A d \in Conns : d # c => h'[d] = h[d]
    BY <1>0, <2>2
  <2>4. \A u \in Users : Carries(c, u) => Carries(c, u)'
    BY <2>1, <2>3 DEF Carries, Ready
  <2>5. QED
    BY <2>1, <2>3, <2>4, KeepSessions, SMTT(30) DEF Ready
<1>2. CASE ChatQuery(c)
  <2>1. PICK p \in {"oc_publish", "oc_store"} : Goto(c, p)
    BY <1>2 DEF ChatQuery
  <2>2. UNCHANGED <<up, userConnMap, conn, who>> /\ h[c].pc = "oc_query"
    BY <1>2 DEF ChatQuery, mapVars, netVars
  <2>3. QED
    BY <2>1, <2>2, GotoSessions
<1>3. CASE ChatSend(c) \/ ChatPublish(c) \/ ChatStore(c)
  <2>1. /\ UNCHANGED <<up, userConnMap, conn, who>> /\ Finish(c)
        /\ h[c].pc \in {"oc_send", "oc_publish", "oc_store"}
    BY <1>3 DEF ChatSend, ChatPublish, ChatStore, mapVars, netVars
  <2>2. QED
    BY <2>1, FinishSessions
<1>4. QED  BY <1>1, <1>2, <1>3 DEF Chat

LEMMA SessionsGroup ==
  ASSUME IInv, NEW c \in Conns, Group(c)
  PROVE  SessionsOK' /\ SessionMapSound'
<1> USE DEF At, EnteredPcs, LoginPcs, LogoutPcs, ClosePcs
<1>0. TypeOK /\ h \in [Conns -> Handler]
  BY DEF IInv, TypeOK
<1>1. CASE GroupLock(c) \/ GroupPublish(c) \/ GroupStore(c)
  <2>1. /\ UNCHANGED <<up, userConnMap, conn, who>> /\ Goto(c, "gc_next")
        /\ h[c].pc \in {"gc_lock", "gc_publish", "gc_store"}
    BY <1>1 DEF GroupLock, GroupPublish, GroupStore, mapVars, netVars
  <2>2. QED
    BY <2>1, GotoSessions
<1>2. CASE GroupSend(c) \/ GroupQuery(c)
  <2>1. UNCHANGED <<up, userConnMap, conn, who>> /\ h[c].pc = "gc_next"
    BY <1>2 DEF GroupSend, GroupQuery, mapVars, netVars
  <2>2. /\ h'[c].pc \in {"gc_next", "gc_publish", "gc_store"}
        /\ \A d \in Conns : d # c => h'[d] = h[d]
    <3>1. CASE GroupSend(c)
      <4>1. PICK u : h' = [h EXCEPT ![c].todo = @ \ {u}]
        BY <3>1 DEF GroupSend
      <4>2. QED
        BY <1>0, <2>1, <4>1 DEF Handler
    <3>2. CASE GroupQuery(c)
      <4>1. PICK u, p : /\ p \in {"gc_publish", "gc_store"}
                       /\ h' = [h EXCEPT ![c].todo = @ \ {u}, ![c].user = u, ![c].pc = p]
        BY <3>2 DEF GroupQuery
      <4>2. QED
        BY <1>0, <4>1 DEF Handler
    <3>3. QED  BY <1>2, <3>1, <3>2
  <2>3. \A u \in Users : Carries(c, u) => Carries(c, u)'
    BY <2>1, <2>2 DEF Carries
  <2>4. QED
    BY <2>1, <2>2, <2>3, KeepSessions, SMTT(30) DEF IInv, SessionsOK
<1>3. CASE GroupDone(c)
  <2>1. UNCHANGED <<up, userConnMap, conn, who>> /\ Finish(c) /\ h[c].pc = "gc_next"
    BY <1>3 DEF GroupDone, netVars
  <2>2. QED
    BY <2>1, FinishSessions
<1>4. QED  BY <1>1, <1>2, <1>3 DEF Group

LEMMA SessionsDie ==
  ASSUME IInv, NEW s \in Servers, NEW how \in Ends, Die(s, how)
  PROVE  SessionsOK' /\ SessionMapSound'
<1> USE ServiceOK, SystemOK
<1> DEFINE Mine == {c \in Conns : Home[c] = s /\ conn[c] # "new"}
<1>0. TypeOK
  BY DEF IInv
<1>1. /\ conn' = [c \in Conns |-> IF c \in Mine THEN "down" ELSE conn[c]]
      /\ who'  = [c \in Conns |-> IF c \in Mine THEN NoUser ELSE who[c]]
      /\ h'    = [c \in Conns |-> IF c \in Mine THEN Idle ELSE h[c]]
      /\ userConnMap' = [userConnMap EXCEPT ![s] = [u \in Users |-> NoConn]]
      /\ \A r \in Servers : r # s => up'[r] = up[r]
  BY <1>0 DEF Die, TypeOK
<1>2. ASSUME NEW c \in Conns
      PROVE  /\ h'[c].pc \in LoginPcs \cup LogoutPcs => who'[c] = NoUser
             /\ h'[c].pc \notin {"idle"} \cup ClosePcs => conn'[c] \in {"up", "gone"}
             /\ IF conn'[c] \in {"up", "gone"} THEN Alive(Home[c])' ELSE who'[c] = NoUser
  <2>1. CASE c \in Mine
    BY <1>1, <2>1, IdleType DEF LoginPcs, LogoutPcs
  <2>2. CASE c \notin Mine
    <3>1. conn'[c] = conn[c] /\ who'[c] = who[c] /\ h'[c] = h[c]
      BY <1>1, <2>2
    <3>2. conn[c] = "new" \/ (Home[c] \in Servers /\ up'[Home[c]] = up[Home[c]])
      BY <1>1, <2>2
    <3>3. QED
      BY <3>1, <3>2 DEF IInv, SessionsOK, Alive
  <2>3. QED  BY <2>1, <2>2
<1>3. SessionsOK'
  BY <1>2 DEF SessionsOK
<1>4. ASSUME NEW r \in Servers, NEW v \in Users, NEW d \in Conns, userConnMap'[r][v] = d
      PROVE  Home[d] = r /\ Alive(r)' /\ conn'[d] \in {"up", "gone"} /\ Carries(d, v)'
  <2>1. r # s /\ userConnMap[r][v] = d
    BY <1>0, <1>1, <1>4 DEF TypeOK
  <2>2. Home[d] = r /\ Alive(r) /\ conn[d] \in {"up", "gone"} /\ Carries(d, v)
    BY <2>1, MapUse
  <2>3. d \notin Mine
    BY <2>1, <2>2
  <2>4. QED
    BY <1>1, <2>1, <2>2, <2>3 DEF Alive, Carries
<1>5. TypeOK'
  BY TypeDie DEF IInv, Shape
<1>6. QED
  BY <1>3, <1>4, <1>5, MapIntro

LEMMA SessionsServer ==
  ASSUME IInv, NEW s \in Servers, Server(s)
  PROVE  SessionsOK' /\ SessionMapSound'
<1>1. CASE Kill(s) \/ SigintExit(s)
  BY <1>1, SessionsDie DEF Kill, SigintExit, Ends
<1>2. CASE Observe(s) \/ Execute(s) \/ BreakLink(s)
  <2>1. UNCHANGED <<up, userConnMap, conn, who, h>>
    BY <1>2 DEF Observe, Execute, BreakLink, mapVars, netVars
  <2>2. QED
    BY <2>1 DEF IInv, SessionsOK, SessionMapSound, Alive, Carries
<1>3. CASE SigintReset(s) \/ Restart(s)
  <2>1. UNCHANGED <<userConnMap, conn, who, h>>
    BY <1>3 DEF SigintReset, Restart, mapVars, netVars
  <2>2. \A r \in Servers : Alive(r) => Alive(r)'
    <3>1. up \in [Servers -> {"running", "resetting"} \cup Ends]
      BY DEF IInv, TypeOK
    <3>2. QED
      BY <1>3, <3>1 DEF SigintReset, Restart, Alive
  <2>3. \A c \in Conns : Alive(Home[c]) => Alive(Home[c])'
    BY <2>2, ServiceOK DEF Alive
  <2>4. SessionsOK'
    BY <2>1, <2>3 DEF IInv, SessionsOK
  <2>5. SessionMapSound'
    BY <2>1, <2>2 DEF IInv, SessionMapSound, Carries
  <2>6. QED  BY <2>4, <2>5
<1>4. QED  BY <1>1, <1>2, <1>3 DEF Server

LEMMA SessionsNext == IInv /\ [Next]_vars => IInv'
<1> SUFFICES ASSUME IInv, [Next]_vars PROVE SessionsOK' /\ SessionMapSound'
  BY TypeNext DEF IInv, Shape
<1>1. CASE \E c \in Conns : Requests(c) \/ Steps(c)
  <2> PICK c \in Conns : Requests(c) \/ Steps(c)
    BY <1>1
  <2>1. CASE NullRow(c) \/ RaceCrash(c)
    BY <2>1, SessionsDie, ServiceOK DEF NullRow, RaceCrash, Ends
  <2>2. CASE ~(NullRow(c) \/ RaceCrash(c))
    BY <2>2, SessionsLogin, SessionsLogout, SessionsClose, SessionsChat, SessionsGroup
    DEF Requests, Steps
  <2>3. QED  BY <2>1, <2>2
<1>2. CASE \E s \in Servers : Server(s)
  BY <1>2, SessionsServer
<1>3. CASE UNCHANGED vars
  BY <1>3 DEF vars, mapVars, netVars, IInv, SessionsOK, SessionMapSound, Alive, Carries
<1>4. QED  BY <1>1, <1>2, <1>3 DEF Next

(* IInv: whatever the handlers, the faults and the ends of processes do,    *)
(* every handler has the locals its next statement uses, its connection is  *)
(* open and its process alive, and the map names sessions of that process   *)
(* only (login:111-115, loginout:52-64, clientCloseException:251-261).      *)
THEOREM SessionsInvariant == Spec => []IInv
<1>1. Init => IInv
  <2>1. WellFormed(Idle)
    BY IdleType DEF WellFormed, NeedsUser, LoginPcs, LogoutPcs, ChatPcs, GroupPcs
  <2>2. Init => HandlersOK
    BY <2>1 DEF Init, HandlersOK
  <2>3. QED
    BY <2>2, TypeInit, SessionsInit DEF IInv
<1>2. QED
  BY <1>1, SessionsNext, PTL DEF Spec

(* At any time and for any number of servers, users and connections, with   *)
(* every fault, an entry of _userConnMap belongs to the session of a live   *)
(* connection of its process (login:111-115, loginout:52-64,                *)
(* clientCloseException:251-261).                                           *)
THEOREM SessionMapCorrect == Spec => []SessionMapSound
<1>1. IInv => SessionMapSound
  BY DEF IInv
<1>2. QED
  BY <1>1, SessionsInvariant, PTL

-----------------------------------------------------------------------------
(*                      who holds _connMutex                               *)

(* A step that neither locks nor unlocks, and in which no handler enters or *)
(* leaves a critical section.                                               *)
LEMMA MutexUntouched ==
  ASSUME MutexSound, connMutex' = connMutex,
         \A d \in Conns : h'[d].pc \in Holding <=> h[d].pc \in Holding
  PROVE  MutexSound'
BY DEF MutexSound

(* The same for a step of the handler of c. *)
LEMMA MutexKept ==
  ASSUME MutexSound, NEW c \in Conns, connMutex' = connMutex,
         \A d \in Conns : d # c => h'[d] = h[d],
         h'[c].pc \in Holding <=> h[c].pc \in Holding
  PROVE  MutexSound'
BY MutexUntouched

LEMMA MutexTaken ==
  ASSUME TypeOK, MutexSound, NEW c \in Conns, MutexFree(c),
         connMutex' = [connMutex EXCEPT ![Home[c]] = c],
         \A d \in Conns : d # c => h'[d] = h[d],
         h'[c].pc \in Holding
  PROVE  MutexSound'
<1>1. connMutex \in [Servers -> Conns \cup {Free}] /\ Home[c] \in Servers
  BY ServiceOK DEF TypeOK
<1>2. \A s \in Servers : connMutex'[s] = IF s = Home[c] THEN c ELSE connMutex[s]
  BY <1>1
<1>3. ASSUME NEW s \in Servers, NEW d \in Conns
      PROVE  connMutex'[s] = d <=> Home[d] = s /\ h'[d].pc \in Holding
  <2>1. connMutex[s] = d <=> Home[d] = s /\ h[d].pc \in Holding
    BY DEF MutexSound
  <2>2. CASE d = c
    <3>1. connMutex[Home[c]] # c
      BY ServiceOK DEF MutexFree
    <3>2. s # Home[c] => connMutex[s] # c
      BY <2>1, <2>2
    <3>3. QED  BY <1>2, <2>2, <3>2
  <2>3. CASE d # c
    <3>1. connMutex[Home[c]] # d
      BY ServiceOK DEF MutexFree
    <3>2. QED  BY <1>2, <2>1, <2>3, <3>1
  <2>4. QED  BY <2>2, <2>3
<1>4. QED
  BY <1>3 DEF MutexSound

LEMMA MutexReleased ==
  ASSUME TypeOK, MutexSound, NEW c \in Conns, h[c].pc \in Holding,
         connMutex' = [connMutex EXCEPT ![Home[c]] = Free],
         \A d \in Conns : d # c => h'[d] = h[d],
         h'[c].pc \notin Holding
  PROVE  MutexSound'
<1>1. connMutex \in [Servers -> Conns \cup {Free}] /\ Home[c] \in Servers
  BY ServiceOK DEF TypeOK
<1>2. \A s \in Servers : connMutex'[s] = IF s = Home[c] THEN Free ELSE connMutex[s]
  BY <1>1
<1>3. connMutex[Home[c]] = c
  BY <1>1 DEF MutexSound
<1>4. ASSUME NEW s \in Servers, NEW d \in Conns
      PROVE  connMutex'[s] = d <=> Home[d] = s /\ h'[d].pc \in Holding
  <2>1. connMutex[s] = d <=> Home[d] = s /\ h[d].pc \in Holding
    BY DEF MutexSound
  <2>2. d # Free
    BY ServiceOK
  <2>3. QED  BY <1>2, <1>3, <2>1, <2>2
<1>5. QED
  BY <1>4 DEF MutexSound

(* A handler that goes on inside, or goes on or returns outside. *)
LEMMA GotoKeeps ==
  ASSUME TypeOK, MutexSound, NEW c \in Conns, NEW p, Goto(c, p),
         connMutex' = connMutex, p \in Holding <=> h[c].pc \in Holding
  PROVE  MutexSound'
BY GotoFields, MutexKept

LEMMA FinishKeeps ==
  ASSUME TypeOK, MutexSound, NEW c \in Conns, Finish(c),
         connMutex' = connMutex, h[c].pc \notin Holding
  PROVE  MutexSound'
<1>1. "idle" \notin Holding
  BY DEF Holding
<1>2. QED
  BY <1>1, FinishFields, MutexKept

LEMMA SetKeeps ==
  ASSUME TypeOK, MutexSound, NEW c \in Conns, NEW x, h' = [h EXCEPT ![c] = x],
         connMutex' = connMutex, x.pc \in Holding <=> h[c].pc \in Holding
  PROVE  MutexSound'
<1>1. h'[c] = x /\ \A d \in Conns : d # c => h'[d] = h[d]
  BY DEF TypeOK
<1>2. QED
  BY <1>1, MutexKept

-----------------------------------------------------------------------------
(*                      the handlers                                       *)

LEMMA MutexLogin ==
  ASSUME IInv, MutexSound, NEW c \in Conns, Login(c) \/ \E u \in Users : LoginQuery(c, u)
  PROVE  MutexSound'
<1> USE DEF At, Holding
<1>0. TypeOK /\ h \in [Conns -> Handler]
  BY DEF IInv, TypeOK
<1>1. CASE \E u \in Users : LoginQuery(c, u)
  <2>1. PICK u \in Users : LoginQuery(c, u)
    BY <1>1
  <2>2. h[c].pc \in {"idle"} \cup ClosePcs
    BY <2>1 DEF LoginQuery, CanLogin, Ready, IInv, SessionsOK
  <2>3. [Idle EXCEPT !.pc = "li_insert", !.user = u].pc = "li_insert"
    BY DEF Idle
  <2>4. QED
    BY <1>0, <2>1, <2>2, <2>3, SetKeeps DEF LoginQuery, mapVars, ClosePcs
<1>2. CASE LoginInsert(c) \/ LoginSubscribe(c) \/ LoginOnline(c) \/ LoginRemove(c)
  <2>1. PICK p \in {"li_subscribe", "li_online", "li_offmsg", "li_ack"} : Goto(c, p)
    BY <1>2 DEF LoginInsert, LoginSubscribe, LoginOnline, LoginRemove
  <2>2. connMutex' = connMutex /\ h[c].pc \notin Holding
    BY <1>2 DEF LoginInsert, LoginSubscribe, LoginOnline, LoginRemove, mapVars
  <2>3. QED
    BY <1>0, <2>1, <2>2, GotoKeeps
<1>3. CASE LoginOffline(c)
  <2>1. PICK rows, p : /\ p \in {"li_ack", "li_remove"}
                       /\ h' = [h EXCEPT ![c].rows = rows, ![c].pc = p]
    BY <1>3 DEF LoginOffline
  <2>2. h'[c].pc = p /\ \A d \in Conns : d # c => h'[d] = h[d]
    BY <1>0, <2>1 DEF Handler
  <2>3. QED
    BY <1>3, <2>1, <2>2, MutexKept DEF LoginOffline, mapVars
<1>4. CASE LoginAck(c)
  BY <1>0, <1>4, FinishKeeps DEF LoginAck, mapVars
<1>5. QED  BY <1>1, <1>2, <1>3, <1>4 DEF Login

LEMMA MutexLogout ==
  ASSUME IInv, MutexSound, NEW c \in Conns, Logout(c) \/ LogoutRequest(c) \/ Vanish(c)
  PROVE  MutexSound'
<1> USE DEF At, Holding
<1>0. TypeOK
  BY DEF IInv
<1>1. CASE LogoutRequest(c)
  <2>1. [Idle EXCEPT !.pc = "lo_lock", !.user = who[c]].pc = "lo_lock"
    BY DEF Idle
  <2>2. QED
    BY <1>0, <1>1, <2>1, SetKeeps DEF LogoutRequest, Ready, mapVars
<1>2. CASE LogoutUpdate(c)
  <2>1. h'[c].pc = "lo_erase" /\ \A d \in Conns : d # c => h'[d] = h[d]
    BY <1>0, <1>2, GotoFields DEF LogoutUpdate
  <2>2. QED
    BY <1>0, <1>2, <2>1, MutexTaken DEF LogoutUpdate
<1>3. CASE LogoutFail(c)
  BY <1>0, <1>3, FinishKeeps DEF LogoutFail, mapVars
<1>4. CASE LogoutErase(c)
  BY <1>0, <1>4, GotoKeeps DEF LogoutErase
<1>5. CASE LogoutUnsubscribe(c)
  <2>1. h'[c].pc = "idle" /\ \A d \in Conns : d # c => h'[d] = h[d]
    BY <1>0, <1>5, FinishFields DEF LogoutUnsubscribe
  <2>2. QED
    BY <1>0, <1>5, <2>1, MutexReleased DEF LogoutUnsubscribe
<1>6. CASE Vanish(c)
  BY <1>6, MutexUntouched DEF Vanish, mapVars
<1>7. QED  BY <1>1, <1>2, <1>3, <1>4, <1>5, <1>6 DEF Logout

LEMMA MutexClose ==
  ASSUME IInv, MutexSound, NEW c \in Conns, Close(c)
  PROVE  MutexSound'
<1> USE DEF At, Holding
<1>0. TypeOK
  BY DEF IInv
<1>1. CASE CloseErase(c)
  <2>1. PICK u : h' = [h EXCEPT ![c] = [Idle EXCEPT !.pc = "cl_unsub", !.user = u]]
    BY <1>1 DEF CloseErase
  <2>2. [Idle EXCEPT !.pc = "cl_unsub", !.user = u].pc = "cl_unsub"
    BY DEF Idle
  <2>3. QED
    BY <1>0, <1>1, <2>1, <2>2, SetKeeps DEF CloseErase
<1>2. CASE CloseUnsubscribe(c) \/ CloseUpdate(c)
  <2>1. /\ Finish(c) \/ Goto(c, "cl_update")
        /\ h[c].pc \in {"cl_unsub", "cl_update"} /\ connMutex' = connMutex
    BY <1>2 DEF CloseUnsubscribe, CloseUpdate, mapVars
  <2>2. QED
    BY <1>0, <2>1, FinishKeeps, GotoKeeps
<1>3. QED  BY <1>1, <1>2 DEF Close

LEMMA MutexChat ==
  ASSUME IInv, MutexSound, NEW c \in Conns,
         Chat(c) \/ \E m \in Msgs : OneChat(c, m) \/ GroupChat(c, m)
  PROVE  MutexSound'
<1> USE DEF At, Holding
<1>0. TypeOK
  BY DEF IInv
<1>1. ASSUME NEW m \in Msgs, OneChat(c, m) PROVE MutexSound'
  <2>1. PICK u, p : h' = [h EXCEPT ![c] =
          [Idle EXCEPT !.pc = IF p = NoConn THEN "oc_query" ELSE "oc_send",
                       !.user = u, !.msg = m, !.peer = p]]
    BY <1>1 DEF OneChat
  <2> DEFINE x == [Idle EXCEPT !.pc = IF p = NoConn THEN "oc_query" ELSE "oc_send",
                               !.user = u, !.msg = m, !.peer = p]
  <2>2. x.pc \in {"oc_query", "oc_send"}
    BY DEF Idle
  <2>3. h[c].pc = "idle" /\ connMutex' = connMutex
    BY <1>1 DEF OneChat, CanSend, Ready, mapVars
  <2> HIDE DEF x
  <2>4. h' = [h EXCEPT ![c] = x]
    BY <2>1 DEF x
  <2>5. QED
    BY <1>0, <2>2, <2>3, <2>4, SetKeeps
<1>2. ASSUME NEW m \in Msgs, GroupChat(c, m) PROVE MutexSound'
  <2>1. PICK g : h' = [h EXCEPT ![c] = [Idle EXCEPT !.pc = "gc_lock", !.msg = m, !.todo = g]]
    BY <1>2 DEF GroupChat
  <2>2. [Idle EXCEPT !.pc = "gc_lock", !.msg = m, !.todo = g].pc = "gc_lock"
    BY DEF Idle
  <2>3. h[c].pc = "idle" /\ connMutex' = connMutex
    BY <1>2 DEF GroupChat, CanSend, Ready, mapVars
  <2>4. QED
    BY <1>0, <2>1, <2>2, <2>3, SetKeeps
<1>3. CASE Chat(c)
  <2>1. /\ Finish(c) \/ Goto(c, "oc_publish") \/ Goto(c, "oc_store")
        /\ h[c].pc \in ChatPcs /\ connMutex' = connMutex
    BY <1>3 DEF Chat, ChatSend, ChatQuery, ChatPublish, ChatStore, ChatPcs, mapVars
  <2>2. QED
    BY <1>0, <2>1, FinishKeeps, GotoKeeps DEF ChatPcs
<1>4. QED  BY <1>1, <1>2, <1>3

LEMMA MutexGroup ==
  ASSUME IInv, MutexSound, NEW c \in Conns, Group(c)
  PROVE  MutexSound'
<1> USE DEF At, Holding
<1>0. TypeOK /\ h \in [Conns -> Handler]
  BY DEF IInv, TypeOK
<1>1. CASE GroupLock(c)
  <2>1. h'[c].pc = "gc_next" /\ \A d \in Conns : d # c => h'[d] = h[d]
    BY <1>0, <1>1, GotoFields DEF GroupLock
  <2>2. QED
    BY <1>0, <1>1, <2>1, MutexTaken DEF GroupLock
<1>2. CASE GroupSend(c) \/ GroupQuery(c)
  <2>1. h[c].pc = "gc_next" /\ connMutex' = connMutex
    BY <1>2 DEF GroupSend, GroupQuery, mapVars
  <2>2. h'[c].pc \in Holding /\ \A d \in Conns : d # c => h'[d] = h[d]
    <3>1. CASE GroupSend(c)
      <4>1. PICK u : h' = [h EXCEPT ![c].todo = @ \ {u}]
        BY <3>1 DEF GroupSend
      <4>2. QED
        BY <1>0, <2>1, <4>1 DEF Handler
    <3>2. CASE GroupQuery(c)
      <4>1. PICK u, p : /\ p \in {"gc_publish", "gc_store"}
                       /\ h' = [h EXCEPT ![c].todo = @ \ {u}, ![c].user = u, ![c].pc = p]
        BY <3>2 DEF GroupQuery
      <4>2. QED
        BY <1>0, <4>1 DEF Handler
    <3>3. QED  BY <1>2, <3>1, <3>2
  <2>3. QED
    BY <2>1, <2>2, MutexKept
<1>3. CASE GroupPublish(c) \/ GroupStore(c)
  <2>1. /\ Goto(c, "gc_next") /\ connMutex' = connMutex
        /\ h[c].pc \in {"gc_publish", "gc_store"}
    BY <1>3 DEF GroupPublish, GroupStore, mapVars
  <2>2. QED
    BY <1>0, <2>1, GotoKeeps
<1>4. CASE GroupDone(c)
  <2>1. h'[c].pc = "idle" /\ \A d \in Conns : d # c => h'[d] = h[d]
    BY <1>0, <1>4, FinishFields DEF GroupDone
  <2>2. QED
    BY <1>0, <1>4, <2>1, MutexReleased DEF GroupDone
<1>5. QED  BY <1>1, <1>2, <1>3, <1>4 DEF Group

(* A dying process takes its handlers and its mutex with it. *)
LEMMA MutexDie ==
  ASSUME IInv, MutexSound, NEW s \in Servers, NEW how, Die(s, how)
  PROVE  MutexSound'
<1> DEFINE Mine == {c \in Conns : Home[c] = s /\ conn[c] # "new"}
<1>1. /\ connMutex \in [Servers -> Conns \cup {Free}]
      /\ connMutex' = [connMutex EXCEPT ![s] = Free]
      /\ h' = [c \in Conns |-> IF c \in Mine THEN Idle ELSE h[c]]
  BY DEF IInv, TypeOK, Die
<1>2. ASSUME NEW r \in Servers, NEW d \in Conns
      PROVE  connMutex'[r] = d <=> Home[d] = r /\ h'[d].pc \in Holding
  <2>1. connMutex[r] = d <=> Home[d] = r /\ h[d].pc \in Holding
    BY DEF MutexSound
  <2>2. CASE Home[d] = s
    <3>1. h'[d].pc \notin Holding
      <4>1. CASE d \in Mine
        BY <1>1, <4>1, IdleType DEF Holding
      <4>2. CASE d \notin Mine
        <5>1. conn[d] = "new" /\ h'[d] = h[d]
          BY <1>1, <2>2, <4>2
        <5>2. h[d].pc \in {"idle"} \cup ClosePcs
          BY <5>1 DEF IInv, SessionsOK
        <5>3. QED  BY <5>1, <5>2 DEF Holding, ClosePcs
      <4>3. QED  BY <4>1, <4>2
    <3>2. connMutex'[r] # d
      BY <1>1, <2>1, <2>2, ServiceOK
    <3>3. QED  BY <3>1, <3>2
  <2>3. CASE Home[d] # s
    <3>1. h'[d] = h[d]
      BY <1>1, <2>3
    <3>2. connMutex'[r] = d <=> connMutex[r] = d
      BY <1>1, <2>1, <2>3, ServiceOK
    <3>3. QED  BY <2>1, <3>1, <3>2
  <2>4. QED  BY <2>2, <2>3
<1>3. QED
  BY <1>2 DEF MutexSound

LEMMA MutexServer ==
  ASSUME IInv, MutexSound, NEW s \in Servers, Server(s)
  PROVE  MutexSound'
<1>1. CASE Kill(s) \/ SigintExit(s)
  BY <1>1, MutexDie DEF Kill, SigintExit
<1>2. CASE ~(Kill(s) \/ SigintExit(s))
  <2>1. connMutex' = connMutex /\ h' = h
    BY <1>2 DEF Server, Observe, Execute, SigintReset, Restart, BreakLink, mapVars
  <2>2. QED
    BY <2>1, MutexUntouched
<1>3. QED  BY <1>1, <1>2

LEMMA MutexNext == IInv /\ MutexSound /\ [Next]_vars => MutexSound'
<1> SUFFICES ASSUME IInv, MutexSound, [Next]_vars PROVE MutexSound'
  OBVIOUS
<1>1. CASE \E c \in Conns : Requests(c) \/ Steps(c)
  <2> PICK c \in Conns : Requests(c) \/ Steps(c)
    BY <1>1
  <2>1. CASE NullRow(c) \/ RaceCrash(c)
    BY <2>1, MutexDie, ServiceOK DEF NullRow, RaceCrash
  <2>2. CASE ~(NullRow(c) \/ RaceCrash(c))
    BY <2>2, MutexLogin, MutexLogout, MutexClose, MutexChat, MutexGroup
    DEF Requests, Steps
  <2>3. QED  BY <2>1, <2>2
<1>2. CASE \E s \in Servers : Server(s)
  BY <1>2, MutexServer
<1>3. CASE UNCHANGED vars
  BY <1>3, MutexUntouched DEF vars, mapVars
<1>4. QED  BY <1>1, <1>2, <1>3 DEF Next

(* _connMutex is held by exactly the handler between its lock and unlock,   *)
(* whichever faults end handlers and processes (loginout:52-74,             *)
(* groupChat:339-359).                                                      *)
THEOREM MutexCorrect == Spec => []MutexSound
<1>1. Init => MutexSound
  <2> SUFFICES ASSUME Init PROVE MutexSound
    OBVIOUS
  <2>1. \A s \in Servers, c \in Conns : connMutex[s] # c /\ h[c].pc = "idle"
    BY IdleType, ServiceOK DEF Init
  <2>2. QED
    BY <2>1 DEF MutexSound, Holding
<1>2. QED
  BY <1>1, MutexNext, SessionsInvariant, PTL DEF Spec

-----------------------------------------------------------------------------
(*                      one map per holder                                 *)

(* What OneMapPerHolder asks of a step. *)
MapChanges ==
  \A s \in Servers : userConnMap'[s] # userConnMap[s] /\ up'[s] \notin Ends =>
    \/ connMutex[s] = Free
    \/ connMutex[s] \in Conns /\ At(connMutex[s], "lo_erase")

LEMMA DieChanges ==
  ASSUME TypeOK, NEW s \in Servers, NEW how \in Ends, Die(s, how)
  PROVE  MapChanges
<1>1. /\ up' = [up EXCEPT ![s] = how]
      /\ userConnMap' = [userConnMap EXCEPT ![s] = [u \in Users |-> NoConn]]
  BY DEF Die
<1>2. up'[s] \in Ends /\ \A r \in Servers : r # s => userConnMap'[r] = userConnMap[r]
  BY <1>1 DEF TypeOK
<1>3. QED
  BY <1>2 DEF MapChanges

(* An insert, an erase or a scan changes the map of one process.            *)
LEMMA OneChange ==
  ASSUME TypeOK, MutexSound, NEW c \in Conns, NEW f,
         userConnMap' = [userConnMap EXCEPT ![Home[c]] = f],
         MutexFree(c) \/ At(c, "lo_erase")
  PROVE  MapChanges
<1>1. Home[c] \in Servers
  BY ServiceOK
<1>2. \A s \in Servers : s # Home[c] => userConnMap'[s] = userConnMap[s]
  BY DEF TypeOK
<1>3. connMutex[Home[c]] = Free \/ (connMutex[Home[c]] = c /\ At(c, "lo_erase"))
  BY <1>1 DEF MutexFree, At, MutexSound, Holding
<1>4. QED
  BY <1>2, <1>3 DEF MapChanges

LEMMA ChangesNext ==
  ASSUME IInv, MutexSound, Next
  PROVE  MapChanges
<1>0. TypeOK
  BY DEF IInv
<1>1. CASE userConnMap' = userConnMap
  BY <1>1 DEF MapChanges
<1>2. ASSUME NEW c \in Conns, LoginInsert(c) \/ LogoutErase(c) \/ CloseErase(c)
      PROVE  MapChanges
  <2>1. CASE LoginInsert(c)
    <3>1. CASE userConnMap' = userConnMap
      BY <3>1, <1>1
    <3>2. CASE userConnMap' # userConnMap
      <4>1. userConnMap' = [userConnMap EXCEPT ![Home[c]] =
                              [userConnMap[Home[c]] EXCEPT ![h[c].user] = c]]
        BY <2>1, <3>2 DEF LoginInsert
      <4>2. QED  BY <1>0, <2>1, <4>1, OneChange DEF LoginInsert
    <3>3. QED  BY <3>1, <3>2
  <2>2. CASE LogoutErase(c)
    <3>1. userConnMap' = [userConnMap EXCEPT ![Home[c]] =
                            [userConnMap[Home[c]] EXCEPT ![h[c].user] = NoConn]]
      BY <2>2 DEF LogoutErase
    <3>2. QED  BY <1>0, <2>2, <3>1, OneChange DEF LogoutErase
  <2>3. CASE CloseErase(c)
    <3>1. PICK f : userConnMap' = [userConnMap EXCEPT ![Home[c]] = f]
      <4> DEFINE mine == {u \in Users : userConnMap[Home[c]][u] = c}
      <4>1. PICK u \in IF mine = {} THEN {NoUser} ELSE mine :
              userConnMap' = [userConnMap EXCEPT ![Home[c]] =
                                [v \in Users |-> IF v = u THEN NoConn ELSE @[v]]]
        BY <2>3 DEF CloseErase
      <4>2. QED  BY <4>1
    <3>2. QED  BY <1>0, <2>3, <3>1, OneChange DEF CloseErase
  <2>4. QED  BY <1>2, <2>1, <2>2, <2>3
<1>3. ASSUME NEW c \in Conns, NullRow(c) \/ RaceCrash(c)
      PROVE  MapChanges
  BY <1>0, <1>3, DieChanges, ServiceOK DEF NullRow, RaceCrash, Ends
<1>4. ASSUME NEW s \in Servers, Server(s)
      PROVE  MapChanges
  <2>1. CASE Kill(s) \/ SigintExit(s)
    BY <1>0, <2>1, DieChanges DEF Kill, SigintExit, Ends
  <2>2. CASE ~(Kill(s) \/ SigintExit(s))
    BY <1>1, <1>4, <2>2
       DEF Server, Observe, Execute, SigintReset, Restart, BreakLink, mapVars
  <2>3. QED  BY <2>1, <2>2
<1>5. ASSUME NEW c \in Conns, Requests(c), ~(NullRow(c) \/ RaceCrash(c))
      PROVE  MapChanges
  BY <1>1, <1>5 DEF Requests, LoginQuery, LogoutRequest, Vanish, OneChat, GroupChat, mapVars
<1>6. ASSUME NEW c \in Conns, Steps(c), ~(LoginInsert(c) \/ LogoutErase(c) \/ CloseErase(c))
      PROVE  MapChanges
  <2>1. CASE Login(c)
    BY <1>1, <1>6, <2>1 DEF Login, LoginSubscribe, LoginOnline, LoginOffline, LoginRemove,
                            LoginAck, mapVars
  <2>2. CASE Logout(c) \/ Close(c)
    BY <1>1, <1>6, <2>2 DEF Logout, LogoutUpdate, LogoutFail, LogoutUnsubscribe,
                            Close, CloseUnsubscribe, CloseUpdate, mapVars
  <2>3. CASE Chat(c)
    BY <1>1, <2>3, SMTT(30) DEF Chat, ChatSend, ChatQuery, ChatPublish, ChatStore, mapVars
  <2>4. CASE Group(c)
    BY <1>1, <2>4 DEF Group, GroupLock, GroupSend, GroupQuery, GroupPublish, GroupStore,
                      GroupDone, mapVars
  <2>5. QED  BY <1>6, <2>1, <2>2, <2>3, <2>4 DEF Steps
<1>7. QED
  BY <1>2, <1>3, <1>4, <1>5, <1>6 DEF Next

(* While a handler holds _connMutex nobody else changes _userConnMap: all   *)
(* members of a group are served from one state of the map, and loginout    *)
(* erases the entry it found.                                               *)
THEOREM HolderOwnsMap == Spec => OneMapPerHolder
<1>1. IInv /\ MutexSound /\ [Next]_vars => [MapChanges]_vars
  BY ChangesNext
<1>2. Spec => [][MapChanges]_vars
  BY <1>1, SessionsInvariant, MutexCorrect, PTL DEF Spec
<1>3. QED
  BY <1>2 DEF OneMapPerHolder, MapChanges
=============================================================================
