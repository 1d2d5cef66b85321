--------------------------- MODULE ChatOwnerProofs ---------------------------
(***************************************************************************)
(* Where copies of messages go, for any servers, users, connections,       *)
(* messages and faults: built on the invariant IInv of ChatServiceProofs.  *)
(***************************************************************************)
EXTENDS ChatServiceProofs

-----------------------------------------------------------------------------
(*                      handlers                                           *)

LEMMA SetAddressed ==
  ASSUME TypeOK, Addressed, NEW c \in Conns, NEW x, h' = [h EXCEPT ![c] = x], ForReceiver(x)
  PROVE  \A d \in Conns : ForReceiver(h'[d])
<1>1. \A d \in Conns : h'[d] = IF d = c THEN x ELSE h[d]
  BY DEF TypeOK
<1>2. QED
  BY <1>1 DEF Addressed

LEMMA GotoAddressed ==
  ASSUME TypeOK, Addressed, NEW c \in Conns, NEW p, Goto(c, p),
         p \in ChatPcs \cup {"gc_publish", "gc_store"} => h[c].user \in Rcpt[h[c].msg],
         p \in GroupPcs => h[c].todo \subseteq Rcpt[h[c].msg],
         p \in {"li_remove", "li_ack"} =>
           \A m \in Msgs : h[c].rows[m] # 0 => h[c].user \in Rcpt[m]
  PROVE  \A d \in Conns : ForReceiver(h'[d])
<1> DEFINE x == [h[c] EXCEPT !.pc = p]
<1>1. h[c] \in Handler
  BY DEF TypeOK
<1>2. /\ x.pc = p /\ x.user = h[c].user /\ x.msg = h[c].msg
      /\ x.todo = h[c].todo /\ x.rows = h[c].rows
  BY <1>1 DEF Handler
<1>3. ForReceiver(x)
  BY <1>2 DEF ForReceiver
<1>4. h' = [h EXCEPT ![c] = x]
  BY DEF Goto
<1>5. QED
  BY <1>3, <1>4, SetAddressed

LEMMA IdleAddressed == ForReceiver(Idle)
BY IdleType DEF ForReceiver, ChatPcs, GroupPcs

LEMMA FinishAddressed ==
  ASSUME TypeOK, Addressed, NEW c \in Conns, Finish(c)
  PROVE  \A d \in Conns : ForReceiver(h'[d])
BY IdleAddressed, SetAddressed DEF Finish

-----------------------------------------------------------------------------
(*                      the table and the channels                         *)

LEMMA StoreAddressed ==
  ASSUME DbTypeOK, StoredForReceiver, NEW u \in Users, NEW m \in Msgs, u \in Rcpt[m],
         StoreOffline(u, m)
  PROVE  StoredForReceiver'
<1>1. CASE UNCHANGED offlineMessage
  BY <1>1 DEF StoredForReceiver
<1>2. CASE offlineMessage' = [offlineMessage EXCEPT ![u][m] = @ + 1]
  <2>1. \A v \in Users, n \in Msgs : v # u \/ n # m => offlineMessage'[v][n] = offlineMessage[v][n]
    BY <1>2 DEF DbTypeOK
  <2>2. QED
    BY <2>1 DEF StoredForReceiver
<1>3. QED
  BY <1>1, <1>2 DEF StoreOffline

LEMMA RemoveAddressed ==
  ASSUME DbTypeOK, StoredForReceiver, NEW u \in Users, RemoveOffline(u)
  PROVE  StoredForReceiver'
BY DEF DbTypeOK, StoredForReceiver, RemoveOffline, NoRows

LEMMA AppendAddressed ==
  ASSUME NEW q \in Seq(Copy), NEW x, x.to \in Rcpt[x.msg],
         \A i \in 1..Len(q) : q[i].to \in Rcpt[q[i].msg],
         NEW i \in 1..Len(Append(q, x))
  PROVE  Append(q, x)[i].to \in Rcpt[Append(q, x)[i].msg]
<1>1. Len(q) \in Nat /\ Len(Append(q, x)) = Len(q) + 1
  OBVIOUS
<1>2. CASE i = Len(q) + 1
  BY <1>2
<1>3. CASE i \in 1..Len(q)
  <2>1. Append(q, x)[i] = q[i]
    BY <1>3
  <2>2. QED  BY <1>3, <2>1
<1>4. QED  BY <1>1, <1>2, <1>3

LEMMA PushAddressed ==
  ASSUME RedisTypeOK, PushedForReceiver, NEW s \in Servers, NEW u \in Users, NEW m \in Msgs,
         NEW n, u \in Rcpt[m], Push(s, u, m, n)
  PROVE  PushedForReceiver'
<1> DEFINE x == [to |-> u, msg |-> m]
<1>1. ASSUME NEW r \in Servers
      PROVE  \A i \in 1..Len(inbox'[r]) : inbox'[r][i].to \in Rcpt[inbox'[r][i].msg]
  <2>1. x \in Copy /\ x.to \in Rcpt[x.msg] /\ inbox[r] \in Seq(Copy)
    BY DEF RedisTypeOK, Copy
  <2>2. \A i \in 1..Len(inbox[r]) : inbox[r][i].to \in Rcpt[inbox[r][i].msg]
    BY DEF PushedForReceiver
  <2>3. inbox'[r] \in {inbox[r], Append(inbox[r], x), Append(Append(inbox[r], x), x)}
    BY DEF Push
  <2> DEFINE q == Append(inbox[r], x)
  <2>4. q \in Seq(Copy) /\ \A i \in 1..Len(q) : q[i].to \in Rcpt[q[i].msg]
    BY <2>1, <2>2, AppendAddressed
  <2> HIDE DEF q
  <2>5. \A i \in 1..Len(Append(q, x)) : Append(q, x)[i].to \in Rcpt[Append(q, x)[i].msg]
    BY <2>1, <2>4, AppendAddressed
  <2>6. QED  BY <2>2, <2>3, <2>4, <2>5 DEF q
<1>2. QED
  BY <1>1 DEF PushedForReceiver

LEMMA GarbleAddressed ==
  ASSUME RedisTypeOK, PushedForReceiver, NEW s \in Servers, NEW x, Garble(s, x)
  PROVE  PushedForReceiver'
<1>1. CASE UNCHANGED redisVars
  BY <1>1 DEF PushedForReceiver, redisVars
<1>2. CASE Disconnect(s, {x})
  <2>1. \A r \in Servers : inbox'[r] \in {inbox[r], <<>>}
    BY <1>2 DEF Disconnect, RedisTypeOK
  <2>2. Len(<<>>) = 0
    OBVIOUS
  <2>3. QED  BY <2>1, <2>2 DEF PushedForReceiver
<1>3. QED  BY <1>1, <1>2 DEF Garble

LEMMA PublishAddressed ==
  ASSUME RedisTypeOK, PushedForReceiver, NEW s \in Servers, NEW u \in Users, NEW m \in Msgs,
         NEW torn, u \in Rcpt[m], publish(s, u, m, torn)
  PROVE  PushedForReceiver'
BY PushAddressed, GarbleAddressed DEF publish

LEMMA SubscribeAddressed ==
  ASSUME RedisTypeOK, PushedForReceiver, NEW s \in Servers, NEW u, NEW torn,
         subscribe(s, u, torn) \/ unsubscribe(s, u, torn)
  PROVE  PushedForReceiver'
<1>1. CASE UNCHANGED inbox
  BY <1>1 DEF PushedForReceiver
<1>2. CASE Garble(s, "sub")
  BY <1>2, GarbleAddressed
<1>3. QED  BY <1>1, <1>2 DEF subscribe, unsubscribe, WriteCommand

LEMMA TailOf ==
  ASSUME NEW S, NEW q \in Seq(S), q # <<>>, NEW i \in 1..Len(Tail(q))
  PROVE  i + 1 \in 1..Len(q) /\ Tail(q)[i] = q[i + 1]
OBVIOUS

LEMMA ConsumeAddressed ==
  ASSUME RedisTypeOK, PushedForReceiver, NEW s \in Servers, inbox[s] # <<>>, Consume(s)
  PROVE  PushedForReceiver'
<1>1. ASSUME NEW r \in Servers, NEW i \in 1..Len(inbox'[r])
      PROVE  inbox'[r][i].to \in Rcpt[inbox'[r][i].msg]
  <2>1. inbox[r] \in Seq(Copy) /\ inbox'[r] = IF r = s THEN Tail(inbox[r]) ELSE inbox[r]
    BY DEF RedisTypeOK, Consume
  <2>2. CASE r # s
    BY <1>1, <2>1, <2>2 DEF PushedForReceiver
  <2>3. CASE r = s
    <3>1. inbox[r] # <<>> /\ inbox'[r] = Tail(inbox[r])
      BY <2>1, <2>3
    <3>2. i + 1 \in 1..Len(inbox[r]) /\ inbox'[r][i] = inbox[r][i + 1]
      <4>1. i \in 1..Len(Tail(inbox[r]))
        BY <3>1
      <4>2. QED  BY <2>1, <3>1, <4>1, TailOf
    <3>3. QED  BY <3>2 DEF PushedForReceiver
  <2>4. QED  BY <2>2, <2>3
<1>2. QED
  BY <1>1 DEF PushedForReceiver

LEMMA DisconnectAddressed ==
  ASSUME RedisTypeOK, PushedForReceiver, NEW s \in Servers, NEW lost, Disconnect(s, lost)
  PROVE  PushedForReceiver'
<1>1. \A r \in Servers : inbox'[r] \in {inbox[r], <<>>}
  BY DEF RedisTypeOK, Disconnect
<1>2. Len(<<>>) = 0
  OBVIOUS
<1>3. \A i \in 1..0 : FALSE
  OBVIOUS
<1>4. QED
  BY <1>1, <1>2, <1>3 DEF PushedForReceiver

-----------------------------------------------------------------------------
(*                      the steps                                          *)

LEMMA AddressedLogin ==
  ASSUME IInv, Addressed, NEW c \in Conns, Login(c) \/ \E u \in Users : LoginQuery(c, u)
  PROVE  Addressed'
<1> USE DEF At, ChatPcs, GroupPcs, LoginPcs, NeedsUser
<1>0. /\ TypeOK /\ DbTypeOK /\ h \in [Conns -> Handler]
      /\ StoredForReceiver /\ PushedForReceiver
  BY DEF IInv, TypeOK, Addressed
<1>1. (\A d \in Conns : ForReceiver(h'[d])) /\ StoredForReceiver' /\ PushedForReceiver' => Addressed'
  BY DEF Addressed, ForReceiver
<1>2. CASE \E u \in Users : LoginQuery(c, u)
  <2>1. PICK u \in Users : LoginQuery(c, u)
    BY <1>2
  <2> DEFINE x == [Idle EXCEPT !.pc = "li_insert", !.user = u]
  <2>2. x.pc = "li_insert"
    BY DEF Idle
  <2>3. \A d \in Conns : ForReceiver(h'[d])
    <3>1. ForReceiver(x)
      BY <2>2 DEF ForReceiver
    <3>2. QED  BY <1>0, <2>1, <3>1, SetAddressed DEF LoginQuery
  <2>4. StoredForReceiver' /\ PushedForReceiver'
    BY <1>0, <2>1 DEF LoginQuery, dbVars, redisVars, StoredForReceiver, PushedForReceiver
  <2>5. QED  BY <1>1, <2>3, <2>4
<1>3. CASE LoginInsert(c) \/ LoginSubscribe(c) \/ LoginOnline(c)
  <2>1. \E p \in {"li_subscribe", "li_online", "li_offmsg"} : Goto(c, p)
    BY <1>3 DEF LoginInsert, LoginSubscribe, LoginOnline
  <2>2. \A d \in Conns : ForReceiver(h'[d])
    BY <1>0, <2>1, GotoAddressed
  <2>3. UNCHANGED offlineMessage
    BY <1>3 DEF LoginInsert, LoginSubscribe, LoginOnline, dbVars, UpdateState
  <2>4. PushedForReceiver'
    <3>1. CASE LoginSubscribe(c)
      BY <1>0, <3>1, SubscribeAddressed, ServiceOK DEF LoginSubscribe, TypeOK
    <3>2. CASE LoginInsert(c) \/ LoginOnline(c)
      BY <1>0, <3>2 DEF LoginInsert, LoginOnline, redisVars, PushedForReceiver
    <3>3. QED  BY <1>3, <3>1, <3>2
  <2>5. QED  BY <1>0, <2>2, <2>3, <2>4 DEF Addressed, ForReceiver, StoredForReceiver
<1>4. CASE LoginOffline(c)
  (* The rows read are rows of the user, which are for the user. *)
  <2>1. PICK rows \in {offlineMessage[h[c].user], NoRows} :
          h' = [h EXCEPT ![c].rows = rows,
                         ![c].pc = IF rows = NoRows THEN "li_ack" ELSE "li_remove"]
    BY <1>4 DEF LoginOffline
  <2> DEFINE p == IF rows = NoRows THEN "li_ack" ELSE "li_remove"
  <2>2. h[c].user \in Users
    BY <1>4 DEF LoginOffline, IInv, HandlersOK, WellFormed
  <2>3. \A m \in Msgs : rows[m] # 0 => h[c].user \in Rcpt[m]
    BY <1>0, <2>1, <2>2 DEF StoredForReceiver, NoRows
  <2> DEFINE x == [h[c] EXCEPT !.rows = rows, !.pc = p]
  <2>4. x.pc = p /\ x.rows = rows /\ x.user = h[c].user
    BY <1>0 DEF Handler
  <2>5. ForReceiver(x)
    BY <2>1, <2>3, <2>4 DEF ForReceiver
  <2>6. h' = [h EXCEPT ![c] = x]
    BY <1>0, <2>1
  <2>7. \A d \in Conns : ForReceiver(h'[d])
    BY <1>0, <2>5, <2>6, SetAddressed
  <2>8. UNCHANGED <<offlineMessage, inbox>>
    BY <1>4 DEF LoginOffline, dbVars, redisVars
  <2>9. QED  BY <1>0, <1>1, <2>7, <2>8 DEF StoredForReceiver, PushedForReceiver
<1>5. CASE LoginRemove(c)
  <2>1. h[c].pc = "li_remove" /\ h[c].user \in Users
    BY <1>5 DEF LoginRemove, IInv, HandlersOK, WellFormed
  <2>2. \A m \in Msgs : h[c].rows[m] # 0 => h[c].user \in Rcpt[m]
    BY <2>1 DEF Addressed, ForReceiver
  <2>3. \A d \in Conns : ForReceiver(h'[d])
    BY <1>0, <1>5, <2>2, GotoAddressed DEF LoginRemove
  <2>4. StoredForReceiver' /\ UNCHANGED inbox
    BY <1>0, <1>5, <2>1, RemoveAddressed DEF LoginRemove, redisVars
  <2>5. QED  BY <1>0, <1>1, <2>3, <2>4 DEF PushedForReceiver
<1>6. CASE LoginAck(c)
  <2>1. \A d \in Conns : ForReceiver(h'[d])
    BY <1>0, <1>6, FinishAddressed DEF LoginAck
  <2>2. UNCHANGED <<offlineMessage, inbox>>
    BY <1>6 DEF LoginAck, dbVars, redisVars
  <2>3. QED  BY <1>0, <1>1, <2>1, <2>2 DEF StoredForReceiver, PushedForReceiver
<1>7. QED  BY <1>2, <1>3, <1>4, <1>5, <1>6 DEF Login

LEMMA AddressedLogout ==
  ASSUME IInv, Addressed, NEW c \in Conns, Logout(c) \/ LogoutRequest(c) \/ Vanish(c)
  PROVE  Addressed'
<1> USE DEF At, ChatPcs, GroupPcs
<1>0. TypeOK /\ StoredForReceiver /\ PushedForReceiver
  BY DEF IInv, Addressed
<1>1. (\A d \in Conns : ForReceiver(h'[d])) /\ UNCHANGED <<offlineMessage, inbox>> => Addressed'
  BY <1>0 DEF Addressed, ForReceiver, StoredForReceiver, PushedForReceiver
<1>2. CASE LogoutRequest(c)
  <2> DEFINE x == [Idle EXCEPT !.pc = "lo_lock", !.user = who[c]]
  <2>1. x.pc = "lo_lock"
    BY DEF Idle
  <2>2. ForReceiver(x)
    BY <2>1 DEF ForReceiver
  <2>3. \A d \in Conns : ForReceiver(h'[d])
    BY <1>0, <1>2, <2>2, SetAddressed DEF LogoutRequest
  <2>4. QED  BY <1>1, <1>2, <2>3 DEF LogoutRequest, dbVars, redisVars
<1>3. CASE Vanish(c)
  BY <1>1, <1>3 DEF Vanish, dbVars, redisVars, Addressed
<1>4. CASE Logout(c)
  <2>1. Finish(c) \/ \E p \in {"lo_erase", "lo_unsub"} : Goto(c, p)
    BY <1>4 DEF Logout, LogoutUpdate, LogoutFail, LogoutErase, LogoutUnsubscribe
  <2>2. \A d \in Conns : ForReceiver(h'[d])
    BY <1>0, <2>1, GotoAddressed, FinishAddressed
  <2>3. UNCHANGED offlineMessage
    BY <1>4 DEF Logout, LogoutUpdate, LogoutFail, LogoutErase, LogoutUnsubscribe,
                dbVars, UpdateState
  <2>4. PushedForReceiver'
    <3>1. CASE LogoutUnsubscribe(c)
      BY <1>0, <3>1, SubscribeAddressed, ServiceOK DEF LogoutUnsubscribe, TypeOK
    <3>2. CASE LogoutUpdate(c) \/ LogoutFail(c) \/ LogoutErase(c)
      BY <1>0, <3>2 DEF LogoutUpdate, LogoutFail, LogoutErase, redisVars, PushedForReceiver
    <3>3. QED  BY <1>4, <3>1, <3>2 DEF Logout
  <2>5. QED  BY <1>0, <2>2, <2>3, <2>4 DEF Addressed, ForReceiver, StoredForReceiver
<1>5. QED  BY <1>2, <1>3, <1>4

LEMMA AddressedClose ==
  ASSUME IInv, Addressed, NEW c \in Conns, Close(c)
  PROVE  Addressed'
<1> USE DEF At, ChatPcs, GroupPcs
<1>0. TypeOK /\ StoredForReceiver /\ PushedForReceiver
  BY DEF IInv, Addressed
<1>1. \A d \in Conns : ForReceiver(h'[d])
  <2>1. CASE CloseErase(c)
    <3>1. PICK u : h' = [h EXCEPT ![c] = [Idle EXCEPT !.pc = "cl_unsub", !.user = u]]
      BY <2>1 DEF CloseErase
    <3> DEFINE x == [Idle EXCEPT !.pc = "cl_unsub", !.user = u]
    <3>2. x.pc = "cl_unsub"
      BY DEF Idle
    <3>3. ForReceiver(x)
      BY <3>2 DEF ForReceiver
    <3>4. QED  BY <1>0, <3>1, <3>3, SetAddressed
  <2>2. CASE CloseUnsubscribe(c) \/ CloseUpdate(c)
    <3>1. Finish(c) \/ Goto(c, "cl_update")
      BY <2>2, SMTT(30) DEF CloseUnsubscribe, CloseUpdate
    <3>2. QED  BY <1>0, <3>1, GotoAddressed, FinishAddressed
  <2>3. QED  BY <2>1, <2>2 DEF Close
<1>2. UNCHANGED offlineMessage
  BY DEF Close, CloseErase, CloseUnsubscribe, CloseUpdate, dbVars, UpdateState
<1>3. PushedForReceiver'
  <2>1. CASE CloseUnsubscribe(c)
    BY <1>0, <2>1, SubscribeAddressed, ServiceOK DEF CloseUnsubscribe, TypeOK
  <2>2. CASE CloseErase(c) \/ CloseUpdate(c)
    BY <1>0, <2>2 DEF CloseErase, CloseUpdate, redisVars, PushedForReceiver
  <2>3. QED  BY <2>1, <2>2 DEF Close
<1>4. QED
  BY <1>0, <1>1, <1>2, <1>3 DEF Addressed, ForReceiver, StoredForReceiver

LEMMA AddressedChat ==
  ASSUME IInv, Addressed, NEW c \in Conns,
         Chat(c) \/ \E m \in Msgs : OneChat(c, m) \/ GroupChat(c, m)
  PROVE  Addressed'
<1> USE DEF At, ChatPcs, GroupPcs, NeedsUser
<1>0. /\ TypeOK /\ DbTypeOK /\ RedisTypeOK /\ Home[c] \in Servers
      /\ StoredForReceiver /\ PushedForReceiver
  BY ServiceOK DEF IInv, TypeOK, Addressed
<1>1. (\A d \in Conns : ForReceiver(h'[d])) /\ StoredForReceiver' /\ PushedForReceiver' => Addressed'
  BY DEF Addressed, ForReceiver
<1>2. ASSUME NEW m \in Msgs, OneChat(c, m) PROVE Addressed'
  <2>1. PICK u, p : /\ u \in Rcpt[m]
                    /\ h' = [h EXCEPT ![c] =
                         [Idle EXCEPT !.pc = IF p = NoConn THEN "oc_query" ELSE "oc_send",
                                      !.user = u, !.msg = m, !.peer = p]]
    BY <1>2 DEF OneChat
  <2> DEFINE x == [Idle EXCEPT !.pc = IF p = NoConn THEN "oc_query" ELSE "oc_send",
                               !.user = u, !.msg = m, !.peer = p]
  <2>2. x.pc \in {"oc_query", "oc_send"} /\ x.user = u /\ x.msg = m
    BY DEF Idle
  <2>3. ForReceiver(x)
    BY <2>1, <2>2 DEF ForReceiver
  <2>4. \A d \in Conns : ForReceiver(h'[d])
    BY <1>0, <2>1, <2>3, SetAddressed
  <2>5. StoredForReceiver' /\ PushedForReceiver'
    BY <1>0, <1>2 DEF OneChat, dbVars, redisVars, StoredForReceiver, PushedForReceiver
  <2>6. QED  BY <1>1, <2>4, <2>5
<1>3. ASSUME NEW m \in Msgs, GroupChat(c, m) PROVE Addressed'
  <2>1. PICK g : /\ g \subseteq Rcpt[m]
                 /\ h' = [h EXCEPT ![c] = [Idle EXCEPT !.pc = "gc_lock", !.msg = m, !.todo = g]]
    <3>1. PICK g \in {Rcpt[m] \ {who[c]}} \cup IF DbFault THEN {{}} ELSE {} :
            h' = [h EXCEPT ![c] = [Idle EXCEPT !.pc = "gc_lock", !.msg = m, !.todo = g]]
      BY <1>3 DEF GroupChat
    <3>2. g \subseteq Rcpt[m]
      OBVIOUS
    <3>3. QED  BY <3>1, <3>2
  <2> DEFINE x == [Idle EXCEPT !.pc = "gc_lock", !.msg = m, !.todo = g]
  <2>2. x.pc = "gc_lock" /\ x.todo = g /\ x.msg = m
    BY DEF Idle
  <2>3. ForReceiver(x)
    BY <2>1, <2>2 DEF ForReceiver
  <2>4. \A d \in Conns : ForReceiver(h'[d])
    BY <1>0, <2>1, <2>3, SetAddressed
  <2>5. StoredForReceiver' /\ PushedForReceiver'
    BY <1>0, <1>3 DEF GroupChat, dbVars, redisVars, StoredForReceiver, PushedForReceiver
  <2>6. QED  BY <1>1, <2>4, <2>5
<1>4. CASE ChatSend(c)
  <2>1. \A d \in Conns : ForReceiver(h'[d])
    BY <1>0, <1>4, FinishAddressed DEF ChatSend
  <2>2. UNCHANGED <<offlineMessage, inbox>>
    BY <1>4 DEF ChatSend, dbVars, redisVars
  <2>3. QED  BY <1>0, <1>1, <2>1, <2>2 DEF StoredForReceiver, PushedForReceiver
<1>5. CASE ChatQuery(c) \/ ChatPublish(c) \/ ChatStore(c)
  <2>1. /\ h[c].pc \in {"oc_query", "oc_publish", "oc_store"}
        /\ h[c].user \in Users /\ h[c].msg \in Msgs /\ h[c].user \in Rcpt[h[c].msg]
    BY <1>5 DEF ChatQuery, ChatPublish, ChatStore, IInv, HandlersOK, WellFormed,
                Addressed, ForReceiver
  <2>2. CASE ChatQuery(c)
    <3>1. \E p \in {"oc_publish", "oc_store"} : Goto(c, p)
      BY <2>2 DEF ChatQuery
    <3>2. \A d \in Conns : ForReceiver(h'[d])
      BY <1>0, <2>1, <3>1, GotoAddressed
    <3>3. UNCHANGED <<offlineMessage, inbox>>
      BY <2>2 DEF ChatQuery, dbVars, redisVars
    <3>4. QED  BY <1>0, <1>1, <3>2, <3>3 DEF StoredForReceiver, PushedForReceiver
  <2>3. CASE ChatPublish(c)
    <3>1. \A d \in Conns : ForReceiver(h'[d])
      BY <1>0, <2>3, FinishAddressed DEF ChatPublish
    <3>2. PushedForReceiver' /\ UNCHANGED offlineMessage
      BY <1>0, <2>1, <2>3, PublishAddressed DEF ChatPublish, dbVars
    <3>3. QED  BY <1>0, <1>1, <3>1, <3>2 DEF StoredForReceiver
  <2>4. CASE ChatStore(c)
    <3>1. \A d \in Conns : ForReceiver(h'[d])
      BY <1>0, <2>4, FinishAddressed DEF ChatStore
    <3>2. StoredForReceiver' /\ UNCHANGED inbox
      BY <1>0, <2>1, <2>4, StoreAddressed DEF ChatStore, redisVars
    <3>3. QED  BY <1>0, <1>1, <3>1, <3>2 DEF PushedForReceiver
  <2>5. QED  BY <1>5, <2>2, <2>3, <2>4
<1>6. QED  BY <1>2, <1>3, <1>4, <1>5 DEF Chat

LEMMA AddressedGroup ==
  ASSUME IInv, Addressed, NEW c \in Conns, Group(c)
  PROVE  Addressed'
<1> USE DEF At, ChatPcs, GroupPcs, NeedsUser
<1>0. /\ TypeOK /\ DbTypeOK /\ RedisTypeOK /\ Home[c] \in Servers
      /\ h \in [Conns -> Handler] /\ StoredForReceiver /\ PushedForReceiver
  BY ServiceOK DEF IInv, TypeOK, Addressed
<1>1. (\A d \in Conns : ForReceiver(h'[d])) /\ StoredForReceiver' /\ PushedForReceiver' => Addressed'
  BY SMTT(30) DEF Addressed, ForReceiver
<1>2. h[c].pc \in GroupPcs /\ h[c].msg \in Msgs /\ h[c].todo \subseteq Rcpt[h[c].msg]
  BY Zenon DEF Group, GroupLock, GroupSend, GroupQuery, GroupPublish, GroupStore, GroupDone,
         IInv, HandlersOK, WellFormed, Addressed, ForReceiver
<1>3. CASE GroupLock(c) \/ GroupDone(c)
  <2>1. Finish(c) \/ Goto(c, "gc_next")
    BY <1>3 DEF GroupLock, GroupDone
  <2>2. \A d \in Conns : ForReceiver(h'[d])
    BY <1>0, <1>2, <2>1, GotoAddressed, FinishAddressed
  <2>3. UNCHANGED <<offlineMessage, inbox>>
    BY <1>3 DEF GroupLock, GroupDone, dbVars, redisVars
  <2>4. QED  BY <1>0, <1>1, <2>2, <2>3 DEF StoredForReceiver, PushedForReceiver
<1>4. CASE GroupSend(c)
  <2>1. PICK u : h' = [h EXCEPT ![c].todo = @ \ {u}]
    BY <1>4 DEF GroupSend
  <2> DEFINE x == [h[c] EXCEPT !.todo = @ \ {u}]
  <2>2. x.pc = h[c].pc /\ x.msg = h[c].msg /\ x.todo = h[c].todo \ {u} /\ h[c].pc = "gc_next"
    BY <1>0, <1>4 DEF Handler, GroupSend
  <2>3. ForReceiver(x)
    BY <1>2, <2>2 DEF ForReceiver
  <2>4. \A d \in Conns : ForReceiver(h'[d])
    BY <1>0, <2>1, <2>3, SetAddressed
  <2>5. UNCHANGED <<offlineMessage, inbox>>
    BY <1>4 DEF GroupSend, dbVars, redisVars
  <2>6. QED  BY <1>0, <1>1, <2>4, <2>5 DEF StoredForReceiver, PushedForReceiver
<1>5. CASE GroupQuery(c)
  <2>1. PICK u \in h[c].todo, p \in {"gc_publish", "gc_store"} :
          h' = [h EXCEPT ![c].todo = @ \ {u}, ![c].user = u, ![c].pc = p]
    BY <1>5 DEF GroupQuery
  <2> DEFINE x == [h[c] EXCEPT !.todo = @ \ {u}, !.user = u, !.pc = p]
  <2>2. x.pc = p /\ x.msg = h[c].msg /\ x.todo = h[c].todo \ {u} /\ x.user = u
    BY <1>0 DEF Handler
  <2>3. ForReceiver(x)
    BY <1>2, <2>1, <2>2 DEF ForReceiver
  <2>4. h' = [h EXCEPT ![c] = x]
    BY <1>0, <2>1
  <2>5. \A d \in Conns : ForReceiver(h'[d])
    BY <1>0, <2>3, <2>4, SetAddressed
  <2>6. UNCHANGED <<offlineMessage, inbox>>
    BY <1>5 DEF GroupQuery, dbVars, redisVars
  <2>7. QED  BY <1>0, <1>1, <2>5, <2>6 DEF StoredForReceiver, PushedForReceiver
<1>6. CASE GroupPublish(c) \/ GroupStore(c)
  <2>1. /\ Goto(c, "gc_next") /\ h[c].user \in Users /\ h[c].user \in Rcpt[h[c].msg]
    BY <1>6 DEF GroupPublish, GroupStore, IInv, HandlersOK, WellFormed, Addressed, ForReceiver
  <2>2. \A d \in Conns : ForReceiver(h'[d])
    BY <1>0, <1>2, <2>1, GotoAddressed
  <2>3. StoredForReceiver'
    BY <1>0, <1>2, <1>6, <2>1, StoreAddressed DEF GroupPublish, GroupStore, dbVars, StoredForReceiver
  <2>4. PushedForReceiver'
    BY <1>0, <1>2, <1>6, <2>1, PublishAddressed
       DEF GroupPublish, GroupStore, redisVars, PushedForReceiver
  <2>5. QED  BY <1>1, <2>2, <2>3, <2>4
<1>7. QED  BY <1>3, <1>4, <1>5, <1>6 DEF Group

LEMMA AddressedDie ==
  ASSUME IInv, Addressed, NEW s \in Servers, NEW how, Die(s, how)
  PROVE  Addressed'
<1>1. \A d \in Conns : h'[d] = Idle \/ h'[d] = h[d]
  BY DEF Die
<1>2. \A d \in Conns : ForReceiver(h'[d])
  BY <1>1, IdleAddressed DEF Addressed
<1>3. PushedForReceiver' /\ UNCHANGED offlineMessage
  BY DisconnectAddressed DEF Die, IInv, TypeOK, Addressed, dbVars
<1>4. QED
  BY <1>2, <1>3 DEF Addressed, ForReceiver, StoredForReceiver

(* What the observer thread stores came from a channel of the receiver. *)
LEMMA AddressedObserve ==
  ASSUME IInv, Addressed, NEW s \in Servers, Observe(s)
  PROVE  Addressed'
<1>0. DbTypeOK /\ RedisTypeOK /\ StoredForReceiver /\ PushedForReceiver
  BY DEF IInv, TypeOK, Addressed
<1>1. /\ Head(inbox[s]) \in Copy /\ Head(inbox[s]) = inbox[s][1] /\ 1 \in 1..Len(inbox[s])
  BY <1>0 DEF Observe, RedisTypeOK
<1>2. /\ Head(inbox[s]).to \in Users /\ Head(inbox[s]).msg \in Msgs
      /\ Head(inbox[s]).to \in Rcpt[Head(inbox[s]).msg]
  BY <1>0, <1>1 DEF Copy, PushedForReceiver
<1>3. \/ UNCHANGED offlineMessage
      \/ StoreOffline(Head(inbox[s]).to, Head(inbox[s]).msg)
  BY DEF Observe, dbVars
<1>4. StoredForReceiver'
  BY <1>0, <1>2, <1>3, StoreAddressed DEF StoredForReceiver
<1>5. PushedForReceiver' /\ UNCHANGED h
  BY <1>0, ConsumeAddressed DEF Observe
<1>6. QED
  BY <1>4, <1>5 DEF Addressed, ForReceiver

LEMMA AddressedServer ==
  ASSUME IInv, Addressed, NEW s \in Servers, Server(s)
  PROVE  Addressed'
<1>0. RedisTypeOK /\ StoredForReceiver /\ PushedForReceiver
  BY DEF IInv, TypeOK, Addressed
<1>1. CASE Kill(s) \/ SigintExit(s)
  BY <1>1, AddressedDie DEF Kill, SigintExit
<1>2. CASE Observe(s)
  BY <1>2, AddressedObserve
<1>3. CASE BreakLink(s)
  BY <1>0, <1>3, DisconnectAddressed
     DEF BreakLink, dbVars, Addressed, ForReceiver, StoredForReceiver
<1>4. CASE Execute(s) \/ SigintReset(s) \/ Restart(s)
  <2>1. UNCHANGED <<h, offlineMessage, inbox>>
    BY <1>4 DEF Execute, SigintReset, Restart, ExecuteCommand, ResetState, connect,
                dbVars, redisVars
  <2>2. QED  BY <2>1 DEF Addressed, ForReceiver, StoredForReceiver, PushedForReceiver
<1>5. QED  BY <1>1, <1>2, <1>3, <1>4 DEF Server

LEMMA AddressedNext == IInv /\ Addressed /\ [Next]_vars => Addressed'
<1> SUFFICES ASSUME IInv, Addressed, [Next]_vars PROVE Addressed'
  OBVIOUS
<1>1. CASE \E c \in Conns : Requests(c) \/ Steps(c)
  <2> PICK c \in Conns : Requests(c) \/ Steps(c)
    BY <1>1
  <2>1. CASE NullRow(c) \/ RaceCrash(c)
    BY <2>1, AddressedDie, ServiceOK DEF NullRow, RaceCrash
  <2>2. CASE ~(NullRow(c) \/ RaceCrash(c))
    BY <2>2, AddressedLogin, AddressedLogout, AddressedClose, AddressedChat, AddressedGroup
    DEF Requests, Steps
  <2>3. QED  BY <2>1, <2>2
<1>2. CASE \E s \in Servers : Server(s)
  BY <1>2, AddressedServer
<1>3. CASE UNCHANGED vars
  BY <1>3 DEF vars, dbVars, redisVars, Addressed, ForReceiver, StoredForReceiver,
              PushedForReceiver
<1>4. QED  BY <1>1, <1>2, <1>3 DEF Next

LEMMA AddressedInvariant == Spec => []Addressed
<1>1. Init => Addressed
  <2> SUFFICES ASSUME Init PROVE Addressed
    OBVIOUS
  <2>1. \A c \in Conns : ForReceiver(h[c])
    BY IdleAddressed DEF Init
  <2>2. StoredForReceiver
    BY DEF Init, StoredForReceiver, NoRows
  <2>3. PushedForReceiver
    <3>1. \A s \in Servers : Len(inbox[s]) = 0
      BY DEF Init
    <3>2. \A i \in 1..0 : FALSE
      OBVIOUS
    <3>3. QED  BY <3>1, <3>2 DEF PushedForReceiver
  <2>4. QED  BY <2>1, <2>2, <2>3 DEF Addressed
<1>2. QED
  BY <1>1, AddressedNext, SessionsInvariant, PTL DEF Spec

-----------------------------------------------------------------------------
(*                      delivery                                           *)

(* What DeliveredToOwner asks of a step. *)
Deliveries == \A c \in Conns, m \in Msgs :
  got'[c][m] # got[c][m] => ForOwner(c, m) \/ StaleSend(m)

LEMMA DeliverOne ==
  ASSUME TypeOK, NEW p \in Conns, NEW m \in Msgs, Deliver(p, m),
         ForOwner(p, m) \/ StaleSend(m)
  PROVE  Deliveries
<1>1. \A c \in Conns, n \in Msgs : c # p \/ n # m => got'[c][n] = got[c][n]
  BY DEF TypeOK, Deliver
<1>2. QED
  BY <1>1 DEF Deliveries

(* An entry found in the map belongs to its user. *)
LEMMA EntryOwner ==
  ASSUME IInv, NEW s \in Servers, NEW u \in Users, userConnMap[s][u] # NoConn,
         NEW m \in Msgs, u \in Rcpt[m]
  PROVE  userConnMap[s][u] \in Conns /\ ForOwner(userConnMap[s][u], m)
<1>1. userConnMap[s][u] \in Conns
  BY DEF IInv, TypeOK
<1>2. Carries(userConnMap[s][u], u)
  BY DEF IInv, SessionMapSound
<1>3. QED
  BY <1>1, <1>2 DEF ForOwner

LEMMA DeliveriesNext ==
  ASSUME IInv, Addressed, Next
  PROVE  Deliveries
<1> USE ServiceOK
<1>0. TypeOK
  BY DEF IInv
<1>1. CASE got' = got
  BY <1>1 DEF Deliveries
<1>2. ASSUME NEW c \in Conns, LoginAck(c) PROVE Deliveries
  <2>1. h[c].pc = "li_ack" /\ h[c].user \in Users
    BY <1>2 DEF LoginAck, At, IInv, HandlersOK, WellFormed, NeedsUser, LoginPcs
  <2>2. \A m \in Msgs : h[c].rows[m] # 0 => ForOwner(c, m)
    BY <2>1 DEF Addressed, ForReceiver, ForOwner, Carries, EnteredPcs, LoginPcs
  <2>3. \A d \in Conns, m \in Msgs : d # c \/ h[c].rows[m] = 0 => got'[d][m] = got[d][m]
    BY <1>0, <1>2 DEF LoginAck, TypeOK
  <2>4. QED  BY <2>2, <2>3 DEF Deliveries
<1>3. ASSUME NEW c \in Conns, ChatSend(c) PROVE Deliveries
  <2>1. /\ h[c].pc = "oc_send" /\ h[c].user \in Users /\ h[c].msg \in Msgs
        /\ h[c].peer \in Conns /\ h[c].user \in Rcpt[h[c].msg]
    BY <1>3 DEF ChatSend, At, IInv, HandlersOK, WellFormed, NeedsUser, ChatPcs,
                Addressed, ForReceiver
  <2>2. PICK p \in Targets(c) : Deliver(p, h[c].msg)
    BY <1>3 DEF ChatSend
  <2>3. p \in Conns
    BY <1>0, <2>1 DEF Targets, Entry, TypeOK
  <2>4. CASE Stale(c)
    <3>1. StaleSend(h[c].msg)
      BY <2>1, <2>4 DEF StaleSend, At
    <3>2. QED  BY <1>0, <2>1, <2>2, <2>3, <3>1, DeliverOne
  <2>5. CASE ~Stale(c)
    <3>1. p = h[c].peer /\ p = userConnMap[Home[c]][h[c].user] /\ p # NoConn
      BY <2>1, <2>3, <2>5 DEF Stale, Targets, Entry
    <3>2. ForOwner(p, h[c].msg)
      BY <2>1, <3>1, EntryOwner
    <3>3. QED  BY <1>0, <2>1, <2>2, <2>3, <3>2, DeliverOne
  <2>6. QED  BY <2>4, <2>5
<1>4. ASSUME NEW c \in Conns, GroupSend(c) PROVE Deliveries
  <2>1. /\ h[c].msg \in Msgs /\ h[c].todo \subseteq Rcpt[h[c].msg] /\ h[c].todo \subseteq Users
    BY <1>0, <1>4 DEF GroupSend, At, IInv, HandlersOK, WellFormed, GroupPcs, Addressed,
                      ForReceiver, TypeOK, Handler
  <2>2. PICK u \in h[c].todo : /\ userConnMap[Home[c]][u] # NoConn
                               /\ Deliver(userConnMap[Home[c]][u], h[c].msg)
    BY <1>4 DEF GroupSend, Entry
  <2>3. QED  BY <1>0, <2>1, <2>2, EntryOwner, DeliverOne
<1>5. ASSUME NEW s \in Servers, Observe(s) PROVE Deliveries
  <2> DEFINE x == Head(inbox[s])
  <2>1. x \in Copy /\ x = inbox[s][1] /\ 1 \in 1..Len(inbox[s])
    BY <1>0, <1>5 DEF Observe, TypeOK, RedisTypeOK
  <2>2. x.to \in Users /\ x.msg \in Msgs /\ x.to \in Rcpt[x.msg]
    BY <2>1 DEF Copy, Addressed, PushedForReceiver
  <2>3. \/ got' = got
        \/ userConnMap[s][x.to] # NoConn /\ Deliver(userConnMap[s][x.to], x.msg)
    BY <1>5 DEF Observe
  <2>4. QED  BY <1>0, <1>1, <2>2, <2>3, EntryOwner, DeliverOne
<1>6. ASSUME NEW s \in Servers, Server(s), ~Observe(s) PROVE Deliveries
  BY <1>1, <1>6, SMTT(30) DEF Server, Execute, Kill, SigintReset, SigintExit, Restart, BreakLink,
                    Die, chatVars
<1>7. ASSUME NEW c \in Conns, Requests(c) PROVE Deliveries
  BY <1>1, <1>7 DEF Requests, LoginQuery, LogoutRequest, Vanish, OneChat, GroupChat,
                    NullRow, RaceCrash, Die, chatVars
<1>8. ASSUME NEW c \in Conns, Steps(c), ~(LoginAck(c) \/ ChatSend(c) \/ GroupSend(c))
      PROVE  Deliveries
  <2>1. CASE Login(c)
    BY <1>1, <1>8, <2>1, SMTT(30) DEF Login, LoginInsert, LoginSubscribe, LoginOnline, LoginOffline,
                            LoginRemove, chatVars
  <2>2. CASE Logout(c) \/ Close(c)
    BY <1>1, <2>2 DEF Logout, LogoutUpdate, LogoutFail, LogoutErase, LogoutUnsubscribe,
                      Close, CloseErase, CloseUnsubscribe, CloseUpdate, chatVars
  <2>3. CASE Chat(c)
    BY <1>1, <1>8, <2>3, SMTT(30) DEF Chat, ChatQuery, ChatPublish, ChatStore, chatVars
  <2>4. CASE Group(c)
    BY <1>1, <1>8, <2>4 DEF Group, GroupLock, GroupQuery, GroupPublish, GroupStore,
                            GroupDone, chatVars
  <2>5. QED  BY <1>8, <2>1, <2>2, <2>3, <2>4 DEF Steps
<1>9. QED
  BY <1>2, <1>3, <1>4, <1>5, <1>6, <1>7, <1>8 DEF Next

(* A copy of a message is sent down a connection only while one of its      *)
(* receivers is there, on each of the four ways (login:186, oneChat:287,    *)
(* groupChat:346, handleRedisSubscribeMessage:369) and with every fault;    *)
(* the exception is oneChat with an iterator whose entry was erased.        *)
THEOREM DeliveryCorrect == Spec => DeliveredToOwner
<1>1. IInv /\ Addressed /\ [Next]_vars => [Deliveries]_vars
  BY DeliveriesNext
<1>2. Spec => [][Deliveries]_vars
  BY <1>1, SessionsInvariant, AddressedInvariant, PTL DEF Spec
<1>3. QED
  BY <1>2 DEF DeliveredToOwner, Deliveries

-----------------------------------------------------------------------------
(*                      queues                                             *)

(* x is in queue q; it is there at most once. *)
Has(q, x)  == \E i \in 1..Len(q) : q[i] = x
Once(q, x) == \A i, j \in 1..Len(q) : q[i] = x /\ q[j] = x => i = j

LEMMA EmptyHas == ASSUME NEW x PROVE ~Has(<<>>, x) /\ Once(<<>>, x)
<1>1. \A i \in 1..0 : FALSE  OBVIOUS
<1>2. Len(<<>>) = 0          OBVIOUS
<1>3. QED                    BY <1>1, <1>2 DEF Has, Once

LEMMA AppendHas ==
  ASSUME NEW S, NEW q \in Seq(S), NEW x \in S, NEW y
  PROVE  /\ Has(Append(q, x), y) <=> Has(q, y) \/ x = y
         /\ Once(q, y) /\ (x = y => ~Has(q, y)) => Once(Append(q, x), y)
<1> DEFINE a == Append(q, x)
<1>1. /\ Len(q) \in Nat /\ Len(a) = Len(q) + 1 /\ a[Len(q) + 1] = x
      /\ \A i \in 1..Len(q) : a[i] = q[i]
  OBVIOUS
<1> HIDE DEF a
<1>2. Has(a, y) <=> Has(q, y) \/ x = y
  <2>1. ASSUME Has(a, y) PROVE Has(q, y) \/ x = y
    <3>1. PICK i \in 1..Len(a) : a[i] = y
      BY <2>1 DEF Has
    <3>2. i = Len(q) + 1 \/ i \in 1..Len(q)
      BY <1>1
    <3>3. QED  BY <1>1, <3>1, <3>2 DEF Has
  <2>2. ASSUME Has(q, y) PROVE Has(a, y)
    <3>1. PICK i \in 1..Len(q) : q[i] = y
      BY <2>2 DEF Has
    <3>2. i \in 1..Len(a)
      BY <1>1
    <3>3. QED  BY <1>1, <3>1, <3>2 DEF Has
  <2>3. ASSUME x = y PROVE Has(a, y)
    <3>1. Len(q) + 1 \in 1..Len(a)
      BY <1>1
    <3>2. QED  BY <1>1, <2>3, <3>1 DEF Has
  <2>4. QED  BY <2>1, <2>2, <2>3
<1>3. ASSUME Once(q, y), x = y => ~Has(q, y), NEW i \in 1..Len(a), NEW j \in 1..Len(a),
             a[i] = y, a[j] = y
      PROVE  i = j
  <2>1. (i = Len(q) + 1 \/ i \in 1..Len(q)) /\ (j = Len(q) + 1 \/ j \in 1..Len(q))
    BY <1>1
  <2>2. CASE i \in 1..Len(q) /\ j \in 1..Len(q)
    BY <1>1, <1>3, <2>2 DEF Once
  <2>3. CASE i = Len(q) + 1 /\ j = Len(q) + 1
    BY <2>3
  <2>4. CASE i = Len(q) + 1 /\ j \in 1..Len(q)
    BY <1>1, <1>3, <2>4 DEF Has
  <2>5. CASE i \in 1..Len(q) /\ j = Len(q) + 1
    BY <1>1, <1>3, <2>5 DEF Has
  <2>6. QED  BY <2>1, <2>2, <2>3, <2>4, <2>5
<1>4. QED
  BY <1>2, <1>3 DEF a, Once

LEMMA TailHas ==
  ASSUME NEW S, NEW q \in Seq(S), q # <<>>, NEW y
  PROVE  /\ Has(Tail(q), y) => Has(q, y)
         /\ Head(q) # y => (Has(Tail(q), y) <=> Has(q, y))
         /\ Head(q) = y /\ Once(q, y) => ~Has(Tail(q), y)
         /\ Once(q, y) => Once(Tail(q), y)
         /\ Head(q) \in S /\ Has(q, Head(q))
<1> DEFINE t == Tail(q)
<1>1. /\ Len(q) \in Nat \ {0} /\ Len(t) = Len(q) - 1 /\ Head(q) = q[1] /\ 1 \in 1..Len(q)
      /\ q[1] \in S
  OBVIOUS
<1>2. \A i \in 1..Len(t) : i + 1 \in 1..Len(q) /\ t[i] = q[i + 1]
  BY TailOf
<1> HIDE DEF t
<1>3. Has(t, y) => Has(q, y)
  BY <1>2 DEF Has
<1>4. ASSUME Head(q) # y, Has(q, y) PROVE Has(t, y)
  <2>1. PICK i \in 1..Len(q) : q[i] = y
    BY <1>4 DEF Has
  <2>2. i # 1
    BY <1>1, <1>4, <2>1
  <2>3. i - 1 \in 1..Len(t) /\ (i - 1) + 1 = i
    BY <1>1, <2>2
  <2>4. t[i - 1] = q[i]
    BY <1>2, <2>3
  <2>5. QED  BY <2>1, <2>3, <2>4 DEF Has
<1>5. ASSUME Head(q) = y, Once(q, y), Has(t, y) PROVE FALSE
  <2>1. PICK i \in 1..Len(t) : t[i] = y
    BY <1>5 DEF Has
  <2>2. q[1] = y /\ q[i + 1] = y /\ i + 1 \in 1..Len(q) /\ i + 1 # 1
    BY <1>1, <1>2, <1>5, <2>1
  <2>3. QED  BY <1>1, <1>5, <2>2 DEF Once
<1>6. ASSUME Once(q, y) PROVE Once(t, y)
  <2>1. ASSUME NEW i \in 1..Len(t), NEW j \in 1..Len(t), t[i] = y, t[j] = y PROVE i = j
    <3>1. i + 1 \in 1..Len(q) /\ j + 1 \in 1..Len(q) /\ q[i + 1] = y /\ q[j + 1] = y
      BY <1>2, <2>1
    <3>2. i + 1 = j + 1
      BY <1>6, <3>1 DEF Once
    <3>3. QED  BY <3>2
  <2>2. QED  BY <2>1 DEF Once
<1>7. QED
  BY <1>1, <1>3, <1>4, <1>5, <1>6 DEF t, Has

-----------------------------------------------------------------------------
(*                      the messages handlers carry                        *)

(* The handler of c carries a message exactly while it is in oneChat or     *)
(* groupChat, and it is a message of that kind, sent on c.                  *)
Carrier(x, c) ==
  /\ x.msg # NoMsg <=> x.pc \in ChatPcs \cup GroupPcs
  /\ x.msg # NoMsg => From[x.msg] = c
  /\ x.pc \in ChatPcs  => x.msg \in OneMsgs /\ Rcpt[x.msg] = {x.user}
  /\ x.pc \in GroupPcs => x.msg \notin OneMsgs
  /\ x.pc \in {"gc_publish", "gc_store"} => x.user \notin x.todo
Carriers == \A c \in Conns : Carrier(h[c], c) /\ (h[c].msg # NoMsg => h[c].msg \in sent)

LEMMA SetCarries ==
  ASSUME TypeOK, Carriers, NEW c \in Conns, NEW x, h' = [h EXCEPT ![c] = x], Carrier(x, c),
         sent \subseteq sent', x.msg # NoMsg => x.msg \in sent'
  PROVE  Carriers'
<1>1. \A d \in Conns : h'[d] = IF d = c THEN x ELSE h[d]
  BY DEF TypeOK
<1>2. \A d \in Conns : Carrier(h'[d], d) /\ (h'[d].msg # NoMsg => h'[d].msg \in sent')
  BY <1>1 DEF Carriers
<1>3. QED
  BY <1>2 DEF Carriers, Carrier

LEMMA KeepCarries == ASSUME Carriers, UNCHANGED h, sent \subseteq sent' PROVE Carriers'
BY DEF Carriers, Carrier

LEMMA GotoCarries ==
  ASSUME TypeOK, Carriers, NEW c \in Conns, NEW p, Goto(c, p), sent \subseteq sent',
         p \notin {"gc_publish", "gc_store"},
         p \in ChatPcs <=> h[c].pc \in ChatPcs, p \in GroupPcs <=> h[c].pc \in GroupPcs
  PROVE  Carriers'
<1> DEFINE x == [h[c] EXCEPT !.pc = p]
<1>1. h[c] \in Handler
  BY DEF TypeOK
<1>2. /\ x.pc = p /\ x.user = h[c].user /\ x.msg = h[c].msg /\ x.todo = h[c].todo
  BY <1>1 DEF Handler
<1>3. Carrier(x, c) /\ (x.msg # NoMsg => x.msg \in sent)
  BY <1>2 DEF Carrier, Carriers
<1>4. h' = [h EXCEPT ![c] = x]
  BY DEF Goto
<1>5. QED
  BY <1>3, <1>4, SetCarries

LEMMA IdleCarries ==
  ASSUME NEW c \in Conns, NEW p \in Pcs \ (ChatPcs \cup GroupPcs), NEW u
  PROVE  /\ Carrier([Idle EXCEPT !.pc = p, !.user = u], c) /\ Carrier(Idle, c)
         /\ [Idle EXCEPT !.pc = p, !.user = u].msg = NoMsg /\ Idle.msg = NoMsg
BY DEF Idle, Carrier, ChatPcs, GroupPcs

LEMMA FinishCarries ==
  ASSUME TypeOK, Carriers, NEW c \in Conns, Finish(c), sent \subseteq sent'
  PROVE  Carriers'
<1>1. "idle" \in Pcs \ (ChatPcs \cup GroupPcs)
  BY DEF Pcs, ChatPcs, GroupPcs
<1>2. Carrier(Idle, c) /\ Idle.msg = NoMsg
  BY <1>1, IdleCarries
<1>3. QED
  BY <1>2, SetCarries DEF Finish

LEMMA StartCarries ==
  ASSUME TypeOK, Carriers, NEW c \in Conns, NEW p \in Pcs \ (ChatPcs \cup GroupPcs), NEW u,
         h' = [h EXCEPT ![c] = [Idle EXCEPT !.pc = p, !.user = u]], UNCHANGED sent
  PROVE  Carriers'
BY IdleCarries, SetCarries

LEMMA CarriersLogin ==
  ASSUME IInv, Carriers, NEW c \in Conns, Login(c) \/ \E u \in Users : LoginQuery(c, u)
  PROVE  Carriers'
<1> USE DEF At, ChatPcs, GroupPcs
<1>0. TypeOK /\ h \in [Conns -> Handler]
  BY DEF IInv, TypeOK
<1>1. CASE \E u \in Users : LoginQuery(c, u)
  <2>1. "li_insert" \in Pcs \ (ChatPcs \cup GroupPcs)
    BY DEF Pcs, LoginPcs
  <2>2. PICK u \in Users : LoginQuery(c, u)
    BY <1>1
  <2>3. QED  BY <1>0, <2>1, <2>2, StartCarries DEF LoginQuery, chatVars
<1>2. CASE LoginInsert(c) \/ LoginSubscribe(c) \/ LoginOnline(c) \/ LoginRemove(c)
  <2>1. /\ UNCHANGED sent /\ h[c].pc \notin ChatPcs \cup GroupPcs
        /\ \E p \in {"li_subscribe", "li_online", "li_offmsg", "li_ack"} : Goto(c, p)
    BY <1>2 DEF LoginInsert, LoginSubscribe, LoginOnline, LoginRemove, chatVars
  <2>2. QED  BY <1>0, <2>1, GotoCarries
<1>3. CASE LoginOffline(c)
  <2>1. PICK rows \in {offlineMessage[h[c].user], NoRows} :
          h' = [h EXCEPT ![c].rows = rows,
                         ![c].pc = IF rows = NoRows THEN "li_ack" ELSE "li_remove"]
    BY <1>3 DEF LoginOffline
  <2> DEFINE p == IF rows = NoRows THEN "li_ack" ELSE "li_remove"
  <2> DEFINE x == [h[c] EXCEPT !.rows = rows, !.pc = p]
  <2>2. x.pc = p /\ x.msg = h[c].msg /\ h[c].pc = "li_offmsg"
    BY <1>0, <1>3 DEF Handler, LoginOffline
  <2>3. h[c].msg = NoMsg
    BY <2>2 DEF Carriers, Carrier
  <2>4. Carrier(x, c) /\ x.msg = NoMsg
    BY <2>2, <2>3 DEF Carrier
  <2>5. h' = [h EXCEPT ![c] = x] /\ UNCHANGED sent
    BY <1>0, <1>3, <2>1 DEF LoginOffline, chatVars
  <2>6. QED  BY <1>0, <2>4, <2>5, SetCarries
<1>4. CASE LoginAck(c)
  BY <1>0, <1>4, FinishCarries DEF LoginAck
<1>5. QED  BY <1>1, <1>2, <1>3, <1>4 DEF Login

LEMMA CarriersLogout ==
  ASSUME IInv, Carriers, NEW c \in Conns, Logout(c) \/ LogoutRequest(c) \/ Vanish(c) \/ Close(c)
  PROVE  Carriers'
<1> USE DEF At, ChatPcs, GroupPcs
<1>0. TypeOK
  BY DEF IInv
<1>1. CASE LogoutRequest(c)
  <2>1. "lo_lock" \in Pcs \ (ChatPcs \cup GroupPcs)
    BY DEF Pcs, LogoutPcs
  <2>2. QED  BY <1>0, <1>1, <2>1, StartCarries DEF LogoutRequest, chatVars
<1>2. CASE CloseErase(c)
  <2>1. "cl_unsub" \in Pcs \ (ChatPcs \cup GroupPcs)
    BY DEF Pcs, ClosePcs
  <2>2. PICK u : h' = [h EXCEPT ![c] = [Idle EXCEPT !.pc = "cl_unsub", !.user = u]]
    BY <1>2 DEF CloseErase
  <2>3. UNCHANGED sent
    BY <1>2 DEF CloseErase, chatVars
  <2>4. QED  BY <1>0, <2>1, <2>2, <2>3, StartCarries
<1>3. CASE Logout(c) \/ CloseUnsubscribe(c) \/ CloseUpdate(c)
  <2>1. CASE Logout(c)
    <3>1. /\ h[c].pc \notin ChatPcs \cup GroupPcs
          /\ Finish(c) \/ \E p \in {"lo_erase", "lo_unsub"} : Goto(c, p)
      BY <2>1 DEF Logout, LogoutUpdate, LogoutFail, LogoutErase, LogoutUnsubscribe
    <3>2. UNCHANGED sent
      BY <2>1 DEF Logout, LogoutUpdate, LogoutFail, LogoutErase, LogoutUnsubscribe, chatVars
    <3>3. QED  BY <1>0, <3>1, <3>2, GotoCarries, FinishCarries
  <2>2. CASE CloseUnsubscribe(c) \/ CloseUpdate(c)
    <3>1. h[c].pc \notin ChatPcs \cup GroupPcs /\ UNCHANGED sent
      BY <2>2 DEF CloseUnsubscribe, CloseUpdate, chatVars
    <3>2. Finish(c) \/ Goto(c, "cl_update")
      BY <2>2, SMTT(30) DEF CloseUnsubscribe, CloseUpdate
    <3>3. QED  BY <1>0, <3>1, <3>2, GotoCarries, FinishCarries
  <2>3. QED  BY <1>3, <2>1, <2>2
<1>4. CASE Vanish(c)
  BY <1>4, KeepCarries DEF Vanish, chatVars
<1>5. QED  BY <1>1, <1>2, <1>3, <1>4 DEF Close

LEMMA CarriersChat ==
  ASSUME IInv, Carriers, NEW c \in Conns,
         Chat(c) \/ \E m \in Msgs : OneChat(c, m) \/ GroupChat(c, m)
  PROVE  Carriers'
<1> USE DEF At, ChatPcs, GroupPcs
<1>0. TypeOK
  BY DEF IInv
<1>1. ASSUME NEW m \in Msgs, OneChat(c, m) PROVE Carriers'
  <2>1. PICK u, p : /\ u \in Rcpt[m]
                    /\ h' = [h EXCEPT ![c] =
                         [Idle EXCEPT !.pc = IF p = NoConn THEN "oc_query" ELSE "oc_send",
                                      !.user = u, !.msg = m, !.peer = p]]
    BY <1>1 DEF OneChat
  <2> DEFINE x == [Idle EXCEPT !.pc = IF p = NoConn THEN "oc_query" ELSE "oc_send",
                               !.user = u, !.msg = m, !.peer = p]
  <2>2. x.pc \in {"oc_query", "oc_send"} /\ x.user = u /\ x.msg = m
    BY DEF Idle
  <2>3. m \in OneMsgs /\ From[m] = c /\ sent' = sent \cup {m} /\ m # NoMsg
    BY <1>1, ServiceOK DEF OneChat, CanSend
  <2>6. Rcpt[m] = {u}
    BY <2>1, <2>3, ServiceOK
  <2>4. Carrier(x, c) /\ x.msg \in sent'
    BY <2>2, <2>3, <2>6 DEF Carrier
  <2>5. QED  BY <1>0, <2>1, <2>3, <2>4, SetCarries
<1>2. ASSUME NEW m \in Msgs, GroupChat(c, m) PROVE Carriers'
  <2>1. PICK g : h' = [h EXCEPT ![c] = [Idle EXCEPT !.pc = "gc_lock", !.msg = m, !.todo = g]]
    BY <1>2 DEF GroupChat
  <2> DEFINE x == [Idle EXCEPT !.pc = "gc_lock", !.msg = m, !.todo = g]
  <2>2. x.pc = "gc_lock" /\ x.msg = m
    BY DEF Idle
  <2>3. m \notin OneMsgs /\ From[m] = c /\ sent' = sent \cup {m} /\ m # NoMsg
    BY <1>2, ServiceOK DEF GroupChat, CanSend
  <2>4. Carrier(x, c) /\ x.msg \in sent'
    BY <2>2, <2>3 DEF Carrier
  <2>5. QED  BY <1>0, <2>1, <2>3, <2>4, SetCarries
<1>3. CASE ChatQuery(c)
  <2>1. h[c].pc \in ChatPcs /\ UNCHANGED sent /\ \E p \in {"oc_publish", "oc_store"} : Goto(c, p)
    BY <1>3 DEF ChatQuery, chatVars
  <2>2. QED  BY <1>0, <2>1, GotoCarries
<1>4. CASE ChatSend(c) \/ ChatPublish(c) \/ ChatStore(c)
  <2>1. Finish(c) /\ UNCHANGED sent
    BY <1>4 DEF ChatSend, ChatPublish, ChatStore, chatVars
  <2>2. QED  BY <1>0, <2>1, FinishCarries
<1>5. QED  BY <1>1, <1>2, <1>3, <1>4 DEF Chat

LEMMA CarriersGroup ==
  ASSUME IInv, Carriers, NEW c \in Conns, Group(c)
  PROVE  Carriers'
<1> USE DEF At, ChatPcs, GroupPcs
<1>0. TypeOK /\ h \in [Conns -> Handler]
  BY DEF IInv, TypeOK
<1>1. UNCHANGED sent
  BY DEF Group, GroupLock, GroupSend, GroupQuery, GroupPublish, GroupStore, GroupDone, chatVars
<1>2. CASE GroupLock(c) \/ GroupPublish(c) \/ GroupStore(c)
  <2>1. h[c].pc \in GroupPcs /\ Goto(c, "gc_next")
    BY <1>2 DEF GroupLock, GroupPublish, GroupStore
  <2>2. QED  BY <1>0, <1>1, <2>1, GotoCarries
<1>3. CASE GroupDone(c)
  BY <1>0, <1>1, <1>3, FinishCarries DEF GroupDone
<1>4. CASE GroupSend(c)
  <2>1. PICK u : h' = [h EXCEPT ![c].todo = @ \ {u}]
    BY <1>4 DEF GroupSend
  <2> DEFINE x == [h[c] EXCEPT !.todo = @ \ {u}]
  <2>2. x.pc = h[c].pc /\ x.msg = h[c].msg /\ h[c].pc = "gc_next"
    BY <1>0, <1>4 DEF Handler, GroupSend
  <2>3. Carrier(x, c) /\ (x.msg # NoMsg => x.msg \in sent)
    BY <2>2 DEF Carrier, Carriers
  <2>4. h' = [h EXCEPT ![c] = x]
    BY <1>0, <2>1
  <2>5. QED  BY <1>0, <1>1, <2>3, <2>4, SetCarries
<1>5. CASE GroupQuery(c)
  <2>1. PICK u \in h[c].todo, p \in {"gc_publish", "gc_store"} :
          h' = [h EXCEPT ![c].todo = @ \ {u}, ![c].user = u, ![c].pc = p]
    BY <1>5 DEF GroupQuery
  <2> DEFINE x == [h[c] EXCEPT !.todo = @ \ {u}, !.user = u, !.pc = p]
  <2>2. /\ x.pc = p /\ x.msg = h[c].msg /\ x.user = u /\ x.todo = h[c].todo \ {u}
        /\ h[c].pc = "gc_next"
    BY <1>0, <1>5 DEF Handler, GroupQuery
  <2>3. Carrier(x, c) /\ (x.msg # NoMsg => x.msg \in sent)
    BY <2>1, <2>2 DEF Carrier, Carriers
  <2>4. h' = [h EXCEPT ![c] = x]
    BY <1>0, <2>1
  <2>5. QED  BY <1>0, <1>1, <2>3, <2>4, SetCarries
<1>6. QED  BY <1>2, <1>3, <1>4, <1>5 DEF Group

LEMMA CarriersServer ==
  ASSUME IInv, Carriers,
         \/ \E s \in Servers : Server(s)
         \/ \E c \in Conns : NullRow(c) \/ RaceCrash(c)
  PROVE  Carriers'
<1>1. ASSUME NEW s, NEW how, Die(s, how) PROVE Carriers'
  <2>1. (\A d \in Conns : h'[d] = Idle \/ h'[d] = h[d]) /\ UNCHANGED sent
    BY <1>1 DEF Die, chatVars
  <2>2. "idle" \in Pcs \ (ChatPcs \cup GroupPcs)
    BY DEF Pcs, ChatPcs, GroupPcs
  <2>3. \A d \in Conns : Carrier(h'[d], d) /\ (h'[d].msg # NoMsg => h'[d].msg \in sent')
    BY <2>1, <2>2, IdleCarries DEF Carriers
  <2>4. QED  BY <2>3 DEF Carriers, Carrier
<1>2. ASSUME NEW s \in Servers, Server(s), ~(Kill(s) \/ SigintExit(s)) PROVE Carriers'
  <2>1. UNCHANGED h /\ UNCHANGED sent
    BY <1>2, SMTT(30) DEF Server, Observe, Execute, SigintReset, Restart, BreakLink, chatVars
  <2>2. QED  BY <2>1, KeepCarries
<1>3. QED  BY <1>1, <1>2 DEF Kill, SigintExit, NullRow, RaceCrash

LEMMA CarriersNext == IInv /\ Carriers /\ [Next]_vars => Carriers'
<1> SUFFICES ASSUME IInv, Carriers, [Next]_vars PROVE Carriers'
  OBVIOUS
<1>1. ASSUME NEW c \in Conns, Requests(c) \/ Steps(c) PROVE Carriers'
  BY <1>1, CarriersLogin, CarriersLogout, CarriersChat, CarriersGroup, CarriersServer
     DEF Requests, Steps
<1>2. CASE UNCHANGED vars
  BY <1>2, KeepCarries DEF vars, chatVars
<1>3. QED  BY <1>1, <1>2, CarriersServer DEF Next

LEMMA CarriersInvariant == Spec => []Carriers
<1>1. Init => Carriers
  <2> SUFFICES ASSUME Init PROVE Carriers
    OBVIOUS
  <2>1. "idle" \in Pcs \ (ChatPcs \cup GroupPcs)
    BY DEF Pcs, ChatPcs, GroupPcs
  <2>2. QED  BY <2>1, IdleCarries DEF Init, Carriers
<1>2. QED
  BY <1>1, CarriersNext, SessionsInvariant, PTL DEF Spec

-----------------------------------------------------------------------------
(*                      copies that do not move                            *)

CopyFor(u, m) == [to |-> u, msg |-> m]

(* The channels get no copy of m; a step makes no copy of m and moves none, *)
(* though it may lose some.                                                 *)
NoPush(m) == \A s \in Servers, u \in Users : Has(inbox'[s], CopyFor(u, m)) =>
  /\ Has(inbox[s], CopyFor(u, m))
  /\ Once(inbox[s], CopyFor(u, m)) => Once(inbox'[s], CopyFor(u, m))

NoMore(m) ==
  /\ \A c \in Conns : got'[c][m] = got[c][m]
  /\ \A u \in Users : offlineMessage'[u][m] <= offlineMessage[u][m]
  /\ NoPush(m)
  /\ \A c \in Conns :
       /\ h'[c].msg = m => h[c].msg = m
       /\ h'[c].pc = "li_ack" /\ h'[c].rows[m] # 0 =>
             h[c].pc = "li_ack" /\ h'[c].rows[m] = h[c].rows[m]
       /\ h'[c].pc = "li_remove" =>
             h'[c] = h[c] \/ h'[c].rows[m] <= offlineMessage'[h'[c].user][m]

LEMMA GotoLocals ==
  ASSUME TypeOK, NEW c \in Conns, NEW p, Goto(c, p)
  PROVE  /\ h'[c].pc = p /\ h'[c].user = h[c].user /\ h'[c].msg = h[c].msg
         /\ h'[c].todo = h[c].todo /\ h'[c].rows = h[c].rows /\ h'[c].peer = h[c].peer
         /\ \A d \in Conns : d # c => h'[d] = h[d]
<1>1. h \in [Conns -> Handler]
  BY DEF TypeOK
<1>2. h' = [h EXCEPT ![c] = [h[c] EXCEPT !.pc = p]] /\ h[c] \in Handler
  BY <1>1 DEF Goto
<1>3. QED
  BY <1>1, <1>2 DEF Handler

LEMMA FinishLocals ==
  ASSUME TypeOK, NEW c \in Conns, Finish(c)
  PROVE  h'[c] = Idle /\ \A d \in Conns : d # c => h'[d] = h[d]
BY DEF TypeOK, Finish

LEMMA IdleLocals ==
  ASSUME NEW p, NEW u
  PROVE  /\ Idle.pc = "idle" /\ Idle.msg = NoMsg /\ Idle.user = NoUser /\ Idle.todo = {}
         /\ [Idle EXCEPT !.pc = p, !.user = u].pc = p
         /\ [Idle EXCEPT !.pc = p, !.user = u].msg = NoMsg
         /\ [Idle EXCEPT !.pc = p, !.user = u].user = u
BY DEF Idle

(* The handler of c does not get m and has read nothing. *)
Plain(c, m) == (h'[c].msg = m => h[c].msg = m) /\ h'[c].pc \notin {"li_ack", "li_remove"}

LEMMA NoMoreFrame ==
  ASSUME TypeOK, NEW m \in Msgs,
         \A c \in Conns : got'[c][m] = got[c][m],
         \A u \in Users : offlineMessage'[u][m] = offlineMessage[u][m],
         NoPush(m),
         \A c \in Conns : h'[c] = h[c] \/ Plain(c, m)
  PROVE  NoMore(m)
<1>1. \A u \in Users : offlineMessage[u][m] \in Nat
  BY DEF TypeOK, DbTypeOK
<1>2. QED
  BY <1>1 DEF NoMore, Plain

(* Channels lose at most everything. *)
LEMMA LossKept ==
  ASSUME \A s \in Servers : inbox'[s] \in {inbox[s], <<>>}, NEW m
  PROVE  NoPush(m)
<1>1. \A s \in Servers, u \in Users : Has(inbox'[s], CopyFor(u, m)) => inbox'[s] = inbox[s]
  BY EmptyHas
<1>2. QED
  BY <1>1 DEF NoPush

LEMMA QuietFrame ==
  ASSUME TypeOK, NEW m \in Msgs, UNCHANGED <<got, offlineMessage>>,
         \A s \in Servers : inbox'[s] \in {inbox[s], <<>>},
         \A c \in Conns : h'[c] = h[c] \/ Plain(c, m)
  PROVE  NoMore(m)
BY LossKept, NoMoreFrame

LEMMA SubscribeInbox ==
  ASSUME RedisTypeOK, NEW s \in Servers, NEW u, NEW torn,
         subscribe(s, u, torn) \/ unsubscribe(s, u, torn)
  PROVE  /\ \A r \in Servers : inbox'[r] \in {inbox[r], <<>>}
         /\ ~torn => UNCHANGED inbox
BY DEF subscribe, unsubscribe, WriteCommand, Garble, Disconnect, redisVars, RedisTypeOK

LEMMA SessionsNoMore ==
  ASSUME IInv, NEW c \in Conns, NEW m \in Msgs,
         \/ Login(c) /\ ~LoginRemove(c) /\ ~LoginAck(c)
         \/ \E u \in Users : LoginQuery(c, u)
         \/ Logout(c) \/ LogoutRequest(c) \/ Close(c) \/ Vanish(c)
  PROVE  NoMore(m)
<1> USE DEF At
<1>0. TypeOK /\ RedisTypeOK /\ DbTypeOK /\ h \in [Conns -> Handler] /\ Home[c] \in Servers
  BY ServiceOK DEF IInv, TypeOK
<1>1. CASE (\E u \in Users : LoginQuery(c, u)) \/ LogoutRequest(c) \/ CloseErase(c)
  <2>1. PICK p \in {"li_insert", "lo_lock", "cl_unsub"} :
          \E u : h' = [h EXCEPT ![c] = [Idle EXCEPT !.pc = p, !.user = u]]
    BY <1>1 DEF LoginQuery, LogoutRequest, CloseErase
  <2>2. PICK u : h' = [h EXCEPT ![c] = [Idle EXCEPT !.pc = p, !.user = u]]
    BY <2>1
  <2>3. UNCHANGED <<got, offlineMessage, inbox>>
    BY <1>1 DEF LoginQuery, LogoutRequest, CloseErase, chatVars, dbVars, redisVars
  <2>4. \A d \in Conns : h'[d] = h[d] \/ Plain(d, m)
    BY <1>0, <2>1, <2>2, IdleLocals, ServiceOK DEF Plain
  <2>5. QED  BY <1>0, <2>3, <2>4, QuietFrame
<1>2. CASE Vanish(c)
  BY <1>0, <1>2, QuietFrame DEF Vanish, chatVars, dbVars, redisVars
<1>3. CASE \/ LoginInsert(c) \/ LoginSubscribe(c) \/ LoginOnline(c)
           \/ Logout(c) \/ CloseUnsubscribe(c) \/ CloseUpdate(c)
  <2>1. Finish(c) \/ \E p \in {"li_subscribe", "li_online", "li_offmsg", "lo_erase", "lo_unsub",
                              "cl_update"} : Goto(c, p)
    BY <1>3, SMTT(30) DEF LoginInsert, LoginSubscribe, LoginOnline, Logout, LogoutUpdate, LogoutFail,
                LogoutErase, LogoutUnsubscribe, CloseUnsubscribe, CloseUpdate
  <2>2. \A d \in Conns : h'[d] = h[d] \/ Plain(d, m)
    BY <1>0, <2>1, GotoLocals, FinishLocals, IdleLocals, ServiceOK DEF Plain
  <2>3. UNCHANGED <<got, offlineMessage>>
    BY <1>3, SMTT(30) DEF LoginInsert, LoginSubscribe, LoginOnline, Logout, LogoutUpdate, LogoutFail,
                LogoutErase, LogoutUnsubscribe, CloseUnsubscribe, CloseUpdate, UpdateState,
                chatVars, dbVars
  <2>4. \A s \in Servers : inbox'[s] \in {inbox[s], <<>>}
    <3>1. CASE LoginSubscribe(c) \/ LogoutUnsubscribe(c) \/ CloseUnsubscribe(c)
      BY <1>0, <3>1, SubscribeInbox DEF LoginSubscribe, LogoutUnsubscribe, CloseUnsubscribe
    <3>2. CASE \/ LoginInsert(c) \/ LoginOnline(c) \/ LogoutUpdate(c) \/ LogoutFail(c)
               \/ LogoutErase(c) \/ CloseUpdate(c)
      BY <3>2 DEF LoginInsert, LoginOnline, LogoutUpdate, LogoutFail, LogoutErase, CloseUpdate,
                  redisVars
    <3>3. QED  BY <1>3, <3>1, <3>2 DEF Logout
  <2>5. QED  BY <1>0, <2>2, <2>3, <2>4, QuietFrame
<1>4. CASE LoginOffline(c)
  (* What is read is in the table, and what it is answered with is nothing yet. *)
  <2>1. PICK rows \in {offlineMessage[h[c].user], NoRows} :
          h' = [h EXCEPT ![c].rows = rows,
                         ![c].pc = IF rows = NoRows THEN "li_ack" ELSE "li_remove"]
    BY <1>4 DEF LoginOffline
  <2>2. UNCHANGED <<got, offlineMessage, inbox>> /\ h[c].user \in Users
    BY <1>4 DEF LoginOffline, chatVars, dbVars, redisVars, IInv, HandlersOK, WellFormed,
                NeedsUser, LoginPcs
  <2>3. /\ h'[c].msg = h[c].msg /\ h'[c].rows = rows /\ h'[c].user = h[c].user
        /\ h'[c].pc = IF rows = NoRows THEN "li_ack" ELSE "li_remove"
        /\ \A d \in Conns : d # c => h'[d] = h[d]
    BY <1>0, <2>1 DEF Handler
  <2>4. \A u \in Users : offlineMessage[u][m] \in Nat
    BY <1>0 DEF DbTypeOK
  <2>5. h'[c].pc = "li_ack" => h'[c].rows[m] = 0
    BY <2>3 DEF NoRows
  <2>6. h'[c].pc = "li_remove" => h'[c].rows[m] <= offlineMessage'[h'[c].user][m]
    BY <2>1, <2>2, <2>3, <2>4
  <2>7. NoPush(m)
    BY <2>2, LossKept
  <2>8. QED  BY <2>2, <2>3, <2>4, <2>5, <2>6, <2>7 DEF NoMore
<1>5. QED
  BY <1>1, <1>2, <1>3, <1>4 DEF Login, Close

LEMMA PushKept ==
  ASSUME RedisTypeOK, NEW s \in Servers, NEW u \in Users, NEW n \in Msgs, NEW torn,
         publish(s, u, n, torn), NEW m \in Msgs, m # n
  PROVE  NoPush(m)
<1> DEFINE x == CopyFor(u, n)
<1>1. CASE Garble(s, "pub")
  <2>1. \A r \in Servers : inbox'[r] \in {inbox[r], <<>>}
    BY <1>1 DEF Garble, Disconnect, redisVars, RedisTypeOK
  <2>2. QED  BY <2>1, LossKept
<1>2. CASE Push(s, u, n, 1) \/ Push(s, u, n, 2)
  <2>1. ASSUME NEW r \in Servers, NEW v \in Users, Has(inbox'[r], CopyFor(v, m))
        PROVE  /\ Has(inbox[r], CopyFor(v, m))
               /\ Once(inbox[r], CopyFor(v, m)) => Once(inbox'[r], CopyFor(v, m))
    <3> DEFINE q == inbox[r]  y == CopyFor(v, m)  a == Append(q, x)
    <3>1. q \in Seq(Copy) /\ x \in Copy /\ x # y
      BY DEF RedisTypeOK, Copy, CopyFor
    <3>2. a \in Seq(Copy)
      BY <3>1
    <3>3. inbox'[r] \in {q, a, Append(a, x)}
      BY <1>2 DEF Push, CopyFor
    <3> HIDE DEF x, y, q, a
    <3>4. /\ Has(a, y) <=> Has(q, y)
          /\ Once(q, y) => Once(a, y)
      BY <3>1, AppendHas DEF a
    <3>5. /\ Has(Append(a, x), y) <=> Has(a, y)
          /\ Once(a, y) => Once(Append(a, x), y)
      BY <3>1, <3>2, AppendHas
    <3>6. Has(inbox'[r], y)
      BY <2>1 DEF y
    <3>7. Has(q, y) /\ (Once(q, y) => Once(inbox'[r], y))
      BY <3>3, <3>4, <3>5, <3>6
    <3>8. QED  BY <3>7 DEF q, y
  <2>2. QED  BY <2>1 DEF NoPush
<1>3. QED  BY <1>1, <1>2 DEF publish

LEMMA ConsumeKept ==
  ASSUME RedisTypeOK, NEW s \in Servers, inbox[s] # <<>>, Consume(s), NEW m
  PROVE  NoPush(m)
<1>1. ASSUME NEW r \in Servers, NEW v \in Users, Has(inbox'[r], CopyFor(v, m))
      PROVE  /\ Has(inbox[r], CopyFor(v, m))
             /\ Once(inbox[r], CopyFor(v, m)) => Once(inbox'[r], CopyFor(v, m))
  <2>1. inbox[r] \in Seq(Copy) /\ inbox'[r] = IF r = s THEN Tail(inbox[r]) ELSE inbox[r]
    BY DEF RedisTypeOK, Consume
  <2>2. CASE r = s
    <3>1. inbox[r] # <<>> /\ inbox'[r] = Tail(inbox[r])
      BY <2>1, <2>2
    <3>2. QED  BY <1>1, <2>1, <3>1, TailHas
  <2>3. CASE r # s
    BY <1>1, <2>1, <2>3
  <2>4. QED  BY <2>2, <2>3
<1>2. QED
  BY <1>1 DEF NoPush

LEMMA DeliverKept ==
  ASSUME TypeOK, NEW p \in Conns, NEW n \in Msgs, Deliver(p, n), NEW m \in Msgs, m # n
  PROVE  \A c \in Conns : got'[c][m] = got[c][m]
BY DEF TypeOK, Deliver

LEMMA StoreKept ==
  ASSUME DbTypeOK, NEW u \in Users, NEW n \in Msgs, StoreOffline(u, n), NEW m \in Msgs, m # n
  PROVE  \A v \in Users : offlineMessage'[v][m] = offlineMessage[v][m]
BY DEF DbTypeOK, StoreOffline

(* oneChat and groupChat with another message. *)
LEMMA StartNoMore ==
  ASSUME IInv, NEW c \in Conns, NEW n \in Msgs, OneChat(c, n) \/ GroupChat(c, n),
         NEW m \in Msgs, m # n
  PROVE  NoMore(m)
<1>0. TypeOK /\ h \in [Conns -> Handler]
  BY DEF IInv, TypeOK
<1>1. UNCHANGED <<got, offlineMessage, inbox>>
  BY DEF OneChat, GroupChat, dbVars, redisVars
<1>2. PICK x : h' = [h EXCEPT ![c] = x] /\ x.msg = n /\ x.pc \notin {"li_ack", "li_remove"}
  <2>1. CASE OneChat(c, n)
    <3>1. PICK u, p : h' = [h EXCEPT ![c] =
             [Idle EXCEPT !.pc = IF p = NoConn THEN "oc_query" ELSE "oc_send",
                          !.user = u, !.msg = n, !.peer = p]]
      BY <2>1 DEF OneChat
    <3> DEFINE x == [Idle EXCEPT !.pc = IF p = NoConn THEN "oc_query" ELSE "oc_send",
                                 !.user = u, !.msg = n, !.peer = p]
    <3>2. x.msg = n /\ x.pc \notin {"li_ack", "li_remove"}
      BY DEF Idle
    <3>3. QED  BY <3>1, <3>2
  <2>2. CASE GroupChat(c, n)
    <3>1. PICK g : h' = [h EXCEPT ![c] = [Idle EXCEPT !.pc = "gc_lock", !.msg = n, !.todo = g]]
      BY <2>2 DEF GroupChat
    <3> DEFINE x == [Idle EXCEPT !.pc = "gc_lock", !.msg = n, !.todo = g]
    <3>2. x.msg = n /\ x.pc \notin {"li_ack", "li_remove"}
      BY DEF Idle
    <3>3. QED  BY <3>1, <3>2
  <2>3. QED  BY <2>1, <2>2
<1>3. \A d \in Conns : h'[d] = h[d] \/ Plain(d, m)
  BY <1>0, <1>2 DEF Plain
<1>4. QED
  BY <1>0, <1>1, <1>3, QuietFrame

(* A handler passes on a copy of the message it carries.                    *)
Passes(c) == ChatSend(c) \/ ChatPublish(c) \/ ChatStore(c)
            \/ GroupSend(c) \/ GroupPublish(c) \/ GroupStore(c)

(* Where the handlers of oneChat and groupChat go from here. *)
LEMMA ChatLocals ==
  ASSUME IInv, NEW c \in Conns, Chat(c) \/ Group(c)
  PROVE  /\ \A d \in Conns : d # c => h'[d] = h[d]
         /\ h'[c].msg \in {h[c].msg, NoMsg} /\ h'[c].pc \in {"idle"} \cup ChatPcs \cup GroupPcs
         /\ h[c].msg \in Msgs /\ Home[c] \in Servers
         /\ h[c].pc \in ChatPcs \cup {"gc_publish", "gc_store"} => h[c].user \in Users
         /\ h[c].todo \subseteq Users
<1>0. TypeOK /\ h \in [Conns -> Handler] /\ HandlersOK
  BY DEF IInv, TypeOK
<1>1. CASE GroupSend(c)
  <2>1. PICK u : h' = [h EXCEPT ![c].todo = @ \ {u}]
    BY <1>1 DEF GroupSend
  <2>2. h'[c].msg = h[c].msg /\ h'[c].pc = "gc_next" /\ \A d \in Conns : d # c => h'[d] = h[d]
    BY <1>0, <1>1, <2>1 DEF Handler, GroupSend, At
  <2>3. QED  BY <1>0, <1>1, <2>2, ServiceOK
             DEF GroupSend, At, HandlersOK, WellFormed, GroupPcs, ChatPcs, Handler
<1>2. CASE GroupQuery(c)
  <2>1. PICK u \in h[c].todo, p \in {"gc_publish", "gc_store"} :
          h' = [h EXCEPT ![c].todo = @ \ {u}, ![c].user = u, ![c].pc = p]
    BY <1>2 DEF GroupQuery
  <2>2. h'[c].msg = h[c].msg /\ h'[c].pc = p /\ \A d \in Conns : d # c => h'[d] = h[d]
    BY <1>0, <2>1 DEF Handler
  <2>3. QED  BY <1>0, <1>2, <2>2, ServiceOK
             DEF GroupQuery, At, HandlersOK, WellFormed, GroupPcs, ChatPcs, Handler
<1>3. CASE Chat(c) \/ GroupLock(c) \/ GroupPublish(c) \/ GroupStore(c) \/ GroupDone(c)
  <2>1. Finish(c) \/ \E p \in {"oc_publish", "oc_store", "gc_next"} : Goto(c, p)
    BY <1>3 DEF Chat, ChatSend, ChatQuery, ChatPublish, ChatStore,
                GroupLock, GroupPublish, GroupStore, GroupDone
  <2>2. /\ \A d \in Conns : d # c => h'[d] = h[d]
        /\ h'[c].msg \in {h[c].msg, NoMsg} /\ h'[c].pc \in {"idle"} \cup ChatPcs \cup GroupPcs
    BY <1>0, <2>1, GotoLocals, FinishLocals, IdleLocals DEF ChatPcs, GroupPcs
  <2>3. h[c].pc \in ChatPcs \cup GroupPcs
    BY <1>3 DEF Chat, ChatSend, ChatQuery, ChatPublish, ChatStore, At, ChatPcs, GroupPcs,
                GroupLock, GroupPublish, GroupStore, GroupDone
  <2>4. /\ h[c].msg \in Msgs /\ Home[c] \in Servers /\ h[c].todo \subseteq Users
        /\ h[c].pc \in ChatPcs \cup {"gc_publish", "gc_store"} => h[c].user \in Users
    BY <1>0, <2>3, ServiceOK DEF HandlersOK, WellFormed, NeedsUser, Handler
  <2>5. QED  BY <2>2, <2>4
<1>4. QED  BY <1>1, <1>2, <1>3 DEF Group

LEMMA ChatNoMore ==
  ASSUME IInv, NEW c \in Conns, Chat(c) \/ Group(c), NEW m \in Msgs, Passes(c) => h[c].msg # m
  PROVE  NoMore(m)
<1> USE DEF At
<1>0. /\ TypeOK /\ RedisTypeOK /\ DbTypeOK
      /\ userConnMap \in [Servers -> [Users -> Conns \cup {NoConn}]]
  BY DEF IInv, TypeOK
<1>1. /\ h[c].msg \in Msgs /\ Home[c] \in Servers /\ h[c].todo \subseteq Users
      /\ h[c].pc \in ChatPcs \cup {"gc_publish", "gc_store"} => h[c].user \in Users
  BY ChatLocals
<1>2. \A d \in Conns : h'[d] = h[d] \/ Plain(d, m)
  BY ChatLocals, ServiceOK DEF Plain, ChatPcs, GroupPcs
<1>3. CASE ChatQuery(c) \/ GroupLock(c) \/ GroupQuery(c) \/ GroupDone(c)
  <2>1. UNCHANGED <<got, offlineMessage, inbox>>
    BY <1>3 DEF ChatQuery, GroupLock, GroupQuery, GroupDone, chatVars, dbVars, redisVars
  <2>2. QED  BY <1>0, <1>2, <2>1, QuietFrame
<1>4. CASE ChatSend(c) \/ GroupSend(c)
  <2>1. PICK p \in Conns : Deliver(p, h[c].msg)
    <3>1. CASE ChatSend(c)
      <4>1. h[c].peer \in Conns /\ h[c].user \in Users
        BY <3>1 DEF ChatSend, IInv, HandlersOK, WellFormed, NeedsUser, ChatPcs
      <4>2. \A p \in Targets(c) : p \in Conns
        BY <1>0, <1>1, <4>1 DEF Targets, Entry
      <4>3. QED  BY <3>1, <4>2 DEF ChatSend
    <3>2. CASE GroupSend(c)
      BY <1>0, <1>1, <3>2 DEF GroupSend, Entry
    <3>3. QED  BY <1>4, <3>1, <3>2
  <2>2. UNCHANGED <<offlineMessage, inbox>> /\ h[c].msg # m
    BY <1>4 DEF ChatSend, GroupSend, dbVars, redisVars, Passes
  <2>3. \A d \in Conns : got'[d][m] = got[d][m]
    BY <1>0, <1>1, <2>1, <2>2, DeliverKept
  <2>4. NoPush(m)
    BY <2>2, LossKept
  <2>5. QED  BY <1>0, <1>2, <2>2, <2>3, <2>4, NoMoreFrame
<1>5. CASE ChatPublish(c) \/ GroupPublish(c)
  <2>1. /\ publish(Home[c], h[c].user, h[c].msg, Torn(c, PublishPcs))
        /\ UNCHANGED <<got, offlineMessage>> /\ h[c].msg # m /\ h[c].user \in Users
    BY <1>1, <1>5 DEF ChatPublish, GroupPublish, chatVars, dbVars, Passes, ChatPcs
  <2>2. NoPush(m)
    BY <1>0, <1>1, <2>1, PushKept
  <2>3. QED  BY <1>0, <1>2, <2>1, <2>2, NoMoreFrame
<1>6. CASE ChatStore(c) \/ GroupStore(c)
  <2>1. /\ StoreOffline(h[c].user, h[c].msg) /\ UNCHANGED <<got, inbox>>
        /\ h[c].msg # m /\ h[c].user \in Users
    BY <1>1, <1>6 DEF ChatStore, GroupStore, chatVars, redisVars, Passes, ChatPcs
  <2>2. NoPush(m)
    BY <2>1, LossKept
  <2>3. \A v \in Users : offlineMessage'[v][m] = offlineMessage[v][m]
    BY <1>0, <1>1, <2>1, StoreKept
  <2>4. QED  BY <1>0, <1>2, <2>1, <2>2, <2>3, NoMoreFrame
<1>7. QED
  BY <1>3, <1>4, <1>5, <1>6 DEF Chat, Group

LEMMA HeadCopy ==
  ASSUME IInv, NEW s \in Servers, Observe(s)
  PROVE  LET x == Head(inbox[s]) IN
         /\ inbox[s] \in Seq(Copy) /\ inbox[s] # <<>>
         /\ x \in Copy /\ x.to \in Users /\ x.msg \in Msgs /\ x = CopyFor(x.to, x.msg)
         /\ Has(inbox[s], x)
<1>1. inbox[s] \in Seq(Copy) /\ inbox[s] # <<>>
  BY DEF Observe, IInv, TypeOK, RedisTypeOK
<1>2. Head(inbox[s]) \in Copy /\ Has(inbox[s], Head(inbox[s]))
  BY <1>1, TailHas
<1>3. QED
  BY <1>1, <1>2 DEF Copy, CopyFor

LEMMA ObserveNoMore ==
  ASSUME IInv, NEW s \in Servers, Observe(s), NEW m \in Msgs, Head(inbox[s]).msg # m
  PROVE  NoMore(m)
<1> DEFINE x == Head(inbox[s])
<1>0. /\ TypeOK /\ RedisTypeOK /\ DbTypeOK
      /\ userConnMap \in [Servers -> [Users -> Conns \cup {NoConn}]]
  BY DEF IInv, TypeOK
<1>1. x.to \in Users /\ x.msg \in Msgs /\ inbox[s] # <<>>
  BY HeadCopy
<1>2. UNCHANGED h /\ Consume(s)
  BY DEF Observe
<1>3. NoPush(m)
  BY <1>0, <1>1, <1>2, ConsumeKept
<1>4. \/ UNCHANGED offlineMessage /\ \E p \in Conns : Deliver(p, x.msg)
      \/ UNCHANGED got /\ StoreOffline(x.to, x.msg)
  BY <1>0, <1>1 DEF Observe, dbVars
<1>5. /\ \A c \in Conns : got'[c][m] = got[c][m]
      /\ \A u \in Users : offlineMessage'[u][m] = offlineMessage[u][m]
  BY <1>0, <1>1, <1>4, DeliverKept, StoreKept
<1>6. QED
  BY <1>0, <1>2, <1>3, <1>5, NoMoreFrame

LEMMA RemoveNoMore ==
  ASSUME IInv, NEW c \in Conns, LoginRemove(c), NEW m \in Msgs, h[c].rows[m] = 0
  PROVE  NoMore(m)
<1>0. TypeOK /\ DbTypeOK /\ h[c].user \in Users
  BY DEF IInv, TypeOK, LoginRemove, At, HandlersOK, WellFormed, NeedsUser, LoginPcs
<1>1. UNCHANGED <<got, inbox>>
  BY DEF LoginRemove, chatVars, redisVars
<1>2. NoPush(m)
  BY <1>1, LossKept
<1>3. \A u \in Users : offlineMessage[u][m] \in Nat /\ offlineMessage'[u][m] <= offlineMessage[u][m]
  BY <1>0 DEF LoginRemove, RemoveOffline, DbTypeOK, NoRows
<1>4. /\ h'[c].pc = "li_ack" /\ h'[c].msg = h[c].msg /\ h'[c].rows = h[c].rows
      /\ \A d \in Conns : d # c => h'[d] = h[d]
  BY <1>0, GotoLocals DEF LoginRemove
<1>5. QED
  BY <1>1, <1>2, <1>3, <1>4 DEF NoMore

LEMMA AckNoMore ==
  ASSUME IInv, NEW c \in Conns, LoginAck(c), NEW m \in Msgs, h[c].rows[m] = 0
  PROVE  NoMore(m)
<1>0. TypeOK /\ DbTypeOK /\ got \in [Conns -> [Msgs -> Nat]]
  BY DEF IInv, TypeOK
<1>1. UNCHANGED <<offlineMessage, inbox>>
  BY DEF LoginAck, dbVars, redisVars
<1>2. NoPush(m)
  BY <1>1, LossKept
<1>3. \A d \in Conns : got'[d][m] = got[d][m]
  BY <1>0 DEF LoginAck
<1>4. \A d \in Conns : h'[d] = h[d] \/ Plain(d, m)
  BY <1>0, FinishLocals, IdleLocals, ServiceOK DEF LoginAck, Plain
<1>5. QED
  BY <1>0, <1>1, <1>2, <1>3, <1>4, NoMoreFrame

LEMMA ServerNoMore ==
  ASSUME IInv, NEW m \in Msgs,
         \/ \E s \in Servers : Server(s) /\ ~Observe(s)
         \/ \E c \in Conns : NullRow(c) \/ RaceCrash(c)
  PROVE  NoMore(m)
<1>0. TypeOK /\ RedisTypeOK /\ \A c \in Conns : Home[c] \in Servers
  BY ServiceOK DEF IInv, TypeOK
<1>1. ASSUME NEW s \in Servers, NEW how, Die(s, how) PROVE NoMore(m)
  <2>1. \A d \in Conns : h'[d] = h[d] \/ Plain(d, m)
    BY <1>1, IdleLocals, ServiceOK DEF Die, Plain
  <2>2. \A r \in Servers : inbox'[r] \in {inbox[r], <<>>}
    BY <1>0, <1>1 DEF Die, Disconnect, RedisTypeOK
  <2>3. QED  BY <1>0, <1>1, <2>1, <2>2, QuietFrame DEF Die, chatVars, dbVars
<1>2. ASSUME NEW s \in Servers, BreakLink(s) PROVE NoMore(m)
  <2>1. \A r \in Servers : inbox'[r] \in {inbox[r], <<>>}
    BY <1>0, <1>2 DEF BreakLink, Disconnect, RedisTypeOK
  <2>2. QED  BY <1>0, <1>2, <2>1, QuietFrame DEF BreakLink, chatVars, dbVars
<1>3. ASSUME NEW s \in Servers, Execute(s) \/ SigintReset(s) \/ Restart(s) PROVE NoMore(m)
  <2>1. UNCHANGED <<h, got, offlineMessage, inbox>>
    BY <1>3 DEF Execute, SigintReset, Restart, ExecuteCommand, ResetState, connect, chatVars,
                dbVars, redisVars
  <2>2. QED  BY <1>0, <2>1, QuietFrame
<1>4. QED
  BY <1>0, <1>1, <1>2, <1>3 DEF Server, Kill, SigintExit, NullRow, RaceCrash

(* The steps that make or move a copy of m. *)
Moving(m) ==
  \/ \E c \in Conns : OneChat(c, m) \/ GroupChat(c, m)
  \/ \E c \in Conns : Passes(c) /\ h[c].msg = m
  \/ \E c \in Conns : (LoginRemove(c) \/ LoginAck(c)) /\ h[c].rows[m] # 0
  \/ \E s \in Servers : Observe(s) /\ Head(inbox[s]).msg = m

LEMMA CopiesMove ==
  ASSUME IInv, [Next]_vars, NEW m \in Msgs
  PROVE  NoMore(m) \/ (Next /\ Moving(m))
<1>1. ASSUME NEW c \in Conns, Login(c) PROVE NoMore(m) \/ Moving(m)
  BY <1>1, SessionsNoMore, RemoveNoMore, AckNoMore DEF Moving
<1>2. ASSUME NEW c \in Conns, Chat(c) \/ Group(c) PROVE NoMore(m) \/ Moving(m)
  BY <1>2, ChatNoMore DEF Moving
<1>3. ASSUME NEW c \in Conns, Logout(c) \/ Close(c) PROVE NoMore(m)
  BY <1>3, SessionsNoMore
<1>4. ASSUME NEW c \in Conns, Requests(c) PROVE NoMore(m) \/ Moving(m)
  <2>1. CASE (\E u \in Users : LoginQuery(c, u)) \/ LogoutRequest(c) \/ Vanish(c)
    BY <2>1, SessionsNoMore
  <2>2. CASE NullRow(c) \/ RaceCrash(c)
    BY <2>2, ServerNoMore
  <2>3. ASSUME NEW n \in Msgs, OneChat(c, n) \/ GroupChat(c, n) PROVE NoMore(m) \/ Moving(m)
    BY <2>3, StartNoMore DEF Moving
  <2>4. QED  BY <1>4, <2>1, <2>2, <2>3 DEF Requests
<1>5. ASSUME NEW s \in Servers, Server(s) PROVE NoMore(m) \/ Moving(m)
  BY <1>5, ObserveNoMore, ServerNoMore DEF Moving
<1>6. CASE UNCHANGED vars
  BY <1>6, QuietFrame DEF IInv, vars, chatVars, dbVars, redisVars
<1>7. QED
  BY <1>1, <1>2, <1>3, <1>4, <1>5, <1>6 DEF Next, Steps

-----------------------------------------------------------------------------
(*                      a message has no copy before it is sent            *)

Unsent(m) ==
  /\ \A c \in Conns : got[c][m] = 0
  /\ \A c \in Conns : h[c].pc \in {"li_remove", "li_ack"} => h[c].rows[m] = 0
  /\ \A u \in Users : offlineMessage[u][m] = 0
  /\ \A s \in Servers, u \in Users : ~Has(inbox[s], CopyFor(u, m))
Fresh == \A m \in Msgs \ sent : Unsent(m)

(* The set of messages sent grows with oneChat and groupChat, and rows are  *)
(* only added and removed.                                                  *)
LEMMA FewMove ==
  ASSUME IInv, [Next]_vars
  PROVE  /\ sent \subseteq sent'
         /\ \A m \in sent' \ sent : \E c \in Conns : OneChat(c, m) \/ GroupChat(c, m)
         /\ \/ UNCHANGED offlineMessage
            \/ \E c \in Conns : LoginRemove(c)
            \/ \E u \in Users, n \in Msgs : StoreOffline(u, n)
<1> DEFINE Same == UNCHANGED <<sent, offlineMessage>>
<1>1. ASSUME NEW c \in Conns, Login(c), ~LoginRemove(c) PROVE Same
  BY <1>1, SMTT(30) DEF Login, LoginInsert, LoginSubscribe, LoginOnline, LoginOffline,
              LoginAck, UpdateState, chatVars, dbVars
<1>2. ASSUME NEW c \in Conns, LoginRemove(c) PROVE UNCHANGED sent
  BY <1>2 DEF LoginRemove, chatVars
<1>3. ASSUME NEW c \in Conns, Logout(c) \/ Close(c) PROVE Same
  <2>1. CASE Logout(c)
    BY <2>1 DEF Logout, LogoutUpdate, LogoutFail, LogoutErase, LogoutUnsubscribe,
                UpdateState, chatVars, dbVars
  <2>2. CASE CloseErase(c) \/ CloseUpdate(c)
    BY <2>2 DEF CloseErase, CloseUpdate, UpdateState, chatVars, dbVars
  <2>3. CASE CloseUnsubscribe(c)
    BY <2>3 DEF CloseUnsubscribe, chatVars, dbVars
  <2>4. QED  BY <1>3, <2>1, <2>2, <2>3 DEF Close
<1>4. ASSUME NEW c \in Conns, ChatStore(c) \/ GroupStore(c)
      PROVE  UNCHANGED sent /\ \E u \in Users, n \in Msgs : StoreOffline(u, n)
  <2>1. h[c].msg \in Msgs /\ (h[c].pc \in ChatPcs \cup {"gc_publish", "gc_store"} => h[c].user \in Users)
    BY <1>4, ChatLocals DEF Chat, Group
  <2>2. QED  BY <1>4, <2>1 DEF ChatStore, GroupStore, At, ChatPcs, chatVars
<1>5. ASSUME NEW c \in Conns, ChatSend(c) \/ ChatQuery(c) \/ ChatPublish(c) PROVE Same
  BY <1>5 DEF ChatSend, ChatQuery, ChatPublish, chatVars, dbVars
<1>6. ASSUME NEW c \in Conns, GroupLock(c) \/ GroupSend(c) \/ GroupQuery(c) PROVE Same
  BY <1>6 DEF GroupLock, GroupSend, GroupQuery, chatVars, dbVars
<1>7. ASSUME NEW c \in Conns, GroupPublish(c) \/ GroupDone(c) PROVE Same
  BY <1>7 DEF GroupPublish, GroupDone, chatVars, dbVars
<1>8. ASSUME NEW c \in Conns, Requests(c)
      PROVE  /\ sent \subseteq sent' /\ UNCHANGED offlineMessage
             /\ \A m \in sent' \ sent : OneChat(c, m) \/ GroupChat(c, m)
  <2>1. ASSUME NEW m \in Msgs, OneChat(c, m) \/ GroupChat(c, m)
        PROVE  sent' = sent \cup {m} /\ UNCHANGED offlineMessage
    BY <2>1 DEF OneChat, GroupChat, dbVars
  <2>2. CASE (\E u \in Users : LoginQuery(c, u)) \/ LogoutRequest(c) \/ Vanish(c)
    BY <2>2 DEF LoginQuery, LogoutRequest, Vanish, chatVars, dbVars
  <2>3. CASE NullRow(c) \/ RaceCrash(c)
    BY <2>3 DEF NullRow, RaceCrash, Die, chatVars, dbVars
  <2>4. QED  BY <1>8, <2>1, <2>2, <2>3 DEF Requests
<1>9. ASSUME NEW s \in Servers, Observe(s)
      PROVE  /\ UNCHANGED sent
             /\ UNCHANGED offlineMessage \/ \E u \in Users, n \in Msgs : StoreOffline(u, n)
  <2>1. Head(inbox[s]).to \in Users /\ Head(inbox[s]).msg \in Msgs
    BY <1>9, HeadCopy
  <2>2. QED  BY <1>9, <2>1 DEF Observe, dbVars
<1>10. ASSUME NEW s \in Servers, Server(s), ~Observe(s) PROVE Same
  BY <1>10, SMTT(30) DEF Server, Execute, Kill, SigintReset, SigintExit, Restart, BreakLink, Die,
              ResetState, chatVars, dbVars
<1>11. CASE UNCHANGED vars
  BY <1>11 DEF vars, chatVars, dbVars
<1> HIDE DEF Same
<1>12. CASE Next
  <2>1. ASSUME NEW c \in Conns, Steps(c), ~LoginRemove(c), ~ChatStore(c), ~GroupStore(c) PROVE Same
    BY <1>1, <1>3, <1>5, <1>6, <1>7, <2>1 DEF Steps, Chat, Group
  <2>2. CASE Same
    BY <2>2 DEF Same
  <2>3. QED  BY <1>2, <1>4, <1>8, <1>9, <1>10, <1>12, <2>1, <2>2 DEF Next
<1>13. QED
  BY <1>11, <1>12 DEF Same

LEMMA FreshNext == IInv /\ Carriers /\ Fresh /\ [Next]_vars => Fresh'
<1> SUFFICES ASSUME IInv, Carriers, Fresh, [Next]_vars, NEW m \in Msgs \ sent'
             PROVE  Unsent(m)'
  BY DEF Fresh
<1>0. /\ offlineMessage \in [Users -> [Msgs -> Nat]] /\ offlineMessage' \in [Users -> [Msgs -> Nat]]
      /\ h' \in [Conns -> Handler]
  BY SessionsNext DEF IInv, TypeOK, DbTypeOK
<1>1. m \notin sent /\ Unsent(m) /\ m # NoMsg
  BY FewMove, ServiceOK DEF Fresh
<1>2. \A c \in Conns : h[c].msg # m
  BY <1>1 DEF Carriers
<1>3. ~Moving(m)
  <2>1. ~\E c \in Conns : OneChat(c, m) \/ GroupChat(c, m)
    BY DEF OneChat, GroupChat
  <2>2. ~\E c \in Conns : (LoginRemove(c) \/ LoginAck(c)) /\ h[c].rows[m] # 0
    BY <1>1 DEF LoginRemove, LoginAck, At, Unsent
  <2>3. ~\E s \in Servers : Observe(s) /\ Head(inbox[s]).msg = m
    <3>1. ASSUME NEW s \in Servers, Observe(s), Head(inbox[s]).msg = m PROVE FALSE
      <4>1. Has(inbox[s], CopyFor(Head(inbox[s]).to, m)) /\ Head(inbox[s]).to \in Users
        BY <3>1, HeadCopy
      <4>2. QED  BY <1>1, <4>1 DEF Unsent
    <3>2. QED  BY <3>1
  <2>4. QED  BY <1>2, <2>1, <2>2, <2>3 DEF Moving
<1>4. NoMore(m)
  BY <1>3, CopiesMove
<1>5. \A u \in Users : offlineMessage'[u][m] = 0
  BY <1>0, <1>1, <1>4 DEF NoMore, Unsent
<1>6. \A c \in Conns : h'[c].pc \in {"li_remove", "li_ack"} => h'[c].rows[m] = 0
  <2>1. ASSUME NEW c \in Conns, h'[c].pc = "li_remove" PROVE h'[c].rows[m] = 0
    <3>1. h'[c].user \in Users /\ h'[c].rows[m] \in Nat
      BY <1>0, <2>1, SessionsNext DEF IInv, HandlersOK, WellFormed, NeedsUser, LoginPcs, Handler
    <3>2. h'[c] = h[c] \/ h'[c].rows[m] <= offlineMessage'[h'[c].user][m]
      BY <1>4, <2>1 DEF NoMore
    <3>3. QED  BY <1>1, <1>5, <2>1, <3>1, <3>2 DEF Unsent
  <2>2. QED  BY <1>1, <1>4, <2>1 DEF NoMore, Unsent
<1>7. QED
  BY <1>1, <1>4, <1>5, <1>6 DEF NoMore, NoPush, Unsent

LEMMA FreshInit == Init => Fresh
<1> SUFFICES ASSUME Init, NEW m \in Msgs PROVE Unsent(m)
  BY DEF Fresh
<1>1. /\ \A c \in Conns : got[c][m] = 0 /\ h[c].pc = "idle"
      /\ \A u \in Users : offlineMessage[u][m] = 0
      /\ \A s \in Servers : inbox[s] = <<>>
  BY IdleLocals DEF Init, NoRows
<1>2. QED
  BY <1>1, EmptyHas DEF Unsent

LEMMA FreshInvariant == Spec => []Fresh
BY FreshInit, FreshNext, SessionsInvariant, CarriersInvariant, PTL DEF Spec

-----------------------------------------------------------------------------
(*                      one login, one home                                *)

(* Nobody is on two clients at once, and all clients of a user are clients  *)
(* of one server; the tables and the contexts of hiredis work.              *)
HomeOf(u) == {Home[c] : c \in {d \in Conns : u \in May[d] \/ Pre[d] = u}}
Homed == /\ SingleClient /\ "db" \notin Faults /\ "context" \notin Faults
         /\ \A u \in Users : \A s, r \in HomeOf(u) : s = r

(* One login per user is under way; it is a login on one of the clients of  *)
(* the user, and what it has read is still in the table until it deletes.   *)
OneLogin == \A c, d \in Conns :
  h[c].pc \in LoginPcs /\ h[d].pc \in LoginPcs /\ h[c].user = h[d].user => c = d
LoginsMay == \A c \in Conns : h[c].pc \in LoginPcs => h[c].user \in May[c]
ReadRows == \A c \in Conns, m \in Msgs :
  h[c].pc = "li_remove" => h[c].rows[m] <= offlineMessage[h[c].user][m]

(* A server is subscribed to users whose home it is. *)
SubscribedAtHome == \A s \in Servers, u \in Users :
  u \in subs[s] \/ Has(subCmds[s], [op |-> "sub", user |-> u]) => s \in HomeOf(u)

Logins == OneLogin /\ LoginsMay /\ ReadRows /\ SubscribedAtHome

(* A step of one connection leaves the other handlers alone.                *)
LEMMA OneHandler ==
  ASSUME IInv, NEW d \in Conns, Requests(d) \/ Steps(d), ~NullRow(d), ~RaceCrash(d),
         NEW c \in Conns, c # d
  PROVE  h'[c] = h[c]
<1>0. TypeOK /\ h \in [Conns -> Handler]
  BY DEF IInv, TypeOK
<1>1. CASE Chat(d) \/ Group(d)
  BY <1>1, ChatLocals
<1>2. CASE LoginOffline(d)
  <2>1. PICK rows : h' = [h EXCEPT ![d].rows = rows,
                            ![d].pc = IF rows = NoRows THEN "li_ack" ELSE "li_remove"]
    BY <1>2 DEF LoginOffline
  <2>2. QED  BY <1>0, <2>1
<1>3. CASE (Login(d) /\ ~LoginOffline(d)) \/ Logout(d) \/ CloseUnsubscribe(d) \/ CloseUpdate(d)
  <2>1. Finish(d) \/ \E p : Goto(d, p)
    <3>1. CASE Login(d) /\ ~LoginOffline(d)
      BY <3>1, SMTT(30) DEF Login, LoginInsert, LoginSubscribe, LoginOnline, LoginRemove, LoginAck
    <3>2. CASE Logout(d) \/ CloseUnsubscribe(d) \/ CloseUpdate(d)
      BY <3>2, SMTT(30) DEF Logout, LogoutUpdate, LogoutFail, LogoutErase, LogoutUnsubscribe,
                  CloseUnsubscribe, CloseUpdate
    <3>3. QED  BY <1>3, <3>1, <3>2
  <2>2. QED  BY <1>0, <2>1, GotoLocals, FinishLocals
<1>4. CASE CloseErase(d)
  BY <1>0, <1>4 DEF CloseErase
<1>5. CASE (\E u \in Users : LoginQuery(d, u)) \/ LogoutRequest(d) \/ Vanish(d)
  BY <1>0, <1>5 DEF LoginQuery, LogoutRequest, Vanish
<1>6. CASE \E m \in Msgs : OneChat(d, m) \/ GroupChat(d, m)
  BY <1>0, <1>6 DEF OneChat, GroupChat
<1>7. QED
  BY <1>1, <1>2, <1>3, <1>4, <1>5, <1>6 DEF Requests, Steps, Close

(* How a handler comes to be in login. *)
LEMMA LoginsCome ==
  ASSUME IInv, [Next]_vars, NEW c \in Conns, h'[c].pc \in LoginPcs
  PROVE  \/ h[c].pc \in LoginPcs /\ h'[c].user = h[c].user
         \/ /\ \E u \in Users : LoginQuery(c, u) /\ h'[c].user = u
            /\ \A d \in Conns : d # c => h'[d] = h[d]
<1> USE DEF At, LoginPcs
<1>0. TypeOK /\ h \in [Conns -> Handler]
  BY DEF IInv, TypeOK
<1> DEFINE Was == h[c].pc \in LoginPcs /\ h'[c].user = h[c].user
<1>1. CASE h'[c] = h[c]
  BY <1>1
<1>2. ASSUME NEW u \in Users, LoginQuery(c, u)
      PROVE  h'[c].user = u /\ \A d \in Conns : d # c => h'[d] = h[d]
  BY <1>0, <1>2, IdleLocals DEF LoginQuery
<1>3. ASSUME Login(c) PROVE Was
  <2>1. CASE \/ LoginInsert(c) \/ LoginSubscribe(c) \/ LoginOnline(c) \/ LoginRemove(c)
    BY <1>0, <2>1, GotoLocals DEF LoginInsert, LoginSubscribe, LoginOnline, LoginRemove
  <2>2. CASE LoginOffline(c)
    <3>1. PICK rows : h' = [h EXCEPT ![c].rows = rows,
                              ![c].pc = IF rows = NoRows THEN "li_ack" ELSE "li_remove"]
      BY <2>2 DEF LoginOffline
    <3>2. h'[c].user = h[c].user
      BY <1>0, <3>1 DEF Handler
    <3>3. QED  BY <2>2, <3>2 DEF LoginOffline
  <2>3. CASE LoginAck(c)
    BY <1>0, <2>3, FinishLocals, IdleLocals DEF LoginAck
  <2>4. QED  BY <1>3, <2>1, <2>2, <2>3 DEF Login
<1>4. ~(Chat(c) \/ Group(c))
  BY ChatLocals DEF ChatPcs, GroupPcs
<1>5. ~(Logout(c) \/ LogoutRequest(c) \/ Close(c))
  <2>1. CASE LogoutRequest(c) \/ CloseErase(c)
    <3>1. PICK p \in {"lo_lock", "cl_unsub"} :
            \E u : h' = [h EXCEPT ![c] = [Idle EXCEPT !.pc = p, !.user = u]]
      BY <2>1 DEF LogoutRequest, CloseErase
    <3>2. PICK u : h' = [h EXCEPT ![c] = [Idle EXCEPT !.pc = p, !.user = u]]
      BY <3>1
    <3>3. QED  BY <1>0, <3>1, <3>2, IdleLocals
  <2>2. CASE Logout(c) \/ CloseUnsubscribe(c) \/ CloseUpdate(c)
    <3>1. Finish(c) \/ \E p \in {"lo_erase", "lo_unsub", "cl_update"} : Goto(c, p)
      BY <2>2, SMTT(30) DEF Logout, LogoutUpdate, LogoutFail, LogoutErase, LogoutUnsubscribe,
                  CloseUnsubscribe, CloseUpdate
    <3>2. QED  BY <1>0, <3>1, GotoLocals, FinishLocals, IdleLocals
  <2>3. QED  BY <2>1, <2>2 DEF Close
<1>6. ~\E m \in Msgs : OneChat(c, m) \/ GroupChat(c, m)
  <2>1. ASSUME NEW m \in Msgs, OneChat(c, m) PROVE FALSE
    <3>1. PICK u, p : h' = [h EXCEPT ![c] =
             [Idle EXCEPT !.pc = IF p = NoConn THEN "oc_query" ELSE "oc_send",
                          !.user = u, !.msg = m, !.peer = p]]
      BY <2>1 DEF OneChat
    <3>2. QED  BY <1>0, <3>1 DEF Idle
  <2>2. ASSUME NEW m \in Msgs, GroupChat(c, m) PROVE FALSE
    <3>1. PICK g : h' = [h EXCEPT ![c] = [Idle EXCEPT !.pc = "gc_lock", !.msg = m, !.todo = g]]
      BY <2>2 DEF GroupChat
    <3>2. QED  BY <1>0, <3>1 DEF Idle
  <2>3. QED  BY <2>1, <2>2
<1>7. ASSUME NEW s, NEW how, Die(s, how) PROVE h'[c] = h[c]
  BY <1>7, IdleLocals DEF Die
<1>8. ASSUME NEW s \in Servers, Server(s) PROVE h'[c] = h[c]
  <2>1. CASE Kill(s) \/ SigintExit(s)
    BY <1>7, <2>1 DEF Kill, SigintExit
  <2>2. CASE Observe(s) \/ Execute(s) \/ SigintReset(s) \/ Restart(s) \/ BreakLink(s)
    BY <2>2 DEF Observe, Execute, SigintReset, Restart, BreakLink
  <2>3. QED  BY <1>8, <2>1, <2>2 DEF Server
<1>9. ASSUME NEW d \in Conns, Requests(d) \/ Steps(d), d # c PROVE h'[c] = h[c]
  BY <1>7, <1>9, OneHandler DEF NullRow, RaceCrash
<1>10. CASE Vanish(c) \/ NullRow(c) \/ RaceCrash(c)
  BY <1>1, <1>7, <1>10 DEF Vanish, NullRow, RaceCrash
<1>11. CASE UNCHANGED vars
  BY <1>1, <1>11 DEF vars
<1>12. CASE Next
  <2>1. CASE Requests(c) \/ Steps(c)
    BY <1>2, <1>3, <1>4, <1>5, <1>6, <1>10, <2>1 DEF Requests, Steps
  <2>2. QED  BY <1>1, <1>8, <1>9, <1>12, <2>1 DEF Next
<1>13. QED
  BY <1>11, <1>12

LEMMA LoginsNext ==
  ASSUME Homed, IInv, OneLogin, LoginsMay, [Next]_vars
  PROVE  OneLogin' /\ LoginsMay'
<1>1. ASSUME NEW c \in Conns, NEW u \in Users, LoginQuery(c, u)
      PROVE  u \in May[c] /\ \A d \in Conns : h[d].pc \in LoginPcs => h[d].user # u
  BY <1>1 DEF LoginQuery, CanLogin, InUse, Homed
<1>2. ASSUME NEW c \in Conns, h'[c].pc \in LoginPcs PROVE h'[c].user \in May[c]
  BY <1>1, <1>2, LoginsCome DEF LoginsMay
<1>3. ASSUME NEW c \in Conns, NEW d \in Conns, h'[c].pc \in LoginPcs, h'[d].pc \in LoginPcs,
             h'[c].user = h'[d].user, c # d
      PROVE  FALSE
  <2>1. CASE h[c].pc \in LoginPcs /\ h'[c].user = h[c].user
    <3>1. CASE h[d].pc \in LoginPcs /\ h'[d].user = h[d].user
      BY <1>3, <2>1, <3>1 DEF OneLogin
    <3>2. CASE \E u \in Users : LoginQuery(d, u) /\ h'[d].user = u
      BY <1>1, <1>3, <2>1, <3>2
    <3>3. QED  BY <1>3, <3>1, <3>2, LoginsCome
  <2>2. CASE /\ \E u \in Users : LoginQuery(c, u) /\ h'[c].user = u
             /\ \A e \in Conns : e # c => h'[e] = h[e]
    <3>1. h'[d] = h[d]
      BY <1>3, <2>2
    <3>2. QED  BY <1>1, <1>3, <2>2, <3>1
  <2>3. QED  BY <1>3, <2>1, <2>2, LoginsCome
<1>4. QED
  BY <1>2, <1>3 DEF OneLogin, LoginsMay

(* A login that is about to delete is a step away from the query, or was    *)
(* there before.                                                            *)
LEMMA ReadsCome ==
  ASSUME IInv, [Next]_vars, NEW c \in Conns, h'[c].pc = "li_remove", NEW m \in Msgs
  PROVE  h'[c] = h[c] \/ h'[c].rows[m] <= offlineMessage'[h'[c].user][m]
<1>0. TypeOK /\ h \in [Conns -> Handler]
  BY DEF IInv, TypeOK
<1>1. CASE NoMore(m)
  BY <1>1 DEF NoMore
<1>2. ASSUME NEW d \in Conns, Passes(d) PROVE h'[c] = h[c]
  BY <1>2, ChatLocals DEF Passes, Chat, Group, ChatPcs, GroupPcs
<1>3. ASSUME NEW d \in Conns, OneChat(d, m) \/ GroupChat(d, m) PROVE h'[c] = h[c]
  <2>1. CASE c # d
    BY <1>0, <1>3, <2>1 DEF OneChat, GroupChat
  <2>2. CASE c = d
    <3>1. CASE OneChat(d, m)
      <4>1. PICK u, p : h' = [h EXCEPT ![d] =
               [Idle EXCEPT !.pc = IF p = NoConn THEN "oc_query" ELSE "oc_send",
                            !.user = u, !.msg = m, !.peer = p]]
        BY <3>1 DEF OneChat
      <4>2. QED  BY <1>0, <2>2, <4>1 DEF Idle
    <3>2. CASE GroupChat(d, m)
      <4>1. PICK g : h' = [h EXCEPT ![d] = [Idle EXCEPT !.pc = "gc_lock", !.msg = m, !.todo = g]]
        BY <3>2 DEF GroupChat
      <4>2. QED  BY <1>0, <2>2, <4>1 DEF Idle
    <3>3. QED  BY <1>3, <3>1, <3>2
  <2>3. QED  BY <2>1, <2>2
<1>4. ASSUME NEW d \in Conns, LoginRemove(d) \/ LoginAck(d) PROVE h'[c] = h[c]
  BY <1>0, <1>4, GotoLocals, FinishLocals, IdleLocals DEF LoginRemove, LoginAck
<1>5. ASSUME NEW s \in Servers, Observe(s) PROVE h'[c] = h[c]
  BY <1>5 DEF Observe
<1>6. QED
  BY <1>1, <1>2, <1>3, <1>4, <1>5, CopiesMove DEF Moving

LEMMA ReadRowsNext ==
  ASSUME IInv, OneLogin, ReadRows, [Next]_vars
  PROVE  ReadRows'
<1> SUFFICES ASSUME NEW c \in Conns, NEW m \in Msgs, h'[c].pc = "li_remove"
             PROVE  h'[c].rows[m] <= offlineMessage'[h'[c].user][m]
  BY DEF ReadRows
<1> USE DEF LoginPcs
<1>0. /\ TypeOK /\ offlineMessage \in [Users -> [Msgs -> Nat]] /\ h \in [Conns -> Handler]
  BY DEF IInv, TypeOK, DbTypeOK
<1>1. CASE h'[c] # h[c]
  BY <1>1, ReadsCome
<1>2. CASE h'[c] = h[c]
  <2> DEFINE u == h[c].user
  <2>1. u \in Users /\ h[c].rows[m] \in Nat /\ h[c].rows[m] <= offlineMessage[u][m]
    BY <1>0, <1>2 DEF ReadRows, IInv, HandlersOK, WellFormed, NeedsUser, Handler
  <2>2. offlineMessage'[u][m] \in Nat /\ offlineMessage[u][m] \in Nat
    BY <2>1, SessionsNext DEF IInv, TypeOK, DbTypeOK
  <2>3. offlineMessage[u][m] <= offlineMessage'[u][m]
    <3>1. CASE UNCHANGED offlineMessage
      BY <2>1, <2>2, <3>1
    <3>2. ASSUME NEW d \in Conns, LoginRemove(d) PROVE offlineMessage[u][m] <= offlineMessage'[u][m]
      <4>1. h[d].pc = "li_remove" /\ h'[d].pc = "li_ack" /\ h[d].user \in Users
        BY <1>0, <3>2, GotoLocals
           DEF LoginRemove, At, IInv, HandlersOK, WellFormed, NeedsUser
      <4>2. h[d].user # u
        BY <1>2, <4>1 DEF OneLogin
      <4>3. offlineMessage'[u][m] = offlineMessage[u][m]
        BY <1>0, <2>1, <3>2, <4>1, <4>2 DEF LoginRemove, RemoveOffline
      <4>4. QED  BY <2>2, <4>3
    <3>3. ASSUME NEW v \in Users, NEW n \in Msgs, StoreOffline(v, n)
          PROVE  offlineMessage[u][m] <= offlineMessage'[u][m]
      BY <1>0, <2>1, <2>2, <3>3 DEF StoreOffline
    <3>4. QED  BY <3>1, <3>2, <3>3, FewMove
  <2>4. QED  BY <1>2, <2>1, <2>2, <2>3
<1>3. QED
  BY <1>1, <1>2

(* Commands reach redis one after the other. *)
SubOf(u) == [op |-> "sub", user |-> u]

LEMMA HomeKept ==
  ASSUME SubscribedAtHome,
         \A s \in Servers : subs'[s] \in {subs[s], {}} /\ subCmds'[s] \in {subCmds[s], <<>>}
  PROVE  SubscribedAtHome'
BY EmptyHas DEF SubscribedAtHome

LEMMA HomeWrites ==
  ASSUME TypeOK, SubscribedAtHome, NEW s \in Servers, NEW op \in {"sub", "unsub"},
         NEW u \in Users \cup {NoUser}, [op |-> op, user |-> u] \in Command,
         op = "sub" => s \in HomeOf(u), NEW torn,
         WriteCommand(s, op, u) \/ (torn /\ Garble(s, "sub"))
  PROVE  SubscribedAtHome'
<1>0. RedisTypeOK
  BY DEF TypeOK
<1>1. CASE Garble(s, "sub")
  <2>1. \A r \in Servers : subs'[r] \in {subs[r], {}} /\ subCmds'[r] \in {subCmds[r], <<>>}
    BY <1>0, <1>1 DEF Garble, Disconnect, redisVars, RedisTypeOK
  <2>2. QED  BY <2>1, HomeKept
<1>2. CASE WriteCommand(s, op, u)
  <2> DEFINE x == [op |-> op, user |-> u]
  <2>1. ASSUME NEW r \in Servers, NEW v \in Users, Has(subCmds'[r], SubOf(v))
        PROVE  r \in HomeOf(v)
    <3>1. subCmds[r] \in Seq(Command) /\ (r # s => subCmds'[r] = subCmds[r])
          /\ subCmds'[r] \in {subCmds[r], Append(subCmds[r], x)}
      BY <1>0, <1>2 DEF WriteCommand, RedisTypeOK
    <3>2. CASE Has(subCmds[r], SubOf(v))
      BY <3>2 DEF SubscribedAtHome, SubOf
    <3>3. CASE ~Has(subCmds[r], SubOf(v))
      <4>1. r = s /\ x \in Command /\ subCmds'[r] = Append(subCmds[r], x)
        BY <2>1, <3>1, <3>3
      <4>4. x = SubOf(v)
        BY <2>1, <3>1, <3>3, <4>1, AppendHas
      <4>2. op = "sub" /\ u = v
        BY <4>4 DEF SubOf
      <4>3. QED  BY <4>1, <4>2
    <3>4. QED  BY <3>2, <3>3
  <2>2. UNCHANGED subs
    BY <1>2 DEF WriteCommand
  <2>3. QED  BY <2>1, <2>2 DEF SubscribedAtHome, SubOf
<1>3. QED
  BY <1>1, <1>2

LEMMA HomeExecutes ==
  ASSUME TypeOK, SubscribedAtHome, NEW s \in Servers, ExecuteCommand(s)
  PROVE  SubscribedAtHome'
<1>0. subCmds \in [Servers -> Seq(Command)] /\ subs \in [Servers -> SUBSET Users]
  BY DEF TypeOK, RedisTypeOK
<1> DEFINE cmd == Head(subCmds[s])
<1>1. subCmds[s] \in Seq(Command) /\ subCmds[s] # <<>> /\ cmd \in Command /\ Has(subCmds[s], cmd)
  BY <1>0, TailHas DEF ExecuteCommand
<1>2. ASSUME NEW r \in Servers, NEW v \in Users, v \in subs'[r] \/ Has(subCmds'[r], SubOf(v))
      PROVE  r \in HomeOf(v)
  <2>1. CASE r # s
    BY <1>0, <1>2, <2>1 DEF ExecuteCommand, SubscribedAtHome, SubOf
  <2>2. CASE r = s
    <3>1. subs'[s] = Apply(cmd, subs[s]) /\ subCmds'[s] = Tail(subCmds[s])
      BY <1>0 DEF ExecuteCommand
    <3>2. Has(subCmds'[s], SubOf(v)) => Has(subCmds[s], SubOf(v))
      BY <1>1, <3>1, TailHas
    <3>3. v \in subs'[s] => v \in subs[s] \/ cmd = SubOf(v)
      BY <1>1, <3>1 DEF Apply, SubOf, Command
    <3>4. QED  BY <1>1, <1>2, <2>2, <3>2, <3>3 DEF SubscribedAtHome, SubOf
  <2>3. QED  BY <2>1, <2>2
<1>3. QED
  BY <1>2 DEF SubscribedAtHome, SubOf

LEMMA HomeNext ==
  ASSUME IInv, LoginsMay, SubscribedAtHome, [Next]_vars
  PROVE  SubscribedAtHome'
<1>0. /\ TypeOK /\ RedisTypeOK /\ \A c \in Conns : Home[c] \in Servers
      /\ NoUser \notin Users
  BY ServiceOK, SystemOK DEF IInv, TypeOK
<1>1. CASE UNCHANGED <<subs, subCmds>>
  BY <1>1 DEF SubscribedAtHome
<1>2. ASSUME NEW s \in Servers, NEW lost, Disconnect(s, lost) PROVE SubscribedAtHome'
  <2>1. \A r \in Servers : subs'[r] \in {subs[r], {}} /\ subCmds'[r] \in {subCmds[r], <<>>}
    BY <1>0, <1>2 DEF Disconnect, RedisTypeOK
  <2>2. QED  BY <2>1, HomeKept
<1>3. ASSUME NEW c \in Conns, LoginSubscribe(c) PROVE SubscribedAtHome'
  <2>1. h[c].user \in Users /\ h[c].user \in May[c]
    BY <1>3 DEF LoginSubscribe, At, LoginPcs, LoginsMay, IInv, HandlersOK, WellFormed, NeedsUser
  <2>2. Home[c] \in HomeOf(h[c].user) /\ [op |-> "sub", user |-> h[c].user] \in Command
    BY <2>1 DEF HomeOf, Command
  <2>3. QED  BY <1>0, <1>3, <2>1, <2>2, HomeWrites DEF LoginSubscribe, subscribe
<1>4. ASSUME NEW c \in Conns, LogoutUnsubscribe(c) \/ CloseUnsubscribe(c) PROVE SubscribedAtHome'
  <2>1. h[c].user \in Users \cup {NoUser}
    BY <1>0 DEF TypeOK, Handler
  <2>2. [op |-> "unsub", user |-> h[c].user] \in Command
    BY <2>1 DEF Command
  <2>3. \E torn : unsubscribe(Home[c], h[c].user, torn)
    BY <1>4, Zenon DEF LogoutUnsubscribe, CloseUnsubscribe
  <2>4. QED  BY <1>0, <2>1, <2>2, <2>3, HomeWrites DEF unsubscribe
<1>5. ASSUME NEW c \in Conns, ChatPublish(c) \/ GroupPublish(c) PROVE SubscribedAtHome'
  <2>1. UNCHANGED <<subs, subCmds>> \/ Disconnect(Home[c], {"pub"})
    BY <1>5 DEF ChatPublish, GroupPublish, publish, Push, Garble, redisVars
  <2>2. QED  BY <1>0, <1>1, <1>2, <2>1
<1>6. ASSUME NEW c \in Conns, Steps(c), ~LoginSubscribe(c), ~LogoutUnsubscribe(c),
             ~CloseUnsubscribe(c), ~ChatPublish(c), ~GroupPublish(c)
      PROVE  SubscribedAtHome'
  <2>1. CASE Login(c)
    BY <1>1, <1>6, <2>1, SMTT(30) DEF Login, LoginInsert, LoginOnline, LoginOffline, LoginRemove,
                            LoginAck, redisVars
  <2>2. CASE Logout(c) \/ Close(c)
    <3>1. CASE LogoutUpdate(c) \/ LogoutFail(c) \/ LogoutErase(c)
      BY <1>1, <3>1 DEF LogoutUpdate, LogoutFail, LogoutErase, redisVars
    <3>2. CASE CloseErase(c) \/ CloseUpdate(c)
      BY <1>1, <3>2 DEF CloseErase, CloseUpdate, redisVars
    <3>3. QED  BY <1>6, <2>2, <3>1, <3>2 DEF Logout, Close
  <2>3. CASE Chat(c)
    BY <1>1, <1>6, <2>3, SMTT(30) DEF Chat, ChatSend, ChatQuery, ChatStore, redisVars
  <2>4. CASE Group(c)
    <3>1. CASE GroupLock(c) \/ GroupSend(c) \/ GroupQuery(c)
      BY <1>1, <3>1 DEF GroupLock, GroupSend, GroupQuery, redisVars
    <3>2. CASE GroupStore(c) \/ GroupDone(c)
      BY <1>1, <3>2 DEF GroupStore, GroupDone, redisVars
    <3>3. QED  BY <1>6, <2>4, <3>1, <3>2 DEF Group
  <2>5. QED  BY <1>6, <2>1, <2>2, <2>3, <2>4 DEF Steps
<1>7. ASSUME NEW c \in Conns, Requests(c) PROVE SubscribedAtHome'
  <2>1. CASE NullRow(c) \/ RaceCrash(c)
    BY <1>0, <1>2, <2>1 DEF NullRow, RaceCrash, Die
  <2>2. CASE ~(NullRow(c) \/ RaceCrash(c))
    BY <1>1, <1>7, <2>2 DEF Requests, LoginQuery, LogoutRequest, Vanish, OneChat, GroupChat, redisVars
  <2>3. QED  BY <2>1, <2>2
<1>8. ASSUME NEW s \in Servers, Server(s) PROVE SubscribedAtHome'
  <2>1. CASE Execute(s)
    BY <1>0, <2>1, HomeExecutes DEF Execute
  <2>2. CASE Kill(s) \/ SigintExit(s) \/ BreakLink(s)
    BY <1>2, <2>2 DEF Kill, SigintExit, BreakLink, Die
  <2>3. CASE Observe(s) \/ SigintReset(s) \/ Restart(s)
    BY <1>1, <2>3 DEF Observe, Consume, SigintReset, Restart, connect, redisVars
  <2>4. QED  BY <1>8, <2>1, <2>2, <2>3 DEF Server
<1>9. CASE UNCHANGED vars
  BY <1>1, <1>9 DEF vars, redisVars
<1>10. QED
  BY <1>3, <1>4, <1>5, <1>6, <1>7, <1>8, <1>9 DEF Next

LEMMA LoginsInvariant == ASSUME Homed PROVE Spec => []Logins
<1>1. Init => Logins
  <2> SUFFICES ASSUME Init PROVE Logins
    OBVIOUS
  <2>1. \A c \in Conns : h[c].pc = "idle"
    BY IdleLocals DEF Init
  <2>2. OneLogin /\ LoginsMay /\ ReadRows
    BY <2>1 DEF OneLogin, LoginsMay, ReadRows, LoginPcs
  <2>3. \A s \in Servers : /\ subCmds[s] = <<>>
                           /\ subs[s] = {u \in Users : \E c \in Conns : Home[c] = s /\ Pre[c] = u}
    BY DEF Init
  <2>4. SubscribedAtHome
    BY <2>3, EmptyHas DEF SubscribedAtHome, HomeOf
  <2>5. QED  BY <2>2, <2>4 DEF Logins
<1>2. IInv /\ Logins /\ [Next]_vars => Logins'
  BY LoginsNext, ReadRowsNext, HomeNext DEF Logins
<1>3. QED
  BY <1>1, <1>2, SessionsInvariant, PTL DEF Spec

-----------------------------------------------------------------------------
(*                      one copy                                           *)

(* The only copy of m is at y, if there is one: carried by the handler of   *)
(* connection y, sent down to y, in the table for user y, in the channel to *)
(* server y, or read and deleted by a login on y that has not answered yet. *)
OnlyAt(m, k, y) ==
  /\ \A c \in Conns : got[c][m] <= IF k = "down" /\ y = c THEN 1 ELSE 0
  /\ \A u \in Users : offlineMessage[u][m] <= IF k = "stored" /\ y = u THEN 1 ELSE 0
  /\ \A s \in Servers, u \in Users : Has(inbox[s], CopyFor(u, m)) =>
        k = "pushed" /\ y = s /\ Once(inbox[s], CopyFor(u, m))
  /\ \A c \in Conns : h[c].msg = m => k = "sending" /\ y = c
  /\ \A c \in Conns : h[c].pc = "li_ack" /\ h[c].rows[m] # 0 =>
        k = "read" /\ y = c /\ h[c].rows[m] = 1
OneCopy(m) == \E k, y : OnlyAt(m, k, y)
OneCopies == \A m \in OneMsgs : OneCopy(m)

LEMMA Counts ==
  ASSUME IInv, NEW m \in Msgs
  PROVE  /\ \A c \in Conns : got[c][m] \in Nat /\ h[c].rows[m] \in Nat
         /\ \A u \in Users : offlineMessage[u][m] \in Nat
BY DEF IInv, TypeOK, DbTypeOK, Handler

LEMMA OneCopyStays ==
  ASSUME IInv, NEW m \in Msgs, OneCopy(m), NoMore(m), IInv'
  PROVE  OneCopy(m)'
<1>1. PICK k, y : OnlyAt(m, k, y)
  BY DEF OneCopy
<1>2. \A u \in Users : offlineMessage'[u][m] <= IF k = "stored" /\ y = u THEN 1 ELSE 0
  <2>1. \A u \in Users : offlineMessage[u][m] \in Nat /\ offlineMessage'[u][m] \in Nat
    BY DEF IInv, TypeOK, DbTypeOK
  <2>2. QED  BY <1>1, <2>1 DEF NoMore, OnlyAt
<1>3. OnlyAt(m, k, y)'
  BY <1>1, <1>2 DEF NoMore, NoPush, OnlyAt
<1>4. QED
  BY <1>3 DEF OneCopy

(* The copy of m is where the handler of c is. *)
LEMMA Carried ==
  ASSUME IInv, NEW m \in Msgs, OneCopy(m), NEW c \in Conns, h[c].msg = m
  PROVE  /\ \A d \in Conns : /\ got[d][m] = 0
                             /\ h[d].msg = m => d = c
                             /\ h[d].pc = "li_ack" => h[d].rows[m] = 0
         /\ \A u \in Users : offlineMessage[u][m] = 0
         /\ \A s \in Servers, u \in Users : ~Has(inbox[s], CopyFor(u, m))
<1>1. PICK k, y : OnlyAt(m, k, y)
  BY DEF OneCopy
<1>2. k = "sending" /\ y = c
  BY <1>1 DEF OnlyAt
<1>3. QED
  BY <1>1, <1>2, Counts DEF OnlyAt

(* After a step of that handler that lets go of it. *)
LEMMA LetGo ==
  ASSUME IInv, NEW m \in Msgs, OneCopy(m), NEW c \in Conns, h[c].msg = m, Finish(c)
  PROVE  \A d \in Conns : h'[d].msg # m /\ (h'[d].pc = "li_ack" => h'[d].rows[m] = 0)
BY Carried, FinishLocals, IdleLocals, ServiceOK DEF IInv

LEMMA OneCopySent ==
  ASSUME IInv, Carriers, Fresh, NEW m \in OneMsgs, NEW c \in Conns, OneChat(c, m)
  PROVE  OneCopy(m)'
<1>0. m \in Msgs /\ TypeOK /\ h \in [Conns -> Handler]
  BY ServiceOK DEF IInv, TypeOK
<1>1. m \notin sent /\ UNCHANGED <<got, offlineMessage, inbox>>
  BY DEF OneChat, CanSend, dbVars, redisVars
<1>2. Unsent(m) /\ m # NoMsg /\ \A d \in Conns : h[d].msg # m
  BY <1>0, <1>1, ServiceOK DEF Fresh, Carriers
<1>3. PICK u, p : h' = [h EXCEPT ![c] =
         [Idle EXCEPT !.pc = IF p = NoConn THEN "oc_query" ELSE "oc_send",
                      !.user = u, !.msg = m, !.peer = p]]
  BY DEF OneChat
<1>4. h'[c].pc # "li_ack" /\ \A d \in Conns : d # c => h'[d] = h[d]
  BY <1>0, <1>3 DEF Idle
<1>5. OnlyAt(m, "sending", c)'
  BY <1>1, <1>2, <1>4 DEF Unsent, OnlyAt
<1>6. QED
  BY <1>5 DEF OneCopy

LEMMA OneCopyMoved ==
  ASSUME Homed, IInv, Carriers, SubscribedAtHome, NEW m \in OneMsgs, OneCopy(m),
         NEW c \in Conns, Passes(c), h[c].msg = m
  PROVE  OneCopy(m)'
<1> USE DEF At
<1>0. /\ m \in Msgs /\ m # NoMsg /\ TypeOK /\ DbTypeOK /\ RedisTypeOK
      /\ got \in [Conns -> [Msgs -> Nat]] /\ Home[c] \in Servers
  BY ServiceOK DEF IInv, TypeOK
<1>1. h[c].pc \in ChatPcs /\ h[c].user \in Users
  BY <1>0, ChatLocals
     DEF Carriers, Carrier, GroupPcs, ChatPcs, Passes, Chat, Group, ChatSend, ChatPublish, ChatStore
<1>2. /\ \A d \in Conns : got[d][m] = 0
      /\ \A u \in Users : offlineMessage[u][m] = 0
      /\ \A s \in Servers, u \in Users : ~Has(inbox[s], CopyFor(u, m))
  BY <1>0, Carried
<1>3. Finish(c)
  BY <1>1 DEF Passes, ChatPcs, ChatSend, ChatPublish, ChatStore, GroupSend, GroupPublish, GroupStore
<1>4. \A d \in Conns : h'[d].msg # m /\ (h'[d].pc = "li_ack" => h'[d].rows[m] = 0)
  BY <1>0, <1>3, LetGo
<1>5. CASE ChatSend(c)
  <2>1. PICK p : Deliver(p, m)
    BY <1>5 DEF ChatSend
  <2>2. \A d \in Conns : got'[d][m] <= IF p = d THEN 1 ELSE 0
    BY <1>0, <1>2, <2>1 DEF Deliver
  <2>3. UNCHANGED <<offlineMessage, inbox>>
    BY <1>5 DEF ChatSend, dbVars, redisVars
  <2>4. OnlyAt(m, "down", p)'
    BY <1>2, <1>4, <2>2, <2>3 DEF OnlyAt
  <2>5. QED  BY <2>4 DEF OneCopy
<1>6. CASE ChatPublish(c)
  <2> DEFINE u == h[c].user
  <2>1. Push(Home[c], u, m, 1) /\ UNCHANGED <<got, offlineMessage>>
    BY <1>6 DEF ChatPublish, publish, Torn, Homed, chatVars, dbVars
  <2>2. ASSUME NEW s \in Servers, NEW v \in Users, Has(inbox'[s], CopyFor(v, m))
        PROVE  s \in HomeOf(u) /\ Once(inbox'[s], CopyFor(v, m))
    <3>1. inbox[s] \in Seq(Copy) /\ CopyFor(u, m) \in Copy
      BY <1>0, <1>1 DEF RedisTypeOK, CopyFor, Copy
    <3>2. inbox'[s] # inbox[s]
      BY <1>2, <2>2
    <3>3. u \in subs[s] /\ inbox'[s] = Append(inbox[s], CopyFor(u, m))
      BY <2>1, <3>2 DEF Push, CopyFor
    <3>4. s \in HomeOf(u)
      BY <1>1, <3>3 DEF SubscribedAtHome
    <3>5. ~Has(inbox[s], CopyFor(v, m))
      BY <1>2
    <3>6. Once(inbox[s], CopyFor(v, m))
      BY <3>5 DEF Has, Once
    <3>7. QED  BY <3>1, <3>3, <3>4, <3>5, <3>6, AppendHas
  <2>3. PICK s : HomeOf(u) \subseteq {s}
    BY <1>1 DEF Homed
  <2>4. OnlyAt(m, "pushed", s)'
    BY <1>2, <1>4, <2>1, <2>2, <2>3 DEF OnlyAt
  <2>5. QED  BY <2>4 DEF OneCopy
<1>7. CASE ChatStore(c)
  <2>0. PICK u \in Users : u = h[c].user
    BY <1>1
  <2>1. /\ offlineMessage' = [offlineMessage EXCEPT ![u][m] = @ + 1]
        /\ UNCHANGED <<got, inbox>>
    BY <1>7, <2>0 DEF ChatStore, StoreOffline, DbFault, Homed, redisVars
  <2>2. \A v \in Users : offlineMessage'[v][m] <= IF u = v THEN 1 ELSE 0
    BY <1>0, <1>1, <1>2, <2>1 DEF DbTypeOK
  <2>3. OnlyAt(m, "stored", u)'
    BY <1>2, <1>4, <2>1, <2>2 DEF OnlyAt
  <2>4. QED  BY <2>3 DEF OneCopy
<1>8. QED
  BY <1>1, <1>5, <1>6, <1>7 DEF Passes, ChatPcs, GroupSend, GroupPublish, GroupStore

(* A login that has read m read the only copy, deletes it and then answers. *)
LEMMA OneCopyRead ==
  ASSUME Homed, IInv, OneLogin, ReadRows, NEW m \in OneMsgs, OneCopy(m),
         NEW c \in Conns, h[c].rows[m] # 0, LoginRemove(c) \/ LoginAck(c)
  PROVE  OneCopy(m)'
<1> USE DEF At
<1>0. /\ m \in Msgs /\ m # NoMsg /\ TypeOK /\ DbTypeOK
      /\ got \in [Conns -> [Msgs -> Nat]] /\ h[c].rows[m] \in Nat
  BY Counts, ServiceOK DEF IInv, TypeOK
<1>1. PICK k, y : OnlyAt(m, k, y)
  BY DEF OneCopy
<1>2. CASE LoginRemove(c)
  <2> DEFINE u == h[c].user
  <2>1. h[c].pc = "li_remove" /\ u \in Users /\ UNCHANGED <<got, inbox>>
    BY <1>2 DEF LoginRemove, IInv, HandlersOK, WellFormed, NeedsUser, LoginPcs, chatVars, redisVars
  <2>2. offlineMessage[u][m] \in Nat /\ h[c].rows[m] <= offlineMessage[u][m]
    BY <1>0, <2>1, Counts DEF ReadRows
  <2>3. k = "stored" /\ y = u /\ h[c].rows[m] = 1
    BY <1>0, <1>1, <2>1, <2>2 DEF OnlyAt
  <2>4. /\ h'[c].pc = "li_ack" /\ h'[c].msg = h[c].msg /\ h'[c].rows = h[c].rows
        /\ \A d \in Conns : d # c => h'[d] = h[d]
    BY <1>0, <1>2, GotoLocals DEF LoginRemove
  <2>5. \A v \in Users : offlineMessage'[v][m] <= 0
    <3>1. offlineMessage' = [offlineMessage EXCEPT ![u] = NoRows]
      BY <1>2 DEF LoginRemove, RemoveOffline, DbFault, Homed
    <3>2. \A v \in Users : offlineMessage'[v][m] = IF v = u THEN 0 ELSE offlineMessage[v][m]
      BY <1>0, <2>1, <3>1 DEF DbTypeOK, NoRows
    <3>3. QED  BY <1>0, <1>1, <2>3, <3>2, Counts DEF OnlyAt
  <2>6. OnlyAt(m, "read", c)'
    <3> HIDE DEF u
    <3>1. \A d \in Conns : h'[d].msg # m
      BY <1>1, <2>3, <2>4 DEF OnlyAt
    <3>2. \A d \in Conns : h'[d].pc = "li_ack" /\ h'[d].rows[m] # 0 => d = c /\ h'[d].rows[m] = 1
      BY <1>1, <2>3, <2>4 DEF OnlyAt
    <3>3. \A d \in Conns : got'[d][m] <= 0
      BY <1>1, <2>1, <2>3 DEF OnlyAt
    <3>4. \A s \in Servers, v \in Users : ~Has(inbox'[s], CopyFor(v, m))
      BY <1>1, <2>1, <2>3 DEF OnlyAt
    <3>5. QED  BY <2>5, <3>1, <3>2, <3>3, <3>4 DEF OnlyAt
  <2>7. QED  BY <2>6 DEF OneCopy
<1>3. CASE LoginAck(c)
  <2>1. h[c].pc = "li_ack" /\ UNCHANGED <<offlineMessage, inbox>>
    BY <1>3 DEF LoginAck, dbVars, redisVars
  <2>2. k = "read" /\ y = c /\ h[c].rows[m] = 1
    BY <1>0, <1>1, <2>1 DEF OnlyAt
  <2>3. h'[c] = Idle /\ \A d \in Conns : d # c => h'[d] = h[d]
    BY <1>0, <1>3, FinishLocals DEF LoginAck
  <2>4. \A d \in Conns : got'[d][m] <= IF c = d THEN 1 ELSE 0
    <3>1. \A d \in Conns : got[d][m] = 0
      BY <1>0, <1>1, <2>2, Counts DEF OnlyAt
    <3>2. QED  BY <1>0, <1>3, <2>2, <3>1 DEF LoginAck
  <2>5. OnlyAt(m, "down", c)'
    BY <1>0, <1>1, <2>1, <2>2, <2>3, <2>4, IdleLocals DEF OnlyAt
  <2>6. QED  BY <2>5 DEF OneCopy
<1>4. QED
  BY <1>2, <1>3

LEMMA OneCopyObserved ==
  ASSUME Homed, IInv, Addressed, NEW m \in OneMsgs, OneCopy(m),
         NEW s \in Servers, Observe(s), Head(inbox[s]).msg = m
  PROVE  OneCopy(m)'
<1>0. /\ m \in Msgs /\ TypeOK /\ DbTypeOK /\ RedisTypeOK /\ got \in [Conns -> [Msgs -> Nat]]
  BY ServiceOK DEF IInv, TypeOK
<1>1. PICK k, y : OnlyAt(m, k, y)
  BY DEF OneCopy
<1>2. PICK u \in Users : /\ u = Head(inbox[s]).to /\ Head(inbox[s]) = CopyFor(u, m)
                         /\ Has(inbox[s], CopyFor(u, m))
                         /\ inbox[s] \in Seq(Copy) /\ inbox[s] # <<>>
  BY HeadCopy
<1>3. k = "pushed" /\ y = s /\ Once(inbox[s], CopyFor(u, m))
  BY <1>1, <1>2 DEF OnlyAt
<1>4. ASSUME NEW r \in Servers, NEW v \in Users, Has(inbox'[r], CopyFor(v, m)) PROVE FALSE
  <2>1. inbox'[r] = IF r = s THEN Tail(inbox[s]) ELSE inbox[r]
    BY <1>0 DEF Observe, Consume, RedisTypeOK
  <2>2. CASE r # s
    BY <1>1, <1>3, <1>4, <2>1, <2>2 DEF OnlyAt
  <2>3. CASE r = s
    <3>1. Has(inbox[s], CopyFor(v, m))
      BY <1>2, <1>4, <2>1, <2>3, TailHas
    <3>2. v \in Rcpt[m] /\ u \in Rcpt[m]
      BY <1>2, <3>1 DEF Has, CopyFor, Addressed, PushedForReceiver
    <3>3. v = u
      BY <3>2, ServiceOK
    <3>4. QED  BY <1>2, <1>3, <1>4, <2>1, <2>3, <3>3, TailHas
  <2>4. QED  BY <2>2, <2>3
<1>5. /\ \A d \in Conns : got[d][m] = 0
      /\ \A v \in Users : offlineMessage[v][m] = 0
  BY <1>0, <1>1, <1>3, Counts DEF OnlyAt
<1>6. /\ UNCHANGED h
      /\ \A d \in Conns : h[d].msg # m /\ (h[d].pc = "li_ack" => h[d].rows[m] = 0)
  BY <1>1, <1>3 DEF Observe, OnlyAt
<1>7. CASE UNCHANGED offlineMessage /\ \E p : Deliver(p, m)
  <2>1. PICK p : Deliver(p, m)
    BY <1>7
  <2>2. \A d \in Conns : got'[d][m] <= IF p = d THEN 1 ELSE 0
    BY <1>0, <1>5, <2>1 DEF Deliver
  <2>3. OnlyAt(m, "down", p)'
    BY <1>4, <1>5, <1>6, <1>7, <2>2 DEF OnlyAt
  <2>4. QED  BY <2>3 DEF OneCopy
<1>8. CASE UNCHANGED got /\ StoreOffline(u, m)
  <2>1. offlineMessage' = [offlineMessage EXCEPT ![u][m] = @ + 1]
    BY <1>8 DEF StoreOffline, DbFault, Homed
  <2>2. \A v \in Users : offlineMessage'[v][m] <= IF u = v THEN 1 ELSE 0
    BY <1>0, <1>2, <1>5, <2>1 DEF DbTypeOK
  <2>3. OnlyAt(m, "stored", u)'
    BY <1>4, <1>5, <1>6, <1>8, <2>2 DEF OnlyAt
  <2>4. QED  BY <2>3 DEF OneCopy
<1>9. QED
  BY <1>2, <1>7, <1>8 DEF Observe, dbVars

LEMMA OneCopyNext ==
  ASSUME Homed, IInv, Carriers, Addressed, Fresh, Logins, OneCopies, [Next]_vars
  PROVE  OneCopies'
<1> SUFFICES ASSUME NEW m \in OneMsgs PROVE OneCopy(m)'
  BY DEF OneCopies
<1>0. m \in Msgs /\ OneCopy(m) /\ IInv'
  BY SessionsNext, ServiceOK DEF OneCopies
<1>1. CASE NoMore(m)
  BY <1>0, <1>1, OneCopyStays
<1>2. CASE Moving(m)
  <2>1. \A c \in Conns : ~GroupChat(c, m)
    BY DEF GroupChat
  <2>2. QED
    BY <1>0, <1>2, <2>1, OneCopySent, OneCopyMoved, OneCopyRead, OneCopyObserved
       DEF Moving, Logins
<1>3. QED
  BY <1>0, <1>1, <1>2, CopiesMove

LEMMA OneCopyInvariant == ASSUME Homed PROVE Spec => []OneCopies
<1>1. Init => OneCopies
  <2> SUFFICES ASSUME Init, NEW m \in OneMsgs PROVE OneCopy(m)
    BY DEF OneCopies
  <2>1. m \in Msgs /\ m # NoMsg
    BY ServiceOK
  <2>2. Unsent(m)
    BY <2>1, FreshInit DEF Fresh, Init
  <2>3. \A c \in Conns : h[c].pc = "idle" /\ h[c].msg = NoMsg
    BY IdleLocals DEF Init
  <2>4. OnlyAt(m, "sending", NoConn)
    BY <2>1, <2>2, <2>3 DEF OnlyAt, Unsent
  <2>5. QED  BY <2>4 DEF OneCopy
<1>2. IInv /\ Carriers /\ Addressed /\ Fresh /\ Logins /\ OneCopies /\ [Next]_vars => OneCopies'
  BY OneCopyNext
<1>3. QED
  BY <1>1, <1>2, SessionsInvariant, CarriersInvariant, AddressedInvariant, FreshInvariant,
     LoginsInvariant, PTL DEF Spec

(* The copies that AtMostOnce counts are those of OneCopy. *)
LEMMA CountedOnce ==
  ASSUME IInv, Addressed, NEW m \in OneMsgs, OneCopy(m)
  PROVE  \A x, z \in Copies(m) : x = z
<1>0. m \in Msgs
  BY ServiceOK
<1>1. PICK k, y : OnlyAt(m, k, y)
  BY DEF OneCopy
<1> DEFINE Pushed(x) == \E i \in 1..Len(inbox[y]) : x = <<"pushed", y, i>> /\ inbox[y][i].msg = m
<1>2. ASSUME NEW x \in Copies(m)
      PROVE  \/ k \in {"down", "stored", "read"} /\ x = <<k, y, 1>>
             \/ k = "pushed" /\ y \in Servers /\ Pushed(x)
  <2>1. CASE \E c \in Conns : \E i \in 1..got[c][m] : x = <<"down", c, i>>
    <3>5. PICK c \in Conns : \E i \in 1..got[c][m] : x = <<"down", c, i>>
      BY <2>1
    <3>1. PICK i \in 1..got[c][m] : x = <<"down", c, i>>
      BY <3>5
    <3>2. got[c][m] \in Nat /\ got[c][m] >= 1
      BY <1>0, <3>1, Counts
    <3>3. k = "down" /\ y = c /\ got[c][m] = 1
      BY <1>1, <3>2 DEF OnlyAt
    <3>4. QED  BY <3>1, <3>3
  <2>2. CASE \E u \in Users : \E i \in 1..offlineMessage[u][m] : x = <<"stored", u, i>>
    <3>5. PICK u \in Users : \E i \in 1..offlineMessage[u][m] : x = <<"stored", u, i>>
      BY <2>2
    <3>1. PICK i \in 1..offlineMessage[u][m] : x = <<"stored", u, i>>
      BY <3>5
    <3>2. offlineMessage[u][m] \in Nat /\ offlineMessage[u][m] >= 1
      BY <1>0, <3>1, Counts
    <3>3. k = "stored" /\ y = u /\ offlineMessage[u][m] = 1
      BY <1>1, <3>2 DEF OnlyAt
    <3>4. QED  BY <3>1, <3>3
  <2>3. CASE \E s \in Servers : \E i \in {j \in 1..Len(inbox[s]) : inbox[s][j].msg = m} :
                x = <<"pushed", s, i>>
    <3>1. PICK s \in Servers : \E i \in 1..Len(inbox[s]) : inbox[s][i].msg = m /\ x = <<"pushed", s, i>>
      BY <2>3
    <3>2. PICK i \in 1..Len(inbox[s]) : inbox[s][i].msg = m /\ x = <<"pushed", s, i>>
      BY <3>1
    <3>3. inbox[s][i] \in Copy
      BY DEF IInv, TypeOK, RedisTypeOK
    <3>4. inbox[s][i].to \in Users /\ inbox[s][i] = CopyFor(inbox[s][i].to, m)
      BY <3>2, <3>3 DEF Copy, CopyFor
    <3>5. k = "pushed" /\ y = s
      BY <1>1, <3>4 DEF OnlyAt, Has
    <3>6. QED  BY <3>2, <3>5
  <2>4. CASE \E c \in Conns : At(c, "li_ack") /\ \E i \in 1..h[c].rows[m] : x = <<"read", c, i>>
    <3>1. PICK c \in Conns : At(c, "li_ack") /\ \E i \in 1..h[c].rows[m] : x = <<"read", c, i>>
      BY <2>4
    <3>2. PICK i \in 1..h[c].rows[m] : x = <<"read", c, i>>
      BY <3>1
    <3>3. h[c].rows[m] \in Nat /\ h[c].rows[m] >= 1
      BY <1>0, <3>2, Counts
    <3>4. k = "read" /\ y = c /\ h[c].rows[m] = 1
      BY <1>1, <3>1, <3>3 DEF OnlyAt, At
    <3>5. QED  BY <3>2, <3>4
  <2> DEFINE Down   == UNION {{<<"down", c, i>> : i \in 1..got[c][m]} : c \in Conns}
             Stored == UNION {{<<"stored", u, i>> : i \in 1..offlineMessage[u][m]} : u \in Users}
             InBox  == UNION {{<<"pushed", s, i>> : i \in {j \in 1..Len(inbox[s]) : inbox[s][j].msg = m}}
                              : s \in Servers}
             InRows == UNION {{<<"read", c, i>> : i \in 1..h[c].rows[m]}
                              : c \in {d \in Conns : At(d, "li_ack")}}
  <2>5. Copies(m) = Down \cup Stored \cup InBox \cup InRows
    BY DEF Copies
  <2>6. /\ x \in Down   => \E c \in Conns : \E i \in 1..got[c][m] : x = <<"down", c, i>>
        /\ x \in Stored => \E u \in Users : \E i \in 1..offlineMessage[u][m] : x = <<"stored", u, i>>
    OBVIOUS
  <2>7. x \in InBox =>
          \E s \in Servers : \E i \in {j \in 1..Len(inbox[s]) : inbox[s][j].msg = m} :
              x = <<"pushed", s, i>>
    OBVIOUS
  <2>9. x \in InRows => \E c \in Conns : At(c, "li_ack") /\ \E i \in 1..h[c].rows[m] : x = <<"read", c, i>>
    OBVIOUS
  <2> HIDE DEF Pushed, Down, Stored, InBox, InRows
  <2>10. x \in Down \/ x \in Stored \/ x \in InBox \/ x \in InRows
    BY <1>2, <2>5
  <2>8. QED  BY <2>1, <2>2, <2>3, <2>4, <2>6, <2>7, <2>9, <2>10
<1>3. ASSUME k = "pushed", y \in Servers, NEW i \in 1..Len(inbox[y]), NEW j \in 1..Len(inbox[y]),
             inbox[y][i].msg = m, inbox[y][j].msg = m
      PROVE  i = j
  <2>1. inbox[y][i] \in Copy /\ inbox[y][j] \in Copy
    BY <1>3 DEF IInv, TypeOK, RedisTypeOK
  <2>2. inbox[y][i].to \in Rcpt[m] /\ inbox[y][j].to \in Rcpt[m]
    BY <1>3 DEF Addressed, PushedForReceiver
  <2>3. PICK u \in Users : Rcpt[m] = {u}
    BY ServiceOK
  <2>4. inbox[y][i] = CopyFor(u, m) /\ inbox[y][j] = CopyFor(u, m)
    BY <1>3, <2>1, <2>2, <2>3 DEF Copy, CopyFor
  <2>5. QED  BY <1>1, <1>3, <2>3, <2>4 DEF OnlyAt, Once, Has
<1>4. QED
  BY <1>2, <1>3

(* When users use one client at a time and the clients of a user are all    *)
(* clients of one server, and the database and the contexts of hiredis      *)
(* work, no one-to-one message is ever there twice: whatever the order in   *)
(* which oneChat's unlocked find, the database's state column, redis, the   *)
(* observer thread and the login that reads and deletes the offline rows    *)
(* see each other (chatservice.cc:131, 277, 299, 363), with every crash,    *)
(* restart, ctrl + c and broken redis link.                                 *)
THEOREM AtMostOnceCorrect == ASSUME Homed PROVE Spec => []AtMostOnce
<1>1. IInv /\ Addressed /\ OneCopies => AtMostOnce
  <2> SUFFICES ASSUME IInv, Addressed, OneCopies, NEW m \in OneMsgs
               PROVE  \A x, z \in Copies(m) : x = z
    BY DEF AtMostOnce
  <2>1. QED  BY CountedOnce DEF OneCopies
<1>2. QED
  BY <1>1, SessionsInvariant, AddressedInvariant, OneCopyInvariant, PTL
=============================================================================
