------------------------- MODULE ChatDeliveryProofs -------------------------
(***************************************************************************)
(* A message reaches every receiver whose session does not change          *)
(* meanwhile, for any servers, users, connections, messages, and clients   *)
(* that vanish, servers that are killed and started again and unlocked map *)
(* reads: built on what ChatCoherenceProofs says of sessions and           *)
(* ChatOwnerProofs of copies.                                              *)
(***************************************************************************)
EXTENDS ChatCoherenceProofs, ChatOwnerProofs

(* The handler that carries m has still to serve u. *)
Serves(x, u) == \/ x.pc \in ChatPcs \/ u \in x.todo
                \/ x.pc \in {"gc_publish", "gc_store"} /\ x.user = u
Waiting(m, u) == h[From[m]].msg = m /\ Serves(h[From[m]], u)

(* What a handler found out about u still holds. *)
Informed(x, c, u) ==
  /\ x.pc = "oc_send" => x.peer = Entry(c, u)
  /\ x.pc = "oc_publish" \/ (x.pc = "gc_publish" /\ x.user = u) => userState[u] = "online"
  /\ x.pc = "oc_store" \/ (x.pc = "gc_store" /\ x.user = u) => userState[u] = "offline"

(* Nobody brings u in or takes u out, and the records of u agree. *)
InMap(s, u) == userConnMap[s][u] # NoConn
AtRest(u) ==
  /\ \A c \in Conns : h[c].user = u => h[c].pc \notin SessionPcs
  /\ \A s \in Servers : u \in subs[s] <=> InMap(s, u)
  /\ \A s, t \in Servers : InMap(s, u) /\ InMap(t, u) => s = t
  /\ userState[u] = "online" <=> \E s \in Servers : InMap(s, u)
  /\ \A s \in Servers, c \in Conns : userConnMap[s][u] = c => who[c] = u /\ conn[c] = "up"

(* m is on its way to u, or it is where it belongs: down the connection of  *)
(* u, or in the offline table when u is offline.                            *)
Placed(m, u) ==
  /\ Waiting(m, u) => Informed(h[From[m]], From[m], u)
  /\ offlineMessage[u][m] = IF Waiting(m, u) \/ userState[u] = "online" THEN 0 ELSE 1
  /\ \A s \in Servers : Has(inbox[s], CopyFor(u, m)) =>
       InMap(s, u) /\ Once(inbox[s], CopyFor(u, m)) /\ ~Waiting(m, u)
  /\ \A s \in Servers, c \in Conns : userConnMap[s][u] = c =>
       got[c][m] = IF Waiting(m, u) \/ Has(inbox[s], CopyFor(u, m)) THEN 0 ELSE 1

CalmPlaced == \A m \in Msgs : \A u \in calm[m] :
  m \in sent /\ u \in Rcpt[m] /\ AtRest(u) /\ Placed(m, u)

-----------------------------------------------------------------------------
(*                      sessions that do not change                        *)

Unmoved(u) ==
  /\ userState'[u] = userState[u]
  /\ \A s \in Servers : userConnMap'[s][u] = userConnMap[s][u]
  /\ \A s \in Servers : u \in subs'[s] <=> u \in subs[s]
  /\ \A c \in Conns : who'[c] = u /\ conn'[c] = "up" <=> who[c] = u /\ conn[c] = "up"
  /\ \A c \in Conns : h'[c].user = u /\ h'[c].pc \in SessionPcs <=>
                      h[c].user = u /\ h[c].pc \in SessionPcs

LEMMA ViewUnmoved == ASSUME NEW u \in Users, View(u)' = View(u) PROVE Unmoved(u)
<1>1. /\ userState'[u] = userState[u]
      /\ [s \in Servers |-> userConnMap'[s][u]] = [s \in Servers |-> userConnMap[s][u]]
      /\ {s \in Servers : u \in subs'[s]} = {s \in Servers : u \in subs[s]}
      /\ {c \in Conns : who'[c] = u /\ conn'[c] = "up"} =
           {c \in Conns : who[c] = u /\ conn[c] = "up"}
      /\ {c \in Conns : h'[c].user = u /\ h'[c].pc \in LoginPcs \cup LogoutPcs \cup ClosePcs} =
           {c \in Conns : h[c].user = u /\ h[c].pc \in LoginPcs \cup LogoutPcs \cup ClosePcs}
  BY DEF View
<1>2. \A s \in Servers : userConnMap'[s][u] = userConnMap[s][u]
  BY <1>1
<1>3. \A s \in Servers : u \in subs'[s] <=> u \in subs[s]
  BY <1>1
<1>4. \A c \in Conns : who'[c] = u /\ conn'[c] = "up" <=> who[c] = u /\ conn[c] = "up"
  BY <1>1
<1>5. \A c \in Conns : h'[c].user = u /\ h'[c].pc \in SessionPcs <=>
                       h[c].user = u /\ h[c].pc \in SessionPcs
  BY <1>1 DEF SessionPcs
<1>6. QED
  BY <1>1, <1>2, <1>3, <1>4, <1>5 DEF Unmoved

LEMMA RestKept == ASSUME NEW u \in Users, AtRest(u), Unmoved(u) PROVE AtRest(u)'
<1>1. \A s \in Servers : InMap(s, u)' <=> InMap(s, u)
  BY DEF InMap, Unmoved
<1>2. \A s \in Servers, c \in Conns : userConnMap'[s][u] = c => who'[c] = u /\ conn'[c] = "up"
  BY DEF Unmoved, AtRest
<1>3. QED
  BY <1>1, <1>2 DEF AtRest, Unmoved

(* The connection of u is no other user's, and no login or logout runs on it. *)
LEMMA Apart ==
  ASSUME IInv, NEW u \in Users, NEW c \in Conns, who[c] = u
  PROVE  /\ h[c].pc \notin LoginPcs \cup LogoutPcs
         /\ \A s \in Servers, v \in Users : userConnMap[s][v] = c => v = u
<1>1. h[c].pc \notin LoginPcs \cup LogoutPcs
  BY SystemOK DEF IInv, SessionsOK
<1>2. ASSUME NEW s \in Servers, NEW v \in Users, userConnMap[s][v] = c PROVE v = u
  <2>1. Carries(c, v)
    BY <1>2, MapUse
  <2>2. QED  BY <1>1, <2>1 DEF Carries, EnteredPcs, LogoutPcs
<1>3. QED  BY <1>1, <1>2

-----------------------------------------------------------------------------
(*                      copies for u that do not move                      *)

Kept(m, u) == \A s \in Servers :
  /\ Has(inbox'[s], CopyFor(u, m)) <=> Has(inbox[s], CopyFor(u, m))
  /\ Once(inbox[s], CopyFor(u, m)) => Once(inbox'[s], CopyFor(u, m))

Still(m, u) ==
  /\ offlineMessage'[u][m] = offlineMessage[u][m]
  /\ \A c \in Conns : who[c] = u => got'[c][m] = got[c][m]
  /\ Kept(m, u)
  /\ Waiting(m, u)' <=> Waiting(m, u)
  /\ Waiting(m, u) => Informed(h[From[m]], From[m], u)'

LEMMA StillPlaced ==
  ASSUME NEW m \in Msgs, NEW u \in Users, AtRest(u), Unmoved(u), Placed(m, u), Still(m, u)
  PROVE  Placed(m, u)'
<1>1. \A s \in Servers : InMap(s, u)' <=> InMap(s, u)
  BY DEF InMap, Unmoved
<1>2. (Waiting(m, u) => Informed(h[From[m]], From[m], u))'
  BY DEF Still
<1>3. offlineMessage'[u][m] = IF Waiting(m, u)' \/ userState'[u] = "online" THEN 0 ELSE 1
  BY DEF Still, Placed, Unmoved
<1>4. \A s \in Servers : Has(inbox'[s], CopyFor(u, m)) =>
        InMap(s, u)' /\ Once(inbox'[s], CopyFor(u, m)) /\ ~Waiting(m, u)'
  BY <1>1 DEF Still, Kept, Placed
<1>5. \A s \in Servers, c \in Conns : userConnMap'[s][u] = c =>
        got'[c][m] = IF Waiting(m, u)' \/ Has(inbox'[s], CopyFor(u, m)) THEN 0 ELSE 1
  BY DEF Still, Kept, Placed, Unmoved, AtRest
<1>6. QED
  BY <1>2, <1>3, <1>4, <1>5 DEF Placed

LEMMA SameKept == ASSUME UNCHANGED inbox, NEW m, NEW u PROVE Kept(m, u)
BY DEF Kept

LEMMA PushElsewhere ==
  ASSUME RedisTypeOK, NEW s \in Servers, NEW v \in Users, NEW n \in Msgs, Push(s, v, n, 1),
         NEW m \in Msgs, NEW u \in Users, <<v, n>> # <<u, m>>
  PROVE  Kept(m, u)
<1> DEFINE x == CopyFor(v, n)  y == CopyFor(u, m)
<1>1. x \in Copy /\ x # y
  BY DEF Copy, CopyFor
<1>2. ASSUME NEW r \in Servers
      PROVE  /\ Has(inbox'[r], y) <=> Has(inbox[r], y)
             /\ Once(inbox[r], y) => Once(inbox'[r], y)
  <2>1. inbox[r] \in Seq(Copy) /\ inbox'[r] \in {inbox[r], Append(inbox[r], x)}
    BY DEF RedisTypeOK, Push, CopyFor
  <2> HIDE DEF x, y
  <2>2. /\ Has(Append(inbox[r], x), y) <=> Has(inbox[r], y)
        /\ Once(inbox[r], y) => Once(Append(inbox[r], x), y)
    BY <1>1, <2>1, AppendHas
  <2>3. QED  BY <2>1, <2>2
<1>3. QED  BY <1>2 DEF Kept

LEMMA ConsumeElsewhere ==
  ASSUME RedisTypeOK, NEW s \in Servers, inbox[s] # <<>>, Consume(s),
         NEW m \in Msgs, NEW u \in Users, Head(inbox[s]) # CopyFor(u, m)
  PROVE  Kept(m, u)
<1>1. ASSUME NEW r \in Servers
      PROVE  /\ Has(inbox'[r], CopyFor(u, m)) <=> Has(inbox[r], CopyFor(u, m))
             /\ Once(inbox[r], CopyFor(u, m)) => Once(inbox'[r], CopyFor(u, m))
  <2>1. inbox[r] \in Seq(Copy) /\ inbox'[r] = IF r = s THEN Tail(inbox[r]) ELSE inbox[r]
    BY DEF RedisTypeOK, Consume
  <2>2. CASE r = s
    BY <2>1, <2>2, TailHas
  <2>3. CASE r # s
    BY <2>1, <2>3
  <2>4. QED  BY <2>2, <2>3
<1>2. QED  BY <1>1 DEF Kept

(* The channel of a dying server that has no copy of m. *)
LEMMA DisconnectElsewhere ==
  ASSUME RedisTypeOK, NEW s \in Servers, Disconnect(s, Contexts), NEW m, NEW u,
         \A i \in 1..Len(inbox[s]) : inbox[s][i].msg # m
  PROVE  Kept(m, u)
<1>1. CopyFor(u, m).msg = m
  BY DEF CopyFor
<1>2. ~Has(inbox[s], CopyFor(u, m))
  BY <1>1 DEF Has
<1>3. inbox'[s] = <<>> /\ \A r \in Servers : r # s => inbox'[r] = inbox[r]
  BY DEF Disconnect, Contexts, RedisTypeOK
<1>4. QED
  BY <1>2, <1>3, EmptyHas DEF Kept

(* A step that makes no copy of m, takes none of those for u and does not   *)
(* touch the handler of m.                                                  *)
LEMMA NoMoreStill ==
  ASSUME NEW m \in Msgs, NEW u \in Users, Unmoved(u), Placed(m, u), NoMore(m), Kept(m, u),
         offlineMessage'[u][m] = offlineMessage[u][m],
         \A c \in Conns : h'[c] = h[c] \/ h[c].msg # m
  PROVE  Still(m, u)
<1> DEFINE c == From[m]
<1>1. c \in Conns /\ Home[c] \in Servers
  BY ServiceOK
<1>2. \A d \in Conns : got'[d][m] = got[d][m]
  BY DEF NoMore
<1>3. CASE h'[c] = h[c]
  <2>1. Waiting(m, u)' <=> Waiting(m, u)
    BY <1>3 DEF Waiting, Serves
  <2>2. Waiting(m, u) => Informed(h[From[m]], From[m], u)'
    BY <1>1, <1>3 DEF Placed, Informed, Entry, Unmoved
  <2>3. QED  BY <1>2, <2>1, <2>2 DEF Still
<1>4. CASE h[c].msg # m
  <2>1. ~Waiting(m, u) /\ ~Waiting(m, u)'
    BY <1>1, <1>4 DEF Waiting, NoMore
  <2>2. QED  BY <1>2, <2>1 DEF Still
<1>5. QED  BY <1>1, <1>3, <1>4

(* login, loginout and clientCloseException of others, and the requests and *)
(* ends of connections.                                                     *)
SessionStep(c) == \/ Login(c) \/ \E u \in Users : LoginQuery(c, u)
                  \/ Logout(c) \/ LogoutRequest(c) \/ Close(c) \/ Vanish(c)

LEMMA SessionHandler ==
  ASSUME IInv, Carriers, NEW c \in Conns, SessionStep(c), ~NullRow(c), ~RaceCrash(c),
         NEW m \in Msgs
  PROVE  \A d \in Conns : h'[d] = h[d] \/ h[d].msg # m
<1>1. \A d \in Conns : d # c => h'[d] = h[d]
  BY OneHandler DEF SessionStep, Requests, Steps
<1>2. h' = h \/ h[c].pc \in {"idle"} \cup SessionPcs
  <2>1. CASE Login(c)
    BY <2>1, SMTT(30) DEF Login, LoginInsert, LoginSubscribe, LoginOnline, LoginOffline, LoginRemove,
                LoginAck, At, SessionPcs, LoginPcs
  <2>2. CASE Logout(c) \/ Close(c)
    BY <2>2 DEF Logout, LogoutUpdate, LogoutFail, LogoutErase, LogoutUnsubscribe, Close, CloseErase,
                CloseUnsubscribe, CloseUpdate, At, SessionPcs, LogoutPcs, ClosePcs
  <2>3. CASE \E u \in Users : LoginQuery(c, u)
    BY <2>3 DEF LoginQuery, CanLogin, Ready, IInv, SessionsOK, SessionPcs
  <2>4. QED  BY <2>1, <2>2, <2>3 DEF SessionStep, LogoutRequest, Ready, Vanish
<1>3. h[c].pc \in {"idle"} \cup SessionPcs => h[c].msg = NoMsg
  BY DEF Carriers, Carrier, SessionPcs, LoginPcs, LogoutPcs, ClosePcs, ChatPcs, GroupPcs
<1>4. QED  BY <1>1, <1>2, <1>3, ServiceOK

LEMMA SessionStill ==
  ASSUME IInv, Carriers, Orderly, Linked, NEW c \in Conns, SessionStep(c), ~NullRow(c), ~RaceCrash(c),
         NEW m \in Msgs, NEW u \in Users, AtRest(u), Unmoved(u), Placed(m, u)
  PROVE  Still(m, u)
<1> USE DEF At
<1>0. TypeOK /\ RedisTypeOK /\ DbTypeOK /\ Home[c] \in Servers /\ h \in [Conns -> Handler]
  BY ServiceOK DEF IInv, TypeOK
<1>1. \A d \in Conns : h'[d] = h[d] \/ h[d].msg # m
  BY SessionHandler
<1>2. ~Torn(c, SubscribePcs)
  BY DEF Torn, Linked
<1>3. CASE LoginRemove(c)
  <2>1. h[c].pc = "li_remove" /\ h[c].user # u /\ h[c].user \in Users
    BY <1>3 DEF LoginRemove, AtRest, SessionPcs, LoginPcs, IInv, HandlersOK, WellFormed, NeedsUser
  <2>2. UNCHANGED <<got, inbox>> /\ offlineMessage'[u] = offlineMessage[u]
    BY <1>0, <1>3, <2>1 DEF LoginRemove, RemoveOffline, DbTypeOK, chatVars, redisVars
  <2>3. Goto(c, "li_ack")
    BY <1>3 DEF LoginRemove
  <2>4. \A d \in Conns : h'[d].msg = h[d].msg
    BY <1>0, <2>3, GotoLocals
  <2>5. Waiting(m, u)' <=> Waiting(m, u)
    BY <1>0, <1>1, <2>4, ServiceOK DEF Waiting, Serves
  <2>6. Waiting(m, u) => Informed(h[From[m]], From[m], u)'
    <3>1. From[m] \in Conns /\ Home[From[m]] \in Servers
      BY ServiceOK
    <3>2. Waiting(m, u) => h'[From[m]] = h[From[m]]
      BY <1>1, <3>1 DEF Waiting
    <3>3. QED  BY <3>1, <3>2 DEF Placed, Informed, Entry, Unmoved
  <2>7. QED  BY <2>2, <2>5, <2>6, SameKept DEF Still
<1>4. CASE LoginAck(c)
  <2>1. h[c].pc = "li_ack" /\ who[c] # u
    BY <1>4, SystemOK DEF LoginAck, IInv, SessionsOK, LoginPcs
  <2>2. /\ UNCHANGED <<offlineMessage, inbox>> /\ Finish(c)
        /\ \A d \in Conns : d # c => got'[d] = got[d]
    BY <1>0, <1>4 DEF LoginAck, dbVars, redisVars, TypeOK
  <2>3. /\ From[m] \in Conns /\ Home[From[m]] \in Servers
        /\ Waiting(m, u) => h'[From[m]] = h[From[m]]
    BY <1>1, ServiceOK DEF Waiting
  <2>4. Waiting(m, u)' => Waiting(m, u)
    BY <1>0, <2>2, <2>3, FinishLocals, IdleLocals, ServiceOK DEF Waiting
  <2>5. Waiting(m, u)' <=> Waiting(m, u)
    BY <2>3, <2>4 DEF Waiting
  <2>6. Waiting(m, u) => Informed(h[From[m]], From[m], u)'
    BY <2>3 DEF Placed, Informed, Entry, Unmoved
  <2>7. QED  BY <2>1, <2>2, <2>5, <2>6, SameKept DEF Still
<1>5. CASE ~LoginRemove(c) /\ ~LoginAck(c)
  <2>1. NoMore(m)
    BY <1>5, SessionsNoMore DEF SessionStep
  <2>2. UNCHANGED offlineMessage
    <3>1. CASE Login(c)
      BY <1>5, <3>1, SMTT(30) DEF Login, LoginInsert, LoginSubscribe, LoginOnline, LoginOffline,
                        UpdateState, dbVars
    <3>2. CASE Logout(c)
      BY <3>2 DEF Logout, LogoutUpdate, LogoutFail, LogoutErase, LogoutUnsubscribe, UpdateState, dbVars
    <3>3. CASE Close(c)
      BY <3>3 DEF Close, CloseErase, CloseUnsubscribe, CloseUpdate, UpdateState, dbVars
    <3>4. QED  BY <3>1, <3>2, <3>3 DEF SessionStep, LoginQuery, LogoutRequest, Vanish, dbVars
  <2>3. UNCHANGED inbox
    <3>1. CASE LoginSubscribe(c) \/ LogoutUnsubscribe(c) \/ CloseUnsubscribe(c)
      BY <1>0, <1>2, <3>1, SubscribeInbox DEF LoginSubscribe, LogoutUnsubscribe, CloseUnsubscribe
    <3>2. CASE LoginInsert(c) \/ LoginOnline(c) \/ LoginOffline(c) \/ CloseErase(c) \/ CloseUpdate(c)
      BY <3>2 DEF LoginInsert, LoginOnline, LoginOffline, CloseErase, CloseUpdate, redisVars
    <3>3. CASE LogoutUpdate(c) \/ LogoutFail(c) \/ LogoutErase(c)
      BY <3>3 DEF LogoutUpdate, LogoutFail, LogoutErase, redisVars
    <3>4. CASE (\E v \in Users : LoginQuery(c, v)) \/ LogoutRequest(c) \/ Vanish(c)
      BY <3>4 DEF LoginQuery, LogoutRequest, Vanish, redisVars
    <3>5. QED  BY <1>5, <3>1, <3>2, <3>3, <3>4 DEF SessionStep, Login, Logout, Close
  <2>4. QED  BY <1>1, <2>1, <2>2, <2>3, SameKept, NoMoreStill
<1>6. QED  BY <1>3, <1>4, <1>5

(* oneChat and groupChat with another message. *)
LEMMA OtherChatStill ==
  ASSUME IInv, Carriers, Orderly, Linked, NEW c \in Conns, NEW m \in Msgs, NEW u \in Users,
         \/ \E n \in Msgs \ {m} : OneChat(c, n) \/ GroupChat(c, n)
         \/ (Chat(c) \/ Group(c)) /\ h[c].msg # m,
         AtRest(u), Unmoved(u), Placed(m, u)
  PROVE  Still(m, u)
<1> USE DEF At
<1>0. TypeOK /\ RedisTypeOK /\ DbTypeOK
  BY DEF IInv, TypeOK
<1>1. ASSUME NEW n \in Msgs \ {m}, OneChat(c, n) \/ GroupChat(c, n) PROVE Still(m, u)
  <2>1. NoMore(m)
    BY <1>1, StartNoMore
  <2>2. UNCHANGED <<offlineMessage, inbox>> /\ h[c].pc = "idle"
    BY <1>1 DEF OneChat, GroupChat, CanSend, Ready, dbVars, redisVars
  <2>3. h[c].msg # m
    BY <2>2, ServiceOK DEF Carriers, Carrier, ChatPcs, GroupPcs
  <2>4. \A d \in Conns : h'[d] = h[d] \/ h[d].msg # m
    BY <1>0, <1>1, <2>3, ChatsElsewhere
  <2>5. QED  BY <2>1, <2>2, <2>4, SameKept, NoMoreStill
<1>2. CASE (Chat(c) \/ Group(c)) /\ h[c].msg # m
  <2>1. NoMore(m)
    BY <1>2, ChatNoMore
  <2>2. /\ \A d \in Conns : h'[d] = h[d] \/ h[d].msg # m
        /\ h[c].msg \in Msgs /\ Home[c] \in Servers
        /\ h[c].pc \in ChatPcs \cup {"gc_publish", "gc_store"} => h[c].user \in Users
    BY <1>2, ChatLocals
  <2>3. offlineMessage'[u][m] = offlineMessage[u][m] /\ Kept(m, u)
    <3>1. CASE ChatStore(c) \/ GroupStore(c)
      <4>1. /\ StoreOffline(h[c].user, h[c].msg) /\ UNCHANGED inbox
            /\ h[c].user \in Users
        BY <2>2, <3>1 DEF ChatStore, GroupStore, redisVars, ChatPcs
      <4>2. QED  BY <1>0, <1>2, <2>2, <4>1, StoreKept, SameKept
    <3>2. CASE ChatPublish(c) \/ GroupPublish(c)
      <4>1. /\ Push(Home[c], h[c].user, h[c].msg, 1) /\ UNCHANGED offlineMessage
            /\ h[c].user \in Users
        BY <2>2, <3>2 DEF ChatPublish, GroupPublish, publish, Torn, Linked, dbVars, ChatPcs
      <4>2. QED  BY <1>0, <1>2, <2>2, <4>1, PushElsewhere
    <3>3. CASE /\ ~ChatStore(c) /\ ~GroupStore(c) /\ ~ChatPublish(c) /\ ~GroupPublish(c)
      <4>1. CASE ChatSend(c) \/ ChatQuery(c) \/ GroupLock(c)
        BY <4>1, SameKept DEF ChatSend, ChatQuery, GroupLock, dbVars, redisVars
      <4>2. CASE GroupSend(c) \/ GroupQuery(c) \/ GroupDone(c)
        BY <4>2, SameKept DEF GroupSend, GroupQuery, GroupDone, dbVars, redisVars
      <4>3. QED  BY <1>2, <3>3, <4>1, <4>2 DEF Chat, Group
    <3>4. QED  BY <3>1, <3>2, <3>3
  <2>4. QED  BY <2>1, <2>2, <2>3, NoMoreStill
<1>3. QED  BY <1>1, <1>2

(* redis executes a command, a server starts again, or one dies that has no *)
(* copy of m.                                                               *)
LEMMA ServerStill ==
  ASSUME IInv, Orderly, Linked, NEW m \in Msgs, NEW u \in Users,
         \/ \E s \in Servers : Server(s) /\ ~Observe(s)
         \/ \E c \in Conns : NullRow(c) \/ RaceCrash(c),
         Survives(m), AtRest(u), Unmoved(u), Placed(m, u)
  PROVE  Still(m, u)
<1>0. TypeOK /\ RedisTypeOK /\ \A c \in Conns : Home[c] \in Servers
  BY ServiceOK DEF IInv, TypeOK
<1>1. NoMore(m)
  BY ServerNoMore
<1>2. ASSUME NEW s \in Servers, NEW how \in Ends, Alive(s), Die(s, how) PROVE Still(m, u)
  <2>1. Dies(s)
    <3>1. up'[s] = how
      BY <1>0, <1>2 DEF Die, TypeOK
    <3>2. QED  BY <1>2, <3>1 DEF Dies, Alive, Ends
  <2>2. /\ \A c \in Conns : Home[c] = s => h[c].msg # m
        /\ \A i \in 1..Len(inbox[s]) : inbox[s][i].msg # m
    BY <2>1 DEF Survives
  <2>3. \A c \in Conns : h'[c] = h[c] \/ h[c].msg # m
    BY <1>2, <2>2 DEF Die
  <2>4. UNCHANGED offlineMessage /\ Disconnect(s, Contexts)
    BY <1>2 DEF Die, dbVars
  <2>5. QED  BY <1>0, <1>1, <2>2, <2>3, <2>4, DisconnectElsewhere, NoMoreStill
<1>3. ASSUME NEW s \in Servers, Execute(s) \/ Restart(s) PROVE Still(m, u)
  <2>1. UNCHANGED <<h, offlineMessage, inbox>>
    BY <1>3 DEF Execute, Restart, ExecuteCommand, connect, dbVars
  <2>2. QED  BY <1>1, <2>1, SameKept, NoMoreStill
<1>4. ASSUME NEW s \in Servers, Server(s), ~Observe(s) PROVE Still(m, u)
  <2>1. ~SigintReset(s) /\ ~BreakLink(s)
    BY DEF SigintReset, BreakLink, Orderly, Linked
  <2>2. CASE Kill(s) \/ SigintExit(s)
    BY <1>2, <2>2 DEF Kill, SigintExit, Alive, Ends
  <2>3. QED  BY <1>3, <1>4, <2>1, <2>2 DEF Server
<1>5. ASSUME NEW c \in Conns, NullRow(c) \/ RaceCrash(c) PROVE Still(m, u)
  <2>1. Alive(Home[c])
    BY <1>5 DEF NullRow, RaceCrash, CanLogin, CanSend, Ready, At, Torn, Linked, IInv,
                SessionsOK, ClosePcs, Alive
  <2>2. QED
    BY <1>0, <1>2, <1>5, <2>1 DEF NullRow, RaceCrash, Ends
<1>6. QED  BY <1>4, <1>5

-----------------------------------------------------------------------------
(*                      copies for u that get where they belong            *)

(* While its handler has still to serve u, m is nowhere else.               *)
LEMMA WaitingNowhere ==
  ASSUME NEW m \in Msgs, NEW u \in Users, Placed(m, u), Waiting(m, u)
  PROVE  /\ offlineMessage[u][m] = 0
         /\ \A s \in Servers : ~Has(inbox[s], CopyFor(u, m))
         /\ \A s \in Servers, c \in Conns : userConnMap[s][u] = c => got[c][m] = 0
         /\ Informed(h[From[m]], From[m], u)
BY DEF Placed

LEMMA Arrives ==
  ASSUME IInv, NEW m \in Msgs, NEW u \in Users, AtRest(u), Unmoved(u),
         NEW s \in Servers, NEW e \in Conns, userConnMap[s][u] = e,
         got[e][m] = 0, Deliver(e, m), offlineMessage[u][m] = 0, UNCHANGED offlineMessage,
         ~Waiting(m, u)', \A r \in Servers : ~Has(inbox'[r], CopyFor(u, m))
  PROVE  Placed(m, u)'
<1>1. InMap(s, u) /\ conn[e] = "up" /\ userState[u] = "online"
  BY ServiceOK DEF InMap, AtRest
<1>2. got'[e][m] = 1
  BY <1>1 DEF Deliver, IInv, TypeOK
<1>3. ASSUME NEW r \in Servers, NEW d \in Conns, userConnMap'[r][u] = d PROVE got'[d][m] = 1
  <2>1. InMap(r, u) /\ userConnMap[r][u] = d
    BY <1>3, ServiceOK DEF InMap, Unmoved
  <2>2. r = s
    BY <1>1, <2>1 DEF AtRest
  <2>3. QED  BY <1>2, <2>1, <2>2
<1>4. QED
  BY <1>1, <1>3 DEF Placed, Unmoved

LEMMA Joins ==
  ASSUME IInv, NEW m \in Msgs, NEW u \in Users, AtRest(u), Unmoved(u), Placed(m, u),
         Waiting(m, u), userState[u] = "online", NEW t \in Servers, "pub" \in linked[t], Push(t, u, m, 1),
         UNCHANGED <<got, offlineMessage>>, ~Waiting(m, u)'
  PROVE  Placed(m, u)'
<1> DEFINE y == CopyFor(u, m)
<1>0. RedisTypeOK /\ y \in Copy
  BY DEF IInv, TypeOK, Copy, CopyFor
<1>1. PICK s \in Servers : InMap(s, u)
  BY DEF AtRest
<1>2. /\ inbox[s] \in Seq(Copy) /\ inbox'[s] = Append(inbox[s], y)
      /\ \A r \in Servers : r # s => inbox'[r] = inbox[r]
  <2>1. \A r \in Servers : u \in subs[r] <=> r = s
    BY <1>1 DEF AtRest
  <2>2. QED  BY <1>0, <2>1 DEF Push, RedisTypeOK, CopyFor
<1> HIDE DEF y
<1>3. ~Has(inbox[s], y) /\ \A r \in Servers : ~Has(inbox[r], y)
  BY WaitingNowhere DEF y
<1>4. Once(inbox[s], y)
  BY <1>3 DEF Once, Has
<1>5. Has(inbox'[s], y) /\ Once(inbox'[s], y)
  BY <1>0, <1>2, <1>3, <1>4, AppendHas
<1>6. \A r \in Servers : Has(inbox'[r], y) => r = s
  BY <1>2, <1>3
<1>7. ASSUME NEW r \in Servers, NEW d \in Conns, userConnMap'[r][u] = d
      PROVE  r = s /\ got'[d][m] = 0
  <2>1. InMap(r, u) /\ userConnMap[r][u] = d
    BY <1>7, ServiceOK DEF InMap, Unmoved
  <2>2. r = s
    BY <1>1, <2>1 DEF AtRest
  <2>3. QED  BY <2>1, <2>2, WaitingNowhere
<1>8. InMap(s, u)'
  BY <1>1 DEF InMap, Unmoved
<1>9. offlineMessage'[u][m] = 0 /\ userState'[u] = "online"
  BY WaitingNowhere DEF Unmoved
<1>10. QED
  BY <1>5, <1>6, <1>7, <1>8, <1>9 DEF Placed, y

LEMMA Rests ==
  ASSUME IInv, NEW m \in Msgs, NEW u \in Users, AtRest(u), Unmoved(u), Placed(m, u),
         Waiting(m, u), userState[u] = "offline", ~DbFault, StoreOffline(u, m),
         UNCHANGED inbox, ~Waiting(m, u)'
  PROVE  Placed(m, u)'
<1>1. offlineMessage'[u][m] = 1 /\ userState'[u] = "offline"
  BY WaitingNowhere DEF StoreOffline, IInv, TypeOK, DbTypeOK, Unmoved
<1>2. \A s \in Servers : ~Has(inbox'[s], CopyFor(u, m))
  BY WaitingNowhere
<1>3. \A s \in Servers, c \in Conns : userConnMap'[s][u] # c
  BY ServiceOK DEF AtRest, Unmoved, InMap
<1>4. QED
  BY <1>1, <1>2, <1>3 DEF Placed

(* A handler that is done waits for nobody. *)
LEMMA DoneWaiting ==
  ASSUME TypeOK, NEW c \in Conns, Finish(c), NEW m \in Msgs, NEW u, From[m] = c
  PROVE  ~Waiting(m, u)'
BY FinishLocals, IdleLocals, ServiceOK DEF Waiting

LEMMA ChatPlaced ==
  ASSUME IInv, Carriers, Orderly, Linked, AliveLinked, NEW c \in Conns, Chat(c),
         NEW m \in Msgs, h[c].msg = m, NEW u \in Users, u \in Rcpt[m],
         AtRest(u), Unmoved(u), Placed(m, u)
  PROVE  Placed(m, u)'
<1> USE DEF At
<1>0. TypeOK /\ DbTypeOK /\ Home[c] \in Servers /\ ~DbFault
  BY ServiceOK DEF IInv, TypeOK, DbFault, Orderly
<1>1. h[c].pc \in ChatPcs
  BY DEF Chat, ChatSend, ChatQuery, ChatPublish, ChatStore, ChatPcs
<1>2. From[m] = c /\ h[c].user = u /\ m \in OneMsgs
  BY <1>1, ServiceOK DEF Carriers, Carrier
<1>3. Waiting(m, u)
  BY <1>1, <1>2 DEF Waiting, Serves
<1>4. /\ Informed(h[c], c, u) /\ offlineMessage[u][m] = 0
      /\ \A s \in Servers : ~Has(inbox[s], CopyFor(u, m))
      /\ \A s \in Servers, e \in Conns : userConnMap[s][u] = e => got[e][m] = 0
  BY <1>2, <1>3, WaitingNowhere
<1>5. CASE ChatSend(c)
  <2>1. h[c].peer \in Conns /\ h[c].peer = userConnMap[Home[c]][u]
    BY <1>4, <1>5 DEF ChatSend, Informed, Entry, IInv, HandlersOK, WellFormed
  <2>2. Targets(c) = {h[c].peer}
    BY <1>2, <2>1 DEF Targets, Stale, Entry
  <2>3. Deliver(h[c].peer, m) /\ Finish(c) /\ UNCHANGED <<offlineMessage, inbox>>
    BY <1>5, <2>2 DEF ChatSend, dbVars, redisVars
  <2>4. ~Waiting(m, u)'
    BY <1>0, <1>2, <2>3, DoneWaiting
  <2>5. QED  BY <1>0, <1>4, <2>1, <2>3, <2>4, Arrives
<1>6. CASE ChatQuery(c)
  <2>1. PICK online \in BOOLEAN :
          QueryOnline(u, online) /\ Goto(c, IF online THEN "oc_publish" ELSE "oc_store")
    BY <1>2, <1>6 DEF ChatQuery
  <2>2. online <=> userState[u] = "online"
    BY <1>0, <2>1 DEF QueryOnline
  <2>3. userState[u] \in {"online", "offline"} /\ userState'[u] = userState[u]
    BY <1>0 DEF DbTypeOK, Unmoved
  <2>4. /\ h'[c].msg = m /\ h'[c].user = u
        /\ h'[c].pc = IF online THEN "oc_publish" ELSE "oc_store"
    BY <1>0, <1>2, <2>1, GotoLocals
  <2>5. Waiting(m, u)'
    BY <1>2, <2>4 DEF Waiting, Serves, ChatPcs
  <2>6. Informed(h[From[m]], From[m], u)'
    BY <1>2, <2>2, <2>3, <2>4 DEF Informed
  <2>7. UNCHANGED <<got, offlineMessage, inbox>>
    BY <1>6 DEF ChatQuery, chatVars, dbVars, redisVars
  <2>8. Still(m, u)
    BY <1>3, <2>5, <2>6, <2>7, SameKept DEF Still
  <2>9. QED  BY <2>8, StillPlaced
<1>7. CASE ChatPublish(c)
  <2>1. userState[u] = "online" /\ h[c].pc = "oc_publish"
    BY <1>4, <1>7 DEF ChatPublish, Informed
  <2>2. "pub" \in linked[Home[c]]
    BY <1>0, <2>1 DEF IInv, SessionsOK, ClosePcs, AliveLinked, Contexts
  <2>3. /\ Push(Home[c], u, m, 1) /\ Finish(c) /\ UNCHANGED <<got, offlineMessage>>
    BY <1>2, <1>7 DEF ChatPublish, publish, Torn, Linked, chatVars, dbVars
  <2>4. ~Waiting(m, u)'
    BY <1>0, <1>2, <2>3, DoneWaiting
  <2>5. QED  BY <1>0, <1>3, <2>1, <2>2, <2>3, <2>4, Joins
<1>8. CASE ChatStore(c)
  <2>1. userState[u] = "offline"
    BY <1>4, <1>8 DEF ChatStore, Informed
  <2>2. StoreOffline(u, m) /\ Finish(c) /\ UNCHANGED inbox
    BY <1>2, <1>8 DEF ChatStore, redisVars
  <2>3. ~Waiting(m, u)'
    BY <1>0, <1>2, <2>2, DoneWaiting
  <2>4. QED  BY <1>0, <1>3, <2>1, <2>2, <2>3, Rests
<1>9. QED  BY <1>5, <1>6, <1>7, <1>8 DEF Chat

(* groupChat, for a member who is not the one being served.                 *)
LEMMA GroupStill ==
  ASSUME NEW c \in Conns, NEW m \in Msgs, h[c].msg = m, From[m] = c, NEW u \in Users,
         h'[c].msg = m, h[c].pc \notin ChatPcs,
         h[c].pc \in {"gc_publish", "gc_store"} => h[c].user # u,
         h'[c].pc = "gc_next" \/ (h'[c].pc \in {"gc_publish", "gc_store"} /\ h'[c].user # u),
         u \in h'[c].todo <=> u \in h[c].todo,
         offlineMessage'[u][m] = offlineMessage[u][m],
         \A d \in Conns : who[d] = u => got'[d][m] = got[d][m],
         Kept(m, u)
  PROVE  Still(m, u)
<1>1. Waiting(m, u) <=> u \in h[c].todo
  BY DEF Waiting, Serves
<1>2. Waiting(m, u)' <=> u \in h'[c].todo
  BY DEF Waiting, Serves, ChatPcs
<1>3. Informed(h[From[m]], From[m], u)'
  BY DEF Informed
<1>4. QED  BY <1>1, <1>2, <1>3 DEF Still

LEMMA GroupSendPlaced ==
  ASSUME IInv, Carriers, NEW c \in Conns, GroupSend(c), NEW m \in Msgs, h[c].msg = m,
         NEW u \in Users, AtRest(u), Unmoved(u), Placed(m, u)
  PROVE  Placed(m, u)'
<1> USE DEF At
<1>0. /\ TypeOK /\ h \in [Conns -> Handler] /\ got \in [Conns -> [Msgs -> Nat]]
      /\ Home[c] \in Servers /\ From[m] = c /\ h[c].todo \subseteq Users
  BY ServiceOK DEF IInv, TypeOK, Carriers, Carrier, Handler
<1>1. PICK v \in h[c].todo : /\ Entry(c, v) # NoConn /\ Deliver(Entry(c, v), m)
                            /\ h' = [h EXCEPT ![c].todo = @ \ {v}]
  BY DEF GroupSend
<1>2. PICK e \in Conns : e = userConnMap[Home[c]][v]
  BY <1>0, <1>1 DEF Entry, TypeOK
<1>3. /\ h[c].pc = "gc_next" /\ h'[c].pc = "gc_next" /\ h'[c].msg = m
      /\ h'[c].todo = h[c].todo \ {v} /\ UNCHANGED <<offlineMessage, inbox>>
  BY <1>0, <1>1 DEF GroupSend, Handler, dbVars, redisVars
<1>4. CASE v = u
  <2>1. Waiting(m, u) /\ ~Waiting(m, u)'
    BY <1>0, <1>1, <1>3, <1>4 DEF Waiting, Serves, ChatPcs
  <2>2. Deliver(e, m) /\ userConnMap[Home[c]][u] = e
    BY <1>1, <1>2, <1>4 DEF Entry
  <2>3. QED  BY <1>0, <1>3, <2>1, <2>2, WaitingNowhere, Arrives
<1>5. CASE v # u
  <2>1. \A d \in Conns : who[d] = u => d # e
    BY <1>0, <1>2, <1>5, Apart
  <2>2. \A d \in Conns : who[d] = u => got'[d][m] = got[d][m]
    BY <1>0, <1>1, <1>2, <2>1 DEF Deliver, Entry
  <2>3. u \in h'[c].todo <=> u \in h[c].todo
    BY <1>3, <1>5
  <2>4. Kept(m, u) /\ offlineMessage'[u][m] = offlineMessage[u][m] /\ h[c].pc \notin ChatPcs
    BY <1>3, SameKept DEF ChatPcs
  <2>5. Still(m, u)
    BY <1>0, <1>3, <2>2, <2>3, <2>4, GroupStill
  <2>6. QED  BY <2>5, StillPlaced
<1>6. QED  BY <1>4, <1>5

LEMMA GroupQueryPlaced ==
  ASSUME IInv, Carriers, Orderly, NEW c \in Conns, GroupQuery(c), NEW m \in Msgs, h[c].msg = m,
         NEW u \in Users, AtRest(u), Unmoved(u), Placed(m, u)
  PROVE  Placed(m, u)'
<1> USE DEF At
<1>0. /\ TypeOK /\ DbTypeOK /\ h \in [Conns -> Handler] /\ ~DbFault
      /\ Home[c] \in Servers /\ From[m] = c /\ h[c].todo \subseteq Users
  BY ServiceOK DEF IInv, TypeOK, Carriers, Carrier, Handler, Orderly, DbFault
<1>1. PICK v \in h[c].todo, online \in BOOLEAN :
        /\ QueryOnline(v, online)
        /\ h' = [h EXCEPT ![c].todo = @ \ {v}, ![c].user = v,
                          ![c].pc = IF online THEN "gc_publish" ELSE "gc_store"]
  BY DEF GroupQuery
<1>2. /\ h[c].pc = "gc_next" /\ h'[c].msg = m /\ h'[c].user = v
      /\ h'[c].pc = IF online THEN "gc_publish" ELSE "gc_store"
      /\ h'[c].todo = h[c].todo \ {v} /\ UNCHANGED <<got, offlineMessage, inbox>>
  BY <1>0, <1>1 DEF GroupQuery, Handler, chatVars, dbVars, redisVars
<1>3. CASE v = u
  <2>1. online <=> userState[u] = "online"
    BY <1>0, <1>1, <1>3 DEF QueryOnline
  <2>2. userState[u] \in {"online", "offline"} /\ userState'[u] = userState[u]
    BY <1>0 DEF DbTypeOK, Unmoved
  <2>3. Waiting(m, u) /\ Waiting(m, u)'
    BY <1>0, <1>1, <1>2, <1>3 DEF Waiting, Serves
  <2>4. Informed(h[From[m]], From[m], u)'
    BY <1>0, <1>2, <1>3, <2>1, <2>2 DEF Informed
  <2>5. Still(m, u)
    BY <1>2, <2>3, <2>4, SameKept DEF Still
  <2>6. QED  BY <2>5, StillPlaced
<1>4. CASE v # u
  <2>1. u \in h'[c].todo <=> u \in h[c].todo
    BY <1>2, <1>4
  <2>2. Still(m, u)
    BY <1>0, <1>2, <1>4, <2>1, SameKept, GroupStill DEF ChatPcs
  <2>3. QED  BY <2>2, StillPlaced
<1>5. QED  BY <1>3, <1>4

LEMMA GroupPushPlaced ==
  ASSUME IInv, Carriers, Orderly, Linked, AliveLinked, NEW c \in Conns,
         GroupPublish(c) \/ GroupStore(c), NEW m \in Msgs, h[c].msg = m,
         NEW u \in Users, AtRest(u), Unmoved(u), Placed(m, u)
  PROVE  Placed(m, u)'
<1> USE DEF At
<1>0. /\ TypeOK /\ RedisTypeOK /\ DbTypeOK /\ ~DbFault
      /\ Home[c] \in Servers /\ From[m] = c
  BY ServiceOK DEF IInv, TypeOK, Carriers, Carrier, Orderly, DbFault
<1>1. /\ h[c].pc \in {"gc_publish", "gc_store"} /\ h[c].user \in Users
      /\ h[c].user \notin h[c].todo /\ Goto(c, "gc_next") /\ "pub" \in linked[Home[c]]
  <2>1. h[c].pc \in {"gc_publish", "gc_store"} /\ Goto(c, "gc_next")
    BY DEF GroupPublish, GroupStore
  <2>2. h[c].user \in Users /\ h[c].user \notin h[c].todo
    BY <2>1 DEF Carriers, Carrier, IInv, HandlersOK, WellFormed, NeedsUser
  <2>3. "pub" \in linked[Home[c]]
    BY <1>0, <2>1 DEF IInv, SessionsOK, ClosePcs, AliveLinked, Contexts
  <2>4. QED  BY <2>1, <2>2, <2>3
<1>2. h'[c].pc = "gc_next" /\ h'[c].msg = m /\ h'[c].todo = h[c].todo
  BY <1>0, <1>1, GotoLocals
<1>3. \/ /\ h[c].pc = "gc_publish" /\ Push(Home[c], h[c].user, m, 1)
         /\ UNCHANGED <<got, offlineMessage>>
      \/ h[c].pc = "gc_store" /\ StoreOffline(h[c].user, m) /\ UNCHANGED <<got, inbox>>
  BY DEF GroupPublish, GroupStore, publish, Torn, Linked, chatVars, dbVars, redisVars
<1>4. CASE h[c].user = u
  <2>1. Waiting(m, u) /\ ~Waiting(m, u)'
    BY <1>0, <1>1, <1>2, <1>4 DEF Waiting, Serves, ChatPcs
  <2>2. Informed(h[c], c, u)
    BY <1>0, <2>1, WaitingNowhere
  <2>3. CASE h[c].pc = "gc_publish"
    <3>1. userState[u] = "online"
      BY <1>4, <2>2, <2>3 DEF Informed
    <3>2. Push(Home[c], u, m, 1) /\ UNCHANGED <<got, offlineMessage>>
      BY <1>3, <1>4, <2>3
    <3>3. QED  BY <1>0, <1>1, <2>1, <3>1, <3>2, Joins
  <2>4. CASE h[c].pc = "gc_store"
    <3>1. userState[u] = "offline"
      BY <1>4, <2>2, <2>4 DEF Informed
    <3>2. StoreOffline(u, m) /\ UNCHANGED inbox
      BY <1>3, <1>4, <2>4
    <3>3. QED  BY <1>0, <2>1, <3>1, <3>2, Rests
  <2>5. QED  BY <1>1, <2>3, <2>4
<1>5. CASE h[c].user # u
  <2>1. Kept(m, u) /\ offlineMessage'[u][m] = offlineMessage[u][m] /\ UNCHANGED got
    <3>1. CASE h[c].pc = "gc_publish"
      BY <1>0, <1>1, <1>3, <1>5, <3>1, PushElsewhere
    <3>2. CASE h[c].pc = "gc_store"
      BY <1>0, <1>1, <1>3, <1>5, <3>2, SameKept DEF StoreOffline, DbTypeOK
    <3>3. QED  BY <1>1, <3>1, <3>2
  <2>2. h[c].pc \notin ChatPcs
    BY <1>1 DEF ChatPcs
  <2>3. Still(m, u)
    BY <1>0, <1>2, <1>5, <2>1, <2>2, GroupStill
  <2>4. QED  BY <2>3, StillPlaced
<1>6. QED  BY <1>4, <1>5

LEMMA GroupPlaced ==
  ASSUME IInv, Carriers, Orderly, Linked, AliveLinked, NEW c \in Conns, Group(c),
         NEW m \in Msgs, h[c].msg = m, NEW u \in Users, AtRest(u), Unmoved(u), Placed(m, u)
  PROVE  Placed(m, u)'
<1> USE DEF At
<1>0. TypeOK /\ From[m] = c
  BY ServiceOK DEF IInv, Carriers, Carrier
<1>1. CASE GroupLock(c)
  <2>1. /\ h[c].pc = "gc_lock" /\ Goto(c, "gc_next") /\ UNCHANGED <<got, offlineMessage, inbox>>
    BY <1>1 DEF GroupLock, chatVars, dbVars, redisVars
  <2>2. h'[c].pc = "gc_next" /\ h'[c].msg = m /\ h'[c].todo = h[c].todo
    BY <1>0, <2>1, GotoLocals
  <2>3. h[c].pc \notin ChatPcs /\ Kept(m, u)
    BY <2>1, SameKept DEF ChatPcs
  <2>4. Still(m, u)
    BY <1>0, <2>1, <2>2, <2>3, GroupStill
  <2>5. QED  BY <2>4, StillPlaced
<1>2. CASE GroupDone(c)
  <2>1. /\ h[c].pc = "gc_next" /\ h[c].todo = {} /\ Finish(c)
        /\ UNCHANGED <<got, offlineMessage, inbox>>
    BY <1>2 DEF GroupDone, chatVars, dbVars, redisVars
  <2>2. ~Waiting(m, u) /\ ~Waiting(m, u)'
    BY <1>0, <2>1, DoneWaiting DEF Waiting, Serves, ChatPcs
  <2>3. Still(m, u)
    BY <2>1, <2>2, SameKept DEF Still
  <2>4. QED  BY <2>3, StillPlaced
<1>3. QED
  BY <1>1, <1>2, GroupSendPlaced, GroupQueryPlaced, GroupPushPlaced DEF Group

(* The observer thread.                                                     *)
LEMMA ObservePlaced ==
  ASSUME IInv, Orderly, NEW s \in Servers, Observe(s),
         NEW m \in Msgs, NEW u \in Users, AtRest(u), Unmoved(u), Placed(m, u)
  PROVE  Placed(m, u)'
<1> DEFINE x == Head(inbox[s])
<1>0. /\ TypeOK /\ RedisTypeOK /\ DbTypeOK
      /\ userConnMap \in [Servers -> [Users -> Conns \cup {NoConn}]]
  BY DEF IInv, TypeOK
<1>1. /\ inbox[s] \in Seq(Copy) /\ inbox[s] # <<>> /\ x.to \in Users /\ x.msg \in Msgs
      /\ x = CopyFor(x.to, x.msg) /\ Has(inbox[s], x)
  BY HeadCopy
<1>2. UNCHANGED h /\ Consume(s)
  BY DEF Observe
<1>3. CASE x = CopyFor(u, m)
  <2>1. InMap(s, u) /\ Once(inbox[s], x) /\ ~Waiting(m, u)
    BY <1>1, <1>3 DEF Placed
  <2>2. PICK e \in Conns : e = userConnMap[s][u]
    BY <1>0, <2>1 DEF InMap
  <2>3. got[e][m] = 0 /\ offlineMessage[u][m] = 0
    BY <1>1, <1>3, <2>1, <2>2 DEF Placed, AtRest
  <2>4. Deliver(e, m) /\ UNCHANGED offlineMessage
    BY <1>3, <2>1, <2>2 DEF Observe, CopyFor, InMap, dbVars
  <2>5. ~Waiting(m, u)'
    BY <1>2, <2>1 DEF Waiting, Serves
  <2>6. ASSUME NEW r \in Servers PROVE ~Has(inbox'[r], x)
    <3>1. inbox'[r] = IF r = s THEN Tail(inbox[s]) ELSE inbox[r]
      BY <1>0, <1>2 DEF Consume, RedisTypeOK
    <3>2. CASE r = s
      BY <1>1, <2>1, <3>1, <3>2, TailHas
    <3>3. CASE r # s
      BY <1>3, <2>1, <3>1, <3>3 DEF Placed, AtRest
    <3>4. QED  BY <3>2, <3>3
  <2>7. QED  BY <1>3, <2>2, <2>3, <2>4, <2>5, <2>6, Arrives
<1>4. CASE x # CopyFor(u, m)
  <2>1. Kept(m, u)
    BY <1>0, <1>1, <1>2, <1>4, ConsumeElsewhere
  <2>2. \/ /\ UNCHANGED offlineMessage
           /\ \E e \in Conns : e = userConnMap[s][x.to] /\ Deliver(e, x.msg)
        \/ UNCHANGED got /\ StoreOffline(x.to, x.msg)
    BY <1>0, <1>1 DEF Observe, dbVars
  <2>3. x.to # u \/ x.msg # m
    BY <1>1, <1>4
  <2>4. /\ offlineMessage'[u][m] = offlineMessage[u][m]
        /\ \A c \in Conns : who[c] = u => got'[c][m] = got[c][m]
    <3>1. ASSUME UNCHANGED offlineMessage, NEW e \in Conns, e = userConnMap[s][x.to],
                 Deliver(e, x.msg), NEW c \in Conns, who[c] = u
          PROVE  got'[c][m] = got[c][m]
      <4>1. CASE x.msg # m
        BY <1>0, <1>1, <3>1, <4>1, DeliverKept
      <4>2. CASE x.to # u
        <5>1. c # e
          BY <1>1, <3>1, <4>2, Apart
        <5>2. QED  BY <1>0, <1>1, <3>1, <5>1 DEF Deliver, TypeOK
      <4>3. QED  BY <2>3, <4>1, <4>2
    <3>2. CASE UNCHANGED got /\ StoreOffline(x.to, x.msg)
      BY <1>0, <1>1, <2>3, <3>2 DEF StoreOffline, DbTypeOK
    <3>3. QED  BY <2>2, <3>1, <3>2
  <2>5. Waiting(m, u)' <=> Waiting(m, u)
    BY <1>2 DEF Waiting, Serves
  <2>6. Waiting(m, u) => Informed(h[From[m]], From[m], u)'
    <3>1. Home[From[m]] \in Servers
      BY ServiceOK
    <3>2. QED  BY <1>2, <3>1 DEF Placed, Informed, Entry, Unmoved
  <2>7. Still(m, u)
    BY <2>1, <2>4, <2>5, <2>6 DEF Still
  <2>8. QED  BY <2>7, StillPlaced
<1>5. QED  BY <1>3, <1>4

LEMMA PlacedNext ==
  ASSUME IInv, Carriers, Orderly, Linked, AliveLinked, Next, NEW m \in Msgs, m \in sent,
         NEW u \in Rcpt[m], u \in Users, Survives(m), AtRest(u), Unmoved(u), Placed(m, u)
  PROVE  Placed(m, u)'
<1>1. ASSUME NEW c \in Conns, NullRow(c) \/ RaceCrash(c) PROVE Placed(m, u)'
  <2>1. Still(m, u)
    BY <1>1, ServerStill
  <2>2. QED  BY <2>1, StillPlaced
<1>2. ASSUME NEW c \in Conns, SessionStep(c), ~NullRow(c), ~RaceCrash(c) PROVE Placed(m, u)'
  <2>1. Still(m, u)
    BY <1>2, SessionStill
  <2>2. QED  BY <2>1, StillPlaced
<1>3. ASSUME NEW c \in Conns, NEW n \in Msgs, OneChat(c, n) \/ GroupChat(c, n)
      PROVE  Placed(m, u)'
  <2>1. n # m
    BY <1>3 DEF OneChat, GroupChat, CanSend
  <2>2. Still(m, u)
    BY <1>3, <2>1, OtherChatStill
  <2>3. QED  BY <2>2, StillPlaced
<1>4. ASSUME NEW c \in Conns, Chat(c) \/ Group(c) PROVE Placed(m, u)'
  <2>1. CASE h[c].msg = m
    BY <1>4, <2>1, ChatPlaced, GroupPlaced
  <2>2. CASE h[c].msg # m
    <3>1. Still(m, u)
      BY <1>4, <2>2, OtherChatStill
    <3>2. QED  BY <3>1, StillPlaced
  <2>3. QED  BY <2>1, <2>2
<1>5. ASSUME NEW s \in Servers, Server(s) PROVE Placed(m, u)'
  <2>1. CASE Observe(s)
    BY <2>1, ObservePlaced
  <2>2. CASE ~Observe(s)
    <3>1. Still(m, u)
      BY <1>5, <2>2, ServerStill
    <3>2. QED  BY <3>1, StillPlaced
  <2>3. QED  BY <2>1, <2>2
<1>6. ASSUME NEW c \in Conns, Requests(c) \/ Steps(c) PROVE Placed(m, u)'
  BY <1>1, <1>2, <1>3, <1>4, <1>6 DEF Requests, Steps, SessionStep
<1>7. QED  BY <1>5, <1>6 DEF Next

-----------------------------------------------------------------------------
(*                      a message is sent                                  *)

LEMMA SettledRests ==
  ASSUME IInv, OnePresent, Records, OrphansExact, NEW u \in Users, Settled(u)
  PROVE  AtRest(u)
<1>1. ~InTransit(u) /\ u \notin orphans
  BY DEF Settled
<1>2. /\ \A c \in Conns : Present(c, u) <=> who[c] = u
      /\ \A s \in Servers : s \in Session(u) <=> \E c \in Conns : Home[c] = s /\ who[c] = u
      /\ \A s \in Servers : u \in Subscribed(s) <=> s \in Session(u)
  BY <1>1, Agreed
<1>3. \A s \in Servers : InMap(s, u) <=> \E c \in Conns : Home[c] = s /\ who[c] = u
  BY <1>2 DEF Session, InMap
<1>4. \A c \in Conns : h[c].user = u => h[c].pc \notin SessionPcs
  BY <1>1 DEF InTransit, SessionPcs
<1>5. \A s \in Servers : u \in subs[s] <=> InMap(s, u)
  BY <1>2 DEF Settled, Session, InMap
<1>6. \A s, t \in Servers : InMap(s, u) /\ InMap(t, u) => s = t
  <2>1. \A c, d \in Conns : who[c] = u /\ who[d] = u => c = d
    BY DEF OnePresent, Active, Present
  <2>2. QED  BY <1>3, <2>1
<1>7. userState[u] = "online" <=> \E s \in Servers : InMap(s, u)
  <2>1. userState[u] = "online" <=> \E c \in Conns : who[c] = u
    BY <1>1, <1>2 DEF OrphansExact, OnePresent
  <2>2. QED  BY <1>3, <2>1, ServiceOK
<1>8. ASSUME NEW s \in Servers, NEW c \in Conns, userConnMap[s][u] = c
      PROVE  who[c] = u /\ conn[c] = "up"
  <2>1. Carries(c, u) /\ conn[c] \in {"up", "gone"}
    BY <1>8, MapUse
  <2>2. who[c] = u
    BY <1>4, <2>1 DEF Carries, EnteredPcs, SessionPcs, LogoutPcs
  <2>3. QED  BY <1>1, <2>1, <2>2 DEF InTransit
<1>9. QED  BY <1>4, <1>5, <1>6, <1>7, <1>8 DEF AtRest

LEMMA StartUnmoved ==
  ASSUME TypeOK, NEW c \in Conns, NEW m \in Msgs, OneChat(c, m) \/ GroupChat(c, m), NEW u \in Users
  PROVE  Unmoved(u)
<1>1. /\ UNCHANGED <<userState, who, userConnMap>>
      /\ \A d \in Conns : d # c => h'[d] = h[d]
      /\ h[c].pc \notin SessionPcs /\ h'[c].pc \notin SessionPcs
  BY ChatsElsewhere
<1>2. UNCHANGED <<conn, subs>>
  BY DEF OneChat, GroupChat, netVars, redisVars
<1>3. QED  BY <1>1, <1>2 DEF Unmoved

LEMMA StartPlaced ==
  ASSUME IInv, Orderly, Fresh, NEW c \in Conns, NEW m \in Msgs, OneChat(c, m) \/ GroupChat(c, m),
         NEW u \in Rcpt[m] \ {who[From[m]]}, u \in Users
  PROVE  Placed(m, u)'
<1>0. h \in [Conns -> Handler] /\ Home[c] \in Servers
  BY ServiceOK DEF IInv, TypeOK
<1>1. /\ From[m] = c /\ m \notin sent
      /\ UNCHANGED <<userConnMap, userState, got, offlineMessage, inbox>>
  BY DEF OneChat, GroupChat, CanSend, mapVars, dbVars, redisVars
<1>2. Unsent(m)
  BY <1>1 DEF Fresh
<1>3. /\ h'[c].msg = m /\ Serves(h'[c], u)
      /\ h'[c].pc \in {"oc_query", "oc_send", "gc_lock"}
      /\ h'[c].pc = "oc_send" => h'[c].peer = Entry(c, u)
  <2>1. CASE OneChat(c, m)
    <3>1. PICK p \in {Entry(c, u), NoConn} :
            h' = [h EXCEPT ![c] = [Idle EXCEPT !.pc = IF p = NoConn THEN "oc_query" ELSE "oc_send",
                                               !.user = u, !.msg = m, !.peer = p]]
      <4>1. Rcpt[m] = {u}
        BY <2>1, ServiceOK DEF OneChat
      <4>2. QED  BY <2>1, <4>1 DEF OneChat
    <3> DEFINE x == [Idle EXCEPT !.pc = IF p = NoConn THEN "oc_query" ELSE "oc_send",
                                 !.user = u, !.msg = m, !.peer = p]
    <3>2. /\ x.msg = m /\ x.peer = p
          /\ x.pc = IF p = NoConn THEN "oc_query" ELSE "oc_send"
      BY DEF Idle
    <3>3. h'[c] = x
      BY <1>0, <3>1
    <3> HIDE DEF x
    <3>4. QED  BY <3>2, <3>3 DEF Serves, ChatPcs
  <2>2. CASE GroupChat(c, m)
    <3>1. h' = [h EXCEPT ![c] = [Idle EXCEPT !.pc = "gc_lock", !.msg = m,
                                             !.todo = Rcpt[m] \ {who[c]}]]
      BY <2>2 DEF GroupChat, DbFault, Orderly
    <3> DEFINE x == [Idle EXCEPT !.pc = "gc_lock", !.msg = m, !.todo = Rcpt[m] \ {who[c]}]
    <3>2. x.msg = m /\ x.pc = "gc_lock" /\ x.todo = Rcpt[m] \ {who[c]}
      BY DEF Idle
    <3>3. h'[c] = x
      BY <1>0, <3>1
    <3> HIDE DEF x
    <3>4. QED  BY <1>1, <3>2, <3>3 DEF Serves
  <2>3. QED  BY <2>1, <2>2
<1>4. Waiting(m, u)'
  BY <1>1, <1>3 DEF Waiting, Serves
<1>5. Informed(h[From[m]], From[m], u)'
  BY <1>1, <1>3 DEF Informed, Entry
<1>6. QED
  BY <1>1, <1>2, <1>4, <1>5 DEF Placed, Unsent

-----------------------------------------------------------------------------
(*                      delivery                                           *)

LEMMA CalmNext ==
  ASSUME Orderly, Linked, IInv, PresenceInv, Records, OrphansExact, Carriers, Fresh,
         CalmPlaced, [Next /\ Watch]_watchVars
  PROVE  CalmPlaced'
<1>0. TypeOK /\ OnePresent /\ AliveLinked
  BY DEF IInv, PresenceInv, Records
<1>1. CASE Next /\ Watch
  <2> SUFFICES ASSUME NEW m \in Msgs, NEW u \in calm'[m]
               PROVE  m \in sent' /\ u \in Rcpt[m] /\ AtRest(u)' /\ Placed(m, u)'
    BY DEF CalmPlaced
  <2>1. calm'[m] = IF m \in sent' \ sent THEN {v \in Rcpt[m] \ {who[From[m]]} : Settled(v)}
                   ELSE {v \in calm[m] : View(v)' = View(v) /\ Survives(m)}
    BY <1>1 DEF Watch
  <2>2. CASE m \in sent' \ sent
    <3>1. u \in Rcpt[m] \ {who[From[m]]} /\ Settled(u)
      BY <2>1, <2>2
    <3>2. u \in Users
      BY <3>1, ServiceOK
    <3>3. PICK c \in Conns : OneChat(c, m) \/ GroupChat(c, m)
      BY <1>1, <2>2, FewMove
    <3>4. AtRest(u) /\ Unmoved(u)
      BY <1>0, <3>1, <3>2, <3>3, SettledRests, StartUnmoved
    <3>5. AtRest(u)' /\ Placed(m, u)'
      BY <3>1, <3>2, <3>3, <3>4, RestKept, StartPlaced
    <3>6. QED  BY <2>2, <3>1, <3>5
  <2>3. CASE m \notin sent' \ sent
    <3>1. u \in calm[m] /\ View(u)' = View(u) /\ Survives(m)
      BY <2>1, <2>3
    <3>2. m \in sent /\ u \in Rcpt[m] /\ AtRest(u) /\ Placed(m, u)
      BY <3>1 DEF CalmPlaced
    <3>3. u \in Users
      BY <3>2, ServiceOK
    <3>4. Unmoved(u)
      BY <3>1, <3>3, ViewUnmoved
    <3>5. m \in sent'
      BY <1>1, <3>2, FewMove
    <3>6. AtRest(u)' /\ Placed(m, u)'
      BY <1>0, <1>1, <3>1, <3>2, <3>3, <3>4, RestKept, PlacedNext
    <3>7. QED  BY <3>2, <3>5, <3>6
  <2>4. QED  BY <2>2, <2>3
<1>2. CASE UNCHANGED watchVars
  BY <1>2 DEF watchVars, vars, mapVars, netVars, chatVars, dbVars, redisVars, CalmPlaced,
              AtRest, Placed, InMap, Waiting, Serves, Informed, Entry
<1>3. QED  BY <1>1, <1>2

LEMMA CalmInvariant == ASSUME Orderly, Linked PROVE DeliverySpec => []CalmPlaced
<1>1. WatchInit => CalmPlaced
  BY DEF WatchInit, CalmPlaced
<1>2. DeliverySpec => [](IInv /\ PresenceInv /\ Records /\ OrphansExact)
  BY OrphansInvariant
<1>3. DeliverySpec => [](Carriers /\ Fresh)
  BY DeliveryIsSpec, CarriersInvariant, FreshInvariant, PTL
<1>4. IInv /\ PresenceInv /\ Records /\ OrphansExact /\ Carriers /\ Fresh
        /\ CalmPlaced /\ [Next /\ Watch]_watchVars => CalmPlaced'
  BY CalmNext
<1>5. QED
  BY <1>1, <1>2, <1>3, <1>4, PTL DEF DeliverySpec

(* A message to a receiver whose session was settled when it was sent and   *)
(* has not changed since gets to that receiver exactly once by the time its *)
(* handler is done and the channels hold no copy of it: from any server, by *)
(* oneChat, groupChat and the observer thread, while other clients log in   *)
(* and out and vanish, servers die and start again, and oneChat reads the   *)
(* map without the mutex.                                                   *)
THEOREM CalmDeliveredCorrect == ASSUME Orderly, Linked PROVE DeliverySpec => []CalmDelivered
<1>1. ASSUME IInv, CalmPlaced PROVE CalmDelivered
  <2> SUFFICES ASSUME NEW m \in Msgs, Routed(m), NEW u \in calm[m]
               PROVE  IF userState[u] = "online"
                      THEN /\ offlineMessage[u][m] = 0
                           /\ \E s \in Servers : userConnMap[s][u] # NoConn
                                              /\ got[userConnMap[s][u]][m] = 1
                      ELSE offlineMessage[u][m] = 1
    BY DEF CalmDelivered
  <2>1. AtRest(u) /\ Placed(m, u) /\ u \in Users
    BY <1>1, ServiceOK DEF CalmPlaced
  <2>2. ~Waiting(m, u)
    BY ServiceOK DEF Routed, Waiting
  <2>3. \A s \in Servers : ~Has(inbox[s], CopyFor(u, m))
    <3>1. CopyFor(u, m).msg = m
      BY DEF CopyFor
    <3>2. QED  BY <3>1 DEF Routed, Has
  <2>4. offlineMessage[u][m] = IF userState[u] = "online" THEN 0 ELSE 1
    BY <2>1, <2>2 DEF Placed
  <2>5. ASSUME userState[u] = "online"
        PROVE  \E s \in Servers : userConnMap[s][u] # NoConn /\ got[userConnMap[s][u]][m] = 1
    <3>1. PICK s \in Servers : InMap(s, u)
      BY <2>1, <2>5 DEF AtRest
    <3>2. userConnMap[s][u] \in Conns
      BY <1>1, <2>1, <3>1 DEF InMap, IInv, TypeOK
    <3>3. got[userConnMap[s][u]][m] = 1
      BY <2>1, <2>2, <2>3, <3>2 DEF Placed
    <3>4. QED  BY <3>1, <3>3 DEF InMap
  <2>6. QED  BY <2>4, <2>5
<1>2. DeliverySpec => []IInv
  BY DeliveryIsSpec, SessionsInvariant, PTL
<1>3. IInv /\ CalmPlaced => CalmDelivered
  BY <1>1
<1>4. QED
  BY <1>2, <1>3, CalmInvariant, PTL

=============================================================================
