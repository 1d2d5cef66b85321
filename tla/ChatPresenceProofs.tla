------------------------- MODULE ChatPresenceProofs -------------------------
(***************************************************************************)
(* ChatService implements Presence, for any servers, users, connections,   *)
(* messages, and clients that vanish, servers that are killed and started  *)
(* again, and broken or garbled redis connections.  Users have one client  *)
(* at a time; the database does not fail and nobody resets its table.      *)
(***************************************************************************)
EXTENDS ChatDelivery, ChatServiceProofs, FiniteSetTheorems

Orderly == SingleClient /\ "db" \notin Faults /\ "sigint" \notin Faults

SessionPcs == LoginPcs \cup LogoutPcs \cup ClosePcs

(* A connection that is being closed carries no session any more. *)
Closing == \A c \in Conns : h[c].pc \in ClosePcs => who[c] = NoUser

-----------------------------------------------------------------------------
(*                      one present connection per user                    *)

LEMMA Updated ==
  ASSUME Orderly, TypeOK, NEW u \in Users, NEW st, UpdateState(u, st)
  PROVE  userState' = [v \in Users |-> IF v = u THEN st ELSE userState[v]]
BY DEF Orderly, TypeOK, DbTypeOK, UpdateState, DbFault

(* A step by which nobody becomes present and the table does not change. *)
LEMMA PresentKept ==
  ASSUME OnePresent, userState' = userState,
         \A u \in Users, c \in Conns : (Arriving(c, u)' => Arriving(c, u))
                                    /\ (Present(c, u)' => Present(c, u))
  PROVE  OnePresent'
<1>1. \A u \in Users, c \in Conns : Active(c, u)' => Active(c, u)
  BY DEF Active
<1>2. QED
  BY <1>1 DEF OnePresent

(* The same, for a step of the handler of c. *)
LEMMA PresentStep ==
  ASSUME OnePresent, userState' = userState, NEW c \in Conns,
         \A d \in Conns : d # c => h'[d] = h[d] /\ who'[d] = who[d],
         \A u \in Users : (Arriving(c, u)' => Arriving(c, u))
                       /\ (Present(c, u)' => Present(c, u))
  PROVE  OnePresent'
<1>1. ASSUME NEW u \in Users, NEW d \in Conns, d # c
      PROVE  (Arriving(d, u)' => Arriving(d, u)) /\ (Present(d, u)' => Present(d, u))
  BY <1>1 DEF Arriving, Present
<1>2. QED
  BY <1>1, PresentKept

(* A handler that does not work at a session. *)
LEMMA PresentElsewhere ==
  ASSUME OnePresent, userState' = userState, who' = who, NEW c \in Conns,
         \A d \in Conns : d # c => h'[d] = h[d], h'[c].pc \notin SessionPcs
  PROVE  OnePresent'
<1>1. ASSUME NEW u \in Users
      PROVE  (Arriving(c, u)' => Arriving(c, u)) /\ (Present(c, u)' => Present(c, u))
  BY DEF Arriving, Present, SessionPcs, LoginPcs, LogoutPcs
<1>2. QED
  BY <1>1, PresentStep

(* The present connection c of u tells the table st, and goes on or ends.   *)
LEMMA PresentUpdate ==
  ASSUME OnePresent, NEW c \in Conns, NEW u \in Users, NEW st, Active(c, u),
         userState' = [v \in Users |-> IF v = u THEN st ELSE userState[v]],
         who' = who, \A d \in Conns : d # c => h'[d] = h[d],
         h[c].user = u, h'[c].user = u \/ h'[c].pc \notin SessionPcs,
         ~Arriving(c, u)', Present(c, u)' => st = "online"
  PROVE  OnePresent'
<1>1. ASSUME NEW d \in Conns, d # c
      PROVE  ~Active(d, u) /\ ~Active(d, u)'
  <2>1. ~Active(d, u)
    BY <1>1 DEF OnePresent
  <2>2. h'[d] = h[d] /\ who'[d] = who[d]
    BY <1>1
  <2>3. QED  BY <2>1, <2>2 DEF Active, Arriving, Present
<1>2. ASSUME NEW v \in Users, v # u, NEW d \in Conns
      PROVE  /\ Arriving(d, v)' => Arriving(d, v)
             /\ Present(d, v)' => Present(d, v)
  <2>1. CASE d = c
    BY <1>2, <2>1 DEF Arriving, Present, SessionPcs, LoginPcs, LogoutPcs
  <2>2. CASE d # c
    BY <2>2 DEF Arriving, Present
  <2>3. QED  BY <2>1, <2>2
<1>3. ASSUME NEW v \in Users, NEW d \in Conns
      PROVE  /\ Arriving(d, v)' => userState'[v] = "offline"
             /\ Present(d, v)' => userState'[v] = "online"
             /\ \A e \in Conns : Active(d, v)' /\ Active(e, v)' => d = e
  <2>1. CASE v = u
    BY <1>1, <2>1 DEF Active
  <2>2. CASE v # u
    BY <1>2, <2>2 DEF OnePresent, Active
  <2>3. QED  BY <2>1, <2>2
<1>4. QED
  BY <1>3 DEF OnePresent

LEMMA PresentLogin ==
  ASSUME Orderly, IInv, OnePresent, NEW c \in Conns,
         Login(c) \/ \E u \in Users : LoginQuery(c, u)
  PROVE  OnePresent'
<1> USE DEF At
<1>0. TypeOK /\ h \in [Conns -> Handler] /\ who \in [Conns -> Users \cup {NoUser}]
  BY DEF IInv, TypeOK
<1>1. ASSUME NEW u \in Users, LoginQuery(c, u) PROVE OnePresent'
  <2>1. /\ h'[c].pc = "li_insert" /\ h'[c].user = u /\ who' = who /\ userState' = userState
        /\ who[c] = NoUser
        /\ \A d \in Conns : d # c => h'[d] = h[d]
    BY <1>0, <1>1, IdleType DEF LoginQuery, CanLogin, Handler, dbVars
  <2>2. userState[u] = "offline" /\ ~InUse(u)
    BY <1>1 DEF LoginQuery, CanLogin, Orderly
  <2>3. ASSUME NEW d \in Conns PROVE ~Active(d, u)
    <3>1. ~Arriving(d, u)
      BY <2>2 DEF InUse, Arriving, LoginPcs
    <3>2. ~Present(d, u)
      BY <2>2 DEF OnePresent
    <3>3. QED  BY <3>1, <3>2 DEF Active
  <2>4. \A d \in Conns : ~Present(d, u)' /\ (Arriving(d, u)' => d = c)
    <3>1. ~Present(c, u)'
      BY <2>1, SystemOK DEF Present, ClosePcs
    <3>2. ASSUME NEW d \in Conns, d # c PROVE ~Active(d, u)'
      BY <2>1, <2>3, <3>2 DEF Active, Arriving, Present
    <3>3. QED  BY <3>1, <3>2 DEF Active
  <2>5. ASSUME NEW v \in Users, v # u, NEW d \in Conns
        PROVE  /\ Arriving(d, v)' => Arriving(d, v)
               /\ Present(d, v)' => Present(d, v)
    BY <2>1, <2>5 DEF Arriving, Present
  <2>6. ASSUME NEW v \in Users, NEW d \in Conns
        PROVE  /\ Arriving(d, v)' => userState'[v] = "offline"
               /\ Present(d, v)' => userState'[v] = "online"
               /\ \A e \in Conns : Active(d, v)' /\ Active(e, v)' => d = e
    <3>1. CASE v = u
      BY <2>1, <2>2, <2>4, <3>1 DEF Active
    <3>2. CASE v # u
      BY <2>1, <2>5, <3>2 DEF OnePresent, Active
    <3>3. QED  BY <3>1, <3>2
  <2>7. QED
    BY <2>6 DEF OnePresent
<1>2. CASE LoginInsert(c) \/ LoginSubscribe(c)
  <2>1. PICK p \in {"li_subscribe", "li_online"} : Goto(c, p)
    BY <1>2 DEF LoginInsert, LoginSubscribe
  <2>2. /\ userState' = userState /\ who' = who /\ h[c].pc \in {"li_insert", "li_subscribe"}
    BY <1>2 DEF LoginInsert, LoginSubscribe, dbVars, netVars
  <2>3. \A u \in Users : (Arriving(c, u)' => Arriving(c, u)) /\ (Present(c, u)' => Present(c, u))
    BY <1>0, <2>1, <2>2, GotoFields DEF Arriving, Present, ClosePcs
  <2>4. QED
    BY <1>0, <2>1, <2>2, <2>3, GotoFields, PresentStep
<1>3. CASE LoginOnline(c)
  <2>1. PICK u \in Users : u = h[c].user
    BY <1>3 DEF LoginOnline, IInv, HandlersOK, WellFormed, NeedsUser, LoginPcs
  <2>2. /\ userState' = [v \in Users |-> IF v = u THEN "online" ELSE userState[v]]
        /\ who' = who
    BY <1>0, <1>3, <2>1, Updated DEF LoginOnline, netVars
  <2>3. /\ h'[c].pc = "li_offmsg" /\ h'[c].user = u
        /\ \A d \in Conns : d # c => h'[d] = h[d]
    BY <1>0, <1>3, <2>1, GotoFields DEF LoginOnline
  <2>4. Active(c, u) /\ ~Arriving(c, u)'
    BY <1>3, <2>1, <2>3 DEF LoginOnline, Active, Arriving
  <2>5. QED
    BY <2>1, <2>2, <2>3, <2>4, PresentUpdate
<1>4. CASE LoginOffline(c) \/ LoginRemove(c)
  <2>1. /\ userState' = userState /\ who' = who /\ h[c].pc \in {"li_offmsg", "li_remove"}
    BY <1>4 DEF LoginOffline, LoginRemove, RemoveOffline, dbVars, netVars
  <2>2. /\ h'[c].pc \in {"li_remove", "li_ack"} /\ h'[c].user = h[c].user
        /\ \A d \in Conns : d # c => h'[d] = h[d]
    <3>1. CASE LoginOffline(c)
      <4>1. PICK rows, p : /\ p \in {"li_ack", "li_remove"}
                           /\ h' = [h EXCEPT ![c].rows = rows, ![c].pc = p]
        BY <3>1 DEF LoginOffline
      <4>2. QED  BY <1>0, <4>1 DEF Handler
    <3>2. CASE LoginRemove(c)
      BY <1>0, <3>2, GotoFields DEF LoginRemove
    <3>3. QED  BY <1>4, <3>1, <3>2
  <2>3. \A u \in Users : (Arriving(c, u)' => Arriving(c, u)) /\ (Present(c, u)' => Present(c, u))
    BY <2>1, <2>2 DEF Arriving, Present, ClosePcs
  <2>4. QED
    BY <2>1, <2>2, <2>3, PresentStep
<1>5. CASE LoginAck(c)
  <2>1. /\ userState' = userState /\ h[c].pc = "li_ack"
        /\ who'[c] = h[c].user /\ \A d \in Conns : d # c => who'[d] = who[d]
    BY <1>0, <1>5 DEF LoginAck, dbVars
  <2>2. h'[c].pc = "idle" /\ \A d \in Conns : d # c => h'[d] = h[d]
    BY <1>0, <1>5, FinishFields DEF LoginAck
  <2>3. \A u \in Users : (Arriving(c, u)' => Arriving(c, u)) /\ (Present(c, u)' => Present(c, u))
    BY <2>1, <2>2 DEF Arriving, Present, ClosePcs
  <2>4. QED
    BY <2>1, <2>2, <2>3, PresentStep
<1>6. QED  BY <1>1, <1>2, <1>3, <1>4, <1>5 DEF Login

LEMMA PresentLogout ==
  ASSUME Orderly, IInv, OnePresent, NEW c \in Conns, Logout(c) \/ LogoutRequest(c) \/ Vanish(c)
  PROVE  OnePresent'
<1> USE DEF At
<1>0. TypeOK /\ h \in [Conns -> Handler] /\ who \in [Conns -> Users \cup {NoUser}]
  BY DEF IInv, TypeOK
<1>1. CASE LogoutRequest(c)
  <2>1. /\ h'[c].pc = "lo_lock" /\ h'[c].user = who[c] /\ userState' = userState
        /\ \A d \in Conns : d # c => h'[d] = h[d] /\ who'[d] = who[d]
        /\ who'[c] = NoUser
    BY <1>0, <1>1, IdleType DEF LogoutRequest, Handler, dbVars
  <2>2. \A u \in Users : ~Arriving(c, u)' /\ (Present(c, u)' => Present(c, u))
    BY <2>1, SystemOK DEF Arriving, Present
  <2>3. QED
    BY <2>1, <2>2, PresentStep
<1>2. CASE LogoutUpdate(c)
  <2>1. PICK u \in Users : u = h[c].user
    BY <1>2 DEF LogoutUpdate, IInv, HandlersOK, WellFormed, NeedsUser, LogoutPcs
  <2>2. /\ userState' = [v \in Users |-> IF v = u THEN "offline" ELSE userState[v]]
        /\ who' = who
    BY <1>0, <1>2, <2>1, Updated DEF LogoutUpdate, netVars
  <2>3. /\ h'[c].pc = "lo_erase" /\ h'[c].user = u /\ who[c] = NoUser
        /\ \A d \in Conns : d # c => h'[d] = h[d]
    BY <1>0, <1>2, <2>1, GotoFields DEF LogoutUpdate, IInv, SessionsOK, LogoutPcs
  <2>4. Active(c, u) /\ ~Arriving(c, u)' /\ ~Present(c, u)'
    BY <1>2, <2>1, <2>2, <2>3, SystemOK
       DEF LogoutUpdate, Active, Arriving, Present, ClosePcs
  <2>5. QED
    BY <2>1, <2>2, <2>3, <2>4, PresentUpdate
<1>3. CASE LogoutFail(c) \/ LogoutUnsubscribe(c)
  <2>1. userState' = userState /\ who' = who /\ Finish(c)
    BY <1>3 DEF LogoutFail, LogoutUnsubscribe, dbVars, netVars
  <2>2. h'[c].pc \notin SessionPcs /\ \A d \in Conns : d # c => h'[d] = h[d]
    BY <1>0, <2>1, FinishFields DEF SessionPcs, LoginPcs, LogoutPcs, ClosePcs
  <2>3. QED
    BY <2>1, <2>2, PresentElsewhere
<1>4. CASE LogoutErase(c)
  <2>1. userState' = userState /\ who' = who
    BY <1>4 DEF LogoutErase, dbVars, netVars
  <2>2. h'[c].pc = "lo_unsub" /\ \A d \in Conns : d # c => h'[d] = h[d]
    BY <1>0, <1>4, GotoFields DEF LogoutErase
  <2>3. \A u \in Users : ~Arriving(c, u)' /\ (Present(c, u)' => Present(c, u))
    BY <2>1, <2>2 DEF Arriving, Present, ClosePcs
  <2>4. QED
    BY <2>1, <2>2, <2>3, PresentStep
<1>5. CASE Vanish(c)
  <2>1. userState' = userState /\ who' = who /\ h' = h
    BY <1>5 DEF Vanish, dbVars
  <2>2. QED
    BY <2>1, PresentKept DEF Arriving, Present
<1>6. QED  BY <1>1, <1>2, <1>3, <1>4, <1>5 DEF Logout

(* The user whom the scan of clientCloseException finds is the one whose    *)
(* session the connection carried.                                          *)
LEMMA ScanFinds ==
  ASSUME IInv, NEW c \in Conns, CloseErase(c)
  PROVE  \E u \in Users \cup {NoUser} :
           /\ u # NoUser => userConnMap[Home[c]][u] = c /\ who[c] = u
           /\ u = NoUser => \A v \in Users : userConnMap[Home[c]][v] # c
           /\ userConnMap' = [userConnMap EXCEPT ![Home[c]] =
                                [v \in Users |-> IF v = u THEN NoConn ELSE @[v]]]
           /\ h'[c].pc = "cl_unsub" /\ h'[c].user = u
           /\ \A d \in Conns : d # c => h'[d] = h[d] /\ who'[d] = who[d]
           /\ who'[c] = NoUser
<1> DEFINE mine == {u \in Users : userConnMap[Home[c]][u] = c}
<1>1. PICK u \in IF mine = {} THEN {NoUser} ELSE mine :
        /\ userConnMap' = [userConnMap EXCEPT ![Home[c]] =
                             [v \in Users |-> IF v = u THEN NoConn ELSE @[v]]]
        /\ h' = [h EXCEPT ![c] = [Idle EXCEPT !.pc = "cl_unsub", !.user = u]]
  BY DEF CloseErase
<1>2. /\ h \in [Conns -> Handler] /\ who \in [Conns -> Users \cup {NoUser}]
      /\ u \in Users \cup {NoUser}
  BY <1>1 DEF IInv, TypeOK
<1>3. /\ h'[c].pc = "cl_unsub" /\ h'[c].user = u
      /\ \A d \in Conns : d # c => h'[d] = h[d]
  BY <1>1, <1>2, IdleType DEF Handler
<1>4. who'[c] = NoUser /\ \A d \in Conns : d # c => who'[d] = who[d]
  BY <1>2 DEF CloseErase
<1>5. ASSUME u # NoUser PROVE userConnMap[Home[c]][u] = c /\ who[c] = u
  <2>1. u \in Users /\ userConnMap[Home[c]][u] = c
    BY <1>1, <1>5
  <2>2. Carries(c, u)
    BY <2>1, MapUse, ServiceOK
  <2>3. h[c].pc = "idle"
    BY DEF CloseErase, At
  <2>4. QED
    BY <2>1, <2>2, <2>3 DEF Carries, EnteredPcs, LoginPcs
<1>6. u = NoUser => \A v \in Users : userConnMap[Home[c]][v] # c
  BY <1>1, SystemOK
<1>7. QED
  BY <1>1, <1>2, <1>3, <1>4, <1>5, <1>6

LEMMA PresentClose ==
  ASSUME Orderly, IInv, Closing, OnePresent, NEW c \in Conns, Close(c)
  PROVE  OnePresent'
<1> USE DEF At
<1>0. TypeOK
  BY DEF IInv
<1>1. CASE CloseErase(c)
  <2>1. PICK u \in Users \cup {NoUser} :
          /\ u # NoUser => who[c] = u
          /\ h'[c].pc = "cl_unsub" /\ h'[c].user = u
          /\ \A d \in Conns : d # c => h'[d] = h[d] /\ who'[d] = who[d]
          /\ who'[c] = NoUser
    BY <1>1, ScanFinds
  <2>2. \A v \in Users : ~Arriving(c, v)' /\ (Present(c, v)' => Present(c, v))
    BY <2>1, SystemOK DEF Arriving, Present
  <2>3. userState' = userState
    BY <1>1 DEF CloseErase, dbVars
  <2>4. QED
    BY <2>1, <2>2, <2>3, PresentStep
<1>2. CASE CloseUnsubscribe(c)
  <2>1. userState' = userState /\ who' = who /\ h[c].pc = "cl_unsub"
    BY <1>2 DEF CloseUnsubscribe, dbVars, netVars
  <2>2. CASE Finish(c)
    <3>1. h'[c].pc \notin SessionPcs /\ \A d \in Conns : d # c => h'[d] = h[d]
      BY <1>0, <2>2, FinishFields DEF SessionPcs, LoginPcs, LogoutPcs, ClosePcs
    <3>2. QED
      BY <2>1, <3>1, PresentElsewhere
  <2>3. CASE Goto(c, "cl_update")
    <3>1. /\ h'[c].pc = "cl_update" /\ h'[c].user = h[c].user
          /\ \A d \in Conns : d # c => h'[d] = h[d]
      BY <1>0, <2>3, GotoFields
    <3>2. \A u \in Users : ~Arriving(c, u)' /\ (Present(c, u)' => Present(c, u))
      BY <2>1, <3>1 DEF Arriving, Present, ClosePcs
    <3>3. QED
      BY <2>1, <3>1, <3>2, PresentStep
  <2>4. QED  BY <1>2, <2>2, <2>3 DEF CloseUnsubscribe
<1>3. CASE CloseUpdate(c)
  <2>1. PICK u \in Users : u = h[c].user
    BY <1>3 DEF CloseUpdate, IInv, HandlersOK, WellFormed, NeedsUser
  <2>2. /\ userState' = [v \in Users |-> IF v = u THEN "offline" ELSE userState[v]]
        /\ who' = who
    BY <1>0, <1>3, <2>1, Updated DEF CloseUpdate, netVars
  <2>3. /\ h'[c].pc = "idle" /\ h'[c].user = NoUser
        /\ \A d \in Conns : d # c => h'[d] = h[d]
    BY <1>0, <1>3, FinishFields DEF CloseUpdate
  <2>4. Active(c, u) /\ ~Arriving(c, u)' /\ h'[c].pc \notin SessionPcs
    BY <1>3, <2>1, <2>3 DEF CloseUpdate, Active, Arriving, Present, SessionPcs, LoginPcs,
                      LogoutPcs, ClosePcs
  <2>5. ~Present(c, u)'
    BY <1>3, <2>1, <2>2, <2>3, SystemOK DEF CloseUpdate, Closing, Present, ClosePcs
  <2>6. QED
    BY <2>1, <2>2, <2>3, <2>4, <2>5, PresentUpdate
<1>4. QED  BY <1>1, <1>2, <1>3 DEF Close

(* oneChat and groupChat read sessions and change none. *)
LEMMA ChatsElsewhere ==
  ASSUME TypeOK, NEW c \in Conns,
         Chat(c) \/ Group(c) \/ \E m \in Msgs : OneChat(c, m) \/ GroupChat(c, m)
  PROVE  /\ UNCHANGED <<userState, who, userConnMap>>
         /\ \A d \in Conns : d # c => h'[d] = h[d]
         /\ h[c].pc \notin SessionPcs /\ h'[c].pc \notin SessionPcs
<1> USE DEF At, SessionPcs, LoginPcs, LogoutPcs, ClosePcs
<1>0. h \in [Conns -> Handler]
  BY DEF TypeOK
<1>1. ASSUME NEW m \in Msgs, OneChat(c, m) \/ GroupChat(c, m)
      PROVE  /\ UNCHANGED <<userState, who, userConnMap>>
             /\ \A d \in Conns : d # c => h'[d] = h[d]
             /\ h[c].pc = "idle" /\ h'[c].pc \in {"oc_query", "oc_send", "gc_lock"}
  <2>1. UNCHANGED <<userState, who, userConnMap>> /\ h[c].pc = "idle"
    BY <1>1 DEF OneChat, GroupChat, CanSend, Ready, mapVars, netVars, dbVars
  <2>2. CASE OneChat(c, m)
    <3>1. PICK u, p : h' = [h EXCEPT ![c] =
            [Idle EXCEPT !.pc = IF p = NoConn THEN "oc_query" ELSE "oc_send",
                         !.user = u, !.msg = m, !.peer = p]]
      BY <2>2 DEF OneChat
    <3> DEFINE x == [Idle EXCEPT !.pc = IF p = NoConn THEN "oc_query" ELSE "oc_send",
                                 !.user = u, !.msg = m, !.peer = p]
    <3>2. x.pc \in {"oc_query", "oc_send"}
      BY DEF Idle
    <3>3. h'[c] = x /\ \A d \in Conns : d # c => h'[d] = h[d]
      BY <1>0, <3>1
    <3>4. QED  BY <2>1, <3>2, <3>3
  <2>3. CASE GroupChat(c, m)
    <3>1. PICK g : h' = [h EXCEPT ![c] = [Idle EXCEPT !.pc = "gc_lock", !.msg = m, !.todo = g]]
      BY <2>3 DEF GroupChat
    <3>2. [Idle EXCEPT !.pc = "gc_lock", !.msg = m, !.todo = g].pc = "gc_lock"
      BY DEF Idle
    <3>3. QED  BY <1>0, <2>1, <3>1, <3>2
  <2>4. QED  BY <1>1, <2>2, <2>3
<1>2. CASE Chat(c)
  <2>1. /\ UNCHANGED <<userState, who, userConnMap>>
        /\ h[c].pc \in {"oc_send", "oc_query", "oc_publish", "oc_store"}
    BY <1>2, SMTT(30)
       DEF Chat, ChatSend, ChatQuery, ChatPublish, ChatStore, StoreOffline, mapVars, netVars, dbVars
  <2>2. Finish(c) \/ \E p \in {"oc_publish", "oc_store"} : Goto(c, p)
    BY <1>2 DEF Chat, ChatSend, ChatQuery, ChatPublish, ChatStore
  <2>3. h'[c].pc \notin SessionPcs /\ \A d \in Conns : d # c => h'[d] = h[d]
    BY <2>2, FinishFields, GotoFields
  <2>4. QED  BY <2>1, <2>3
<1>3. CASE Group(c)
  <2>1. /\ UNCHANGED <<userState, who, userConnMap>>
        /\ h[c].pc \in GroupPcs
    <3>1. h[c].pc \in GroupPcs
      BY <1>3 DEF Group, GroupLock, GroupSend, GroupQuery, GroupPublish, GroupStore,
                  GroupDone, GroupPcs
    <3>2. userState' = userState /\ who' = who
      BY <1>3 DEF Group, GroupLock, GroupSend, GroupQuery, GroupPublish, GroupStore,
                  GroupDone, StoreOffline, netVars, dbVars
    <3>3. userConnMap' = userConnMap
      BY <1>3 DEF Group, GroupLock, GroupSend, GroupQuery, GroupPublish, GroupStore,
                  GroupDone, mapVars
    <3>4. QED  BY <3>1, <3>2, <3>3
  <2>2. h'[c].pc \notin SessionPcs /\ \A d \in Conns : d # c => h'[d] = h[d]
    <3>1. CASE GroupSend(c)
      <4>1. PICK u : h' = [h EXCEPT ![c].todo = @ \ {u}]
        BY <3>1 DEF GroupSend
      <4>2. h[c].pc = "gc_next"
        BY <3>1 DEF GroupSend
      <4>3. QED  BY <1>0, <4>1, <4>2 DEF Handler
    <3>2. CASE GroupQuery(c)
      <4>1. PICK u, p : /\ p \in {"gc_publish", "gc_store"}
                       /\ h' = [h EXCEPT ![c].todo = @ \ {u}, ![c].user = u, ![c].pc = p]
        BY <3>2 DEF GroupQuery
      <4>2. QED  BY <1>0, <4>1 DEF Handler
    <3>3. CASE ~(GroupSend(c) \/ GroupQuery(c))
      <4>1. Finish(c) \/ Goto(c, "gc_next")
        BY <1>3, <3>3 DEF Group, GroupLock, GroupPublish, GroupStore, GroupDone
      <4>2. QED  BY <4>1, FinishFields, GotoFields
    <3>4. QED  BY <3>1, <3>2, <3>3
  <2>3. QED  BY <2>1, <2>2 DEF GroupPcs
<1>4. QED  BY <1>1, <1>2, <1>3

(* The observer thread, redis and the start of a process change no session, *)
(* and ctrl + c is left out.                                                *)
LEMMA ServersElsewhere ==
  ASSUME Orderly, NEW s \in Servers, Server(s), ~(Kill(s) \/ SigintExit(s))
  PROVE  UNCHANGED <<userState, who, userConnMap, h>>
BY DEF Server, Observe, Execute, SigintReset, Restart, BreakLink, Orderly, StoreOffline,
       mapVars, netVars, dbVars

(* A process that dies takes its connections along and tells nobody. *)
LEMMA DeathFields ==
  ASSUME TypeOK, NEW s \in Servers, NEW how, Die(s, how)
  PROVE  /\ userState' = userState
         /\ \A d \in Conns :
              (h'[d] = h[d] /\ who'[d] = who[d]) \/ (h'[d].pc = "idle" /\ who'[d] = NoUser)
<1>1. userState' = userState
  BY DEF Die, dbVars
<1>2. ASSUME NEW d \in Conns
      PROVE  (h'[d] = h[d] /\ who'[d] = who[d]) \/ (h'[d].pc = "idle" /\ who'[d] = NoUser)
  BY IdleType DEF Die
<1>3. QED  BY <1>1, <1>2

LEMMA PresentDie ==
  ASSUME TypeOK, Closing, OnePresent, NEW s \in Servers, NEW how, Die(s, how)
  PROVE  OnePresent' /\ Closing'
<1>1. ASSUME NEW u \in Users, NEW d \in Conns
      PROVE  (Arriving(d, u)' => Arriving(d, u)) /\ (Present(d, u)' => Present(d, u))
  BY DeathFields, SystemOK DEF Arriving, Present, ClosePcs
<1>2. OnePresent'
  BY <1>1, DeathFields, PresentKept
<1>3. Closing'
  BY DeathFields DEF Closing, ClosePcs
<1>4. QED  BY <1>2, <1>3

LEMMA ClosingStep ==
  ASSUME IInv, Closing, NEW c \in Conns,
         \/ Login(c) \/ \E u \in Users : LoginQuery(c, u)
         \/ Logout(c) \/ LogoutRequest(c) \/ Vanish(c) \/ Close(c)
  PROVE  Closing'
<1> USE DEF At, ClosePcs
<1>0. TypeOK /\ h \in [Conns -> Handler] /\ who \in [Conns -> Users \cup {NoUser}]
  BY DEF IInv, TypeOK
<1>1. ASSUME \A d \in Conns : d # c => h'[d] = h[d] /\ who'[d] = who[d],
             h'[c].pc \in ClosePcs => who'[c] = NoUser
      PROVE  Closing'
  BY <1>1 DEF Closing
<1>2. CASE CloseErase(c)
  BY <1>1, <1>2, ScanFinds
<1>3. CASE LoginOffline(c)
  <2>1. PICK rows, p : /\ p \in {"li_ack", "li_remove"}
                       /\ h' = [h EXCEPT ![c].rows = rows, ![c].pc = p]
    BY <1>3 DEF LoginOffline
  <2>2. h'[c].pc = p /\ \A d \in Conns : d # c => h'[d] = h[d]
    BY <1>0, <2>1 DEF Handler
  <2>3. who' = who
    BY <1>3 DEF LoginOffline, netVars
  <2>4. QED  BY <1>1, <2>1, <2>2, <2>3
<1>4. CASE LogoutRequest(c) \/ \E u \in Users : LoginQuery(c, u)
  <2>1. PICK u, p : /\ p \in {"lo_lock", "li_insert"}
                    /\ h' = [h EXCEPT ![c] = [Idle EXCEPT !.pc = p, !.user = u]]
    BY <1>4 DEF LogoutRequest, LoginQuery
  <2>2. [Idle EXCEPT !.pc = p, !.user = u].pc = p
    BY DEF Idle
  <2>3. h'[c].pc = p /\ \A d \in Conns : d # c => h'[d] = h[d]
    BY <1>0, <2>1, <2>2
  <2>4. \A d \in Conns : d # c => who'[d] = who[d]
    BY <1>0, <1>4 DEF LogoutRequest, LoginQuery
  <2>5. QED  BY <1>1, <2>1, <2>3, <2>4
<1>5. CASE Vanish(c)
  BY <1>5 DEF Vanish, Closing
<1>6. CASE LoginAck(c) \/ LogoutFail(c) \/ LogoutUnsubscribe(c) \/ CloseUpdate(c)
  <2>1. Finish(c) /\ \A d \in Conns : d # c => who'[d] = who[d]
    BY <1>0, <1>6 DEF LoginAck, LogoutFail, LogoutUnsubscribe, CloseUpdate, netVars
  <2>2. h'[c].pc = "idle" /\ \A d \in Conns : d # c => h'[d] = h[d]
    BY <1>0, <2>1, FinishFields
  <2>3. QED  BY <1>1, <2>1, <2>2
<1>7. CASE CloseUnsubscribe(c)
  <2>1. who' = who /\ h[c].pc = "cl_unsub" /\ (Finish(c) \/ Goto(c, "cl_update"))
    BY <1>7 DEF CloseUnsubscribe, netVars
  <2>2. \A d \in Conns : d # c => h'[d] = h[d]
    BY <1>0, <2>1, FinishFields, GotoFields
  <2>3. who[c] = NoUser
    BY <2>1 DEF Closing
  <2>4. QED  BY <1>1, <2>1, <2>2, <2>3
<1>8. CASE \/ LoginInsert(c) \/ LoginSubscribe(c) \/ LoginOnline(c) \/ LoginRemove(c)
           \/ LogoutUpdate(c) \/ LogoutErase(c)
  <2>1. PICK p \in {"li_subscribe", "li_online", "li_offmsg", "li_ack", "lo_erase", "lo_unsub"} :
          Goto(c, p)
    BY <1>8 DEF LoginInsert, LoginSubscribe, LoginOnline, LoginRemove, LogoutUpdate, LogoutErase
  <2>2. who' = who
    BY <1>8 DEF LoginInsert, LoginSubscribe, LoginOnline, LoginRemove, LogoutUpdate,
                LogoutErase, netVars
  <2>3. h'[c].pc = p /\ \A d \in Conns : d # c => h'[d] = h[d]
    BY <1>0, <2>1, GotoFields
  <2>4. QED  BY <1>1, <2>1, <2>2, <2>3
<1>9. QED
  BY <1>2, <1>3, <1>4, <1>5, <1>6, <1>7, <1>8 DEF Login, Logout, Close

PresenceInv == Closing /\ OnePresent

LEMMA PresenceNext == Orderly /\ IInv /\ PresenceInv /\ [Next]_vars => PresenceInv'
<1> SUFFICES ASSUME Orderly, IInv, Closing, OnePresent, [Next]_vars
             PROVE  OnePresent' /\ Closing'
  BY DEF PresenceInv
<1>0. TypeOK
  BY DEF IInv
<1>1. ASSUME NEW c \in Conns, Requests(c) \/ Steps(c)
      PROVE  OnePresent' /\ Closing'
  <2>1. CASE NullRow(c) \/ RaceCrash(c)
    BY <1>0, <2>1, PresentDie, ServiceOK DEF NullRow, RaceCrash
  <2>2. CASE Chat(c) \/ Group(c) \/ \E m \in Msgs : OneChat(c, m) \/ GroupChat(c, m)
    <3>1. /\ userState' = userState /\ who' = who
          /\ \A d \in Conns : d # c => h'[d] = h[d]
          /\ h'[c].pc \notin SessionPcs
      BY <1>0, <2>2, ChatsElsewhere
    <3>2. Closing'
      BY <3>1 DEF Closing, SessionPcs
    <3>3. QED  BY <3>1, <3>2, PresentElsewhere
  <2>3. CASE \/ Login(c) \/ \E u \in Users : LoginQuery(c, u)
             \/ Logout(c) \/ LogoutRequest(c) \/ Vanish(c) \/ Close(c)
    BY <2>3, ClosingStep, PresentLogin, PresentLogout, PresentClose
  <2>4. QED  BY <1>1, <2>1, <2>2, <2>3 DEF Requests, Steps
<1>2. ASSUME NEW s \in Servers, Server(s)
      PROVE  OnePresent' /\ Closing'
  <2>1. CASE Kill(s) \/ SigintExit(s)
    BY <1>0, <2>1, PresentDie DEF Kill, SigintExit
  <2>2. CASE ~(Kill(s) \/ SigintExit(s))
    <3>1. userState' = userState /\ who' = who /\ h' = h
      BY <1>2, <2>2, ServersElsewhere
    <3>2. QED
      BY <3>1, PresentKept DEF Arriving, Present, Closing
  <2>3. QED  BY <2>1, <2>2
<1>3. CASE UNCHANGED vars
  <2>1. userState' = userState /\ who' = who /\ h' = h
    BY <1>3 DEF vars, netVars, dbVars
  <2>2. QED
    BY <2>1, PresentKept DEF Arriving, Present, Closing
<1>4. QED  BY <1>1, <1>2, <1>3 DEF Next

LEMMA PresenceInvariant == ASSUME Orderly PROVE Spec => []PresenceInv
<1>1. Init => PresenceInv
  <2> SUFFICES ASSUME Init PROVE PresenceInv
    OBVIOUS
  <2>1. \A c \in Conns : h[c].pc = "idle" /\ who[c] = Pre[c]
    BY IdleType DEF Init
  <2>2. \A c \in Conns, u \in Users : ~Arriving(c, u) /\ (Present(c, u) => Pre[c] = u)
    BY <2>1 DEF Arriving, Present, ClosePcs
  <2>3. OnePresent
    BY <2>2, ServiceOK, SystemOK DEF OnePresent, Active, Init
  <2>4. Closing
    BY <2>1 DEF Closing, ClosePcs
  <2>5. QED  BY <2>3, <2>4 DEF PresenceInv
<1>2. IInv /\ PresenceInv /\ [Next]_vars => PresenceInv'
  BY PresenceNext
<1>3. QED
  BY <1>1, <1>2, SessionsInvariant, PTL DEF Spec

(* Of all connections of all servers at most one is the present one of a    *)
(* user, and the table says what it is about, whichever clients vanish and  *)
(* servers die (login, loginout and clientCloseException of chatservice.cc).  *)
THEOREM OnePresentCorrect == ASSUME Orderly PROVE Spec => []OnePresent
<1>1. PresenceInv => OnePresent
  BY DEF PresenceInv
<1>2. QED
  BY <1>1, PresenceInvariant, PTL

-----------------------------------------------------------------------------
(*                      one server per user                                *)

(* An entry that counts is that of the present connection of the user.      *)
LEMMA OnIsPresent ==
  ASSUME IInv, NEW u \in Users, NEW s \in On(u)
  PROVE  \E c \in Conns : userConnMap[s][u] = c /\ Home[c] = s /\ Active(c, u)
<1>1. s \in Servers /\ userConnMap[s][u] # NoConn /\ ~Leaving(s, u)
  BY DEF On, Session
<1>2. PICK c \in Conns : userConnMap[s][u] = c
  BY <1>1 DEF IInv, TypeOK
<1>3. Home[c] = s /\ Carries(c, u)
  BY <1>1, <1>2, MapUse
<1>4. ~(h[c].user = u /\ h[c].pc = "lo_erase")
  BY <1>1, <1>3 DEF Leaving, At
<1>5. Active(c, u)
  BY <1>3, <1>4 DEF Carries, EnteredPcs, LoginPcs, Active, Arriving, Present
<1>6. QED  BY <1>2, <1>3, <1>5

LEMMA OneOn ==
  ASSUME IInv, OnePresent, NEW u \in Users, NEW s \in On(u), NEW t \in On(u)
  PROVE  s = t
<1>1. PICK c \in Conns : Home[c] = s /\ Active(c, u)
  BY OnIsPresent
<1>2. PICK d \in Conns : Home[d] = t /\ Active(d, u)
  BY OnIsPresent
<1>3. QED
  BY <1>1, <1>2 DEF OnePresent

LEMMA OneServer == IInv /\ OnePresent => OnOneServer
<1> SUFFICES ASSUME IInv, OnePresent, NEW u \in Users PROVE Cardinality(On(u)) <= 1
  BY DEF OnOneServer
<1>1. CASE On(u) = {}
  BY <1>1, FS_EmptySet
<1>2. CASE On(u) # {}
  <2>1. PICK s \in On(u) : TRUE
    BY <1>2
  <2>2. On(u) = {s}
    BY <2>1, OneOn
  <2>3. Cardinality({s}) = 1
    BY FS_Singleton
  <2>4. QED  BY <2>2, <2>3
<1>3. QED  BY <1>1, <1>2

(* No user is ever on two servers, although login asks the table before it  *)
(* writes it, and close and loginout write it last and first.               *)
THEOREM OnOneServerCorrect == ASSUME Orderly PROVE Spec => []OnOneServer
<1>1. Spec => []OnePresent
  BY OnePresentCorrect
<1>2. QED
  BY <1>1, SessionsInvariant, OneServer, PTL

-----------------------------------------------------------------------------
(*                      the steps of Presence                              *)

Mapped == P!PresenceNext \/ \A u \in Users : WhereIs(u)' = WhereIs(u)

LEMMA SameOn ==
  ASSUME NEW u \in Users, On(u)' = On(u)
  PROVE  WhereIs(u)' = WhereIs(u)
BY DEF WhereIs

LEMMA WhereType ==
  ASSUME NEW u \in Users
  PROVE  WhereIs(u) \in Servers \cup {Nowhere} /\ (WhereIs(u) = Nowhere <=> On(u) = {})
<1>1. CASE On(u) = {}
  BY <1>1 DEF WhereIs, TheOne
<1>2. CASE On(u) # {}
  <2>1. \E s \in Servers : s \in On(u)
    BY <1>2 DEF On, Session
  <2>2. (CHOOSE s \in Servers : s \in On(u)) \in Servers
    BY <2>1
  <2>3. QED  BY <1>2, <2>2, NowhereOK DEF WhereIs, TheOne
<1>3. QED  BY <1>1, <1>2

(* A step that moves one user, in or out. *)
LEMMA OneMoves ==
  ASSUME NEW u \in Users, On(u) = {} \/ On(u)' = {},
         \A v \in Users : v # u => On(v)' = On(v)
  PROVE  Mapped
<1>1. \A v \in Users : v # u => WhereIs(v)' = WhereIs(v)
  BY SameOn
<1>2. CASE On(u)' = On(u)
  BY <1>1, <1>2, SameOn DEF Mapped
<1>3. CASE On(u) = {} /\ On(u)' # {}
  <2>1. WhereIs(u) = Nowhere
    BY <1>3, WhereType
  <2>2. (WhereIs(u) \in Servers \cup {Nowhere} /\ (WhereIs(u) = Nowhere <=> On(u) = {}))'
    BY WhereType, PTL
  <2>3. PICK s \in Servers : WhereIs(u)' = s
    BY <1>3, <2>2
  <2>4. P!Enter(u, s)
    BY <1>1, <2>1, <2>3 DEF P!Enter
  <2>5. QED
    BY <2>4 DEF Mapped, P!PresenceNext
<1>4. CASE On(u) # {} /\ On(u)' = {}
  <2>1. WhereIs(u) # Nowhere
    BY <1>4, WhereType
  <2>2. WhereIs(u)' = Nowhere
    BY <1>4 DEF WhereIs, TheOne
  <2>3. P!Leave(u)
    BY <1>1, <2>1, <2>2 DEF P!Leave
  <2>4. QED
    BY <2>3 DEF Mapped, P!PresenceNext
<1>5. QED  BY <1>2, <1>3, <1>4

(* What On(u) is made of. *)
LEMMA OnKept ==
  ASSUME NEW u \in Users, userState'[u] = userState[u],
         \A s \in Servers : userConnMap'[s][u] = userConnMap[s][u],
         \A c \in Conns : (At(c, "lo_erase") /\ h[c].user = u)'
                            <=> (At(c, "lo_erase") /\ h[c].user = u)
  PROVE  On(u)' = On(u)
<1>1. \A s \in Servers : Leaving(s, u)' <=> Leaving(s, u)
  BY DEF Leaving
<1>2. Session(u)' = Session(u)
  BY DEF Session
<1>3. QED
  BY <1>1, <1>2 DEF On, Session

LEMMA OffIsNowhere == ASSUME NEW u \in Users, userState[u] = "offline" PROVE On(u) = {}
BY DEF On

(* A step of the handler of c that writes neither the table nor a map. *)
LEMMA NobodyMoves ==
  ASSUME NEW c \in Conns, userState' = userState,
         \A s \in Servers, u \in Users : userConnMap'[s][u] = userConnMap[s][u],
         \A d \in Conns : d # c => h'[d] = h[d],
         h[c].pc # "lo_erase", h'[c].pc # "lo_erase"
  PROVE  Mapped
<1>1. ASSUME NEW u \in Users PROVE On(u)' = On(u)
  <2>1. ASSUME NEW d \in Conns
        PROVE  (At(d, "lo_erase") /\ h[d].user = u)' <=> (At(d, "lo_erase") /\ h[d].user = u)
    BY DEF At
  <2>2. QED  BY <2>1, OnKept
<1>2. QED
  BY <1>1, SameOn DEF Mapped

(* The connection c of u tells the table st, when u is nowhere before the   *)
(* step or after it.                                                        *)
LEMMA TableMoves ==
  ASSUME TypeOK, NEW c \in Conns, NEW u \in Users, NEW st,
         userState' = [v \in Users |-> IF v = u THEN st ELSE userState[v]],
         userConnMap' = userConnMap,
         \A d \in Conns : d # c => h'[d] = h[d],
         h[c].user = u, h[c].pc # "lo_erase",
         h'[c].user = u \/ h'[c].pc # "lo_erase",
         userState[u] = "offline" \/ st = "offline"
  PROVE  Mapped
<1>1. ASSUME NEW v \in Users, v # u PROVE On(v)' = On(v)
  <2>1. ASSUME NEW d \in Conns
        PROVE  (At(d, "lo_erase") /\ h[d].user = v)' <=> (At(d, "lo_erase") /\ h[d].user = v)
    BY <1>1 DEF At
  <2>2. userState'[v] = userState[v]
    BY <1>1
  <2>3. QED  BY <2>1, <2>2, OnKept
<1>2. On(u) = {} \/ On(u)' = {}
  BY DEF On
<1>3. QED
  BY <1>1, <1>2, OneMoves

LEMMA LoginMapped ==
  ASSUME Orderly, IInv, OnePresent, NEW c \in Conns,
         Login(c) \/ \E u \in Users : LoginQuery(c, u)
  PROVE  Mapped
<1> USE DEF At
<1>0. /\ TypeOK /\ h \in [Conns -> Handler]
      /\ userConnMap \in [Servers -> [Users -> Conns \cup {NoConn}]]
  BY DEF IInv, TypeOK
<1>1. ASSUME NEW u \in Users, LoginQuery(c, u) PROVE Mapped
  <2>1. /\ h'[c].pc = "li_insert" /\ userState' = userState /\ userConnMap' = userConnMap
        /\ \A d \in Conns : d # c => h'[d] = h[d]
    BY <1>0, <1>1, IdleType DEF LoginQuery, Handler, dbVars, mapVars
  <2>2. h[c].pc # "lo_erase"
    BY <1>1 DEF LoginQuery, CanLogin, Ready, IInv, SessionsOK, ClosePcs
  <2>3. QED
    BY <2>1, <2>2, NobodyMoves
<1>2. CASE LoginInsert(c)
  <2>1. PICK u \in Users : u = h[c].user
    BY <1>2 DEF LoginInsert, IInv, HandlersOK, WellFormed, NeedsUser, LoginPcs
  <2>2. /\ userState' = userState /\ userState[u] = "offline"
        /\ h'[c].pc = "li_subscribe" /\ \A d \in Conns : d # c => h'[d] = h[d]
    BY <1>0, <1>2, <2>1, GotoFields DEF LoginInsert, OnePresent, Arriving, dbVars
  <2>3. \A s \in Servers, v \in Users \ {u} : userConnMap'[s][v] = userConnMap[s][v]
    BY <1>0, <1>2, <2>1 DEF LoginInsert
  <2>4. ASSUME NEW v \in Users, v # u PROVE On(v)' = On(v)
    <3>1. \A s \in Servers : userConnMap'[s][v] = userConnMap[s][v]
      BY <2>3, <2>4
    <3>2. ASSUME NEW d \in Conns
          PROVE  (At(d, "lo_erase") /\ h[d].user = v)' <=> (At(d, "lo_erase") /\ h[d].user = v)
      BY <1>2, <2>2 DEF LoginInsert
    <3>3. QED  BY <2>2, <3>1, <3>2, OnKept
  <2>5. On(u) = {}
    BY <2>2, OffIsNowhere
  <2>6. QED
    BY <2>4, <2>5, OneMoves
<1>3. CASE LoginOnline(c)
  <2>1. PICK u \in Users : u = h[c].user
    BY <1>3 DEF LoginOnline, IInv, HandlersOK, WellFormed, NeedsUser, LoginPcs
  <2>2. /\ userState' = [v \in Users |-> IF v = u THEN "online" ELSE userState[v]]
        /\ userConnMap' = userConnMap /\ userState[u] = "offline"
    BY <1>0, <1>3, <2>1, Updated DEF LoginOnline, mapVars, OnePresent, Arriving
  <2>3. /\ h'[c].pc = "li_offmsg" /\ \A d \in Conns : d # c => h'[d] = h[d]
    BY <1>0, <1>3, GotoFields DEF LoginOnline
  <2>4. h[c].pc = "li_online"
    BY <1>3 DEF LoginOnline
  <2>5. QED
    BY <1>0, <2>1, <2>2, <2>3, <2>4, TableMoves
<1>4. CASE LoginSubscribe(c) \/ LoginRemove(c) \/ LoginOffline(c) \/ LoginAck(c)
  <2>1. /\ userState' = userState /\ userConnMap' = userConnMap
        /\ h[c].pc # "lo_erase"
    BY <1>4 DEF LoginSubscribe, LoginRemove, LoginOffline, LoginAck, RemoveOffline,
                dbVars, mapVars
  <2>2. h'[c].pc # "lo_erase" /\ \A d \in Conns : d # c => h'[d] = h[d]
    <3>1. CASE LoginOffline(c)
      <4>1. PICK rows, p : /\ p \in {"li_ack", "li_remove"}
                           /\ h' = [h EXCEPT ![c].rows = rows, ![c].pc = p]
        BY <3>1 DEF LoginOffline
      <4>2. QED  BY <1>0, <4>1 DEF Handler
    <3>2. CASE LoginSubscribe(c) \/ LoginRemove(c)
      BY <1>0, <3>2, GotoFields DEF LoginSubscribe, LoginRemove
    <3>3. CASE LoginAck(c)
      BY <1>0, <3>3, FinishFields DEF LoginAck
    <3>4. QED  BY <1>4, <3>1, <3>2, <3>3
  <2>3. QED
    BY <2>1, <2>2, NobodyMoves
<1>5. QED  BY <1>1, <1>2, <1>3, <1>4 DEF Login

LEMMA LogoutMapped ==
  ASSUME Orderly, IInv, OnePresent, NEW c \in Conns, Logout(c) \/ LogoutRequest(c) \/ Vanish(c)
  PROVE  Mapped
<1> USE DEF At
<1>0. /\ TypeOK /\ h \in [Conns -> Handler]
      /\ userConnMap \in [Servers -> [Users -> Conns \cup {NoConn}]]
  BY DEF IInv, TypeOK
<1>1. CASE LogoutRequest(c)
  <2>1. [Idle EXCEPT !.pc = "lo_lock", !.user = who[c]].pc = "lo_lock"
    BY DEF Idle
  <2>2. h'[c].pc = "lo_lock" /\ \A d \in Conns : d # c => h'[d] = h[d]
    BY <1>0, <1>1, <2>1 DEF LogoutRequest
  <2>3. userState' = userState /\ userConnMap' = userConnMap /\ h[c].pc = "idle"
    BY <1>1 DEF LogoutRequest, Ready, dbVars, mapVars
  <2>4. QED
    BY <2>2, <2>3, NobodyMoves
<1>2. CASE LogoutUpdate(c)
  <2>1. PICK u \in Users : u = h[c].user
    BY <1>2 DEF LogoutUpdate, IInv, HandlersOK, WellFormed, NeedsUser, LogoutPcs
  <2>2. /\ userState' = [v \in Users |-> IF v = u THEN "offline" ELSE userState[v]]
        /\ userConnMap' = userConnMap /\ h[c].pc = "lo_lock"
    BY <1>0, <1>2, <2>1, Updated DEF LogoutUpdate
  <2>3. /\ h'[c].user = u /\ \A d \in Conns : d # c => h'[d] = h[d]
    BY <1>0, <1>2, <2>1, GotoFields DEF LogoutUpdate
  <2>4. QED
    BY <1>0, <2>1, <2>2, <2>3, TableMoves
<1>3. CASE LogoutFail(c) \/ LogoutUnsubscribe(c)
  <2>1. /\ userState' = userState /\ userConnMap' = userConnMap /\ Finish(c)
        /\ h[c].pc # "lo_erase"
    BY <1>3 DEF LogoutFail, LogoutUnsubscribe, dbVars, mapVars
  <2>2. h'[c].pc = "idle" /\ \A d \in Conns : d # c => h'[d] = h[d]
    BY <1>0, <2>1, FinishFields
  <2>3. QED
    BY <2>1, <2>2, NobodyMoves
<1>4. CASE LogoutErase(c)
  <2>1. PICK u \in Users : u = h[c].user
    BY <1>4 DEF LogoutErase, IInv, HandlersOK, WellFormed, NeedsUser, LogoutPcs
  <2>2. /\ userState' = userState /\ h[c].pc = "lo_erase"
        /\ userConnMap' = [userConnMap EXCEPT ![Home[c]][u] = NoConn]
    BY <1>4, <2>1 DEF LogoutErase, dbVars
  <2>3. h'[c].pc = "lo_unsub" /\ \A d \in Conns : d # c => h'[d] = h[d]
    BY <1>0, <1>4, GotoFields DEF LogoutErase
  <2>4. ASSUME NEW v \in Users, NEW s \in Servers
        PROVE  userConnMap'[s][v] = IF v = u /\ s = Home[c] THEN NoConn ELSE userConnMap[s][v]
    BY <1>0, <2>2, ServiceOK
  <2>5. ASSUME NEW v \in Users, v # u PROVE On(v)' = On(v)
    <3>1. ASSUME NEW d \in Conns
          PROVE  (At(d, "lo_erase") /\ h[d].user = v)' <=> (At(d, "lo_erase") /\ h[d].user = v)
      BY <2>1, <2>3, <2>5
    <3>2. \A s \in Servers : userConnMap'[s][v] = userConnMap[s][v]
      BY <2>4, <2>5
    <3>3. QED  BY <2>2, <3>1, <3>2, OnKept
  <2>6. On(u)' = On(u)
    <3>1. ASSUME NEW s \in Servers PROVE s \in On(u)' <=> s \in On(u)
      <4>1. CASE s = Home[c]
        <5>1. Leaving(s, u)
          BY <2>1, <2>2, <4>1 DEF Leaving
        <5>2. userConnMap'[s][u] = NoConn
          BY <2>4, <4>1
        <5>3. QED  BY <5>1, <5>2 DEF On, Session
      <4>2. CASE s # Home[c]
        <5>1. Leaving(s, u)' <=> Leaving(s, u)
          BY <2>3, <4>2 DEF Leaving
        <5>2. userConnMap'[s][u] = userConnMap[s][u]
          BY <2>4, <4>2
        <5>3. QED  BY <2>2, <5>1, <5>2 DEF On, Session
      <4>3. QED  BY <4>1, <4>2
    <3>2. On(u) \subseteq Servers /\ On(u)' \subseteq Servers
      BY DEF On, Session
    <3>3. QED  BY <3>1, <3>2
  <2>7. QED
    BY <2>5, <2>6, SameOn DEF Mapped
<1>5. CASE Vanish(c)
  <2>1. userState' = userState /\ userConnMap' = userConnMap /\ h' = h
    BY <1>5 DEF Vanish, dbVars, mapVars
  <2>2. \A u \in Users : On(u)' = On(u)
    BY <2>1, OnKept
  <2>3. QED
    BY <2>2, SameOn DEF Mapped
<1>6. QED  BY <1>1, <1>2, <1>3, <1>4, <1>5 DEF Logout

LEMMA CloseMapped ==
  ASSUME Orderly, IInv, OnePresent, NEW c \in Conns, Close(c)
  PROVE  Mapped
<1> USE DEF At
<1>0. /\ TypeOK /\ h \in [Conns -> Handler]
      /\ userConnMap \in [Servers -> [Users -> Conns \cup {NoConn}]]
  BY DEF IInv, TypeOK
<1>1. CASE CloseErase(c)
  <2>1. PICK u \in Users \cup {NoUser} :
          /\ u # NoUser => userConnMap[Home[c]][u] = c /\ who[c] = u
          /\ userConnMap' = [userConnMap EXCEPT ![Home[c]] =
                               [v \in Users |-> IF v = u THEN NoConn ELSE @[v]]]
          /\ h'[c].pc = "cl_unsub"
          /\ \A d \in Conns : d # c => h'[d] = h[d]
    BY <1>1, ScanFinds
  <2>2. userState' = userState /\ h[c].pc = "idle"
    BY <1>1 DEF CloseErase, dbVars
  <2>3. ASSUME NEW v \in Users, NEW s \in Servers
        PROVE  userConnMap'[s][v] = IF v = u /\ s = Home[c] THEN NoConn ELSE userConnMap[s][v]
    BY <1>0, <2>1, ServiceOK
  <2>4. ASSUME NEW v \in Users, NEW d \in Conns
        PROVE  (At(d, "lo_erase") /\ h[d].user = v)' <=> (At(d, "lo_erase") /\ h[d].user = v)
    BY <2>1, <2>2
  <2>5. ASSUME NEW v \in Users, v # u PROVE On(v)' = On(v)
    <3>1. \A s \in Servers : userConnMap'[s][v] = userConnMap[s][v]
      BY <2>3, <2>5
    <3>2. QED  BY <2>2, <2>4, <3>1, OnKept
  <2>6. CASE u = NoUser
    <3>1. \A v \in Users : On(v)' = On(v)
      BY <2>5, <2>6, SystemOK
    <3>2. QED  BY <3>1, SameOn DEF Mapped
  <2>7. CASE u # NoUser
    <3>1. u \in Users /\ Active(c, u)
      BY <2>1, <2>7 DEF Active, Present
    <3>2. ASSUME NEW s \in Servers PROVE s \notin On(u)'
      <4>1. SUFFICES ASSUME s \in On(u)' PROVE FALSE
        OBVIOUS
      <4>2. s # Home[c] /\ userConnMap'[s][u] = userConnMap[s][u]
        BY <2>3, <3>1, <4>1 DEF On, Session
      <4>3. Leaving(s, u)' <=> Leaving(s, u)
        BY <2>4, <3>1 DEF Leaving
      <4>4. s \in On(u)
        BY <2>2, <4>1, <4>2, <4>3 DEF On, Session
      <4>5. PICK d \in Conns : Home[d] = s /\ Active(d, u)
        BY <3>1, <4>4, OnIsPresent
      <4>6. QED  BY <3>1, <4>2, <4>5 DEF OnePresent
    <3>3. On(u)' = {}
      BY <3>2 DEF On, Session
    <3>4. QED
      BY <2>5, <3>1, <3>3, OneMoves
  <2>8. QED  BY <2>6, <2>7
<1>2. CASE CloseUnsubscribe(c)
  <2>1. /\ userState' = userState /\ userConnMap' = userConnMap /\ h[c].pc = "cl_unsub"
        /\ Finish(c) \/ Goto(c, "cl_update")
    BY <1>2 DEF CloseUnsubscribe, dbVars, mapVars
  <2>2. h'[c].pc \in {"idle", "cl_update"} /\ \A d \in Conns : d # c => h'[d] = h[d]
    BY <1>0, <2>1, FinishFields, GotoFields
  <2>3. QED
    BY <2>1, <2>2, NobodyMoves
<1>3. CASE CloseUpdate(c)
  <2>1. PICK u \in Users : u = h[c].user
    BY <1>3 DEF CloseUpdate, IInv, HandlersOK, WellFormed, NeedsUser
  <2>2. /\ userState' = [v \in Users |-> IF v = u THEN "offline" ELSE userState[v]]
        /\ userConnMap' = userConnMap /\ h[c].pc = "cl_update"
    BY <1>0, <1>3, <2>1, Updated DEF CloseUpdate, mapVars
  <2>3. /\ h'[c].pc = "idle" /\ \A d \in Conns : d # c => h'[d] = h[d]
    BY <1>0, <1>3, FinishFields DEF CloseUpdate
  <2>4. QED
    BY <1>0, <2>1, <2>2, <2>3, TableMoves
<1>4. QED  BY <1>1, <1>2, <1>3 DEF Close

(* A process that dies takes its users along and no others. *)
LEMMA DieMapped ==
  ASSUME IInv, OnePresent, NEW s \in Servers, NEW how, Die(s, how)
  PROVE  Mapped
<1>1. /\ userState' = userState
      /\ userConnMap' = [userConnMap EXCEPT ![s] = [u \in Users |-> NoConn]]
      /\ \A c \in Conns : Home[c] # s => h'[c] = h[c]
  BY DEF Die, dbVars
<1>2. userConnMap \in [Servers -> [Users -> Conns \cup {NoConn}]]
  BY DEF IInv, TypeOK
<1>3. ASSUME NEW u \in Users PROVE On(u)' = On(u) \ {s}
  <2>1. ASSUME NEW t \in Servers PROVE t \in On(u)' <=> t \in On(u) /\ t # s
    <3>1. CASE t = s
      BY <1>1, <1>2, <3>1 DEF On, Session
    <3>2. CASE t # s
      <4>1. Leaving(t, u)' <=> Leaving(t, u)
        BY <1>1, <3>2 DEF Leaving, At
      <4>2. userConnMap'[t][u] = userConnMap[t][u]
        BY <1>1, <1>2, <3>2
      <4>3. QED  BY <1>1, <3>2, <4>1, <4>2 DEF On, Session
    <3>3. QED  BY <3>1, <3>2
  <2>2. On(u) \subseteq Servers /\ On(u)' \subseteq Servers
    BY DEF On, Session
  <2>3. QED  BY <2>1, <2>2
<1>4. ASSUME NEW u \in Users
      PROVE  WhereIs(u)' = IF WhereIs(u) = s THEN Nowhere ELSE WhereIs(u)
  <2>1. CASE On(u) = {}
    <3>1. WhereIs(u) = Nowhere /\ On(u)' = On(u)
      BY <1>3, <2>1 DEF WhereIs, TheOne
    <3>2. QED  BY <3>1, SameOn
  <2>2. CASE On(u) # {}
    <3>1. WhereIs(u) \in On(u)
      <4>1. \E t \in Servers : t \in On(u)
        BY <2>2 DEF On, Session
      <4>2. QED  BY <2>2, <4>1 DEF WhereIs, TheOne
    <3>2. On(u) = {WhereIs(u)}
      BY <3>1, OneOn
    <3>3. CASE WhereIs(u) = s
      <4>1. On(u)' = {}
        BY <1>3, <3>2, <3>3
      <4>2. QED  BY <3>3, <4>1 DEF WhereIs, TheOne
    <3>4. CASE WhereIs(u) # s
      <4>1. On(u)' = On(u)
        BY <1>3, <3>2, <3>4
      <4>2. QED  BY <3>4, <4>1, SameOn
    <3>5. QED  BY <3>3, <3>4
  <2>3. QED  BY <2>1, <2>2
<1>5. P!Crash(s)
  BY <1>4 DEF P!Crash
<1>6. QED
  BY <1>5 DEF Mapped, P!PresenceNext

LEMMA NextMapped == Orderly /\ IInv /\ OnePresent /\ [Next]_vars => Mapped
<1> SUFFICES ASSUME Orderly, IInv, OnePresent, [Next]_vars PROVE Mapped
  OBVIOUS
<1>0. TypeOK
  BY DEF IInv
<1>1. ASSUME NEW c \in Conns, Requests(c) \/ Steps(c) PROVE Mapped
  <2>1. CASE NullRow(c) \/ RaceCrash(c)
    BY <2>1, DieMapped, ServiceOK DEF NullRow, RaceCrash
  <2>2. CASE Chat(c) \/ Group(c) \/ \E m \in Msgs : OneChat(c, m) \/ GroupChat(c, m)
    <3>1. /\ userState' = userState /\ userConnMap' = userConnMap
          /\ \A d \in Conns : d # c => h'[d] = h[d]
          /\ h[c].pc # "lo_erase" /\ h'[c].pc # "lo_erase"
      BY <1>0, <2>2, ChatsElsewhere DEF SessionPcs, LogoutPcs
    <3>2. QED  BY <3>1, NobodyMoves
  <2>3. CASE \/ Login(c) \/ \E u \in Users : LoginQuery(c, u)
             \/ Logout(c) \/ LogoutRequest(c) \/ Vanish(c) \/ Close(c)
    BY <2>3, LoginMapped, LogoutMapped, CloseMapped
  <2>4. QED  BY <1>1, <2>1, <2>2, <2>3 DEF Requests, Steps
<1>2. ASSUME UNCHANGED <<userState, userConnMap, h>> PROVE Mapped
  <2>1. ASSUME NEW u \in Users PROVE On(u)' = On(u)
    <3>1. \A d \in Conns : (At(d, "lo_erase") /\ h[d].user = u)'
                             <=> (At(d, "lo_erase") /\ h[d].user = u)
      BY <1>2 DEF At
    <3>2. QED  BY <1>2, <3>1, OnKept
  <2>2. QED  BY <2>1, SameOn DEF Mapped
<1>3. ASSUME NEW s \in Servers, Server(s) PROVE Mapped
  <2>1. CASE Kill(s) \/ SigintExit(s)
    BY <2>1, DieMapped DEF Kill, SigintExit
  <2>2. CASE ~(Kill(s) \/ SigintExit(s))
    BY <1>2, <1>3, <2>2, ServersElsewhere
  <2>3. QED  BY <2>1, <2>2
<1>4. CASE UNCHANGED vars
  BY <1>2, <1>4 DEF vars, mapVars, netVars, dbVars
<1>5. QED  BY <1>1, <1>3, <1>4 DEF Next

(* ChatService implements Presence: seen through the table and the maps of  *)
(* all servers, every step of login, loginout, clientCloseException and a   *)
(* dying server is one of Presence or changes nothing.                      *)
THEOREM PresenceImplemented == ASSUME Orderly PROVE Spec => ImplementsPresence
<1>1. P!PresenceInit
  BY WhereType DEF P!PresenceInit
<1>2. IInv /\ OnePresent /\ [Next]_vars => [P!PresenceNext]_[u \in Users |-> WhereIs(u)]
  BY NextMapped DEF Mapped
<1>3. Spec => []OnePresent
  BY OnePresentCorrect
<1>4. QED
  BY <1>1, <1>2, <1>3, SessionsInvariant, PTL DEF Spec, ImplementsPresence, P!PresenceSpec
=============================================================================
