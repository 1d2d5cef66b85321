----------------------------- MODULE ChatSafety -----------------------------
(***************************************************************************)
(* What the cluster of ChatService is meant to guarantee, as state         *)
(* predicates, action properties and liveness properties, and the promises *)
(* of comments in the code that it breaks.                                 *)
(***************************************************************************)
EXTENDS ChatService, FiniteSets

-----------------------------------------------------------------------------
(*                      sessions                                           *)

(* Connection c belongs to user u: its client is logged in as u, or its     *)
(* login is past the insert, or its logout is before the erase.             *)
EnteredPcs == (LoginPcs \ {"li_insert"}) \cup {"lo_lock", "lo_erase"}
Carries(c, u) == who[c] = u \/ (h[c].user = u /\ h[c].pc \in EnteredPcs)

(* An entry of _userConnMap names a connection of the same, live process   *)
(* whose close has not been handled yet and which belongs to that user.  So *)
(* no handler ever sends through an entry that is left over from another    *)
(* session, and a connection has at most one entry: the scan of             *)
(* clientCloseException may stop at the first.                              *)
SessionMapSound ==
  \A s \in Servers, u \in Users : userConnMap[s][u] # NoConn =>
    LET c == userConnMap[s][u] IN
    Home[c] = s /\ Alive(s) /\ conn[c] \in {"up", "gone"} /\ Carries(c, u)

(* What makes SessionMapSound inductive: a handler has the locals its next  *)
(* step uses, and a connection carries no session while it logs in or out,  *)
(* before it is accepted and after its close.                               *)
NeedsUser == LoginPcs \cup LogoutPcs \cup ChatPcs \cup {"cl_update", "gc_publish", "gc_store"}
WellFormed(x) ==
  /\ x.pc \in NeedsUser => x.user \in Users
  /\ x.pc \in ChatPcs \cup GroupPcs => x.msg \in Msgs
  /\ x.pc = "oc_send" => x.peer \in Conns
HandlersOK == \A c \in Conns : WellFormed(h[c])

SessionsOK == \A c \in Conns :
  /\ h[c].pc \in LoginPcs \cup LogoutPcs => who[c] = NoUser
  /\ h[c].pc \notin {"idle"} \cup ClosePcs => conn[c] \in {"up", "gone"}
  /\ IF conn[c] \in {"up", "gone"} THEN Alive(Home[c]) ELSE who[c] = NoUser

IInv == TypeOK /\ HandlersOK /\ SessionsOK /\ SessionMapSound

(* A login, logout or close of user u is under way, or its client has left. *)
InTransit(u) ==
  \E c \in Conns : \/ h[c].user = u /\ h[c].pc \in LoginPcs \cup LogoutPcs \cup ClosePcs
                   \/ conn[c] = "gone" /\ who[c] = u

(* The channels of server s once redis has executed all it was sent: the   *)
(* last command about a channel decides.                                    *)
Later(s, u, i) == \E j \in (i + 1)..Len(subCmds[s]) : subCmds[s][j].user = u
Subscribed(s) == {u \in Users :
  \/ u \in subs[s] /\ ~Later(s, u, 0)
  \/ \E i \in 1..Len(subCmds[s]) :
       subCmds[s][i] = [op |-> "sub", user |-> u] /\ ~Later(s, u, i)}

Session(u) == {s \in Servers : userConnMap[s][u] # NoConn}

(* _connMutex is held by exactly the handler that is between its lock and   *)
(* its unlock: two handlers of a process are never inside together, and no  *)
(* way out of loginout, of groupChat or of a dying process leaves it locked. *)
Holding == {"lo_erase", "lo_unsub", "gc_next", "gc_publish", "gc_store"}
MutexSound == \A s \in Servers, c \in Conns :
  connMutex[s] = c <=> Home[c] = s /\ h[c].pc \in Holding

(* Nobody but the holder of _connMutex changes the map while it is held:    *)
(* groupChat serves all members from one state of the map, and loginout     *)
(* erases the entry it found.                                               *)
OneMapPerHolder ==
  [][\A s \in Servers : userConnMap'[s] # userConnMap[s] /\ up'[s] \notin Ends =>
        \/ connMutex[s] = Free
        \/ connMutex[s] \in Conns /\ At(connMutex[s], "lo_erase")]_vars

-----------------------------------------------------------------------------
(*                      messages                                           *)

(* The copy goes to a connection of somebody it is meant for: not to the    *)
(* sender's, whose handler has the receiver's id, nor to an outsider's.     *)
ForOwner(c, m) == \E u \in Rcpt[m] : Carries(c, u)

(* oneChat is about to send m through an iterator whose entry was erased.   *)
StaleSend(m) == \E c \in Conns : At(c, "oc_send") /\ h[c].msg = m /\ Stale(c)

(* Every copy of a message that is sent down a connection is sent while the *)
(* session there is a receiver's: the client is logged in as one, or its    *)
(* login is past the insert, or its loginout before the erase.  It holds for *)
(* groupChat and the observer thread under the mutex, for login with the    *)
(* offline messages, and for oneChat unless its iterator went stale.        *)
DeliveredToOwner ==
  [][\A c \in Conns, m \in Msgs : got'[c][m] # got[c][m] =>
        ForOwner(c, m) \/ StaleSend(m)]_vars

(* What makes DeliveredToOwner hold on every way: whoever a copy is on its  *)
(* way to, in a handler, in redis or in table offlinemessage, is a receiver. *)
ForReceiver(x) ==
  /\ x.pc \in ChatPcs \cup {"gc_publish", "gc_store"} => x.user \in Rcpt[x.msg]
  /\ x.pc \in GroupPcs => x.todo \subseteq Rcpt[x.msg]
  /\ x.pc \in {"li_remove", "li_ack"} =>
        \A m \in Msgs : x.rows[m] # 0 => x.user \in Rcpt[m]
StoredForReceiver == \A u \in Users, m \in Msgs :
  offlineMessage[u][m] # 0 => u \in Rcpt[m]
PushedForReceiver == \A s \in Servers : \A i \in 1..Len(inbox[s]) :
  inbox[s][i].to \in Rcpt[inbox[s][i].msg]
Addressed == /\ \A c \in Conns : ForReceiver(h[c])
             /\ StoredForReceiver /\ PushedForReceiver

(* The copies of m: sent down, stored, under way in redis, or read and      *)
(* removed by a login that has not answered yet.                            *)
Copies(m) ==
  (UNION {{<<"down", c, i>> : i \in 1..got[c][m]} : c \in Conns})
  \cup (UNION {{<<"stored", u, i>> : i \in 1..offlineMessage[u][m]} : u \in Users})
  \cup (UNION {{<<"pushed", s, i>> : i \in {j \in 1..Len(inbox[s]) : inbox[s][j].msg = m}}
               : s \in Servers})
  \cup (UNION {{<<"read", c, i>> : i \in 1..h[c].rows[m]}
               : c \in {d \in Conns : At(d, "li_ack")}})

(* A chat message is never duplicated, however its way (direct, redis or    *)
(* offline table) races with logins and logouts of its receiver, when users *)
(* use one client at a time and always come back to the same server.        *)
AtMostOnce == \A m \in OneMsgs : \A x, y \in Copies(m) : x = y

-----------------------------------------------------------------------------
(*                      liveness                                           *)

(* Every handler returns: no lock cycle, no wait that nobody ends. *)
HandlersReturn == \A c \in Conns : h[c].pc # "idle" ~> h[c].pc = "idle"

(* The close of a session's connection ends the session in the database,    *)
(* however it races with the login or the chats on that connection.         *)
GoneIsOffline ==
  \A u \in Users :
    (\E c \in Conns : conn[c] = "gone" /\ who[c] = u) ~> userState[u] = "offline"

(* The observer thread gets every copy off its channel. *)
InboxDrained == \A s \in Servers : inbox[s] # <<>> ~> inbox[s] = <<>>

-----------------------------------------------------------------------------
(*                      what comments say and the code breaks              *)

(* chatservice.cc:100, a user who is online must not log in again.  Two     *)
(* logins that both read "offline" both go through.                         *)
NoDoubleLogin == \A c, d \in Conns : who[c] = who[d] => c = d \/ who[c] = NoUser

(* chatservice.hpp:74, the mutex makes _userConnMap thread-safe.  oneChat   *)
(* reads it without, and the copy it sends can reach a client on which      *)
(* somebody else has logged in since.                                       *)
NeverToAnother ==
  [][\A c \in Conns, m \in OneMsgs : got'[c][m] # got[c][m] =>
       who[c] \in Rcpt[m] \cup {NoUser}]_vars

(* chatservice.cc:137, the offline messages are deleted after they have     *)
(* been read.  Those stored between the query and the delete go unread.     *)
DeletedWereRead ==
  [][\A u \in Users, m \in Msgs :
       offlineMessage'[u][m] < offlineMessage[u][m] =>
         \E c \in Conns : At(c, "li_remove") /\ h[c].user = u /\ h[c].rows[m] # 0]_vars
=============================================================================
