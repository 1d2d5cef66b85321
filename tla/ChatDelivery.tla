---------------------------- MODULE ChatDelivery ----------------------------
(***************************************************************************)
(* Sessions and delivery over the life and death of the servers, with two  *)
(* history variables that watch ChatService and never block it.            *)
(***************************************************************************)
EXTENDS ChatSafety

VARIABLES calm,     \* message -> the receivers whose session was settled when
                    \* it was sent and has not changed since
          orphans   \* users a dead server has left online in table user

Dies(s) == Alive(s) /\ ~Alive(s)'

(* A user is on a server when the table says online and the server has an   *)
(* entry of the user that loginout is not about to erase: once loginout has *)
(* changed the table the user may already log in elsewhere.                 *)
Leaving(s, u) == \E c \in Conns : Home[c] = s /\ At(c, "lo_erase") /\ h[c].user = u
On(u) == {s \in Session(u) : userState[u] = "online" /\ ~Leaving(s, u)}

(* A user the table calls online, who is nowhere and whom nobody brings in  *)
(* or takes out.                                                            *)
Ghost(u) == /\ userState[u] = "online" /\ On(u) = {}
            /\ \A c \in Conns : h[c].user = u => h[c].pc \notin LoginPcs \cup ClosePcs

(* No death of a server took a copy of m with it, in a handler or a channel. *)
Survives(m) == \A s \in Servers : Dies(s) =>
  /\ \A c \in Conns : Home[c] = s => h[c].msg # m
  /\ \A i \in 1..Len(inbox[s]) : inbox[s][i].msg # m

(* All the records of the session of user u, in every part of the system. *)
View(u) == <<userState[u],
             [s \in Servers |-> userConnMap[s][u]],
             {s \in Servers : u \in subs[s]},
             {c \in Conns : who[c] = u /\ conn[c] = "up"},
             {c \in Conns : h[c].user = u /\ h[c].pc \in LoginPcs \cup LogoutPcs \cup ClosePcs}>>

(* Nothing is under way for u, and redis has executed what it was sent.    *)
Settled(u) == /\ ~InTransit(u) /\ u \notin orphans
              /\ \A s \in Servers : (u \in Subscribed(s)) = (u \in subs[s])

WatchInit == calm = [m \in Msgs |-> {}] /\ orphans = {}

Watch ==
  /\ calm' = [m \in Msgs |->
       IF m \in sent' \ sent THEN {u \in Rcpt[m] \ {who[From[m]]} : Settled(u)}
       ELSE {u \in calm[m] : View(u)' = View(u) /\ Survives(m)}]
  /\ orphans' = {u \in Users :
       /\ userState'[u] = "online"
       /\ u \in orphans \/ ((\E s \in Servers : Dies(s)) /\ Ghost(u)')}

watchVars == <<vars, calm, orphans>>
DeliverySpec == Init /\ WatchInit /\ [][Next /\ Watch]_watchVars

(* When users use one client at a time, the three records of a session that *)
(* login, loginout and clientCloseException write one after the other       *)
(* agree, even when clients vanish and servers are killed at any step: the  *)
(* table says online iff exactly one server has an entry, that server alone *)
(* is (or will be, when redis gets there) subscribed to the channel, and    *)
(* only a death of a server leaves a user online in the table with neither. *)
Coherent ==
  \A u \in Users : ~InTransit(u) =>
    /\ Cardinality(Session(u)) =
         IF userState[u] = "online" /\ u \notin orphans THEN 1 ELSE 0
    /\ \A s \in Servers : u \in Subscribed(s) <=> s \in Session(u)

(* The handler of m is done and no copy of m is in a channel.               *)
Routed(m) ==
  /\ m \in sent
  /\ \A c \in Conns : h[c].msg # m
  /\ \A s \in Servers : \A i \in 1..Len(inbox[s]) : inbox[s][i].msg # m

(* A message to a receiver whose session did not change meanwhile reaches   *)
(* that receiver exactly once: the receiver's connection when online, else  *)
(* the offline table.  It does so from any server, by oneChat, groupChat    *)
(* and the observer thread, and even if the unlocked find of oneChat misses *)
(* the entry.  Only the death of the server that has the copy loses it.     *)
CalmDelivered ==
  \A m \in Msgs : Routed(m) => \A u \in calm[m] :
    IF userState[u] = "online"
    THEN /\ offlineMessage[u][m] = 0
         /\ \E s \in Servers : userConnMap[s][u] # NoConn /\ got[userConnMap[s][u]][m] = 1
    ELSE offlineMessage[u][m] = 1

-----------------------------------------------------------------------------
Nowhere == "nowhere"
ASSUME NowhereOK == Nowhere \notin Servers

TheOne(on) == IF on = {} THEN Nowhere ELSE CHOOSE s \in Servers : s \in on
WhereIs(u) == TheOne(On(u))

(* The handler or the session of c is the present one of user u.  loginout  *)
(* is over for the user once it has changed the table.                      *)
Arriving(c, u) == h[c].user = u /\ h[c].pc \in {"li_insert", "li_subscribe", "li_online"}
Present(c, u)  == \/ who[c] = u
                  \/ /\ h[c].user = u
                     /\ h[c].pc \in {"li_offmsg", "li_remove", "li_ack", "lo_lock"} \cup ClosePcs
Active(c, u)   == Arriving(c, u) \/ Present(c, u)

(* Of all connections of all servers at most one is the present one of a    *)
(* user, and the table says what it is about: a login that passes finds     *)
(* nobody else's close or loginout still to write.                          *)
OnePresent == \A u \in Users, c \in Conns :
  /\ Arriving(c, u) => userState[u] = "offline"
  /\ Present(c, u)  => userState[u] = "online"
  /\ \A d \in Conns : Active(c, u) /\ Active(d, u) => c = d

(* No user is on two servers, even while one of them is being left.         *)
OnOneServer == \A u \in Users : Cardinality(On(u)) <= 1

P == INSTANCE Presence WITH at <- [u \in Users |-> WhereIs(u)]

(* The steps of login, loginout, clientCloseException and of a killed       *)
(* server, seen through the table and the maps of all servers, are those of *)
(* Presence: nobody is ever moved from one server to another or entered     *)
(* twice.                                                                   *)
ImplementsPresence == P!PresenceSpec
=============================================================================
