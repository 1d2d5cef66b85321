----------------------------- MODULE ChatClient -----------------------------
(***************************************************************************)
(* One client process and its connection to one server: src/client/main.cc *)
(* against the handlers of ChatService as that connection sees them.       *)
(*                                                                         *)
(* The main thread sends every request.  It waits for the answers to a     *)
(* login and to a registration itself; everything else is read by a thread *)
(* that a successful login starts and that ends when it reads the answer   *)
(* to loginout.  Nothing tells the main thread that it has.                *)
(*                                                                         *)
(* A document is one json text.  Requests end with a zero byte, answers    *)
(* with nothing, and what one read returns is parsed as one document.      *)
(***************************************************************************)
EXTENDS Naturals, Sequences, FiniteSets

CONSTANTS Users, NoUser,   \* user ids, and the id -1
          Readers,         \* reader threads
          Patient,         \* does the user wait for the end of the reader?
          Elsewhere,       \* users whom other clients of this server log in
          Faults,          \* which faults may happen
          MaxRequests,     \* bound: requests the user makes
          Room             \* bound: documents under way to the client

(* "join"   one read returns several documents                             *)
(* "split"  one read returns a part of a document, or an answer is longer   *)
(*          than the buffer                                                 *)
(* "kill"   the server process ends                                        *)
(* "stale"  a copy comes down through a stale iterator of oneChat           *)
ASSUME ClientOK ==
  /\ NoUser \notin Users
  /\ Patient \in BOOLEAN
  /\ Elsewhere \subseteq Users
  /\ Faults \subseteq {"join", "split", "kill", "stale"}
  /\ MaxRequests \in Nat /\ Room \in Nat

VARIABLES main,       \* main thread: "menu", "login", "reg", "chat" or "ended"
          reader,     \* thread -> "free", "recv", or how far it has cleared
          current,    \* g_currentUser
          lists,      \* users whose friends and groups are in the two lists
          requests,   \* requests made
          toServer, toClient,  \* documents under way
          serverUp, closed,    \* is the process up, has it handled the close?
          session,    \* users whose entry in _userConnMap is this connection
          entering,   \* user whose login is between the insert and the answer
          other,      \* user -> "out", or "in" when another connection has
                      \* logged him in as well, or "owner" of his entry
          ousted,     \* has this session lost its entry to that connection?
          skipped     \* has the server thrown requests away?

clientVars == <<main, reader, current, lists, requests>>
mapVars == <<session, entering, other, ousted>>
serverVars == <<serverUp, closed, mapVars, skipped>>
vars == <<clientVars, toServer, toClient, serverVars>>

(* msgid and errno of an answer: login0 is LOGIN_MSG_ACK with errno 0, ...  *)
Accepted == {"login0", "reg0", "out0"}
Refused  == {"login1", "login2", "reg1", "out1"}
Answers  == Accepted \cup Refused
Document == [kind : Answers \cup {"notice", "push", "newline"}, user : Users \cup {NoUser}]
Request  == [op : {"login"}, user : Users]
            \cup [op : {"reg", "chat", "loginout"}, user : Users \cup {NoUser}]

TypeOK ==
  /\ main \in {"menu", "login", "reg", "chat", "ended"}
  /\ reader \in [Readers -> {"free", "recv", "clearUser", "clearLists"}]
  /\ current \in Users \cup {NoUser}
  /\ lists \subseteq Users
  /\ requests \in 0..MaxRequests
  /\ toServer \in Seq(Request)
  /\ toClient \in Seq(Document)
  /\ serverUp \in BOOLEAN /\ closed \in BOOLEAN /\ skipped \in BOOLEAN
  /\ session \subseteq Users
  /\ entering \in Users \cup {NoUser}
  /\ other \in [Users -> {"out", "in", "owner"}] /\ ousted \in BOOLEAN

Init ==
  /\ main = "menu" /\ reader = [r \in Readers |-> "free"]
  /\ current = NoUser /\ lists = {} /\ requests = 0
  /\ toServer = <<>> /\ toClient = <<>>
  /\ serverUp = TRUE /\ closed = FALSE /\ skipped = FALSE
  /\ session = {} /\ entering = NoUser
  /\ other = [u \in Users |-> "out"] /\ ousted = FALSE

-----------------------------------------------------------------------------
(*                      the main thread sends                              *)

Quiet == \A r \in Readers : reader[r] = "free"

SendRequest(op, u) ==
  /\ requests < MaxRequests
  /\ requests' = requests + 1
  /\ toServer' = Append(toServer, [op |-> op, user |-> u])
  /\ UNCHANGED <<reader, current, lists, toClient, serverVars>>

Login(u) == /\ main = "menu" /\ (Patient => Quiet)
            /\ SendRequest("login", u) /\ main' = "login"

Register == /\ main = "menu" /\ (Patient => Quiet)
            /\ SendRequest("reg", NoUser) /\ main' = "reg"

(* chat, groupchat, addfriend, creategroup and addgroup.                    *)
Command == main = "chat" /\ SendRequest("chat", current) /\ UNCHANGED main

(* The chat menu returns as soon as the request is sent.                    *)
Loginout == main = "chat" /\ SendRequest("loginout", current) /\ main' = "menu"

(* The process ends: choice 3, an exception nobody catches, or a reader     *)
(* that finds the connection closed.                                        *)
EndProcess ==
  /\ main' = "ended"
  /\ reader' = [r \in Readers |-> "free"]
  /\ toClient' = <<>>
  /\ UNCHANGED <<current, lists, requests, toServer, serverVars>>

Exit == main = "menu" /\ EndProcess

-----------------------------------------------------------------------------
(*                      both threads receive                               *)

(* A recv takes the next k documents.                                       *)
Reads == {k \in 1..Len(toClient) : k = 1 \/ "join" \in Faults}

(* They parse as document d: the parser skips line ends and wants the end   *)
(* of its input after the first value.                                      *)
Parses(k, d) == \E i \in 1..k :
  d = toClient[i] /\ \A j \in 1..k : toClient[j].kind = "newline" <=> j # i

Take(k) == toClient' = SubSeq(toClient, k + 1, Len(toClient))
Receive(d) == \E k \in Reads : Parses(k, d) /\ Take(k)

Unparsable ==
  \/ \E k \in Reads : \A i \in 1..k : ~Parses(k, toClient[i])
  \/ "split" \in Faults /\ toClient # <<>>
  \/ toClient = <<>> /\ ~serverUp

MainWaits == main \in {"login", "reg"}
ReaderWaits == \E r \in Readers : reader[r] = "recv"

Dies == (MainWaits \/ ReaderWaits) /\ Unparsable /\ EndProcess

(* recv returns -1 once when the connection was reset.  The main thread     *)
(* says so and goes on; the reader ends the process, as it does after 0.    *)
RecvFails ==
  /\ MainWaits /\ toClient = <<>> /\ ~serverUp
  /\ main' = "menu"
  /\ UNCHANGED <<reader, current, lists, requests, toServer, toClient, serverVars>>

(* get<int> of an errno that is not there, or a name that is none.          *)
NoErrno(d) == d.kind = "push"
NotALogin(d) == d.kind \in Accepted \ {"login0"}

MainDies ==
  /\ MainWaits
  /\ \E k \in Reads, i \in 1..Len(toClient) :
       /\ Parses(k, toClient[i])
       /\ NoErrno(toClient[i]) \/ (main = "login" /\ NotALogin(toClient[i]))
  /\ EndProcess

(* A mistake in LoginAccepted: g_currentUser does not get the id. *)
LoginAcceptedNobody ==
  /\ main = "login"
  /\ \E u \in Users, r \in Readers :
       /\ Receive([kind |-> "login0", user |-> u])
       /\ reader[r] = "free"
       /\ reader' = [reader EXCEPT ![r] = "recv"]
       /\ lists' = lists \cup {u}
  /\ main' = "chat"
  /\ UNCHANGED <<current, requests, toServer, serverVars>>

LoginAccepted ==
  /\ main = "login"
  /\ \E u \in Users, r \in Readers :
       /\ Receive([kind |-> "login0", user |-> u])
       /\ reader[r] = "free"
       /\ reader' = [reader EXCEPT ![r] = "recv"]
       /\ current' = u
       /\ lists' = lists \cup {u}
  /\ main' = "chat"
  /\ UNCHANGED <<requests, toServer, serverVars>>

(* Any document with an errno will do; what it answers is not looked at.    *)
BackToMenu ==
  /\ \E d \in Document :
       /\ Receive(d)
       /\ \/ main = "login" /\ d.kind \in Refused \cup {"notice"}
          \/ main = "reg" /\ d.kind \in Answers \cup {"notice"}
  /\ main' = "menu"
  /\ UNCHANGED <<reader, current, lists, requests, toServer, serverVars>>

(* A mistake in ReaderPrints: return instead of continue after a notice. *)
ReaderReturns(r) ==
  /\ reader[r] = "recv"
  /\ \E d \in Document :
       /\ d.kind # "out0" /\ Receive(d)
       /\ reader' = [reader EXCEPT ![r] = IF d.kind = "notice" THEN "free" ELSE @]
  /\ UNCHANGED <<main, current, lists, requests, toServer, serverVars>>

ReaderPrints(r) ==
  /\ reader[r] = "recv"
  /\ \E d \in Document : d.kind # "out0" /\ Receive(d)
  /\ UNCHANGED <<clientVars, toServer, serverVars>>

(* A mistake in ReaderOut: no return after a successful loginout. *)
ReaderStays(r) ==
  /\ reader[r] = "recv"
  /\ \E u \in Users \cup {NoUser} : Receive([kind |-> "out0", user |-> u])
  /\ UNCHANGED <<clientVars, toServer, serverVars>>

ReaderOut(r) ==
  /\ reader[r] = "recv"
  /\ \E u \in Users \cup {NoUser} : Receive([kind |-> "out0", user |-> u])
  /\ reader' = [reader EXCEPT ![r] = "clearUser"]
  /\ UNCHANGED <<main, current, lists, requests, toServer, serverVars>>

ClearUser(r) ==
  /\ reader[r] = "clearUser"
  /\ current' = NoUser
  /\ reader' = [reader EXCEPT ![r] = "clearLists"]
  /\ UNCHANGED <<main, lists, requests, toServer, toClient, serverVars>>

(* A mistake in ClearLists: the next login appends to the old lists. *)
KeepLists(r) ==
  /\ reader[r] = "clearLists"
  /\ reader' = [reader EXCEPT ![r] = "free"]
  /\ UNCHANGED <<main, current, lists, requests, toServer, toClient, serverVars>>

ClearLists(r) ==
  /\ reader[r] = "clearLists"
  /\ lists' = {}
  /\ reader' = [reader EXCEPT ![r] = "free"]
  /\ UNCHANGED <<main, current, requests, toServer, toClient, serverVars>>

-----------------------------------------------------------------------------
(*                      the server                                         *)

Answer(docs) == toClient' = IF main = "ended" THEN toClient ELSE toClient \o docs
Doc(kind, u) == [kind |-> kind, user |-> u]

(* onMessage takes all there is and parses it: the zero byte after the      *)
(* first request ends the input, and what follows is gone.                  *)
TakeRequest(op, u) ==
  /\ serverUp /\ entering = NoUser
  /\ toServer # <<>> /\ Head(toServer) = [op |-> op, user |-> u]
  /\ \E k \in 1..Len(toServer) :
       /\ k = 1 \/ "join" \in Faults
       /\ toServer' = SubSeq(toServer, k + 1, Len(toServer))
       /\ skipped' = (skipped \/ k > 1)
  /\ UNCHANGED <<clientVars, serverUp, closed>>

(* insert keeps the entry that another connection has for the user.         *)
LoginInsert(u) ==
  /\ TakeRequest("login", u)
  /\ u \notin session
  /\ session' = IF other[u] = "owner" THEN session ELSE session \cup {u}
  /\ entering' = u
  /\ ousted' = (other[u] = "owner")
  /\ UNCHANGED <<toClient, other>>

LoginAnswer ==
  /\ serverUp /\ entering # NoUser
  /\ Answer(<<Doc("login0", entering)>>)
  /\ entering' = NoUser
  /\ UNCHANGED <<clientVars, toServer, serverUp, closed, session, other, ousted, skipped>>

(* A mistake in LoginRefuse: no answer. *)
LoginIgnore(u) == TakeRequest("login", u) /\ UNCHANGED <<toClient, mapVars>>

(* The password is wrong, or the user is online, on this client or another: *)
(* then a line end of its own follows the answer.                           *)
LoginRefuse(u) ==
  /\ TakeRequest("login", u)
  /\ \/ Answer(<<Doc("login1", NoUser)>>)
     \/ Answer(<<Doc("login2", NoUser), Doc("newline", NoUser)>>)
  /\ UNCHANGED mapVars

Registration ==
  /\ TakeRequest("reg", NoUser)
  /\ \E kind \in {"reg0", "reg1"} : Answer(<<Doc(kind, NoUser)>>)
  /\ UNCHANGED mapVars

(* Only a chat to a user who is offline is answered.                        *)
Chat(u) ==
  /\ TakeRequest("chat", u)
  /\ Answer(<<>>) \/ Answer(<<Doc("notice", NoUser)>>)
  /\ UNCHANGED mapVars

HasEntry(u) == u \in session \/ other[u] = "owner"

(* A mistake in Logout: the entry stays. *)
LogoutKeepsEntry(u) ==
  /\ TakeRequest("loginout", u)
  /\ Answer(<<Doc(IF HasEntry(u) THEN "out0" ELSE "out1", u)>>)
  /\ UNCHANGED mapVars

(* The entry is found and erased by the id, whoever's connection it names.  *)
Logout(u) ==
  /\ TakeRequest("loginout", u)
  /\ session' = session \ {u}
  /\ other' = [v \in Users |-> IF v = u /\ other[v] = "owner" THEN "in" ELSE other[v]]
  /\ Answer(<<Doc(IF HasEntry(u) THEN "out0" ELSE "out1", u)>>)
  /\ UNCHANGED <<entering, ousted>>

(* Another handler or the observer thread sends a message to this client.   *)
Push ==
  /\ serverUp /\ main # "ended" /\ Len(toClient) < Room
  /\ session # {} \/ "stale" \in Faults
  /\ Answer(<<Doc("push", NoUser)>>)
  /\ UNCHANGED <<clientVars, toServer, serverVars>>

(* A mistake in Close: the scan finds the user but erases nothing. *)
CloseKeepsEntry ==
  /\ serverUp /\ ~closed /\ main = "ended" /\ toServer = <<>> /\ entering = NoUser
  /\ closed' = TRUE
  /\ UNCHANGED <<clientVars, toServer, toClient, serverUp, mapVars, skipped>>

(* clientCloseException, after the last request: one entry is erased.       *)
Close ==
  /\ serverUp /\ ~closed /\ main = "ended" /\ toServer = <<>> /\ entering = NoUser
  /\ closed' = TRUE
  /\ IF session = {} THEN UNCHANGED session
                     ELSE \E u \in session : session' = session \ {u}
  /\ UNCHANGED <<clientVars, toServer, toClient, serverUp, entering, other, ousted, skipped>>

(* Another client of this server logs in as u.  The state column that is to *)
(* keep it out is read before it is written, so it can be a second one.     *)
OtherIn(u) ==
  /\ serverUp /\ u \in Elsewhere /\ other[u] = "out"
  /\ other' = [other EXCEPT ![u] = IF u \in session THEN "in" ELSE "owner"]
  /\ UNCHANGED <<clientVars, toServer, toClient, serverUp, closed, session, entering, ousted,
                 skipped>>

(* Its close erases its own entry only, its loginout the one of the user.   *)
OtherOut(u) ==
  /\ serverUp /\ u \in Users /\ other[u] # "out"
  /\ other' = [other EXCEPT ![u] = "out"]
  /\ session' \in {session, session \ {u}}
  /\ ousted' = (ousted \/ session' # session)
  /\ UNCHANGED <<clientVars, toServer, toClient, serverUp, closed, entering, skipped>>

(* A part of a request does not parse, and the exception ends the process. *)
ServerEnds ==
  /\ serverUp
  /\ "kill" \in Faults \/ ("split" \in Faults /\ toServer # <<>>)
  /\ serverUp' = FALSE /\ session' = {} /\ entering' = NoUser
  /\ other' = [u \in Users |-> "out"]
  /\ UNCHANGED <<clientVars, toServer, toClient, closed, ousted, skipped>>

-----------------------------------------------------------------------------
User == \/ \E u \in Users : Login(u)
        \/ Register \/ Command \/ Loginout \/ Exit

Threads == \/ Dies \/ RecvFails \/ MainDies \/ LoginAccepted \/ BackToMenu
           \/ \E r \in Readers : ReaderPrints(r) \/ ReaderOut(r) \/ ClearUser(r) \/ ClearLists(r)

Handlers == \/ \E u \in Users \cup {NoUser} :
                 LoginInsert(u) \/ LoginRefuse(u) \/ Chat(u) \/ Logout(u)
            \/ LoginAnswer \/ Registration \/ Close

OtherClients == \E u \in Users : OtherIn(u) \/ OtherOut(u)

Next == User \/ Threads \/ Handlers \/ OtherClients \/ Push \/ ServerEnds

Spec == Init /\ [][Next]_vars

(* The threads of both processes run; the user and the others owe nothing.  *)
FairSpec == Spec /\ WF_vars(Threads) /\ WF_vars(Handlers)
-----------------------------------------------------------------------------
(*                      properties                                         *)

(* The entries of this connection are S, unless another client that has     *)
(* logged in as the same user has its own entry there or has erased this.   *)
Owns(S) == session = S \/ (ousted /\ session = {})

(* In the chat menu the client and the server agree on the user: requests   *)
(* carry the id whose entry this connection is in the server's map, which   *)
(* ChatService takes for granted, and the lists shown are that user's.  The *)
(* exception is a user who is logged in twice on the server: then the entry *)
(* may be the other connection's or gone, but it is never another user's.   *)
Identity ==
  main = "chat" /\ serverUp => Owns({current}) /\ lists = {current}

(* The connection has at most one entry in the map, so the scan of          *)
(* clientCloseException that stops at the first leaves none behind.         *)
OneSession ==
  /\ Cardinality(session) <= 1
  /\ closed => session = {}

(* What makes these inductive.  A request other than a command is the last  *)
(* one under way, and how far the server is with it follows from what is    *)
(* under way to the client.                                                 *)
Only(kinds) == \A i \in 1..Len(toClient) :
  toClient[i].kind \in kinds \cup {"push", "newline"}
OneAnswer(kinds, u) == \E i \in 1..Len(toClient) :
  /\ toClient[i].kind \in kinds /\ toClient[i].user = u
  /\ \A j \in 1..Len(toClient) : j # i => toClient[j].kind \in {"push", "newline"}
LogoutAnswer == \E i \in 1..Len(toClient) :
  /\ toClient[i].kind = "out0"
  /\ \A j \in 1..(i - 1) : toClient[j].kind \in {"notice", "push", "newline"}
  /\ \A j \in (i + 1)..Len(toClient) : toClient[j].kind \in {"push", "newline"}
CommandsOnly(last) == \A i \in 1..Len(toServer) :
  /\ toServer[i].user = current
  /\ toServer[i].op = "chat" \/ (last /\ i = Len(toServer) /\ toServer[i].op = "loginout")
Idle == toServer = <<>> /\ session = {} /\ entering = NoUser

InLogin ==
  \/ /\ \E u \in Users : toServer = <<[op |-> "login", user |-> u]>>
     /\ session = {} /\ entering = NoUser /\ Only({})
  \/ toServer = <<>> /\ entering # NoUser /\ Only({})
  \/ Idle /\ OneAnswer({"login1", "login2"}, NoUser)
  \/ /\ toServer = <<>> /\ entering = NoUser
     /\ \E u \in Users : Owns({u}) /\ OneAnswer({"login0"}, u)
InRegister ==
  \/ /\ toServer = <<[op |-> "reg", user |-> NoUser]>>
     /\ session = {} /\ entering = NoUser /\ Only({})
  \/ Idle /\ OneAnswer({"reg0", "reg1"}, NoUser)
InChat ==
  /\ CommandsOnly(FALSE) /\ Owns({current}) /\ entering = NoUser /\ Only({"notice"})
  /\ ReaderWaits /\ lists = {current}
InLogout ==
  \/ CommandsOnly(TRUE) /\ Owns({current}) /\ entering = NoUser /\ Only({"notice"})
  \/ Idle /\ LogoutAnswer
  \/ Idle /\ ousted /\ Only({"notice", "out1"})

Phases ==
  /\ main = "menu" /\ ~ReaderWaits => Idle /\ Only({})
  /\ main = "login" => InLogin
  /\ main = "reg" => InRegister
  /\ main = "chat" => InChat
  /\ main = "menu" /\ ReaderWaits => InLogout
  /\ MainWaits \/ (main = "menu" /\ Quiet) => lists = {}

ServerSide ==
  /\ \A i \in 1..Len(toServer) : toServer[i].op = "login" =>
       Len(toServer) = 1 /\ session = {} /\ entering = NoUser
  /\ entering # NoUser => Owns({entering}) /\ toServer = <<>>
  /\ session = {} \/ \E u \in Users : session = {u}
  /\ closed => main = "ended" /\ Idle

ThreadsInv ==
  /\ \A r, t \in Readers : reader[r] # "free" /\ reader[t] # "free" => r = t
  /\ MainWaits \/ main = "ended" => Quiet

ClientInv ==
  /\ TypeOK /\ ThreadsInv
  /\ IF serverUp THEN Phases /\ ServerSide ELSE session = {} /\ entering = NoUser

(* What the main thread takes off the socket is the answer to its own       *)
(* request, a message that came between the insert and the answer of its    *)
(* login or through a stale iterator, or the line end of an earlier refusal. *)
OwnAnswers(m) == IF m = "login" THEN {"login0", "login1", "login2"} ELSE {"reg0", "reg1"}
MainTakesItsOwn ==
  [][MainWaits => \A i \in 1..(Len(toClient) - Len(toClient')) :
       toClient[i].kind \in OwnAnswers(main) \cup {"push", "newline"}]_vars

(* A request that the server takes is one that ChatService may count on: a  *)
(* login or a registration finds no session on the connection, and a        *)
(* command or a loginout carries the id whose entry the connection is, even *)
(* if the client has ended since, or an id of which it is not the only      *)
(* connection.  No handler compares the two.                                *)
RequestsFit ==
  [][Len(toServer') < Len(toServer) =>
       IF Head(toServer).op \in {"login", "reg"} THEN session = {}
       ELSE Owns({Head(toServer).user})]_vars

(* A login, and a registration, comes back to a menu or ends the process:   *)
(* no other thread takes the answer away, and the server throws away no     *)
(* request that it read together with another.                              *)
MainReturns == MainWaits ~> ~MainWaits

(* After a loginout the reader ends, with two exceptions, and in both it    *)
(* waits for ever: the server read the request together with an earlier one *)
(* and threw it away, or answered errno 1 because another client that was   *)
(* logged in as the same user had erased the entry.                         *)
ReaderEnds == main = "menu" /\ ~Quiet ~> Quiet \/ skipped \/ ousted

(* A client that has ended leaves nothing in the server's map, even when    *)
(* its last request was a login.                                            *)
SessionEnds == main = "ended" ~> session = {}

(* main.cc:22, g_currentUser is the user who is logged in.  If the next     *)
(* login is faster than the reader's answer to loginout, it is not.         *)
CurrentIsLoggedIn == main = "chat" => current # NoUser
=============================================================================
