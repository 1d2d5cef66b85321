-------------------------- MODULE ChatClientProofs --------------------------
(***************************************************************************)
(* The client and its server agree on who is logged in, for any number of  *)
(* users, threads and requests and every fault, as long as the user lets   *)
(* the reader end before the next request that the main thread waits for   *)
(* itself.  The argument is ClientInv, which is inductive: the phase the   *)
(* main thread and the reader are in says what is under way to the server, *)
(* what the server's map holds and what is under way back.  Of what is     *)
(* under way back it says so (Mail) even after the server has ended.  An   *)
(* ousted session may be without its entry in every phase.                 *)
(***************************************************************************)
EXTENDS ChatClient, FiniteSetTheorems, TLAPS

-----------------------------------------------------------------------------
(*                      sequences                                          *)

LEMMA Rest ==
  ASSUME NEW S, NEW q \in Seq(S), NEW k \in 1..Len(q)
  PROVE  /\ SubSeq(q, k + 1, Len(q)) \in Seq(S)
         /\ Len(SubSeq(q, k + 1, Len(q))) = Len(q) - k
         /\ \A i \in 1..(Len(q) - k) : SubSeq(q, k + 1, Len(q))[i] = q[i + k]
<1>1. Len(q) \in Nat /\ k \in Nat
  OBVIOUS
<1>2. QED  BY <1>1

LEMMA Joined ==
  ASSUME NEW S, NEW q \in Seq(S), NEW x \in S
  PROVE  /\ q \o <<x>> \in Seq(S)
         /\ Len(q \o <<x>>) = Len(q) + 1
         /\ \A i \in 1..Len(q) : (q \o <<x>>)[i] = q[i]
         /\ (q \o <<x>>)[Len(q) + 1] = x
OBVIOUS

(* What is left of a sequence that has one element less. *)
LEMMA Last ==
  ASSUME NEW S, NEW q \in Seq(S), Len(q) = 1, NEW k \in 1..Len(q)
  PROVE  SubSeq(q, k + 1, Len(q)) = <<>>
OBVIOUS

-----------------------------------------------------------------------------
(*                      type correctness                                   *)

LEMMA DocTypes ==
  ASSUME NEW kind \in Answers \cup {"notice", "push", "newline"}, NEW u \in Users \cup {NoUser}
  PROVE  Doc(kind, u) \in Document
BY DEF Doc, Document

LEMMA TakeTypes ==
  ASSUME TypeOK, NEW k \in Reads, Take(k)
  PROVE  toClient' \in Seq(Document)
BY Rest DEF TypeOK, Take, Reads

LEMMA ReceiveTypes ==
  ASSUME TypeOK, NEW d, Receive(d)
  PROVE  toClient' \in Seq(Document)
BY TakeTypes DEF Receive

LEMMA EndTypes ==
  ASSUME TypeOK, EndProcess
  PROVE  TypeOK'
<1>1. <<>> \in Seq(Document)
  OBVIOUS
<1>2. QED
  BY <1>1 DEF TypeOK, EndProcess, serverVars, mapVars

LEMMA SendTypes ==
  ASSUME TypeOK, NEW op, NEW u, [op |-> op, user |-> u] \in Request,
         SendRequest(op, u), main' \in {"menu", "login", "reg", "chat", "ended"}
  PROVE  TypeOK'
<1>2. toServer' \in Seq(Request)
  BY DEF TypeOK, SendRequest
<1>3. requests' \in 0..MaxRequests
  BY ClientOK DEF TypeOK, SendRequest
<1>4. QED  BY <1>2, <1>3 DEF TypeOK, SendRequest, serverVars, mapVars

LEMMA UserTypes == ASSUME TypeOK, User PROVE TypeOK'
<1>1. ASSUME NEW u \in Users, Login(u) PROVE TypeOK'
  BY <1>1, SendTypes DEF Login, Request
<1>2. ASSUME Register PROVE TypeOK'
  BY <1>2, SendTypes DEF Register, Request
<1>3. ASSUME Command PROVE TypeOK'
  BY <1>3, SendTypes DEF Command, TypeOK, Request
<1>4. ASSUME Loginout PROVE TypeOK'
  BY <1>4, SendTypes DEF Loginout, TypeOK, Request
<1>5. ASSUME Exit PROVE TypeOK'
  BY <1>5, EndTypes DEF Exit
<1>6. QED  BY <1>1, <1>2, <1>3, <1>4, <1>5 DEF User

LEMMA ThreadsTypes == ASSUME TypeOK, Threads PROVE TypeOK'
<1>1. ASSUME Dies \/ MainDies PROVE TypeOK'
  BY <1>1, EndTypes DEF Dies, MainDies
<1>2. ASSUME LoginAccepted PROVE TypeOK'
  <2>1. toClient' \in Seq(Document)
    BY <1>2, ReceiveTypes DEF LoginAccepted
  <2>2. QED  BY <1>2, <2>1 DEF LoginAccepted, TypeOK, serverVars, mapVars
<1>3. ASSUME BackToMenu PROVE TypeOK'
  <2>1. toClient' \in Seq(Document)
    BY <1>3, ReceiveTypes DEF BackToMenu
  <2>2. QED  BY <1>3, <2>1 DEF BackToMenu, TypeOK, serverVars, mapVars
<1>4. ASSUME NEW r \in Readers, ReaderPrints(r) PROVE TypeOK'
  <2>1. toClient' \in Seq(Document)
    BY <1>4, ReceiveTypes DEF ReaderPrints
  <2>2. QED  BY <1>4, <2>1 DEF ReaderPrints, TypeOK, clientVars, serverVars, mapVars
<1>5. ASSUME NEW r \in Readers, ReaderOut(r) PROVE TypeOK'
  <2>1. toClient' \in Seq(Document)
    BY <1>5, ReceiveTypes DEF ReaderOut
  <2>2. QED  BY <1>5, <2>1 DEF ReaderOut, TypeOK, serverVars, mapVars
<1>6. ASSUME NEW r \in Readers, ClearUser(r) \/ ClearLists(r) PROVE TypeOK'
  BY <1>6 DEF ClearUser, ClearLists, TypeOK, serverVars, mapVars
<1>7. ASSUME RecvFails PROVE TypeOK'
  BY <1>7 DEF RecvFails, TypeOK, serverVars, mapVars
<1>8. QED  BY <1>1, <1>2, <1>3, <1>4, <1>5, <1>6, <1>7 DEF Threads

LEMMA AnswerTypes ==
  ASSUME TypeOK, NEW docs \in Seq(Document), Answer(docs)
  PROVE  toClient' \in Seq(Document)
BY DEF TypeOK, Answer

LEMMA HeadRequest ==
  ASSUME TypeOK, NEW op, NEW u, TakeRequest(op, u)
  PROVE  /\ [op |-> op, user |-> u] \in Request
         /\ Len(toServer) \in Nat /\ Len(toServer) > 0
         /\ toServer[1] = [op |-> op, user |-> u]
<1>1. toServer \in Seq(Request) /\ toServer # <<>> /\ Head(toServer) = [op |-> op, user |-> u]
  BY DEF TypeOK, TakeRequest
<1>2. Head(toServer) \in Request /\ Len(toServer) \in Nat /\ Len(toServer) > 0
      /\ Head(toServer) = toServer[1]
  BY <1>1
<1>3. QED  BY <1>1, <1>2

LEMMA RequestTypes ==
  ASSUME TypeOK, NEW op, NEW u, TakeRequest(op, u), toClient' \in Seq(Document),
         session' \subseteq Users, entering' \in Users \cup {NoUser},
         other' \in [Users -> {"out", "in", "owner"}], ousted' \in BOOLEAN
  PROVE  TypeOK'
<1>1. toServer' \in Seq(Request)
  BY Rest DEF TypeOK, TakeRequest
<1>2. QED
  BY <1>1 DEF TypeOK, TakeRequest, clientVars

LEMMA HandlersTypes == ASSUME TypeOK, Handlers PROVE TypeOK'
<1>1. \A kind \in Answers \cup {"notice", "push", "newline"}, u \in Users \cup {NoUser} :
        <<Doc(kind, u)>> \in Seq(Document)
  BY DocTypes
<1>2. ASSUME NEW u \in Users \cup {NoUser}, LoginInsert(u) PROVE TypeOK'
  <2>1. [op |-> "login", user |-> u] \in Request
    BY <1>2, HeadRequest DEF LoginInsert
  <2>2. u \in Users
    BY <2>1 DEF Request
  <2>3. session' \subseteq Users /\ ousted' \in BOOLEAN
    BY <1>2, <2>2 DEF LoginInsert, TypeOK
  <2>4. QED  BY <1>2, <2>2, <2>3, RequestTypes DEF LoginInsert, TypeOK
<1>3. ASSUME NEW u \in Users \cup {NoUser}, LoginRefuse(u) PROVE TypeOK'
  <2>1. <<Doc("login1", NoUser)>> \in Seq(Document)
    BY <1>1 DEF Answers, Refused
  <2>2. <<Doc("login2", NoUser), Doc("newline", NoUser)>> \in Seq(Document)
    <3>1. Doc("login2", NoUser) \in Document /\ Doc("newline", NoUser) \in Document
      BY DocTypes DEF Answers, Refused
    <3>2. QED  BY <3>1
  <2>3. toClient' \in Seq(Document)
    BY <1>3, <2>1, <2>2, AnswerTypes DEF LoginRefuse
  <2>4. QED  BY <1>3, <2>3, RequestTypes DEF LoginRefuse, TypeOK, mapVars
<1>4. ASSUME NEW u \in Users \cup {NoUser}, Chat(u) PROVE TypeOK'
  <2>1. <<>> \in Seq(Document)
    OBVIOUS
  <2>2. toClient' \in Seq(Document)
    BY <1>1, <1>4, <2>1, AnswerTypes DEF Chat
  <2>3. QED  BY <1>4, <2>2, RequestTypes DEF Chat, TypeOK, mapVars
<1>5. ASSUME NEW u \in Users \cup {NoUser}, Logout(u) PROVE TypeOK'
  <2>1. <<Doc(IF HasEntry(u) THEN "out0" ELSE "out1", u)>> \in Seq(Document)
    BY <1>1 DEF Answers, Accepted, Refused
  <2>2. toClient' \in Seq(Document)
    BY <1>5, <2>1, AnswerTypes DEF Logout
  <2>3. other' \in [Users -> {"out", "in", "owner"}]
    BY <1>5 DEF Logout, TypeOK
  <2>4. QED  BY <1>5, <2>2, <2>3, RequestTypes DEF Logout, TypeOK
<1>6. ASSUME LoginAnswer PROVE TypeOK'
  <2>1. <<Doc("login0", entering)>> \in Seq(Document)
    BY <1>1 DEF Answers, Accepted, TypeOK
  <2>2. toClient' \in Seq(Document)
    BY <1>6, <2>1, AnswerTypes DEF LoginAnswer
  <2>3. QED  BY <1>6, <2>2 DEF LoginAnswer, TypeOK, clientVars
<1>7. ASSUME Registration PROVE TypeOK'
  <2>1. \A kind \in {"reg0", "reg1"} : <<Doc(kind, NoUser)>> \in Seq(Document)
    BY <1>1 DEF Answers, Accepted, Refused
  <2>2. toClient' \in Seq(Document)
    BY <1>7, <2>1, AnswerTypes DEF Registration
  <2>3. QED  BY <1>7, <2>2, RequestTypes DEF Registration, TypeOK, mapVars
<1>8. ASSUME Close PROVE TypeOK'
  BY <1>8 DEF Close, TypeOK, clientVars, mapVars
<1>9. QED  BY <1>2, <1>3, <1>4, <1>5, <1>6, <1>7, <1>8 DEF Handlers

LEMMA TypeStep == ASSUME TypeOK, [Next]_vars PROVE TypeOK'
<1>1. ASSUME Push PROVE TypeOK'
  <2>1. <<Doc("push", NoUser)>> \in Seq(Document)
    BY DocTypes
  <2>2. toClient' \in Seq(Document)
    BY <1>1, <2>1, AnswerTypes DEF Push
  <2>3. QED  BY <1>1, <2>2 DEF Push, TypeOK, clientVars, serverVars, mapVars
<1>2. ASSUME ServerEnds PROVE TypeOK'
  BY <1>2 DEF ServerEnds, TypeOK, clientVars
<1>3. ASSUME UNCHANGED vars PROVE TypeOK'
  BY <1>3 DEF TypeOK, vars, clientVars, serverVars, mapVars
<1>4. ASSUME NEW u \in Users, OtherIn(u) \/ OtherOut(u) PROVE TypeOK'
  BY <1>4 DEF OtherIn, OtherOut, TypeOK, clientVars
<1>5. QED
  BY <1>1, <1>2, <1>3, <1>4, UserTypes, ThreadsTypes, HandlersTypes DEF Next, OtherClients

-----------------------------------------------------------------------------
(*                      one reader                                         *)

(* Only a login that is accepted starts a reader, and the user makes none   *)
(* while another reader is there.                                           *)
LEMMA ThreadsStep ==
  ASSUME TypeOK, ThreadsInv, Patient, [Next]_vars
  PROVE  ThreadsInv'
<1> USE DEF ThreadsInv, Quiet, MainWaits, TypeOK
<1>1. CASE User
  <2>1. ASSUME NEW u \in Users, Login(u) PROVE ThreadsInv'
    BY <2>1 DEF Login, SendRequest
  <2>2. ASSUME Register PROVE ThreadsInv'
    BY <2>2 DEF Register, SendRequest
  <2>3. ASSUME Command PROVE ThreadsInv'
    BY <2>3 DEF Command, SendRequest
  <2>4. ASSUME Loginout PROVE ThreadsInv'
    BY <2>4 DEF Loginout, SendRequest
  <2>5. ASSUME Exit PROVE ThreadsInv'
    BY <2>5 DEF Exit, EndProcess
  <2>6. QED  BY <1>1, <2>1, <2>2, <2>3, <2>4, <2>5 DEF User
<1>2. CASE Threads
  <2>1. ASSUME Dies \/ MainDies PROVE ThreadsInv'
    BY <2>1 DEF Dies, MainDies, EndProcess
  <2>2. ASSUME LoginAccepted PROVE ThreadsInv'
    BY <2>2 DEF LoginAccepted
  <2>3. ASSUME BackToMenu PROVE ThreadsInv'
    BY <2>3 DEF BackToMenu
  <2>4. ASSUME NEW r \in Readers, ReaderPrints(r) PROVE ThreadsInv'
    BY <2>4 DEF ReaderPrints, clientVars
  <2>5. ASSUME NEW r \in Readers, ReaderOut(r) \/ ClearUser(r) \/ ClearLists(r) PROVE ThreadsInv'
    BY <2>5 DEF ReaderOut, ClearUser, ClearLists
  <2>6. ASSUME RecvFails PROVE ThreadsInv'
    BY <2>6 DEF RecvFails
  <2>7. QED  BY <1>2, <2>1, <2>2, <2>3, <2>4, <2>5, <2>6 DEF Threads
<1>3. CASE Handlers \/ OtherClients \/ Push \/ ServerEnds \/ UNCHANGED vars
  <2>1. UNCHANGED <<main, reader>>
    BY <1>3 DEF Handlers, LoginInsert, LoginRefuse, Chat, Logout, LoginAnswer, Registration,
                Close, TakeRequest, OtherClients, OtherIn, OtherOut, Push, ServerEnds, vars,
                clientVars
  <2>2. QED  BY <2>1
<1>4. QED  BY <1>1, <1>2, <1>3 DEF Next

LEMMA Starts == ASSUME Init PROVE TypeOK /\ ThreadsInv
<1>1. <<>> \in Seq(Request) /\ <<>> \in Seq(Document)
  OBVIOUS
<1>2. 0 \in 0..MaxRequests
  BY ClientOK
<1>3. QED
  BY <1>1, <1>2 DEF Init, TypeOK, ThreadsInv, Quiet, MainWaits

(* TypeOK of ChatClient: both processes keep to the values declared.        *)
THEOREM ClientTypeCorrect == Spec => []TypeOK
<1>1. Init => TypeOK
  BY Starts
<1>2. TypeOK /\ [Next]_vars => TypeOK'
  BY TypeStep
<1>3. QED
  BY <1>1, <1>2, PTL DEF Spec

-----------------------------------------------------------------------------
(*                      what is under way                                  *)

(* A read takes documents from the front and leaves the others as they are. *)
LEMMA Taken ==
  ASSUME TypeOK, NEW k \in Reads, Take(k)
  PROVE  /\ k \in 1..Len(toClient) /\ Len(toClient) \in Nat
         /\ Len(toClient') = Len(toClient) - k
         /\ \A i \in 1..Len(toClient') :
              toClient'[i] = toClient[i + k] /\ i + k \in 1..Len(toClient)
<1>1. k \in 1..Len(toClient) /\ toClient \in Seq(Document) /\ Len(toClient) \in Nat
  BY DEF TypeOK, Reads
<1>2. toClient' = SubSeq(toClient, k + 1, Len(toClient))
  BY DEF Take
<1>3. /\ Len(toClient') = Len(toClient) - k
      /\ \A i \in 1..(Len(toClient) - k) : toClient'[i] = toClient[i + k]
  BY <1>1, <1>2, Rest
<1>4. QED  BY <1>1, <1>3

(* The document read is one of those under way, and no line end. *)
LEMMA ReceivedOne ==
  ASSUME TypeOK, NEW d, Receive(d)
  PROVE  \E k \in 1..Len(toClient), n \in 1..Len(toClient) :
           /\ n <= k /\ toClient[n] = d /\ d.kind # "newline"
           /\ \A j \in 1..k : j # n => toClient[j].kind = "newline"
           /\ Len(toClient) \in Nat /\ Len(toClient') = Len(toClient) - k
           /\ \A i \in 1..Len(toClient') :
                toClient'[i] = toClient[i + k] /\ i + k \in 1..Len(toClient)
<1>1. PICK k \in Reads : Parses(k, d) /\ Take(k)
  BY DEF Receive
<1>2. PICK n \in 1..k : d = toClient[n] /\ \A j \in 1..k : toClient[j].kind = "newline" <=> j # n
  BY <1>1 DEF Parses
<1>3. k \in 1..Len(toClient) /\ Len(toClient) \in Nat
  BY <1>1, Taken
<1>4. n \in 1..Len(toClient) /\ n <= k
  BY <1>2, <1>3
<1>5. /\ Len(toClient') = Len(toClient) - k
      /\ \A i \in 1..Len(toClient') :
           toClient'[i] = toClient[i + k] /\ i + k \in 1..Len(toClient)
  BY <1>1, Taken
<1>6. d.kind # "newline" /\ \A j \in 1..k : j # n => toClient[j].kind = "newline"
  BY <1>2
<1>7. QED  BY <1>2, <1>3, <1>4, <1>5, <1>6

LEMMA OnlyTaken ==
  ASSUME TypeOK, NEW d, Receive(d), NEW kinds, Only(kinds)
  PROVE  /\ d.kind \in kinds \cup {"push"}
         /\ \A i \in 1..Len(toClient') : toClient'[i].kind \in kinds \cup {"push", "newline"}
<1>1. PICK k, n \in 1..Len(toClient) :
        /\ toClient[n] = d /\ d.kind # "newline"
        /\ \A i \in 1..Len(toClient') :
             toClient'[i] = toClient[i + k] /\ i + k \in 1..Len(toClient)
  BY ReceivedOne
<1>2. QED  BY <1>1 DEF Only

LEMMA AnswerTaken ==
  ASSUME TypeOK, NEW d, Receive(d), NEW kinds, NEW u, OneAnswer(kinds, u), d.kind # "push"
  PROVE  /\ d.kind \in kinds /\ d.user = u
         /\ \A i \in 1..Len(toClient') : toClient'[i].kind \in {"push", "newline"}
<1>1. PICK k, n \in 1..Len(toClient) :
        /\ n <= k /\ toClient[n] = d /\ d.kind # "newline"
        /\ Len(toClient) \in Nat /\ Len(toClient') = Len(toClient) - k
        /\ \A i \in 1..Len(toClient') :
             toClient'[i] = toClient[i + k] /\ i + k \in 1..Len(toClient)
  BY ReceivedOne
<1>2. PICK a \in 1..Len(toClient) :
        /\ toClient[a].kind \in kinds /\ toClient[a].user = u
        /\ \A j \in 1..Len(toClient) : j # a => toClient[j].kind \in {"push", "newline"}
  BY DEF OneAnswer
<1>3. n = a
  BY <1>1, <1>2
<1>4. ASSUME NEW i \in 1..Len(toClient') PROVE toClient'[i].kind \in {"push", "newline"}
  <2>1. i + k # a
    BY <1>1, <1>3
  <2>2. QED  BY <1>1, <1>2, <2>1
<1>5. QED  BY <1>1, <1>2, <1>3, <1>4

LEMMA LogoutTaken ==
  ASSUME TypeOK, NEW d, Receive(d), LogoutAnswer
  PROVE  IF d.kind = "out0"
         THEN \A i \in 1..Len(toClient') : toClient'[i].kind \in {"push", "newline"}
         ELSE LogoutAnswer'
<1>1. PICK k, n \in 1..Len(toClient) :
        /\ n <= k /\ toClient[n] = d /\ d.kind # "newline"
        /\ \A j \in 1..k : j # n => toClient[j].kind = "newline"
        /\ Len(toClient) \in Nat /\ Len(toClient') = Len(toClient) - k
        /\ \A i \in 1..Len(toClient') :
             toClient'[i] = toClient[i + k] /\ i + k \in 1..Len(toClient)
  BY ReceivedOne
<1>2. PICK a \in 1..Len(toClient) :
        /\ toClient[a].kind = "out0"
        /\ \A j \in 1..(a - 1) : toClient[j].kind \in {"notice", "push", "newline"}
        /\ \A j \in (a + 1)..Len(toClient) : toClient[j].kind \in {"push", "newline"}
  BY DEF LogoutAnswer
<1>3. CASE d.kind = "out0"
  <2>1. n = a
    BY <1>1, <1>2, <1>3
  <2>2. ASSUME NEW i \in 1..Len(toClient') PROVE toClient'[i].kind \in {"push", "newline"}
    <3>1. i + k \in (a + 1)..Len(toClient)
      BY <1>1, <2>1
    <3>2. QED  BY <1>1, <1>2, <3>1
  <2>3. QED  BY <1>3, <2>2
<1>4. CASE d.kind # "out0"
  <2>1. a > k
    <3>1. SUFFICES ASSUME a <= k PROVE FALSE
      BY <1>1
    <3>2. a # n /\ a \in 1..k
      BY <1>1, <1>2, <1>4, <3>1
    <3>3. QED  BY <1>1, <1>2, <3>2
  <2> DEFINE b == a - k
  <2>2. b \in 1..Len(toClient') /\ b + k = a
    BY <1>1, <2>1
  <2>3. toClient'[b].kind = "out0"
    BY <1>1, <1>2, <2>2
  <2>4. ASSUME NEW j \in 1..(b - 1) PROVE toClient'[j].kind \in {"notice", "push", "newline"}
    <3>1. j \in 1..Len(toClient') /\ j + k \in 1..(a - 1)
      BY <1>1, <2>2
    <3>2. QED  BY <1>1, <1>2, <3>1
  <2>5. ASSUME NEW j \in (b + 1)..Len(toClient') PROVE toClient'[j].kind \in {"push", "newline"}
    <3>1. j \in 1..Len(toClient') /\ j + k \in (a + 1)..Len(toClient)
      BY <1>1, <2>2
    <3>2. QED  BY <1>1, <1>2, <3>1
  <2> HIDE DEF b
  <2>6. LogoutAnswer'
    BY <2>2, <2>3, <2>4, <2>5 DEF LogoutAnswer
  <2>7. QED  BY <1>4, <2>6
<1>5. QED  BY <1>3, <1>4

(* The server takes a request from the front, and with it perhaps others.   *)
LEMMA RequestTaken ==
  ASSUME TypeOK, NEW op, NEW u, TakeRequest(op, u)
  PROVE  \E k \in 1..Len(toServer) :
           /\ Len(toServer) \in Nat /\ Len(toServer') = Len(toServer) - k
           /\ \A i \in 1..Len(toServer') :
                toServer'[i] = toServer[i + k] /\ i + k \in 2..Len(toServer)
<1>1. toServer \in Seq(Request) /\ Len(toServer) \in Nat
  BY DEF TypeOK
<1>2. PICK k \in 1..Len(toServer) : toServer' = SubSeq(toServer, k + 1, Len(toServer))
  BY DEF TakeRequest
<1>3. /\ Len(toServer') = Len(toServer) - k
      /\ \A i \in 1..(Len(toServer) - k) : toServer'[i] = toServer[i + k]
  BY <1>1, <1>2, Rest
<1>4. QED  BY <1>1, <1>3

LEMMA LastTaken ==
  ASSUME TypeOK, NEW op, NEW u, TakeRequest(op, u), Len(toServer) = 1
  PROVE  toServer' = <<>>
BY Last DEF TypeOK, TakeRequest

LEMMA Sent ==
  ASSUME TypeOK, NEW op, NEW u, [op |-> op, user |-> u] \in Request, SendRequest(op, u)
  PROVE  /\ Len(toServer) \in Nat /\ Len(toServer') = Len(toServer) + 1
         /\ \A i \in 1..Len(toServer) : toServer'[i] = toServer[i]
         /\ toServer'[Len(toServer) + 1] = [op |-> op, user |-> u]
         /\ toServer = <<>> => toServer' = <<[op |-> op, user |-> u]>>
<1>1. toServer \in Seq(Request) /\ toServer' = Append(toServer, [op |-> op, user |-> u])
  BY DEF TypeOK, SendRequest
<1> DEFINE x == [op |-> op, user |-> u]
<1>2. x \in Request
  OBVIOUS
<1> HIDE DEF x
<1>3. /\ Len(toServer) \in Nat /\ Len(Append(toServer, x)) = Len(toServer) + 1
      /\ \A i \in 1..Len(toServer) : Append(toServer, x)[i] = toServer[i]
      /\ Append(toServer, x)[Len(toServer) + 1] = x
  BY <1>1, <1>2
<1>4. toServer = <<>> => Append(toServer, x) = <<x>>
  BY <1>2
<1>5. QED  BY <1>1, <1>3, <1>4 DEF x

(* An answer of one document comes after what is under way. *)
LEMMA Answered ==
  ASSUME TypeOK, NEW d \in Document, Answer(<<d>>), main # "ended"
  PROVE  /\ Len(toClient) \in Nat /\ Len(toClient') = Len(toClient) + 1
         /\ \A i \in 1..Len(toClient) : toClient'[i] = toClient[i]
         /\ toClient'[Len(toClient) + 1] = d
BY Joined DEF TypeOK, Answer

LEMMA OnlyAnswered ==
  ASSUME TypeOK, NEW d \in Document, Answer(<<d>>), main # "ended", NEW kinds, Only(kinds)
  PROVE  /\ d.kind \in kinds \cup {"push", "newline"} => Only(kinds)'
         /\ \A K, u : d.kind \in K /\ d.user = u /\ kinds = {} => OneAnswer(K, u)'
<1>1. \A i \in 1..Len(toClient') : i # Len(toClient) + 1 =>
        toClient'[i].kind \in kinds \cup {"push", "newline"}
  BY Answered DEF Only
<1>2. /\ Len(toClient) + 1 \in 1..Len(toClient')
      /\ toClient'[Len(toClient) + 1] = d
  BY Answered
<1>3. QED  BY <1>1, <1>2 DEF Only, OneAnswer

-----------------------------------------------------------------------------
(*                      the phases                                         *)

Core == TypeOK /\ ThreadsInv /\ serverUp /\ Phases /\ ServerSide

(* Only the types of the two sequences bear on the steps below. *)
LEMMA NoRequests ==
  ASSUME toServer = <<>>
  PROVE  Len(toServer) = 0 /\ CommandsOnly(FALSE) /\ CommandsOnly(TRUE)
BY DEF CommandsOnly

(* The main thread asks for a login or a registration and waits. *)
LEMMA AskPhases ==
  ASSUME Core, Patient, NEW op \in {"login", "reg"}, NEW u \in Users \cup {NoUser},
         [op |-> op, user |-> u] \in Request, op = "reg" => u = NoUser,
         main = "menu", Quiet, SendRequest(op, u), main' = op
  PROVE  Phases' /\ ServerSide'
<1>1. ~ReaderWaits /\ Idle /\ Only({}) /\ lists = {} /\ ~closed
  BY DEF Core, Quiet, ReaderWaits, Phases, ServerSide
<1>2. toServer' = <<[op |-> op, user |-> u]>>
  BY <1>1, Sent DEF Core, Idle
<1>3. UNCHANGED <<session, entering, toClient, lists, closed>>
  BY DEF SendRequest, serverVars, mapVars
<1>4. /\ Len(toServer') = 1 /\ toServer'[1] = [op |-> op, user |-> u]
  BY <1>2
<1>5. Only({})' /\ session' = {} /\ entering' = NoUser /\ lists' = {} /\ ~closed'
  BY <1>1, <1>3 DEF Only, Idle
<1>6. op = "login" => u \in Users
  BY DEF Request
<1>7. Phases'
  <2>1. CASE op = "login"
    BY <1>2, <1>5, <1>6, <2>1 DEF Phases, InLogin, MainWaits
  <2>2. CASE op = "reg"
    BY <1>2, <1>5, <2>2 DEF Phases, InRegister, MainWaits
  <2>3. QED  BY <2>1, <2>2
<1>8. ServerSide'
  BY <1>4, <1>5, ClientOK DEF ServerSide
<1>9. QED  BY <1>7, <1>8

(* A command, or the loginout that leaves the chat menu, is one more        *)
(* request of the current user.                                             *)
LEMMA CommandPhases ==
  ASSUME Core, NEW op \in {"chat", "loginout"}, main = "chat", SendRequest(op, current),
         main' = IF op = "chat" THEN "chat" ELSE "menu"
  PROVE  Phases' /\ ServerSide'
<1>1. InChat /\ ~closed /\ Owns({current}) /\ entering = NoUser
  BY DEF Core, Phases, ServerSide, InChat
<1>2. /\ Len(toServer) \in Nat /\ Len(toServer') = Len(toServer) + 1
      /\ \A i \in 1..Len(toServer) : toServer'[i] = toServer[i]
      /\ toServer'[Len(toServer) + 1] = [op |-> op, user |-> current]
  BY Sent DEF Core, TypeOK, Request
<1>3. UNCHANGED <<session, entering, ousted, toClient, lists, closed, reader, current>>
  BY DEF SendRequest, serverVars, mapVars
<1>4. \A i \in 1..Len(toServer) : toServer[i].user = current /\ toServer[i].op = "chat"
  BY <1>1 DEF InChat, CommandsOnly
<1>5. ASSUME NEW i \in 1..Len(toServer')
      PROVE  /\ toServer'[i].user = current
             /\ i = Len(toServer') => toServer'[i].op = op
             /\ i # Len(toServer') => toServer'[i].op = "chat"
  BY <1>2, <1>4
<1>6. ServerSide'
  <2>1. \A i \in 1..Len(toServer') : toServer'[i].op # "login"
    BY <1>5
  <2>2. entering' = NoUser /\ ~closed'
    BY <1>1, <1>3
  <2>3. session = {} \/ \E u \in Users : session = {u}
    BY DEF Core, ServerSide
  <2>4. QED  BY <1>3, <2>1, <2>2, <2>3 DEF ServerSide
<1>7. Only({"notice"})' /\ ReaderWaits' /\ lists' = {current'} /\ Owns({current})'
      /\ entering' = NoUser
  BY <1>1, <1>3 DEF InChat, Only, ReaderWaits, Owns
<1>8. CASE op = "chat"
  <2>1. CommandsOnly(FALSE)'
    BY <1>3, <1>5, <1>8 DEF CommandsOnly
  <2>2. QED  BY <1>6, <1>7, <1>8, <2>1 DEF Phases, InChat, MainWaits
<1>9. CASE op = "loginout"
  <2>1. CommandsOnly(TRUE)'
    BY <1>3, <1>5, <1>9 DEF CommandsOnly
  <2>2. ~Quiet'
    BY <1>7 DEF Quiet, ReaderWaits
  <2>3. QED  BY <1>6, <1>7, <1>9, <2>1, <2>2 DEF Phases, InLogout, MainWaits
<1>10. QED  BY <1>8, <1>9

(* A process that ends leaves the server as it is. *)
LEMMA EndPhases ==
  ASSUME Core, EndProcess
  PROVE  Phases' /\ ServerSide'
<1>1. UNCHANGED <<toServer, session, entering, ousted, closed>> /\ main' = "ended"
  BY DEF EndProcess, serverVars, mapVars
<1>2. ServerSide'
  BY <1>1 DEF Core, ServerSide, Idle, Owns
<1>3. Phases'
  BY <1>1 DEF Phases, MainWaits
<1>4. QED  BY <1>2, <1>3

LEMMA UserPhases ==
  ASSUME Core, Patient, User
  PROVE  Phases' /\ ServerSide'
<1>1. ASSUME NEW u \in Users, Login(u) PROVE Phases' /\ ServerSide'
  BY <1>1, AskPhases DEF Login, Request
<1>2. ASSUME Register PROVE Phases' /\ ServerSide'
  BY <1>2, AskPhases DEF Register, Request
<1>3. ASSUME Command PROVE Phases' /\ ServerSide'
  BY <1>3, CommandPhases DEF Command
<1>4. ASSUME Loginout PROVE Phases' /\ ServerSide'
  BY <1>4, CommandPhases DEF Loginout
<1>5. ASSUME Exit PROVE Phases' /\ ServerSide'
  BY <1>5, EndPhases DEF Exit
<1>6. QED  BY <1>1, <1>2, <1>3, <1>4, <1>5 DEF User

(* A step of a thread of the client that has no part in the requests.       *)
LEMMA ServerSideKept ==
  ASSUME Core, UNCHANGED <<toServer, session, entering, ousted, closed>>,
         ~closed \/ main' = main
  PROVE  ServerSide'
BY DEF Core, ServerSide, Idle, Owns

LEMMA NotClosed == ASSUME Core, main # "ended" PROVE ~closed
BY DEF Core, ServerSide

(* The acceptance of a login finds the server with that user's entry, and   *)
(* nothing but messages under way.                                          *)
LEMMA AcceptedPhases ==
  ASSUME Core, LoginAccepted
  PROVE  Phases' /\ ServerSide'
<1>1. PICK u \in Users, r \in Readers :
        /\ Receive([kind |-> "login0", user |-> u])
        /\ reader' = [reader EXCEPT ![r] = "recv"]
        /\ current' = u /\ lists' = lists \cup {u}
  BY DEF LoginAccepted
<1> DEFINE d == [kind |-> "login0", user |-> u]
<1>2. d.kind = "login0" /\ d.user = u
  OBVIOUS
<1> HIDE DEF d
<1>3. main = "login" /\ main' = "chat" /\ UNCHANGED <<toServer, session, entering, ousted, closed>>
  BY DEF LoginAccepted, serverVars, mapVars
<1>4. InLogin /\ lists = {} /\ TypeOK
  BY <1>3 DEF Core, Phases, MainWaits
<1>5. Receive(d)
  BY <1>1 DEF d
<1>6. ~Only({})
  BY <1>2, <1>4, <1>5, OnlyTaken
<1>7. ~OneAnswer({"login1", "login2"}, NoUser)
  BY <1>2, <1>4, <1>5, AnswerTaken
<1>8. PICK v \in Users : /\ Owns({v}) /\ OneAnswer({"login0"}, v)
                         /\ toServer = <<>> /\ entering = NoUser
  BY <1>4, <1>6, <1>7 DEF InLogin
<1>9. v = u /\ \A i \in 1..Len(toClient') : toClient'[i].kind \in {"push", "newline"}
  BY <1>2, <1>4, <1>5, <1>8, AnswerTaken
<1>10. Only({"notice"})'
  BY <1>9 DEF Only
<1>11. ReaderWaits'
  BY <1>1, <1>4 DEF ReaderWaits, TypeOK
<1>12. CommandsOnly(FALSE)'
  BY <1>3, <1>8 DEF CommandsOnly
<1>13. Phases'
  BY <1>1, <1>3, <1>4, <1>8, <1>9, <1>10, <1>11, <1>12 DEF Phases, InChat, MainWaits, Owns
<1>14. QED  BY <1>3, <1>13, ServerSideKept, NotClosed

LEMMA BackPhases ==
  ASSUME Core, BackToMenu
  PROVE  Phases' /\ ServerSide'
<1>1. PICK d \in Document :
        /\ Receive(d)
        /\ \/ main = "login" /\ d.kind \in Refused \cup {"notice"}
           \/ main = "reg" /\ d.kind \in Answers \cup {"notice"}
  BY DEF BackToMenu
<1>2. /\ main' = "menu" /\ MainWaits
      /\ UNCHANGED <<toServer, session, entering, ousted, closed, reader, lists>>
  BY <1>1 DEF BackToMenu, serverVars, mapVars, MainWaits
<1>3. Quiet /\ lists = {} /\ TypeOK /\ ~closed
  BY <1>2, NotClosed DEF Core, Phases, ThreadsInv, MainWaits
<1>4. ~ReaderWaits'
  BY <1>2, <1>3 DEF Quiet, ReaderWaits
<1>5. d.kind \notin {"push", "newline"} /\ ~Only({})
  BY <1>1, <1>3, OnlyTaken DEF Answers, Accepted, Refused
<1>6. Idle /\ \A i \in 1..Len(toClient') : toClient'[i].kind \in {"push", "newline"}
  <2>1. CASE main = "login"
    <3>1. d.kind # "login0"
      BY <1>1, <2>1 DEF Refused
    <3>2. \A u : ~OneAnswer({"login0"}, u)
      BY <1>1, <1>3, <1>5, <3>1, AnswerTaken
    <3>3. Idle /\ OneAnswer({"login1", "login2"}, NoUser)
      BY <1>5, <2>1, <3>2 DEF Core, Phases, InLogin
    <3>4. QED  BY <1>1, <1>3, <1>5, <3>3, AnswerTaken
  <2>2. CASE main = "reg"
    <3>1. Idle /\ OneAnswer({"reg0", "reg1"}, NoUser)
      BY <1>5, <2>2 DEF Core, Phases, InRegister
    <3>2. QED  BY <1>1, <1>3, <1>5, <3>1, AnswerTaken
  <2>3. QED  BY <1>1, <2>1, <2>2
<1>7. Idle' /\ Only({})'
  BY <1>2, <1>6 DEF Idle, Only
<1>8. Phases'
  BY <1>2, <1>3, <1>4, <1>7 DEF Phases, MainWaits
<1>9. QED  BY <1>2, <1>3, <1>8, ServerSideKept

(* While a reader is there the main thread is in a menu that does not wait. *)
LEMMA ReaderThere ==
  ASSUME Core, NEW r \in Readers, reader[r] # "free"
  PROVE  /\ main = "menu" \/ (main = "chat" /\ InChat)
         /\ ~MainWaits /\ ~closed /\ TypeOK
         /\ \A t \in Readers : t # r => reader[t] = "free"
BY DEF Core, TypeOK, ThreadsInv, Quiet, MainWaits, Phases, ServerSide

LEMMA PrintsPhases ==
  ASSUME Core, NEW r \in Readers, ReaderPrints(r)
  PROVE  Phases' /\ ServerSide'
<1>1. PICK d \in Document : d.kind # "out0" /\ Receive(d)
  BY DEF ReaderPrints
<1>2. UNCHANGED <<main, toServer, session, entering, ousted, closed, reader, lists, current>>
  BY DEF ReaderPrints, serverVars, mapVars, clientVars
<1>3. reader[r] = "recv" /\ ReaderWaits /\ ~Quiet
  BY DEF ReaderPrints, ReaderWaits, Quiet
<1>4. /\ main = "menu" \/ (main = "chat" /\ InChat)
      /\ ~MainWaits /\ ~closed /\ TypeOK
  BY <1>3, ReaderThere
<1>5. ReaderWaits' /\ ~Quiet' /\ ~MainWaits'
  BY <1>2, <1>3, <1>4 DEF ReaderWaits, Quiet, MainWaits
<1>6. /\ Only({"notice"}) => Only({"notice"})'
      /\ Only({"notice", "out1"}) => Only({"notice", "out1"})'
  BY <1>1, <1>4, OnlyTaken DEF Only
<1>7. LogoutAnswer => LogoutAnswer'
  BY <1>1, <1>4, LogoutTaken
<1>8. CASE main = "chat"
  <2>1. InChat'
    BY <1>2, <1>4, <1>5, <1>6, <1>8 DEF InChat, CommandsOnly, Owns
  <2>2. QED  BY <1>2, <1>4, <1>5, <1>8, <2>1, ServerSideKept DEF Phases
<1>9. CASE main = "menu"
  <2>1. InLogout
    BY <1>3, <1>9 DEF Core, Phases
  <2>2. InLogout'
    BY <1>2, <1>6, <1>7, <2>1 DEF InLogout, Idle, CommandsOnly, Owns
  <2>3. QED  BY <1>2, <1>4, <1>5, <1>9, <2>2, ServerSideKept DEF Phases
<1>10. QED  BY <1>4, <1>8, <1>9

(* The answer to loginout comes when the server is done with it, and after  *)
(* everything else that has an answer.                                      *)
LEMMA OutPhases ==
  ASSUME Core, NEW r \in Readers, ReaderOut(r)
  PROVE  Phases' /\ ServerSide'
<1>1. PICK u \in Users \cup {NoUser} : Receive([kind |-> "out0", user |-> u])
  BY DEF ReaderOut
<1> DEFINE d == [kind |-> "out0", user |-> u]
<1>2. d.kind = "out0" /\ Receive(d)
  BY <1>1
<1> HIDE DEF d
<1>3. /\ UNCHANGED <<main, toServer, session, entering, ousted, closed, lists>>
      /\ reader[r] = "recv" /\ reader' = [reader EXCEPT ![r] = "clearUser"]
  BY DEF ReaderOut, serverVars, mapVars
<1>4. /\ main = "menu" \/ (main = "chat" /\ InChat)
      /\ ~MainWaits /\ ~closed /\ TypeOK
      /\ \A t \in Readers : t # r => reader[t] = "free"
  BY <1>3, ReaderThere
<1>5. ~Only({"notice"}) /\ ~Only({"notice", "out1"})
  BY <1>2, <1>4, OnlyTaken
<1>6. main = "menu"
  BY <1>4, <1>5 DEF InChat
<1>7. ReaderWaits
  BY <1>3 DEF ReaderWaits
<1>8. Idle /\ LogoutAnswer
  BY <1>5, <1>6, <1>7 DEF Core, Phases, InLogout
<1>9. \A i \in 1..Len(toClient') : toClient'[i].kind \in {"push", "newline"}
  BY <1>2, <1>4, <1>8, LogoutTaken
<1>10. Idle' /\ Only({})'
  BY <1>3, <1>8, <1>9 DEF Idle, Only
<1>11. ~ReaderWaits' /\ ~Quiet' /\ ~MainWaits'
  BY <1>3, <1>4 DEF ReaderWaits, Quiet, TypeOK, MainWaits
<1>12. Phases'
  BY <1>3, <1>6, <1>10, <1>11 DEF Phases
<1>13. QED  BY <1>3, <1>4, <1>12, ServerSideKept

LEMMA ClearPhases ==
  ASSUME Core, NEW r \in Readers, ClearUser(r) \/ ClearLists(r)
  PROVE  Phases' /\ ServerSide'
<1>1. /\ UNCHANGED <<main, toServer, toClient, session, entering, ousted, closed>>
      /\ reader[r] \in {"clearUser", "clearLists"}
      /\ reader' = [reader EXCEPT ![r] = IF reader[r] = "clearUser" THEN "clearLists" ELSE "free"]
      /\ reader[r] = "clearLists" => lists' = {}
  BY DEF ClearUser, ClearLists, serverVars, mapVars
<1>2. /\ main = "menu" \/ (main = "chat" /\ InChat)
      /\ ~MainWaits /\ ~closed /\ TypeOK
      /\ \A t \in Readers : t # r => reader[t] = "free"
  BY <1>1, ReaderThere
<1>3. ~ReaderWaits
  BY <1>1, <1>2 DEF ReaderWaits
<1>4. main = "menu" /\ Idle /\ Only({})
  BY <1>2, <1>3 DEF InChat, Core, Phases
<1>5. Idle' /\ Only({})'
  BY <1>1, <1>4 DEF Idle, Only
<1>6. ~ReaderWaits' /\ ~MainWaits'
  BY <1>1, <1>2 DEF ReaderWaits, TypeOK, MainWaits
<1>7. Quiet' => lists' = {}
  BY <1>1, <1>2 DEF Quiet, TypeOK
<1>8. Phases'
  BY <1>1, <1>4, <1>5, <1>6, <1>7 DEF Phases
<1>9. QED  BY <1>1, <1>2, <1>8, ServerSideKept

LEMMA ThreadsPhases ==
  ASSUME Core, Threads
  PROVE  Phases' /\ ServerSide'
<1>1. ASSUME Dies \/ MainDies PROVE Phases' /\ ServerSide'
  BY <1>1, EndPhases DEF Dies, MainDies
<1>2. ~RecvFails
  BY DEF RecvFails, Core
<1>3. QED
  BY <1>1, <1>2, AcceptedPhases, BackPhases, PrintsPhases, OutPhases, ClearPhases DEF Threads

(* The phase the client is in when the server takes a request of it.        *)
LEMMA ChatPhase ==
  ASSUME Core, NEW op \in {"chat", "loginout"}, NEW u, TakeRequest(op, u), main # "ended"
  PROVE  /\ Owns({current}) /\ entering = NoUser /\ Only({"notice"}) /\ u = current
         /\ \/ main = "chat" /\ InChat /\ op = "chat"
            \/ main = "menu" /\ ReaderWaits /\ CommandsOnly(TRUE)
<1>1. Len(toServer) > 0 /\ toServer[1] = [op |-> op, user |-> u] /\ Len(toServer) \in Nat
  BY HeadRequest DEF Core
<1>2. toServer # <<>> /\ 1 \in 1..Len(toServer) /\ toServer[1].op = op /\ toServer[1].user = u
  BY <1>1
<1>3. main # "login" /\ main # "reg"
  <2>1. \A v \in Users : toServer # <<[op |-> "login", user |-> v]>>
    BY <1>2
  <2>2. toServer # <<[op |-> "reg", user |-> NoUser]>>
    BY <1>2
  <2>3. QED  BY <1>2, <2>1, <2>2 DEF Core, Phases, InLogin, InRegister, Idle
<1>4. main = "menu" => ReaderWaits
  BY <1>2 DEF Core, Phases, Idle
<1>5. main = "chat" \/ main = "menu"
  BY <1>3 DEF Core, TypeOK
<1>6. CASE main = "chat"
  BY <1>2, <1>6 DEF Core, Phases, InChat, CommandsOnly
<1>7. CASE main = "menu"
  BY <1>2, <1>4, <1>7 DEF Core, Phases, InLogout, Idle, CommandsOnly
<1>8. QED  BY <1>5, <1>6, <1>7

(* No login is under way behind a request of another kind. *)
LEMMA RestSide ==
  ASSUME Core, NEW op, NEW u, TakeRequest(op, u)
  PROVE  /\ \A i \in 1..Len(toServer') : toServer'[i].op # "login"
         /\ op = "login" => toServer' = <<>> /\ session = {}
         /\ entering = NoUser /\ ~closed /\ closed' = closed
<1>1. Len(toServer) > 0 /\ toServer[1] = [op |-> op, user |-> u] /\ Len(toServer) \in Nat
  BY HeadRequest DEF Core
<1>2. \A i \in 1..Len(toServer) : toServer[i].op = "login" => Len(toServer) = 1 /\ session = {}
  BY DEF Core, ServerSide
<1>3. \A i \in 1..Len(toServer') : toServer'[i].op # "login"
  <2>1. TypeOK
    BY DEF Core
  <2>2. PICK k \in 1..Len(toServer) :
          \A i \in 1..Len(toServer') :
             toServer'[i] = toServer[i + k] /\ i + k \in 2..Len(toServer)
    BY <2>1, RequestTaken
  <2>3. \A j \in 2..Len(toServer) : toServer[j].op # "login"
    BY <1>1, <1>2
  <2>4. QED  BY <2>2, <2>3
<1>4. op = "login" => Len(toServer) = 1 /\ session = {}
  BY <1>1, <1>2
<1>5. op = "login" => toServer' = <<>>
  BY <1>4, LastTaken DEF Core
<1>6. entering = NoUser /\ closed' = closed /\ toServer # <<>>
  BY DEF TakeRequest
<1>7. ~closed
  BY <1>6 DEF Core, ServerSide, Idle
<1>8. QED  BY <1>3, <1>4, <1>5, <1>6, <1>7

LEMMA LoginPhase ==
  ASSUME Core, NEW u, TakeRequest("login", u), main # "ended"
  PROVE  main = "login" /\ Only({}) /\ lists = {}
<1>1. Len(toServer) > 0 /\ toServer[1] = [op |-> "login", user |-> u] /\ Len(toServer) \in Nat
  BY HeadRequest DEF Core
<1>2. toServer # <<>> /\ 1 \in 1..Len(toServer) /\ toServer[1].op = "login" /\ Len(toServer) = 1
      /\ session = {}
  BY <1>1 DEF Core, ServerSide
<1>3. main # "reg"
  <2>1. toServer # <<[op |-> "reg", user |-> NoUser]>>
    BY <1>2
  <2>2. QED  BY <1>2, <2>1 DEF Core, Phases, InRegister, Idle
<1>4. main # "chat"
  BY <1>2 DEF Core, Phases, InChat, CommandsOnly
<1>5. main # "menu"
  BY <1>2 DEF Core, Phases, InLogout, Idle, CommandsOnly
<1>6. main = "login"
  BY <1>3, <1>4, <1>5 DEF Core, TypeOK
<1>7. InLogin /\ lists = {}
  BY <1>6 DEF Core, Phases, MainWaits
<1>8. QED  BY <1>2, <1>6, <1>7 DEF InLogin, Idle

LEMMA InsertPhases ==
  ASSUME Core, NEW u \in Users \cup {NoUser}, LoginInsert(u)
  PROVE  Phases' /\ ServerSide'
<1>1. TakeRequest("login", u) /\ entering' = u /\ UNCHANGED <<main, reader, lists, toClient>>
      /\ (session' = session \cup {u} \/ (session' = session /\ ousted'))
  BY DEF LoginInsert, TakeRequest, clientVars
<1>2. toServer' = <<>> /\ session = {} /\ ~closed'
  BY <1>1, RestSide
<1>3. u \in Users
  <2>1. [op |-> "login", user |-> u] \in Request
    BY <1>1, HeadRequest DEF Core
  <2>2. QED  BY <2>1 DEF Request
<1>4. ServerSide'
  BY <1>1, <1>2, <1>3, ClientOK DEF ServerSide, Owns
<1>5. CASE main = "ended"
  BY <1>1, <1>4, <1>5 DEF Phases, MainWaits
<1>6. CASE main # "ended"
  <2>1. main = "login" /\ Only({}) /\ lists = {}
    BY <1>1, <1>6, LoginPhase
  <2>2. InLogin'
    BY <1>1, <1>2, <1>3, <2>1, ClientOK DEF InLogin, Only
  <2>3. QED  BY <1>1, <1>4, <2>1, <2>2 DEF Phases
<1>7. QED  BY <1>5, <1>6

LEMMA LoginAnswerPhases ==
  ASSUME Core, LoginAnswer
  PROVE  Phases' /\ ServerSide'
<1>1. /\ entering # NoUser /\ entering' = NoUser /\ Answer(<<Doc("login0", entering)>>)
      /\ UNCHANGED <<main, reader, current, lists, toServer, session, ousted, closed>>
  BY DEF LoginAnswer, clientVars
<1>2. Owns({entering}) /\ toServer = <<>> /\ ~closed /\ entering \in Users /\ TypeOK
  BY <1>1 DEF Core, ServerSide, Idle, TypeOK
<1>3. ServerSide'
  <2>1. session = {} \/ \E u \in Users : session = {u}
    BY DEF Core, ServerSide
  <2>2. QED  BY <1>1, <1>2, <2>1, NoRequests DEF ServerSide
<1>4. CASE main = "ended"
  BY <1>1, <1>3, <1>4 DEF Phases, MainWaits
<1>5. CASE main # "ended"
  <2>1. main = "login"
    BY <1>1, <1>2, <1>5 DEF Core, Phases, InChat, InLogout, InRegister, Idle, TypeOK
  <2>2. Only({}) /\ lists = {}
    BY <1>1, <2>1 DEF Core, Phases, InLogin, Idle, MainWaits
  <2>3. Doc("login0", entering) \in Document /\ Doc("login0", entering).kind = "login0"
        /\ Doc("login0", entering).user = entering
    BY <1>2 DEF Doc, Document, Answers, Accepted
  <2>4. \A v : v = entering => OneAnswer({"login0"}, v)'
    BY <1>1, <1>2, <1>5, <2>2, <2>3, OnlyAnswered
  <2>5. InLogin'
    BY <1>1, <1>2, <2>4 DEF InLogin, Owns
  <2>6. QED  BY <1>1, <1>3, <2>1, <2>2, <2>5 DEF Phases
<1>6. QED  BY <1>4, <1>5

(* The answers of a request that leaves the server's map as it is. *)
LEMMA SideKept ==
  ASSUME Core, NEW op, NEW u, TakeRequest(op, u), UNCHANGED <<session, entering>>
  PROVE  ServerSide'
<1>1. /\ \A i \in 1..Len(toServer') : toServer'[i].op # "login"
      /\ entering = NoUser /\ ~closed /\ closed' = closed
  BY RestSide
<1>2. session = {} \/ \E v \in Users : session = {v}
  BY DEF Core, ServerSide
<1>3. QED  BY <1>1, <1>2 DEF ServerSide

LEMMA RefusePhases ==
  ASSUME Core, NEW u \in Users \cup {NoUser}, LoginRefuse(u)
  PROVE  Phases' /\ ServerSide'
<1>1. TakeRequest("login", u) /\ UNCHANGED <<main, reader, lists, session, entering>>
  BY DEF LoginRefuse, TakeRequest, clientVars, mapVars
<1>2. toServer' = <<>> /\ session = {} /\ entering = NoUser
  BY <1>1, RestSide
<1>3. ServerSide'
  BY <1>1, SideKept
<1>4. CASE main = "ended"
  BY <1>1, <1>3, <1>4 DEF Phases, MainWaits
<1>5. CASE main # "ended"
  <2>1. main = "login" /\ Only({}) /\ lists = {} /\ TypeOK
    BY <1>1, <1>5, LoginPhase DEF Core
  <2>2. Idle'
    BY <1>1, <1>2 DEF Idle
  <2>3. CASE Answer(<<Doc("login1", NoUser)>>)
    <3>1. Doc("login1", NoUser) \in Document /\ Doc("login1", NoUser).user = NoUser
          /\ Doc("login1", NoUser).kind \in {"login1", "login2"}
      BY DEF Doc, Document, Answers, Refused
    <3>2. OneAnswer({"login1", "login2"}, NoUser)'
      BY <1>5, <2>1, <2>3, <3>1, OnlyAnswered
    <3>3. QED  BY <1>1, <1>3, <2>1, <2>2, <3>2 DEF Phases, InLogin
  <2>4. CASE Answer(<<Doc("login2", NoUser), Doc("newline", NoUser)>>)
    <3> DEFINE n == Len(toClient)
               d == Doc("login2", NoUser)
               e == Doc("newline", NoUser)
    <3>1. toClient \in Seq(Document) /\ n \in Nat /\ toClient' = toClient \o <<d, e>>
      BY <1>5, <2>1, <2>4 DEF TypeOK, Answer
    <3>2. d \in Document /\ e \in Document
      BY DEF Doc, Document, Answers, Refused
    <3> HIDE DEF d, e
    <3>3. /\ Len(toClient') = n + 2
          /\ \A i \in 1..n : toClient'[i] = toClient[i]
          /\ toClient'[n + 1] = d /\ toClient'[n + 2] = e
      BY <3>1, <3>2
    <3>4. d.kind = "login2" /\ d.user = NoUser /\ e.kind = "newline"
      BY DEF d, e, Doc
    <3>5. n + 1 \in 1..Len(toClient')
      BY <3>1, <3>3
    <3>6. ASSUME NEW j \in 1..Len(toClient'), j # n + 1
          PROVE  toClient'[j].kind \in {"push", "newline"}
      <4>1. j \in 1..n \/ j = n + 2
        BY <3>1, <3>3, <3>6
      <4>2. QED  BY <2>1, <3>3, <3>4, <4>1 DEF Only
    <3> HIDE DEF n
    <3>7. OneAnswer({"login1", "login2"}, NoUser)'
      BY <3>3, <3>4, <3>5, <3>6 DEF OneAnswer
    <3>8. QED  BY <1>1, <1>3, <2>1, <2>2, <3>7 DEF Phases, InLogin
  <2>5. QED  BY <2>3, <2>4 DEF LoginRefuse
<1>6. QED  BY <1>4, <1>5

LEMMA RegistrationPhases ==
  ASSUME Core, Registration
  PROVE  Phases' /\ ServerSide'
<1>1. TakeRequest("reg", NoUser) /\ UNCHANGED <<main, reader, lists, session, entering>>
  BY DEF Registration, TakeRequest, clientVars, mapVars
<1>2. ServerSide'
  BY <1>1, SideKept
<1>3. CASE main = "ended"
  BY <1>1, <1>2, <1>3 DEF Phases, MainWaits
<1>4. CASE main # "ended"
  <2>1. Len(toServer) > 0 /\ toServer[1] = [op |-> "reg", user |-> NoUser] /\ Len(toServer) \in Nat
    BY <1>1, HeadRequest DEF Core
  <2>2. toServer # <<>> /\ 1 \in 1..Len(toServer) /\ toServer[1].op = "reg"
    BY <2>1
  <2>3. main # "login"
    <3>1. \A v \in Users : toServer # <<[op |-> "login", user |-> v]>>
      BY <2>2
    <3>2. QED  BY <2>2, <3>1 DEF Core, Phases, InLogin, Idle
  <2>4. main = "reg"
    BY <1>4, <2>2, <2>3 DEF Core, TypeOK, Phases, InChat, InLogout, Idle, CommandsOnly
  <2>5. /\ toServer = <<[op |-> "reg", user |-> NoUser]>> /\ Only({}) /\ lists = {}
        /\ session = {} /\ entering = NoUser /\ TypeOK
    BY <2>2, <2>4 DEF Core, Phases, InRegister, Idle, MainWaits
  <2>6. Len(toServer) = 1
    BY <2>5
  <2>7. Idle'
    BY <1>1, <2>5, <2>6, LastTaken DEF Idle
  <2>8. PICK kind \in {"reg0", "reg1"} : Answer(<<Doc(kind, NoUser)>>)
    BY DEF Registration
  <2>9. Doc(kind, NoUser) \in Document /\ Doc(kind, NoUser).user = NoUser
        /\ Doc(kind, NoUser).kind \in {"reg0", "reg1"}
    BY DEF Doc, Document, Answers, Accepted, Refused
  <2>10. OneAnswer({"reg0", "reg1"}, NoUser)'
    BY <1>4, <2>5, <2>8, <2>9, OnlyAnswered
  <2>11. QED  BY <1>1, <1>2, <2>4, <2>5, <2>7, <2>10 DEF Phases, InRegister
<1>5. QED  BY <1>3, <1>4

(* What is left of a run of commands is one. *)
LEMMA RestCommands ==
  ASSUME Core, NEW op, NEW u, TakeRequest(op, u), NEW last \in BOOLEAN, CommandsOnly(last)
  PROVE  CommandsOnly(last)'
<1>1. PICK k \in 1..Len(toServer) :
         /\ Len(toServer) \in Nat /\ Len(toServer') = Len(toServer) - k
         /\ \A i \in 1..Len(toServer') :
              toServer'[i] = toServer[i + k] /\ i + k \in 2..Len(toServer)
  BY RequestTaken DEF Core
<1>2. current' = current
  BY DEF TakeRequest, clientVars
<1>3. ASSUME NEW i \in 1..Len(toServer')
      PROVE  /\ toServer'[i].user = current'
             /\ \/ toServer'[i].op = "chat"
                \/ last /\ i = Len(toServer') /\ toServer'[i].op = "loginout"
  <2>1. toServer'[i] = toServer[i + k] /\ i + k \in 1..Len(toServer)
    BY <1>1
  <2>2. i + k = Len(toServer) => i = Len(toServer')
    <3>1. i \in Nat /\ k \in Nat /\ Len(toServer) \in Nat /\ Len(toServer') = Len(toServer) - k
      BY <1>1
    <3>2. QED  BY <3>1
  <2>3. QED  BY <1>2, <2>1, <2>2 DEF CommandsOnly
<1>4. QED  BY <1>3 DEF CommandsOnly

LEMMA ServerChatPhases ==
  ASSUME Core, NEW u \in Users \cup {NoUser}, Chat(u)
  PROVE  Phases' /\ ServerSide'
<1>1. TakeRequest("chat", u) /\ UNCHANGED <<main, reader, lists, current, session, entering, ousted>>
  BY DEF Chat, TakeRequest, clientVars, mapVars
<1>2. ServerSide'
  BY <1>1, SideKept
<1>3. CASE main = "ended"
  BY <1>1, <1>2, <1>3 DEF Phases, MainWaits
<1>4. CASE main # "ended"
  <2>1. /\ Owns({current}) /\ entering = NoUser /\ Only({"notice"})
        /\ \/ main = "chat" /\ InChat
           \/ main = "menu" /\ ReaderWaits /\ CommandsOnly(TRUE)
    BY <1>1, <1>4, ChatPhase
  <2>2. Only({"notice"})'
    <3>1. CASE Answer(<<>>)
      <4>1. toClient' = toClient
        BY <1>4, <3>1 DEF Answer, Core, TypeOK
      <4>2. QED  BY <2>1, <4>1 DEF Only
    <3>2. CASE Answer(<<Doc("notice", NoUser)>>)
      <4>1. Doc("notice", NoUser) \in Document /\ Doc("notice", NoUser).kind = "notice"
        BY DEF Doc, Document
      <4>2. QED  BY <1>4, <2>1, <3>2, <4>1, OnlyAnswered DEF Core
    <3>3. QED  BY <3>1, <3>2 DEF Chat
  <2>3. CASE main = "chat" /\ InChat
    <3>1. CommandsOnly(FALSE)'
      BY <1>1, <2>3, RestCommands DEF InChat
    <3>2. InChat'
      BY <1>1, <2>2, <2>3, <3>1 DEF InChat, ReaderWaits, Owns
    <3>3. QED  BY <1>1, <1>2, <2>3, <3>2 DEF Phases, MainWaits
  <2>4. CASE main = "menu" /\ ReaderWaits /\ CommandsOnly(TRUE)
    <3>1. CommandsOnly(TRUE)'
      BY <1>1, <2>4, RestCommands
    <3>2. InLogout'
      BY <1>1, <2>1, <2>2, <3>1 DEF InLogout, Owns
    <3>3. ReaderWaits' /\ ~Quiet'
      BY <1>1, <2>4 DEF ReaderWaits, Quiet
    <3>4. QED  BY <1>1, <1>2, <2>4, <3>2, <3>3 DEF Phases, MainWaits
  <2>5. QED  BY <2>1, <2>3, <2>4
<1>5. QED  BY <1>3, <1>4

(* The server does what loginout asks when all that came before is done.    *)
LEMMA ServerLogoutPhases ==
  ASSUME Core, NEW u \in Users \cup {NoUser}, Logout(u)
  PROVE  Phases' /\ ServerSide'
<1>1. /\ TakeRequest("loginout", u)
      /\ UNCHANGED <<main, reader, lists, current, entering, ousted>>
      /\ session' = session \ {u}
      /\ Answer(<<Doc(IF HasEntry(u) THEN "out0" ELSE "out1", u)>>)
  BY DEF Logout, TakeRequest, clientVars
<1>2. /\ \A i \in 1..Len(toServer') : toServer'[i].op # "login"
      /\ entering = NoUser /\ ~closed /\ closed' = closed
  BY <1>1, RestSide
<1>3. session = {} \/ \E v \in Users : session = {v}
  BY DEF Core, ServerSide
<1>4. session' = {} \/ session' = session
  BY <1>1, <1>3
<1>5. ServerSide'
  BY <1>1, <1>2, <1>3, <1>4 DEF ServerSide
<1>6. CASE main = "ended"
  BY <1>1, <1>5, <1>6 DEF Phases, MainWaits
<1>7. CASE main # "ended"
  <2>1. /\ Owns({current}) /\ u = current /\ Only({"notice"}) /\ TypeOK
        /\ main = "menu" /\ ReaderWaits /\ CommandsOnly(TRUE)
    BY <1>1, <1>7, ChatPhase DEF Core
  <2>2. toServer' = <<>>
    <3>1. Len(toServer) > 0 /\ toServer[1] = [op |-> "loginout", user |-> u] /\ Len(toServer) \in Nat
      BY <1>1, HeadRequest DEF Core
    <3>2. 1 \in 1..Len(toServer) /\ toServer[1].op = "loginout"
      BY <3>1
    <3>3. Len(toServer) = 1
      BY <2>1, <3>2 DEF CommandsOnly
    <3>4. QED  BY <1>1, <2>1, <3>3, LastTaken
  <2>3. Idle'
    BY <1>1, <1>2, <2>1, <2>2 DEF Idle, Owns
  <2>4. ReaderWaits' /\ ~Quiet'
    BY <1>1, <2>1 DEF ReaderWaits, Quiet
  <2>5. InLogout'
    <3>1. CASE HasEntry(u)
      <4> DEFINE d == Doc("out0", u)
                 n == Len(toClient) + 1
      <4>1. d \in Document /\ d.kind = "out0" /\ Answer(<<d>>)
        BY <1>1, <2>1, <3>1 DEF Doc, Document, Answers, Accepted
      <4> HIDE DEF d
      <4>2. /\ Len(toClient) \in Nat /\ Len(toClient') = n
            /\ \A i \in 1..Len(toClient) : toClient'[i] = toClient[i]
            /\ toClient'[n] = d
        BY <1>7, <2>1, <4>1, Answered
      <4>3. n \in 1..Len(toClient') /\ toClient'[n].kind = "out0"
        BY <4>1, <4>2
      <4>4. \A j \in 1..(n - 1) : toClient'[j].kind \in {"notice", "push", "newline"}
        BY <2>1, <4>2 DEF Only
      <4>5. \A j \in (n + 1)..Len(toClient') : FALSE
        BY <4>2
      <4> HIDE DEF n
      <4>6. LogoutAnswer'
        BY <4>3, <4>4, <4>5 DEF LogoutAnswer
      <4>7. QED  BY <2>3, <4>6 DEF InLogout
    <3>2. CASE ~HasEntry(u)
      <4> DEFINE d == Doc("out1", u)
      <4>1. d \in Document /\ d.kind = "out1" /\ Answer(<<d>>)
        BY <1>1, <2>1, <3>2 DEF Doc, Document, Answers, Refused
      <4> HIDE DEF d
      <4>2. ousted'
        BY <1>1, <2>1, <3>2 DEF HasEntry, Owns
      <4>3. Only({"notice", "out1"})
        BY <2>1 DEF Only
      <4>4. Only({"notice", "out1"})'
        BY <1>7, <2>1, <4>1, <4>3, OnlyAnswered
      <4>5. QED  BY <2>3, <4>2, <4>4 DEF InLogout
    <3>3. QED  BY <3>1, <3>2
  <2>6. QED  BY <1>1, <1>5, <2>1, <2>4, <2>5 DEF Phases, MainWaits
<1>8. QED  BY <1>6, <1>7

LEMMA ClosePhases ==
  ASSUME Core, Close
  PROVE  Phases' /\ ServerSide'
<1>1. main = "ended" /\ main' = "ended" /\ toServer = <<>> /\ toServer' = <<>>
      /\ entering = NoUser /\ entering' = NoUser
  BY DEF Close, clientVars
<1>2. session' = {}
  <2>1. session = {} \/ \E u \in Users : session = {u}
    BY DEF Core, ServerSide
  <2>2. QED  BY <2>1 DEF Close
<1>3. ServerSide'
  BY <1>1, <1>2 DEF ServerSide, Idle
<1>4. QED  BY <1>1, <1>3 DEF Phases, MainWaits

LEMMA HandlersPhases ==
  ASSUME Core, Handlers
  PROVE  Phases' /\ ServerSide'
BY InsertPhases, LoginAnswerPhases, RefusePhases, RegistrationPhases, ServerChatPhases,
   ServerLogoutPhases, ClosePhases DEF Handlers

(* A message from another handler may come in at any time. *)
LEMMA PushPhases ==
  ASSUME Core, Push
  PROVE  Phases' /\ ServerSide'
<1>1. /\ UNCHANGED <<main, reader, lists, current, toServer, session, entering, ousted, closed>>
      /\ main # "ended" /\ Answer(<<Doc("push", NoUser)>>) /\ TypeOK
  BY DEF Push, clientVars, serverVars, mapVars, Core
<1> DEFINE d == Doc("push", NoUser)
           n == Len(toClient)
<1>2. d \in Document /\ d.kind = "push"
  BY DEF Doc, Document
<1>3. /\ n \in Nat /\ Len(toClient') = n + 1
      /\ \A i \in 1..n : toClient'[i] = toClient[i]
      /\ toClient'[n + 1] = d
  BY <1>1, <1>2, Answered
<1>4. \A kinds : Only(kinds) => Only(kinds)'
  BY <1>1, <1>2, OnlyAnswered
<1> HIDE DEF d
<1>5. ASSUME NEW kinds, NEW u, OneAnswer(kinds, u) PROVE OneAnswer(kinds, u)'
  <2>1. PICK i \in 1..n :
          /\ toClient[i].kind \in kinds /\ toClient[i].user = u
          /\ \A j \in 1..n : j # i => toClient[j].kind \in {"push", "newline"}
    BY <1>5 DEF OneAnswer
  <2>2. i \in 1..Len(toClient') /\ toClient'[i] = toClient[i]
    BY <1>3
  <2>3. ASSUME NEW j \in 1..Len(toClient'), j # i PROVE toClient'[j].kind \in {"push", "newline"}
    <3>1. j \in 1..n \/ j = n + 1
      BY <1>3
    <3>2. QED  BY <1>2, <1>3, <2>1, <2>3, <3>1
  <2>4. QED  BY <2>1, <2>2, <2>3 DEF OneAnswer
<1>6. LogoutAnswer => LogoutAnswer'
  <2>1. SUFFICES ASSUME LogoutAnswer PROVE LogoutAnswer'
    OBVIOUS
  <2>2. PICK i \in 1..n :
          /\ toClient[i].kind = "out0"
          /\ \A j \in 1..(i - 1) : toClient[j].kind \in {"notice", "push", "newline"}
          /\ \A j \in (i + 1)..n : toClient[j].kind \in {"push", "newline"}
    BY <2>1 DEF LogoutAnswer
  <2>3. i \in 1..Len(toClient') /\ toClient'[i] = toClient[i]
    BY <1>3
  <2>4. ASSUME NEW j \in 1..(i - 1) PROVE toClient'[j].kind \in {"notice", "push", "newline"}
    <3>1. j \in 1..n
      BY <1>3
    <3>2. QED  BY <1>3, <2>2, <3>1
  <2>5. ASSUME NEW j \in (i + 1)..Len(toClient') PROVE toClient'[j].kind \in {"push", "newline"}
    <3>1. j \in (i + 1)..n \/ j = n + 1
      BY <1>3
    <3>2. CASE j \in (i + 1)..n
      <4>1. j \in 1..n
        BY <1>3, <3>2
      <4>2. QED  BY <1>3, <2>2, <3>2, <4>1
    <3>3. QED  BY <1>2, <1>3, <3>1, <3>2
  <2>6. QED  BY <2>2, <2>3, <2>4, <2>5 DEF LogoutAnswer
<1>7. (Idle => Idle') /\ (ReaderWaits' <=> ReaderWaits) /\ (Quiet' <=> Quiet) /\ (MainWaits' <=> MainWaits)
  BY <1>1 DEF Idle, ReaderWaits, Quiet, MainWaits
<1>8. \A last : CommandsOnly(last) => CommandsOnly(last)'
  BY <1>1 DEF CommandsOnly
<1>9. InLogin => InLogin'
  BY <1>1, <1>4, <1>5, <1>7 DEF InLogin, Owns
<1>10. InRegister => InRegister'
  BY <1>1, <1>4, <1>5, <1>7 DEF InRegister
<1>11. InChat => InChat'
  BY <1>1, <1>4, <1>7, <1>8 DEF InChat, Owns
<1>12. InLogout => InLogout'
  BY <1>1, <1>4, <1>6, <1>7, <1>8 DEF InLogout, Owns
<1>13. Phases'
  BY <1>1, <1>4, <1>7, <1>9, <1>10, <1>11, <1>12 DEF Phases, Core
<1>14. QED  BY <1>1, <1>13, ServerSideKept

(* Another client of the server may take this session's entry, but puts     *)
(* none in its place that names this connection.                            *)
LEMMA OtherPhases ==
  ASSUME Core, OtherClients
  PROVE  Phases' /\ ServerSide'
<1>1. /\ UNCHANGED <<main, reader, lists, current, toServer, toClient, entering, closed>>
      /\ \/ UNCHANGED <<session, ousted>>
         \/ \E u \in Users : /\ session' \in {session, session \ {u}}
                             /\ ousted' = (ousted \/ session' # session)
  BY DEF OtherClients, OtherIn, OtherOut, clientVars
<1>2. session' = session \/ (session' = {} /\ ousted')
  <2>1. session = {} \/ \E u \in Users : session = {u}
    BY DEF Core, ServerSide
  <2>2. QED  BY <1>1, <2>1
<1>3. ousted => ousted'
  BY <1>1
<1>4. \A S : Owns(S) => Owns(S)'
  BY <1>2, <1>3 DEF Owns
<1>5. /\ Idle => Idle'
      /\ session = {} => session' = {}
  BY <1>1, <1>2 DEF Idle
<1>6. /\ \A kinds : Only(kinds) => Only(kinds)'
      /\ \A kinds, u : OneAnswer(kinds, u) => OneAnswer(kinds, u)'
      /\ LogoutAnswer => LogoutAnswer'
      /\ \A last : CommandsOnly(last) => CommandsOnly(last)'
  BY <1>1 DEF Only, OneAnswer, LogoutAnswer, CommandsOnly
<1>7. (ReaderWaits' <=> ReaderWaits) /\ (Quiet' <=> Quiet) /\ (MainWaits' <=> MainWaits)
  BY <1>1 DEF ReaderWaits, Quiet, MainWaits
<1>8. InLogin => InLogin'
  BY <1>1, <1>4, <1>5, <1>6 DEF InLogin
<1>9. InRegister => InRegister'
  BY <1>1, <1>5, <1>6 DEF InRegister
<1>10. InChat => InChat'
  BY <1>1, <1>4, <1>6, <1>7 DEF InChat
<1>11. InLogout => InLogout'
  BY <1>1, <1>3, <1>4, <1>5, <1>6 DEF InLogout
<1>12. Phases'
  BY <1>1, <1>5, <1>6, <1>7, <1>8, <1>9, <1>10, <1>11 DEF Phases, Core
<1>13. ServerSide'
  <2>1. session' = {} \/ \E u \in Users : session' = {u}
    BY <1>2 DEF Core, ServerSide
  <2>2. QED  BY <1>1, <1>4, <1>5, <2>1 DEF Core, ServerSide
<1>14. QED  BY <1>12, <1>13

-----------------------------------------------------------------------------
(*                      the theorems                                       *)

LEMMA ClientInit == ASSUME Init PROVE ClientInv
<1>1. Len(toClient) = 0 /\ Len(toServer) = 0
  BY DEF Init
<1>2. Phases
  BY <1>1 DEF Init, Phases, Idle, Only, ReaderWaits, MainWaits
<1>3. ServerSide
  BY <1>1 DEF Init, ServerSide
<1>4. QED  BY <1>2, <1>3, Starts DEF Init, ClientInv

LEMMA ClientStep ==
  ASSUME ClientInv, Patient, [Next]_vars
  PROVE  ClientInv'
<1>1. TypeOK' /\ ThreadsInv'
  BY TypeStep, ThreadsStep DEF ClientInv
<1>2. CASE ServerEnds
  BY <1>1, <1>2 DEF ServerEnds, ClientInv
<1>3. CASE UNCHANGED vars
  <2>1. UNCHANGED <<main, reader, current, lists, toServer, toClient, serverUp, closed,
                    session, entering, ousted>>
    BY <1>3 DEF vars, clientVars, serverVars, mapVars
  <2>2. Phases => Phases'
    BY <2>1 DEF Phases, InLogin, InRegister, InChat, InLogout, Idle, CommandsOnly, LogoutAnswer,
                OneAnswer, Only, ReaderWaits, MainWaits, Quiet, Owns
  <2>3. ServerSide => ServerSide'
    BY <2>1 DEF ServerSide, Idle, Owns
  <2>4. QED  BY <1>1, <2>1, <2>2, <2>3 DEF ClientInv
<1>4. CASE User \/ Threads \/ Handlers \/ OtherClients \/ Push
  <2>1. serverUp' = serverUp
    <3>1. CASE User
      BY <3>1 DEF User, Login, Register, Command, Loginout, Exit, SendRequest, EndProcess, serverVars, mapVars
    <3>2. CASE Threads
      BY <3>2 DEF Threads, Dies, RecvFails, MainDies, LoginAccepted, BackToMenu, ReaderPrints, ReaderOut,
                  ClearUser, ClearLists, EndProcess, serverVars, mapVars
    <3>3. CASE Handlers \/ OtherClients \/ Push
      BY <3>3 DEF Handlers, LoginInsert, LoginRefuse, Chat, Logout, LoginAnswer, Registration,
                  Close, TakeRequest, OtherClients, OtherIn, OtherOut, Push, serverVars
    <3>4. QED  BY <1>4, <3>1, <3>2, <3>3
  <2>2. CASE serverUp
    <3>1. Core
      BY <2>2 DEF ClientInv, Core
    <3>2. Phases' /\ ServerSide'
      BY <1>4, <3>1, UserPhases, ThreadsPhases, HandlersPhases, OtherPhases,
         PushPhases
    <3>3. QED  BY <1>1, <2>1, <2>2, <3>2 DEF ClientInv
  <2>3. CASE ~serverUp
    <3>1. session = {} /\ entering = NoUser
      BY <2>3 DEF ClientInv
    <3>2. UNCHANGED <<session, entering>>
      <4>1. CASE User
        BY <4>1 DEF User, Login, Register, Command, Loginout, Exit, SendRequest, EndProcess, serverVars, mapVars
      <4>2. CASE Threads
        BY <4>2 DEF Threads, Dies, RecvFails, MainDies, LoginAccepted, BackToMenu, ReaderPrints, ReaderOut,
                    ClearUser, ClearLists, EndProcess, serverVars, mapVars
      <4>3. CASE Handlers \/ OtherClients \/ Push
        BY <2>3, <4>3 DEF Handlers, LoginInsert, LoginRefuse, Chat, Logout, LoginAnswer,
                          Registration, Close, TakeRequest, OtherClients, OtherIn, OtherOut, Push
      <4>4. QED  BY <1>4, <4>1, <4>2, <4>3
    <3>3. QED  BY <1>1, <2>1, <2>3, <3>1, <3>2 DEF ClientInv
  <2>4. TypeOK
    BY DEF ClientInv
  <2>5. QED  BY <2>2, <2>3
<1>5. QED  BY <1>2, <1>3, <1>4 DEF Next

(* ClientInv: what is under way to the client follows from the menu of its  *)
(* main thread and the state of its reader (main.cc:92-210, 324-376, 434),  *)
(* whatever reads are split or joined and whenever the server ends.         *)
THEOREM ClientInvariant == ASSUME Patient PROVE Spec => []ClientInv
<1>1. Init => ClientInv
  BY ClientInit
<1>2. ClientInv /\ [Next]_vars => ClientInv'
  BY ClientStep
<1>3. QED
  BY <1>1, <1>2, PTL DEF Spec

LEMMA AtMostOne ==
  ASSUME NEW S, \A x, y \in S : x = y
  PROVE  Cardinality(S) <= 1
<1>1. CASE S = {}
  BY <1>1, FS_EmptySet
<1>2. CASE S # {}
  <2>1. PICK x \in S : S = {x}
    BY <1>2
  <2>2. QED  BY <2>1, FS_Singleton
<1>3. QED  BY <1>1, <1>2

(* Identity: whoever the client thinks is logged in, is the one user whose  *)
(* entry in _userConnMap is this connection, and the lists shown are his;   *)
(* when he is logged in twice on the server (chatservice.cc:98 reads what   *)
(* 121 writes) the entry may be the other connection's or gone, but this    *)
(* connection is never another user's.  ChatService takes the id in every   *)
(* request on trust, so this is what makes a chat, a group request or a     *)
(* loginout act on the right user.                                          *)
THEOREM IdentityAgreed == ASSUME Patient PROVE Spec => []Identity
<1>1. ASSUME ClientInv PROVE Identity
  BY <1>1 DEF ClientInv, Phases, InChat, Identity
<1>2. QED
  BY <1>1, ClientInvariant, PTL

(* OneSession: the connection never has two entries in _userConnMap, so     *)
(* clientCloseException, which erases the first it finds, leaves none.      *)
THEOREM OneSessionPerConnection == ASSUME Patient PROVE Spec => []OneSession
<1>1. ASSUME ClientInv PROVE OneSession
  <2>1. session = {} \/ \E u \in Users : session = {u}
    BY <1>1 DEF ClientInv, ServerSide
  <2>2. Cardinality(session) <= 1
    BY <2>1, AtMostOne
  <2>3. closed => session = {}
    BY <1>1 DEF ClientInv, ServerSide, Idle
  <2>4. QED  BY <2>2, <2>3 DEF OneSession
<1>2. QED
  BY <1>1, ClientInvariant, PTL

-----------------------------------------------------------------------------
(*                      what is under way when the server has ended        *)

Mail ==
  /\ main = "login" => \/ Only({}) \/ OneAnswer({"login1", "login2"}, NoUser)
                       \/ \E u \in Users : OneAnswer({"login0"}, u)
  /\ main = "reg" => Only({}) \/ OneAnswer({"reg0", "reg1"}, NoUser)
  /\ main = "chat" => Only({"notice"}) /\ ReaderWaits
  /\ main = "menu" => IF ReaderWaits THEN Only({"notice", "out1"}) \/ LogoutAnswer
                      ELSE Only({})

LEMMA PhasesMail == Phases => Mail
<1>1. Only({"notice"}) => Only({"notice", "out1"})
  BY DEF Only
<1>2. QED  BY <1>1 DEF Phases, Mail, InLogin, InRegister, InChat, InLogout

LEMMA MailKept ==
  ASSUME Mail, UNCHANGED <<main, reader, toClient>>
  PROVE  Mail'
BY DEF Mail, Only, OneAnswer, LogoutAnswer, ReaderWaits

(* The user sends requests to a server that is no longer there. *)
LEMMA UserMail == ASSUME Patient, Mail, User PROVE Mail'
<1>1. CASE (\E u \in Users : Login(u)) \/ Register
  <2>1. /\ main = "menu" /\ main' \in {"login", "reg"} /\ Quiet /\ UNCHANGED toClient
    BY <1>1 DEF Login, Register, SendRequest
  <2>2. Only({})
    BY <2>1 DEF Mail, Quiet, ReaderWaits
  <2>3. Only({})'
    BY <2>1, <2>2 DEF Only
  <2>4. QED  BY <2>1, <2>3 DEF Mail
<1>2. CASE Command \/ Loginout
  <2>1. main = "chat" /\ main' \in {"chat", "menu"} /\ UNCHANGED <<reader, toClient>>
    BY <1>2 DEF Command, Loginout, SendRequest
  <2>2. Only({"notice"})' /\ Only({"notice", "out1"})' /\ ReaderWaits'
    BY <2>1 DEF Mail, Only, ReaderWaits
  <2>3. QED  BY <2>1, <2>2 DEF Mail
<1>3. CASE Exit
  BY <1>3 DEF Exit, EndProcess, Mail
<1>4. QED  BY <1>1, <1>2, <1>3 DEF User

(* The main thread takes the one answer there is.                           *)
LEMMA MainMail ==
  ASSUME TypeOK, ThreadsInv, Mail, LoginAccepted \/ BackToMenu
  PROVE  Mail'
<1>1. PICK d : /\ Receive(d) /\ d.kind # "push"
               /\ LoginAccepted => d.kind = "login0"
               /\ BackToMenu => \/ main = "login" /\ d.kind \in Refused \cup {"notice"}
                                \/ main = "reg" /\ d.kind \in Answers \cup {"notice"}
  <2>1. CASE LoginAccepted
    <3>1. PICK u \in Users : Receive([kind |-> "login0", user |-> u])
      BY <2>1 DEF LoginAccepted
    <3>2. main = "login" /\ main' = "chat"
      BY <2>1 DEF LoginAccepted
    <3>3. ~BackToMenu
      BY <3>2 DEF BackToMenu
    <3> DEFINE d == [kind |-> "login0", user |-> u]
    <3>4. Receive(d) /\ d.kind = "login0"
      BY <3>1
    <3> HIDE DEF d
    <3>5. QED  BY <3>3, <3>4
  <2>2. CASE BackToMenu
    <3>1. PICK d \in Document :
            /\ Receive(d)
            /\ \/ main = "login" /\ d.kind \in Refused \cup {"notice"}
               \/ main = "reg" /\ d.kind \in Answers \cup {"notice"}
      BY <2>2 DEF BackToMenu
    <3>2. ~LoginAccepted
      BY <2>2 DEF BackToMenu, LoginAccepted
    <3>3. d.kind # "push"
      BY <3>1 DEF Answers, Accepted, Refused
    <3>4. QED  BY <3>1, <3>2, <3>3
  <2>3. QED  BY <2>1, <2>2
<1>2. MainWaits /\ ~Only({})
  BY <1>1, OnlyTaken DEF LoginAccepted, BackToMenu, MainWaits
<1>3. \A i \in 1..Len(toClient') : toClient'[i].kind \in {"push", "newline"}
  <2>1. \E kinds, u : OneAnswer(kinds, u)
    BY <1>2 DEF Mail, MainWaits
  <2>2. QED  BY <1>1, <2>1, AnswerTaken
<1>4. Only({})' /\ Only({"notice"})'
  BY <1>3 DEF Only
<1>5. CASE LoginAccepted
  <2>1. main' = "chat" /\ ReaderWaits'
    BY <1>5 DEF LoginAccepted, ReaderWaits, TypeOK
  <2>2. QED  BY <1>4, <2>1 DEF Mail
<1>6. CASE BackToMenu
  <2>1. main' = "menu" /\ ~ReaderWaits'
    BY <1>2, <1>6 DEF BackToMenu, ThreadsInv, Quiet, ReaderWaits
  <2>2. QED  BY <1>4, <2>1 DEF Mail
<1>7. QED  BY <1>5, <1>6

LEMMA ReaderMail ==
  ASSUME TypeOK, ThreadsInv, Mail, NEW r \in Readers,
         ReaderPrints(r) \/ ReaderOut(r) \/ ClearUser(r) \/ ClearLists(r)
  PROVE  Mail'
<1>1. /\ UNCHANGED main /\ reader[r] # "free"
      /\ \A t \in Readers : t # r => reader[t] = "free"
  BY DEF ReaderPrints, ReaderOut, ClearUser, ClearLists, clientVars, ThreadsInv
<1>2. main \in {"menu", "chat"}
  BY <1>1 DEF ThreadsInv, Quiet, MainWaits, TypeOK
<1>3. CASE ReaderPrints(r)
  <2>1. PICK d \in Document : d.kind # "out0" /\ Receive(d)
    BY <1>3 DEF ReaderPrints
  <2>2. ReaderWaits /\ ReaderWaits'
    BY <1>3 DEF ReaderPrints, ReaderWaits, clientVars
  <2>3. /\ Only({"notice"}) => Only({"notice"})'
        /\ Only({"notice", "out1"}) => Only({"notice", "out1"})'
    BY <2>1, OnlyTaken DEF Only
  <2>4. LogoutAnswer => LogoutAnswer'
    BY <2>1, LogoutTaken
  <2>5. QED  BY <1>1, <1>2, <2>2, <2>3, <2>4 DEF Mail
<1>4. CASE ReaderOut(r)
  <2>1. PICK u \in Users \cup {NoUser} : Receive([kind |-> "out0", user |-> u])
    BY <1>4 DEF ReaderOut
  <2> DEFINE d == [kind |-> "out0", user |-> u]
  <2>2. Receive(d) /\ d.kind = "out0"
    BY <2>1
  <2> HIDE DEF d
  <2>3. ~Only({"notice"}) /\ ~Only({"notice", "out1"})
    BY <2>2, OnlyTaken
  <2>4. reader[r] = "recv" /\ reader' = [reader EXCEPT ![r] = "clearUser"]
    BY <1>4 DEF ReaderOut
  <2>5. ReaderWaits /\ ~ReaderWaits'
    BY <1>1, <2>4 DEF ReaderWaits, TypeOK
  <2>6. main = "menu" /\ LogoutAnswer
    BY <1>2, <2>3, <2>5 DEF Mail
  <2>7. \A i \in 1..Len(toClient') : toClient'[i].kind \in {"push", "newline"}
    BY <2>2, <2>6, LogoutTaken
  <2>8. Only({})'
    BY <2>7 DEF Only
  <2>9. QED  BY <1>1, <2>5, <2>6, <2>8 DEF Mail
<1>5. CASE ClearUser(r) \/ ClearLists(r)
  <2>1. /\ UNCHANGED toClient /\ reader[r] # "recv"
        /\ reader' \in {[reader EXCEPT ![r] = "clearLists"], [reader EXCEPT ![r] = "free"]}
    BY <1>5 DEF ClearUser, ClearLists
  <2>2. ~ReaderWaits /\ ~ReaderWaits'
    BY <1>1, <2>1 DEF ReaderWaits, TypeOK
  <2>3. main = "menu" /\ Only({})
    BY <1>2, <2>2 DEF Mail
  <2>4. QED  BY <1>1, <2>1, <2>2, <2>3 DEF Mail, Only
<1>6. QED  BY <1>3, <1>4, <1>5

LEMMA MailStep ==
  ASSUME ClientInv, ClientInv', Patient, Mail, [Next]_vars
  PROVE  Mail'
<1>0. TypeOK /\ ThreadsInv
  BY DEF ClientInv
<1>1. CASE serverUp'
  <2>1. Phases'
    BY <1>1 DEF ClientInv
  <2>2. QED  BY <2>1, PhasesMail, PTL
<1>2. CASE ServerEnds \/ UNCHANGED vars
  BY <1>2, MailKept DEF ServerEnds, vars, clientVars
<1>3. CASE User
  BY <1>3, UserMail
<1>4. CASE Threads
  <2>1. CASE Dies \/ MainDies
    BY <2>1 DEF Dies, MainDies, EndProcess, Mail
  <2>2. CASE RecvFails
    <3>1. Len(toClient') = 0 /\ main' = "menu" /\ UNCHANGED reader /\ MainWaits
      BY <2>2 DEF RecvFails
    <3>2. ~ReaderWaits' /\ Only({})'
      BY <1>0, <3>1 DEF ThreadsInv, Quiet, ReaderWaits, Only
    <3>3. QED  BY <3>1, <3>2 DEF Mail
  <2>3. QED  BY <1>0, <1>4, <2>1, <2>2, MainMail, ReaderMail DEF Threads
<1>5. CASE (Handlers \/ OtherClients \/ Push) /\ ~serverUp'
  <2>1. serverUp /\ UNCHANGED serverUp
    BY <1>5 DEF Handlers, LoginInsert, LoginRefuse, Chat, Logout, LoginAnswer, Registration,
                Close, TakeRequest, OtherClients, OtherIn, OtherOut, Push, serverVars
  <2>2. QED  BY <1>5, <2>1
<1>6. QED  BY <1>1, <1>2, <1>3, <1>4, <1>5 DEF Next

(* MainTakesItsOwn: whatever the main thread takes off the socket while it  *)
(* waits (main.cc:106, 174) is the answer to what it asked, a chat message  *)
(* or the line end of an earlier refusal; never an answer to a command of   *)
(* the last session or to its loginout, which the reader has taken.         *)
THEOREM MainTakesOwnAnswers == ASSUME Patient PROVE Spec => MainTakesItsOwn
<1>1. ASSUME TypeOK, TypeOK', Mail, MainWaits, NEW i \in 1..(Len(toClient) - Len(toClient'))
      PROVE  toClient[i].kind \in OwnAnswers(main) \cup {"push", "newline"}
  <2>1. Len(toClient) \in Nat /\ Len(toClient') \in Nat
    BY <1>1 DEF TypeOK
  <2>2. i \in 1..Len(toClient)
    BY <2>1
  <2>3. \/ Only({}) \/ \E u : OneAnswer(OwnAnswers(main), u)
        \/ /\ main = "login"
           /\ \E u : OneAnswer({"login1", "login2"}, u) \/ OneAnswer({"login0"}, u)
    BY <1>1 DEF Mail, MainWaits, OwnAnswers
  <2>4. QED  BY <2>2, <2>3 DEF Only, OneAnswer, OwnAnswers
<1>2. Init => Mail
  <2>1. SUFFICES ASSUME Init PROVE Only({}) /\ main = "menu" /\ ~ReaderWaits
    BY DEF Mail
  <2>2. Len(toClient) = 0
    BY <2>1 DEF Init
  <2>3. QED  BY <2>1, <2>2 DEF Init, Only, ReaderWaits
<1>3. ClientInv /\ ClientInv' /\ Mail /\ [Next]_vars => Mail'
  BY MailStep
<1>4. Spec => []Mail
  BY <1>2, <1>3, ClientInvariant, PTL DEF Spec
<1>5. Spec => []TypeOK
  BY ClientTypeCorrect
<1>6. TypeOK /\ TypeOK' /\ Mail =>
        (MainWaits => \A i \in 1..(Len(toClient) - Len(toClient')) :
           toClient[i].kind \in OwnAnswers(main) \cup {"push", "newline"})
  BY <1>1
<1>7. QED
  BY <1>4, <1>5, <1>6, PTL DEF MainTakesItsOwn

-----------------------------------------------------------------------------
(*                      requests that fit the session                      *)

(* Every request under way will find the session it is meant for.           *)
Fits == serverUp => \A i \in 1..Len(toServer) :
  /\ toServer[i].op \in {"chat", "loginout"} => Owns({toServer[i].user})
  /\ toServer[i].op = "loginout" => i = Len(toServer)
  /\ toServer[i].op \in {"login", "reg"} => Len(toServer) = 1 /\ session = {}

(* A login or a registration is sent when nothing else is under way. *)
LEMMA AskFits ==
  ASSUME ClientInv, Patient, (\E u \in Users : Login(u)) \/ Register
  PROVE  Fits'
<1>1. PICK op \in {"login", "reg"}, u \in Users \cup {NoUser} :
        /\ [op |-> op, user |-> u] \in Request
        /\ main = "menu" /\ Quiet /\ SendRequest(op, u)
  BY DEF Login, Register, Request
<1>2. CASE serverUp
  <2>1. toServer = <<>> /\ session = {}
    BY <1>1, <1>2 DEF ClientInv, Phases, Quiet, ReaderWaits, Idle
  <2>2. toServer' = <<[op |-> op, user |-> u]>> /\ session' = {}
    BY <1>1, <2>1, Sent DEF ClientInv, SendRequest, serverVars, mapVars
  <2>3. Len(toServer') = 1 /\ toServer'[1].op \notin {"chat", "loginout"}
    BY <2>2
  <2>4. QED  BY <2>2, <2>3 DEF Fits
<1>3. CASE ~serverUp
  BY <1>1, <1>3 DEF SendRequest, serverVars, mapVars, Fits
<1>4. QED  BY <1>2, <1>3

(* A command or a loginout is sent while the session is that of the sender, *)
(* and after commands only.                                                 *)
LEMMA CommandFits ==
  ASSUME ClientInv, Command \/ Loginout
  PROVE  Fits'
<1>1. PICK op \in {"chat", "loginout"} : main = "chat" /\ SendRequest(op, current)
  BY DEF Command, Loginout
<1>2. CASE serverUp
  <2>1. Owns({current}) /\ CommandsOnly(FALSE)
    BY <1>1, <1>2 DEF ClientInv, Phases, InChat
  <2>2. /\ Len(toServer) \in Nat /\ Len(toServer') = Len(toServer) + 1
        /\ \A i \in 1..Len(toServer) : toServer'[i] = toServer[i]
        /\ toServer'[Len(toServer) + 1] = [op |-> op, user |-> current]
    BY <1>1, Sent DEF ClientInv, TypeOK, Request
  <2>3. Owns({current})' /\ current' = current
    BY <1>1, <2>1 DEF SendRequest, serverVars, mapVars, Owns
  <2>4. ASSUME NEW i \in 1..Len(toServer')
        PROVE  /\ toServer'[i].user = current /\ toServer'[i].op \in {"chat", "loginout"}
               /\ toServer'[i].op = "loginout" => i = Len(toServer')
    <3>1. CASE i \in 1..Len(toServer)
      BY <2>1, <2>2, <3>1 DEF CommandsOnly
    <3>2. CASE i = Len(toServer) + 1
      BY <2>2, <3>2
    <3>3. QED  BY <2>2, <3>1, <3>2
  <2>5. QED  BY <2>3, <2>4 DEF Fits, Owns
<1>3. CASE ~serverUp
  BY <1>1, <1>3 DEF SendRequest, serverVars, mapVars, Fits
<1>4. QED  BY <1>2, <1>3

(* A handler takes the first request, and ends the session only by the last *)
(* or begins it by the only one.                                            *)
LEMMA TakeFits ==
  ASSUME TypeOK, Fits, NEW op, NEW u, TakeRequest(op, u),
         UNCHANGED <<session, ousted>> \/ op \in {"login", "loginout"}
  PROVE  Fits'
<1>1. serverUp /\ serverUp' /\ Len(toServer) \in Nat /\ Len(toServer) > 0
      /\ toServer[1].op = op
  BY HeadRequest DEF TakeRequest
<1>2. PICK k \in 1..Len(toServer) :
        /\ Len(toServer') = Len(toServer) - k
        /\ \A i \in 1..Len(toServer') :
             toServer'[i] = toServer[i + k] /\ i + k \in 2..Len(toServer)
  BY RequestTaken
<1>3. CASE op \in {"login", "loginout"}
  <2>1. 1 \in 1..Len(toServer)
    BY <1>1
  <2>2. Len(toServer) = 1
    BY <1>1, <1>3, <2>1 DEF Fits
  <2>3. 1..Len(toServer') = {}
    BY <1>2, <2>2
  <2>4. QED  BY <2>3 DEF Fits
<1>4. CASE op \notin {"login", "loginout"}
  <2>1. ASSUME NEW i \in 1..Len(toServer')
        PROVE  /\ toServer'[i].op \in {"chat", "loginout"} => Owns({toServer'[i].user})
               /\ toServer'[i].op = "loginout" => i = Len(toServer')
               /\ toServer'[i].op \notin {"login", "reg"}
    <3>1. toServer'[i] = toServer[i + k] /\ i + k \in 2..Len(toServer)
      BY <1>2
    <3>2. i \in Nat /\ k \in Nat /\ Len(toServer) \in Nat /\ Len(toServer') = Len(toServer) - k
      BY <1>1, <1>2
    <3>3. /\ i + k \in 1..Len(toServer) /\ Len(toServer) # 1
          /\ i + k = Len(toServer) => i = Len(toServer')
      BY <3>1, <3>2
    <3>4. QED  BY <1>1, <1>4, <3>1, <3>3 DEF Fits, Owns
  <2>2. QED  BY <1>4, <2>1 DEF Fits, Owns
<1>5. QED  BY <1>3, <1>4

LEMMA FitsStep ==
  ASSUME ClientInv, Patient, Fits, [Next]_vars
  PROVE  Fits'
<1>1. CASE User /\ ~Exit
  BY <1>1, AskFits, CommandFits DEF User
<1>2. CASE Exit \/ Threads \/ LoginAnswer \/ Push \/ UNCHANGED vars
  <2>1. UNCHANGED <<toServer, session, ousted, serverUp>>
    BY <1>2 DEF Exit, Threads, Dies, RecvFails, MainDies, EndProcess, LoginAccepted, BackToMenu,
                ReaderPrints, ReaderOut, ClearUser, ClearLists, LoginAnswer, Push,
                vars, serverVars, mapVars
  <2>2. QED  BY <2>1 DEF Fits, Owns
<1>3. CASE \E u \in Users \cup {NoUser} :
             LoginInsert(u) \/ LoginRefuse(u) \/ Chat(u) \/ Logout(u)
  <2>1. TypeOK
    BY DEF ClientInv
  <2>2. QED  BY <1>3, <2>1, TakeFits DEF LoginInsert, LoginRefuse, Chat, Logout, mapVars
<1>4. CASE Registration
  BY <1>4, TakeFits DEF Registration, ClientInv, mapVars
<1>5. CASE Close
  <2>1. 1..Len(toServer') = {}
    BY <1>5 DEF Close
  <2>2. QED  BY <2>1 DEF Fits
<1>6. CASE ServerEnds
  BY <1>6 DEF ServerEnds, Fits
<1>7. CASE OtherClients
  <2>1. /\ UNCHANGED <<toServer, serverUp>>
        /\ \/ UNCHANGED <<session, ousted>>
           \/ \E u \in Users : /\ session' \in {session, session \ {u}}
                               /\ ousted' = (ousted \/ session' # session)
    BY <1>7 DEF OtherClients, OtherIn, OtherOut
  <2>2. CASE serverUp
    <3>1. session = {} \/ \E u \in Users : session = {u}
      BY <2>2 DEF ClientInv, ServerSide
    <3>2. session' = session \/ (session' = {} /\ ousted')
      BY <2>1, <3>1
    <3>3. ousted => ousted'
      BY <2>1
    <3>4. session = {} => session' = {}
      BY <3>2
    <3>5. QED  BY <2>1, <3>2, <3>3, <3>4 DEF Fits, Owns
  <2>3. CASE ~serverUp
    BY <2>1, <2>3 DEF Fits
  <2>4. QED  BY <2>2, <2>3
<1>8. QED  BY <1>1, <1>2, <1>3, <1>4, <1>5, <1>6, <1>7 DEF Next, Handlers

(* Only a handler takes requests. *)
LEMMA OnlyTakes ==
  ASSUME TypeOK, [Next]_vars, Len(toServer') < Len(toServer)
  PROVE  \E op, u : TakeRequest(op, u)
<1>1. Len(toServer) \in Nat
  BY DEF TypeOK
<1>2. ~UNCHANGED toServer
  BY <1>1
<1>3. ~User
  <2>1. ASSUME NEW op, NEW u, SendRequest(op, u) PROVE FALSE
    <3>1. Len(Append(toServer, [op |-> op, user |-> u])) = Len(toServer) + 1
      BY DEF TypeOK
    <3>2. QED  BY <1>1, <2>1, <3>1 DEF SendRequest
  <2>2. QED  BY <1>2, <2>1 DEF User, Login, Register, Command, Loginout, Exit, EndProcess
<1>4. ~(Threads \/ LoginAnswer \/ Close \/ OtherClients \/ Push \/ ServerEnds \/ UNCHANGED vars)
  BY <1>2 DEF Threads, Dies, RecvFails, MainDies, EndProcess, LoginAccepted, BackToMenu,
              ReaderPrints, ReaderOut, ClearUser, ClearLists, LoginAnswer, Close, OtherClients,
              OtherIn, OtherOut, Push, ServerEnds, vars
<1>5. QED
  BY <1>3, <1>4 DEF Next, Handlers, LoginInsert, LoginRefuse, Chat, Logout, Registration

(* RequestsFit: what ChatService assumes of its clients.  It trusts the id  *)
(* in every request (chatservice.cc: login, loginout, oneChat, groupChat);  *)
(* a client whose user waits for the reader sends no other than the one     *)
(* whose entry in _userConnMap its connection is when a handler takes the   *)
(* request, although the map changes in another process than the menu.      *)
THEOREM RequestsFitCorrect == ASSUME Patient PROVE Spec => RequestsFit
<1>1. Init => Fits
  BY DEF Init, Fits
<1>2. ClientInv /\ Fits /\ [Next]_vars => Fits'
  BY FitsStep
<1>3. Spec => []Fits
  BY <1>1, <1>2, ClientInvariant, PTL DEF Spec
<1>4. ASSUME ClientInv, Fits, [Next]_vars, Len(toServer') < Len(toServer)
      PROVE  IF Head(toServer).op \in {"login", "reg"} THEN session = {}
             ELSE Owns({Head(toServer).user})
  <2>1. PICK op, u : TakeRequest(op, u)
    BY <1>4, OnlyTakes DEF ClientInv
  <2>2. /\ [op |-> op, user |-> u] \in Request /\ Len(toServer) \in Nat /\ Len(toServer) > 0
        /\ toServer[1] = [op |-> op, user |-> u]
    BY <1>4, <2>1, HeadRequest DEF ClientInv
  <2>3. serverUp /\ Head(toServer) = [op |-> op, user |-> u]
    BY <2>1 DEF TakeRequest
  <2>4. op \in {"login", "reg", "chat", "loginout"}
    BY <2>2 DEF Request
  <2>5. 1 \in 1..Len(toServer)
    BY <2>2
  <2>6. QED  BY <1>4, <2>2, <2>3, <2>4, <2>5 DEF Fits, Owns
<1>5. ClientInv /\ Fits /\ [Next]_vars =>
        (Len(toServer') < Len(toServer) =>
           IF Head(toServer).op \in {"login", "reg"} THEN session = {}
           ELSE Owns({Head(toServer).user}))
  BY <1>4
<1>6. QED
  BY <1>3, <1>5, ClientInvariant, PTL DEF Spec, RequestsFit
=============================================================================
