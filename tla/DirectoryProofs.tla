-------------------------- MODULE DirectoryProofs --------------------------
(***************************************************************************)
(* Proofs about Directory, for any number of threads, connections, users   *)
(* and groups, and with every fault.                                       *)
(***************************************************************************)
EXTENDS Directory, TLAPS

-----------------------------------------------------------------------------
(*                      the pool under a handler                           *)

LEMMA BorrowApart ==
  ASSUME PoolTypeOK, OneConnectionEach, NEW t \in Threads, Borrow(t),
         used'[t] # None <=> h'[t].pc \in {"stmt", "more", "id", "back"},
         \A r \in Threads \ {t} : h'[r] = h[r]
  PROVE  PoolTypeOK' /\ OneConnectionEach'
<1>1. PICK p \in free : free' = free \ {p} /\ used' = [used EXCEPT ![t] = p]
  BY DEF Borrow
<1>2. \A r \in Threads : used'[r] = IF r = t THEN p ELSE used[r]
  BY <1>1 DEF PoolTypeOK
<1>3. PoolTypeOK'
  BY <1>1 DEF PoolTypeOK
<1>4. OneConnectionEach'
  BY <1>1, <1>2 DEF OneConnectionEach
<1>5. QED
  BY <1>3, <1>4

LEMMA GiveBackApart ==
  ASSUME PoolTypeOK, OneConnectionEach, NEW t \in Threads, GiveBack(t),
         h'[t].pc \notin {"stmt", "more", "id", "back"},
         \A r \in Threads \ {t} : h'[r] = h[r]
  PROVE  PoolTypeOK' /\ OneConnectionEach'
<1>1. \A r \in Threads : used'[r] = IF r = t THEN None ELSE used[r]
  BY DEF GiveBack, PoolTypeOK
<1>2. used[t] \in Mysql /\ None \notin Mysql
  BY DirectoryOK DEF GiveBack, PoolTypeOK
<1>3. PoolTypeOK'
  BY <1>2 DEF GiveBack, PoolTypeOK
<1>4. OneConnectionEach'
  BY <1>1, <1>2 DEF OneConnectionEach, GiveBack, PoolTypeOK
<1>5. QED
  BY <1>3, <1>4

(* A step that leaves the pool alone and does not change who needs it. *)
LEMMA SamePool ==
  ASSUME PoolTypeOK, OneConnectionEach, NEW t \in Threads, UNCHANGED poolVars,
         h'[t].pc \in {"stmt", "more", "id", "back"}
           <=> h[t].pc \in {"stmt", "more", "id", "back"},
         \A r \in Threads \ {t} : h'[r] = h[r]
  PROVE  PoolTypeOK' /\ OneConnectionEach'
BY DEF PoolTypeOK, OneConnectionEach, poolVars

-----------------------------------------------------------------------------
(*                      tables that grow                                   *)

Grown(q, r) == Len(q) <= Len(r) /\ \A i \in 1..Len(q) : r[i] = q[i]

LEMMA AppendGrown ==
  ASSUME NEW S, NEW q \in Seq(S), NEW x \in S
  PROVE  /\ Append(q, x) \in Seq(S) /\ Len(q) \in Nat
         /\ Len(Append(q, x)) = Len(q) + 1
         /\ Append(q, x)[Len(q) + 1] = x
         /\ Grown(q, Append(q, x))
BY DEF Grown

LEMMA SameGrown == ASSUME NEW S, NEW q \in Seq(S) PROVE Grown(q, q)
BY DEF Grown

-----------------------------------------------------------------------------
(*                      a thread's row                                     *)

(* LastIdIsOwn for one handler x with connection p. *)
Owns(x, p, l, us, gs) ==
  /\ x.pc = "id" => x.ok /\ x.op \in {"reg", "create"}
  /\ x.ok /\ x.op \in {"reg", "create"} =>
       LET id == IF x.pc = "id" THEN l[p] ELSE x.id IN
       IF x.op = "reg" THEN id \in 1..Len(us) /\ us[id] = x.name
                       ELSE id \in 1..Len(gs) /\ gs[id] = x.user
  /\ x.op = "found" => x.id \in 1..Len(gs) /\ gs[x.id] = x.user

LEMMA LastIdIsOwns ==
  LastIdIsOwn <=> \A t \in Threads : Owns(h[t], used[t], lastId, user, allgroup)
BY DEF LastIdIsOwn, Owns

LEMMA OwnsKept ==
  ASSUME NEW x, NEW p, NEW l, NEW r, NEW k, NEW us \in Seq(Names), NEW ut \in Seq(Names),
         NEW gs \in Seq(Ids), NEW gt \in Seq(Ids),
         Owns(x, p, l, us, gs), Grown(us, ut), Grown(gs, gt),
         x.pc = "id" => k[r] = l[p]
  PROVE  Owns(x, r, k, ut, gt)
<1>1. Len(us) \in Nat /\ Len(ut) \in Nat /\ Len(gs) \in Nat /\ Len(gt) \in Nat
  OBVIOUS
<1>2. \A i \in 1..Len(us) : i \in 1..Len(ut) /\ ut[i] = us[i]
  BY <1>1 DEF Grown
<1>3. \A i \in 1..Len(gs) : i \in 1..Len(gt) /\ gt[i] = gs[i]
  BY <1>1 DEF Grown
<1>4. QED
  BY <1>2, <1>3 DEF Owns

-----------------------------------------------------------------------------
(*                      what a step leaves alone                           *)

(* A step of thread t changes no other handler and no other thread's        *)
(* connection, and adds to the tables.                                      *)
Local(t) ==
  /\ \E x \in Handler : h' = [h EXCEPT ![t] = x]
  /\ PoolTypeOK' /\ OneConnectionEach'
  /\ \A r \in Threads \ {t} : used'[r] = used[r]
  /\ lastId' = lastId \/ \E i \in Ids \cup {0} : lastId' = [lastId EXCEPT ![used[t]] = i]
  /\ user' \in Seq(Names) /\ Len(user') <= MaxId /\ Grown(user, user')
  /\ allgroup' \in Seq(Ids) /\ Len(allgroup') <= MaxId /\ Grown(allgroup, allgroup')

LEMMA HandlerOf ==
  ASSUME NEW x \in Handler
  PROVE  /\ Idle \in Handler
         /\ \A p \in Pcs : [x EXCEPT !.pc = p] \in Handler
         /\ \A p \in Pcs, b \in BOOLEAN : [x EXCEPT !.pc = p, !.ok = b] \in Handler
         /\ \A p \in Pcs, i \in Ids \cup {0} : [x EXCEPT !.pc = p, !.id = i] \in Handler
         /\ \A p \in Pcs, l \in SUBSET Ids :
              [x EXCEPT !.pc = p, !.ok = TRUE, !.list = l] \in Handler
         /\ x.op = "create" =>
              [x EXCEPT !.op = "found", !.pc = "ask", !.ok = FALSE] \in Handler
<1>1. Idle \in Handler
  BY DEF Handler, Record, Idle, Pcs, Ops
<1>2. \A p \in Pcs : [x EXCEPT !.pc = p] \in Handler
  BY DEF Handler, Record
<1>3. \A p \in Pcs, b \in BOOLEAN : [x EXCEPT !.pc = p, !.ok = b] \in Handler
  BY DEF Handler, Record
<1>4. \A p \in Pcs, i \in Ids \cup {0} : [x EXCEPT !.pc = p, !.id = i] \in Handler
  BY DEF Handler, Record
<1>5. \A p \in Pcs, l \in SUBSET Ids :
        [x EXCEPT !.pc = p, !.ok = TRUE, !.list = l] \in Handler
  BY DEF Handler, Record
<1>6. x.op = "create" => [x EXCEPT !.op = "found", !.pc = "ask", !.ok = FALSE] \in Handler
  BY DEF Handler, Record, Pcs, Ops
<1>7. QED
  BY <1>1, <1>2, <1>3, <1>4, <1>5, <1>6

LEMMA Others ==
  ASSUME NEW t \in Threads, h \in [Threads -> Handler], NEW x \in Handler,
         h' = [h EXCEPT ![t] = x]
  PROVE  h'[t] = x /\ \A r \in Threads \ {t} : h'[r] = h[r]
OBVIOUS

(* The value that Return and the other ends of a step give to h[t]. *)
LEMMA ReturnsTo ==
  ASSUME h \in [Threads -> Handler], NEW t \in Threads, Return(t)
  PROVE  \E x \in Handler :
           /\ h' = [h EXCEPT ![t] = x]
           /\ x.pc \in {"ask", "answer", "idle"}
           /\ \/ /\ h[t].op = "create" /\ h[t].ok
                 /\ x = [h[t] EXCEPT !.op = "found", !.pc = "ask", !.ok = FALSE]
              \/ /\ h[t].op \in {"reg", "members", "friends", "groups"}
                 /\ x = [h[t] EXCEPT !.pc = "answer"]
              \/ x = Idle
<1>1. h[t] \in Handler
  OBVIOUS
<1>2. CASE h[t].op = "create" /\ h[t].ok
  <2> DEFINE x == [h[t] EXCEPT !.op = "found", !.pc = "ask", !.ok = FALSE]
  <2>1. x \in Handler /\ x.pc = "ask"
    BY <1>1, <1>2, HandlerOf DEF Handler, Record
  <2>2. h' = [h EXCEPT ![t] = x]
    BY <1>2 DEF Return
  <2>3. QED  BY <1>2, <2>1, <2>2
<1>3. CASE h[t].op \in {"reg", "members", "friends", "groups"}
  <2> DEFINE x == [h[t] EXCEPT !.pc = "answer"]
  <2>1. "answer" \in Pcs
    BY DEF Pcs
  <2>2. x \in Handler /\ x.pc = "answer"
    BY <1>1, <2>1, HandlerOf DEF Handler, Record
  <2>3. h' = [h EXCEPT ![t] = x]
    BY <1>3 DEF Return
  <2>4. QED  BY <1>3, <2>2, <2>3
<1>4. CASE ~(h[t].op = "create" /\ h[t].ok) /\ h[t].op \notin {"reg", "members", "friends", "groups"}
  <2>1. Idle \in Handler /\ Idle.pc = "idle"
    BY <1>1, HandlerOf DEF Idle
  <2>2. h' = [h EXCEPT ![t] = Idle]
    BY <1>4 DEF Return
  <2>3. QED  BY <2>1, <2>2
<1>5. QED
  BY <1>2, <1>3, <1>4

-----------------------------------------------------------------------------
(*                      every step of a thread is local to it              *)

LEMMA EnterLocal ==
  ASSUME DirectoryInv, NEW t \in Threads, NEW x \in Handler, Enter(t, x)
  PROVE  Local(t)
<1> DEFINE y == [x EXCEPT !.pc = "ask"]
<1>1. "ask" \in Pcs /\ h \in [Threads -> Handler]
  BY DEF DirectoryInv, TypeOK, Pcs
<1>2. y \in Handler /\ y.pc = "ask"
  BY <1>1, HandlerOf DEF Handler, Record
<1>3. h' = [h EXCEPT ![t] = y]
  BY DEF Enter
<1>4. h'[t] = y /\ \A r \in Threads \ {t} : h'[r] = h[r]
  BY <1>1, <1>2, <1>3, Others
<1>5. PoolTypeOK' /\ OneConnectionEach'
  BY <1>2, <1>4, SamePool DEF Enter, DirectoryInv, TypeOK
<1>6. Grown(user, user) /\ Grown(allgroup, allgroup)
  BY SameGrown DEF DirectoryInv, TypeOK
<1>7. QED
  BY <1>2, <1>3, <1>5, <1>6 DEF Local, Enter, poolVars, tables, DirectoryInv, TypeOK

LEMMA RequestHandler ==
  ASSUME DirectoryInv, NEW t \in Threads, Request(t)
  PROVE  \E x \in Handler : Enter(t, x) /\ x.op # "found" /\ ~x.ok
                            /\ (x.op = "members" => x.id \in Ids /\ x.before = Members(x.id))
<1>1. 1..Len(user) \subseteq Ids
  BY DirectoryOK DEF DirectoryInv, TypeOK, Ids
<1>2. ASSUME NEW n \in Names, reg(t, n)
      PROVE  \E x \in Handler : Enter(t, x) /\ x.op # "found" /\ ~x.ok
                                /\ (x.op = "members" => x.id \in Ids /\ x.before = Members(x.id))
  <2> DEFINE x == [Idle EXCEPT !.op = "reg", !.name = n]
  <2>1. x \in Handler /\ x.op = "reg" /\ ~x.ok
    BY DEF Idle, Handler, Record, Ops, Pcs
  <2>2. QED  BY <1>2, <2>1 DEF reg
<1>3. ASSUME NEW u \in 1..Len(user), NEW op \in {"create", "friends", "groups"},
             Enter(t, [Idle EXCEPT !.op = op, !.user = u])
      PROVE  \E x \in Handler : Enter(t, x) /\ x.op # "found" /\ ~x.ok
                                /\ (x.op = "members" => x.id \in Ids /\ x.before = Members(x.id))
  <2> DEFINE x == [Idle EXCEPT !.op = op, !.user = u]
  <2>1. x \in Handler /\ x.op = op /\ ~x.ok
    BY <1>1 DEF Idle, Handler, Record, Ops, Pcs
  <2>2. QED  BY <1>3, <2>1
<1>4. ASSUME NEW u \in 1..Len(user), NEW i \in Ids, NEW op \in {"join", "befriend"},
             Enter(t, [Idle EXCEPT !.op = op, !.user = u, !.id = i])
      PROVE  \E x \in Handler : Enter(t, x) /\ x.op # "found" /\ ~x.ok
                                /\ (x.op = "members" => x.id \in Ids /\ x.before = Members(x.id))
  <2> DEFINE x == [Idle EXCEPT !.op = op, !.user = u, !.id = i]
  <2>1. x \in Handler /\ x.op = op /\ ~x.ok
    BY <1>1 DEF Idle, Handler, Record, Ops, Pcs
  <2>2. QED  BY <1>4, <2>1
<1>5. ASSUME NEW u \in 1..Len(user), NEW i \in Ids, groupChat(t, u, i)
      PROVE  \E x \in Handler : Enter(t, x) /\ x.op # "found" /\ ~x.ok
                                /\ (x.op = "members" => x.id \in Ids /\ x.before = Members(x.id))
  <2> DEFINE x == [Idle EXCEPT !.op = "members", !.user = u, !.id = i, !.before = Members(i)]
  <2>1. Members(i) \subseteq Ids
    BY DEF Members
  <2>2. x \in Handler /\ x.op = "members" /\ ~x.ok /\ x.before = Members(i) /\ x.id = i
    BY <1>1, <2>1 DEF Idle, Handler, Record, Ops, Pcs
  <2>3. QED  BY <1>5, <2>2 DEF groupChat
<1>6. QED
  BY <1>2, <1>3, <1>4, <1>5 DEF Request, createGroup, loginFriends, loginGroups, addGroup, addFriend

(* The steps with a connection in hand, which stay between two statements.  *)
LEMMA HoldingLocal ==
  ASSUME DirectoryInv, NEW t \in Threads, UNCHANGED poolVars,
         h[t].pc \in {"stmt", "more", "id", "back"},
         NEW x \in Handler, h' = [h EXCEPT ![t] = x],
         x.pc \in {"stmt", "more", "id", "back"},
         lastId' = lastId \/ \E i \in Ids \cup {0} : lastId' = [lastId EXCEPT ![used[t]] = i],
         user' \in Seq(Names), Len(user') <= MaxId, Grown(user, user'),
         allgroup' \in Seq(Ids), Len(allgroup') <= MaxId, Grown(allgroup, allgroup')
  PROVE  Local(t)
<1>1. h'[t] = x /\ \A r \in Threads \ {t} : h'[r] = h[r]
  BY Others DEF DirectoryInv, TypeOK
<1>2. PoolTypeOK' /\ OneConnectionEach'
  BY <1>1, SamePool DEF DirectoryInv, TypeOK
<1>3. QED
  BY <1>2 DEF Local, poolVars

LEMMA SameTables ==
  ASSUME DirectoryInv, user' = user, allgroup' = allgroup
  PROVE  /\ user' \in Seq(Names) /\ Len(user') <= MaxId /\ Grown(user, user')
         /\ allgroup' \in Seq(Ids) /\ Len(allgroup') <= MaxId /\ Grown(allgroup, allgroup')
BY SameGrown DEF DirectoryInv, TypeOK

LEMMA GetConnectionLocal ==
  ASSUME DirectoryInv, NEW t \in Threads, getConnection(t)
  PROVE  Local(t)
<1> DEFINE x == [h[t] EXCEPT !.pc = "stmt"]
<1>1. "stmt" \in Pcs /\ h \in [Threads -> Handler] /\ h[t] \in Handler
  BY DEF DirectoryInv, TypeOK, Pcs
<1>2. x \in Handler /\ x.pc = "stmt" /\ h' = [h EXCEPT ![t] = x]
  BY <1>1, HandlerOf DEF Handler, Record, getConnection, Goto
<1>3. h'[t] = x /\ \A r \in Threads \ {t} : h'[r] = h[r]
  BY <1>1, <1>2, Others
<1>4. Borrow(t) /\ PoolTypeOK /\ OneConnectionEach
  BY DEF getConnection, DirectoryInv, TypeOK
<1>5. used'[t] # None /\ \A r \in Threads \ {t} : used'[r] = used[r]
  <2>1. PICK p \in free : used' = [used EXCEPT ![t] = p]
    BY <1>4 DEF Borrow
  <2>2. used'[t] = p /\ p # None
    BY <1>4, <2>1, DirectoryOK DEF PoolTypeOK
  <2>3. QED  BY <2>1, <2>2
<1>6. PoolTypeOK' /\ OneConnectionEach'
  BY <1>2, <1>3, <1>4, <1>5, BorrowApart
<1>7. QED
  BY <1>2, <1>5, <1>6, SameTables DEF Local, getConnection, tables

LEMMA NoConnectionLocal ==
  ASSUME DirectoryInv, NEW t \in Threads, noConnection(t)
  PROVE  Local(t)
<1>1. h \in [Threads -> Handler] /\ PoolTypeOK /\ OneConnectionEach
  BY DEF DirectoryInv, TypeOK
<1>2. PICK x \in Handler : h' = [h EXCEPT ![t] = x] /\ x.pc \in {"ask", "answer", "idle"}
  BY <1>1, ReturnsTo DEF noConnection
<1>3. h'[t] = x /\ \A r \in Threads \ {t} : h'[r] = h[r]
  BY <1>1, <1>2, Others
<1>4. PoolTypeOK' /\ OneConnectionEach'
  BY <1>1, <1>2, <1>3, SamePool DEF noConnection
<1>5. QED
  BY <1>2, <1>4, SameTables DEF Local, noConnection, poolVars, tables

LEMMA GiveBackLocal ==
  ASSUME DirectoryInv, NEW t \in Threads, giveBack(t)
  PROVE  Local(t)
<1>1. h \in [Threads -> Handler] /\ PoolTypeOK /\ OneConnectionEach
  BY DEF DirectoryInv, TypeOK
<1>2. PICK x \in Handler : h' = [h EXCEPT ![t] = x] /\ x.pc \in {"ask", "answer", "idle"}
  BY <1>1, ReturnsTo DEF giveBack
<1>3. h'[t] = x /\ \A r \in Threads \ {t} : h'[r] = h[r]
  BY <1>1, <1>2, Others
<1>4. PoolTypeOK' /\ OneConnectionEach'
  BY <1>1, <1>2, <1>3, GiveBackApart DEF giveBack
<1>5. \A r \in Threads \ {t} : used'[r] = used[r]
  BY <1>1 DEF giveBack, GiveBack, PoolTypeOK
<1>6. QED
  BY <1>2, <1>4, <1>5, SameTables DEF Local, giveBack, tables

LEMMA AnswerLocal ==
  ASSUME DirectoryInv, NEW t \in Threads, Answer(t)
  PROVE  Local(t)
<1>1. h \in [Threads -> Handler] /\ PoolTypeOK /\ OneConnectionEach /\ h[t] \in Handler
  BY DEF DirectoryInv, TypeOK
<1>2. Idle \in Handler /\ Idle.pc = "idle" /\ h' = [h EXCEPT ![t] = Idle]
  BY <1>1, HandlerOf DEF Answer, Idle
<1>3. h'[t] = Idle /\ \A r \in Threads \ {t} : h'[r] = h[r]
  BY <1>1, <1>2, Others
<1>4. PoolTypeOK' /\ OneConnectionEach'
  BY <1>1, <1>2, <1>3, SamePool DEF Answer
<1>5. QED
  BY <1>2, <1>4, SameTables DEF Local, Answer, poolVars, tables

LEMMA GotoOf ==
  ASSUME DirectoryInv, NEW t \in Threads, NEW p \in Pcs, Goto(t, p)
  PROVE  \E x \in Handler : h' = [h EXCEPT ![t] = x] /\ x = [h[t] EXCEPT !.pc = p] /\ x.pc = p
<1> DEFINE x == [h[t] EXCEPT !.pc = p]
<1>1. h[t] \in Handler
  BY DEF DirectoryInv, TypeOK
<1>2. x \in Handler /\ x.pc = p
  BY <1>1, HandlerOf DEF Handler, Record
<1>3. h' = [h EXCEPT ![t] = x]
  BY DEF Goto
<1>4. QED
  BY <1>2, <1>3

(* The two outcomes of an insert. *)
LEMMA InsertedOf ==
  ASSUME DirectoryInv, NEW t \in Threads, NEW p \in {"id", "back"},
         NEW i \in Ids \cup {0}, Inserted(t, p, i)
  PROVE  \/ /\ \E x \in Handler : /\ h' = [h EXCEPT ![t] = x]
                                  /\ x = [h[t] EXCEPT !.pc = p, !.ok = TRUE] /\ x.pc = p
            /\ lastId' = [lastId EXCEPT ![used[t]] = i]
            /\ abandoned' = abandoned
         \/ /\ \E x \in Handler : /\ h' = [h EXCEPT ![t] = x]
                                  /\ x = [h[t] EXCEPT !.pc = "back"] /\ x.pc = "back"
            /\ lastId' = lastId
            /\ IF h[t].op = "create" THEN Abandon(i) ELSE abandoned' = abandoned
<1>1. p \in Pcs /\ "back" \in Pcs /\ h[t] \in Handler
  BY DEF Pcs, DirectoryInv, TypeOK
<1>2. CASE /\ h' = [h EXCEPT ![t].pc = p, ![t].ok = TRUE]
           /\ lastId' = [lastId EXCEPT ![used[t]] = i]
           /\ UNCHANGED abandoned
  <2> DEFINE x == [h[t] EXCEPT !.pc = p, !.ok = TRUE]
  <2>1. x \in Handler /\ x.pc = p
    BY <1>1, HandlerOf DEF Handler, Record
  <2>2. h' = [h EXCEPT ![t] = x]
    BY <1>2
  <2>3. QED  BY <2>1, <2>2, <1>2
<1>3. CASE /\ Goto(t, "back")
           /\ IF h[t].op = "create" THEN Abandon(i) ELSE UNCHANGED abandoned
           /\ UNCHANGED lastId
  <2>1. \E x \in Handler : /\ h' = [h EXCEPT ![t] = x]
                           /\ x = [h[t] EXCEPT !.pc = "back"] /\ x.pc = "back"
    BY <1>1, <1>3, GotoOf
  <2>2. QED  BY <2>1, <1>3
<1>4. QED
  BY <1>2, <1>3 DEF Inserted

-----------------------------------------------------------------------------
(*                      the steps of a thread keep the invariant           *)

(* What a step of thread t owes to the invariant besides Local(t). *)
Good(t) ==
  /\ Local(t)
  /\ Owns(h'[t], used'[t], lastId', user', allgroup')
  /\ groupuser' \in [Ids -> [Ids -> Roles \cup {"none"}]]
  /\ \A g, u \in Ids : groupuser'[g][u] = "creator" =>
       groupuser[g][u] = "creator" \/ (g \in 1..Len(allgroup) /\ allgroup[g] = u)
  /\ friend' \subseteq (Ids \cup {0}) \X (Ids \cup {0})
  /\ calls' \in 0..MaxCalls
  /\ abandoned' \subseteq Ids

LEMMA GoodIsSafe ==
  ASSUME DirectoryInv, NEW t \in Threads, Good(t)
  PROVE  DirectoryInv'
<1>1. /\ h \in [Threads -> Handler] /\ lastId \in [Mysql -> Ids \cup {0}]
      /\ used \in [Threads -> Mysql \cup {None}] /\ OneConnectionEach
      /\ user \in Seq(Names) /\ allgroup \in Seq(Ids)
  BY DEF DirectoryInv, TypeOK, PoolTypeOK
<1>2. PICK x \in Handler : h' = [h EXCEPT ![t] = x]
  BY DEF Good, Local
<1>3. h' \in [Threads -> Handler] /\ h'[t] = x /\ \A r \in Threads \ {t} : h'[r] = h[r]
  BY <1>1, <1>2
<1>4. TypeOK'
  <2>1. lastId' \in [Mysql -> Ids \cup {0}]
    BY <1>1 DEF Good, Local
  <2>2. QED  BY <1>3, <2>1 DEF Good, Local, TypeOK
<1>5. ASSUME NEW r \in Threads PROVE Owns(h'[r], used'[r], lastId', user', allgroup')
  <2>1. CASE r = t
    BY <2>1 DEF Good
  <2>2. CASE r # t
    <3>1. h'[r] = h[r] /\ used'[r] = used[r]
      BY <1>3, <2>2 DEF Good, Local
    <3>2. Owns(h[r], used[r], lastId, user, allgroup)
      BY LastIdIsOwns DEF DirectoryInv
    <3>3. h[r].pc = "id" => lastId'[used[r]] = lastId[used[r]]
      <4>1. h[r].pc = "id" => used[r] # None /\ used[r] # used[t]
        BY <1>1, <2>2 DEF OneConnectionEach
      <4>2. h[r].pc = "id" => used[r] \in Mysql
        BY <4>1, <1>1
      <4>3. QED  BY <1>1, <4>1, <4>2 DEF Good, Local
    <3>4. QED  BY <1>1, <3>1, <3>2, <3>3, OwnsKept DEF Good, Local
  <2>3. QED  BY <2>1, <2>2
<1>6. LastIdIsOwn'
  BY <1>5 DEF LastIdIsOwn, Owns
<1>7. OwnIds'
  <2>1. \A r \in Threads : At(r, "reg", "answer")' /\ h'[r].ok =>
          h'[r].id \in 1..Len(user') /\ user'[h'[r].id] = h'[r].name
    BY <1>6 DEF LastIdIsOwn, At
  <2>2. ASSUME NEW g \in Ids, NEW u \in Ids, groupuser'[g][u] = "creator"
        PROVE  g <= Len(allgroup') /\ allgroup'[g] = u
    <3>1. g \in 1..Len(allgroup) /\ allgroup[g] = u
      BY <2>2, <1>1 DEF Good, DirectoryInv, OwnIds, Ids
    <3>2. Len(allgroup) \in Nat /\ Len(allgroup') \in Nat /\ Grown(allgroup, allgroup')
      BY <1>1 DEF Good, Local
    <3>3. QED  BY <3>1, <3>2 DEF Grown
  <2>3. QED  BY <2>1, <2>2 DEF OwnIds
<1>8. QED
  BY <1>4, <1>6, <1>7 DEF DirectoryInv, Good, Local

(* A record that changes in its pc only, away from and not to "id". *)
LEMMA OwnsPc ==
  ASSUME NEW x \in Handler, NEW q \in Pcs, x.pc # "id", q # "id", NEW p, NEW r, NEW l, NEW k,
         NEW us, NEW gs, Owns(x, p, l, us, gs)
  PROVE  Owns([x EXCEPT !.pc = q], r, k, us, gs)
BY DEF Owns, Handler, Record

(* A handler without a row to answer for. *)
LEMMA OwnsNothing ==
  ASSUME NEW x \in Handler, x.pc # "id", x.op # "found",
         ~x.ok \/ x.op \notin {"reg", "create"}, NEW p, NEW l, NEW us, NEW gs
  PROVE  Owns(x, p, l, us, gs)
BY DEF Owns

LEMMA SameRest ==
  ASSUME DirectoryInv, groupuser' = groupuser, friend' = friend, calls' = calls,
         abandoned' \subseteq Ids, NEW t \in Threads, Local(t),
         Owns(h'[t], used'[t], lastId', user', allgroup')
  PROVE  Good(t)
BY DEF Good, DirectoryInv, TypeOK

LEMMA RequestGood == ASSUME DirectoryInv, NEW t \in Threads, Request(t) PROVE Good(t)
<1>1. PICK x \in Handler : Enter(t, x) /\ x.op # "found" /\ ~x.ok
  BY RequestHandler
<1>2. Local(t)
  BY <1>1, EnterLocal
<1>3. Owns(h'[t], used'[t], lastId', user', allgroup')
  <2> DEFINE y == [x EXCEPT !.pc = "ask"]
  <2>1. y \in Handler /\ y.op = x.op /\ y.ok = x.ok /\ y.pc = "ask"
    BY DEF Handler, Record, Pcs
  <2>2. h'[t] = y
    BY <1>1 DEF Enter, DirectoryInv, TypeOK
  <2>3. QED  BY <1>1, <2>1, <2>2, OwnsNothing
<1>4. calls' \in 0..MaxCalls
  BY <1>1, DirectoryOK DEF Enter, DirectoryInv, TypeOK
<1>5. QED
  BY <1>1, <1>2, <1>3, <1>4 DEF Good, Enter, tables, DirectoryInv, TypeOK

LEMMA ReturnOwns ==
  ASSUME DirectoryInv, NEW t \in Threads, Return(t), h[t].pc # "id",
         UNCHANGED <<user, allgroup, lastId>>
  PROVE  Owns(h'[t], used'[t], lastId', user', allgroup')
<1>1. h \in [Threads -> Handler] /\ h[t] \in Handler
  BY DEF DirectoryInv, TypeOK
<1>2. PICK x \in Handler :
           /\ h' = [h EXCEPT ![t] = x]
           /\ \/ /\ h[t].op = "create" /\ h[t].ok
                 /\ x = [h[t] EXCEPT !.op = "found", !.pc = "ask", !.ok = FALSE]
              \/ /\ h[t].op \in {"reg", "members", "friends", "groups"}
                 /\ x = [h[t] EXCEPT !.pc = "answer"]
              \/ x = Idle
  BY <1>1, ReturnsTo
<1>3. h'[t] = x /\ Owns(h[t], used[t], lastId, user, allgroup)
  BY <1>1, <1>2, LastIdIsOwns DEF DirectoryInv
<1>4. CASE h[t].op = "create" /\ h[t].ok
           /\ x = [h[t] EXCEPT !.op = "found", !.pc = "ask", !.ok = FALSE]
  <2>1. x.op = "found" /\ x.pc = "ask" /\ ~x.ok /\ x.id = h[t].id /\ x.user = h[t].user
    BY <1>1, <1>4 DEF Handler, Record
  <2>2. h[t].id \in 1..Len(allgroup) /\ allgroup[h[t].id] = h[t].user
    BY <1>3, <1>4 DEF Owns
  <2>3. QED  BY <1>3, <2>1, <2>2 DEF Owns
<1>5. CASE x = [h[t] EXCEPT !.pc = "answer"]
  <2>1. "answer" \in Pcs /\ "answer" # "id"
    BY DEF Pcs
  <2>2. QED  BY <1>1, <1>3, <1>5, <2>1, OwnsPc
<1>6. CASE x = Idle
  BY <1>3, <1>6, OwnsNothing DEF Idle
<1>7. QED
  BY <1>2, <1>4, <1>5, <1>6

(* The group of a handler that enters its founder exists. *)
LEMMA FoundIsGroup ==
  ASSUME DirectoryInv, NEW t \in Threads, h[t].op = "found"
  PROVE  h[t].id \in Ids /\ h[t].id \in 1..Len(allgroup) /\ allgroup[h[t].id] = h[t].user
BY DirectoryOK DEF DirectoryInv, LastIdIsOwn, TypeOK, Ids

LEMMA GetConnectionGood ==
  ASSUME DirectoryInv, NEW t \in Threads, getConnection(t) PROVE Good(t)
<1>1. h[t] \in Handler /\ h'[t] = [h[t] EXCEPT !.pc = "stmt"] /\ "stmt" \in Pcs
  BY DEF getConnection, Goto, DirectoryInv, TypeOK, Pcs
<1>2. Owns(h[t], used[t], lastId, user, allgroup)
  BY LastIdIsOwns DEF DirectoryInv
<1>3. Owns(h'[t], used'[t], lastId', user', allgroup')
  BY <1>1, <1>2, OwnsPc DEF getConnection, tables
<1>4. abandoned' \subseteq Ids
  BY DEF getConnection, DirectoryInv, TypeOK
<1>5. QED
  BY <1>3, <1>4, GetConnectionLocal, SameRest DEF getConnection, tables

LEMMA NoConnectionGood ==
  ASSUME DirectoryInv, NEW t \in Threads, noConnection(t) PROVE Good(t)
<1>1. Owns(h'[t], used'[t], lastId', user', allgroup')
  BY ReturnOwns DEF noConnection, tables
<1>2. abandoned' \subseteq Ids
  BY FoundIsGroup DEF noConnection, Abandon, DirectoryInv, TypeOK
<1>3. QED
  BY <1>1, <1>2, NoConnectionLocal, SameRest DEF noConnection, tables

LEMMA GiveBackGood ==
  ASSUME DirectoryInv, NEW t \in Threads, giveBack(t) PROVE Good(t)
<1>1. Owns(h'[t], used'[t], lastId', user', allgroup')
  BY ReturnOwns DEF giveBack, tables
<1>2. abandoned' \subseteq Ids
  BY DEF giveBack, DirectoryInv, TypeOK
<1>3. QED
  BY <1>1, <1>2, GiveBackLocal, SameRest DEF giveBack, tables

LEMMA AnswerGood ==
  ASSUME DirectoryInv, NEW t \in Threads, Answer(t) PROVE Good(t)
<1>1. Idle \in Handler /\ Idle.pc = "idle" /\ Idle.op = "none" /\ h'[t] = Idle
  BY HandlerOf DEF Answer, DirectoryInv, TypeOK, Idle
<1>2. Owns(h'[t], used'[t], lastId', user', allgroup')
  BY <1>1, OwnsNothing
<1>3. abandoned' \subseteq Ids
  BY DEF Answer, DirectoryInv, TypeOK
<1>4. QED
  BY <1>2, <1>3, AnswerLocal, SameRest DEF Answer, tables

-----------------------------------------------------------------------------
(*                      statements                                         *)

(* A statement that inserts nothing and moves the handler on. *)
LEMMA GotoGood ==
  ASSUME DirectoryInv, NEW t \in Threads, NEW p \in {"more", "back"},
         h[t].pc \in {"stmt", "more"}, Goto(t, p),
         UNCHANGED <<poolVars, tables, lastId, calls>>, abandoned' \subseteq Ids
  PROVE  Good(t)
<1>1. p \in Pcs /\ p # "id" /\ h[t] \in Handler /\ h[t].pc # "id"
  BY DEF Pcs, DirectoryInv, TypeOK
<1>2. PICK x \in Handler : /\ h' = [h EXCEPT ![t] = x]
                           /\ x = [h[t] EXCEPT !.pc = p] /\ x.pc = p
  BY <1>1, GotoOf
<1>3. Local(t)
  BY <1>2, SameTables, HoldingLocal DEF tables
<1>4. Owns(h[t], used[t], lastId, user, allgroup) /\ h'[t] = x
  BY <1>2, LastIdIsOwns DEF DirectoryInv, TypeOK
<1>5. Owns(h'[t], used'[t], lastId', user', allgroup')
  BY <1>1, <1>2, <1>4, OwnsPc DEF tables
<1>6. QED
  BY <1>3, <1>5, SameRest DEF tables

(* Rows that a handler reads. *)
LEMMA ReadGood ==
  ASSUME DirectoryInv, NEW t \in Threads, NEW p \in {"more", "back"},
         h[t].pc = "stmt", h[t].op \in {"friends", "groups", "members"},
         NEW rows \in SUBSET Ids, Read(t, p, rows)
  PROVE  Good(t)
<1> DEFINE x == [h[t] EXCEPT !.pc = p, !.ok = TRUE, !.list = rows]
<1>1. p \in Pcs /\ p # "id" /\ h[t] \in Handler /\ h \in [Threads -> Handler]
  BY DEF Pcs, DirectoryInv, TypeOK
<1>2. x \in Handler /\ x.pc = p /\ x.op = h[t].op
  BY <1>1, HandlerOf DEF Handler, Record
<1>3. h' = [h EXCEPT ![t] = x]
  BY DEF Read
<1>4. Local(t)
  BY <1>2, <1>3, SameTables, HoldingLocal DEF Read, tables
<1>5. h'[t] = x
  BY <1>1, <1>3
<1>6. Owns(h'[t], used'[t], lastId', user', allgroup')
  BY <1>1, <1>2, <1>5, OwnsNothing
<1>7. abandoned' \subseteq Ids
  BY DEF Read, DirectoryInv, TypeOK
<1>8. QED
  BY <1>4, <1>6, <1>7, SameRest DEF Read, tables

LEMMA SelectGood ==
  ASSUME DirectoryInv, NEW t \in Threads,
         selectFriends(t) \/ selectGroups(t) \/ selectGroupMembers(t) \/ selectMembers(t)
  PROVE  Good(t)
<1>1. 1..Len(user) \subseteq Ids /\ 1..Len(allgroup) \subseteq Ids /\ abandoned \subseteq Ids
  BY DirectoryOK DEF DirectoryInv, TypeOK, Ids
<1>2. CASE selectFriends(t)
  <2> DEFINE rows == {f \in 1..Len(user) : <<h[t].user, f>> \in friend}
  <2>1. rows \in SUBSET Ids
    BY <1>1
  <2>2. Read(t, "back", rows) /\ h[t].pc = "stmt" /\ h[t].op = "friends"
    BY <1>2 DEF selectFriends, At
  <2> HIDE DEF rows
  <2>3. QED  BY <2>1, <2>2, ReadGood
<1>3. CASE selectGroups(t)
  <2> DEFINE rows == Groups(h[t].user)
             p == IF rows = {} THEN "back" ELSE "more"
  <2>1. rows \in SUBSET Ids
    BY <1>1 DEF Groups
  <2>2. Read(t, p, rows) /\ h[t].pc = "stmt" /\ h[t].op = "groups"
    BY <1>3 DEF selectGroups, At
  <2>3. p \in {"more", "back"}
    OBVIOUS
  <2> HIDE DEF rows, p
  <2>4. QED  BY <2>1, <2>2, <2>3, ReadGood
<1>4. CASE selectGroupMembers(t)
  BY <1>1, <1>4, GotoGood DEF selectGroupMembers, At
<1>5. CASE selectMembers(t)
  <2> DEFINE rows == Members(h[t].id) \ {h[t].user}
  <2>1. rows \in SUBSET Ids
    BY DEF Members
  <2>2. Read(t, "back", rows) /\ h[t].pc = "stmt" /\ h[t].op = "members"
    BY <1>5 DEF selectMembers, At
  <2> HIDE DEF rows
  <2>3. QED  BY <2>1, <2>2, ReadGood
<1>6. QED
  BY <1>2, <1>3, <1>4, <1>5

LEMMA FailGood ==
  ASSUME DirectoryInv, NEW t \in Threads, statementFails(t) PROVE Good(t)
<1>1. abandoned' \subseteq Ids
  BY FoundIsGroup DEF statementFails, Abandon, DirectoryInv, TypeOK
<1>2. QED
  BY <1>1, GotoGood DEF statementFails

LEMMA InsertIdGood ==
  ASSUME DirectoryInv, NEW t \in Threads, insertId(t) PROVE Good(t)
<1> DEFINE x == [h[t] EXCEPT !.pc = "back", !.id = lastId[used[t]]]
<1>1. /\ "back" \in Pcs /\ h[t] \in Handler /\ h \in [Threads -> Handler]
      /\ h[t].pc = "id" /\ Owns(h[t], used[t], lastId, user, allgroup)
  BY LastIdIsOwns DEF insertId, Pcs, DirectoryInv, TypeOK
<1>2. lastId[used[t]] \in Ids \cup {0}
  <2>1. used[t] \in Mysql
    BY <1>1 DEF DirectoryInv, TypeOK, PoolTypeOK, OneConnectionEach
  <2>2. QED  BY <2>1 DEF DirectoryInv, TypeOK
<1>3. /\ x \in Handler /\ x.pc = "back" /\ x.op = h[t].op /\ x.ok = h[t].ok
      /\ x.id = lastId[used[t]] /\ x.user = h[t].user /\ x.name = h[t].name
  BY <1>1, <1>2, HandlerOf DEF Handler, Record
<1>4. h' = [h EXCEPT ![t] = x]
  BY DEF insertId
<1>5. Local(t)
  BY <1>1, <1>3, <1>4, SameTables, HoldingLocal DEF insertId, tables
<1>6. h'[t] = x
  BY <1>1, <1>4
<1>7. Owns(x, used'[t], lastId', user', allgroup')
  BY <1>1, <1>3 DEF Owns, insertId, tables
<1>8. abandoned' \subseteq Ids
  BY DEF insertId, DirectoryInv, TypeOK
<1>9. QED
  BY <1>5, <1>6, <1>7, <1>8, SameRest DEF insertId, tables

LEMMA InsertFriendGood ==
  ASSUME DirectoryInv, NEW t \in Threads, insertFriend(t) PROVE Good(t)
<1>1. /\ Inserted(t, "back", 0) /\ h[t].op = "befriend" /\ h[t].pc = "stmt"
      /\ h[t] \in Handler /\ h \in [Threads -> Handler] /\ abandoned \subseteq Ids
  BY DEF insertFriend, At, DirectoryInv, TypeOK
<1>2. PICK x \in Handler : /\ h' = [h EXCEPT ![t] = x] /\ x.pc = "back"
                           /\ x.op = "befriend"
                           /\ abandoned' = abandoned
                           /\ lastId' = lastId \/ lastId' = [lastId EXCEPT ![used[t]] = 0]
  <2>1. \/ \E x \in Handler : h' = [h EXCEPT ![t] = x] /\ x = [h[t] EXCEPT !.pc = "back", !.ok = TRUE]
        \/ \E x \in Handler : h' = [h EXCEPT ![t] = x] /\ x = [h[t] EXCEPT !.pc = "back"]
    BY <1>1, InsertedOf
  <2>2. abandoned' = abandoned
    BY <1>1, InsertedOf
  <2>3. lastId' = lastId \/ lastId' = [lastId EXCEPT ![used[t]] = 0]
    BY <1>1, InsertedOf
  <2>4. PICK x \in Handler : /\ h' = [h EXCEPT ![t] = x]
                             /\ \/ x = [h[t] EXCEPT !.pc = "back", !.ok = TRUE]
                                \/ x = [h[t] EXCEPT !.pc = "back"]
    BY <2>1
  <2>5. x.pc = "back" /\ x.op = "befriend"
    BY <1>1, <2>4 DEF Handler, Record
  <2>6. QED  BY <2>2, <2>3, <2>4, <2>5
<1>3. Local(t)
  BY <1>1, <1>2, SameTables, HoldingLocal DEF insertFriend
<1>4. Owns(h'[t], used'[t], lastId', user', allgroup')
  BY <1>1, <1>2, OwnsNothing
<1>5. <<h[t].user, h[t].id>> \in (Ids \cup {0}) \X (Ids \cup {0})
  BY <1>1 DEF Handler, Record
<1>6. QED
  BY <1>2, <1>3, <1>4, <1>5 DEF Good, insertFriend, DirectoryInv, TypeOK

(* What is left of a failed insert: the handler gives the connection back.  *)
LEMMA BackOwns ==
  ASSUME DirectoryInv, NEW t \in Threads, h[t].pc = "stmt",
         NEW x \in Handler, x = [h[t] EXCEPT !.pc = "back"], h' = [h EXCEPT ![t] = x],
         user' \in Seq(Names), Grown(user, user'),
         allgroup' \in Seq(Ids), Grown(allgroup, allgroup'), NEW r, NEW l
  PROVE  Owns(h'[t], r, l, user', allgroup')
<1>1. /\ h[t] \in Handler /\ h'[t] = x /\ user \in Seq(Names) /\ allgroup \in Seq(Ids)
      /\ Owns(h[t], used[t], lastId, user, allgroup) /\ "back" \in Pcs
  BY LastIdIsOwns DEF DirectoryInv, TypeOK, Pcs
<1>2. Owns(x, r, l, user, allgroup)
  BY <1>1, OwnsPc
<1>3. Owns(x, r, l, user', allgroup')
  BY <1>1, <1>2, OwnsKept
<1>4. QED
  BY <1>1, <1>3

(* An insert into user or allgroup of a row with number row. *)
LEMMA NewRowGood ==
  ASSUME DirectoryInv, NEW t \in Threads, NEW row \in Ids, Inserted(t, "id", row),
         h[t].pc = "stmt", h[t].op \in {"reg", "create"},
         user' \in Seq(Names), Len(user') <= MaxId, Grown(user, user'),
         allgroup' \in Seq(Ids), Len(allgroup') <= MaxId, Grown(allgroup, allgroup'),
         IF h[t].op = "reg" THEN row \in 1..Len(user') /\ user'[row] = h[t].name
                            ELSE row \in 1..Len(allgroup') /\ allgroup'[row] = h[t].user,
         UNCHANGED <<poolVars, groupuser, friend, calls>>
  PROVE  Good(t)
<1>1. /\ h[t] \in Handler /\ h \in [Threads -> Handler] /\ abandoned \subseteq Ids
      /\ lastId \in [Mysql -> Ids \cup {0}] /\ used[t] \in Mysql
  BY DEF DirectoryInv, TypeOK, PoolTypeOK, OneConnectionEach
<1>2. CASE /\ \E x \in Handler : /\ h' = [h EXCEPT ![t] = x]
                                 /\ x = [h[t] EXCEPT !.pc = "id", !.ok = TRUE] /\ x.pc = "id"
           /\ lastId' = [lastId EXCEPT ![used[t]] = row]
           /\ abandoned' = abandoned
  <2>1. PICK x \in Handler : /\ h' = [h EXCEPT ![t] = x]
                             /\ x = [h[t] EXCEPT !.pc = "id", !.ok = TRUE]
    BY <1>2
  <2>2. /\ x.pc = "id" /\ x.ok /\ x.op = h[t].op /\ x.name = h[t].name
        /\ x.user = h[t].user /\ h'[t] = x
    BY <1>1, <2>1 DEF Handler, Record
  <2>3. Local(t)
    BY <1>2, <2>1, <2>2, HoldingLocal
  <2>4. lastId'[used'[t]] = row
    BY <1>1, <1>2 DEF poolVars
  <2>5. Owns(h'[t], used'[t], lastId', user', allgroup')
    BY <2>2, <2>4 DEF Owns
  <2>6. QED  BY <1>1, <1>2, <2>3, <2>5, SameRest
<1>3. CASE /\ \E x \in Handler : /\ h' = [h EXCEPT ![t] = x]
                                 /\ x = [h[t] EXCEPT !.pc = "back"] /\ x.pc = "back"
           /\ lastId' = lastId
           /\ IF h[t].op = "create" THEN Abandon(row) ELSE abandoned' = abandoned
  <2>1. PICK x \in Handler : /\ h' = [h EXCEPT ![t] = x]
                             /\ x = [h[t] EXCEPT !.pc = "back"] /\ x.pc = "back"
    BY <1>3
  <2>2. Local(t)
    BY <1>3, <2>1, HoldingLocal
  <2>3. Owns(h'[t], used'[t], lastId', user', allgroup')
    BY <2>1, BackOwns
  <2>4. abandoned' \subseteq Ids
    BY <1>1, <1>3 DEF Abandon
  <2>5. QED  BY <2>2, <2>3, <2>4, SameRest
<1>4. QED
  BY <1>2, <1>3, InsertedOf

LEMMA InsertUserGood ==
  ASSUME DirectoryInv, NEW t \in Threads, insertUser(t) PROVE Good(t)
<1>1. /\ h[t].op = "reg" /\ h[t].pc = "stmt" /\ h[t] \in Handler /\ abandoned \subseteq Ids
      /\ user \in Seq(Names) /\ Len(user) \in Nat /\ Len(user) <= MaxId /\ MaxId \in Nat
  BY DirectoryOK DEF insertUser, At, DirectoryInv, TypeOK
<1>2. CASE Goto(t, "back") /\ UNCHANGED <<user, lastId, abandoned>>
  BY <1>1, <1>2, GotoGood DEF insertUser, tables
<1>3. CASE /\ Len(user) # MaxId
           /\ user' = Append(user, h[t].name) /\ Inserted(t, "id", Len(user) + 1)
  <2>1. h[t].name \in Names
    BY <1>1 DEF Handler
  <2>2. /\ user' \in Seq(Names) /\ Len(user') = Len(user) + 1
        /\ user'[Len(user) + 1] = h[t].name /\ Grown(user, user')
    BY <1>1, <1>3, <2>1, AppendGrown
  <2>3. Len(user) + 1 \in Ids /\ Len(user') <= MaxId /\ Len(user) + 1 \in 1..Len(user')
    BY <1>1, <1>3, <2>2 DEF Ids
  <2>4. /\ allgroup' \in Seq(Ids) /\ Len(allgroup') <= MaxId /\ Grown(allgroup, allgroup')
        /\ UNCHANGED <<poolVars, groupuser, friend, calls>>
    BY SameGrown DEF insertUser, DirectoryInv, TypeOK
  <2>5. QED  BY <1>1, <1>3, <2>2, <2>3, <2>4, NewRowGood
<1>4. QED
  BY <1>2, <1>3 DEF insertUser

LEMMA InsertGroupGood ==
  ASSUME DirectoryInv, NEW t \in Threads, insertGroup(t) PROVE Good(t)
<1>1. /\ h[t].op = "create" /\ h[t].pc = "stmt" /\ h[t] \in Handler /\ abandoned \subseteq Ids
      /\ allgroup \in Seq(Ids) /\ Len(allgroup) \in Nat /\ Len(allgroup) <= MaxId
      /\ MaxId \in Nat
  BY DirectoryOK DEF insertGroup, At, DirectoryInv, TypeOK
<1>2. CASE Goto(t, "back") /\ UNCHANGED <<allgroup, lastId, abandoned>>
  BY <1>1, <1>2, GotoGood DEF insertGroup, tables
<1>3. CASE /\ Len(allgroup) # MaxId
           /\ allgroup' = Append(allgroup, h[t].user) /\ Inserted(t, "id", Len(allgroup) + 1)
  <2>1. h[t].user \in Ids
    BY <1>1 DEF Handler
  <2>2. /\ allgroup' \in Seq(Ids) /\ Len(allgroup') = Len(allgroup) + 1
        /\ allgroup'[Len(allgroup) + 1] = h[t].user /\ Grown(allgroup, allgroup')
    BY <1>1, <1>3, <2>1, AppendGrown
  <2>3. /\ Len(allgroup) + 1 \in Ids /\ Len(allgroup') <= MaxId
        /\ Len(allgroup) + 1 \in 1..Len(allgroup')
    BY <1>1, <1>3, <2>2 DEF Ids
  <2>4. /\ user' \in Seq(Names) /\ Len(user') <= MaxId /\ Grown(user, user')
        /\ UNCHANGED <<poolVars, groupuser, friend, calls>>
    BY SameGrown DEF insertGroup, DirectoryInv, TypeOK
  <2>5. QED  BY <1>1, <1>3, <2>2, <2>3, <2>4, NewRowGood
<1>4. QED
  BY <1>2, <1>3 DEF insertGroup

LEMMA InsertMemberGood ==
  ASSUME DirectoryInv, NEW t \in Threads, insertMember(t) PROVE Good(t)
<1> DEFINE g == h[t].id
           u == h[t].user
           role == IF h[t].op = "found" THEN "creator" ELSE "normal"
<1>1. /\ h[t].op \in {"found", "join"} /\ h[t].pc = "stmt" /\ h[t] \in Handler
      /\ h \in [Threads -> Handler] /\ abandoned \subseteq Ids
      /\ groupuser \in [Ids -> [Ids -> Roles \cup {"none"}]]
      /\ friend \subseteq (Ids \cup {0}) \X (Ids \cup {0}) /\ calls \in 0..MaxCalls
      /\ Owns(h[t], used[t], lastId, user, allgroup)
  BY LastIdIsOwns DEF insertMember, DirectoryInv, TypeOK
<1>2. CASE /\ Goto(t, "back") /\ UNCHANGED <<groupuser, lastId>>
           /\ IF h[t].op = "found" THEN Abandon(g) ELSE UNCHANGED abandoned
  <2>1. abandoned' \subseteq Ids
    BY <1>1, <1>2, FoundIsGroup DEF Abandon
  <2>2. QED  BY <1>1, <1>2, <2>1, GotoGood DEF insertMember, tables
<1>3. CASE /\ groupuser' = [groupuser EXCEPT ![g][u] = role]
           /\ Inserted(t, "back", 0)
  <2>1. \/ \E x \in Handler : h' = [h EXCEPT ![t] = x] /\ x = [h[t] EXCEPT !.pc = "back", !.ok = TRUE]
        \/ \E x \in Handler : h' = [h EXCEPT ![t] = x] /\ x = [h[t] EXCEPT !.pc = "back"]
    BY <1>1, <1>3, InsertedOf
  <2>2. /\ abandoned' = abandoned
        /\ lastId' = lastId \/ lastId' = [lastId EXCEPT ![used[t]] = 0]
    BY <1>1, <1>3, InsertedOf
  <2>3. PICK x \in Handler : /\ h' = [h EXCEPT ![t] = x]
                             /\ \/ x = [h[t] EXCEPT !.pc = "back", !.ok = TRUE]
                                \/ x = [h[t] EXCEPT !.pc = "back"]
    BY <2>1
  <2>4. x.pc = "back" /\ x.op = h[t].op /\ x.id = h[t].id /\ x.user = h[t].user
    BY <1>1, <2>3 DEF Handler, Record
  <2>5. Local(t)
    BY <1>1, <2>2, <2>3, <2>4, SameTables, HoldingLocal DEF insertMember
  <2>6. Owns(h'[t], used'[t], lastId', user', allgroup')
    BY <1>1, <2>3, <2>4 DEF Owns, insertMember
  <2>7. groupuser' \in [Ids -> [Ids -> Roles \cup {"none"}]]
    BY <1>1, <1>3 DEF Roles
  <2>8. ASSUME NEW a \in Ids, NEW b \in Ids, groupuser'[a][b] = "creator"
        PROVE  groupuser[a][b] = "creator" \/ (a \in 1..Len(allgroup) /\ allgroup[a] = b)
    <3>1. CASE a = g /\ b = u
      <4>1. groupuser'[a][b] = role
        BY <1>1, <1>3, <3>1
      <4>2. h[t].op = "found"
        BY <2>8, <4>1
      <4>3. QED  BY <3>1, <4>2, FoundIsGroup
    <3>2. CASE a # g \/ b # u
      BY <1>1, <1>3, <2>8, <3>2
    <3>3. QED  BY <3>1, <3>2
  <2>9. QED
    BY <1>1, <2>2, <2>5, <2>6, <2>7, <2>8 DEF Good, insertMember
<1>4. QED
  BY <1>2, <1>3 DEF insertMember

LEMMA StepGood ==
  ASSUME DirectoryInv, NEW t \in Threads, Request(t) \/ Step(t) PROVE Good(t)
BY RequestGood, GetConnectionGood, NoConnectionGood, GiveBackGood, AnswerGood, FailGood,
   InsertUserGood, InsertGroupGood, InsertMemberGood, InsertFriendGood, SelectGood,
   InsertIdGood
   DEF Step, Statement

-----------------------------------------------------------------------------
(*                      the pool and the process                           *)

LEMMA ResizeSafe == ASSUME DirectoryInv, resize PROVE DirectoryInv'
<1>1. PoolTypeOK /\ OneConnectionEach
  BY DEF DirectoryInv, TypeOK
<1>2. PoolTypeOK' /\ OneConnectionEach'
  <2>1. CASE Grow
    <3>1. PICK p \in Mysql \ (free \cup Lent) : free' = free \cup {p} /\ used' = used
      BY <2>1 DEF Grow
    <3>2. \A t \in Threads : used[t] # p
      BY <3>1, DirectoryOK DEF Lent
    <3>3. QED  BY <1>1, <3>1, <3>2 DEF resize, PoolTypeOK, OneConnectionEach
  <2>2. CASE Shrink
    BY <1>1, <2>2 DEF resize, Shrink, PoolTypeOK, OneConnectionEach
  <2>3. QED  BY <2>1, <2>2 DEF resize
<1>3. used' = used
  BY DEF resize, Grow, Shrink
<1>4. TypeOK'
  BY <1>2 DEF resize, tables, DirectoryInv, TypeOK
<1>5. LastIdIsOwn' /\ OwnIds'
  BY <1>3 DEF resize, tables, DirectoryInv, LastIdIsOwn, OwnIds, At
<1>6. QED
  BY <1>2, <1>4, <1>5 DEF DirectoryInv

LEMMA KillSafe == ASSUME DirectoryInv, Kill PROVE DirectoryInv'
<1>1. /\ Idle \in Handler /\ Idle.pc = "idle" /\ Idle.op = "none" /\ ~Idle.ok
      /\ \A t \in Threads : h'[t] = Idle
  BY DEF Kill, Idle, Handler, Record, Ops, Pcs
<1>2. PoolTypeOK'
  BY DEF Kill, Lent, DirectoryInv, TypeOK, PoolTypeOK
<1>3. OneConnectionEach'
  <2>1. \A t \in Threads : used'[t] = None
    BY DEF Kill
  <2>2. None \notin free'
    BY <1>2, DirectoryOK DEF PoolTypeOK
  <2>3. QED  BY <1>1, <2>1, <2>2 DEF OneConnectionEach
<1>4. TypeOK'
  BY <1>1, <1>2 DEF Kill, tables, DirectoryInv, TypeOK
<1>5. LastIdIsOwn' /\ OwnIds'
  BY <1>1 DEF Kill, tables, DirectoryInv, LastIdIsOwn, OwnIds, At
<1>6. QED
  BY <1>3, <1>4, <1>5 DEF DirectoryInv

LEMMA InitSafe == Init => DirectoryInv
<1> SUFFICES ASSUME Init PROVE DirectoryInv
  OBVIOUS
<1>1. /\ Idle \in Handler /\ Idle.pc = "idle" /\ Idle.op = "none" /\ ~Idle.ok
      /\ \A t \in Threads : h[t] = Idle
  BY DEF Init, Idle, Handler, Record, Ops, Pcs
<1>2. PoolTypeOK /\ \A t \in Threads : used[t] = None
  BY DEF Init, PoolInit, PoolTypeOK
<1>3. None \notin free
  BY <1>2, DirectoryOK DEF PoolTypeOK
<1>4. TypeOK
  BY <1>1, <1>2, DirectoryOK DEF Init, TypeOK, Ids, Roles
<1>5. OneConnectionEach /\ LastIdIsOwn
  BY <1>1, <1>2, <1>3 DEF OneConnectionEach, LastIdIsOwn
<1>6. OwnIds
  BY <1>1 DEF Init, OwnIds, At
<1>7. QED
  BY <1>4, <1>5, <1>6 DEF DirectoryInv

LEMMA InvStep == DirectoryInv /\ [Next]_vars => DirectoryInv'
<1> SUFFICES ASSUME DirectoryInv, [Next]_vars PROVE DirectoryInv'
  OBVIOUS
<1>1. ASSUME NEW t \in Threads, Request(t) \/ Step(t) PROVE DirectoryInv'
  BY <1>1, StepGood, GoodIsSafe
<1>2. CASE UNCHANGED vars
  <2>1. TypeOK' /\ OneConnectionEach'
    BY <1>2 DEF vars, poolVars, tables, DirectoryInv, TypeOK, PoolTypeOK, OneConnectionEach
  <2>2. LastIdIsOwn' /\ OwnIds'
    BY <1>2 DEF vars, poolVars, tables, DirectoryInv, LastIdIsOwn, OwnIds, At
  <2>3. QED  BY <2>1, <2>2 DEF DirectoryInv
<1>3. QED
  BY <1>1, <1>2, ResizeSafe, KillSafe DEF Next

(* DirectoryInv: until a method has read it, the last id of the connection  *)
(* it has borrowed is that of the row it inserted (usermodel.cc:17-21,      *)
(* groupmodel.cc:10-14), and the founder is entered in the group he made.   *)
THEOREM DirectoryInvariant == Spec => []DirectoryInv
BY InitSafe, InvStep, PTL DEF Spec

-----------------------------------------------------------------------------
(*                      the results                                        *)

(* No two methods use one connection at a time, a method has one for all    *)
(* its statements, and a handler that waits for a connection has none.      *)
THEOREM OwnConnection == Spec => []OneConnectionEach
<1>1. DirectoryInv => OneConnectionEach
  BY DEF DirectoryInv
<1>2. QED  BY <1>1, DirectoryInvariant, PTL

(* Whatever threads insert at the same time, a registration is answered     *)
(* with the id of its own row, and only the one who chose a group's name    *)
(* becomes its creator.                                                     *)
THEOREM OwnIdReturned == Spec => []OwnIds
<1>1. DirectoryInv => OwnIds
  BY DEF DirectoryInv
<1>2. QED  BY <1>1, DirectoryInvariant, PTL

-----------------------------------------------------------------------------
(*                      no group is forgotten                              *)

(* What a step of thread t owes to the groups: what is settled stays so, a  *)
(* new group or the one whose founder it was about to enter is settled or   *)
(* still its to found.                                                      *)
Fate(t) ==
  /\ abandoned \subseteq abandoned'
  /\ \A g, u \in Ids : groupuser[g][u] = "creator" => groupuser'[g][u] = "creator"
  /\ \A g \in 1..Len(allgroup') : (g \notin 1..Len(allgroup) \/ Founding(t, g)) =>
       groupuser'[g][allgroup'[g]] = "creator" \/ Founding(t, g)' \/ g \in abandoned'

LEMMA FateIsSafe ==
  ASSUME DirectoryInv, FoundedOrAbandoned, NEW t \in Threads, Good(t), Fate(t)
  PROVE  FoundedOrAbandoned'
<1> SUFFICES ASSUME NEW g \in 1..Len(allgroup')
             PROVE  \/ groupuser'[g][allgroup'[g]] = "creator"
                    \/ \E r \in Threads : Founding(r, g)'
                    \/ g \in abandoned'
  BY DEF FoundedOrAbandoned
<1>1. /\ h \in [Threads -> Handler] /\ lastId \in [Mysql -> Ids \cup {0}]
      /\ used \in [Threads -> Mysql \cup {None}] /\ OneConnectionEach
      /\ allgroup \in Seq(Ids) /\ Len(allgroup) \in Nat /\ Len(allgroup) <= MaxId
      /\ MaxId \in Nat
  BY DirectoryOK DEF DirectoryInv, TypeOK, PoolTypeOK
<1>2. CASE g \notin 1..Len(allgroup) \/ Founding(t, g)
  BY <1>2 DEF Fate
<1>3. CASE g \in 1..Len(allgroup) /\ ~Founding(t, g)
  <2>1. allgroup'[g] = allgroup[g] /\ g \in Ids /\ allgroup[g] \in Ids
    BY <1>1, <1>3 DEF Good, Local, Grown, Ids
  <2>2. CASE groupuser[g][allgroup[g]] = "creator" \/ g \in abandoned
    BY <2>1, <2>2 DEF Fate
  <2>3. ASSUME NEW r \in Threads, Founding(r, g)
        PROVE  Founding(r, g)'
    <3>1. r # t
      BY <1>3, <2>3
    <3>2. h'[r] = h[r] /\ used'[r] = used[r]
      BY <1>1, <3>1 DEF Good, Local
    <3>3. h[r].pc = "id" => lastId'[used[r]] = lastId[used[r]]
      <4>1. h[r].pc = "id" => used[r] # None /\ used[r] # used[t]
        BY <1>1, <3>1 DEF OneConnectionEach
      <4>2. h[r].pc = "id" => used[r] \in Mysql
        BY <4>1, <1>1
      <4>3. QED  BY <1>1, <4>1, <4>2 DEF Good, Local
    <3>4. QED  BY <2>3, <3>2, <3>3 DEF Founding, At
  <2>4. QED  BY <1>3, <2>2, <2>3 DEF FoundedOrAbandoned
<1>4. QED
  BY <1>2, <1>3

(* The steps that neither create a group nor are about to found one. *)
LEMMA FateOfOthers ==
  ASSUME DirectoryInv, NEW t \in Threads, allgroup' = allgroup, abandoned \subseteq abandoned',
         \A g, u \in Ids : groupuser[g][u] = "creator" => groupuser'[g][u] = "creator",
         \A g \in 1..Len(allgroup) : Founding(t, g) => Founding(t, g)' \/ g \in abandoned'
  PROVE  Fate(t)
BY DEF Fate

LEMMA FateOfRequest == ASSUME DirectoryInv, NEW t \in Threads, Request(t) PROVE Fate(t)
<1>1. PICK x \in Handler : Enter(t, x)
  BY RequestHandler
<1>2. \A g \in 1..Len(allgroup) : ~Founding(t, g)
  BY <1>1 DEF Enter, Founding, At
<1>3. QED
  BY <1>1, <1>2, FateOfOthers DEF Enter, tables

LEMMA FateOfReturn ==
  ASSUME DirectoryInv, NEW t \in Threads,
         noConnection(t) \/ giveBack(t) \/ Answer(t) \/ statementFails(t)
  PROVE  Fate(t)
<1>1. CASE noConnection(t) \/ statementFails(t)
  <2>1. \A g \in 1..Len(allgroup) : Founding(t, g) => g \in abandoned'
    BY <1>1 DEF noConnection, statementFails, Founding, At, Abandon
  <2>2. QED
    BY <1>1, <2>1, FateOfOthers DEF noConnection, statementFails, Abandon, tables
<1>2. CASE giveBack(t)
  <2>1. ASSUME NEW g \in 1..Len(allgroup), Founding(t, g) PROVE Founding(t, g)'
    <3>1. h[t].op = "create" /\ h[t].ok /\ h[t].id = g
      BY <1>2, <2>1 DEF giveBack, Founding, At
    <3>2. h' = [h EXCEPT ![t] = [h[t] EXCEPT !.op = "found", !.pc = "ask", !.ok = FALSE]]
      BY <1>2, <3>1 DEF giveBack, Return
    <3>3. h'[t].op = "found" /\ h'[t].pc = "ask" /\ h'[t].id = g
      BY <3>1, <3>2 DEF DirectoryInv, TypeOK, Handler, Record
    <3>4. QED  BY <3>3 DEF Founding
  <2>2. QED
    BY <1>2, <2>1, FateOfOthers DEF giveBack, tables
<1>3. CASE Answer(t)
  <2>1. \A g \in 1..Len(allgroup) : ~Founding(t, g)
    BY <1>3 DEF Answer, Founding, At
  <2>2. QED
    BY <1>3, <2>1, FateOfOthers DEF Answer, tables
<1>4. QED
  BY <1>1, <1>2, <1>3

LEMMA FateOfGetConnection ==
  ASSUME DirectoryInv, NEW t \in Threads, getConnection(t) PROVE Fate(t)
<1>1. ASSUME NEW g \in 1..Len(allgroup), Founding(t, g) PROVE Founding(t, g)'
  <2>1. h[t].op = "found" /\ h[t].id = g
    BY <1>1 DEF getConnection, Founding, At
  <2>2. h'[t].op = "found" /\ h'[t].pc = "stmt" /\ h'[t].id = g
    BY <2>1 DEF getConnection, Goto, DirectoryInv, TypeOK, Handler, Record
  <2>3. QED  BY <2>2 DEF Founding
<1>2. QED
  BY <1>1, FateOfOthers DEF getConnection, tables

LEMMA FateOfInsertId == ASSUME DirectoryInv, NEW t \in Threads, insertId(t) PROVE Fate(t)
<1>1. ASSUME NEW g \in 1..Len(allgroup), Founding(t, g) PROVE Founding(t, g)'
  <2>1. h[t].op = "create" /\ lastId[used[t]] = g /\ h[t].ok
    BY <1>1 DEF insertId, Founding, At, DirectoryInv, LastIdIsOwn
  <2>2. h'[t].op = "create" /\ h'[t].pc = "back" /\ h'[t].id = g /\ h'[t].ok
    BY <2>1 DEF insertId, DirectoryInv, TypeOK, Handler, Record
  <2>3. QED  BY <2>2 DEF Founding, At
<1>2. QED
  BY <1>1, FateOfOthers DEF insertId, tables

(* Statements of other methods. *)
LEMMA FateOfStatement ==
  ASSUME DirectoryInv, NEW t \in Threads,
         insertUser(t) \/ insertFriend(t) \/ selectFriends(t) \/ selectGroups(t)
           \/ selectGroupMembers(t) \/ selectMembers(t)
  PROVE  Fate(t)
<1>1. /\ h[t].op \notin {"create", "found"}
      /\ allgroup' = allgroup /\ groupuser' = groupuser
  BY DEF insertUser, insertFriend, selectFriends, selectGroups, selectGroupMembers,
         selectMembers, Read, At, tables
<1>2. abandoned' = abandoned
  BY <1>1 DEF insertUser, insertFriend, selectFriends, selectGroups, selectGroupMembers,
         selectMembers, Read, At, Inserted
<1>3. \A g \in 1..Len(allgroup) : ~Founding(t, g)
  BY <1>1 DEF Founding, At
<1>4. QED
  BY <1>1, <1>2, <1>3, FateOfOthers

LEMMA FateOfInsertGroup ==
  ASSUME DirectoryInv, NEW t \in Threads, insertGroup(t) PROVE Fate(t)
<1>1. /\ h[t].op = "create" /\ h[t].pc = "stmt" /\ h[t] \in Handler
      /\ h \in [Threads -> Handler] /\ allgroup \in Seq(Ids) /\ Len(allgroup) \in Nat
      /\ lastId \in [Mysql -> Ids \cup {0}] /\ used[t] \in Mysql
      /\ used' = used /\ groupuser' = groupuser
  BY DEF insertGroup, At, poolVars, DirectoryInv, TypeOK, PoolTypeOK, OneConnectionEach
<1>2. \A g \in 1..Len(allgroup) : ~Founding(t, g)
  BY <1>1 DEF Founding, At
<1>3. CASE UNCHANGED <<allgroup, lastId, abandoned>>
  BY <1>1, <1>2, <1>3, FateOfOthers
<1>4. CASE /\ Len(allgroup) # MaxId
           /\ allgroup' = Append(allgroup, h[t].user) /\ Inserted(t, "id", Len(allgroup) + 1)
  <2> DEFINE row == Len(allgroup) + 1
  <2>1. h[t].user \in Ids
    BY <1>1 DEF Handler
  <2>2. \A g \in 1..Len(allgroup') : g \in 1..Len(allgroup) \/ g = row
    BY <1>1, <1>4, <2>1, AppendGrown
  <2>3. CASE /\ h' = [h EXCEPT ![t].pc = "id", ![t].ok = TRUE]
             /\ lastId' = [lastId EXCEPT ![used[t]] = row] /\ UNCHANGED abandoned
    <3>1. h'[t].op = "create" /\ h'[t].pc = "id" /\ lastId'[used'[t]] = row
      BY <1>1, <2>3 DEF Handler, Record
    <3>2. ASSUME NEW g, g = row PROVE Founding(t, g)'
      BY <3>1, <3>2 DEF Founding, At
    <3>3. QED  BY <1>1, <1>2, <2>2, <2>3, <3>2 DEF Fate
  <2>4. CASE abandoned' = abandoned \cup {row}
    BY <1>1, <1>2, <2>2, <2>4 DEF Fate
  <2>5. QED
    BY <1>1, <1>4, <2>3, <2>4 DEF Inserted, Abandon
<1>5. QED
  BY <1>3, <1>4 DEF insertGroup

LEMMA FateOfInsertMember ==
  ASSUME DirectoryInv, NEW t \in Threads, insertMember(t) PROVE Fate(t)
<1>1. /\ h[t].op \in {"found", "join"} /\ h[t].pc = "stmt" /\ allgroup' = allgroup
      /\ groupuser \in [Ids -> [Ids -> Roles \cup {"none"}]]
      /\ allgroup \in Seq(Ids) /\ Len(allgroup) <= MaxId /\ MaxId \in Nat
  BY DirectoryOK DEF insertMember, DirectoryInv, TypeOK
<1>2. \A g \in 1..Len(allgroup) : Founding(t, g) => h[t].op = "found" /\ h[t].id = g
  BY <1>1 DEF Founding, At
<1>3. CASE /\ groupuser' = groupuser
           /\ IF h[t].op = "found" THEN Abandon(h[t].id) ELSE UNCHANGED abandoned
  <2>1. \A g \in 1..Len(allgroup) : Founding(t, g) => g \in abandoned'
    BY <1>2, <1>3 DEF Abandon
  <2>2. QED  BY <1>1, <1>3, <2>1, FateOfOthers DEF Abandon
<1>4. CASE /\ groupuser[h[t].id][h[t].user] = "none"
           /\ groupuser' = [groupuser EXCEPT ![h[t].id][h[t].user] =
                              IF h[t].op = "found" THEN "creator" ELSE "normal"]
           /\ Inserted(t, "back", 0)
  <2>1. abandoned' = abandoned
    BY <1>1, <1>4 DEF Inserted
  <2>2. \A g, u \in Ids : groupuser[g][u] = "creator" => groupuser'[g][u] = "creator"
    BY <1>1, <1>4
  <2>3. ASSUME NEW g \in 1..Len(allgroup), Founding(t, g)
        PROVE  groupuser'[g][allgroup'[g]] = "creator"
    <3>1. h[t].op = "found" /\ h[t].id = g /\ g \in Ids /\ allgroup[g] = h[t].user
      BY <1>2, <2>3, FoundIsGroup
    <3>2. allgroup[g] \in Ids
      BY <1>1
    <3>3. QED  BY <1>1, <1>4, <3>1, <3>2
  <2>4. QED  BY <1>1, <2>1, <2>2, <2>3 DEF Fate
<1>5. QED
  BY <1>3, <1>4 DEF insertMember

LEMMA StepFate ==
  ASSUME DirectoryInv, NEW t \in Threads, Request(t) \/ Step(t) PROVE Fate(t)
BY FateOfRequest, FateOfReturn, FateOfGetConnection, FateOfInsertId, FateOfStatement,
   FateOfInsertGroup, FateOfInsertMember
   DEF Step, Statement

LEMMA FoundedStep ==
  DirectoryInv /\ FoundedOrAbandoned /\ [Next]_vars => FoundedOrAbandoned'
<1> SUFFICES ASSUME DirectoryInv, FoundedOrAbandoned, [Next]_vars PROVE FoundedOrAbandoned'
  OBVIOUS
<1>1. ASSUME NEW t \in Threads, Request(t) \/ Step(t) PROVE FoundedOrAbandoned'
  BY <1>1, StepGood, StepFate, FateIsSafe
<1>2. CASE resize \/ UNCHANGED vars
  <2>1. UNCHANGED <<used, tables, lastId, h, abandoned>>
    BY <1>2 DEF resize, Grow, Shrink, vars, poolVars
  <2>2. QED  BY <2>1 DEF FoundedOrAbandoned, Founding, At, tables
<1>3. CASE Kill
  <2>1. \A g \in 1..Len(allgroup) : g \in Ids
    BY DirectoryOK DEF DirectoryInv, TypeOK, Ids
  <2>2. QED  BY <1>3, <2>1 DEF FoundedOrAbandoned, Kill, tables
<1>4. QED
  BY <1>1, <1>2, <1>3 DEF Next

(* No group is left without its creator unless the second insert failed,    *)
(* never ran, or found the founder in the group already.                    *)
THEOREM NoGroupForgotten == Spec => []FoundedOrAbandoned
<1>1. Init => FoundedOrAbandoned
  BY DEF Init, FoundedOrAbandoned
<1>2. QED
  BY <1>1, FoundedStep, DirectoryInvariant, PTL DEF Spec

-----------------------------------------------------------------------------
(*                      whom groupChat reaches                             *)

MembersIn(gu, g) == {u \in Ids : gu[g][u] # "none"}

(* RecipientsSound for one handler x, from the request to the answer.       *)
Addressed(x, gu) == x.op = "members" =>
  /\ x.id \in Ids /\ x.before \subseteq MembersIn(gu, x.id)
  /\ x.ok => /\ x.before \ {x.user} \subseteq x.list
             /\ x.list \subseteq MembersIn(gu, x.id) \ {x.user}

AllAddressed == \A t \in Threads : Addressed(h[t], groupuser)

(* Members stay members. *)
Joined(gu, gv) == \A g \in Ids : MembersIn(gu, g) \subseteq MembersIn(gv, g)

LEMMA AddressedKept ==
  ASSUME NEW x, NEW gu, NEW gv, Addressed(x, gu), Joined(gu, gv)
  PROVE  Addressed(x, gv)
BY DEF Addressed, Joined

LEMMA AddressedIsSafe ==
  ASSUME DirectoryInv, AllAddressed, NEW t \in Threads, Local(t),
         Joined(groupuser, groupuser'), Addressed(h'[t], groupuser')
  PROVE  AllAddressed'
<1>1. PICK x \in Handler : h' = [h EXCEPT ![t] = x]
  BY DEF Local
<1>2. ASSUME NEW r \in Threads PROVE Addressed(h'[r], groupuser')
  <2>1. CASE r = t
    BY <2>1
  <2>2. CASE r # t
    <3>1. h'[r] = h[r]
      BY <1>1, <2>2 DEF DirectoryInv, TypeOK
    <3>2. QED  BY <3>1, AddressedKept DEF AllAddressed
  <2>3. QED  BY <2>1, <2>2
<1>3. QED
  BY <1>2 DEF AllAddressed

LEMMA StepJoined ==
  ASSUME DirectoryInv, NEW t \in Threads, Request(t) \/ Step(t)
  PROVE  Joined(groupuser, groupuser')
<1>1. CASE insertMember(t)
  <2>1. \/ groupuser' = groupuser
        \/ groupuser' = [groupuser EXCEPT ![h[t].id][h[t].user] =
                           IF h[t].op = "found" THEN "creator" ELSE "normal"]
    BY <1>1 DEF insertMember
  <2>2. groupuser \in [Ids -> [Ids -> Roles \cup {"none"}]]
    BY DEF DirectoryInv, TypeOK
  <2>3. \A g, u \in Ids : groupuser[g][u] # "none" => groupuser'[g][u] # "none"
    BY <2>1, <2>2
  <2>4. QED  BY <2>3 DEF Joined, MembersIn
<1>2. CASE Request(t)
  BY <1>2, RequestHandler DEF Enter, tables, Joined
<1>3. CASE Step(t) /\ ~insertMember(t)
  <2>1. groupuser' = groupuser
    BY <1>3 DEF Step, Statement, getConnection, noConnection, giveBack, Answer, insertId,
         insertUser, insertGroup, insertFriend, selectFriends, selectGroups,
         selectGroupMembers, selectMembers, statementFails, Read, tables
  <2>2. QED  BY <2>1 DEF Joined
<1>4. QED
  BY <1>1, <1>2, <1>3

(* The handlers of groupChat have three kinds of steps: pc moves on, the    *)
(* rows are read, and it ends.                                              *)
LEMMA StepAddressed ==
  ASSUME DirectoryInv, AllAddressed, NEW t \in Threads, Request(t) \/ Step(t)
  PROVE  Addressed(h'[t], groupuser)
<1>1. h[t] \in Handler /\ h \in [Threads -> Handler] /\ Addressed(h[t], groupuser)
  BY DEF DirectoryInv, TypeOK, AllAddressed
<1>2. CASE Request(t)
  <2>1. PICK x \in Handler : Enter(t, x) /\ ~x.ok
                             /\ (x.op = "members" => x.id \in Ids /\ x.before = Members(x.id))
    BY <1>2, RequestHandler
  <2>2. h'[t] = [x EXCEPT !.pc = "ask"]
    BY <1>1, <2>1 DEF Enter
  <2>3. h'[t].op = x.op /\ h'[t].ok = x.ok /\ h'[t].id = x.id /\ h'[t].before = x.before
    BY <2>2 DEF Handler, Record
  <2>4. QED  BY <2>1, <2>3 DEF Addressed, Members, MembersIn
<1>3. CASE Step(t) /\ h[t].op # "members"
  <2>1. h'[t].op # "members"
    <3>1. ASSUME Return(t) PROVE h'[t].op # "members"
      <4>1. h'[t].op \in {h[t].op, "found", "none"}
        BY <1>1, <3>1 DEF Return, Handler, Record, Idle
      <4>2. QED  BY <4>1, <1>3
    <3>2. ASSUME NEW p, Goto(t, p) PROVE h'[t].op # "members"
      BY <1>1, <1>3, <3>2 DEF Goto, Handler, Record
    <3>3. ASSUME NEW p, NEW i, Inserted(t, p, i) PROVE h'[t].op # "members"
      BY <1>1, <1>3, <3>2, <3>3 DEF Inserted, Handler, Record
    <3>4. ASSUME NEW p, NEW rows, Read(t, p, rows) PROVE h'[t].op # "members"
      BY <1>1, <1>3, <3>4 DEF Read, Handler, Record
    <3>5. CASE insertId(t) \/ Answer(t)
      BY <1>1, <1>3, <3>5 DEF insertId, Answer, Idle, Handler, Record
    <3>6. CASE Statement(t)
      BY <1>3, <3>2, <3>3, <3>4, <3>6 DEF Statement, insertUser, insertGroup, insertMember,
         insertFriend, selectFriends, selectGroups, selectGroupMembers, statementFails,
         selectMembers
    <3>7. CASE getConnection(t) \/ noConnection(t) \/ giveBack(t)
      BY <3>1, <3>2, <3>7 DEF getConnection, noConnection, giveBack
    <3>8. QED  BY <1>3, <3>5, <3>6, <3>7 DEF Step
  <2>2. QED  BY <2>1 DEF Addressed
<1>4. CASE Step(t) /\ h[t].op = "members"
  <2>1. ASSUME NEW p, h' = [h EXCEPT ![t] = [h[t] EXCEPT !.pc = p]]
        PROVE  Addressed(h'[t], groupuser)
    <3>1. /\ h'[t].op = h[t].op /\ h'[t].ok = h[t].ok /\ h'[t].id = h[t].id
          /\ h'[t].before = h[t].before /\ h'[t].list = h[t].list /\ h'[t].user = h[t].user
      BY <1>1, <2>1 DEF Handler, Record
    <3>2. QED  BY <1>1, <3>1 DEF Addressed
  <2>2. CASE getConnection(t) \/ statementFails(t)
    BY <2>1, <2>2 DEF getConnection, statementFails, Goto
  <2>3. CASE noConnection(t) \/ giveBack(t)
    <3>1. h' = [h EXCEPT ![t] = [h[t] EXCEPT !.pc = "answer"]]
      BY <1>4, <2>3 DEF noConnection, giveBack, Return
    <3>2. QED  BY <2>1, <3>1
  <2>4. CASE Answer(t)
    BY <1>1, <2>4 DEF Answer, Idle, Addressed
  <2>5. CASE selectMembers(t)
    <3>1. /\ h'[t].op = h[t].op /\ h'[t].id = h[t].id /\ h'[t].before = h[t].before
          /\ h'[t].list = Members(h[t].id) \ {h[t].user} /\ h'[t].user = h[t].user
      BY <1>1, <2>5 DEF selectMembers, Read, Handler, Record
    <3>2. QED  BY <1>1, <1>4, <3>1 DEF Addressed, Members, MembersIn
  <2>6. QED
    <3>1. h[t].pc # "id"
      BY <1>4 DEF DirectoryInv, LastIdIsOwn
    <3>2. QED
      BY <1>4, <2>2, <2>3, <2>4, <2>5, <3>1 DEF Step, Statement, insertUser, insertGroup,
         insertMember, insertFriend, selectFriends, selectGroups, selectGroupMembers,
         insertId, At
<1>5. QED
  BY <1>2, <1>3, <1>4

LEMMA AddressedStep == DirectoryInv /\ AllAddressed /\ [Next]_vars => AllAddressed'
<1> SUFFICES ASSUME DirectoryInv, AllAddressed, [Next]_vars PROVE AllAddressed'
  OBVIOUS
<1>1. ASSUME NEW t \in Threads, Request(t) \/ Step(t) PROVE AllAddressed'
  <2>1. Local(t)
    BY <1>1, StepGood DEF Good
  <2>2. Joined(groupuser, groupuser') /\ Addressed(h'[t], groupuser)
    BY <1>1, StepJoined, StepAddressed
  <2>3. Addressed(h'[t], groupuser')
    BY <2>2, AddressedKept
  <2>4. QED  BY <2>1, <2>2, <2>3, AddressedIsSafe
<1>2. CASE resize \/ UNCHANGED vars
  BY <1>2 DEF resize, vars, tables, AllAddressed
<1>3. CASE Kill
  BY <1>3 DEF Kill, AllAddressed, Addressed, Idle
<1>4. QED
  BY <1>1, <1>2, <1>3 DEF Next

(* A group message goes to everyone who was a member when it was asked for, *)
(* to nobody who is none, and not to its sender.                            *)
THEOREM RecipientsAreMembers == Spec => []RecipientsSound
<1>1. Init => AllAddressed
  BY DEF Init, AllAddressed, Addressed, Idle
<1>2. AllAddressed => RecipientsSound
  BY DEF AllAddressed, Addressed, RecipientsSound, At, Members, MembersIn
<1>3. QED
  BY <1>1, <1>2, AddressedStep, DirectoryInvariant, PTL DEF Spec
=============================================================================
