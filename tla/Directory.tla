------------------------------ MODULE Directory ------------------------------
(***************************************************************************)
(* Registration, friends and groups: the handlers reg, addFriend,          *)
(* createGroup and addGroup of ChatService, and the queries of the friends *)
(* and groups by login and of a group's members by groupChat, over the     *)
(* methods of UserModel, FriendModel and GroupModel.                       *)
(*                                                                         *)
(* A method borrows a connection, sends a statement, perhaps asks the      *)
(* connection for the id of the row it inserted, and gives it back.  The   *)
(* threads are the IO threads of one server.                               *)
(*                                                                         *)
(* The tables themselves are external.  An id is the number of its row;    *)
(* the names in table user are unique, as the client says of a refused     *)
(* registration, and so are the pairs of ids in friend and groupuser.      *)
(***************************************************************************)
EXTENDS Pool, Sequences

CONSTANTS Names,       \* names people register under
          Known,       \* the users there are at the start, by name
          MaxId,       \* bound: rows of user and of allgroup, then inserts fail
          MaxCalls,    \* bound: requests served
          Faults       \* "db": a statement fails, "kill": the process ends

Ids == 1..MaxId
Roles == {"creator", "normal"}

ASSUME DirectoryOK ==
  /\ None \notin Mysql /\ InitSize \in Nat /\ MaxSize \in Nat
  /\ MaxId \in Nat /\ MaxCalls \in Nat
  /\ Known \in Seq(Names) /\ Len(Known) <= MaxId
  /\ \A i, j \in 1..Len(Known) : Known[i] = Known[j] => i = j
  /\ Faults \subseteq {"db", "kill"}

VARIABLES user,        \* id -> name
          allgroup,    \* id -> the user who chose its name and description
          groupuser,   \* id of a group, which need not exist -> user -> role
          friend,      \* pairs of ids
          lastId,      \* connection -> the id that mysql_insert_id returns
          h,           \* thread -> its handler
          calls,       \* requests served
          abandoned    \* groups whose founder could not be entered

tables == <<user, allgroup, groupuser, friend>>
vars == <<poolVars, tables, lastId, h, calls, abandoned>>

Ops == {"none", "reg", "create", "found", "join", "befriend",
        "friends", "groups", "members"}
Pcs == {"idle", "ask", "stmt", "more", "id", "back", "answer"}
Record == [op : Ops, pc : Pcs,
           user : Ids \cup {0}, id : Ids \cup {0},
           name : Names \cup {None},
           ok : BOOLEAN,            \* what the method returned
           list : SUBSET Ids,       \* rows it has read
           before : SUBSET Ids]     \* members of the group when it was asked

Handler == {x \in Record : /\ x.op = "reg" => x.name \in Names
                           /\ x.op \notin {"none", "reg"} => x.user \in Ids}

Idle == [op |-> "none", pc |-> "idle", user |-> 0, id |-> 0, name |-> None,
         ok |-> FALSE, list |-> {}, before |-> {}]

TypeOK ==
  /\ PoolTypeOK
  /\ user \in Seq(Names) /\ Len(user) <= MaxId
  /\ allgroup \in Seq(Ids) /\ Len(allgroup) <= MaxId
  /\ groupuser \in [Ids -> [Ids -> Roles \cup {"none"}]]
  /\ friend \subseteq (Ids \cup {0}) \X (Ids \cup {0})
  /\ lastId \in [Mysql -> Ids \cup {0}]
  /\ h \in [Threads -> Handler]
  /\ calls \in 0..MaxCalls
  /\ abandoned \subseteq Ids

Init ==
  /\ PoolInit
  /\ user = Known /\ allgroup = <<>> /\ friend = {}
  /\ groupuser = [g \in Ids |-> [u \in Ids |-> "none"]]
  /\ lastId = [p \in Mysql |-> 0]
  /\ h = [t \in Threads |-> Idle]
  /\ calls = 0
  /\ abandoned = {}

Members(g) == {u \in Ids : groupuser[g][u] # "none"}
Groups(u) == {g \in 1..Len(allgroup) : groupuser[g][u] # "none"}

-----------------------------------------------------------------------------
(*                      requests                                           *)

At(t, op, pc) == h[t].op = op /\ h[t].pc = pc
Goto(t, pc) == h' = [h EXCEPT ![t].pc = pc]

Enter(t, x) ==
  /\ h[t].pc = "idle" /\ calls < MaxCalls
  /\ calls' = calls + 1
  /\ h' = [h EXCEPT ![t] = [x EXCEPT !.pc = "ask"]]
  /\ UNCHANGED <<poolVars, tables, lastId, abandoned>>

reg(t, n) == Enter(t, [Idle EXCEPT !.op = "reg", !.name = n])
createGroup(t, u) == Enter(t, [Idle EXCEPT !.op = "create", !.user = u])

(* People type the id of a group or a friend, which need not exist. *)
addGroup(t, u, g)  == Enter(t, [Idle EXCEPT !.op = "join", !.user = u, !.id = g])
addFriend(t, u, f) == Enter(t, [Idle EXCEPT !.op = "befriend", !.user = u, !.id = f])

loginFriends(t, u) == Enter(t, [Idle EXCEPT !.op = "friends", !.user = u])
loginGroups(t, u)  == Enter(t, [Idle EXCEPT !.op = "groups", !.user = u])
groupChat(t, u, g) ==
  Enter(t, [Idle EXCEPT !.op = "members", !.user = u, !.id = g, !.before = Members(g)])

-----------------------------------------------------------------------------
(*                      a method of the model classes                      *)

getConnection(t) ==
  /\ h[t].pc = "ask" /\ Borrow(t)
  /\ Goto(t, "stmt")
  /\ UNCHANGED <<tables, lastId, calls, abandoned>>

(* A handler ends: createGroup goes on only when its insert succeeded, and  *)
(* reg and groupChat use what was returned.                                 *)
Return(t) ==
  LET x == h[t] IN
  h' = [h EXCEPT ![t] =
         CASE x.op = "create" /\ x.ok -> [x EXCEPT !.op = "found", !.pc = "ask", !.ok = FALSE]
           [] x.op \in {"reg", "members", "friends", "groups"} -> [x EXCEPT !.pc = "answer"]
           [] OTHER -> Idle]

(* Nobody will enter the founder of group g any more. *)
Abandon(g) == abandoned' = abandoned \cup {g}

noConnection(t) ==
  /\ h[t].pc = "ask"
  /\ IF h[t].op = "found" THEN Abandon(h[t].id) ELSE UNCHANGED abandoned
  /\ Return(t)
  /\ UNCHANGED <<poolVars, tables, lastId, calls>>

(* A mistake in giveBack: createGroup keeps its connection for addGroup. *)
keepForAddGroup(t) ==
  /\ h[t].pc = "back"
  /\ IF h[t].op = "create" /\ h[t].ok THEN UNCHANGED poolVars ELSE GiveBack(t)
  /\ Return(t)
  /\ UNCHANGED <<tables, lastId, calls, abandoned>>

giveBack(t) ==
  /\ h[t].pc = "back" /\ GiveBack(t)
  /\ Return(t)
  /\ UNCHANGED <<tables, lastId, calls, abandoned>>

(* MySQL::update or MySQL::query fails and has no effect. *)
statementFails(t) ==
  /\ "db" \in Faults /\ h[t].pc = "stmt"
  /\ IF h[t].op = "found" THEN Abandon(h[t].id) ELSE UNCHANGED abandoned
  /\ Goto(t, "back")
  /\ UNCHANGED <<poolVars, tables, lastId, calls>>

(* An insert ran; when its answer gets lost, update fails all the same. *)
Inserted(t, pc, row) ==
  \/ /\ h' = [h EXCEPT ![t].pc = pc, ![t].ok = TRUE]
     /\ lastId' = [lastId EXCEPT ![used[t]] = row]
     /\ UNCHANGED abandoned
  \/ /\ "db" \in Faults
     /\ Goto(t, "back")
     /\ IF h[t].op = "create" THEN Abandon(row) ELSE UNCHANGED abandoned
     /\ UNCHANGED lastId

insertUser(t) ==
  /\ At(t, "reg", "stmt")
  /\ IF Len(user) = MaxId \/ \E i \in 1..Len(user) : user[i] = h[t].name
     THEN Goto(t, "back") /\ UNCHANGED <<user, lastId, abandoned>>
     ELSE /\ user' = Append(user, h[t].name)
          /\ Inserted(t, "id", Len(user) + 1)
  /\ UNCHANGED <<poolVars, allgroup, groupuser, friend, calls>>

insertGroup(t) ==
  /\ At(t, "create", "stmt")
  /\ IF Len(allgroup) = MaxId
     THEN Goto(t, "back") /\ UNCHANGED <<allgroup, lastId, abandoned>>
     ELSE /\ allgroup' = Append(allgroup, h[t].user)
          /\ Inserted(t, "id", Len(allgroup) + 1)
  /\ UNCHANGED <<poolVars, user, groupuser, friend, calls>>

(* A mistake in insertId: the last row of the table instead of one's own. *)
lastRow(t) ==
  /\ h[t].pc = "id"
  /\ h' = [h EXCEPT ![t].pc = "back",
                    ![t].id = IF h[t].op = "reg" THEN Len(user) ELSE Len(allgroup)]
  /\ UNCHANGED <<poolVars, tables, lastId, calls, abandoned>>

(* mysql_insert_id, while the connection is still borrowed. *)
insertId(t) ==
  /\ h[t].pc = "id"
  /\ h' = [h EXCEPT ![t].pc = "back", ![t].id = lastId[used[t]]]
  /\ UNCHANGED <<poolVars, tables, lastId, calls, abandoned>>

(* A mistake in insertMember: the founder becomes a normal member. *)
insertNormal(t) ==
  /\ h[t].op \in {"found", "join"} /\ h[t].pc = "stmt"
  /\ groupuser' = [groupuser EXCEPT ![h[t].id][h[t].user] = "normal"]
  /\ Inserted(t, "back", 0)
  /\ UNCHANGED <<poolVars, user, allgroup, friend, calls>>

(* GroupModel::addGroup: a row there is already makes the insert fail. *)
insertMember(t) ==
  LET g == h[t].id  u == h[t].user  founds == h[t].op = "found" IN
  /\ h[t].op \in {"found", "join"} /\ h[t].pc = "stmt"
  /\ IF groupuser[g][u] # "none"
     THEN /\ Goto(t, "back")
          /\ IF founds THEN Abandon(g) ELSE UNCHANGED abandoned
          /\ UNCHANGED <<groupuser, lastId>>
     ELSE /\ groupuser' = [groupuser EXCEPT ![g][u] = IF founds THEN "creator" ELSE "normal"]
          /\ Inserted(t, "back", 0)
  /\ UNCHANGED <<poolVars, user, allgroup, friend, calls>>

insertFriend(t) ==
  /\ At(t, "befriend", "stmt")
  /\ friend' = friend \cup {<<h[t].user, h[t].id>>}
  /\ Inserted(t, "back", 0)
  /\ UNCHANGED <<poolVars, user, allgroup, groupuser, calls>>

Read(t, pc, rows) ==
  /\ h' = [h EXCEPT ![t].pc = pc, ![t].ok = TRUE, ![t].list = rows]
  /\ UNCHANGED <<poolVars, tables, lastId, calls, abandoned>>

(* The join with table user leaves out friends who are not registered.     *)
selectFriends(t) ==
  /\ At(t, "friends", "stmt")
  /\ Read(t, "back", {f \in 1..Len(user) : <<h[t].user, f>> \in friend})

(* queryGroup sends one more statement for each group, on the same          *)
(* connection; what these return is pushed into a copy and lost.            *)
selectGroups(t) ==
  /\ At(t, "groups", "stmt")
  /\ LET rows == Groups(h[t].user) IN Read(t, IF rows = {} THEN "back" ELSE "more", rows)

selectGroupMembers(t) ==
  /\ At(t, "groups", "more")
  /\ Goto(t, "back")
  /\ UNCHANGED <<poolVars, tables, lastId, calls, abandoned>>

(* A mistake in selectMembers: no "userid !=" in the statement. *)
selectEveryMember(t) ==
  /\ At(t, "members", "stmt")
  /\ Read(t, "back", Members(h[t].id))

selectMembers(t) ==
  /\ At(t, "members", "stmt")
  /\ Read(t, "back", Members(h[t].id) \ {h[t].user})

Answer(t) ==
  /\ h[t].pc = "answer"
  /\ h' = [h EXCEPT ![t] = Idle]
  /\ UNCHANGED <<poolVars, tables, lastId, calls, abandoned>>

-----------------------------------------------------------------------------
(*                      the pool and the process                           *)

resize ==
  /\ Grow \/ Shrink
  /\ UNCHANGED <<tables, lastId, h, calls, abandoned>>

(* Is thread t about to enter the founder of group g? *)
Founding(t, g) ==
  \/ At(t, "create", "id") /\ lastId[used[t]] = g
  \/ At(t, "create", "back") /\ h[t].ok /\ h[t].id = g
  \/ h[t].op = "found" /\ h[t].pc \in {"ask", "stmt"} /\ h[t].id = g

(* The process ends and starts again with new connections. *)
Kill ==
  /\ "kill" \in Faults
  /\ free' = free \cup Lent /\ used' = [t \in Threads |-> None]
  /\ lastId' = [p \in Mysql |-> 0]
  /\ h' = [t \in Threads |-> Idle]
  /\ abandoned' = abandoned \cup {g \in Ids : \E t \in Threads : Founding(t, g)}
  /\ UNCHANGED <<tables, calls>>

-----------------------------------------------------------------------------
Request(t) ==
  \/ \E n \in Names : reg(t, n)
  \/ \E u \in 1..Len(user) :
       \/ createGroup(t, u) \/ loginFriends(t, u) \/ loginGroups(t, u)
       \/ \E i \in Ids : addGroup(t, u, i) \/ addFriend(t, u, i) \/ groupChat(t, u, i)

Statement(t) ==
  \/ insertUser(t) \/ insertGroup(t) \/ insertMember(t) \/ insertFriend(t)
  \/ selectFriends(t) \/ selectGroups(t) \/ selectGroupMembers(t) \/ selectMembers(t)
  \/ statementFails(t)

Step(t) == \/ getConnection(t) \/ noConnection(t) \/ Statement(t)
           \/ insertId(t) \/ giveBack(t) \/ Answer(t)

Next == (\E t \in Threads : Request(t) \/ Step(t)) \/ resize \/ Kill

Spec == Init /\ [][Next]_vars

(* Threads run, and one that waits gets a connection if one stays free; the *)
(* time limit of the wait (noConnection) is not what ends it.               *)
FairSpec == Spec /\ \A t \in Threads :
  /\ WF_vars(getConnection(t)) /\ WF_vars(Statement(t))
  /\ WF_vars(insertId(t) \/ giveBack(t) \/ Answer(t))

-----------------------------------------------------------------------------
(* A registration that is answered with an id is answered with that of its  *)
(* own row, and a group's creator is the one who chose its name, however    *)
(* the inserts of several threads interleave; no group has two creators.    *)
OwnIds ==
  /\ \A t \in Threads : At(t, "reg", "answer") /\ h[t].ok =>
       h[t].id \in 1..Len(user) /\ user[h[t].id] = h[t].name
  /\ \A g, u \in Ids : groupuser[g][u] = "creator" =>
       g <= Len(allgroup) /\ allgroup[g] = u

(* Every group has its creator as a member, or is about to get it, unless   *)
(* the second insert failed, never ran, or found the founder in the group   *)
(* already: people can join a group before it exists.                       *)
FoundedOrAbandoned ==
  \A g \in 1..Len(allgroup) :
    \/ groupuser[g][allgroup[g]] = "creator"
    \/ \E t \in Threads : Founding(t, g)
    \/ g \in abandoned

(* groupChat goes to everyone who was in the group when it was asked, to    *)
(* nobody who is not, and never back to the sender.                         *)
RecipientsSound ==
  \A t \in Threads : At(t, "members", "answer") /\ h[t].ok =>
    /\ h[t].before \ {h[t].user} \subseteq h[t].list
    /\ h[t].list \subseteq Members(h[t].id) \ {h[t].user}

(* A method keeps its connection to itself for its statements and for       *)
(* mysql_insert_id, and gives it back: no handler waits for a connection    *)
(* while it has one.                                                        *)
OneConnectionEach ==
  /\ \A t \in Threads : used[t] # None <=> h[t].pc \in {"stmt", "more", "id", "back"}
  /\ \A t, r \in Threads : used[t] = used[r] => t = r \/ used[t] = None
  /\ \A t \in Threads : used[t] \notin free

(* What makes these inductive: until it is read, the last id of a borrowed  *)
(* connection is that of the row its thread inserted.                       *)
LastIdIsOwn ==
  /\ \A t \in Threads : h[t].pc = "id" => h[t].ok /\ h[t].op \in {"reg", "create"}
  /\ \A t \in Threads : h[t].ok /\ h[t].op \in {"reg", "create"} =>
       LET id == IF h[t].pc = "id" THEN lastId[used[t]] ELSE h[t].id IN
       IF h[t].op = "reg" THEN id \in 1..Len(user) /\ user[id] = h[t].name
                          ELSE id \in 1..Len(allgroup) /\ allgroup[id] = h[t].user
  /\ \A t \in Threads : h[t].op = "found" =>
       h[t].id \in 1..Len(allgroup) /\ allgroup[h[t].id] = h[t].user

DirectoryInv == TypeOK /\ OneConnectionEach /\ LastIdIsOwn /\ OwnIds

(* Every handler returns, with as little as one connection for all threads. *)
HandlersReturn == \A t \in Threads : h[t].pc # "idle" ~> h[t].pc = "idle"
=============================================================================
