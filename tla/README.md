# Verification of chat-server-c

TLA+ specifications of the clustered chat server in `src/`, the TLC runs that
check them, and TLAPS proofs. Paths below are relative to the repository
(`src/server/...` is the server, `include/server/...` its headers,
`src/client/main.cc` the client).

## 1. The system

Several `ChatServer` processes run behind a load balancer. They share one MySQL
database and one redis. A user has a session on the server whose connection the
login came in on; servers hand each other messages over redis, one channel per
user id.

| part | code | state | operations |
|---|---|---|---|
| network layer | `chatserver.cc` | muduo connections, one event loop + 4 IO threads | `onConnection` (close), `onMessage` (parse, find handler, run it) |
| business layer | `chatservice.cc/.hpp` | `_userConnMap` (user -> connection), `_connMutex`, handler table | `login`, `loginout`, `reg`, `oneChat`, `groupChat`, `addFriend`, `createGroup`, `addGroup`, `clientCloseException`, `handleRedisSubscribeMessage`, `reset` |
| redis client | `redis/redis.cc/.hpp` | a publish and a subscribe context, an observer thread | `connect`, `publish`, `subscribe`, `unsubscribe`, `observer_channel_message` |
| model classes | `model/*model.cc` | tables `user`, `offlinemessage`, `friend`, `allgroup`, `groupuser` | one SQL statement per method (`queryGroup`: several) |
| connection pool | `db/dbpool.cc/.h` | queue of idle connections, counter, mutex, condition variable | constructor, `getConnection` and its deleter, producer thread, scanner thread |
| MySQL wrapper | `db/db.cc/.h` | one C connection, its idle stamp | `connect`, `update`, `query`, `refreshAliveTime` |
| start, ctrl + c | `model/main.cc` | signal handler | `main`, `resetHandler` |
| client | `src/client/main.cc` | socket, current user, lists; a main and a reader thread | menus, `readTaskHandler` |

How they interact:

* A muduo IO thread calls `onMessage` / `onConnection`; the handler runs to its
  end in that thread. So the handlers of one connection follow each other, and
  those of different connections interleave at every access to shared state.
* `login` writes the three records of a session one after the other: the map
  entry, the redis subscription, the state column. `loginout` undoes them in
  the order column, map, channel, all with `_connMutex` held; the close of a
  connection in the order map, channel, column, with the mutex held for the map
  only.
* `oneChat` looks the receiver up in the map **without** the mutex, then asks the
  database for the state, then publishes or stores. `groupChat` does the same
  for every member with the mutex held throughout.
* `SUBSCRIBE` and `UNSUBSCRIBE` are written and not answered; `PUBLISH` waits for
  its answer. The observer thread calls back into the business layer, which takes
  `_connMutex`.
* The client sends requests that end with a zero byte; the server's answers end
  with nothing. Both sides parse what one read returns as one json document. The
  client's main thread reads the answers to login and register itself; a thread
  that a login starts reads everything else, until the answer to loginout.
* Every model method borrows a connection from the pool for one call. A failed
  call, or no connection within the time limit, is ignored by every caller.

What is hard: the three records of a session are written by several threads of
several processes with no transaction; messages are routed by state that was
read earlier; copies are under way in redis while their receiver moves; map reads
outside the mutex; clients that vanish; processes that die and start again; the
pool's condition variable with one variable for two kinds of waiters. PROJECT.json
lists each hazard at its line.

What makes each part correct:

* sessions: map entries belong to live connections and to that user; map, channel
  and table agree when nothing is under way; one server per user;
* messages: only to receivers, not twice, not lost for a receiver whose session
  does not change;
* threads: handlers return, the observer thread keeps up, a vanished client's
  user goes offline;
* pool: no connection used by two threads, none lost or counted twice, limits
  kept, calls return;
* directory: ids are those of one's own rows, a group has its creator, a group
  message goes to the members;
* client: an answer reaches the thread that waits for it, and the client and the
  server agree on who is logged in.

## 2. The modules

| module | what it is |
|---|---|
| `ChatSystem` | constants of the message path: servers, users, messages, kinds of faults |
| `Redis` | the redis client and, external, the redis server: commands in flight, channels per server, copies under way. Operators only, used by `ChatService` |
| `ChatDB` | state column and offline messages, one operator per method of `UserModel` and `OfflineMsgModel`; `"db"` faults make a call fail without effect |
| `ChatService` | the handlers of all connections on all servers, the observer threads, process ends and restarts |
| `ChatSafety` | what `ChatService` promises: invariants, action and liveness properties, and comments that the code breaks |
| `ChatDelivery` | history variables for end-to-end delivery and for dead servers; `Coherent`; the mapping to `Presence` |
| `Presence` | abstract specification: a user is on at most one server and moves by leaving first |
| `ChatClient` | one client process, its two threads and its socket, against the handlers of its connection; framing; properties |
| `Directory` | registration, friends and groups over the borrowed connections of the pool; properties |
| `Pool` | abstract specification of the connection pool; `DBPool` implements it, `Directory` is built on it |
| `DBPool` | the connection pool with its queue, counter, waits and threads; properties |
| `ChatServiceProofs`, `ChatOwnerProofs` | TLAPS proofs about `ChatService`: types, the connection map and `_connMutex`; where messages go, and that none is duplicated |
| `ChatPresenceProofs` | TLAPS proof that `ChatService` implements `Presence` |
| `ChatCoherenceProofs` | TLAPS proof that table, maps and channels agree (`Coherent`) |
| `ChatDeliveryProofs` | TLAPS proof that a message reaches every receiver whose session does not change (`CalmDelivered`) |
| `ChatClientProofs`, `DirectoryProofs`, `DBPoolProofs` | TLAPS proofs about these modules; the last also that `DBPool` implements `Pool` |
| `MCChat`, `MCDelivery`, `MCClient`, `MCDirectory`, `MCDBPool` | instances for TLC |

How they compose: `ChatService` uses `Redis` and `ChatDB` for the calls of its
handlers. `Directory` uses `Pool`, which `DBPool` is shown to implement, for the
connections of its methods. `ChatClient` looks at one connection from both ends
and establishes what `ChatService` assumes of every client: that a request carries
the id whose entry that connection is, not only when it is sent (`Identity`) but when a
handler takes it, and that a login finds no session (`RequestsFit`); one session per
connection; and no second request before a login is answered. Both agree on the one
exception: a user who is logged in twice on a server has one entry there, of either
connection or, after the other's loginout, of none (`Owns` here; in `ChatService` the
entry of another connection is found by the id in the same way).

### ChatService

`h[c]` is the handler of connection `c`: the program counter names the next
access to shared state, the other fields are the handler's locals. An action is
the code between two such accesses:

* `login`: `LoginQuery` (95-98), `LoginInsert` (111-115), `LoginSubscribe` (118),
  `LoginOnline` (121-122), `LoginOffline` (133), `LoginRemove` (138), `LoginAck`
  (186, with the answer built from what was read). A refused login changes nothing
  and is a stuttering step.
* `loginout`: `LogoutRequest` (the client, which does not wait), `LogoutUpdate` or
  `LogoutFail` (lock, find, and the update or the error), `LogoutErase`,
  `LogoutUnsubscribe` (and unlock).
* close: `CloseErase` (the scan under the mutex), `CloseUnsubscribe` (with id -1
  when the scan found nothing), `CloseUpdate`.
* `oneChat`: `OneChat` (find), then `ChatSend` through the iterator, or `ChatQuery`
  and `ChatPublish` or `ChatStore`.
* `groupChat`: `GroupChat` (member query), `GroupLock`, and per member `GroupSend`
  or `GroupQuery` and `GroupPublish` / `GroupStore`; `GroupDone` unlocks. The
  members are served in any order, as the query has no `order by`.
* `Observe`: `handleRedisSubscribeMessage`. The mutex is held from find to
  store and nothing else under the mutex depends on when the store happens, so the
  call is one step. Likewise `LogoutUpdate` joins lock, find and update: only
  holders of the mutex change the map, and taking a lock commutes with steps that
  do not need it.
* ends: `Kill`; `SigintReset` and `SigintExit` (the other threads run in between);
  `NullRow` (`UserModel::query` reads `row[0]` of a null row when the id has no
  row); `RaceCrash`. The process's map, mutex, connections and channels go; the
  database and the copies it published stay. `Restart` starts it again: nothing
  resets the table then.

Undefined behaviour is a choice over what may come out. With `"race"` in `Faults`,
`find` during a write to the map may miss an entry (`OneChat`) or end the process
(`RaceCrash`), and an iterator whose node was erased may still hold its
connection, hold the one the node was reused for, or end the process
(`Targets`, `RaceCrash`). Without `"race"` the unlocked read is an atomic read and
the stale iterator keeps its connection alive, as the common builds do. With
`"context"` in `Faults`, two threads that use one hiredis context at a time (`Torn`)
may lose a command, send it twice, or write bytes on which redis closes the
connection (`Garble`, `publish`). The two contexts are two connections: `Disconnect`
breaks one of them or both, and only with the one of the subscriptions does redis
forget the channels.

Abstractions, each by its bound or assumption:

* A message is one of `Msgs`, sent once, from one connection; its content is left
  out. `Rcpt` gives its receiver or group members.
* `MaxLogins` bounds the logins of a connection. A connection is accepted with
  its first request.
* Requests carry the id of the user who is logged in on that connection
  (`ChatClient`, `RequestsFit`). The client logs in only when logged out, and may log
  out without waiting for the answer (`src/client/main.cc:434`).
* `SingleClient = TRUE` says that a user does not use a second client before the
  first is out of use (logged out as far as the client knows, or gone). It does
  not say that the server has noticed. `Coherent`, `AtMostOnce`, `CalmDelivered`
  and the refinement of `Presence` need it, because two simultaneous logins of one
  user both succeed (run `bug_double_login`).

`ChatDelivery` adds two history variables that watch and never block. `calm[m]` is
the receivers of `m` whose records (table, maps, channels, handlers) have not
changed since `m` was sent; `orphans` is the users whom the death of a server left
online in the table without a session. An orphan can never log in again, since only
ctrl + c resets the table; `Coherent` says that this is the only way in which the
records of a session come to contradict each other.

### ChatClient

The main thread is in the first menu, waits for an answer to `login` or `reg`, or is
in the chat menu; each reader thread is unborn or done (`"free"`), in `recv`, or
between the statements that clear the user and the lists. An action is one recv with
what the thread does with the document, or one request. What is under way in both
directions is a sequence of documents. A recv that returns -1 sends the main thread
back to its menu (`RecvFails`); 0, and -1 in the reader, ends the process (`Dies`).

* Framing: `"join"` in `Faults` lets one read return several documents, `"split"`
  a part of one (or an answer longer than the client's 1024 bytes). The client then
  parses `Parses(k, d)`: white space before the value is skipped, anything after it
  is an error, and the uncaught exception ends the process. The server serves the
  first of several requests and loses the others, because the zero byte that ends it
  ends the parser's input (`TakeRequest`); a part of a request ends the server
  (`ServerEnds`).
* The lone `"\n"` that `login` sends after a refusal (`chatservice.cc:106`) is a
  document of its own.
* `Push` is a chat that another handler or the observer thread sends down this
  connection, from the insert of the login on. If it comes before the answer, the
  main thread reads it, finds no `errno` and dies (`MainDies`).
* The server's side of a handler is one step, except that login's insert and answer
  are two, which `Push` needs.
* `other` is what another client of this server does as the same user, for the users in
  `Elsewhere`: `OtherIn` is its login, which the state column does not keep out because
  query and update are two statements (`bug_double_login`), and `OtherOut` its close or
  loginout. `insert` (`chatservice.cc:114`) keeps an entry that is there, so the login
  that comes second has none (`LoginInsert`); `loginout` erases the entry of the id,
  whoever's connection it names (53-61), and answers errno 1 when there is none (66-71).
  `ousted` says that this session is without its entry for one of these reasons.
* `Patient = TRUE` says the user does not log in, register or exit before the reader of
  the last session has ended. The client gives no sign of that, and nothing joins the
  thread: run `bug_identity` has `Patient = FALSE`.
* `MaxRequests` bounds the requests and `Room` the documents under way when a push comes.

### Directory

`h[t]` is the handler of an IO thread: `ask` for a connection, `stmt` and `more` for
the statements, `id` for `mysql_insert_id`, `back` to give the connection back, and
`answer` for what uses the result. `createGroup` goes through two methods (`create`,
`found`). The tables are external: ids are row numbers; a name, a pair of friends and
a pair of group and user are unique, which makes an insert fail. With `"db"` a
statement fails without effect, or an insert runs and its answer is lost; with `"kill"` the
process ends at any step. `noConnection` (the pool's time limit) may happen to any
method. `abandoned` is a history variable: the groups for which nobody will enter the
founder any more.

### DBPool and Pool

Every access to the queue and the counter is made with `_queueMutex`, so an
action is what a thread does from a lock or wake-up to the next unlock or wait:
`getConnection`, `Wake` and `Timeout` (both may take, wait again or give up as
lines 149-156 say), `Release` (the deleter), `ProducerWait`, `Produce`, `Spin` (the
producer at the limit), `Scan` (one pass of the scanner, at any time), `Tick`.
`SpuriousWake` ends a wait that nobody has notified. `front()` of an empty queue sets
`broken`, or does nothing. `_connectionCnt` is
incremented without ever having been set: `Junk` holds what it may start from, and
the runs take 0; for any other value `CountIsTotal` fails at once. `MaxNow` and
`MaxCalls` bound the clock and the calls per thread.

`Pool` has a set of free connections and the connection each thread has: `Borrow`,
`GiveBack`, `Grow`, `Shrink`. The mapping takes the members of the queue for the free
ones. Waits, wake-ups, the clock and the producer's spinning are stuttering steps.

## 3. The runs

In all runs of `MCChat` and `MCDelivery` bob is logged in on `c3` at the start and
sends the messages; `c1` and `c2` are alice's clients (in `faults` `c1` may also
be carol's, in `race` `c2` is carol's). He is never a receiver of his own message: the
group of `sessions` is one he is not in, so that a copy on his connection would be a
misdelivery. Deadlock is not checked: requests are bounded,
so the system may come to rest; `HandlersReturn`, `InboxDrained`, `CallsReturn`, `MainReturns`
and `ReaderEnds` say that nobody is left waiting.

| run | instance | shows | distinct states |
|---|---|---|---|
| `sessions` | 2 servers, 3 connections, a message to a group that the sender is not in, vanish, kill, restart | `TypeOK`, `SessionMapSound`, `Coherent`, `CalmDelivered`, `OnePresent`, `OnOneServer`, `MutexSound`, `OneMapPerHolder`, `DeliveredToOwner`, `ImplementsPresence` | 349 000 |
| `race` | 2 servers, 3 users, 2 messages, one to a user of each server, 2 logins per connection, unsynchronised reads go wrong | `CalmDelivered`, `AtMostOnce`, `DeliveredToOwner` | 1 027 000 |
| `faults` | 1 server, 3 connections, 1 message, a login with an id that has no row, all of db, redis, context, kill, ctrl + c, restart and unsynchronised reads | `IInv`, `DeliveredToOwner` | 1 121 000 |
| `live` | 1 server, sender and receiver, direct and group message, vanish, 2 logins | `HandlersReturn`, `GoneIsOffline`, `InboxDrained` | 102 000 |
| `pool` | 3 threads, 1 to 2 connections, 2 calls per thread | `PoolInv` (with `TypeOK`), `NoSharing`, `CountIsTotal`, `Bounded`, `OldestFirst`, `CallsReturn`, `ImplementsPool` | 55 000 |
| `directory` | 2 threads, 1 to 2 connections, 2 names, 2 rows per table, 3 requests, db, kill | `DirectoryInv`, `OwnIds`, `FoundedOrAbandoned`, `RecipientsSound`, `OneConnectionEach`, `HandlersReturn` | 535 000 |
| `client` | 2 users, 2 readers, 7 requests, another client of one user, join, split, kill, stale | `ClientInv`, `Identity`, `OneSession`, `MainTakesItsOwn`, `RequestsFit`, `MainReturns`, `ReaderEnds`, `SessionEnds` | 66 000 |

Why the bounds are enough: the interesting races are between one user's old and
new session and one message, so two clients of one user on the same or on two
servers and one sender are the smallest instances in which every pair of handlers
meets. Two logins per connection let a session end and another begin while a message
is on its way (in `bug_misdelivery` the connection changes hands in between; for the
passing runs the proof of `DeliveredToOwner` covers that case for all bounds). In the pool two connections give a queue with an order and a
scanner that can free, and three threads exceed the limit. In the directory two
threads insert into one table, over one shared connection or two, and three requests
let a third party join a group between the two inserts of its founder. A client of
seven requests goes through two whole sessions of login, commands and loginout; a
second reader is unborn while the first is being waited for.

Properties in words (see `ChatSafety`, `ChatDelivery`, `ChatClient`, `Directory`, `DBPool`):

* `SessionMapSound` - an entry of the map names a live connection of that process,
  not yet closed, that belongs to that user.
* `Coherent` - when nothing is under way for a user, table, maps and channels
  agree on at most one session; the exception are users orphaned by a dead server.
* `MutexSound` - `_connMutex` is held by exactly the handler between its lock and unlock;
  no way out of a handler or of a dying process leaves it locked.
* `OneMapPerHolder` - only the holder changes the map while `_connMutex` is held.
* `DeliveredToOwner` - a copy goes down a connection only while the session there is a
  receiver's: logged in as one, past the insert of its login or before the erase of its
  loginout. The connection of the sender, whose handler only has the receiver's id, is
  none of these (exception: `oneChat` with a stale iterator, which `bug_misdelivery` shows).
* `AtMostOnce` - direct, redis and offline way together never duplicate a message
  (for users who come back to the same server).
* `CalmDelivered` - a receiver whose session is settled when the message is sent and
  does not change has exactly one copy when routing is over, unless the server that had
  the copy died.
* `OnOneServer`, `ImplementsPresence` - the refinement of `Presence`. A user counts
  as on a server while the table says online, the server has an entry and
  `loginout` is not about to erase it.
* `HandlersReturn`, `GoneIsOffline`, `InboxDrained` - liveness of `ChatService`.
* `MainTakesItsOwn` - what the client's main thread reads answers its own request, but
  for pushes and the line end of an earlier refusal.
* `Identity` - in the chat menu, the connection's only entry in the server's map and
  the lists on the screen are those of the current user; of a user logged in twice the
  entry may be the other connection's or gone, but the connection has no other user's.
* `RequestsFit` - a request that a handler takes fits the session: a command or a loginout
  carries the id whose entry the connection is (with the same exception), a login or a
  registration finds none.
* `OneSession`, `SessionEnds` - a connection has at most one entry in the map and a
  client that has ended leaves none.
* `MainReturns`, `ReaderEnds` - a login or registration comes to its end, and so does
  the reader after a loginout, with two exceptions: the server threw the request away,
  or answered errno 1 because another client of the same user had taken the entry; then
  the reader waits for ever (`src/client/main.cc:362-366`).
* `OwnIds` - registration and createGroup use the id of their own row.
* `FoundedOrAbandoned` - a group has its creator, or will, unless the second insert
  failed, never ran, or met an early join.
* `RecipientsSound` - groupChat's list has all earlier members and only members.
* `OneConnectionEach` - methods do not share connections, and nobody waits for one while
  having one.
* `NoSharing`, `CountIsTotal`, `Bounded`, `OldestFirst`, `CallsReturn`, `ImplementsPool` -
  the pool.

Runs that end in a violation, each of a promise that a comment makes:

| run | promise | what the code does |
|---|---|---|
| `bug_double_login` | a user who is online cannot log in (`chatservice.cc:100`) | query and update are two statements |
| `bug_misdelivery` | the mutex makes the map thread-safe (`chatservice.hpp:74`) | `oneChat` reads without it and can send a message to another user |
| `bug_unread_deleted` | offline messages are deleted once read (`chatservice.cc:137`) | `remove` deletes also what came after the query |
| `bug_scanner` | the head of the queue is the oldest idle connection (`dbpool.cc:76`) | the scanner does not ask whether there is one |
| `bug_identity` | `g_currentUser` is the user who is logged in (`client/main.cc:22`) | the last session's reader clears it after the next login |

Other deviations are in the models as the code has them and are noted with their
hazards: a killed server's users stay online in the table for ever (`orphans`), a
message can be stored for a user who has just come online, the sender is told
"cached" although the insert failed, a message that arrives before the answer to a
login ends the client, two requests in one read lose the second, two logins of a user on
one server share one entry, so that the loginout of the one silences the other, the scanner can leave
the producer asleep on an empty queue, and a wait in `getConnection` that is notified
in vain starts over with the full time. `queryGroup` pushes the members it reads into a
copy (`group.hpp:25`), so login answers with groups without members; a plain data
error, which the model's `selectGroupMembers` has as a statement without effect.

Every definition that stands for code is mapped to its lines in PROJECT.json. The
definitions whose comment says "a mistake in ..." are no part of the
specification: each is a plausible bug in the definition after it, and replacing
that definition by it breaks the property named in PROJECT.json.

### Fairness

Weak fairness of `Steps(c)` for every connection, of the observer threads, of redis
executing commands, and of `exit` after the reset: these are running threads and
a server that answers. Clients and faults owe nothing. Waiting for `_connMutex` is
weakly fair only; since requests are bounded, the mutex is in the end free for good,
which is all the liveness properties need. In the pool: threads run, timed waits
end, and a borrowed connection comes back (a model method only runs a
statement). No thread has to call. In the directory: threads run, and one that waits
gets a connection if one stays free; the time limit is not what ends its wait. In
the client: its threads run and the server's handlers do; the user and the other
clients owe nothing.

## 4. The proofs

All are checked with `tlapm`. `ChatServiceProofs` is about `Spec` for any sets of
servers, users, connections and messages, any bound `MaxLogins` and any set of faults,
under the assumptions `SystemOK` and `ServiceOK` on the constants.

* `TypeCorrect == Spec => []TypeOK`. `TypeOK` is not inductive: a step uses its
  handler's locals (`user` as a user, `peer` as a connection). `Shape` adds
  `HandlersOK`, which says what each program counter implies about the locals; it
  is inductive, and one lemma per handler shows it.
* `SessionMapCorrect == Spec => []SessionMapSound`. The inductive invariant is
  `IInv == TypeOK /\ HandlersOK /\ SessionsOK /\ SessionMapSound` (`SessionsInvariant`).
  `SessionsOK` is needed because an entry outlives the steps between insert and answer:
  a connection carries no session while it logs in or out, a handler other than the
  close runs only on a connection that is not closed, and an open connection's
  process is alive. The decisive case is `CloseErase`: the scan stops at the
  first entry of the connection, and soundness needs that there is no second; an
  idle connection carries at most the session `who[c]`, so there is none. `IInv` is
  also checked by TLC in the run `faults`.
* `MutexCorrect == Spec => []MutexSound`. `MutexSound` says who holds the mutex in
  terms of program counters. It is inductive relative to `IInv`: that a dying process
  frees its mutex and loses its handlers needs `SessionsOK`, by which a connection
  that was never accepted has no handler inside a critical section.
* `HolderOwnsMap == Spec => OneMapPerHolder` follows step by step: the insert and the
  scan require a free mutex, and the erase of `loginout` is done by its holder.

`ChatOwnerProofs`, under the same assumptions:

* `DeliveryCorrect == Spec => DeliveredToOwner`. The inductive invariant is `Addressed`:
  whoever a copy is on its way to, in the locals of a handler, in a copy pushed by
  redis or in a row of `offlinemessage`, is one of its receivers. With it a step that
  sends finds its connection in the map under the receiver's id, and
  `SessionMapSound` says that the session on this connection is the receiver's
  (`Carries`), which the sender's is not. The exception in
  `DeliveredToOwner`, `StaleSend`, is the one step that does not look at the map any
  more; `bug_misdelivery` shows that the exception is needed.
* `AtMostOnceCorrect == ASSUME Homed PROVE Spec => []AtMostOnce`. `Homed` is
  `SingleClient`, one home server per user, and neither `"db"` nor `"context"` among the
  faults; a killed server, ctrl + c, a broken redis link, a restart, a client that
  vanishes and an iterator that goes stale are all allowed. Each part is needed, as TLC
  shows on instances without it: a failed delete of the offline rows, or a PUBLISH that
  two threads write at once, makes a second copy, and so do two logins that read the same
  rows before either deletes them, or two servers that are both subscribed while a
  receiver moves from one to the other. The argument has four layers, each inductive
  relative to those before it and to `IInv`:
  * `Carriers`: a handler carries a message exactly while it is in `oneChat` or
    `groupChat`, and it is one that was sent on its connection. So no two handlers carry
    the same message.
  * `Fresh`: a message that is not yet sent has no copy anywhere. The lemmas on `Has` and
    `Once` say what appending to a queue and taking its head does to its copies.
  * `Logins`: at most one login of a user is under way, what it has read is still in the
    table until it deletes it, and a server is subscribed only to users who live there
    (`SubscribedAtHome`), so a PUBLISH makes at most one copy.
  * `OneCopies`: there is one place `y` of one kind `k` (carried, in a channel, in the
    table, read by a login, down a connection) outside which there is no copy
    (`OnlyAt`). It says more than `AtMostOnce`, which counts no copy that a handler still
    carries and so is not inductive. Each handler step leaves a copy where it is, moves
    it or loses it.

`ChatPresenceProofs`, under the same assumptions and `Orderly`: `SingleClient`, and neither
`"db"` nor `"sigint"` among the faults. Both are needed: two logins at a time both pass
(`bug_double_login`), and a failed update or a reset of the whole table leaves it saying
the opposite of what the maps say.

* `OnePresentCorrect == Spec => []OnePresent`. `OnePresent` says which connection is the
  present one of a user between any two writes of login, loginout and
  clientCloseException, and what the table then says. It is inductive relative to `IInv`
  with `Closing` (a connection that is being closed carries no session). The decisive case
  is `LoginQuery`: the table says offline, so nobody is present; and nobody is arriving,
  because users have one client at a time.
* `OnOneServerCorrect == Spec => []OnOneServer`: an entry that counts belongs to the
  present connection, of which there is one.
* `PresenceImplemented == Spec => ImplementsPresence`: `LoginOnline` enters a user who was
  nowhere, `LogoutUpdate` and `CloseErase` take the user out, a death is `Crash`, and
  every other step leaves everybody where they are.

`ChatCoherenceProofs`, under the same assumptions and `Linked`: no `"redis"` and no
`"context"` fault. The last is needed: a broken redis connection forgets its channels while
the map keeps its entries.

* `CoherentCorrect == DeliverySpec => []Coherent`. `Coherent` speaks only of users with
  nothing under way, so it says nothing about the steps in between. The invariant that
  does is `Records`, relative to `IInv`, `MutexSound` and `OnePresent`: who carries a
  session has the entry (`MapComplete`, the converse of `SessionMapSound`); while
  loginout takes a user out nobody else of the process is inside for that user
  (`InsideAlone`), because it locks out the insert of the next login; and each server is,
  or will be when redis has executed what it was sent, subscribed for exactly the
  connections that have written SUBSCRIBE and not yet UNSUBSCRIBE (`ChannelsSound`). The
  lemmas `WriteChannels` and `ExecuteChannels` reason about the queue of commands: the
  last one about a channel decides.
* `OrphansExact` then says who the `orphans` are: the users online in the table without a
  present connection. `Moves` is what a step does to the present connections: one comes
  for an offline user, and one goes by writing offline, unless its server dies.

`ChatDeliveryProofs`, under all assumptions of the two before (`Orderly`, `Linked`):

* `CalmDeliveredCorrect == DeliverySpec => []CalmDelivered`. `CalmDelivered` speaks of a
  message only when it is routed. The invariant `CalmPlaced` says, for each message and
  each receiver whose session has not changed since it was sent, where the message is at
  every step. `AtRest`: nobody brings the receiver in or takes the receiver out, and
  table, map and channel agree; this is where `Coherent` and `OrphansExact` are used, at
  the step that sends. `Placed`: either the sender's handler has still to serve the
  receiver, and what it has found out about the receiver (the iterator of the unlocked
  find, the row of the state column) still holds, or there is exactly one copy: in the
  channel of the server that has the entry, down the receiver's connection, or in the
  table when the table says offline. `Fresh` and `Carriers` give the zero to start from.
* The decisive step is `oneChat`'s find without the mutex: when it misses the entry, the
  state column sends the copy through redis, even to the own server, and `AtRest` says
  that exactly one server has an entry and a channel to receive it.

`ChatClientProofs` is about `ChatClient` for any users, readers, faults and bounds, under
`ClientOK`.

* `ClientTypeCorrect == Spec => []TypeOK`, for patient users and others.
* `ClientInvariant` (`ASSUME Patient`): `Identity` is not inductive, because the menu
  changes in one process and the map in another. `ClientInv` describes each phase of the
  main thread by what is then under way in both directions: while it waits for a login,
  for instance, either the request is under way and the map has no entry, or the server
  is between insert and answer, or the one answer is on the socket among pushes and line
  ends. Once the server has ended, only the threads' part (`ThreadsInv`) is left. A
  session that is `ousted` may be without its entry in every phase, and its loginout has
  a phase of its own, in which the answer is errno 1 and the reader never ends.
* `IdentityAgreed` and `OneSessionPerConnection` follow from it.
* `MainTakesOwnAnswers == ASSUME Patient PROVE Spec => MainTakesItsOwn` needs to know
  what is on the socket after the server has ended too, of which `ClientInv` says nothing.
  `Mail` does: it is the part of each phase about the documents under way to the
  client. While the server is up it follows from `ClientInv` (`PhasesMail`); without the
  server it is inductive, since nothing is added and each thread takes its own.
* `RequestsFitCorrect == ASSUME Patient PROVE Spec => RequestsFit`. `ClientInv` says nothing
  of what a client that has ended leaves under way. `Fits` does: every command fits
  the session as it is, a loginout is the last request and a login the only one, so that
  whoever changes the session leaves no request behind that does not fit.

`DirectoryProofs` is about `Directory` for any set of threads, connections, names, limits
and faults, under `DirectoryOK`.

* `DirectoryInvariant`: `OwnIds` needs that `mysql_insert_id` is asked on the connection
  of the insert while nobody else has it. `LastIdIsOwn` says so and is inductive with
  `OneConnectionEach`; both are theorems too (`OwnConnection`, `OwnIdReturned`).
* `NoGroupForgotten == Spec => []FoundedOrAbandoned`: the step that stops founding a group
  is the one that enters the creator or puts the group among the abandoned.
* `RecipientsAreMembers == Spec => []RecipientsSound`: membership only grows, so the
  list read lies between the members at the request and those at the answer.

`DBPoolProofs` is about `DBPool` for any finite set of threads, any set of connections
and any limits, under `PoolOK`:

* `NoConnectionShared == Spec => []NoSharing`, from the inductive `PoolInv`
  (`PoolInvariant`), which adds the types and that a thread holds a connection exactly
  while it is using one.
* `CountBounded` and `CountCorrect` (`Bounded`, `CountIsTotal`) assume `Junk = {0}`: the
  code never sets `_connectionCnt` before it counts, so both rest on memory that
  happens to be zero.
* `HeadIsOldest == Spec => []OldestFirst`, with the lemma that no stamp is in the future.
* `PoolRefined == ASSUME Junk = {0} PROVE Spec => ImplementsPool`. Initial states map to
  initial states, and each step to `Borrow`, `GiveBack`, `Grow`, `Shrink` or a stutter;
  the limits of `Grow` and `Shrink` come from `CountIsTotal` and `Bounded`.

Every invariant and every action property of a passing run is stated by a theorem. Only
model-checked is liveness (`HandlersReturn`, `GoneIsOffline`, `InboxDrained`, `CallsReturn`,
`MainReturns`, `ReaderEnds`, `SessionEnds`), which is out of the prover's reach.

## 5. Not modelled, and why

* `getInstance` (`dbpool.cc:86`): its risk is in the memory order of the double-checked
  read, below the steps of these models. `loadConfigFile` and the `.ini` files are pure
  input; their values are constants of `DBPool`.
* The signal handler in a thread that holds a mutex (`model/main.cc:15`): `SigintReset`
  is a step of its own.
* The unit of `clock()` (`db.h:39`): the model's clock advances at any rate.
* `json.hpp` is a library of 21 000 lines in the repository; the models have the four
  facts about it on which the framing rests (white space, zero byte, trailing text,
  type of a number) and none of its serialisation. muduo, hiredis, the MySQL client and
  the two servers behind them are external.
* SQL text, passwords, message texts, menus and console output.
* `ChatClient` has one connection and `ChatService` has clients without framing; the two
  are connected by `RequestsFit`, not composed in one state space.

Left for later: a pool under a
signal handler that interrupts the holder of its mutex, and `Directory` in place of the
constant `Rcpt` of `ChatService`.
