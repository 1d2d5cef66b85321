------------------------------- MODULE DBPool -------------------------------
(***************************************************************************)
(* CommonConnectionPool of src/server/db: a queue of idle MySQL            *)
(* connections under one mutex, a producer and a scanner thread, and the   *)
(* threads that call getConnection.  All of them touch the queue and the   *)
(* counter with _queueMutex held, so an action is what a thread does from  *)
(* a lock or a wake-up to the next unlock or wait.                         *)
(***************************************************************************)
EXTENDS Integers, Sequences, FiniteSets

CONSTANTS Threads,    \* the threads that call getConnection
          Mysql,      \* MySQL objects
          None,
          InitSize, MaxSize,
          MaxIdle,    \* _maxIdleTime
          Junk,       \* what _connectionCnt may hold before the constructor
          MaxNow,     \* bound on the clock
          MaxCalls    \* bound on the calls of a thread

ASSUME PoolOK ==
  /\ None \notin Mysql
  /\ InitSize \in Nat /\ MaxSize \in Nat /\ InitSize <= MaxSize
  /\ MaxIdle \in Nat /\ MaxNow \in Nat /\ MaxCalls \in Nat
  /\ Junk \subseteq Int
  /\ IsFiniteSet(Threads)

VARIABLES queue,      \* _connectionQueue
          cnt,        \* _connectionCnt
          held,       \* thread -> the connection its shared_ptr owns, or None
          pc,         \* thread -> "idle", "waiting", "notified" or "using"
          producer,   \* "run", or "waiting" in cv.wait
          stamp,      \* connection -> _alivetime
          now,        \* clock()
          calls,      \* thread -> calls of getConnection
          broken      \* the process is past an undefined behaviour

vars == <<queue, cnt, held, pc, producer, stamp, now, calls, broken>>

Queued == {queue[i] : i \in 1..Len(queue)}
Holders == {t \in Threads : held[t] # None}
Live == Queued \cup {held[t] : t \in Holders}

TypeOK ==
  /\ queue \in Seq(Mysql)
  /\ cnt \in Int
  /\ held \in [Threads -> Mysql \cup {None}]
  /\ pc \in [Threads -> {"idle", "waiting", "notified", "using"}]
  /\ producer \in {"run", "waiting"}
  /\ stamp \in [Mysql -> 0..MaxNow]
  /\ now \in 0..MaxNow
  /\ calls \in [Threads -> 0..MaxCalls]
  /\ broken \in BOOLEAN

(* The constructor; _connectionCnt has no initializer before it counts.     *)
Init ==
  /\ queue \in {q \in [1..InitSize -> Mysql] : \A i, j \in 1..InitSize : q[i] = q[j] => i = j}
  /\ \E junk \in Junk : cnt = junk + InitSize
  /\ held = [t \in Threads |-> None]
  /\ pc = [t \in Threads |-> "idle"]
  /\ producer = "run"
  /\ stamp = [p \in Mysql |-> 0]
  /\ now = 0
  /\ calls = [t \in Threads |-> 0]
  /\ broken = FALSE

-----------------------------------------------------------------------------
(* cv.notify_all; w is the new value of pc for the notifying thread.        *)
NotifyAll(w) ==
  /\ producer' = "run"
  /\ pc' = [t \in Threads |-> IF w[t] = "waiting" THEN "notified" ELSE w[t]]

(* A mistake in Take: front without pop. *)
TakeWithoutPop(t) ==
  LET using == [pc EXCEPT ![t] = "using"] IN
  /\ queue # <<>>
  /\ held' = [held EXCEPT ![t] = Head(queue)]
  /\ IF Len(queue) = 1 THEN NotifyAll(using) ELSE pc' = using /\ UNCHANGED producer
  /\ UNCHANGED <<queue, cnt, stamp, now, broken>>

(* Whoever takes the last idle connection notifies.                         *)
Take(t) ==
  LET using == [pc EXCEPT ![t] = "using"] IN
  /\ queue # <<>>
  /\ held' = [held EXCEPT ![t] = Head(queue)]
  /\ queue' = Tail(queue)
  /\ IF Len(queue) = 1 THEN NotifyAll(using) ELSE pc' = using /\ UNCHANGED producer
  /\ UNCHANGED <<cnt, stamp, now, broken>>

Park(t, p) ==
  /\ queue = <<>>
  /\ pc' = [pc EXCEPT ![t] = p]
  /\ UNCHANGED <<queue, cnt, held, producer, stamp, now, broken>>

getConnection(t) ==
  /\ ~broken /\ pc[t] = "idle" /\ calls[t] < MaxCalls
  /\ calls' = [calls EXCEPT ![t] = @ + 1]
  /\ Take(t) \/ Park(t, "waiting")

(* wait_for returns after a notification; when that took too long it says   *)
(* timeout all the same, and an empty queue then means nullptr.  Otherwise  *)
(* the next wait_for starts with the full time.                             *)
Wake(t) ==
  /\ ~broken /\ pc[t] = "notified"
  /\ Take(t) \/ Park(t, "waiting") \/ Park(t, "idle")
  /\ UNCHANGED calls

(* A mistake in Timeout: cv.wait, which has none. *)
WaitsForever(t) == FALSE

Timeout(t) ==
  /\ ~broken /\ pc[t] = "waiting"
  /\ Take(t) \/ Park(t, "idle")
  /\ UNCHANGED calls

(* Mistakes in Release: the idle time is not refreshed, or the connection   *)
(* goes back while its user keeps it.                                       *)
ReleaseUnstamped(t) ==
  /\ ~broken /\ pc[t] = "using"
  /\ queue' = Append(queue, held[t])
  /\ held' = [held EXCEPT ![t] = None]
  /\ pc' = [pc EXCEPT ![t] = "idle"]
  /\ UNCHANGED <<cnt, producer, stamp, now, calls, broken>>

ReleaseTwice(t) ==
  /\ ~broken /\ pc[t] = "using"
  /\ queue' = Append(queue, held[t])
  /\ held' = [held EXCEPT ![t] = None]
  /\ UNCHANGED <<cnt, pc, producer, stamp, now, calls, broken>>

(* The deleter of the shared_ptr; it notifies nobody.                       *)
Release(t) ==
  /\ ~broken /\ pc[t] = "using"
  /\ queue' = Append(queue, held[t])
  /\ stamp' = [stamp EXCEPT ![held[t]] = now]
  /\ held' = [held EXCEPT ![t] = None]
  /\ pc' = [pc EXCEPT ![t] = "idle"]
  /\ UNCHANGED <<cnt, producer, now, calls, broken>>

-----------------------------------------------------------------------------
(*                      the two threads of the pool                        *)

ProducerWait ==
  /\ ~broken /\ producer = "run" /\ queue # <<>>
  /\ producer' = "waiting"
  /\ UNCHANGED <<queue, cnt, held, pc, stamp, now, calls, broken>>

(* cv.wait and wait_for may return although nobody has notified.            *)
SpuriousWake ==
  /\ ~broken
  /\ \/ producer = "waiting" /\ producer' = "run" /\ UNCHANGED pc
     \/ \E t \in Threads : /\ pc[t] = "waiting"
                           /\ pc' = [pc EXCEPT ![t] = "notified"]
                           /\ UNCHANGED producer
  /\ UNCHANGED <<queue, cnt, held, stamp, now, calls, broken>>

(* A mistake in Produce: the new connection is not counted. *)
ProduceUncounted ==
  /\ ~broken /\ producer = "run" /\ queue = <<>> /\ cnt < MaxSize
  /\ \E p \in Mysql \ Live :
       /\ queue' = Append(queue, p)
       /\ stamp' = [stamp EXCEPT ![p] = now]
  /\ NotifyAll(pc)
  /\ UNCHANGED <<cnt, held, now, calls, broken>>

Produce ==
  /\ ~broken /\ producer = "run" /\ queue = <<>> /\ cnt < MaxSize
  /\ \E p \in Mysql \ Live :
       /\ queue' = Append(queue, p)
       /\ stamp' = [stamp EXCEPT ![p] = now]
  /\ cnt' = cnt + 1
  /\ NotifyAll(pc)
  /\ UNCHANGED <<held, now, calls, broken>>

(* At the limit the thread goes round without a pause.                      *)
Spin ==
  /\ ~broken /\ producer = "run" /\ queue = <<>> /\ cnt >= MaxSize
  /\ NotifyAll(pc)
  /\ UNCHANGED <<queue, cnt, held, stamp, now, calls, broken>>

Expired(p) == now - stamp[p] > MaxIdle

(* A mistake in Freed: >= instead of > in the loop's condition. *)
FreedOneMore(k) ==
  /\ k <= Len(queue)
  /\ k = 0 \/ cnt - k + 1 >= InitSize
  /\ \A i \in 1..k : Expired(queue[i])

(* k passes of the scanner's loop delete the k oldest idle connections.     *)
Freed(k) ==
  /\ k <= Len(queue)
  /\ k = 0 \/ cnt - k >= InitSize
  /\ \A i \in 1..k : Expired(queue[i])

(* When the loop has emptied the queue and goes on, it reads the front of   *)
(* an empty queue: it may find something and stop, or do damage.            *)
Scan ==
  /\ ~broken
  /\ \E k \in 0..Len(queue) :
       /\ Freed(k) /\ ~Freed(k + 1)
       /\ queue' = SubSeq(queue, k + 1, Len(queue))
       /\ cnt' = cnt - k
       /\ broken' \in IF k = Len(queue) /\ cnt - k > InitSize THEN BOOLEAN ELSE {FALSE}
  /\ UNCHANGED <<held, pc, producer, stamp, now, calls>>

Tick == ~broken /\ now < MaxNow /\ now' = now + 1
        /\ UNCHANGED <<queue, cnt, held, pc, producer, stamp, calls, broken>>

-----------------------------------------------------------------------------
Caller(t) == getConnection(t) \/ Wake(t) \/ Timeout(t) \/ Release(t)

Next == \/ \E t \in Threads : Caller(t)
        \/ SpuriousWake \/ ProducerWait \/ Produce \/ Spin \/ Scan \/ Tick

Spec == Init /\ [][Next]_vars

(* Threads run and waits time out.  A method of the model classes gives its *)
(* connection back, since it only runs a statement; nothing makes a thread  *)
(* call.                                                                    *)
Fairness == /\ \A t \in Threads : WF_vars(Wake(t)) /\ WF_vars(Timeout(t))
                                    /\ WF_vars(Release(t))
            /\ WF_vars(ProducerWait) /\ WF_vars(Produce) /\ WF_vars(Spin)
            /\ WF_vars(Scan)

FairSpec == Spec /\ Fairness

-----------------------------------------------------------------------------
(* Two threads never talk to the database on one connection, an idle        *)
(* connection is in nobody's hands, and none is in the queue twice: the     *)
(* queue, the producer's push, the deleter's push and the scanner's pop     *)
(* keep every connection in one place.                                      *)
NoSharing ==
  /\ \A i, j \in 1..Len(queue) : queue[i] = queue[j] => i = j
  /\ \A t, r \in Threads : held[t] = held[r] => t = r \/ held[t] = None
  /\ \A t \in Threads : held[t] \notin Queued

(* What makes NoSharing inductive: a thread uses the pool's connections only *)
(* between a successful getConnection and the deleter.                      *)
PoolInv ==
  /\ TypeOK /\ NoSharing
  /\ \A t \in Threads : pc[t] = "using" <=> held[t] # None

(* The counter is the number of connections there are, so none leaks and    *)
(* none is counted twice, and their number stays between the two limits.    *)
CountIsTotal == cnt = Len(queue) + Cardinality(Holders)
Bounded == InitSize <= cnt /\ cnt <= MaxSize

(* The queue is in the order in which its connections became idle, which    *)
(* lets the scanner stop at the first that is not expired (line 76).        *)
OldestFirst ==
  \A i, j \in 1..Len(queue) : i < j => stamp[queue[i]] <= stamp[queue[j]]

(* Every call of getConnection returns, with or without a connection, if    *)
(* the others give theirs back: although a release wakes nobody, no waiter  *)
(* is forgotten.                                                            *)
CallsReturn == \A t \in Threads :
  pc[t] \in {"waiting", "notified"} ~> pc[t] \in {"idle", "using"} \/ broken

Abstract == INSTANCE Pool WITH free <- Queued, used <- held

(* The queue, the counter, the waits and the two threads of the pool        *)
(* implement Pool, which is all that Directory asks of it.                  *)
ImplementsPool == Abstract!PoolSpec

-----------------------------------------------------------------------------
(* dbpool.cc:76, the scanner looks at the head of the queue.  There is none *)
(* when more than initSize connections exist and all are in use.            *)
HeadExists == ~broken
=============================================================================
