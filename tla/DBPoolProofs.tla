---------------------------- MODULE DBPoolProofs ----------------------------
(***************************************************************************)
(* Proofs about DBPool, for any number of threads, any set of MySQL        *)
(* objects, any limits and any idle time: its invariants, and that it      *)
(* implements Pool if the counter starts from 0.                           *)
(***************************************************************************)
EXTENDS DBPool, FiniteSetTheorems, TLAPS

-----------------------------------------------------------------------------
(*                      sequences                                          *)

(* The rest of a nonempty queue, and what SubSeq leaves of it. *)
LEMMA TailOf ==
  ASSUME NEW S, NEW q \in Seq(S), q # <<>>
  PROVE  /\ Head(q) \in S /\ Head(q) = q[1] /\ Len(q) \in Nat \ {0}
         /\ Tail(q) \in Seq(S) /\ Len(Tail(q)) = Len(q) - 1
         /\ \A i \in 1..Len(Tail(q)) : i + 1 \in 1..Len(q) /\ Tail(q)[i] = q[i + 1]
OBVIOUS

LEMMA AppendOf ==
  ASSUME NEW S, NEW q \in Seq(S), NEW x \in S
  PROVE  /\ Append(q, x) \in Seq(S) /\ Len(Append(q, x)) = Len(q) + 1 /\ Len(q) \in Nat
         /\ Append(q, x)[Len(q) + 1] = x
         /\ \A i \in 1..Len(q) : Append(q, x)[i] = q[i]
OBVIOUS

LEMMA RestOf ==
  ASSUME NEW S, NEW q \in Seq(S), NEW k \in 0..Len(q)
  PROVE  /\ SubSeq(q, k + 1, Len(q)) \in Seq(S) /\ Len(q) \in Nat
         /\ Len(SubSeq(q, k + 1, Len(q))) = Len(q) - k
         /\ \A i \in 1..Len(SubSeq(q, k + 1, Len(q))) :
              i + k \in 1..Len(q) /\ SubSeq(q, k + 1, Len(q))[i] = q[i + k]
OBVIOUS

-----------------------------------------------------------------------------
(*                      every connection in one place                      *)

(* NoSharing as a predicate of a queue and of what the threads hold. *)
Apart(q, f) ==
  /\ \A i, j \in 1..Len(q) : q[i] = q[j] => i = j
  /\ \A t, r \in Threads : f[t] = f[r] => t = r \/ f[t] = None
  /\ \A t \in Threads, i \in 1..Len(q) : f[t] # q[i]

LEMMA NoSharingIsApart == NoSharing <=> Apart(queue, held)
BY DEF NoSharing, Apart, Queued

LEMMA ApartTake ==
  ASSUME NEW q \in Seq(Mysql), q # <<>>, NEW f \in [Threads -> Mysql \cup {None}],
         Apart(q, f), NEW t \in Threads, f[t] = None
  PROVE  Apart(Tail(q), [f EXCEPT ![t] = Head(q)])
<1> DEFINE g == [f EXCEPT ![t] = Head(q)]
<1>1. /\ Head(q) \in Mysql /\ Head(q) = q[1] /\ Len(q) \in Nat \ {0}
      /\ Tail(q) \in Seq(Mysql) /\ Len(Tail(q)) = Len(q) - 1
      /\ \A i \in 1..Len(Tail(q)) : i + 1 \in 1..Len(q) /\ Tail(q)[i] = q[i + 1]
  BY TailOf
<1>2. \A r \in Threads : g[r] = IF r = t THEN q[1] ELSE f[r]
  BY <1>1
<1>3. \A i, j \in 1..Len(Tail(q)) : Tail(q)[i] = Tail(q)[j] => i = j
  <2> SUFFICES ASSUME NEW i \in 1..Len(Tail(q)), NEW j \in 1..Len(Tail(q)),
                      Tail(q)[i] = Tail(q)[j]
               PROVE  i = j
    OBVIOUS
  <2>1. i + 1 = j + 1
    BY <1>1 DEF Apart
  <2>2. QED  BY <2>1, <1>1
<1>4. \A r, w \in Threads : g[r] = g[w] => r = w \/ g[r] = None
  <2>1. 1 \in 1..Len(q)
    BY <1>1
  <2>2. \A r \in Threads : f[r] # q[1]
    BY <2>1 DEF Apart
  <2>3. QED  BY <1>2, <2>2 DEF Apart
<1>5. \A r \in Threads, i \in 1..Len(Tail(q)) : g[r] # Tail(q)[i]
  <2> SUFFICES ASSUME NEW r \in Threads, NEW i \in 1..Len(Tail(q))
               PROVE  g[r] # Tail(q)[i]
    OBVIOUS
  <2>1. 1 \in 1..Len(q) /\ i + 1 \in 1..Len(q) /\ Tail(q)[i] = q[i + 1] /\ i + 1 # 1
    BY <1>1
  <2>2. q[i + 1] # q[1] /\ f[r] # q[i + 1]
    BY <2>1 DEF Apart
  <2>3. QED  BY <2>1, <2>2, <1>2
<1>6. QED
  BY <1>3, <1>4, <1>5 DEF Apart

LEMMA ApartAppend ==
  ASSUME NEW q \in Seq(Mysql), NEW f \in [Threads -> Mysql \cup {None}],
         Apart(q, f), NEW p \in Mysql,
         \A i \in 1..Len(q) : q[i] # p, \A r \in Threads : f[r] # p
  PROVE  Apart(Append(q, p), f)
<1> DEFINE a == Append(q, p)
<1>1. /\ Len(a) = Len(q) + 1 /\ Len(q) \in Nat /\ a[Len(q) + 1] = p
      /\ \A i \in 1..Len(q) : a[i] = q[i]
  BY AppendOf
<1>2. \A i \in 1..Len(a) : i \in 1..Len(q) \/ i = Len(q) + 1
  BY <1>1
<1>3. \A i, j \in 1..Len(a) : a[i] = a[j] => i = j
  BY <1>1, <1>2 DEF Apart
<1>4. \A r \in Threads, i \in 1..Len(a) : f[r] # a[i]
  BY <1>1, <1>2 DEF Apart
<1>5. QED
  BY <1>3, <1>4 DEF Apart

LEMMA ApartRelease ==
  ASSUME NEW q \in Seq(Mysql), NEW f \in [Threads -> Mysql \cup {None}],
         Apart(q, f), NEW t \in Threads, f[t] # None
  PROVE  Apart(Append(q, f[t]), [f EXCEPT ![t] = None])
<1> DEFINE g == [f EXCEPT ![t] = None]
<1>1. g \in [Threads -> Mysql \cup {None}] /\ f[t] \in Mysql
  OBVIOUS
<1>2. \A r \in Threads : g[r] = IF r = t THEN None ELSE f[r]
  OBVIOUS
<1>3. \A i \in 1..Len(q) : q[i] \in Mysql /\ q[i] # f[t]
  BY DEF Apart
<1>4. Apart(q, g)
  BY <1>2, <1>3, PoolOK DEF Apart
<1>5. \A r \in Threads : g[r] # f[t]
  BY <1>2 DEF Apart
<1>6. \A p \in Mysql : f[t] = p => Apart(Append(q, p), g)
  <2> HIDE DEF g
  <2>1. QED  BY <1>1, <1>3, <1>4, <1>5, ApartAppend
<1>7. QED
  BY <1>1, <1>6

LEMMA ApartRest ==
  ASSUME NEW q \in Seq(Mysql), NEW f \in [Threads -> Mysql \cup {None}],
         Apart(q, f), NEW k \in 0..Len(q)
  PROVE  Apart(SubSeq(q, k + 1, Len(q)), f)
<1> DEFINE b == SubSeq(q, k + 1, Len(q))
<1>1. /\ Len(q) \in Nat /\ Len(b) = Len(q) - k
      /\ \A i \in 1..Len(b) : i + k \in 1..Len(q) /\ b[i] = q[i + k]
  BY RestOf
<1>2. \A i, j \in 1..Len(b) : b[i] = b[j] => i = j
  <2> SUFFICES ASSUME NEW i \in 1..Len(b), NEW j \in 1..Len(b), b[i] = b[j]
               PROVE  i = j
    OBVIOUS
  <2>1. i + k = j + k
    BY <1>1 DEF Apart
  <2>2. QED  BY <2>1, <1>1
<1>3. \A r \in Threads, i \in 1..Len(b) : f[r] # b[i]
  BY <1>1 DEF Apart
<1>4. QED
  BY <1>2, <1>3 DEF Apart

-----------------------------------------------------------------------------
(*                      the steps of the pool                              *)

LEMMA NotifyType ==
  ASSUME NEW w \in [Threads -> {"idle", "waiting", "notified", "using"}], NotifyAll(w)
  PROVE  /\ producer' = "run"
         /\ pc' \in [Threads -> {"idle", "waiting", "notified", "using"}]
         /\ \A t \in Threads : pc'[t] = "using" <=> w[t] = "using"
BY DEF NotifyAll

LEMMA InitPool == Init => PoolInv
<1> SUFFICES ASSUME Init PROVE PoolInv
  OBVIOUS
<1>1. queue \in Seq(Mysql) /\ Len(queue) = InitSize
  BY PoolOK DEF Init
<1>2. TypeOK
  <2>1. cnt \in Int
    BY PoolOK DEF Init
  <2>2. /\ 0 \in 0..MaxNow /\ 0 \in 0..MaxCalls
    BY PoolOK
  <2>3. stamp \in [Mysql -> 0..MaxNow] /\ now \in 0..MaxNow /\ calls \in [Threads -> 0..MaxCalls]
    BY <2>2 DEF Init
  <2>4. QED  BY <1>1, <2>1, <2>3 DEF Init, TypeOK
<1>3. \A t \in Threads : held[t] = None
  BY DEF Init
<1>4. \A i \in 1..Len(queue) : queue[i] \in Mysql
  BY <1>1
<1>5. \A i, j \in 1..Len(queue) : queue[i] = queue[j] => i = j
  BY <1>1 DEF Init
<1>6. NoSharing
  BY <1>3, <1>4, <1>5, PoolOK DEF NoSharing, Queued
<1>7. \A t \in Threads : pc[t] = "using" <=> held[t] # None
  BY <1>3 DEF Init
<1>8. QED
  BY <1>2, <1>6, <1>7 DEF PoolInv

(* A waiting or entering thread gets the head of the queue. *)
LEMMA TakeStep ==
  ASSUME PoolInv, NEW t \in Threads, pc[t] # "using", Take(t),
         calls' \in [Threads -> 0..MaxCalls]
  PROVE  PoolInv'
<1> DEFINE using == [pc EXCEPT ![t] = "using"]
<1>1. /\ queue \in Seq(Mysql) /\ queue # <<>>
      /\ held \in [Threads -> Mysql \cup {None}] /\ held[t] = None
      /\ Apart(queue, held)
  BY NoSharingIsApart DEF PoolInv, TypeOK, Take
<1>2. Head(queue) \in Mysql /\ Tail(queue) \in Seq(Mysql)
  BY <1>1, TailOf
<1>3. queue' = Tail(queue) /\ held' = [held EXCEPT ![t] = Head(queue)]
  BY DEF Take
<1>4. NoSharing'
  <2>1. Apart(queue', held')
    BY <1>1, <1>3, ApartTake
  <2>2. QED  BY <2>1 DEF NoSharing, Apart, Queued
<1>5. /\ pc' \in [Threads -> {"idle", "waiting", "notified", "using"}]
      /\ producer' \in {"run", "waiting"}
      /\ \A r \in Threads : pc'[r] = "using" <=> using[r] = "using"
  <2>1. using \in [Threads -> {"idle", "waiting", "notified", "using"}]
    BY DEF PoolInv, TypeOK
  <2>2. CASE NotifyAll(using)
    BY <2>1, <2>2, NotifyType
  <2>3. CASE pc' = using /\ UNCHANGED producer
    BY <2>1, <2>3 DEF PoolInv, TypeOK
  <2>4. QED  BY <2>2, <2>3 DEF Take
<1>6. \A r \in Threads : pc'[r] = "using" <=> held'[r] # None
  <2>1. \A r \in Threads : using[r] = IF r = t THEN "using" ELSE pc[r]
    BY DEF PoolInv, TypeOK
  <2>2. \A r \in Threads : held'[r] = IF r = t THEN Head(queue) ELSE held[r]
    BY <1>1, <1>3
  <2>3. QED  BY <2>1, <2>2, <1>2, <1>5, PoolOK DEF PoolInv
<1>7. TypeOK'
  BY <1>1, <1>2, <1>3, <1>5 DEF Take, PoolInv, TypeOK
<1>8. QED
  BY <1>4, <1>6, <1>7 DEF PoolInv

(* A thread goes on waiting or gives up. *)
LEMMA ParkStep ==
  ASSUME PoolInv, NEW t \in Threads, pc[t] # "using",
         NEW p \in {"idle", "waiting"}, Park(t, p),
         calls' \in [Threads -> 0..MaxCalls]
  PROVE  PoolInv'
<1>1. TypeOK'
  BY DEF Park, PoolInv, TypeOK
<1>2. NoSharing'
  BY DEF Park, PoolInv, NoSharing, Queued
<1>3. \A r \in Threads : pc'[r] = "using" <=> held'[r] # None
  BY DEF Park, PoolInv, TypeOK
<1>4. QED
  BY <1>1, <1>2, <1>3 DEF PoolInv

LEMMA ReleaseStep ==
  ASSUME PoolInv, NEW t \in Threads, Release(t)
  PROVE  PoolInv'
<1>1. /\ queue \in Seq(Mysql) /\ held \in [Threads -> Mysql \cup {None}]
      /\ held[t] # None /\ held[t] \in Mysql /\ Apart(queue, held)
  BY NoSharingIsApart DEF PoolInv, TypeOK, Release
<1>2. queue' = Append(queue, held[t]) /\ held' = [held EXCEPT ![t] = None]
  BY DEF Release
<1>3. NoSharing'
  <2>1. Apart(queue', held')
    BY <1>1, <1>2, ApartRelease
  <2>2. QED  BY <2>1 DEF NoSharing, Apart, Queued
<1>4. queue' \in Seq(Mysql)
  BY <1>1, <1>2, AppendOf
<1>5. TypeOK'
  BY <1>1, <1>2, <1>4 DEF Release, PoolInv, TypeOK
<1>6. \A r \in Threads : pc'[r] = "using" <=> held'[r] # None
  BY <1>1, <1>2 DEF Release, PoolInv, TypeOK
<1>7. QED
  BY <1>3, <1>5, <1>6 DEF PoolInv

LEMMA ProduceStep == ASSUME PoolInv, Produce PROVE PoolInv'
<1>1. PICK p \in Mysql \ Live : /\ queue' = Append(queue, p)
                                /\ stamp' = [stamp EXCEPT ![p] = now]
  BY DEF Produce
<1>2. /\ queue \in Seq(Mysql) /\ held \in [Threads -> Mysql \cup {None}]
      /\ Apart(queue, held)
  BY NoSharingIsApart DEF PoolInv, TypeOK
<1>3. /\ \A i \in 1..Len(queue) : queue[i] # p
      /\ \A r \in Threads : held[r] # p
  BY PoolOK DEF Live, Queued, Holders
<1>4. NoSharing'
  <2>1. Apart(queue', held')
    BY <1>1, <1>2, <1>3, ApartAppend DEF Produce
  <2>2. QED  BY <2>1 DEF NoSharing, Apart, Queued
<1>5. /\ producer' = "run"
      /\ pc' \in [Threads -> {"idle", "waiting", "notified", "using"}]
      /\ \A t \in Threads : pc'[t] = "using" <=> pc[t] = "using"
  BY NotifyType DEF Produce, PoolInv, TypeOK
<1>6. queue' \in Seq(Mysql)
  BY <1>1, <1>2, AppendOf
<1>7. TypeOK'
  BY <1>1, <1>5, <1>6 DEF Produce, PoolInv, TypeOK
<1>8. QED
  BY <1>4, <1>5, <1>7 DEF Produce, PoolInv

LEMMA ScanStep == ASSUME PoolInv, Scan PROVE PoolInv'
<1>1. PICK k \in 0..Len(queue) : /\ queue' = SubSeq(queue, k + 1, Len(queue))
                                 /\ cnt' = cnt - k
                                 /\ broken' \in BOOLEAN
  BY DEF Scan
<1>2. /\ queue \in Seq(Mysql) /\ held \in [Threads -> Mysql \cup {None}]
      /\ Apart(queue, held)
  BY NoSharingIsApart DEF PoolInv, TypeOK
<1>3. NoSharing'
  <2>1. Apart(queue', held')
    BY <1>1, <1>2, ApartRest DEF Scan
  <2>2. QED  BY <2>1 DEF NoSharing, Apart, Queued
<1>4. queue' \in Seq(Mysql) /\ Len(queue) \in Nat
  BY <1>1, <1>2, RestOf
<1>5. TypeOK'
  BY <1>1, <1>4 DEF Scan, PoolInv, TypeOK
<1>6. QED
  BY <1>3, <1>5 DEF Scan, PoolInv

LEMMA PoolInvStep == PoolInv /\ [Next]_vars => PoolInv'
<1> SUFFICES ASSUME PoolInv, [Next]_vars PROVE PoolInv'
  OBVIOUS
<1>1. ASSUME NEW t \in Threads, getConnection(t) PROVE PoolInv'
  <2>1. pc[t] # "using" /\ calls' \in [Threads -> 0..MaxCalls]
    BY <1>1, PoolOK DEF getConnection, PoolInv, TypeOK
  <2>2. QED  BY <1>1, <2>1, TakeStep, ParkStep DEF getConnection
<1>2. ASSUME NEW t \in Threads, Wake(t) \/ Timeout(t) PROVE PoolInv'
  <2>1. pc[t] # "using" /\ calls' \in [Threads -> 0..MaxCalls]
    BY <1>2 DEF Wake, Timeout, PoolInv, TypeOK
  <2>2. QED  BY <1>2, <2>1, TakeStep, ParkStep DEF Wake, Timeout
<1>3. CASE SpuriousWake \/ ProducerWait
  <2>1. CASE producer' \in {"run", "waiting"} /\ UNCHANGED pc
    BY <1>3, <2>1 DEF SpuriousWake, ProducerWait, PoolInv, TypeOK, NoSharing, Queued
  <2>2. ASSUME NEW t \in Threads, pc[t] = "waiting", pc' = [pc EXCEPT ![t] = "notified"],
               SpuriousWake, UNCHANGED producer
        PROVE  PoolInv'
    BY <2>2 DEF SpuriousWake, PoolInv, TypeOK, NoSharing, Queued
  <2>3. QED  BY <1>3, <2>1, <2>2 DEF SpuriousWake, ProducerWait
<1>4. CASE Spin
  <2>1. /\ producer' = "run"
        /\ pc' \in [Threads -> {"idle", "waiting", "notified", "using"}]
        /\ \A t \in Threads : pc'[t] = "using" <=> pc[t] = "using"
    BY <1>4, NotifyType DEF Spin, PoolInv, TypeOK
  <2>2. QED  BY <1>4, <2>1 DEF Spin, PoolInv, TypeOK, NoSharing, Queued
<1>5. CASE Tick
  <2>1. now' \in 0..MaxNow
    BY <1>5, PoolOK DEF Tick, PoolInv, TypeOK
  <2>2. QED  BY <1>5, <2>1 DEF Tick, PoolInv, TypeOK, NoSharing, Queued
<1>6. CASE UNCHANGED vars
  BY <1>6 DEF vars, PoolInv, TypeOK, NoSharing, Queued
<1>7. QED
  BY <1>1, <1>2, <1>3, <1>4, <1>5, <1>6, ReleaseStep, ProduceStep, ScanStep
     DEF Next, Caller

(* PoolInv: a MySQL object is in the queue once or in the hands of one      *)
(* thread that is using it, or nowhere (getConnection and its deleter,      *)
(* produceConnectionTask:47-54, scannerConnectionTask:68-74).               *)
THEOREM PoolInvariant == Spec => []PoolInv
BY InitPool, PoolInvStep, PTL DEF Spec

(* Two threads never get the same MySQL object from the pool, no thread     *)
(* holds one that is idle in the queue, and none is queued twice.           *)
THEOREM NoConnectionShared == Spec => []NoSharing
<1>1. PoolInv => NoSharing
  BY DEF PoolInv
<1>2. QED
  BY <1>1, PoolInvariant, PTL

-----------------------------------------------------------------------------
(*                      the counter                                        *)

(* What a step does to the counter. *)
LEMMA CountStep ==
  ASSUME PoolInv, [Next]_vars, InitSize <= cnt, cnt <= MaxSize
  PROVE  InitSize <= cnt' /\ cnt' <= MaxSize
<1>1. cnt \in Int /\ InitSize \in Nat /\ MaxSize \in Nat
  BY PoolOK DEF PoolInv, TypeOK
<1>2. CASE Produce
  BY <1>1, <1>2 DEF Produce
<1>3. CASE Scan
  <2>1. PICK k \in 0..Len(queue) : Freed(k) /\ cnt' = cnt - k
    BY <1>3 DEF Scan
  <2>2. Len(queue) \in Nat
    BY DEF PoolInv, TypeOK
  <2>3. QED  BY <1>1, <2>1, <2>2 DEF Freed
<1>4. CASE \E t \in Threads : Caller(t)
  BY <1>4 DEF Caller, getConnection, Wake, Timeout, Release, Take, Park
<1>5. QED
  BY <1>1, <1>2, <1>3, <1>4 DEF Next, vars, SpuriousWake, ProducerWait, Spin, Tick

(* If _connectionCnt starts from 0, the number of connections the pool      *)
(* believes it has stays between initSize and maxSize: the producer stops   *)
(* at the one, the scanner at the other.                                    *)
THEOREM CountBounded == ASSUME Junk = {0} PROVE Spec => []Bounded
<1>1. Init => Bounded
  BY PoolOK DEF Init, Bounded
<1>2. PoolInv /\ Bounded /\ [Next]_vars => Bounded'
  BY CountStep DEF Bounded
<1>3. QED
  BY <1>1, <1>2, PoolInvariant, PTL DEF Spec

(* The threads that hold a connection, as a function of held.               *)
HoldersOf(f) == {t \in Threads : f[t] # None}

LEMMA HoldersFinite ==
  ASSUME NEW f
  PROVE  IsFiniteSet(HoldersOf(f)) /\ Cardinality(HoldersOf(f)) \in Nat
<1>1. HoldersOf(f) \subseteq Threads
  BY DEF HoldersOf
<1>2. QED
  BY <1>1, PoolOK, FS_Subset, FS_CardinalityType

LEMMA HoldersCount ==
  ASSUME NEW f \in [Threads -> Mysql \cup {None}], NEW t \in Threads
  PROVE  /\ \A p \in Mysql : f[t] = None =>
              Cardinality(HoldersOf([f EXCEPT ![t] = p])) = Cardinality(HoldersOf(f)) + 1
         /\ f[t] # None =>
              Cardinality(HoldersOf([f EXCEPT ![t] = None])) = Cardinality(HoldersOf(f)) - 1
<1>1. IsFiniteSet(HoldersOf(f)) /\ Cardinality(HoldersOf(f)) \in Nat
  BY HoldersFinite
<1>2. ASSUME NEW p \in Mysql, f[t] = None
      PROVE  Cardinality(HoldersOf([f EXCEPT ![t] = p])) = Cardinality(HoldersOf(f)) + 1
  <2>1. HoldersOf([f EXCEPT ![t] = p]) = HoldersOf(f) \cup {t}
    BY <1>2, PoolOK DEF HoldersOf
  <2>2. t \notin HoldersOf(f)
    BY <1>2 DEF HoldersOf
  <2>3. QED  BY <2>1, <2>2, <1>1, FS_AddElement
<1>3. ASSUME f[t] # None
      PROVE  Cardinality(HoldersOf([f EXCEPT ![t] = None])) = Cardinality(HoldersOf(f)) - 1
  <2>1. HoldersOf([f EXCEPT ![t] = None]) = HoldersOf(f) \ {t}
    BY <1>3 DEF HoldersOf
  <2>2. t \in HoldersOf(f)
    BY <1>3 DEF HoldersOf
  <2>3. QED  BY <2>1, <2>2, <1>1, FS_RemoveElement
<1>4. QED
  BY <1>2, <1>3

LEMMA TotalStep == PoolInv /\ CountIsTotal /\ [Next]_vars => CountIsTotal'
<1> SUFFICES ASSUME PoolInv, CountIsTotal, [Next]_vars
             PROVE  cnt' = Len(queue') + Cardinality(HoldersOf(held'))
  BY DEF CountIsTotal, Holders, HoldersOf
<1>1. /\ queue \in Seq(Mysql) /\ Len(queue) \in Nat /\ cnt \in Int
      /\ held \in [Threads -> Mysql \cup {None}]
      /\ cnt = Len(queue) + Cardinality(HoldersOf(held))
  BY DEF PoolInv, TypeOK, CountIsTotal, Holders, HoldersOf
<1>2. Cardinality(HoldersOf(held)) \in Nat
  BY HoldersFinite
<1>3. ASSUME NEW t \in Threads, Take(t), pc[t] # "using", cnt' = cnt
      PROVE  cnt' = Len(queue') + Cardinality(HoldersOf(held'))
  <2>1. /\ held[t] = None /\ Head(queue) \in Mysql
        /\ Len(Tail(queue)) = Len(queue) - 1
    BY <1>1, <1>3, TailOf DEF Take, PoolInv
  <2>2. Cardinality(HoldersOf([held EXCEPT ![t] = Head(queue)]))
          = Cardinality(HoldersOf(held)) + 1
    BY <1>1, <2>1, HoldersCount
  <2>3. QED  BY <1>1, <1>2, <1>3, <2>1, <2>2 DEF Take
<1>4. ASSUME NEW t \in Threads, getConnection(t) \/ Wake(t) \/ Timeout(t)
      PROVE  cnt' = Len(queue') + Cardinality(HoldersOf(held'))
  <2>1. pc[t] # "using"
    BY <1>4 DEF getConnection, Wake, Timeout
  <2>2. Take(t) \/ Park(t, "waiting") \/ Park(t, "idle")
    BY <1>4 DEF getConnection, Wake, Timeout
  <2>3. CASE Take(t)
    BY <2>1, <2>3, <1>3 DEF Take
  <2>4. CASE \E p \in {"waiting", "idle"} : Park(t, p)
    BY <2>4, <1>1 DEF Park
  <2>5. QED  BY <2>2, <2>3, <2>4
<1>5. ASSUME NEW t \in Threads, Release(t)
      PROVE  cnt' = Len(queue') + Cardinality(HoldersOf(held'))
  <2>1. held[t] # None /\ held[t] \in Mysql
    BY <1>1, <1>5 DEF Release, PoolInv
  <2>2. Len(Append(queue, held[t])) = Len(queue) + 1
    BY <1>1, <2>1, AppendOf
  <2>3. Cardinality(HoldersOf([held EXCEPT ![t] = None]))
          = Cardinality(HoldersOf(held)) - 1
    BY <1>1, <2>1, HoldersCount
  <2>4. QED  BY <1>1, <1>2, <1>5, <2>2, <2>3 DEF Release
<1>6. CASE Produce
  <2>1. PICK p \in Mysql : queue' = Append(queue, p)
    BY <1>6 DEF Produce
  <2>2. Len(queue') = Len(queue) + 1
    BY <1>1, <2>1, AppendOf
  <2>3. QED  BY <1>1, <1>2, <1>6, <2>2 DEF Produce
<1>7. CASE Scan
  <2>1. PICK k \in 0..Len(queue) : /\ queue' = SubSeq(queue, k + 1, Len(queue))
                                   /\ cnt' = cnt - k
    BY <1>7 DEF Scan
  <2>2. Len(queue') = Len(queue) - k
    BY <1>1, <2>1, RestOf
  <2>3. QED  BY <1>1, <1>2, <1>7, <2>1, <2>2, SMTT(30) DEF Scan
<1>8. CASE SpuriousWake \/ ProducerWait \/ Spin \/ Tick \/ UNCHANGED vars
  BY <1>1, <1>8 DEF SpuriousWake, ProducerWait, Spin, Tick, vars
<1>9. QED
  BY <1>4, <1>5, <1>6, <1>7, <1>8 DEF Next, Caller

(* If _connectionCnt starts from 0, it is always the number of connections  *)
(* in the queue and in the hands of threads: none leaks, whether a thread   *)
(* gives it back or the scanner frees it, and none is counted twice.        *)
THEOREM CountCorrect == ASSUME Junk = {0} PROVE Spec => []CountIsTotal
<1>1. Init => CountIsTotal
  <2> SUFFICES ASSUME Init PROVE CountIsTotal
    OBVIOUS
  <2>1. Holders = {}
    BY DEF Init, Holders
  <2>2. Len(queue) = InitSize /\ cnt = InitSize /\ InitSize \in Nat
    BY PoolOK DEF Init
  <2>3. QED  BY <2>1, <2>2, FS_EmptySet DEF CountIsTotal
<1>2. QED
  BY <1>1, TotalStep, PoolInvariant, PTL DEF Spec

-----------------------------------------------------------------------------
(*                      the order of the queue                             *)

(* No connection became idle in the future. *)
StampsPast == \A p \in Mysql : stamp[p] <= now

Ordered(q, f) == \A i, j \in 1..Len(q) : i < j => f[q[i]] <= f[q[j]]

LEMMA OrderedTail ==
  ASSUME NEW q \in Seq(Mysql), q # <<>>, NEW f, Ordered(q, f)
  PROVE  Ordered(Tail(q), f)
<1>1. /\ Len(q) \in Nat /\ Len(Tail(q)) = Len(q) - 1
      /\ \A i \in 1..Len(Tail(q)) : i + 1 \in 1..Len(q) /\ Tail(q)[i] = q[i + 1]
  BY TailOf
<1>2. QED
  BY <1>1 DEF Ordered

LEMMA OrderedRest ==
  ASSUME NEW q \in Seq(Mysql), NEW f, Ordered(q, f), NEW k \in 0..Len(q)
  PROVE  Ordered(SubSeq(q, k + 1, Len(q)), f)
<1> DEFINE b == SubSeq(q, k + 1, Len(q))
<1>1. /\ Len(q) \in Nat /\ Len(b) = Len(q) - k
      /\ \A i \in 1..Len(b) : i + k \in 1..Len(q) /\ b[i] = q[i + k]
  BY RestOf
<1>2. ASSUME NEW i \in 1..Len(b), NEW j \in 1..Len(b), i < j
      PROVE  f[b[i]] <= f[b[j]]
  <2>1. i + k < j + k
    BY <1>1, <1>2
  <2>2. QED  BY <1>1, <2>1 DEF Ordered
<1>3. QED
  BY <1>2 DEF Ordered

(* A connection that is put at the end with the latest stamp. *)
LEMMA OrderedAppend ==
  ASSUME NEW q \in Seq(Mysql), NEW f \in [Mysql -> Int], Ordered(q, f),
         NEW p \in Mysql, \A i \in 1..Len(q) : q[i] # p,
         NEW n \in Int, \A r \in Mysql : f[r] <= n
  PROVE  Ordered(Append(q, p), [f EXCEPT ![p] = n])
<1> DEFINE a == Append(q, p)
           g == [f EXCEPT ![p] = n]
<1>1. /\ Len(a) = Len(q) + 1 /\ Len(q) \in Nat /\ a[Len(q) + 1] = p
      /\ \A i \in 1..Len(q) : a[i] = q[i]
  BY AppendOf
<1>2. \A r \in Mysql : g[r] = IF r = p THEN n ELSE f[r]
  OBVIOUS
<1>3. \A i \in 1..Len(q) : q[i] \in Mysql
  OBVIOUS
<1>4. ASSUME NEW i \in 1..Len(a), NEW j \in 1..Len(a), i < j
      PROVE  g[a[i]] <= g[a[j]]
  <2>1. i \in 1..Len(q) /\ a[i] = q[i] /\ g[a[i]] = f[q[i]]
    BY <1>1, <1>2, <1>3, <1>4
  <2>2. CASE j = Len(q) + 1
    <3>1. g[a[j]] = n
      BY <1>1, <1>2, <2>2
    <3>2. QED  BY <1>3, <2>1, <3>1
  <2>3. CASE j \in 1..Len(q)
    <3>1. g[a[j]] = f[q[j]]
      BY <1>1, <1>2, <1>3, <2>3
    <3>2. QED  BY <1>4, <2>1, <2>3, <3>1 DEF Ordered
  <2>4. QED  BY <1>1, <2>2, <2>3
<1>5. QED
  BY <1>4 DEF Ordered

LEMMA OrderStep == PoolInv /\ StampsPast /\ OldestFirst /\ [Next]_vars => OldestFirst'
<1> SUFFICES ASSUME PoolInv, StampsPast, Ordered(queue, stamp), [Next]_vars
             PROVE  Ordered(queue', stamp')
  BY DEF OldestFirst, Ordered
<1>1. /\ queue \in Seq(Mysql) /\ stamp \in [Mysql -> Int] /\ now \in Int
      /\ Apart(queue, held) /\ \A p \in Mysql : stamp[p] <= now
  BY NoSharingIsApart DEF PoolInv, TypeOK, StampsPast
<1>2. ASSUME NEW t \in Threads, getConnection(t) \/ Wake(t) \/ Timeout(t)
      PROVE  Ordered(queue', stamp')
  <2>1. Take(t) \/ Park(t, "waiting") \/ Park(t, "idle")
    BY <1>2 DEF getConnection, Wake, Timeout
  <2>2. CASE Take(t)
    BY <1>1, <2>2, OrderedTail DEF Take
  <2>3. CASE \E p \in {"waiting", "idle"} : Park(t, p)
    BY <2>3 DEF Park
  <2>4. QED  BY <2>1, <2>2, <2>3
<1>3. ASSUME NEW t \in Threads, Release(t)
      PROVE  Ordered(queue', stamp')
  <2>1. held[t] \in Mysql /\ \A i \in 1..Len(queue) : queue[i] # held[t]
    BY <1>1, <1>3 DEF Release, PoolInv, TypeOK, Apart
  <2>2. QED  BY <1>1, <1>3, <2>1, OrderedAppend DEF Release
<1>4. CASE Produce
  <2>1. PICK p \in Mysql \ Live : /\ queue' = Append(queue, p)
                                  /\ stamp' = [stamp EXCEPT ![p] = now]
    BY <1>4 DEF Produce
  <2>2. \A i \in 1..Len(queue) : queue[i] # p
    BY DEF Live, Queued
  <2>3. QED  BY <1>1, <2>1, <2>2, OrderedAppend
<1>5. CASE Scan
  <2>1. PICK k \in 0..Len(queue) : queue' = SubSeq(queue, k + 1, Len(queue))
    BY <1>5 DEF Scan
  <2>2. QED  BY <1>1, <1>5, <2>1, OrderedRest DEF Scan
<1>6. CASE SpuriousWake \/ ProducerWait \/ Spin \/ Tick \/ UNCHANGED vars
  BY <1>6 DEF SpuriousWake, ProducerWait, Spin, Tick, vars
<1>7. QED
  BY <1>2, <1>3, <1>4, <1>5, <1>6 DEF Next, Caller

LEMMA StampStep == PoolInv /\ StampsPast /\ [Next]_vars => StampsPast'
<1> SUFFICES ASSUME PoolInv, StampsPast, [Next]_vars PROVE StampsPast'
  OBVIOUS
<1>1. stamp \in [Mysql -> Int] /\ now \in Int /\ \A p \in Mysql : stamp[p] <= now
  BY DEF PoolInv, TypeOK, StampsPast
<1>2. ASSUME NEW p \in Mysql, stamp' = [stamp EXCEPT ![p] = now], now' = now
      PROVE  StampsPast'
  <2>1. \A r \in Mysql : stamp'[r] = IF r = p THEN now ELSE stamp[r]
    BY <1>1, <1>2
  <2>2. \A r \in Mysql : stamp'[r] <= now
    BY <1>1, <2>1
  <2>3. QED  BY <1>2, <2>2 DEF StampsPast
<1>3. CASE Tick
  BY <1>1, <1>3 DEF Tick, StampsPast
<1>4. ASSUME NEW t \in Threads, Caller(t) PROVE StampsPast'
  <2>1. CASE Release(t)
    BY <1>2, <2>1 DEF Release, PoolInv, TypeOK
  <2>2. CASE getConnection(t) \/ Wake(t) \/ Timeout(t)
    BY <1>1, <2>2 DEF getConnection, Wake, Timeout, Take, Park, StampsPast
  <2>3. QED  BY <1>4, <2>1, <2>2 DEF Caller
<1>5. CASE Produce
  <2>1. PICK p \in Mysql : stamp' = [stamp EXCEPT ![p] = now]
    BY <1>5 DEF Produce
  <2>2. QED  BY <1>2, <1>5, <2>1 DEF Produce
<1>6. CASE SpuriousWake \/ ProducerWait \/ Spin \/ Scan \/ UNCHANGED vars
  BY <1>1, <1>6 DEF SpuriousWake, ProducerWait, Spin, Scan, vars, StampsPast
<1>7. QED
  BY <1>3, <1>4, <1>5, <1>6 DEF Next

(* The head of the queue is the connection that has been idle for longest.  *)
THEOREM HeadIsOldest == Spec => []OldestFirst
<1>1. Init => StampsPast
  BY PoolOK DEF Init, StampsPast
<1>2. Init => OldestFirst
  <2> SUFFICES ASSUME Init PROVE OldestFirst
    OBVIOUS
  <2>1. \A i \in 1..Len(queue) : stamp[queue[i]] = 0
    BY PoolOK DEF Init
  <2>2. QED  BY <2>1 DEF OldestFirst
<1>3. QED
  BY <1>1, <1>2, OrderStep, StampStep, PoolInvariant, PTL DEF Spec

-----------------------------------------------------------------------------
(*                      the number of connections                          *)

SetOf(q)  == {q[i] : i \in 1..Len(q)}
LentBy(f) == {f[t] : t \in Threads} \ {None}

LEMMA UpToCount ==
  ASSUME NEW n \in Nat
  PROVE  IsFiniteSet(1..n) /\ Cardinality(1..n) = n
<1>1. 1 \in Int /\ n \in Int
  OBVIOUS
<1>2. IsFiniteSet(1..n) /\ Cardinality(1..n) = IF 1 > n THEN 0 ELSE n - 1 + 1
  BY <1>1, FS_Interval
<1>3. QED
  BY <1>2

LEMMA QueueCount ==
  ASSUME NEW q \in Seq(Mysql), \A i, j \in 1..Len(q) : q[i] = q[j] => i = j
  PROVE  IsFiniteSet(SetOf(q)) /\ Cardinality(SetOf(q)) = Len(q)
<1> DEFINE g == [i \in 1..Len(q) |-> q[i]]
<1>1. Len(q) \in Nat
  OBVIOUS
<1>2. g \in Bijection(1..Len(q), SetOf(q))
  <2>1. g \in [1..Len(q) -> SetOf(q)]
    BY DEF SetOf
  <2>2. \A i, j \in 1..Len(q) : g[i] = g[j] => i = j
    OBVIOUS
  <2>3. \A p \in SetOf(q) : \E i \in 1..Len(q) : g[i] = p
    BY DEF SetOf
  <2>4. QED
    BY <2>1, <2>2, <2>3 DEF Bijection, Injection, Surjection, IsInjective
<1>3. ExistsBijection(1..Len(q), SetOf(q))
  BY <1>2 DEF ExistsBijection
<1>4. IsFiniteSet(1..Len(q)) /\ Cardinality(1..Len(q)) = Len(q)
  BY <1>1, UpToCount
<1>5. QED
  BY <1>3, <1>4, FS_Bijection

LEMMA LentCount ==
  ASSUME NEW f \in [Threads -> Mysql \cup {None}],
         \A t, r \in Threads : f[t] = f[r] => t = r \/ f[t] = None
  PROVE  IsFiniteSet(LentBy(f)) /\ Cardinality(LentBy(f)) = Cardinality(HoldersOf(f))
<1> DEFINE g == [t \in HoldersOf(f) |-> f[t]]
<1>1. g \in Bijection(HoldersOf(f), LentBy(f))
  <2>1. g \in [HoldersOf(f) -> LentBy(f)]
    BY DEF HoldersOf, LentBy
  <2>2. \A t, r \in HoldersOf(f) : g[t] = g[r] => t = r
    BY DEF HoldersOf
  <2>3. \A p \in LentBy(f) : \E t \in HoldersOf(f) : g[t] = p
    BY DEF HoldersOf, LentBy
  <2>4. QED
    BY <2>1, <2>2, <2>3 DEF Bijection, Injection, Surjection, IsInjective
<1>2. ExistsBijection(HoldersOf(f), LentBy(f))
  BY <1>1 DEF ExistsBijection
<1>3. QED
  BY <1>2, HoldersFinite, FS_Bijection

LEMMA ConnectionCount ==
  ASSUME NEW q \in Seq(Mysql), NEW f \in [Threads -> Mysql \cup {None}], Apart(q, f)
  PROVE  Cardinality(SetOf(q) \cup LentBy(f)) = Len(q) + Cardinality(HoldersOf(f))
<1>1. IsFiniteSet(SetOf(q)) /\ Cardinality(SetOf(q)) = Len(q)
  BY QueueCount DEF Apart
<1>2. IsFiniteSet(LentBy(f)) /\ Cardinality(LentBy(f)) = Cardinality(HoldersOf(f))
  BY LentCount DEF Apart
<1>3. SetOf(q) \cap LentBy(f) = {}
  BY DEF Apart, SetOf, LentBy
<1>4. Len(q) \in Nat /\ Cardinality(HoldersOf(f)) \in Nat /\ Cardinality({}) = 0
  BY HoldersFinite, FS_EmptySet
<1>5. Cardinality(SetOf(q) \cup LentBy(f)) = Cardinality(SetOf(q)) + Cardinality(LentBy(f)) - 0
  BY <1>1, <1>2, <1>3, <1>4, FS_Union
<1>6. QED
  BY <1>1, <1>2, <1>4, <1>5

(* Pool has its own instance of module FiniteSets. *)
LEMMA SameCardinality == \A S : Abstract!Cardinality(S) = Cardinality(S)
BY DEF Abstract!Cardinality, Cardinality

LEMMA TotalIsCount == PoolInv /\ CountIsTotal => Abstract!Total = cnt
<1> SUFFICES ASSUME PoolInv, CountIsTotal PROVE Abstract!Total = cnt
  OBVIOUS
<1>1. /\ queue \in Seq(Mysql) /\ held \in [Threads -> Mysql \cup {None}]
      /\ Apart(queue, held)
  BY NoSharingIsApart DEF PoolInv, TypeOK
<1>2. cnt = Cardinality(SetOf(queue) \cup LentBy(held))
  BY <1>1, ConnectionCount DEF CountIsTotal, Holders, HoldersOf
<1>3. QED
  BY <1>2, SameCardinality DEF Abstract!Total, Abstract!Lent, Queued, SetOf, LentBy

-----------------------------------------------------------------------------
(*                      what the steps do to the queue, as a set           *)

LEMMA SetOfTail ==
  ASSUME NEW q \in Seq(Mysql), q # <<>>, \A i, j \in 1..Len(q) : q[i] = q[j] => i = j
  PROVE  Head(q) \in SetOf(q) /\ SetOf(Tail(q)) = SetOf(q) \ {Head(q)}
<1>1. /\ Head(q) = q[1] /\ Len(q) \in Nat \ {0} /\ Len(Tail(q)) = Len(q) - 1
      /\ \A i \in 1..Len(Tail(q)) : i + 1 \in 1..Len(q) /\ Tail(q)[i] = q[i + 1]
  BY TailOf
<1>2. 1 \in 1..Len(q)
  BY <1>1
<1>3. ASSUME NEW p \in SetOf(Tail(q)) PROVE p \in SetOf(q) \ {Head(q)}
  <2>1. PICK i \in 1..Len(Tail(q)) : p = Tail(q)[i]
    BY DEF SetOf
  <2>2. i + 1 \in 1..Len(q) /\ p = q[i + 1] /\ i + 1 # 1
    BY <1>1, <2>1
  <2>3. QED  BY <1>1, <1>2, <2>2 DEF SetOf
<1>4. ASSUME NEW p \in SetOf(q), p # Head(q) PROVE p \in SetOf(Tail(q))
  <2>1. PICK i \in 1..Len(q) : p = q[i]
    BY DEF SetOf
  <2>2. i - 1 \in 1..Len(Tail(q)) /\ (i - 1) + 1 = i
    BY <1>1, <1>4, <2>1
  <2>3. p = Tail(q)[i - 1]
    BY <1>1, <2>1, <2>2
  <2>4. QED  BY <2>2, <2>3 DEF SetOf
<1>5. QED
  BY <1>1, <1>2, <1>3, <1>4 DEF SetOf

LEMMA SetOfAppend ==
  ASSUME NEW q \in Seq(Mysql), NEW p \in Mysql
  PROVE  SetOf(Append(q, p)) = SetOf(q) \cup {p}
<1>1. /\ Len(Append(q, p)) = Len(q) + 1 /\ Len(q) \in Nat
      /\ Append(q, p)[Len(q) + 1] = p /\ \A i \in 1..Len(q) : Append(q, p)[i] = q[i]
  BY AppendOf
<1>2. 1..Len(Append(q, p)) = (1..Len(q)) \cup {Len(q) + 1}
  BY <1>1
<1>3. QED
  BY <1>1, <1>2 DEF SetOf

LEMMA SetOfRest ==
  ASSUME NEW q \in Seq(Mysql), \A i, j \in 1..Len(q) : q[i] = q[j] => i = j,
         NEW k \in 0..Len(q)
  PROVE  SetOf(SubSeq(q, k + 1, Len(q))) = SetOf(q) \ {q[i] : i \in 1..k}
<1> DEFINE b == SubSeq(q, k + 1, Len(q))
<1>1. /\ Len(q) \in Nat /\ Len(b) = Len(q) - k
      /\ \A i \in 1..Len(b) : i + k \in 1..Len(q) /\ b[i] = q[i + k]
  BY RestOf
<1>2. ASSUME NEW p \in SetOf(b) PROVE p \in SetOf(q) /\ \A i \in 1..k : p # q[i]
  <2>1. PICK i \in 1..Len(b) : p = b[i]
    BY DEF SetOf
  <2>2. i + k \in 1..Len(q) /\ p = q[i + k] /\ \A j \in 1..k : i + k # j /\ j \in 1..Len(q)
    BY <1>1, <2>1
  <2>3. QED  BY <2>2 DEF SetOf
<1>3. ASSUME NEW p \in SetOf(q), \A i \in 1..k : p # q[i] PROVE p \in SetOf(b)
  <2>1. PICK i \in 1..Len(q) : p = q[i]
    BY DEF SetOf
  <2>2. i - k \in 1..Len(b) /\ (i - k) + k = i
    BY <1>1, <1>3, <2>1
  <2>3. p = b[i - k]
    BY <1>1, <2>1, <2>2
  <2>4. QED  BY <2>2, <2>3 DEF SetOf
<1>4. QED
  BY <1>2, <1>3

-----------------------------------------------------------------------------
(*                      the refinement                                     *)

LEMMA InitRefined == Init => Abstract!PoolInit
<1> SUFFICES ASSUME Init PROVE Abstract!PoolInit
  OBVIOUS
<1>1. InitSize \in Nat /\ Len(queue) = InitSize /\ queue \in Seq(Mysql)
  BY PoolOK DEF Init
<1>2. \A i, j \in 1..Len(queue) : queue[i] = queue[j] => i = j
  BY <1>1 DEF Init
<1>3. Cardinality(SetOf(queue)) = InitSize /\ SetOf(queue) = Queued
  BY <1>1, <1>2, QueueCount DEF SetOf, Queued
<1>4. Queued \subseteq Mysql
  BY <1>1 DEF Queued
<1>5. QED
  BY <1>3, <1>4, SameCardinality DEF Init, Abstract!PoolInit

LEMMA StepRefined ==
  PoolInv /\ PoolInv' /\ CountIsTotal /\ CountIsTotal' /\ Bounded /\ Bounded' /\ [Next]_vars
    => [Abstract!PoolNext]_(Abstract!poolVars)
<1> SUFFICES ASSUME PoolInv, PoolInv', CountIsTotal, CountIsTotal', Bounded, Bounded',
                    [Next]_vars
             PROVE  Abstract!PoolNext \/ (Queued' = Queued /\ held' = held)
  BY DEF Abstract!poolVars
<1>1. /\ queue \in Seq(Mysql) /\ Len(queue) \in Nat
      /\ held \in [Threads -> Mysql \cup {None}]
      /\ \A i, j \in 1..Len(queue) : queue[i] = queue[j] => i = j
      /\ Queued = SetOf(queue) /\ Queued' = SetOf(queue')
  BY DEF PoolInv, TypeOK, NoSharing, Queued, SetOf
<1>2. Abstract!Total' = cnt'
  <2>1. PoolInv' /\ CountIsTotal' => (Abstract!Total = cnt)'
    BY TotalIsCount, PTL
  <2>2. QED  BY <2>1
<1>3. Abstract!Lent = {held[t] : t \in Holders}
  BY DEF Abstract!Lent, Holders
<1>4. ASSUME NEW t \in Threads, getConnection(t) \/ Wake(t) \/ Timeout(t)
      PROVE  Abstract!PoolNext \/ (Queued' = Queued /\ held' = held)
  <2>1. held[t] = None
    BY <1>4 DEF getConnection, Wake, Timeout, PoolInv
  <2>2. Take(t) \/ Park(t, "waiting") \/ Park(t, "idle")
    BY <1>4 DEF getConnection, Wake, Timeout
  <2>3. CASE Take(t)
    <3>1. Head(queue) \in Queued /\ Queued' = Queued \ {Head(queue)}
      BY <1>1, <2>3, SetOfTail DEF Take
    <3>2. Abstract!Borrow(t)
      BY <2>1, <2>3, <3>1 DEF Take, Abstract!Borrow
    <3>3. QED  BY <3>2 DEF Abstract!PoolNext
  <2>4. CASE \E p \in {"waiting", "idle"} : Park(t, p)
    BY <2>4 DEF Park, Queued
  <2>5. QED  BY <2>2, <2>3, <2>4
<1>5. ASSUME NEW t \in Threads, Release(t) PROVE Abstract!PoolNext
  <2>1. held[t] # None /\ held[t] \in Mysql
    BY <1>1, <1>5 DEF Release, PoolInv
  <2>2. Queued' = Queued \cup {held[t]}
    BY <1>1, <1>5, <2>1, SetOfAppend DEF Release
  <2>3. Abstract!GiveBack(t)
    BY <1>5, <2>1, <2>2 DEF Release, Abstract!GiveBack
  <2>4. QED  BY <2>3 DEF Abstract!PoolNext
<1>6. CASE Produce
  <2>1. PICK p \in Mysql \ Live : queue' = Append(queue, p)
    BY <1>6 DEF Produce
  <2>2. Queued' = Queued \cup {p} /\ p \in Mysql \ (Queued \cup Abstract!Lent)
    BY <1>1, <1>3, <2>1, SetOfAppend DEF Live
  <2>3. Abstract!Total' <= MaxSize /\ held' = held
    BY <1>2, <1>6 DEF Bounded, Produce
  <2>4. Abstract!Grow
    BY <2>2, <2>3 DEF Abstract!Grow
  <2>5. QED  BY <2>4 DEF Abstract!PoolNext
<1>7. CASE Scan
  <2>1. PICK k \in 0..Len(queue) : queue' = SubSeq(queue, k + 1, Len(queue))
    BY <1>7 DEF Scan
  <2>2. Queued' = Queued \ {queue[i] : i \in 1..k} /\ held' = held
    BY <1>1, <1>7, <2>1, SetOfRest DEF Scan
  <2>3. CASE k = 0
    <3>1. 1..k = {}
      BY <2>3
    <3>2. QED  BY <2>2, <3>1
  <2>4. CASE k # 0
    <3> DEFINE gone == {queue[i] : i \in 1..k}
    <3>1. gone \in SUBSET Queued /\ gone # {}
      <4>1. 1 \in 1..k /\ 1..k \subseteq 1..Len(queue)
        BY <1>1, <2>1, <2>4
      <4>2. QED  BY <4>1 DEF Queued
    <3>2. Abstract!Total' >= InitSize
      BY <1>2, PoolOK DEF Bounded, PoolInv, TypeOK
    <3>3. Abstract!Shrink
      BY <2>2, <3>1, <3>2 DEF Abstract!Shrink
    <3>4. QED  BY <3>3 DEF Abstract!PoolNext
  <2>5. QED  BY <2>3, <2>4
<1>8. CASE SpuriousWake \/ ProducerWait \/ Spin \/ Tick \/ UNCHANGED vars
  BY <1>8 DEF SpuriousWake, ProducerWait, Spin, Tick, vars, Queued
<1>9. QED
  BY <1>4, <1>5, <1>6, <1>7, <1>8 DEF Next, Caller

(* The queue with its counter, waits and two threads implements Pool if     *)
(* _connectionCnt starts from 0: connections are lent to one thread at a    *)
(* time, come back, and are made and freed between the two limits.          *)
THEOREM PoolRefined == ASSUME Junk = {0} PROVE Spec => ImplementsPool
<1>1. Spec => []CountIsTotal
  BY CountCorrect
<1>2. Spec => []Bounded
  BY CountBounded
<1>3. QED
  BY <1>1, <1>2, InitRefined, StepRefined, PoolInvariant, PTL
     DEF Spec, ImplementsPool, Abstract!PoolSpec
=============================================================================
