-------------------------------- MODULE Pool --------------------------------
(***************************************************************************)
(* What CommonConnectionPool promises its callers, without queue, mutex,   *)
(* condition variable and times: a connection is lent to one thread, comes *)
(* back when that thread is done with it, and the number of connections    *)
(* stays between two limits.  DBPool implements this module; Directory is  *)
(* built on it.                                                            *)
(***************************************************************************)
EXTENDS Naturals, FiniteSets

CONSTANTS Threads, Mysql, None, InitSize, MaxSize

VARIABLES free,     \* the idle connections
          used      \* thread -> the connection lent to it, or None

poolVars == <<free, used>>

Lent  == {used[t] : t \in Threads} \ {None}
Total == Cardinality(free \cup Lent)

PoolTypeOK == free \subseteq Mysql /\ used \in [Threads -> Mysql \cup {None}]

PoolInit ==
  /\ free \in SUBSET Mysql /\ Cardinality(free) = InitSize
  /\ used = [t \in Threads |-> None]

(* A mistake in Borrow: the connection stays in the queue. *)
BorrowShared(t) ==
  /\ used[t] = None
  /\ \E p \in free : used' = [used EXCEPT ![t] = p]
  /\ UNCHANGED free

Borrow(t) ==
  /\ used[t] = None
  /\ \E p \in free : free' = free \ {p} /\ used' = [used EXCEPT ![t] = p]

GiveBack(t) ==
  /\ used[t] # None
  /\ free' = free \cup {used[t]}
  /\ used' = [used EXCEPT ![t] = None]

Grow ==
  /\ \E p \in Mysql \ (free \cup Lent) : free' = free \cup {p}
  /\ UNCHANGED used
  /\ Total' <= MaxSize

Shrink ==
  /\ \E gone \in SUBSET free : gone # {} /\ free' = free \ gone
  /\ UNCHANGED used
  /\ Total' >= InitSize

PoolNext == (\E t \in Threads : Borrow(t) \/ GiveBack(t)) \/ Grow \/ Shrink

PoolSpec == PoolInit /\ [][PoolNext]_poolVars
=============================================================================
