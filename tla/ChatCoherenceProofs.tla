------------------------ MODULE ChatCoherenceProofs ------------------------
(***************************************************************************)
(* The three records of a session agree: table, map and redis channel, for *)
(* any servers, users, connections, messages, and clients that vanish,     *)
(* servers that are killed and started again and unlocked map reads.       *)
(***************************************************************************)
EXTENDS ChatPresenceProofs

(* Commands to redis get there: no context breaks or is garbled. *)
Linked == "redis" \notin Faults /\ "context" \notin Faults
AliveLinked == \A s \in Servers : Alive(s) => linked[s] = Contexts

(* The converse of SessionMapSound: who carries a session has the entry. *)
MapComplete == \A c \in Conns, u \in Users : Carries(c, u) => Entry(c, u) = c

(* While loginout holds the mutex to take user u out, no other connection   *)
(* of the process has brought u in and not yet taken it out.                *)
Inside(c, u) == Carries(c, u) \/ (h[c].user = u /\ h[c].pc \in {"lo_unsub", "cl_unsub"})
Exiting(c, u) == h[c].user = u /\ h[c].pc \in {"lo_erase", "lo_unsub"}
InsideAlone == \A c, d \in Conns, u \in Users :
  Home[c] = Home[d] /\ Exiting(c, u) /\ Inside(d, u) => c = d

(* A channel is, or will be, subscribed to for the connections that have    *)
(* written SUBSCRIBE and have not written UNSUBSCRIBE since.                *)
Subscriber(c, u) ==
  \/ who[c] = u
  \/ h[c].user = u /\ h[c].pc \in {"li_online", "li_offmsg", "li_remove", "li_ack",
                                   "lo_lock", "lo_erase", "lo_unsub", "cl_unsub"}
ChannelsSound == \A s \in Servers, u \in Users :
  u \in Subscribed(s) <=> \E c \in Conns : Home[c] = s /\ Subscriber(c, u)

(* The close of a connection runs in a live process. *)
ClosedAlive == \A c \in Conns :
  h[c].pc \in ClosePcs => conn[c] = "down" /\ Alive(Home[c])

Records == MapComplete /\ InsideAlone /\ ChannelsSound /\ AliveLinked /\ ClosedAlive

(* Only orphans are online without a present connection. *)
OrphansExact ==
  orphans = {u \in Users : userState[u] = "online" /\ \A c \in Conns : ~Present(c, u)}

-----------------------------------------------------------------------------
(*                      channels                                           *)

LEMMA SameChannels ==
  ASSUME NEW s \in Servers, subs'[s] = subs[s], subCmds'[s] = subCmds[s]
  PROVE  Subscribed(s)' = Subscribed(s)
BY DEF Subscribed, Later

LEMMA DisconnectChannels ==
  ASSUME RedisTypeOK, NEW s \in Servers, Disconnect(s, Contexts)
  PROVE  /\ Subscribed(s)' = {}
         /\ \A t \in Servers : t # s => Subscribed(t)' = Subscribed(t)
<1>1. subs'[s] = {} /\ subCmds'[s] = <<>>
  BY DEF RedisTypeOK, Disconnect, Contexts
<1>2. Subscribed(s)' = {}
  BY <1>1 DEF Subscribed
<1>3. \A t \in Servers : t # s => subs'[t] = subs[t] /\ subCmds'[t] = subCmds[t]
  BY DEF RedisTypeOK, Disconnect, Contexts
<1>4. QED  BY <1>2, <1>3, SameChannels

LEMMA WriteChannels ==
  ASSUME RedisTypeOK, NEW s \in Servers, "sub" \in linked[s], NEW u \in Users \cup {NoUser},
         NEW op \in {"sub", "unsub"}, op = "sub" => u \in Users, WriteCommand(s, op, u)
  PROVE  /\ \A v \in Users : v \in Subscribed(s)' <=>
              IF v = u THEN op = "sub" ELSE v \in Subscribed(s)
         /\ \A t \in Servers : t # s => Subscribed(t)' = Subscribed(t)
<1> DEFINE q == subCmds[s]
           n == Len(q)
           x == [op |-> op, user |-> u]
<1>1. q \in Seq(Command) /\ n \in Nat /\ x \in Command
  BY DEF RedisTypeOK, Command
<1>2. subCmds'[s] = Append(q, x) /\ subs'[s] = subs[s]
  BY DEF RedisTypeOK, WriteCommand
<1>3. /\ Len(subCmds'[s]) = n + 1 /\ subCmds'[s][n + 1] = x
      /\ \A i \in 1..n : subCmds'[s][i] = q[i]
  BY <1>1, <1>2
<1>4. ASSUME NEW v \in Users, NEW i \in 0..n
      PROVE  Later(s, v, i)' <=> v = u \/ Later(s, v, i)
  <2>1. (i + 1)..(n + 1) = ((i + 1)..n) \cup {n + 1}
    BY <1>1
  <2>2. Later(s, v, i)' <=> \E j \in (i + 1)..(n + 1) : subCmds'[s][j].user = v
    BY <1>3 DEF Later
  <2>3. Later(s, v, i) <=> \E j \in (i + 1)..n : q[j].user = v
    BY DEF Later
  <2>4. \A j \in (i + 1)..n : j \in 1..n
    BY <1>1
  <2>5. subCmds'[s][n + 1].user = u
    BY <1>3
  <2>6. QED  BY <1>3, <2>1, <2>2, <2>3, <2>4, <2>5
<1>5. ASSUME NEW v \in Users PROVE ~Later(s, v, n + 1)'
  BY <1>1, <1>3 DEF Later
<1>6. ASSUME NEW v \in Users
      PROVE  v \in Subscribed(s)' <=> IF v = u THEN op = "sub" ELSE v \in Subscribed(s)
  <2>1. v \in Subscribed(s)' <=>
          \/ v \in subs[s] /\ ~Later(s, v, 0)'
          \/ \E i \in 1..n : q[i] = [op |-> "sub", user |-> v] /\ ~Later(s, v, i)'
          \/ x = [op |-> "sub", user |-> v]
    <3>1. 1..(n + 1) = (1..n) \cup {n + 1}
      BY <1>1
    <3>2. v \in Subscribed(s)' <=>
            \/ v \in subs[s] /\ ~Later(s, v, 0)'
            \/ \E i \in 1..(n + 1) : subCmds'[s][i] = [op |-> "sub", user |-> v] /\ ~Later(s, v, i)'
      BY <1>2, <1>3 DEF Subscribed
    <3> DEFINE new(i) == subCmds'[s][i] = [op |-> "sub", user |-> v] /\ ~Later(s, v, i)'
    <3>3. new(n + 1) <=> x = [op |-> "sub", user |-> v]
      BY <1>3, <1>5
    <3>4. \A i \in 1..n : new(i) <=> q[i] = [op |-> "sub", user |-> v] /\ ~Later(s, v, i)'
      BY <1>3
    <3>5. v \in Subscribed(s)' <=>
            (v \in subs[s] /\ ~Later(s, v, 0)') \/ \E i \in 1..(n + 1) : new(i)
      BY <3>2
    <3> HIDE DEF new, x
    <3>6. QED  BY <3>1, <3>3, <3>4, <3>5
  <2>2. CASE v = u
    <3>1. Later(s, v, 0)' /\ \A i \in 1..n : Later(s, v, i)'
      BY <1>1, <1>4, <2>2
    <3>2. x = [op |-> "sub", user |-> v] <=> op = "sub"
      BY <2>2
    <3>3. QED  BY <2>1, <2>2, <3>1, <3>2
  <2>3. CASE v # u
    <3>1. x # [op |-> "sub", user |-> v]
      BY <2>3
    <3>2. (Later(s, v, 0)' <=> Later(s, v, 0)) /\ \A i \in 1..n : Later(s, v, i)' <=> Later(s, v, i)
      BY <1>1, <1>4, <2>3
    <3>3. v \in Subscribed(s) <=>
            \/ v \in subs[s] /\ ~Later(s, v, 0)
            \/ \E i \in 1..n : q[i] = [op |-> "sub", user |-> v] /\ ~Later(s, v, i)
      BY DEF Subscribed
    <3>4. QED  BY <2>1, <2>3, <3>1, <3>2, <3>3
  <2>4. QED  BY <2>2, <2>3
<1>7. \A t \in Servers : t # s => subs'[t] = subs[t] /\ subCmds'[t] = subCmds[t]
  BY DEF RedisTypeOK, WriteCommand
<1>8. QED  BY <1>6, <1>7, SameChannels

(* Redis executes a command: what was to come has come. *)
LEMMA ExecuteChannels ==
  ASSUME RedisTypeOK, NEW s \in Servers, ExecuteCommand(s)
  PROVE  \A t \in Servers : Subscribed(t)' = Subscribed(t)
<1> DEFINE q == subCmds[s]
           n == Len(q)
           x == Head(q)
<1>1. q \in Seq(Command) /\ n \in Nat \ {0} /\ x = q[1] /\ x \in Command
  BY DEF RedisTypeOK, ExecuteCommand
<1>2. subCmds'[s] = Tail(q) /\ subs'[s] = Apply(x, subs[s])
  BY DEF RedisTypeOK, ExecuteCommand
<1>3. /\ Len(subCmds'[s]) = n - 1
      /\ \A i \in 1..(n - 1) : subCmds'[s][i] = q[i + 1]
  BY <1>1, <1>2
<1>4. ASSUME NEW v \in Users, NEW i \in 0..(n - 1)
      PROVE  Later(s, v, i)' <=> Later(s, v, i + 1)
  <2>1. Later(s, v, i)' <=> \E j \in (i + 1)..(n - 1) : q[j + 1].user = v
    <3>1. \A j \in (i + 1)..(n - 1) : subCmds'[s][j] = q[j + 1]
      BY <1>1, <1>3
    <3>2. Later(s, v, i)' <=> \E j \in (i + 1)..(n - 1) : subCmds'[s][j].user = v
      BY <1>3 DEF Later
    <3>3. QED  BY <3>1, <3>2
  <2>2. Later(s, v, i + 1) <=> \E j \in (i + 2)..n : q[j].user = v
    BY <1>1 DEF Later
  <2>3. ASSUME NEW j \in (i + 2)..n, q[j].user = v
        PROVE  \E k \in (i + 1)..(n - 1) : q[k + 1].user = v
    <3>1. j - 1 \in (i + 1)..(n - 1) /\ (j - 1) + 1 = j
      BY <1>1
    <3>2. QED  BY <2>3, <3>1
  <2>4. ASSUME NEW k \in (i + 1)..(n - 1), q[k + 1].user = v
        PROVE  \E j \in (i + 2)..n : q[j].user = v
    <3>1. k + 1 \in (i + 2)..n
      BY <1>1
    <3>2. QED  BY <2>4, <3>1
  <2>5. QED  BY <2>1, <2>2, <2>3, <2>4
<1>5. ASSUME NEW v \in Users
      PROVE  Later(s, v, 0) <=> x.user = v \/ Later(s, v, 1)
  <2>1. 1..n = {1} \cup (2..n)
    BY <1>1
  <2>2. Later(s, v, 0) <=> \E j \in 1..n : q[j].user = v
    BY DEF Later
  <2>3. Later(s, v, 1) <=> \E j \in 2..n : q[j].user = v
    BY DEF Later
  <2>4. QED  BY <1>1, <2>1, <2>2, <2>3
<1>6. ASSUME NEW v \in Users
      PROVE  v \in Subscribed(s)' <=> v \in Subscribed(s)
  <2> DEFINE sub == [op |-> "sub", user |-> v]
  <2>1. v \in Subscribed(s)' <=>
          \/ v \in Apply(x, subs[s]) /\ ~Later(s, v, 1)
          \/ \E i \in 2..n : q[i] = sub /\ ~Later(s, v, i)
    <3>1. v \in Subscribed(s)' <=>
            \/ v \in Apply(x, subs[s]) /\ ~Later(s, v, 0)'
            \/ \E i \in 1..(n - 1) : subCmds'[s][i] = sub /\ ~Later(s, v, i)'
      BY <1>2, <1>3 DEF Subscribed
    <3>2. Later(s, v, 0)' <=> Later(s, v, 1)
      BY <1>1, <1>4
    <3>3. \A i \in 1..(n - 1) : subCmds'[s][i] = q[i + 1] /\ (Later(s, v, i)' <=> Later(s, v, i + 1))
      BY <1>1, <1>3, <1>4
    <3>4. (\E i \in 1..(n - 1) : q[i + 1] = sub /\ ~Later(s, v, i + 1))
            <=> \E i \in 2..n : q[i] = sub /\ ~Later(s, v, i)
      <4>1. ASSUME NEW i \in 2..n, q[i] = sub, ~Later(s, v, i)
            PROVE  \E k \in 1..(n - 1) : q[k + 1] = sub /\ ~Later(s, v, k + 1)
        <5>1. i - 1 \in 1..(n - 1) /\ (i - 1) + 1 = i
          BY <1>1
        <5>2. QED  BY <4>1, <5>1
      <4>2. \A k \in 1..(n - 1) : k + 1 \in 2..n
        BY <1>1
      <4>3. QED  BY <4>1, <4>2
    <3>5. QED  BY <3>1, <3>2, <3>3, <3>4
  <2>2. v \in Subscribed(s) <=>
          \/ v \in subs[s] /\ ~Later(s, v, 0)
          \/ x = sub /\ ~Later(s, v, 1)
          \/ \E i \in 2..n : q[i] = sub /\ ~Later(s, v, i)
    <3>1. 1..n = {1} \cup (2..n)
      BY <1>1
    <3>2. QED  BY <1>1, <3>1 DEF Subscribed
  <2>3. v \in Apply(x, subs[s]) <=> IF x.user = v THEN x = sub ELSE v \in subs[s]
    BY <1>1 DEF Apply, Command
  <2>4. x = sub => x.user = v
    OBVIOUS
  <2> HIDE DEF sub
  <2>5. QED  BY <1>5, <2>1, <2>2, <2>3, <2>4
<1>7. \A t \in Servers : t # s => subs'[t] = subs[t] /\ subCmds'[t] = subCmds[t]
  BY DEF RedisTypeOK, ExecuteCommand
<1>8. Subscribed(s)' = Subscribed(s)
  BY <1>6 DEF Subscribed
<1>9. QED  BY <1>7, <1>8, SameChannels

-----------------------------------------------------------------------------
(*                      what a handler leaves alone                        *)

LEMMA MapKept ==
  ASSUME MapComplete, InsideAlone, NEW c \in Conns, userConnMap' = userConnMap,
         \A d \in Conns : d # c => h'[d] = h[d] /\ who'[d] = who[d],
         \A u \in Users : /\ Carries(c, u)' => Carries(c, u)
                          /\ Inside(c, u)' => Inside(c, u)
                          /\ Exiting(c, u)' => Exiting(c, u)
  PROVE  MapComplete' /\ InsideAlone'
<1>1. ASSUME NEW d \in Conns, NEW u \in Users
      PROVE  /\ Carries(d, u)' => Carries(d, u)
             /\ Inside(d, u)' => Inside(d, u)
             /\ Exiting(d, u)' => Exiting(d, u)
  <2>1. CASE d # c
    BY <2>1 DEF Carries, Inside, Exiting
  <2>2. QED  BY <2>1
<1>2. MapComplete'
  BY <1>1 DEF MapComplete, Entry
<1>3. InsideAlone'
  BY <1>1 DEF InsideAlone
<1>4. QED  BY <1>2, <1>3

LEMMA ChannelsKept ==
  ASSUME ChannelsSound, NEW c \in Conns, subs' = subs, subCmds' = subCmds,
         \A d \in Conns : d # c => h'[d] = h[d] /\ who'[d] = who[d],
         \A u \in Users : Subscriber(c, u)' <=> Subscriber(c, u)
  PROVE  ChannelsSound'
<1>1. \A d \in Conns, u \in Users : Subscriber(d, u)' <=> Subscriber(d, u)
  <2> SUFFICES ASSUME NEW d \in Conns, NEW u \in Users, d # c
               PROVE  Subscriber(d, u)' <=> Subscriber(d, u)
    OBVIOUS
  <2>1. QED  BY DEF Subscriber
<1>2. \A s \in Servers : Subscribed(s)' = Subscribed(s)
  BY SameChannels
<1>3. QED  BY <1>1, <1>2 DEF ChannelsSound

(* Processes, redis connections and closes. *)
LEMMA LinksKept ==
  ASSUME AliveLinked, ClosedAlive, NEW c \in Conns, up' = up, linked' = linked,
         \A d \in Conns : d # c => h'[d] = h[d] /\ conn'[d] = conn[d],
         h'[c].pc \in ClosePcs => conn'[c] = "down" /\ Alive(Home[c])
  PROVE  AliveLinked' /\ ClosedAlive'
<1>1. AliveLinked'
  BY DEF AliveLinked, Alive
<1>2. ClosedAlive'
  BY DEF ClosedAlive, Alive
<1>3. QED  BY <1>1, <1>2

(* A step of the handler of c that does none of the writes of a session. *)
LEMMA QuietStep ==
  ASSUME Records, NEW c \in Conns,
         UNCHANGED <<userConnMap, subs, subCmds, up, linked>>,
         \A d \in Conns : d # c => h'[d] = h[d] /\ who'[d] = who[d] /\ conn'[d] = conn[d],
         h'[c].pc \in ClosePcs => conn'[c] = "down" /\ Alive(Home[c]),
         \A u \in Users : /\ Carries(c, u)' => Carries(c, u)
                          /\ Inside(c, u)' => Inside(c, u)
                          /\ Exiting(c, u)' => Exiting(c, u)
                          /\ Subscriber(c, u)' <=> Subscriber(c, u)
  PROVE  Records'
<1>1. MapComplete' /\ InsideAlone'
  BY MapKept DEF Records
<1>2. ChannelsSound'
  BY ChannelsKept DEF Records
<1>3. AliveLinked' /\ ClosedAlive'
  BY LinksKept DEF Records
<1>4. QED  BY <1>1, <1>2, <1>3 DEF Records

(* While the mutex is free no loginout is inside, and who is inside is the  *)
(* present connection.                                                      *)
LEMMA FreeInside ==
  ASSUME MutexSound, NEW c \in Conns, MutexFree(c), NEW d \in Conns, Home[d] = Home[c],
         NEW u \in Users
  PROVE  ~Exiting(d, u) /\ (Inside(d, u) => Active(d, u))
<1>1. h[d].pc \notin Holding
  BY ServiceOK DEF MutexSound, MutexFree
<1>2. ~Exiting(d, u)
  BY <1>1 DEF Exiting, Holding
<1>3. Inside(d, u) => Active(d, u)
  BY <1>1 DEF Inside, Holding, Carries, EnteredPcs, LoginPcs, Active, Arriving, Present, ClosePcs
<1>4. QED  BY <1>2, <1>3

-----------------------------------------------------------------------------
(*                      the handlers                                       *)

LEMMA RecordsLogin ==
  ASSUME Linked, IInv, MutexSound, PresenceInv, Records, NEW c \in Conns,
         Login(c) \/ \E u \in Users : LoginQuery(c, u)
  PROVE  Records'
<1> USE DEF At
<1>0. /\ TypeOK /\ h \in [Conns -> Handler] /\ who \in [Conns -> Users \cup {NoUser}]
      /\ conn \in [Conns -> {"new", "up", "gone", "down"}]
      /\ userConnMap \in [Servers -> [Users -> Conns \cup {NoConn}]]
  BY DEF IInv, TypeOK
<1>1. ASSUME NEW u \in Users, LoginQuery(c, u) PROVE Records'
  <2>1. /\ h'[c].pc = "li_insert" /\ \A d \in Conns : d # c => h'[d] = h[d]
        /\ who' = who /\ who[c] = NoUser
        /\ \A d \in Conns : d # c => conn'[d] = conn[d]
    BY <1>0, <1>1, IdleType DEF LoginQuery, CanLogin, Handler
  <2>2. h[c].pc = "idle"
    BY <1>1 DEF LoginQuery, CanLogin, Ready, IInv, SessionsOK, Records, ClosedAlive
  <2>3. UNCHANGED <<userConnMap, subs, subCmds, up, linked>>
    BY <1>1 DEF LoginQuery, mapVars, redisVars
  <2>4. ASSUME NEW v \in Users
        PROVE  ~Carries(c, v)' /\ ~Inside(c, v)' /\ ~Exiting(c, v)'
               /\ ~Subscriber(c, v)' /\ ~Subscriber(c, v)
    BY <2>1, <2>2, SystemOK DEF Carries, EnteredPcs, LoginPcs, Inside, Exiting, Subscriber
  <2>5. QED
    BY <2>1, <2>3, <2>4, QuietStep DEF ClosePcs
<1>2. CASE LoginInsert(c)
  <2>1. PICK u \in Users : u = h[c].user
    BY <1>2 DEF LoginInsert, IInv, HandlersOK, WellFormed, NeedsUser, LoginPcs
  <2>2. /\ h[c].pc = "li_insert" /\ MutexFree(c) /\ who' = who /\ conn' = conn
        /\ up' = up /\ linked' = linked /\ subs' = subs /\ subCmds' = subCmds
    BY <1>2 DEF LoginInsert, netVars, redisVars
  <2>3. /\ h'[c].pc = "li_subscribe" /\ h'[c].user = u
        /\ \A d \in Conns : d # c => h'[d] = h[d]
    BY <1>0, <1>2, <2>1, GotoFields DEF LoginInsert
  <2>4. who[c] = NoUser
    BY <2>2 DEF IInv, SessionsOK, LoginPcs
  <2>5. \A v \in Users : ~Carries(c, v)
    BY <2>2, <2>4, SystemOK DEF Carries, EnteredPcs, LogoutPcs
  <2>6. Entry(c, u) = NoConn
    <3>1. SUFFICES ASSUME Entry(c, u) # NoConn PROVE FALSE
      OBVIOUS
    <3>2. PICK d \in Conns : userConnMap[Home[c]][u] = d
      BY <1>0, <3>1, ServiceOK DEF Entry
    <3>3. Home[d] = Home[c] /\ Carries(d, u)
      BY <3>2, MapUse, ServiceOK
    <3>4. Active(d, u)
      BY <2>2, <3>3, FreeInside DEF Inside, IInv
    <3>5. Active(c, u)
      BY <2>1, <2>2 DEF Active, Arriving
    <3>6. QED  BY <2>5, <3>3, <3>4, <3>5 DEF PresenceInv, OnePresent
  <2>7. ASSUME NEW s \in Servers, NEW v \in Users
        PROVE  userConnMap'[s][v] = IF s = Home[c] /\ v = u THEN c ELSE userConnMap[s][v]
    BY <1>0, <1>2, <2>1, <2>6, ServiceOK DEF LoginInsert
  <2>8. MapComplete'
    <3> SUFFICES ASSUME NEW d \in Conns, NEW v \in Users, Carries(d, v)'
                 PROVE  userConnMap'[Home[d]][v] = d
      BY DEF MapComplete, Entry
    <3>0. Home[d] \in Servers
      BY ServiceOK
    <3>1. CASE d = c
      <4>1. v = u
        BY <2>2, <2>3, <2>4, <3>1, SystemOK DEF Carries
      <4>2. QED  BY <2>7, <3>0, <3>1, <4>1
    <3>2. CASE d # c
      <4>1. Carries(d, v)
        BY <2>2, <2>3, <3>2 DEF Carries
      <4>2. userConnMap[Home[d]][v] = d
        BY <4>1 DEF Records, MapComplete, Entry
      <4>3. ~(Home[d] = Home[c] /\ v = u)
        BY <2>6, <4>2, ServiceOK DEF Entry
      <4>4. QED  BY <2>7, <3>0, <4>2, <4>3
    <3>3. QED  BY <3>1, <3>2
  <2>9. InsideAlone'
    <3> SUFFICES ASSUME NEW a \in Conns, NEW b \in Conns, NEW v \in Users,
                        Home[a] = Home[b], Exiting(a, v)', Inside(b, v)'
                 PROVE  a = b
      BY DEF InsideAlone
    <3>1. a # c /\ Exiting(a, v)
      BY <2>3 DEF Exiting
    <3>2. Home[a] # Home[c]
      BY <2>2, <3>1, FreeInside DEF IInv
    <3>3. Inside(b, v)
      BY <2>2, <2>3, <3>2 DEF Inside, Carries
    <3>4. QED  BY <3>1, <3>3 DEF Records, InsideAlone
  <2>10. \A v \in Users : Subscriber(c, v)' <=> Subscriber(c, v)
    BY <2>2, <2>3 DEF Subscriber
  <2>11. ChannelsSound'
    BY <2>2, <2>3, <2>10, ChannelsKept DEF Records
  <2>12. AliveLinked' /\ ClosedAlive'
    BY <2>2, <2>3, LinksKept DEF Records, ClosePcs
  <2>13. QED  BY <2>8, <2>9, <2>11, <2>12 DEF Records
<1>3. CASE LoginSubscribe(c)
  <2>1. PICK u \in Users : u = h[c].user
    BY <1>3 DEF LoginSubscribe, IInv, HandlersOK, WellFormed, NeedsUser, LoginPcs
  <2>2. /\ h[c].pc = "li_subscribe" /\ who' = who /\ conn' = conn /\ up' = up
        /\ userConnMap' = userConnMap /\ WriteCommand(Home[c], "sub", u)
    BY <1>3, <2>1 DEF LoginSubscribe, subscribe, Torn, Linked, netVars, mapVars
  <2>3. /\ h'[c].pc = "li_online" /\ h'[c].user = u
        /\ \A d \in Conns : d # c => h'[d] = h[d]
    BY <1>0, <1>3, <2>1, GotoFields DEF LoginSubscribe
  <2>4. who[c] = NoUser /\ "sub" \in linked[Home[c]] /\ RedisTypeOK
    <3>1. who[c] = NoUser /\ Alive(Home[c]) /\ RedisTypeOK
      BY <2>2 DEF IInv, TypeOK, SessionsOK, LoginPcs, ClosePcs
    <3>2. QED  BY <3>1, ServiceOK DEF Records, AliveLinked, Contexts
  <2>5. MapComplete' /\ InsideAlone'
    <3>1. \A v \in Users : /\ Carries(c, v)' => Carries(c, v)
                           /\ Inside(c, v)' => Inside(c, v)
                           /\ ~Exiting(c, v)'
      BY <2>1, <2>2, <2>3 DEF Carries, EnteredPcs, LoginPcs, Inside, Exiting
    <3>2. QED  BY <2>2, <2>3, <3>1, MapKept DEF Records
  <2>6. ChannelsSound'
    <3> SUFFICES ASSUME NEW s \in Servers, NEW v \in Users
                 PROVE  v \in Subscribed(s)' <=> \E d \in Conns : Home[d] = s /\ Subscriber(d, v)'
      BY DEF ChannelsSound
    <3>1. v \in Subscribed(s)' <=> (s = Home[c] /\ v = u) \/ v \in Subscribed(s)
      BY <2>2, <2>4, WriteChannels, ServiceOK
    <3>2. \A d \in Conns : Subscriber(d, v)' <=> (d = c /\ v = u) \/ Subscriber(d, v)
      <4>1. \A d \in Conns : d # c => (Subscriber(d, v)' <=> Subscriber(d, v))
        BY <2>2, <2>3 DEF Subscriber
      <4>2. (Subscriber(c, v)' <=> v = u) /\ ~Subscriber(c, v)
        BY <2>1, <2>2, <2>3, <2>4, SystemOK DEF Subscriber
      <4>3. QED  BY <4>1, <4>2
    <3>3. QED  BY <3>1, <3>2 DEF Records, ChannelsSound
  <2>7. AliveLinked' /\ ClosedAlive'
    BY <2>2, <2>3, LinksKept DEF Records, ClosePcs, WriteCommand
  <2>8. QED  BY <2>5, <2>6, <2>7 DEF Records
<1>4. CASE LoginOnline(c) \/ LoginOffline(c) \/ LoginRemove(c)
  <2>1. /\ UNCHANGED <<userConnMap, subs, subCmds, up, linked>> /\ who' = who /\ conn' = conn
        /\ h[c].pc \in {"li_online", "li_offmsg", "li_remove"}
    BY <1>4 DEF LoginOnline, LoginOffline, LoginRemove, mapVars, netVars, redisVars
  <2>2. /\ h'[c].pc \in {"li_offmsg", "li_remove", "li_ack"} /\ h'[c].user = h[c].user
        /\ \A d \in Conns : d # c => h'[d] = h[d]
    <3>1. CASE LoginOffline(c)
      <4>1. PICK rows, p : /\ p \in {"li_ack", "li_remove"}
                           /\ h' = [h EXCEPT ![c].rows = rows, ![c].pc = p]
        BY <3>1 DEF LoginOffline
      <4>2. QED  BY <1>0, <4>1 DEF Handler
    <3>2. CASE LoginOnline(c) \/ LoginRemove(c)
      BY <1>0, <3>2, GotoFields DEF LoginOnline, LoginRemove
    <3>3. QED  BY <1>4, <3>1, <3>2
  <2>3. ASSUME NEW v \in Users
        PROVE  /\ Carries(c, v)' => Carries(c, v)
               /\ Inside(c, v)' => Inside(c, v)
               /\ ~Exiting(c, v)'
               /\ Subscriber(c, v)' <=> Subscriber(c, v)
    BY <2>1, <2>2 DEF Carries, EnteredPcs, LoginPcs, Inside, Exiting, Subscriber
  <2>4. QED
    BY <2>1, <2>2, <2>3, QuietStep DEF ClosePcs
<1>5. CASE LoginAck(c)
  <2>1. PICK u \in Users : u = h[c].user
    BY <1>5 DEF LoginAck, IInv, HandlersOK, WellFormed, NeedsUser, LoginPcs
  <2>2. /\ UNCHANGED <<userConnMap, subs, subCmds, up, linked>> /\ conn' = conn
        /\ h[c].pc = "li_ack" /\ who[c] = NoUser
    BY <1>5 DEF LoginAck, mapVars, redisVars, IInv, SessionsOK, LoginPcs
  <2>3. /\ who'[c] = u /\ h'[c].pc = "idle"
        /\ \A d \in Conns : d # c => h'[d] = h[d] /\ who'[d] = who[d]
    BY <1>0, <1>5, <2>1, FinishFields DEF LoginAck
  <2>4. ASSUME NEW v \in Users
        PROVE  /\ Carries(c, v)' => Carries(c, v)
               /\ Inside(c, v)' => Inside(c, v)
               /\ ~Exiting(c, v)'
               /\ Subscriber(c, v)' <=> Subscriber(c, v)
    BY <2>1, <2>2, <2>3, SystemOK
       DEF Carries, EnteredPcs, LoginPcs, LogoutPcs, Inside, Exiting, Subscriber
  <2>5. QED
    BY <2>2, <2>3, <2>4, QuietStep DEF ClosePcs
<1>6. QED  BY <1>1, <1>2, <1>3, <1>4, <1>5 DEF Login

LEMMA RecordsLogout ==
  ASSUME Linked, IInv, MutexSound, PresenceInv, Records, NEW c \in Conns,
         Logout(c) \/ LogoutRequest(c) \/ Vanish(c)
  PROVE  Records'
<1> USE DEF At
<1>0. /\ TypeOK /\ h \in [Conns -> Handler] /\ who \in [Conns -> Users \cup {NoUser}]
      /\ conn \in [Conns -> {"new", "up", "gone", "down"}]
      /\ userConnMap \in [Servers -> [Users -> Conns \cup {NoConn}]]
  BY DEF IInv, TypeOK
<1>1. CASE LogoutRequest(c)
  <2>1. [Idle EXCEPT !.pc = "lo_lock", !.user = who[c]].pc = "lo_lock"
        /\ [Idle EXCEPT !.pc = "lo_lock", !.user = who[c]].user = who[c]
    BY DEF Idle
  <2>2. /\ h'[c].pc = "lo_lock" /\ h'[c].user = who[c] /\ who'[c] = NoUser
        /\ \A d \in Conns : d # c => h'[d] = h[d] /\ who'[d] = who[d]
    BY <1>0, <1>1, <2>1 DEF LogoutRequest
  <2>3. UNCHANGED <<userConnMap, subs, subCmds, up, linked>> /\ conn' = conn /\ h[c].pc = "idle"
    BY <1>1 DEF LogoutRequest, Ready, mapVars, redisVars
  <2>4. ASSUME NEW v \in Users
        PROVE  /\ Carries(c, v)' => Carries(c, v)
               /\ Inside(c, v)' => Inside(c, v)
               /\ ~Exiting(c, v)'
               /\ Subscriber(c, v)' <=> Subscriber(c, v)
    BY <2>2, <2>3, SystemOK DEF Carries, EnteredPcs, LoginPcs, Inside, Exiting, Subscriber
  <2>5. QED
    BY <2>2, <2>3, <2>4, QuietStep DEF ClosePcs
<1>2. CASE Vanish(c)
  <2>1. /\ UNCHANGED <<userConnMap, subs, subCmds, up, linked>> /\ h' = h /\ who' = who
        /\ conn[c] = "up" /\ \A d \in Conns : d # c => conn'[d] = conn[d]
    BY <1>0, <1>2 DEF Vanish, mapVars, redisVars
  <2>2. h[c].pc \notin ClosePcs
    BY <2>1 DEF Records, ClosedAlive
  <2>3. ASSUME NEW v \in Users
        PROVE  /\ Carries(c, v)' => Carries(c, v)
               /\ Inside(c, v)' => Inside(c, v)
               /\ Exiting(c, v)' => Exiting(c, v)
               /\ Subscriber(c, v)' <=> Subscriber(c, v)
    BY <2>1 DEF Carries, Inside, Exiting, Subscriber
  <2>4. QED
    BY <2>1, <2>2, <2>3, QuietStep
<1>3. CASE Logout(c)
  <2>1. PICK u \in Users : u = h[c].user
    BY <1>3 DEF Logout, LogoutUpdate, LogoutFail, LogoutErase, LogoutUnsubscribe,
                IInv, HandlersOK, WellFormed, NeedsUser, LogoutPcs
  <2>2. h[c].pc \in LogoutPcs
    BY <1>3 DEF Logout, LogoutUpdate, LogoutFail, LogoutErase, LogoutUnsubscribe, LogoutPcs
  <2>3. /\ who' = who /\ conn' = conn /\ up' = up /\ who[c] = NoUser
        /\ conn[c] \in {"up", "gone"} /\ Alive(Home[c])
    <3>1. who' = who /\ conn' = conn /\ up' = up
      BY <1>3 DEF Logout, LogoutUpdate, LogoutFail, LogoutErase, LogoutUnsubscribe, netVars
    <3>2. who[c] = NoUser /\ conn[c] \in {"up", "gone"} /\ Alive(Home[c])
      BY <2>2 DEF IInv, SessionsOK, LogoutPcs, ClosePcs
    <3>3. QED  BY <3>1, <3>2
  <2>4. h[c].pc \in {"lo_lock", "lo_erase"} => userConnMap[Home[c]][u] = c
    BY <2>1 DEF Records, MapComplete, Entry, Carries, EnteredPcs
  <2>5. ~LogoutFail(c)
    BY <2>1, <2>4, ServiceOK DEF LogoutFail, Entry
  <2>6. CASE LogoutUpdate(c)
    <3>1. /\ h[c].pc = "lo_lock" /\ MutexFree(c) /\ userConnMap' = userConnMap
          /\ UNCHANGED <<linked, subs, subCmds>>
      BY <2>6 DEF LogoutUpdate, redisVars
    <3>2. /\ h'[c].pc = "lo_erase" /\ h'[c].user = u
          /\ \A d \in Conns : d # c => h'[d] = h[d]
      BY <1>0, <2>1, <2>6, GotoFields DEF LogoutUpdate
    <3>3. ASSUME NEW v \in Users
          PROVE  /\ Carries(c, v)' => Carries(c, v)
                 /\ Inside(c, v)' => Inside(c, v)
                 /\ Subscriber(c, v)' <=> Subscriber(c, v)
      BY <2>1, <2>3, <3>1, <3>2 DEF Carries, EnteredPcs, LoginPcs, Inside, Subscriber
    <3>4. ASSUME NEW d \in Conns, NEW v \in Users
          PROVE  /\ Carries(d, v)' => Carries(d, v)
                 /\ Inside(d, v)' => Inside(d, v)
                 /\ Exiting(d, v)' => Exiting(d, v) \/ (d = c /\ v = u)
      <4>1. CASE d = c
        BY <3>2, <3>3, <4>1 DEF Exiting
      <4>2. CASE d # c
        BY <2>3, <3>2, <4>2 DEF Carries, Inside, Exiting
      <4>3. QED  BY <4>1, <4>2
    <3>5. MapComplete'
      BY <3>1, <3>4 DEF Records, MapComplete, Entry
    <3>6. InsideAlone'
      <4> SUFFICES ASSUME NEW a \in Conns, NEW b \in Conns, NEW v \in Users,
                          Home[a] = Home[b], Exiting(a, v)', Inside(b, v)'
                   PROVE  a = b
        BY DEF InsideAlone
      <4>1. CASE a = c
        <5>1. v = u
          BY <3>2, <4>1 DEF Exiting
        <5>2. Active(b, u)
          BY <3>1, <3>4, <4>1, <5>1, FreeInside DEF IInv
        <5>3. Active(c, u)
          BY <2>1, <3>1 DEF Active, Present
        <5>4. QED  BY <4>1, <5>2, <5>3 DEF PresenceInv, OnePresent
      <4>2. CASE a # c
        BY <3>4, <4>2 DEF Records, InsideAlone
      <4>3. QED  BY <4>1, <4>2
    <3>7. ChannelsSound'
      BY <2>3, <3>1, <3>2, <3>3, ChannelsKept DEF Records
    <3>8. AliveLinked' /\ ClosedAlive'
      BY <2>3, <3>1, <3>2, LinksKept DEF Records, ClosePcs
    <3>9. QED  BY <3>5, <3>6, <3>7, <3>8 DEF Records
  <2>7. CASE LogoutErase(c)
    <3>1. /\ h[c].pc = "lo_erase" /\ UNCHANGED <<linked, subs, subCmds>>
          /\ userConnMap' = [userConnMap EXCEPT ![Home[c]][u] = NoConn]
      BY <2>1, <2>7 DEF LogoutErase, redisVars
    <3>2. /\ h'[c].pc = "lo_unsub" /\ h'[c].user = u
          /\ \A d \in Conns : d # c => h'[d] = h[d]
      BY <1>0, <2>1, <2>7, GotoFields DEF LogoutErase
    <3>3. ASSUME NEW v \in Users
          PROVE  /\ ~Carries(c, v)'
                 /\ Inside(c, v)' => Inside(c, v)
                 /\ Exiting(c, v)' => Exiting(c, v)
                 /\ Subscriber(c, v)' <=> Subscriber(c, v)
      BY <2>1, <2>3, <3>1, <3>2, SystemOK
         DEF Carries, EnteredPcs, LoginPcs, Inside, Exiting, Subscriber
    <3>4. ASSUME NEW s \in Servers, NEW v \in Users
          PROVE  userConnMap'[s][v] = IF s = Home[c] /\ v = u THEN NoConn ELSE userConnMap[s][v]
      BY <1>0, <3>1, ServiceOK
    <3>5. MapComplete'
      <4> SUFFICES ASSUME NEW d \in Conns, NEW v \in Users, Carries(d, v)'
                   PROVE  userConnMap'[Home[d]][v] = d
        BY DEF MapComplete, Entry
      <4>1. d # c
        BY <3>3
      <4>2. Carries(d, v)
        BY <2>3, <3>2, <4>1 DEF Carries
      <4>3. userConnMap[Home[d]][v] = d
        BY <4>2 DEF Records, MapComplete, Entry
      <4>4. ~(Home[d] = Home[c] /\ v = u)
        BY <2>4, <3>1, <4>1, <4>3
      <4>5. Home[d] \in Servers
        BY ServiceOK
      <4>6. QED  BY <3>4, <4>3, <4>4, <4>5
    <3>6. InsideAlone'
      <4>1. ASSUME NEW d \in Conns, NEW v \in Users
            PROVE  /\ Inside(d, v)' => Inside(d, v)
                   /\ Exiting(d, v)' => Exiting(d, v)
        <5>1. CASE d # c
          BY <2>3, <3>2, <5>1 DEF Carries, Inside, Exiting
        <5>2. QED  BY <3>3, <5>1
      <4>2. QED  BY <4>1 DEF Records, InsideAlone
    <3>7. ChannelsSound'
      BY <2>3, <3>1, <3>2, <3>3, ChannelsKept DEF Records
    <3>8. AliveLinked' /\ ClosedAlive'
      BY <2>3, <3>1, <3>2, LinksKept DEF Records, ClosePcs
    <3>9. QED  BY <3>5, <3>6, <3>7, <3>8 DEF Records
  <2>8. CASE LogoutUnsubscribe(c)
    <3>1. /\ h[c].pc = "lo_unsub" /\ userConnMap' = userConnMap
          /\ WriteCommand(Home[c], "unsub", u)
      BY <2>1, <2>8 DEF LogoutUnsubscribe, unsubscribe, Torn, Linked
    <3>2. h'[c].pc = "idle" /\ \A d \in Conns : d # c => h'[d] = h[d]
      BY <1>0, <2>8, FinishFields DEF LogoutUnsubscribe
    <3>3. "sub" \in linked[Home[c]] /\ RedisTypeOK
      BY <1>0, <2>3, ServiceOK DEF TypeOK, Records, AliveLinked, Contexts
    <3>4. ASSUME NEW v \in Users
          PROVE  ~Carries(c, v)' /\ ~Inside(c, v)' /\ ~Exiting(c, v)' /\ ~Subscriber(c, v)'
      BY <2>3, <3>2, SystemOK DEF Carries, EnteredPcs, LoginPcs, Inside, Exiting, Subscriber
    <3>5. MapComplete' /\ InsideAlone'
      BY <2>3, <3>1, <3>2, <3>4, MapKept DEF Records
    <3>6. ChannelsSound'
      <4> SUFFICES ASSUME NEW s \in Servers, NEW v \in Users
                   PROVE  v \in Subscribed(s)' <=> \E d \in Conns : Home[d] = s /\ Subscriber(d, v)'
        BY DEF ChannelsSound
      <4>1. v \in Subscribed(s)' <=> ~(s = Home[c] /\ v = u) /\ v \in Subscribed(s)
        BY <3>1, <3>3, WriteChannels, ServiceOK
      <4>2. ASSUME NEW d \in Conns, Home[d] = s
            PROVE  Subscriber(d, v)' <=> ~(s = Home[c] /\ v = u) /\ Subscriber(d, v)
        <5>1. CASE d = c
          <6>1. Subscriber(c, v) => v = u
            BY <2>1, <2>3, SystemOK DEF Subscriber
          <6>2. QED  BY <3>4, <4>2, <5>1, <6>1
        <5>2. CASE d # c
          <6>1. Subscriber(d, v)' <=> Subscriber(d, v)
            BY <2>3, <3>2, <5>2 DEF Subscriber
          <6>2. s = Home[c] /\ v = u => ~Subscriber(d, v)
            <7>1. Exiting(c, u)
              BY <2>1, <3>1 DEF Exiting
            <7>2. Home[d] = Home[c] => ~Inside(d, u)
              BY <5>2, <7>1 DEF Records, InsideAlone
            <7>3. Subscriber(d, u) => Inside(d, u)
              BY DEF Subscriber, Inside, Carries, EnteredPcs, LoginPcs
            <7>4. QED  BY <4>2, <7>2, <7>3
          <6>3. QED  BY <6>1, <6>2
        <5>3. QED  BY <5>1, <5>2
      <4>3. QED  BY <4>1, <4>2 DEF Records, ChannelsSound
    <3>7. AliveLinked' /\ ClosedAlive'
      BY <2>3, <3>1, <3>2, LinksKept DEF Records, ClosePcs, WriteCommand
    <3>8. QED  BY <3>5, <3>6, <3>7 DEF Records
  <2>9. QED  BY <1>3, <2>5, <2>6, <2>7, <2>8 DEF Logout
<1>4. QED  BY <1>1, <1>2, <1>3

LEMMA RecordsClose ==
  ASSUME Linked, IInv, MutexSound, PresenceInv, Records, NEW c \in Conns, Close(c)
  PROVE  Records'
<1> USE DEF At
<1>0. /\ TypeOK /\ h \in [Conns -> Handler] /\ who \in [Conns -> Users \cup {NoUser}]
      /\ conn \in [Conns -> {"new", "up", "gone", "down"}]
      /\ userConnMap \in [Servers -> [Users -> Conns \cup {NoConn}]]
  BY DEF IInv, TypeOK
<1>1. CASE CloseErase(c)
  <2>1. PICK u \in Users \cup {NoUser} :
          /\ u # NoUser => userConnMap[Home[c]][u] = c /\ who[c] = u
          /\ u = NoUser => \A v \in Users : userConnMap[Home[c]][v] # c
          /\ userConnMap' = [userConnMap EXCEPT ![Home[c]] =
                               [v \in Users |-> IF v = u THEN NoConn ELSE @[v]]]
          /\ h'[c].pc = "cl_unsub" /\ h'[c].user = u
          /\ \A d \in Conns : d # c => h'[d] = h[d] /\ who'[d] = who[d]
          /\ who'[c] = NoUser
    BY <1>1, ScanFinds
  <2>2. /\ h[c].pc = "idle" /\ conn'[c] = "down"
        /\ \A d \in Conns : d # c => conn'[d] = conn[d]
        /\ UNCHANGED <<linked, subs, subCmds, up>>
    BY <1>0, <1>1 DEF CloseErase, redisVars
  <2>3. Alive(Home[c])
    BY <1>1 DEF CloseErase, IInv, SessionsOK
  <2>4. ASSUME NEW v \in Users
        PROVE  (who[c] = v <=> u = v) /\ (Carries(c, v) <=> u = v)
    <3>1. Carries(c, v) <=> who[c] = v
      BY <2>2 DEF Carries, EnteredPcs, LoginPcs
    <3>2. who[c] = v => userConnMap[Home[c]][v] = c
      BY <3>1 DEF Records, MapComplete, Entry
    <3>3. who[c] = v => u # NoUser
      BY <2>1, <3>2
    <3>4. QED  BY <2>1, <3>1, <3>3, SystemOK
  <2>5. ASSUME NEW s \in Servers, NEW v \in Users
        PROVE  userConnMap'[s][v] = IF s = Home[c] /\ v = u THEN NoConn ELSE userConnMap[s][v]
    BY <1>0, <2>1, ServiceOK
  <2>6. ASSUME NEW v \in Users
        PROVE  /\ ~Carries(c, v)'
               /\ Inside(c, v)' => Inside(c, v)
               /\ ~Exiting(c, v)'
               /\ Subscriber(c, v)' <=> Subscriber(c, v)
    BY <2>1, <2>2, <2>4, SystemOK
       DEF Carries, EnteredPcs, LoginPcs, Inside, Exiting, Subscriber
  <2>7. MapComplete'
    <3> SUFFICES ASSUME NEW d \in Conns, NEW v \in Users, Carries(d, v)'
                 PROVE  userConnMap'[Home[d]][v] = d
      BY DEF MapComplete, Entry
    <3>1. d # c
      BY <2>6
    <3>2. Carries(d, v)
      BY <2>1, <3>1 DEF Carries
    <3>3. userConnMap[Home[d]][v] = d
      BY <3>2 DEF Records, MapComplete, Entry
    <3>4. ~(Home[d] = Home[c] /\ v = u)
      BY <2>1, <3>1, <3>3, SystemOK
    <3>5. Home[d] \in Servers
      BY ServiceOK
    <3>6. QED  BY <2>5, <3>3, <3>4, <3>5
  <2>8. InsideAlone'
    <3>1. ASSUME NEW d \in Conns, NEW v \in Users
          PROVE  /\ Inside(d, v)' => Inside(d, v)
                 /\ Exiting(d, v)' => Exiting(d, v)
      <4>1. CASE d # c
        BY <2>1, <4>1 DEF Carries, Inside, Exiting
      <4>2. QED  BY <2>6, <4>1
    <3>2. QED  BY <3>1 DEF Records, InsideAlone
  <2>9. ChannelsSound'
    BY <2>1, <2>2, <2>6, ChannelsKept DEF Records
  <2>10. AliveLinked' /\ ClosedAlive'
    BY <2>1, <2>2, <2>3, LinksKept DEF Records
  <2>11. QED  BY <2>7, <2>8, <2>9, <2>10 DEF Records
<1>2. CASE CloseUnsubscribe(c)
  <2>1. PICK u \in Users \cup {NoUser} : u = h[c].user
    BY <1>0 DEF Handler
  <2>2. /\ h[c].pc = "cl_unsub" /\ userConnMap' = userConnMap /\ who' = who
        /\ conn' = conn /\ up' = up /\ WriteCommand(Home[c], "unsub", u)
        /\ Finish(c) \/ Goto(c, "cl_update")
    BY <1>2, <2>1 DEF CloseUnsubscribe, unsubscribe, Torn, Linked, mapVars, netVars
  <2>3. h'[c].pc \in {"idle", "cl_update"} /\ \A d \in Conns : d # c => h'[d] = h[d]
    BY <1>0, <2>2, FinishFields, GotoFields
  <2>4. /\ who[c] = NoUser /\ conn[c] = "down" /\ Alive(Home[c])
        /\ "sub" \in linked[Home[c]] /\ RedisTypeOK
    BY <1>0, <2>2, ServiceOK
       DEF PresenceInv, Closing, ClosePcs, Records, ClosedAlive, AliveLinked, Contexts, TypeOK
  <2>5. ASSUME NEW v \in Users
        PROVE  ~Carries(c, v)' /\ ~Inside(c, v)' /\ ~Exiting(c, v)' /\ ~Subscriber(c, v)'
    BY <2>2, <2>3, <2>4, SystemOK
       DEF Carries, EnteredPcs, LoginPcs, Inside, Exiting, Subscriber
  <2>6. MapComplete' /\ InsideAlone'
    BY <2>2, <2>3, <2>5, MapKept DEF Records
  <2>7. ChannelsSound'
    <3> SUFFICES ASSUME NEW s \in Servers, NEW v \in Users
                 PROVE  v \in Subscribed(s)' <=> \E d \in Conns : Home[d] = s /\ Subscriber(d, v)'
      BY DEF ChannelsSound
    <3>1. v \in Subscribed(s)' <=> ~(s = Home[c] /\ v = u) /\ v \in Subscribed(s)
      BY <2>2, <2>4, WriteChannels, ServiceOK
    <3>2. ASSUME NEW d \in Conns, Home[d] = s
          PROVE  Subscriber(d, v)' <=> ~(s = Home[c] /\ v = u) /\ Subscriber(d, v)
      <4>1. CASE d = c
        <5>1. Subscriber(c, v) => v = u
          BY <2>1, <2>4, SystemOK DEF Subscriber
        <5>2. QED  BY <2>5, <3>2, <4>1, <5>1
      <4>2. CASE d # c
        <5>1. Subscriber(d, v)' <=> Subscriber(d, v)
          BY <2>2, <2>3, <4>2 DEF Subscriber
        <5>2. s = Home[c] /\ v = u => ~Subscriber(d, v)
          <6>1. SUFFICES ASSUME s = Home[c], v = u, Subscriber(d, v) PROVE FALSE
            OBVIOUS
          <6>2. Active(d, v) \/ Exiting(d, v)
            BY <6>1 DEF Subscriber, Active, Arriving, Present, ClosePcs, Exiting
          <6>3. Inside(c, v) /\ Active(c, v)
            BY <2>1, <2>2, <6>1 DEF Inside, Active, Present, ClosePcs
          <6>4. QED
            BY <3>2, <4>2, <6>1, <6>2, <6>3 DEF PresenceInv, OnePresent, Records, InsideAlone
        <5>3. QED  BY <5>1, <5>2
      <4>3. QED  BY <4>1, <4>2
    <3>3. QED  BY <3>1, <3>2 DEF Records, ChannelsSound
  <2>8. AliveLinked' /\ ClosedAlive'
    BY <2>2, <2>3, <2>4, LinksKept DEF Records, WriteCommand
  <2>9. QED  BY <2>6, <2>7, <2>8 DEF Records
<1>3. CASE CloseUpdate(c)
  <2>1. /\ UNCHANGED <<userConnMap, subs, subCmds, up, linked>> /\ who' = who /\ conn' = conn
        /\ h[c].pc = "cl_update"
    BY <1>3 DEF CloseUpdate, mapVars, netVars, redisVars
  <2>2. h'[c].pc = "idle" /\ \A d \in Conns : d # c => h'[d] = h[d]
    BY <1>0, <1>3, FinishFields DEF CloseUpdate
  <2>3. ASSUME NEW v \in Users
        PROVE  /\ Carries(c, v)' => Carries(c, v)
               /\ Inside(c, v)' => Inside(c, v)
               /\ ~Exiting(c, v)'
               /\ Subscriber(c, v)' <=> Subscriber(c, v)
    BY <2>1, <2>2 DEF Carries, EnteredPcs, LoginPcs, Inside, Exiting, Subscriber
  <2>4. QED
    BY <2>1, <2>2, <2>3, QuietStep DEF ClosePcs
<1>4. QED  BY <1>1, <1>2, <1>3 DEF Close

LEMMA RecordsChat ==
  ASSUME Linked, TypeOK, Records, NEW c \in Conns,
         Chat(c) \/ Group(c) \/ \E m \in Msgs : OneChat(c, m) \/ GroupChat(c, m)
  PROVE  Records'
<1>1. /\ UNCHANGED <<userState, who, userConnMap>>
      /\ \A d \in Conns : d # c => h'[d] = h[d]
      /\ h[c].pc \notin SessionPcs /\ h'[c].pc \notin SessionPcs
  BY ChatsElsewhere
<1>2. up' = up /\ conn' = conn
  <2>1. CASE Chat(c)
    BY <2>1 DEF Chat, ChatSend, ChatQuery, ChatPublish, ChatStore, netVars
  <2>2. CASE Group(c)
    BY <2>2 DEF Group, GroupLock, GroupSend, GroupQuery, GroupPublish, GroupStore,
                GroupDone, netVars
  <2>3. CASE \E m \in Msgs : OneChat(c, m) \/ GroupChat(c, m)
    BY <2>3 DEF OneChat, GroupChat, netVars
  <2>4. QED  BY <2>1, <2>2, <2>3
<1>3. UNCHANGED <<linked, subs, subCmds>>
  <2>1. CASE ChatPublish(c) \/ GroupPublish(c)
    BY <2>1 DEF ChatPublish, GroupPublish, publish, Push, Torn, Linked
  <2>2. CASE Chat(c) /\ ~ChatPublish(c)
    BY <2>2 DEF Chat, ChatSend, ChatQuery, ChatStore, redisVars
  <2>3. CASE Group(c) /\ ~GroupPublish(c)
    BY <2>3 DEF Group, GroupLock, GroupSend, GroupQuery, GroupStore, GroupDone, redisVars
  <2>4. CASE \E m \in Msgs : OneChat(c, m) \/ GroupChat(c, m)
    BY <2>4 DEF OneChat, GroupChat, redisVars
  <2>5. QED  BY <2>1, <2>2, <2>3, <2>4
<1>4. ASSUME NEW v \in Users
      PROVE  /\ Carries(c, v)' => Carries(c, v)
             /\ Inside(c, v)' => Inside(c, v)
             /\ ~Exiting(c, v)'
             /\ Subscriber(c, v)' <=> Subscriber(c, v)
  BY <1>1 DEF Carries, EnteredPcs, Inside, Exiting, Subscriber, SessionPcs, LoginPcs,
              LogoutPcs, ClosePcs
<1>5. QED
  BY <1>1, <1>2, <1>3, <1>4, QuietStep DEF SessionPcs

(* The connections of a process that dies carry nothing any more. *)
LEMMA RecordsDie ==
  ASSUME IInv, Records, NEW s \in Servers, NEW how \in Ends, Die(s, how)
  PROVE  Records'
<1>1. /\ RedisTypeOK /\ userConnMap \in [Servers -> [Users -> Conns \cup {NoConn}]]
      /\ up \in [Servers -> {"running", "resetting"} \cup Ends]
  BY DEF IInv, TypeOK
<1>2. ASSUME NEW d \in Conns, Home[d] = s PROVE h'[d].pc = "idle" /\ who'[d] = NoUser
  <2>1. CASE conn[d] = "new"
    <3>1. h[d].pc = "idle" /\ who[d] = NoUser
      BY <2>1 DEF IInv, SessionsOK, Records, ClosedAlive
    <3>2. QED  BY <2>1, <3>1 DEF Die
  <2>2. CASE conn[d] # "new"
    BY <1>2, <2>2, IdleType DEF Die
  <2>3. QED  BY <2>1, <2>2
<1>3. ASSUME NEW d \in Conns, Home[d] # s
      PROVE  h'[d] = h[d] /\ who'[d] = who[d] /\ conn'[d] = conn[d]
  BY <1>3 DEF Die
<1>4. up'[s] = how /\ \A t \in Servers : t # s => up'[t] = up[t]
  BY <1>1 DEF Die
<1>5. \A t \in Servers : t # s => userConnMap'[t] = userConnMap[t]
  BY <1>1 DEF Die
<1>6. ASSUME NEW d \in Conns, NEW v \in Users, Home[d] = s
      PROVE  ~Carries(d, v)' /\ ~Inside(d, v)' /\ ~Exiting(d, v)' /\ ~Subscriber(d, v)'
  BY <1>2, <1>6, SystemOK DEF Carries, EnteredPcs, LoginPcs, Inside, Exiting, Subscriber
<1>7. ASSUME NEW d \in Conns, NEW v \in Users, Home[d] # s
      PROVE  /\ Carries(d, v)' <=> Carries(d, v)
             /\ Inside(d, v)' <=> Inside(d, v)
             /\ Exiting(d, v)' <=> Exiting(d, v)
             /\ Subscriber(d, v)' <=> Subscriber(d, v)
  BY <1>3, <1>7 DEF Carries, Inside, Exiting, Subscriber
<1>8. MapComplete'
  <2> SUFFICES ASSUME NEW d \in Conns, NEW v \in Users, Carries(d, v)'
               PROVE  userConnMap'[Home[d]][v] = d
    BY DEF MapComplete, Entry
  <2>1. Home[d] # s /\ Carries(d, v)
    BY <1>6, <1>7
  <2>2. Home[d] \in Servers
    BY ServiceOK
  <2>3. QED  BY <1>5, <2>1, <2>2 DEF Records, MapComplete, Entry
<1>9. InsideAlone'
  <2>1. ASSUME NEW d \in Conns, NEW v \in Users
        PROVE  /\ Inside(d, v)' => Inside(d, v)
               /\ Exiting(d, v)' => Exiting(d, v)
    <3>1. CASE Home[d] = s
      BY <1>6, <3>1
    <3>2. CASE Home[d] # s
      BY <1>7, <3>2
    <3>3. QED  BY <3>1, <3>2
  <2>2. QED  BY <2>1 DEF Records, InsideAlone
<1>10. ChannelsSound'
  <2> SUFFICES ASSUME NEW t \in Servers, NEW v \in Users
               PROVE  v \in Subscribed(t)' <=> \E d \in Conns : Home[d] = t /\ Subscriber(d, v)'
    BY DEF ChannelsSound
  <2>1. Subscribed(s)' = {} /\ \A r \in Servers : r # s => Subscribed(r)' = Subscribed(r)
    BY <1>1, DisconnectChannels DEF Die
  <2>2. CASE t = s
    BY <1>6, <2>1, <2>2
  <2>3. CASE t # s
    <3>1. \A d \in Conns : Home[d] = t => (Subscriber(d, v)' <=> Subscriber(d, v))
      BY <1>7, <2>3
    <3>2. QED  BY <2>1, <2>3, <3>1 DEF Records, ChannelsSound
  <2>4. QED  BY <2>2, <2>3
<1>11. AliveLinked'
  <2>1. \A t \in Servers : t # s => linked'[t] = linked[t]
    BY <1>1 DEF Die, Disconnect, RedisTypeOK
  <2>2. ~Alive(s)'
    BY <1>4 DEF Alive, Ends
  <2>3. QED  BY <1>4, <2>1, <2>2 DEF Records, AliveLinked, Alive
<1>12. ClosedAlive'
  <2> SUFFICES ASSUME NEW d \in Conns, h'[d].pc \in ClosePcs
               PROVE  conn'[d] = "down" /\ Alive(Home[d])'
    BY DEF ClosedAlive
  <2>1. Home[d] # s /\ Home[d] \in Servers
    BY <1>2, ServiceOK DEF ClosePcs
  <2>2. QED  BY <1>3, <1>4, <2>1 DEF Records, ClosedAlive, Alive
<1>13. QED  BY <1>8, <1>9, <1>10, <1>11, <1>12 DEF Records

LEMMA RecordsServer ==
  ASSUME Orderly, Linked, TypeOK, Records, NEW s \in Servers, Server(s),
         ~(Kill(s) \/ SigintExit(s))
  PROVE  Records'
<1>1. UNCHANGED <<userConnMap, h, who, conn>>
  BY DEF Server, Observe, Execute, SigintReset, Restart, BreakLink, mapVars, netVars
<1>2. \A t \in Servers : Subscribed(t)' = Subscribed(t)
  <2>1. CASE Execute(s)
    BY <2>1, ExecuteChannels DEF Execute, TypeOK
  <2>2. CASE Observe(s) \/ Restart(s)
    <3>1. subs' = subs /\ subCmds' = subCmds
      BY <2>2 DEF Observe, Consume, Restart, connect
    <3>2. QED  BY <3>1, SameChannels
  <2>3. QED  BY <2>1, <2>2 DEF Server, SigintReset, BreakLink, Orderly, Linked
<1>3. ASSUME NEW t \in Servers
      PROVE  /\ Alive(t)' => linked'[t] = Contexts \/ (Alive(t) /\ linked'[t] = linked[t])
             /\ Alive(t) => Alive(t)'
  <2>1. CASE Restart(s)
    BY <2>1 DEF Restart, connect, TypeOK, RedisTypeOK, Alive
  <2>2. CASE Observe(s) \/ Execute(s)
    BY <2>2 DEF Observe, Consume, Execute, ExecuteCommand, Alive
  <2>3. QED  BY <2>1, <2>2 DEF Server, SigintReset, BreakLink, Orderly, Linked
<1>4. ASSUME NEW d \in Conns, NEW v \in Users
      PROVE  /\ Carries(d, v)' <=> Carries(d, v)
             /\ Inside(d, v)' <=> Inside(d, v)
             /\ Exiting(d, v)' <=> Exiting(d, v)
             /\ Subscriber(d, v)' <=> Subscriber(d, v)
  BY <1>1 DEF Carries, Inside, Exiting, Subscriber
<1>5. MapComplete' /\ InsideAlone' /\ ChannelsSound'
  <2>1. MapComplete'
    BY <1>1, <1>4 DEF Records, MapComplete, Entry
  <2>2. InsideAlone'
    BY <1>4 DEF Records, InsideAlone
  <2>3. ChannelsSound'
    BY <1>2, <1>4 DEF Records, ChannelsSound
  <2>4. QED  BY <2>1, <2>2, <2>3
<1>6. AliveLinked'
  BY <1>3 DEF Records, AliveLinked, Alive
<1>7. ClosedAlive'
  BY <1>1, <1>3, ServiceOK DEF Records, ClosedAlive
<1>8. QED  BY <1>5, <1>6, <1>7 DEF Records

LEMMA RecordsNext ==
  ASSUME Orderly, Linked, IInv, MutexSound, PresenceInv, Records, [Next]_vars
  PROVE  Records'
<1>0. TypeOK
  BY DEF IInv
<1>1. ASSUME NEW c \in Conns, Requests(c) \/ Steps(c) PROVE Records'
  <2>1. CASE NullRow(c) \/ RaceCrash(c)
    BY <2>1, RecordsDie, ServiceOK DEF NullRow, RaceCrash, Ends
  <2>2. CASE Chat(c) \/ Group(c) \/ \E m \in Msgs : OneChat(c, m) \/ GroupChat(c, m)
    BY <1>0, <2>2, RecordsChat
  <2>3. CASE Login(c) \/ \E u \in Users : LoginQuery(c, u)
    BY <2>3, RecordsLogin
  <2>4. CASE Logout(c) \/ LogoutRequest(c) \/ Vanish(c)
    BY <2>4, RecordsLogout
  <2>5. CASE Close(c)
    BY <2>5, RecordsClose
  <2>6. QED  BY <1>1, <2>1, <2>2, <2>3, <2>4, <2>5 DEF Requests, Steps
<1>2. ASSUME NEW s \in Servers, Server(s) PROVE Records'
  <2>1. CASE Kill(s) \/ SigintExit(s)
    BY <2>1, RecordsDie DEF Kill, SigintExit, Ends
  <2>2. CASE ~(Kill(s) \/ SigintExit(s))
    BY <1>0, <1>2, <2>2, RecordsServer
  <2>3. QED  BY <2>1, <2>2
<1>3. CASE UNCHANGED vars
  <2>1. /\ UNCHANGED <<userConnMap, h, who, conn, up, linked, subs, subCmds>>
    BY <1>3 DEF vars, mapVars, netVars, redisVars
  <2>2. MapComplete' /\ InsideAlone'
    BY <2>1 DEF Records, MapComplete, InsideAlone, Entry, Carries, Inside, Exiting
  <2>3. ChannelsSound'
    BY <2>1, SameChannels DEF Records, ChannelsSound, Subscriber
  <2>4. AliveLinked' /\ ClosedAlive'
    BY <2>1 DEF Records, AliveLinked, ClosedAlive, Alive
  <2>5. QED  BY <2>2, <2>3, <2>4 DEF Records
<1>4. QED  BY <1>1, <1>2, <1>3 DEF Next

LEMMA RecordsInit == Init => Records
<1> SUFFICES ASSUME Init PROVE Records
  OBVIOUS
<1>1. \A c \in Conns : h[c].pc = "idle" /\ who[c] = Pre[c]
  BY IdleType DEF Init
<1>2. ASSUME NEW c \in Conns, NEW u \in Users
      PROVE  /\ Carries(c, u) <=> Pre[c] = u
             /\ ~Exiting(c, u)
             /\ Subscriber(c, u) <=> Pre[c] = u
  BY <1>1 DEF Carries, EnteredPcs, LoginPcs, Exiting, Subscriber
<1>3. MapComplete
  <2> SUFFICES ASSUME NEW c \in Conns, NEW u \in Users, Pre[c] = u
               PROVE  userConnMap[Home[c]][u] = c
    BY <1>2 DEF MapComplete, Entry
  <2> DEFINE mine == CHOOSE d \in Conns : Home[d] = Home[c] /\ Pre[d] = u
  <2>1. Home[c] \in Servers
    BY ServiceOK
  <2>2. userConnMap[Home[c]][u] = mine
    BY <2>1 DEF Init
  <2>3. mine \in Conns /\ Pre[mine] = u
    OBVIOUS
  <2> HIDE DEF mine
  <2>4. QED  BY <2>2, <2>3, ServiceOK, SystemOK
<1>4. InsideAlone
  BY <1>2 DEF InsideAlone
<1>5. ChannelsSound
  <2> SUFFICES ASSUME NEW s \in Servers, NEW u \in Users
               PROVE  u \in Subscribed(s) <=> \E c \in Conns : Home[c] = s /\ Pre[c] = u
    BY <1>2 DEF ChannelsSound
  <2>1. subCmds[s] = <<>> /\ (u \in subs[s] <=> \E c \in Conns : Home[c] = s /\ Pre[c] = u)
    BY DEF Init
  <2>2. QED  BY <2>1 DEF Subscribed, Later
<1>6. AliveLinked /\ ClosedAlive
  BY <1>1 DEF Init, AliveLinked, ClosedAlive, ClosePcs
<1>7. QED  BY <1>3, <1>4, <1>5, <1>6 DEF Records

LEMMA RecordsInvariant == ASSUME Orderly, Linked PROVE Spec => []Records
<1>1. IInv /\ MutexSound /\ PresenceInv /\ Records /\ [Next]_vars => Records'
  BY RecordsNext
<1>2. Spec => []PresenceInv
  BY PresenceInvariant
<1>3. QED
  BY <1>1, <1>2, RecordsInit, SessionsInvariant, MutexCorrect, PTL DEF Spec

-----------------------------------------------------------------------------
(*                      orphans                                            *)

(* A present connection comes from an offline user and, unless a server     *)
(* dies, ends by making the user offline.                                   *)
Comes(u) == \A c \in Conns : Present(c, u)' => Present(c, u) \/ userState[u] = "offline"
Goes(u)  == (\A s \in Servers : ~Dies(s)) =>
              \A c \in Conns : Present(c, u) => Present(c, u)' \/ userState'[u] = "offline"
Enters(u) == userState'[u] = "online" =>
              userState[u] = "online" \/ \E c \in Conns : Present(c, u)'
Moves == \A u \in Users : Comes(u) /\ Goes(u) /\ Enters(u)

LEMMA SameMoves ==
  ASSUME NEW c \in Conns, userState' = userState,
         \A d \in Conns : d # c => h'[d] = h[d] /\ who'[d] = who[d],
         \A u \in Users : Present(c, u)' <=> Present(c, u)
  PROVE  Moves
<1>1. ASSUME NEW u \in Users, NEW d \in Conns PROVE Present(d, u)' <=> Present(d, u)
  <2>1. CASE d # c
    BY <2>1 DEF Present
  <2>2. QED  BY <2>1
<1>2. QED  BY <1>1 DEF Moves, Comes, Goes, Enters

(* The present connection c of u writes offline. *)
LEMMA OfflineMoves ==
  ASSUME NEW c \in Conns, NEW u \in Users,
         userState' = [v \in Users |-> IF v = u THEN "offline" ELSE userState[v]],
         \A d \in Conns : d # c => h'[d] = h[d] /\ who'[d] = who[d],
         \A v \in Users : ~Present(c, v)' /\ (Present(c, v) => v = u)
  PROVE  Moves
<1>1. ASSUME NEW v \in Users, NEW d \in Conns, d # c
      PROVE  Present(d, v)' <=> Present(d, v)
  BY <1>1 DEF Present
<1>2. ASSUME NEW v \in Users PROVE Comes(v) /\ Goes(v) /\ Enters(v)
  <2>1. Comes(v)
    BY <1>1 DEF Comes
  <2>2. Goes(v)
    BY <1>1 DEF Goes
  <2>3. Enters(v)
    BY DEF Enters
  <2>4. QED  BY <2>1, <2>2, <2>3
<1>3. QED  BY <1>2 DEF Moves

LEMMA LoginMoves ==
  ASSUME Orderly, IInv, PresenceInv, Records, NEW c \in Conns,
         Login(c) \/ \E u \in Users : LoginQuery(c, u)
  PROVE  Moves
<1> USE DEF At
<1>0. TypeOK /\ h \in [Conns -> Handler] /\ who \in [Conns -> Users \cup {NoUser}]
  BY DEF IInv, TypeOK
<1>1. ASSUME NEW u \in Users, LoginQuery(c, u) PROVE Moves
  <2>1. /\ h'[c].pc = "li_insert" /\ \A d \in Conns : d # c => h'[d] = h[d]
        /\ who' = who /\ who[c] = NoUser /\ userState' = userState
    BY <1>0, <1>1, IdleType DEF LoginQuery, CanLogin, Handler, dbVars
  <2>2. h[c].pc = "idle"
    BY <1>1 DEF LoginQuery, CanLogin, Ready, IInv, SessionsOK, Records, ClosedAlive
  <2>3. \A v \in Users : ~Present(c, v)' /\ ~Present(c, v)
    BY <2>1, <2>2, SystemOK DEF Present, ClosePcs
  <2>4. QED  BY <2>1, <2>3, SameMoves
<1>2. CASE LoginInsert(c) \/ LoginSubscribe(c)
  <2>1. PICK p \in {"li_subscribe", "li_online"} : Goto(c, p)
    BY <1>2 DEF LoginInsert, LoginSubscribe
  <2>2. /\ userState' = userState /\ who' = who /\ h[c].pc \in {"li_insert", "li_subscribe"}
    BY <1>2 DEF LoginInsert, LoginSubscribe, dbVars, netVars
  <2>3. \A v \in Users : Present(c, v)' <=> Present(c, v)
    BY <1>0, <2>1, <2>2, GotoFields DEF Present, ClosePcs
  <2>4. QED  BY <1>0, <2>1, <2>2, <2>3, GotoFields, SameMoves
<1>3. CASE LoginOnline(c)
  <2>1. PICK u \in Users : u = h[c].user
    BY <1>3 DEF LoginOnline, IInv, HandlersOK, WellFormed, NeedsUser, LoginPcs
  <2>2. /\ userState' = [v \in Users |-> IF v = u THEN "online" ELSE userState[v]]
        /\ who' = who
    BY <1>0, <1>3, <2>1, Updated DEF LoginOnline, netVars
  <2>3. /\ h'[c].pc = "li_offmsg" /\ h'[c].user = u /\ h[c].pc = "li_online"
        /\ \A d \in Conns : d # c => h'[d] = h[d]
    BY <1>0, <1>3, <2>1, GotoFields DEF LoginOnline
  <2>4. who[c] = NoUser /\ userState[u] = "offline"
    BY <2>1, <2>3 DEF IInv, SessionsOK, LoginPcs, PresenceInv, OnePresent, Arriving
  <2>5. ASSUME NEW v \in Users, NEW d \in Conns
        PROVE  Present(d, v)' <=> Present(d, v) \/ (d = c /\ v = u)
    <3>1. CASE d = c
      BY <2>1, <2>2, <2>3, <2>4, <3>1, SystemOK DEF Present
    <3>2. CASE d # c
      BY <2>2, <2>3, <3>2 DEF Present
    <3>3. QED  BY <3>1, <3>2
  <2>6. ASSUME NEW v \in Users PROVE Comes(v) /\ Goes(v) /\ Enters(v)
    <3>1. Comes(v) /\ Goes(v)
      BY <2>4, <2>5 DEF Comes, Goes
    <3>2. Enters(v)
      BY <2>2, <2>5 DEF Enters
    <3>3. QED  BY <3>1, <3>2
  <2>7. QED  BY <2>6 DEF Moves
<1>4. CASE LoginOffline(c) \/ LoginRemove(c)
  <2>1. /\ userState' = userState /\ who' = who /\ h[c].pc \in {"li_offmsg", "li_remove"}
    BY <1>4 DEF LoginOffline, LoginRemove, RemoveOffline, dbVars, netVars
  <2>2. /\ h'[c].pc \in {"li_remove", "li_ack"} /\ h'[c].user = h[c].user
        /\ \A d \in Conns : d # c => h'[d] = h[d]
    <3>1. CASE LoginOffline(c)
      <4>1. PICK rows, p : /\ p \in {"li_ack", "li_remove"}
                           /\ h' = [h EXCEPT ![c].rows = rows, ![c].pc = p]
        BY <3>1 DEF LoginOffline
      <4>2. QED  BY <1>0, <4>1 DEF Handler
    <3>2. CASE LoginRemove(c)
      BY <1>0, <3>2, GotoFields DEF LoginRemove
    <3>3. QED  BY <1>4, <3>1, <3>2
  <2>3. \A v \in Users : Present(c, v)' <=> Present(c, v)
    BY <2>1, <2>2 DEF Present, ClosePcs
  <2>4. QED  BY <2>1, <2>2, <2>3, SameMoves
<1>5. CASE LoginAck(c)
  <2>1. /\ userState' = userState /\ h[c].pc = "li_ack" /\ who[c] = NoUser
        /\ who'[c] = h[c].user /\ \A d \in Conns : d # c => who'[d] = who[d]
    BY <1>0, <1>5 DEF LoginAck, dbVars, IInv, SessionsOK, LoginPcs
  <2>2. h'[c].pc = "idle" /\ \A d \in Conns : d # c => h'[d] = h[d]
    BY <1>0, <1>5, FinishFields DEF LoginAck
  <2>3. \A v \in Users : Present(c, v)' <=> Present(c, v)
    BY <2>1, <2>2, SystemOK DEF Present, ClosePcs
  <2>4. QED  BY <2>1, <2>2, <2>3, SameMoves
<1>6. QED  BY <1>1, <1>2, <1>3, <1>4, <1>5 DEF Login

LEMMA LogoutMoves ==
  ASSUME Orderly, IInv, PresenceInv, Records, NEW c \in Conns,
         Logout(c) \/ LogoutRequest(c) \/ Vanish(c)
  PROVE  Moves
<1> USE DEF At
<1>0. TypeOK /\ h \in [Conns -> Handler] /\ who \in [Conns -> Users \cup {NoUser}]
  BY DEF IInv, TypeOK
<1>1. CASE LogoutRequest(c)
  <2>1. [Idle EXCEPT !.pc = "lo_lock", !.user = who[c]].pc = "lo_lock"
        /\ [Idle EXCEPT !.pc = "lo_lock", !.user = who[c]].user = who[c]
    BY DEF Idle
  <2>2. /\ h'[c].pc = "lo_lock" /\ h'[c].user = who[c] /\ who'[c] = NoUser
        /\ \A d \in Conns : d # c => h'[d] = h[d] /\ who'[d] = who[d]
    BY <1>0, <1>1, <2>1 DEF LogoutRequest
  <2>3. userState' = userState /\ h[c].pc = "idle"
    BY <1>1 DEF LogoutRequest, Ready, dbVars
  <2>4. \A v \in Users : Present(c, v)' <=> Present(c, v)
    BY <2>2, <2>3, SystemOK DEF Present, ClosePcs
  <2>5. QED  BY <2>2, <2>3, <2>4, SameMoves
<1>2. CASE Vanish(c)
  <2>1. userState' = userState /\ h' = h /\ who' = who
    BY <1>2 DEF Vanish, dbVars
  <2>2. QED  BY <2>1, SameMoves DEF Present
<1>3. CASE Logout(c)
  <2>1. PICK u \in Users : u = h[c].user
    BY <1>3 DEF Logout, LogoutUpdate, LogoutFail, LogoutErase, LogoutUnsubscribe,
                IInv, HandlersOK, WellFormed, NeedsUser, LogoutPcs
  <2>2. h[c].pc \in LogoutPcs
    BY <1>3 DEF Logout, LogoutUpdate, LogoutFail, LogoutErase, LogoutUnsubscribe, LogoutPcs
  <2>3. who' = who /\ who[c] = NoUser
    <3>1. who' = who
      BY <1>3 DEF Logout, LogoutUpdate, LogoutFail, LogoutErase, LogoutUnsubscribe, netVars
    <3>2. who[c] = NoUser
      BY <2>2 DEF IInv, SessionsOK
    <3>3. QED  BY <3>1, <3>2
  <2>4. ~LogoutFail(c)
    BY <2>1, ServiceOK DEF LogoutFail, Records, MapComplete, Carries, EnteredPcs
  <2>5. CASE LogoutUpdate(c)
    <3>1. userState' = [v \in Users |-> IF v = u THEN "offline" ELSE userState[v]]
      BY <1>0, <2>1, <2>5, Updated DEF LogoutUpdate
    <3>2. h'[c].pc = "lo_erase" /\ \A d \in Conns : d # c => h'[d] = h[d]
      BY <1>0, <2>5, GotoFields DEF LogoutUpdate
    <3>3. \A v \in Users : ~Present(c, v)' /\ (Present(c, v) => v = u)
      BY <2>1, <2>3, <3>2, SystemOK DEF Present, ClosePcs
    <3>4. QED  BY <2>3, <3>1, <3>2, <3>3, OfflineMoves
  <2>6. CASE LogoutErase(c) \/ LogoutUnsubscribe(c)
    <3>1. userState' = userState /\ h[c].pc \in {"lo_erase", "lo_unsub"}
      BY <2>6 DEF LogoutErase, LogoutUnsubscribe, dbVars
    <3>2. h'[c].pc \in {"lo_unsub", "idle"} /\ \A d \in Conns : d # c => h'[d] = h[d]
      BY <1>0, <2>6, GotoFields, FinishFields DEF LogoutErase, LogoutUnsubscribe
    <3>3. \A v \in Users : ~Present(c, v)' /\ ~Present(c, v)
      BY <2>3, <3>1, <3>2, SystemOK DEF Present, ClosePcs
    <3>4. QED  BY <2>3, <3>1, <3>2, <3>3, SameMoves
  <2>7. QED  BY <1>3, <2>4, <2>5, <2>6 DEF Logout
<1>4. QED  BY <1>1, <1>2, <1>3

LEMMA CloseMoves ==
  ASSUME Orderly, IInv, PresenceInv, Records, NEW c \in Conns, Close(c)
  PROVE  Moves
<1> USE DEF At
<1>0. TypeOK /\ h \in [Conns -> Handler]
  BY DEF IInv, TypeOK
<1>1. CASE CloseErase(c)
  <2>1. PICK u \in Users \cup {NoUser} :
          /\ u # NoUser => userConnMap[Home[c]][u] = c /\ who[c] = u
          /\ u = NoUser => \A v \in Users : userConnMap[Home[c]][v] # c
          /\ h'[c].pc = "cl_unsub" /\ h'[c].user = u
          /\ \A d \in Conns : d # c => h'[d] = h[d] /\ who'[d] = who[d]
          /\ who'[c] = NoUser
    BY <1>1, ScanFinds
  <2>2. h[c].pc = "idle" /\ userState' = userState
    BY <1>1 DEF CloseErase, dbVars
  <2>3. ASSUME NEW v \in Users PROVE who[c] = v <=> u = v
    <3>1. who[c] = v => userConnMap[Home[c]][v] = c
      BY DEF Records, MapComplete, Entry, Carries
    <3>2. QED  BY <2>1, <3>1, SystemOK
  <2>4. \A v \in Users : Present(c, v)' <=> Present(c, v)
    BY <2>1, <2>2, <2>3, SystemOK DEF Present, ClosePcs
  <2>5. QED  BY <2>1, <2>2, <2>4, SameMoves
<1>2. CASE CloseUnsubscribe(c)
  <2>1. /\ userState' = userState /\ who' = who /\ h[c].pc = "cl_unsub"
        /\ IF h[c].user = NoUser THEN Finish(c) ELSE Goto(c, "cl_update")
    BY <1>2 DEF CloseUnsubscribe, dbVars, netVars
  <2>2. /\ \A d \in Conns : d # c => h'[d] = h[d]
        /\ IF h[c].user = NoUser THEN h'[c].pc = "idle"
           ELSE h'[c].pc = "cl_update" /\ h'[c].user = h[c].user
    BY <1>0, <2>1, FinishFields, GotoFields
  <2>3. \A v \in Users : Present(c, v)' <=> Present(c, v)
    BY <2>1, <2>2, SystemOK DEF Present, ClosePcs
  <2>4. QED  BY <2>1, <2>2, <2>3, SameMoves
<1>3. CASE CloseUpdate(c)
  <2>1. PICK u \in Users : u = h[c].user
    BY <1>3 DEF CloseUpdate, IInv, HandlersOK, WellFormed, NeedsUser
  <2>2. /\ userState' = [v \in Users |-> IF v = u THEN "offline" ELSE userState[v]]
        /\ who' = who /\ h[c].pc = "cl_update"
    BY <1>0, <1>3, <2>1, Updated DEF CloseUpdate, netVars
  <2>3. /\ h'[c].pc = "idle" /\ \A d \in Conns : d # c => h'[d] = h[d]
    BY <1>0, <1>3, FinishFields DEF CloseUpdate
  <2>4. who[c] = NoUser
    BY <2>2 DEF PresenceInv, Closing, ClosePcs
  <2>5. \A v \in Users : ~Present(c, v)' /\ (Present(c, v) => v = u)
    BY <2>1, <2>2, <2>3, <2>4, SystemOK DEF Present, ClosePcs
  <2>6. QED  BY <2>2, <2>3, <2>5, OfflineMoves
<1>4. QED  BY <1>1, <1>2, <1>3 DEF Close

LEMMA DieMoves ==
  ASSUME TypeOK, NEW s \in Servers, NEW how \in Ends, Alive(s), Die(s, how)
  PROVE  Moves
<1>1. ASSUME NEW u \in Users, NEW d \in Conns
      PROVE  Present(d, u)' => Present(d, u)
  BY DeathFields, SystemOK DEF Present, ClosePcs
<1>2. Dies(s)
  <2>1. up'[s] = how
    BY DEF Die, TypeOK
  <2>2. QED  BY <2>1 DEF Dies, Alive, Ends
<1>3. QED
  BY <1>1, <1>2, DeathFields DEF Moves, Comes, Goes, Enters

LEMMA NextMoves ==
  ASSUME Orderly, Linked, IInv, PresenceInv, Records, [Next]_vars
  PROVE  Moves
<1>0. TypeOK
  BY DEF IInv
<1>1. ASSUME NEW c \in Conns, Requests(c) \/ Steps(c) PROVE Moves
  <2>1. CASE NullRow(c) \/ RaceCrash(c)
    <3>1. Alive(Home[c])
      BY <2>1 DEF NullRow, RaceCrash, CanLogin, CanSend, Ready, At, Torn, Linked, IInv,
                  SessionsOK, ClosePcs, Alive
    <3>2. QED
      BY <1>0, <2>1, <3>1, DieMoves, ServiceOK DEF NullRow, RaceCrash, Ends
  <2>2. CASE Chat(c) \/ Group(c) \/ \E m \in Msgs : OneChat(c, m) \/ GroupChat(c, m)
    <3>1. /\ userState' = userState /\ who' = who
          /\ \A d \in Conns : d # c => h'[d] = h[d]
          /\ h[c].pc \notin SessionPcs /\ h'[c].pc \notin SessionPcs
      BY <1>0, <2>2, ChatsElsewhere
    <3>2. \A v \in Users : Present(c, v)' <=> Present(c, v)
      BY <3>1 DEF Present, SessionPcs, LoginPcs, LogoutPcs
    <3>3. QED  BY <3>1, <3>2, SameMoves
  <2>3. CASE \/ Login(c) \/ \E u \in Users : LoginQuery(c, u)
             \/ Logout(c) \/ LogoutRequest(c) \/ Vanish(c) \/ Close(c)
    BY <2>3, LoginMoves, LogoutMoves, CloseMoves
  <2>4. QED  BY <1>1, <2>1, <2>2, <2>3 DEF Requests, Steps
<1>2. ASSUME UNCHANGED <<userState, who, h>> PROVE Moves
  BY <1>2 DEF Moves, Comes, Goes, Enters, Present
<1>3. ASSUME NEW s \in Servers, Server(s) PROVE Moves
  <2>1. CASE Kill(s) \/ SigintExit(s)
    BY <1>0, <2>1, DieMoves DEF Kill, SigintExit, Ends, Alive
  <2>2. CASE ~(Kill(s) \/ SigintExit(s))
    BY <1>2, <1>3, <2>2, ServersElsewhere
  <2>3. QED  BY <2>1, <2>2
<1>4. CASE UNCHANGED vars
  BY <1>2, <1>4 DEF vars, netVars, dbVars
<1>5. QED  BY <1>1, <1>3, <1>4 DEF Next

(* The orphans of Watch are exactly those OrphansExact names. *)
LEMMA GhostIs ==
  IInv /\ OnePresent /\ MapComplete =>
    \A u \in Users : Ghost(u) <=> userState[u] = "online" /\ \A c \in Conns : ~Present(c, u)
<1> SUFFICES ASSUME IInv, OnePresent, MapComplete, NEW u \in Users, userState[u] = "online"
             PROVE  Ghost(u) <=> \A c \in Conns : ~Present(c, u)
  BY DEF Ghost
<1>1. ASSUME Ghost(u), NEW c \in Conns, Present(c, u) PROVE FALSE
  <2>1. who[c] = u \/ (h[c].user = u /\ h[c].pc = "lo_lock")
    BY <1>1 DEF Ghost, Present, LoginPcs
  <2>2. Carries(c, u) /\ h[c].pc # "lo_erase"
    BY <2>1, SystemOK DEF Carries, EnteredPcs, IInv, SessionsOK, LogoutPcs
  <2>3. userConnMap[Home[c]][u] = c /\ Home[c] \in Session(u)
    BY <2>2, ServiceOK DEF MapComplete, Entry, Session
  <2>4. ~Leaving(Home[c], u)
    <3>1. SUFFICES ASSUME NEW d \in Conns, Home[d] = Home[c], At(d, "lo_erase"), h[d].user = u
                   PROVE  FALSE
      BY DEF Leaving
    <3>2. userConnMap[Home[d]][u] = d
      BY <3>1 DEF MapComplete, Entry, Carries, EnteredPcs, At
    <3>3. QED  BY <2>2, <2>3, <3>1, <3>2 DEF At
  <2>5. QED  BY <1>1, <2>3, <2>4 DEF Ghost, On
<1>2. ASSUME \A c \in Conns : ~Present(c, u) PROVE Ghost(u)
  <2>1. \A c \in Conns : ~Arriving(c, u)
    BY DEF OnePresent
  <2>2. On(u) = {}
    BY <1>2, <2>1, OnIsPresent DEF Active
  <2>3. ASSUME NEW c \in Conns, h[c].user = u PROVE h[c].pc \notin LoginPcs \cup ClosePcs
    BY <1>2, <2>1, <2>3 DEF Arriving, Present, LoginPcs
  <2>4. QED  BY <2>2, <2>3 DEF Ghost
<1>3. QED  BY <1>1, <1>2

LEMMA OrphansInit == Init /\ WatchInit => OrphansExact
<1> SUFFICES ASSUME Init, WatchInit, NEW u \in Users, userState[u] = "online"
             PROVE  \E c \in Conns : Present(c, u)
  BY DEF OrphansExact, WatchInit
<1>1. PICK c \in Conns : Pre[c] = u
  BY DEF Init
<1>2. QED  BY <1>1 DEF Init, Present

LEMMA OrphansStep ==
  ASSUME OrphansExact, Moves, Watch,
         \A u \in Users : Ghost(u)' <=> userState'[u] = "online" /\ \A c \in Conns : ~Present(c, u)'
  PROVE  OrphansExact'
<1>1. ASSUME NEW u \in Users, userState'[u] = "online"
      PROVE  u \in orphans' <=> \A c \in Conns : ~Present(c, u)'
  <2>1. u \in orphans' <=> u \in orphans \/ ((\E s \in Servers : Dies(s)) /\ Ghost(u)')
    BY <1>1 DEF Watch
  <2>2. Comes(u) /\ Goes(u) /\ Enters(u)
    BY DEF Moves
  <2>3. CASE u \in orphans
    BY <2>1, <2>2, <2>3 DEF OrphansExact, Comes
  <2>4. CASE u \notin orphans /\ \E s \in Servers : Dies(s)
    BY <1>1, <2>1, <2>4
  <2>5. CASE u \notin orphans /\ ~\E s \in Servers : Dies(s)
    <3>1. \E c \in Conns : Present(c, u)'
      <4>1. CASE userState[u] = "online"
        <5>1. PICK c \in Conns : Present(c, u)
          BY <2>5, <4>1 DEF OrphansExact
        <5>2. QED  BY <1>1, <2>2, <2>5, <5>1 DEF Goes
      <4>2. CASE userState[u] # "online"
        BY <1>1, <2>2, <4>2 DEF Enters
      <4>3. QED  BY <4>1, <4>2
    <3>2. QED  BY <2>1, <2>5, <3>1
  <2>6. QED  BY <2>3, <2>4, <2>5
<1>2. \A u \in orphans' : u \in Users /\ userState'[u] = "online"
  BY DEF Watch
<1>3. QED  BY <1>1, <1>2 DEF OrphansExact

LEMMA OrphansNext ==
  ASSUME Orderly, Linked, IInv, IInv', PresenceInv, PresenceInv', Records, Records',
         OrphansExact, [Next /\ Watch]_watchVars
  PROVE  OrphansExact'
<1>1. CASE Next /\ Watch
  <2>1. Moves
    BY <1>1, NextMoves
  <2>2. (\A u \in Users : Ghost(u) <=> userState[u] = "online" /\ \A c \in Conns : ~Present(c, u))'
    <3>1. (IInv /\ OnePresent /\ MapComplete)'
      BY DEF PresenceInv, Records
    <3>2. QED  BY <3>1, GhostIs, PTL
  <2>3. QED  BY <1>1, <2>1, <2>2, OrphansStep
<1>2. CASE UNCHANGED watchVars
  BY <1>2 DEF watchVars, vars, netVars, dbVars, OrphansExact, Present
<1>3. QED  BY <1>1, <1>2

-----------------------------------------------------------------------------
(*                      the records agree                                  *)

(* Of a user nobody brings in or takes out, all say whose client is logged  *)
(* in as that user.                                                         *)
LEMMA Agreed ==
  ASSUME IInv, Records, NEW u \in Users, ~InTransit(u)
  PROVE  /\ \A c \in Conns : Present(c, u) <=> who[c] = u
         /\ \A s \in Servers : s \in Session(u) <=> \E c \in Conns : Home[c] = s /\ who[c] = u
         /\ \A s \in Servers : u \in Subscribed(s) <=> s \in Session(u)
<1>1. ASSUME NEW c \in Conns
      PROVE  /\ Carries(c, u) <=> who[c] = u
             /\ Subscriber(c, u) <=> who[c] = u
             /\ Present(c, u) <=> who[c] = u
  <2>1. h[c].user = u => h[c].pc \notin LoginPcs \cup LogoutPcs \cup ClosePcs
    BY DEF InTransit
  <2>2. QED
    BY <2>1 DEF Carries, EnteredPcs, Subscriber, Present, LoginPcs, LogoutPcs, ClosePcs
<1>2. ASSUME NEW s \in Servers
      PROVE  s \in Session(u) <=> \E c \in Conns : Home[c] = s /\ who[c] = u
  <2>1. ASSUME s \in Session(u) PROVE \E c \in Conns : Home[c] = s /\ who[c] = u
    <3>1. PICK c \in Conns : userConnMap[s][u] = c
      BY <2>1 DEF Session, IInv, TypeOK
    <3>2. Home[c] = s /\ Carries(c, u)
      BY <2>1, <3>1, MapUse DEF Session
    <3>3. QED  BY <1>1, <3>2
  <2>2. ASSUME NEW c \in Conns, Home[c] = s, who[c] = u PROVE s \in Session(u)
    <3>1. userConnMap[s][u] = c
      BY <1>1, <2>2 DEF Records, MapComplete, Entry
    <3>2. QED  BY <3>1, ServiceOK DEF Session
  <2>3. QED  BY <2>1, <2>2
<1>3. \A s \in Servers : u \in Subscribed(s) <=> s \in Session(u)
  BY <1>1, <1>2 DEF Records, ChannelsSound
<1>4. QED  BY <1>1, <1>2, <1>3

LEMMA CoherentState == IInv /\ OnePresent /\ Records /\ OrphansExact => Coherent
<1> SUFFICES ASSUME IInv, OnePresent, Records, OrphansExact, NEW u \in Users, ~InTransit(u)
             PROVE  /\ Cardinality(Session(u)) =
                         IF userState[u] = "online" /\ u \notin orphans THEN 1 ELSE 0
                    /\ \A s \in Servers : u \in Subscribed(s) <=> s \in Session(u)
  BY DEF Coherent
<1>1. \A c \in Conns : Present(c, u) <=> who[c] = u
  BY Agreed
<1>2. \A s \in Servers : s \in Session(u) <=> \E c \in Conns : Home[c] = s /\ who[c] = u
  BY Agreed
<1>3. \A s \in Servers : u \in Subscribed(s) <=> s \in Session(u)
  BY Agreed
<1>4. CASE userState[u] = "online" /\ u \notin orphans
  <2>1. PICK c \in Conns : who[c] = u
    BY <1>1, <1>4 DEF OrphansExact
  <2>2. \A d \in Conns : who[d] = u => d = c
    BY <2>1 DEF OnePresent, Active, Present
  <2>3. Session(u) = {Home[c]}
    BY <1>2, <2>1, <2>2, ServiceOK DEF Session
  <2>4. Cardinality({Home[c]}) = 1
    BY FS_Singleton
  <2>5. QED  BY <1>3, <1>4, <2>3, <2>4
<1>5. CASE ~(userState[u] = "online" /\ u \notin orphans)
  <2>1. \A c \in Conns : who[c] # u
    BY <1>1, <1>5 DEF OrphansExact, OnePresent
  <2>2. Session(u) = {}
    BY <1>2, <2>1 DEF Session
  <2>3. QED  BY <1>3, <1>5, <2>2, FS_EmptySet
<1>6. QED  BY <1>4, <1>5

LEMMA DeliveryIsSpec == DeliverySpec => Spec
<1>1. [Next /\ Watch]_watchVars => [Next]_vars
  BY DEF watchVars
<1>2. QED  BY <1>1, PTL DEF DeliverySpec, Spec

LEMMA OrphansInvariant ==
  ASSUME Orderly, Linked PROVE DeliverySpec => [](IInv /\ PresenceInv /\ Records /\ OrphansExact)
<1>1. DeliverySpec => [](IInv /\ PresenceInv /\ Records)
  BY DeliveryIsSpec, SessionsInvariant, PresenceInvariant, RecordsInvariant, PTL
<1>2. IInv /\ PresenceInv /\ Records /\ IInv' /\ PresenceInv' /\ Records'
        /\ OrphansExact /\ [Next /\ Watch]_watchVars => OrphansExact'
  BY OrphansNext
<1>3. DeliverySpec => []OrphansExact
  BY <1>1, <1>2, OrphansInit, PTL DEF DeliverySpec
<1>4. QED  BY <1>1, <1>3, PTL

(* The table, the maps of all servers and the channels of redis, which      *)
(* login, loginout and clientCloseException write one after the other,      *)
(* agree about every user nobody is bringing in or taking out, whichever    *)
(* clients vanish and servers are killed at any step; and only a server     *)
(* that died leaves a user online in the table with neither of the others.  *)
THEOREM CoherentCorrect == ASSUME Orderly, Linked PROVE DeliverySpec => []Coherent
<1>1. IInv /\ PresenceInv /\ Records /\ OrphansExact => Coherent
  BY CoherentState DEF PresenceInv
<1>2. QED  BY <1>1, OrphansInvariant, PTL
=============================================================================
