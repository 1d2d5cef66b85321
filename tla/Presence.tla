------------------------------ MODULE Presence ------------------------------
(***************************************************************************)
(* What login, loginout and clientCloseException promise together, without *)
(* connections, tables and channels: a user is on at most one server, gets *)
(* on one only when on none, and leaves alone unless the server crashes.   *)
(***************************************************************************)
CONSTANTS Servers, Users, Nowhere

VARIABLE at     \* user -> the server the user is on, or Nowhere

PresenceInit == at \in [Users -> Servers \cup {Nowhere}]

Enter(u, s) == at[u] = Nowhere /\ at' = [at EXCEPT ![u] = s]

Leave(u) == at[u] # Nowhere /\ at' = [at EXCEPT ![u] = Nowhere]

Crash(s) == at' = [u \in Users |-> IF at[u] = s THEN Nowhere ELSE at[u]]

PresenceNext == \/ \E u \in Users, s \in Servers : Enter(u, s)
                \/ \E u \in Users : Leave(u)
                \/ \E s \in Servers : Crash(s)

PresenceSpec == PresenceInit /\ [][PresenceNext]_at
=============================================================================
