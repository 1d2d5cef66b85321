------------------------------- MODULE ChatDB -------------------------------
(***************************************************************************)
(* The MySQL tables the message paths read and write, through the model    *)
(* classes UserModel and OfflineMsgModel: column state of table user, and  *)
(* table offlinemessage.  Every method sends one SQL statement, which is   *)
(* one atomic step of the database.                                        *)
(*                                                                         *)
(* A method that gets no connection from the pool, or whose statement      *)
(* fails, returns as if nothing happened ("db" in Faults): an update has   *)
(* no effect, a query returns a default User or an empty vector.           *)
(***************************************************************************)
EXTENDS ChatSystem, Naturals

VARIABLES userState,      \* user -> the state column of its row
          offlineMessage  \* user -> message -> number of rows

dbVars == <<userState, offlineMessage>>

NoRows == [m \in Msgs |-> 0]

DbTypeOK ==
  /\ userState \in [Users -> {"online", "offline"}]
  /\ offlineMessage \in [Users -> [Msgs -> Nat]]

DbFault == "db" \in Faults

-----------------------------------------------------------------------------
(* UserModel::update, of which the callers use the state column only. *)
UpdateState(u, st) ==
  /\ \/ userState' = [userState EXCEPT ![u] = st]
     \/ DbFault /\ UNCHANGED userState
  /\ UNCHANGED offlineMessage

(* UserModel::query and the test of the state column that follows it.  For *)
(* an id that has no row the code reads a null row: see NullRow.            *)
QueryOnline(u, online) ==
  \/ u \in Registered /\ online = (userState[u] = "online")
  \/ DbFault /\ ~online

(* UserModel::resetState: no where clause on the server a user is on. *)
ResetState ==
  /\ \/ userState' = [u \in Users |-> "offline"]
     \/ DbFault /\ UNCHANGED userState
  /\ UNCHANGED offlineMessage

(* OfflineMsgModel::insert *)
StoreOffline(u, m) ==
  /\ \/ offlineMessage' = [offlineMessage EXCEPT ![u][m] = @ + 1]
     \/ DbFault /\ UNCHANGED offlineMessage
  /\ UNCHANGED userState

(* OfflineMsgModel::query *)
QueryOffline(u, rows) ==
  \/ rows = offlineMessage[u]
  \/ DbFault /\ rows = NoRows

(* OfflineMsgModel::remove: every row of the user, read or not. *)
RemoveOffline(u) ==
  /\ \/ offlineMessage' = [offlineMessage EXCEPT ![u] = NoRows]
     \/ DbFault /\ UNCHANGED offlineMessage
  /\ UNCHANGED userState
=============================================================================
