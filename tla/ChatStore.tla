----------------------------- MODULE ChatStore -----------------------------
(***************************************************************************)
(* The MySQL tables every chat server of the cluster shares, seen through  *)
(* the DAO classes: the state column of table user (UserDAO) and table     *)
(* offline_message (OfflineMessageDAO).                                    *)
(*                                                                         *)
(* Every DAO call opens its own MySQLConn and runs one statement, so a     *)
(* call is one atomic step and nothing spans two calls.  A call whose      *)
(* Connect() or mysql_query() fails does nothing; the callers ignore the   *)
(* failure, so what they see is the default value built by the DAO.  At    *)
(* most MaxDbFaults calls fail in a behaviour.                             *)
(*                                                                         *)
(* The other columns of a row carry no control.                            *)
(***************************************************************************)
EXTENDS ChatTypes

CONSTANT MaxDbFaults   \* bound on failing DAO calls

ASSUME MaxDbFaultsAssumption == MaxDbFaults \in Nat

VARIABLES
    user_state,       \* user_state[u]: column state of user u
    offline_message,  \* offline_message[u]: the rows of user u
    db_faults         \* number of DAO calls that failed so far

storeVars == <<user_state, offline_message, db_faults>>

UserStates == {"online", "offline"}

StoreTypeOK ==
    /\ user_state \in [Users -> UserStates]
    /\ offline_message \in [Users -> Seq(Msgs)]
    /\ db_faults \in Nat

StoreInit ==
    /\ user_state = [u \in Users |-> "offline"]
    /\ offline_message = [u \in Users |-> <<>>]
    /\ db_faults = 0

-----------------------------------------------------------------------------
(* MySQLConn: a statement that does not run. *)
DbFault ==
    /\ db_faults < MaxDbFaults
    /\ db_faults' = db_faults + 1
    /\ UNCHANGED <<user_state, offline_message>>

(* The UserEntity UserDAO::Query returns: the row, or UserEntity(), whose id  *)
(* is -1 (not found) and whose state is the default "offline".               *)
QueryResults == [found : BOOLEAN, state : UserStates]

Query(u, res) ==
    \/ /\ res = [found |-> TRUE, state |-> user_state[u]]
       /\ UNCHANGED storeVars
    \/ /\ res = [found |-> FALSE, state |-> "offline"]
       /\ DbFault

UpdateState(u, state) ==
    /\ user_state' = [user_state EXCEPT ![u] = state]
    /\ UNCHANGED <<offline_message, db_faults>>

(* update user set state = 'offline' where state = 'online': every user of    *)
(* the cluster, whichever server holds its connection.                       *)
ResetState ==
    /\ user_state' = [u \in Users |-> "offline"]
    /\ UNCHANGED <<offline_message, db_faults>>

StoreOfflineMessage(u, m) ==
    \/ /\ offline_message' = [offline_message EXCEPT ![u] = Append(@, m)]
       /\ UNCHANGED <<user_state, db_faults>>
    \/ DbFault

(* The rows read, or the empty vector when the statement fails. *)
QueryOfflineMessages(u, rows) ==
    \/ /\ rows = offline_message[u]
       /\ UNCHANGED storeVars
    \/ /\ rows = <<>>
       /\ DbFault

DeleteOfflineMessageByUserId(u) ==
    \/ /\ offline_message' = [offline_message EXCEPT ![u] = <<>>]
       /\ UNCHANGED <<user_state, db_faults>>
    \/ DbFault
=============================================================================
