----------------------------- MODULE ChatTypes -----------------------------
(***************************************************************************)
(* The identities the chat cluster is made of.  A chat message is a value: *)
(* its text, sender and time carry no control in the servers.              *)
(***************************************************************************)
EXTENDS Naturals, Sequences

CONSTANTS
    Servers,   \* chat server processes
    Users,     \* ids of registered accounts (rows of table user)
    Conns,     \* TCP connections, one client program behind each
    Msgs,      \* chat messages
    NoUser,    \* the id -1 of a default UserEntity
    NoConn,    \* "no entry" of user_conn_map_
    NoMsg      \* "no message"

ASSUME SentinelAssumption ==
    /\ NoUser \notin Users
    /\ NoConn \notin Conns
    /\ NoMsg \notin Msgs
=============================================================================
