------------------------- MODULE ServiceRefinement -------------------------
(***************************************************************************)
(* How the servers, tables and connections of ChatCluster stand for the    *)
(* service of ChatService.                                                 *)
(***************************************************************************)
EXTENDS ChatCluster, Functions

(* The entry of u in the map of a server that has one. *)
SessionOf(u) ==
    LET bound == {s \in Servers : user_conn_map[s][u] # NoConn}
    IN  IF bound = {} THEN NoConn ELSE user_conn_map[CHOOSE s \in bound : TRUE][u]

(* The rows of u, and those a login of u has read and not answered with yet. *)
MailOf(u) ==
    Range(offline_message[u])
      \cup UNION {Range(loop[s].rows) : s \in {t \in Servers : loop[t].user = u}}

Service == INSTANCE ChatService WITH
    session <- [u \in Users |-> SessionOf(u)],
    to <- msg_to,
    mail <- [u \in Users |-> MailOf(u)],
    given <- [c \in Conns |-> {m \in Msgs : Delivered(c, m)}]

(* The handlers of one server implement the service: whatever the order of    *)
(* logins, logouts, chats and lost connections, HandlerLogin's two reads of   *)
(* the tables, the map and the answer look like one session that begins and   *)
(* is given its mail, and HandlerDirectChat reaches the addressee's session   *)
(* or its mailbox.                                                            *)
ImplementsService == Service!Spec
=============================================================================
