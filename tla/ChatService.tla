---------------------------- MODULE ChatService ----------------------------
(***************************************************************************)
(* What the chat service promises, without threads, tables or sockets: a   *)
(* user has at most one session, on one connection; a message is given to  *)
(* the session of its addressee, or kept until there is one; what was kept *)
(* is given before anything newer, and before the session can end.         *)
(***************************************************************************)
CONSTANTS Users, Conns, Msgs, NoUser, NoConn

VARIABLES
    session,   \* session[u]: the connection of u's session, or NoConn
    to,        \* to[m]: the addressee of m, or NoUser while it is not sent
    mail,      \* mail[u]: messages kept for u
    given      \* given[c]: messages handed to connection c

vars == <<session, to, mail, given>>

Init ==
    /\ session = [u \in Users |-> NoConn]
    /\ to = [m \in Msgs |-> NoUser]
    /\ mail = [u \in Users |-> {}]
    /\ given = [c \in Conns |-> {}]

(* Message m was sent, and nobody has it yet. *)
OnTheWay(m) ==
    /\ to[m] # NoUser
    /\ \A u \in Users : m \notin mail[u]
    /\ \A c \in Conns : m \notin given[c]

Begin(u, c) ==
    /\ session[u] = NoConn
    /\ session' = [session EXCEPT ![u] = c]
    /\ UNCHANGED <<to, mail, given>>

GiveMail(u) ==
    /\ session[u] # NoConn
    /\ given' = [given EXCEPT ![session[u]] = @ \cup mail[u]]
    /\ mail' = [mail EXCEPT ![u] = {}]
    /\ UNCHANGED <<session, to>>

End(u) ==
    /\ session[u] # NoConn /\ mail[u] = {}
    /\ session' = [session EXCEPT ![u] = NoConn]
    /\ UNCHANGED <<to, mail, given>>

Send(m, u) ==
    /\ to[m] = NoUser
    /\ to' = [to EXCEPT ![m] = u]
    /\ UNCHANGED <<session, mail, given>>

Give(m) ==
    /\ OnTheWay(m)
    /\ session[to[m]] # NoConn /\ mail[to[m]] = {}
    /\ given' = [given EXCEPT ![session[to[m]]] = @ \cup {m}]
    /\ UNCHANGED <<session, to, mail>>

Keep(m) ==
    /\ OnTheWay(m)
    /\ session[to[m]] = NoConn
    /\ mail' = [mail EXCEPT ![to[m]] = @ \cup {m}]
    /\ UNCHANGED <<session, to, given>>

Next ==
    \/ \E u \in Users : GiveMail(u) \/ End(u) \/ \E c \in Conns : Begin(u, c)
    \/ \E m \in Msgs : Give(m) \/ Keep(m) \/ \E u \in Users : Send(m, u)

Spec == Init /\ [][Next]_vars
=============================================================================
