------------------------ MODULE ChatDeliveryProofs ------------------------
(***************************************************************************)
(* Proofs about what reaches a client: the two threads of a server hand    *)
(* connections to each other through user_conn_map_ and the functor queue, *)
(* and neither writes to a connection that is destroyed, nor before the    *)
(* client was told that it is logged in.                                   *)
(***************************************************************************)
EXTENDS ChatClusterProofs

USE DEF storeVars, busVars, sessionVars, clientVars, faultVars

-----------------------------------------------------------------------------
(* The order of a connection's last functors.  A send that the observer       *)
(* queued is safe because no destroy is ahead of it; it was queued under      *)
(* conn_mtx_, which the loop holds while it takes a connection down, so the   *)
(* destroy comes behind.                                                      *)

Sends(s) == {i \in DOMAIN functors[s] : functors[s][i].kind = "send"}
Destroys(s) == {i \in DOMAIN functors[s] : functors[s][i].kind = "destroy"}

(* A connection is served by one process, which alone refers to it. *)
Home(s) ==
    /\ loop[s].pc \in LoginPcs \cup ClosePcs => conn[loop[s].conn].server = s
    /\ \A u \in Users :
          user_conn_map[s][u] # NoConn => conn[user_conn_map[s][u]].server = s
    /\ observer[s].pc = "queue" => conn[observer[s].conn].server = s
    /\ \A i \in DOMAIN functors[s] : conn[functors[s][i].conn].server = s

(* Between the two critical sections of a connection its state is known: a    *)
(* login is answered on an open one, and only a closed one is destroyed.      *)
Stages(s) ==
    /\ loop[s].pc \in LoginPcs => conn[loop[s].conn].state = "connected"
    /\ loop[s].pc \in ClosePcs => conn[loop[s].conn].state \notin {"none", "connected"}
    /\ \A i \in Destroys(s) : conn[functors[s][i].conn].state \notin {"none", "connected"}

Locked(s) ==
    /\ loop[s].pc \in {"close_unsubscribe", "close_offline"} => conn_mtx[s] = "loop"
    /\ observer[s].pc = "queue" => conn_mtx[s] = "observer"

(* The connection the observer is about to send to. *)
QueueLive(s) ==
    observer[s].pc = "queue" =>
        /\ conn[observer[s].conn].state # "destroyed"
        /\ \A i \in Destroys(s) : functors[s][i].conn # observer[s].conn

SendLive(s) ==
    \A i \in Sends(s) :
        /\ conn[functors[s][i].conn].state # "destroyed"
        /\ \A j \in Destroys(s) : functors[s][j].conn = functors[s][i].conn => j > i

Orderly(s) == Home(s) /\ Stages(s) /\ Locked(s) /\ QueueLive(s) /\ SendLive(s)

Unconnected == \A c \in Conns : client[c].menu = "none" => conn[c].state = "none"

LifeInv == Unconnected /\ \A s \in Servers : Orderly(s)

(* Nothing of what server s holds changes, and of its connections at most a   *)
(* new one is established.                                                    *)
LEMMA OrderlyFrame ==
  ASSUME TypeInv, NEW s \in Servers, Orderly(s),
         loop'[s] = loop[s], observer'[s] = observer[s], conn_mtx'[s] = conn_mtx[s],
         user_conn_map'[s] = user_conn_map[s], functors'[s] = functors[s],
         \A c \in Conns :
            /\ conn'[c].server = conn[c].server
            /\ \/ conn'[c].state = conn[c].state
               \/ conn[c].state = "none" /\ conn'[c].state = "connected"
               \/ conn[c].server # s
  PROVE  Orderly(s)'
<1>f. \A i \in DOMAIN functors[s] : functors[s][i].conn \in Conns
  BY DEF TypeInv, TypeOK, Functors
<1>m. \A u \in Users : user_conn_map[s][u] \in Conns \cup {NoConn}
  BY DEF TypeInv, TypeOK
<1>l. loop[s].pc \in LoginPcs \cup ClosePcs => loop[s].conn \in Conns
  BY DEF TypeInv, LoopLocals
<1>o. observer[s].pc = "queue" => observer[s].conn \in Conns
  BY DEF TypeInv, ObserverLocals
<1>1. Home(s)'
  BY <1>f, <1>m, <1>l, <1>o DEF Orderly, Home
<1>2. Stages(s)'
  BY <1>f, <1>l DEF Orderly, Home, Stages, Destroys
<1>3. Locked(s)'
  BY DEF Orderly, Locked
<1>4. QueueLive(s)'
  BY <1>o DEF Orderly, Home, QueueLive, Destroys
<1>5. SendLive(s)'
  BY <1>f DEF Orderly, Home, SendLive, Sends, Destroys
<1> QED BY <1>1, <1>2, <1>3, <1>4, <1>5 DEF Orderly

(* The loop thread goes on, and touches nothing that a connection's life      *)
(* depends on.                                                                *)
LEMMA OrderlyLoopOnly ==
  ASSUME NEW s \in Servers, Orderly(s),
         UNCHANGED <<conn, observer, conn_mtx, functors>>,
         \A u \in Users : user_conn_map'[s][u] \in {user_conn_map[s][u], NoConn},
         \/ loop'[s].pc \notin LoginPcs \cup ClosePcs
         \/ /\ loop'[s].conn = loop[s].conn
            /\ \/ {loop[s].pc, loop'[s].pc} \subseteq LoginPcs
               \/ loop[s].pc = "close_unsubscribe" /\ loop'[s].pc = "close_offline"
  PROVE  Orderly(s)'
<1>p. ClosePcs \cap LoginPcs = {} /\ {"close_unsubscribe", "close_offline"} \subseteq ClosePcs
  BY DEF ClosePcs, LoginPcs
<1>1. Home(s)'
  BY <1>p DEF Orderly, Home
<1>2. Stages(s)'
  BY <1>p DEF Orderly, Stages, Destroys
<1>3. Locked(s)'
  BY <1>p DEF Orderly, Locked
<1>4. QueueLive(s)' /\ SendLive(s)'
  BY DEF Orderly, QueueLive, SendLive, Sends, Destroys
<1> QED BY <1>1, <1>2, <1>3, <1>4 DEF Orderly

LEMMA OrderlyServe ==
  ASSUME TypeInv, NEW s \in Servers, NEW c \in Conns, ServeConn(s, c), Orderly(s)
  PROVE  Orderly(s)'
<1>l. loop \in [Servers -> LoopStates]
  BY DEF TypeInv, TypeOK
<1>m. user_conn_map \in [Servers -> [Users -> Conns \cup {NoConn}]]
  BY DEF TypeInv, TypeOK
<1>p. /\ {"login_insert", "logout_unsubscribe", "chat_query", "close_lock"} \subseteq LoopPcs
      /\ {"poll", "logout_unsubscribe", "chat_query"} \cap (LoginPcs \cup ClosePcs) = {}
  BY DEF LoopPcs, LoginPcs, ClosePcs
<1>1. ASSUME NEW u \in Users, NEW pwd \in Passwords, HandlerLogin(s, c, u, pwd)
      PROVE  Orderly(s)'
  <2>1. /\ UNCHANGED <<conn, user_conn_map, conn_mtx, observer, functors>>
        /\ loop[s].pc = "poll" /\ conn[c].server = s /\ conn[c].state = "connected"
    BY <1>1 DEF HandlerLogin, OnMessage, LoopAt
  <2>2. CASE UNCHANGED loop
    BY <2>1, <2>2, <1>p, OrderlyLoopOnly
  <2>3. CASE Enter(s, "login_insert", c, u, NoMsg)
    <3>1. loop'[s].pc = "login_insert" /\ loop'[s].conn = c
      BY <2>3, <1>l, <1>p, EnterEffect
    <3>2. Home(s)' /\ Stages(s)' /\ Locked(s)'
      BY <2>1, <3>1 DEF Orderly, Home, Stages, Locked, Destroys, ClosePcs
    <3>3. QueueLive(s)' /\ SendLive(s)'
      BY <2>1 DEF Orderly, QueueLive, SendLive, Sends, Destroys
    <3> QED BY <3>2, <3>3 DEF Orderly
  <2> QED BY <1>1, <2>2, <2>3 DEF HandlerLogin
<1>2. ASSUME NEW u \in Users, HandlerLogout(s, c, u)
      PROVE  Orderly(s)'
  <2>1. loop'[s].pc = "logout_unsubscribe"
    <3>1. Enter(s, "logout_unsubscribe", NoConn, u, NoMsg)
      BY <1>2 DEF HandlerLogout
    <3> QED BY <3>1, <1>l, <1>p, EnterEffect
  <2>2. \A v \in Users : user_conn_map'[s][v] \in {user_conn_map[s][v], NoConn}
    BY <1>2, <1>m DEF HandlerLogout
  <2> QED BY <1>2, <2>1, <2>2, <1>p, OrderlyLoopOnly DEF HandlerLogout
<1>3. ASSUME NEW u \in Users, NEW m \in Msgs, HandlerDirectChat(s, c, u, m)
      PROVE  Orderly(s)'
  <2>1. UNCHANGED loop \/ Enter(s, "chat_query", NoConn, u, m)
    BY <1>3 DEF HandlerDirectChat
  <2>2. loop[s].pc = "poll"
    BY <1>3 DEF HandlerDirectChat, OnMessage, LoopAt
  <2>3. CASE UNCHANGED loop
    BY <1>3, <2>2, <2>3, <1>p, OrderlyLoopOnly DEF HandlerDirectChat
  <2>4. CASE Enter(s, "chat_query", NoConn, u, m)
    <3>1. loop'[s].pc = "chat_query"
      BY <2>4, <1>l, <1>p, EnterEffect
    <3> QED BY <1>3, <3>1, <1>p, OrderlyLoopOnly DEF HandlerDirectChat
  <2> QED BY <2>1, <2>3, <2>4
<1>4. CASE HandleClose(s, c)
  <2>1. /\ UNCHANGED <<user_conn_map, conn_mtx, observer, functors>>
        /\ conn[c].server = s /\ conn[c].state = "connected"
        /\ conn' = [conn EXCEPT ![c].state = "disconnected"]
    BY <1>4 DEF HandleClose
  <2>2. loop'[s].pc = "close_lock" /\ loop'[s].conn = c
    <3>1. Enter(s, "close_lock", c, NoUser, NoMsg)
      BY <1>4 DEF HandleClose
    <3> QED BY <3>1, <1>l, <1>p, EnterEffect
  <2>3. /\ conn'[c].state = "disconnected" /\ \A d \in Conns : conn'[d].server = conn[d].server
        /\ \A d \in Conns : d # c => conn'[d] = conn[d]
    BY <2>1 DEF TypeInv, TypeOK, ConnStates
  <2>f. \A i \in DOMAIN functors[s] : functors[s][i].conn \in Conns
    BY DEF TypeInv, TypeOK, Functors
  <2>u. \A u \in Users : user_conn_map[s][u] \in Conns \cup {NoConn}
    BY <1>m
  <2>o. observer[s].pc = "queue" => observer[s].conn \in Conns
    BY DEF TypeInv, ObserverLocals
  <2>4. Home(s)'
    BY <2>1, <2>2, <2>3, <2>f, <2>u, <2>o DEF Orderly, Home
  <2>5. Stages(s)' /\ Locked(s)'
    BY <2>1, <2>2, <2>3, <2>f DEF Orderly, Stages, Locked, Destroys, LoginPcs
  <2>6. QueueLive(s)'
    BY <2>1, <2>3, <2>o DEF Orderly, QueueLive, Destroys
  <2>7. SendLive(s)'
    BY <2>1, <2>3, <2>f DEF Orderly, SendLive, Sends, Destroys
  <2> QED BY <2>4, <2>5, <2>6, <2>7 DEF Orderly
<1> QED BY <1>1, <1>2, <1>3, <1>4 DEF ServeConn

(* A functor is queued. *)
LEMMA QueuedFunctor ==
  ASSUME TypeInv, NEW s \in Servers, NEW f,
         functors' = [functors EXCEPT ![s] = Append(@, f)]
  PROVE  LET n == Len(functors[s]) + 1
         IN  /\ DOMAIN functors'[s] = DOMAIN functors[s] \cup {n}
             /\ functors'[s][n] = f
             /\ \A i \in DOMAIN functors[s] : n > i /\ functors'[s][i] = functors[s][i]
             /\ Sends(s)' = Sends(s) \cup (IF f.kind = "send" THEN {n} ELSE {})
             /\ Destroys(s)' = Destroys(s) \cup (IF f.kind = "destroy" THEN {n} ELSE {})
<1> DEFINE n == Len(functors[s]) + 1
<1>1. functors[s] \in Seq(Functors) /\ functors'[s] = Append(functors[s], f)
  BY DEF TypeInv, TypeOK
<1>2. /\ DOMAIN functors[s] = 1..Len(functors[s]) /\ Len(functors[s]) \in Nat
      /\ DOMAIN functors'[s] = 1..n /\ functors'[s][n] = f
      /\ \A i \in DOMAIN functors[s] : functors'[s][i] = functors[s][i]
  BY <1>1
<1>3. /\ DOMAIN functors'[s] = DOMAIN functors[s] \cup {n}
      /\ \A i \in DOMAIN functors[s] : n > i
  BY <1>2
<1> QED BY <1>2, <1>3 DEF Sends, Destroys

LEMMA TailFacts ==
  ASSUME NEW S, NEW q \in Seq(S), q # <<>>
  PROVE  /\ DOMAIN q = 1..Len(q) /\ Len(q) \in Nat /\ q[1] = Head(q) /\ Head(q) \in S
         /\ DOMAIN Tail(q) = 1..(Len(q) - 1)
         /\ \A i \in DOMAIN Tail(q) : Tail(q)[i] = q[i + 1]
  OBVIOUS

(* The first functor is taken. *)
LEMMA TakenFunctor ==
  ASSUME TypeInv, NEW s \in Servers, functors[s] # <<>>,
         functors' = [functors EXCEPT ![s] = Tail(@)]
  PROVE  /\ 1 \in DOMAIN functors[s] /\ functors[s][1] = Head(functors[s])
         /\ Head(functors[s]) \in Functors
         /\ \A i \in DOMAIN functors'[s] :
               i \in Nat /\ i + 1 \in DOMAIN functors[s] /\ functors'[s][i] = functors[s][i + 1]
         /\ \A i \in Sends(s)' :
               i \in Nat /\ i + 1 \in Sends(s) /\ functors'[s][i] = functors[s][i + 1]
         /\ \A i \in Destroys(s)' :
               i \in Nat /\ i + 1 \in Destroys(s) /\ functors'[s][i] = functors[s][i + 1]
<1> DEFINE q == functors[s]
           t == functors'[s]
<1>1. q \in Seq(Functors) /\ q # <<>> /\ Len(q) \in Nat /\ Len(q) >= 1
  BY DEF TypeInv, TypeOK
<1>2. t = Tail(q)
  BY DEF TypeInv, TypeOK
<1> HIDE DEF q, t
<1>3. /\ DOMAIN q = 1..Len(q) /\ q[1] = Head(q) /\ Head(q) \in Functors
      /\ DOMAIN t = 1..(Len(q) - 1) /\ \A i \in DOMAIN t : t[i] = q[i + 1]
  BY <1>1, <1>2, TailFacts
<1>4. 1 \in DOMAIN q /\ \A i \in DOMAIN t : i \in Nat /\ i + 1 \in DOMAIN q
  BY <1>1, <1>3
<1>5. /\ \A i \in DOMAIN t : t[i].kind = "send" => q[i + 1].kind = "send"
      /\ \A i \in DOMAIN t : t[i].kind = "destroy" => q[i + 1].kind = "destroy"
  BY <1>3
<1> QED BY <1>3, <1>4, <1>5 DEF Sends, Destroys, q, t

LEMMA OrderlyLoop ==
  ASSUME TypeInv, NEW s \in Servers, LoopStep(s), Orderly(s)
  PROVE  Orderly(s)'
<1>l. loop \in [Servers -> LoopStates] /\ LoopLocals(s)
  BY DEF TypeInv, TypeOK
<1>m. user_conn_map \in [Servers -> [Users -> Conns \cup {NoConn}]]
  BY DEF TypeInv, TypeOK
<1>x. conn_mtx \in [Servers -> {"free", "loop", "observer"}]
  BY DEF TypeInv, TypeOK
<1>f. \A i \in DOMAIN functors[s] : functors[s][i].conn \in Conns
  BY DEF TypeInv, TypeOK, Functors
<1>o. observer[s].pc = "queue" => observer[s].conn \in Conns
  BY DEF TypeInv, ObserverLocals
<1>p. {"login_subscribe", "login_online", "login_query", "login_delete", "login_ack",
       "logout_offline", "chat_publish", "chat_store", "close_unsubscribe", "close_offline",
       "functors"} \subseteq LoopPcs
  BY DEF LoopPcs
<1>a. ASSUME BackToPoll(s), UNCHANGED <<conn, observer, conn_mtx, functors, user_conn_map>>
      PROVE  Orderly(s)'
  <2>1. loop'[s].pc \notin LoginPcs \cup ClosePcs
    BY <1>a, <1>l, PollEffect DEF LoginPcs, ClosePcs
  <2> QED BY <1>a, <2>1, OrderlyLoopOnly
<1>g. ASSUME NEW pc \in LoopPcs, Goto(s, pc),
             UNCHANGED <<conn, observer, conn_mtx, functors, user_conn_map>>,
             \/ pc \notin LoginPcs \cup ClosePcs
             \/ {loop[s].pc, pc} \subseteq LoginPcs
             \/ loop[s].pc = "close_unsubscribe" /\ pc = "close_offline"
      PROVE  Orderly(s)'
  <2>1. loop'[s].pc = pc /\ loop'[s].conn = loop[s].conn
    BY <1>g, <1>l, GotoEffect
  <2> QED BY <1>g, <2>1, OrderlyLoopOnly
<1>1. CASE LoginInsert(s)
  <2>1. /\ loop[s].pc = "login_insert" /\ loop[s].user \in Users /\ loop[s].conn \in Conns
        /\ UNCHANGED <<conn, observer, conn_mtx, functors>>
    BY <1>1, <1>l DEF LoginInsert, LoopAt, LoopLocals, LoginPcs
  <2>2. loop'[s].pc = "login_subscribe" /\ loop'[s].conn = loop[s].conn
    BY <1>1, <1>l, <1>p, GotoEffect DEF LoginInsert
  <2>3. \A u \in Users : user_conn_map'[s][u] \in {user_conn_map[s][u], loop[s].conn}
    BY <1>1, <1>m, <2>1 DEF LoginInsert
  <2>4. /\ conn[loop[s].conn].server = s /\ conn[loop[s].conn].state = "connected"
    BY <2>1 DEF Orderly, Home, Stages, LoginPcs
  <2>5. Home(s)'
    BY <2>1, <2>2, <2>3, <2>4 DEF Orderly, Home
  <2>6. Stages(s)' /\ Locked(s)'
    BY <2>1, <2>2, <2>4 DEF Orderly, Stages, Locked, Destroys, ClosePcs
  <2>7. QueueLive(s)' /\ SendLive(s)'
    BY <2>1 DEF Orderly, QueueLive, SendLive, Sends, Destroys
  <2> QED BY <2>5, <2>6, <2>7 DEF Orderly
<1>2. CASE LoginSubscribe(s)
  BY <1>2, <1>g, <1>p DEF LoginSubscribe, LoopAt, LoginPcs
<1>3. CASE LoginOnline(s)
  BY <1>3, <1>g, <1>p DEF LoginOnline, LoopAt, LoginPcs
<1>4. CASE LoginQueryOffline(s)
  <2>1. PICK rows :
          loop' = [loop EXCEPT
                ![s].pc = IF rows = <<>> THEN "login_ack" ELSE "login_delete",
                ![s].rows = rows]
    BY <1>4 DEF LoginQueryOffline
  <2>2. loop'[s].pc \in {"login_ack", "login_delete"} /\ loop'[s].conn = loop[s].conn
    BY <2>1, <1>l DEF LoopStates
  <2> QED BY <1>4, <2>2, OrderlyLoopOnly DEF LoginQueryOffline, LoopAt, LoginPcs
<1>5. CASE LoginDeleteOffline(s)
  BY <1>5, <1>g, <1>p DEF LoginDeleteOffline, LoopAt, LoginPcs
<1>6. CASE LoginAck(s)
  BY <1>6, <1>a DEF LoginAck
<1>7. CASE LogoutUnsubscribe(s)
  BY <1>7, <1>g, <1>p DEF LogoutUnsubscribe, LoginPcs, ClosePcs
<1>8. CASE LogoutOffline(s)
  BY <1>8, <1>a DEF LogoutOffline
<1>9. CASE ChatQuery(s)
  <2>1. PICK pc \in {"chat_publish", "chat_store"} : Goto(s, pc)
    BY <1>9 DEF ChatQuery
  <2>2. pc \in LoopPcs /\ pc \notin LoginPcs \cup ClosePcs
    BY <1>p DEF LoginPcs, ClosePcs
  <2> QED BY <1>9, <2>1, <2>2, <1>g DEF ChatQuery
<1>10. CASE ChatPublish(s)
  BY <1>10, <1>a DEF ChatPublish
<1>11. CASE ChatStoreOffline(s)
  BY <1>11, <1>a DEF ChatStoreOffline
<1>12. CASE CloseErase(s)
  <2>1. /\ loop[s].pc = "close_lock" /\ conn_mtx[s] = "free" /\ conn_mtx'[s] = "loop"
        /\ UNCHANGED <<conn, observer, functors>>
    BY <1>12, <1>x DEF CloseErase, LoopAt
  <2>2. /\ loop'[s].pc = "close_unsubscribe" /\ loop'[s].conn = loop[s].conn
        /\ \A u \in Users : user_conn_map'[s][u] \in {user_conn_map[s][u], NoConn}
    <3>1. CASE Goto(s, "close_unsubscribe") /\ UNCHANGED user_conn_map
      BY <3>1, <1>l, <1>p, GotoEffect
    <3>2. ASSUME NEW u \in Users,
                 user_conn_map' = [user_conn_map EXCEPT ![s][u] = NoConn],
                 loop' = [loop EXCEPT ![s].pc = "close_unsubscribe", ![s].user = u]
          PROVE  <2>2!:
      BY <3>2, <1>l, <1>m DEF LoopStates
    <3> QED BY <1>12, <3>1, <3>2 DEF CloseErase
  <2>3. observer[s].pc # "queue"
    BY <2>1 DEF Orderly, Locked
  <2>4. Home(s)'
    BY <2>1, <2>2 DEF Orderly, Home, ClosePcs
  <2>5. Stages(s)' /\ Locked(s)'
    BY <2>1, <2>2, <2>3 DEF Orderly, Stages, Locked, Destroys, ClosePcs, LoginPcs
  <2>6. QueueLive(s)' /\ SendLive(s)'
    BY <2>1, <2>3 DEF Orderly, QueueLive, SendLive, Sends, Destroys
  <2> QED BY <2>4, <2>5, <2>6 DEF Orderly
<1>13. CASE CloseUnsubscribe(s)
  BY <1>13, <1>g, <1>p DEF CloseUnsubscribe, LoopAt
<1>14. CASE CloseOffline(s)
  <2> DEFINE f == [kind |-> "destroy", conn |-> loop[s].conn]
             n == Len(functors[s]) + 1
  <2>1. /\ loop[s].pc = "close_offline" /\ loop[s].conn \in Conns
        /\ UNCHANGED <<conn, observer, user_conn_map>>
        /\ functors' = [functors EXCEPT ![s] = Append(@, f)]
    BY <1>14, <1>l DEF CloseOffline, LoopAt, LoopLocals, ClosePcs
  <2>2. loop'[s].pc = "poll"
    BY <1>14, <1>l, PollEffect DEF CloseOffline
  <2>3. observer[s].pc # "queue"
    BY <2>1 DEF Orderly, Locked
  <2>4. conn[f.conn].server = s /\ conn[f.conn].state \notin {"none", "connected"}
    BY <2>1 DEF Orderly, Home, Stages, ClosePcs
  <2>5. /\ DOMAIN functors'[s] = DOMAIN functors[s] \cup {n} /\ functors'[s][n] = f
        /\ \A i \in DOMAIN functors[s] : n > i /\ functors'[s][i] = functors[s][i]
        /\ Sends(s)' = Sends(s) /\ Destroys(s)' = Destroys(s) \cup {n}
        /\ Sends(s) \cup Destroys(s) \subseteq DOMAIN functors[s]
    <3>1. f.kind = "destroy" /\ Sends(s) \cup Destroys(s) \subseteq DOMAIN functors[s]
      BY DEF Sends, Destroys
    <3>2. PICK g : g = f
      OBVIOUS
    <3>3. functors' = [functors EXCEPT ![s] = Append(@, g)] /\ g.kind = "destroy"
      BY <2>1, <3>1, <3>2
    <3>4. /\ DOMAIN functors'[s] = DOMAIN functors[s] \cup {n} /\ functors'[s][n] = g
          /\ \A i \in DOMAIN functors[s] : n > i /\ functors'[s][i] = functors[s][i]
          /\ Sends(s)' = Sends(s) \cup (IF g.kind = "send" THEN {n} ELSE {})
          /\ Destroys(s)' = Destroys(s) \cup (IF g.kind = "destroy" THEN {n} ELSE {})
      BY <3>3, QueuedFunctor
    <3> HIDE DEF n, f
    <3> QED BY <3>1, <3>2, <3>3, <3>4
  <2> HIDE DEF f, n
  <2>6. Home(s)'
    BY <2>1, <2>2, <2>3, <2>4, <2>5 DEF Orderly, Home, LoginPcs, ClosePcs
  <2>7. Stages(s)' /\ Locked(s)'
    BY <2>1, <2>2, <2>3, <2>4, <2>5 DEF Orderly, Stages, Locked, LoginPcs, ClosePcs
  <2>8. QueueLive(s)' /\ SendLive(s)'
    BY <2>1, <2>3, <2>5 DEF Orderly, QueueLive, SendLive
  <2> QED BY <2>6, <2>7, <2>8 DEF Orderly
<1>15. CASE DoPendingFunctors(s)
  BY <1>15, <1>g, <1>p DEF DoPendingFunctors, LoginPcs, ClosePcs
<1>16. CASE RunFunctor(s)
  <2> DEFINE f == Head(functors[s])
  <2>1. /\ UNCHANGED <<observer, conn_mtx, user_conn_map>>
        /\ functors' = [functors EXCEPT ![s] = Tail(@)]
    BY <1>16 DEF RunFunctor
  <2>2. functors[s] # <<>> /\ loop[s].pc = "functors"
    BY <1>16 DEF RunFunctor, LoopAt, TypeInv, TypeOK, DueFunctors
  <2>3. loop'[s].pc \in {"functors", "poll"}
    <3>1. UNCHANGED loop \/ BackToPoll(s)
      BY <1>16 DEF RunFunctor
    <3> QED BY <3>1, <2>2, <1>l, PollEffect
  <2>4. /\ 1 \in DOMAIN functors[s] /\ functors[s][1] = f /\ f \in Functors
        /\ \A i \in DOMAIN functors'[s] :
              i \in Nat /\ i + 1 \in DOMAIN functors[s] /\ functors'[s][i] = functors[s][i + 1]
        /\ \A i \in Sends(s)' :
              i \in Nat /\ i + 1 \in Sends(s) /\ functors'[s][i] = functors[s][i + 1]
        /\ \A i \in Destroys(s)' :
              i \in Nat /\ i + 1 \in Destroys(s) /\ functors'[s][i] = functors[s][i + 1]
    BY <2>1, <2>2, TakenFunctor
  <2>t. \A i \in Sends(s) \cup Destroys(s) : functors[s][i].conn \in Conns
    BY <1>f DEF Sends, Destroys
  <2>5. /\ \A c \in Conns : conn'[c].server = conn[c].server
        /\ \A c \in Conns : \/ conn'[c].state = conn[c].state
                            \/ /\ 1 \in Destroys(s) /\ c = f.conn
                               /\ conn'[c].state = "destroyed"
    <3>1. CASE UNCHANGED conn
      BY <3>1
    <3>2. CASE f.kind = "destroy" /\ conn' = [conn EXCEPT ![f.conn].state = "destroyed"]
      <4>1. 1 \in Destroys(s)
        BY <2>4, <3>2 DEF Destroys
      <4> QED BY <3>2, <4>1 DEF TypeInv, TypeOK, ConnStates
    <3> QED BY <1>16, <3>1, <3>2 DEF RunFunctor
  <2> HIDE DEF f
  <2>u. \A u \in Users : user_conn_map[s][u] \in Conns \cup {NoConn}
    BY <1>m
  <2>6. Home(s)'
    BY <2>1, <2>3, <2>4, <2>5, <2>u, <1>f, <1>o DEF Orderly, Home, LoginPcs, ClosePcs
  <2>7. Stages(s)'
    BY <2>3, <2>4, <2>5, <2>t DEF Orderly, Stages, LoginPcs, ClosePcs
  <2>8. Locked(s)'
    BY <2>1, <2>3 DEF Orderly, Locked
  <2>9. QueueLive(s)'
    BY <2>1, <2>4, <2>5, <1>o DEF Orderly, QueueLive
  <2>10. SendLive(s)'
    <3> SUFFICES ASSUME NEW i \in Sends(s)'
                 PROVE  /\ conn'[functors'[s][i].conn].state # "destroyed"
                        /\ \A j \in Destroys(s)' :
                              functors'[s][j].conn = functors'[s][i].conn => j > i
      BY DEF SendLive
    <3>1. i \in Nat /\ i + 1 \in Sends(s) /\ functors'[s][i] = functors[s][i + 1]
      BY <2>4
    <3>2. /\ functors[s][i + 1].conn \in Conns
          /\ conn[functors[s][i + 1].conn].state # "destroyed"
          /\ \A j \in Destroys(s) : functors[s][j].conn = functors[s][i + 1].conn => j > i + 1
      BY <3>1, <1>f DEF Orderly, SendLive, Sends
    <3>3. 1 \in Destroys(s) => f.conn # functors[s][i + 1].conn
      BY <2>4, <3>1, <3>2
    <3>4. ASSUME NEW j \in Destroys(s)', functors'[s][j].conn = functors'[s][i].conn
          PROVE  j > i
      <4>1. j \in Nat /\ j + 1 \in Destroys(s) /\ functors'[s][j] = functors[s][j + 1]
        BY <2>4
      <4> QED BY <3>1, <3>2, <3>4, <4>1
    <3> QED BY <2>5, <3>1, <3>2, <3>3, <3>4
  <2> QED BY <2>6, <2>7, <2>8, <2>9, <2>10 DEF Orderly
<1> QED
  BY <1>1, <1>2, <1>3, <1>4, <1>5, <1>6, <1>7, <1>8, <1>9, <1>10, <1>11, <1>12, <1>13,
     <1>14, <1>15, <1>16
  DEF LoopStep

LEMMA OrderlyObserver ==
  ASSUME TypeInv, NEW s \in Servers, ObserverStep(s), Orderly(s)
  PROVE  Orderly(s)'
<1>x. conn_mtx \in [Servers -> {"free", "loop", "observer"}]
  BY DEF TypeInv, TypeOK
<1>o. observer \in [Servers -> ObserverStates] /\ Reading.pc = "reading"
  BY ReadingType DEF TypeInv, TypeOK
<1>f. ASSUME UNCHANGED <<conn, loop, functors, user_conn_map>>, observer'[s].pc # "queue",
             conn_mtx'[s] = conn_mtx[s]
      PROVE  Orderly(s)'
  <2>1. Home(s)' /\ Stages(s)' /\ Locked(s)'
    BY <1>f DEF Orderly, Home, Stages, Locked, Destroys
  <2>2. QueueLive(s)' /\ SendLive(s)'
    BY <1>f DEF Orderly, QueueLive, SendLive, Sends, Destroys
  <2> QED BY <2>1, <2>2 DEF Orderly
<1>1. CASE StartObserving(s)
  <2>1. observer'[s].pc = "notify"
    BY <1>1, <1>o DEF StartObserving
  <2> QED BY <1>1, <2>1, <1>f DEF StartObserving
<1>2. CASE HandlerRedisSubscribeMessage(s)
  <2> DEFINE c == user_conn_map[s][observer[s].user]
  <2>1. /\ UNCHANGED <<conn, loop, functors, user_conn_map>>
        /\ conn_mtx[s] = "free" /\ observer[s].pc = "notify" /\ observer[s].user \in Users
    BY <1>2 DEF HandlerRedisSubscribeMessage, TypeInv, ObserverLocals
  <2>2. CASE observer' = [observer EXCEPT ![s] = Reading] /\ UNCHANGED conn_mtx
    <3>1. observer'[s].pc # "queue"
      BY <2>2, <1>o
    <3> QED BY <2>1, <2>2, <3>1, <1>f
  <2>3. CASE /\ c # NoConn /\ conn[c].state = "connected"
             /\ conn_mtx' = [conn_mtx EXCEPT ![s] = "observer"]
             /\ observer' = [observer EXCEPT ![s].pc = "queue", ![s].conn = c]
    <3>1. observer'[s].conn = c /\ conn_mtx'[s] = "observer"
      BY <2>3, <1>o, <1>x DEF ObserverStates
    <3>2. loop[s].pc \notin {"close_unsubscribe", "close_offline"}
      BY <2>1 DEF Orderly, Locked
    <3>3. Home(s)'
      BY <2>1, <2>3, <3>1 DEF Orderly, Home
    <3>4. Stages(s)' /\ Locked(s)'
      BY <2>1, <3>1, <3>2 DEF Orderly, Stages, Locked, Destroys
    <3>5. QueueLive(s)' /\ SendLive(s)'
      <4>1. \A i \in Destroys(s) : functors[s][i].conn # c
        BY <2>3 DEF Orderly, Stages
      <4>2. Sends(s)' = Sends(s) /\ Destroys(s)' = Destroys(s)
        BY <2>1 DEF Sends, Destroys
      <4>3. QueueLive(s)'
        BY <2>1, <2>3, <3>1, <4>1, <4>2 DEF QueueLive
      <4>4. SendLive(s)'
        BY <2>1, <4>2 DEF Orderly, SendLive
      <4> QED BY <4>3, <4>4
    <3> QED BY <3>3, <3>4, <3>5 DEF Orderly
  <2> QED BY <1>2, <2>2, <2>3 DEF HandlerRedisSubscribeMessage
<1>3. CASE QueueInLoop(s)
  <2> DEFINE n == Len(functors[s]) + 1
  <2>1. /\ UNCHANGED <<conn, loop, user_conn_map>> /\ observer[s].pc = "queue"
        /\ observer' = [observer EXCEPT ![s] = Reading]
    BY <1>3 DEF QueueInLoop
  <2>2. observer'[s].pc = "reading"
    BY <2>1, <1>o
  <2>3. PICK f : f = [kind |-> "send", conn |-> observer[s].conn,
                      user |-> observer[s].user, msg |-> observer[s].msg]
    OBVIOUS
  <2>4. f.kind = "send" /\ f.conn = observer[s].conn
    BY <2>3
  <2>5. functors' = [functors EXCEPT ![s] = Append(@, f)]
    BY <1>3, <2>3 DEF QueueInLoop
  <2>6. /\ DOMAIN functors'[s] = DOMAIN functors[s] \cup {n} /\ functors'[s][n] = f
        /\ \A i \in DOMAIN functors[s] : n > i /\ functors'[s][i] = functors[s][i]
        /\ Sends(s)' = Sends(s) \cup (IF f.kind = "send" THEN {n} ELSE {})
        /\ Destroys(s)' = Destroys(s) \cup (IF f.kind = "destroy" THEN {n} ELSE {})
    BY <2>5, QueuedFunctor
  <2> HIDE DEF n
  <2>7. Sends(s)' = Sends(s) \cup {n} /\ Destroys(s)' = Destroys(s)
    BY <2>4, <2>6
  <2>8. Sends(s) \cup Destroys(s) \subseteq DOMAIN functors[s]
    BY DEF Sends, Destroys
  <2>9. loop[s].pc \notin {"close_unsubscribe", "close_offline"}
    BY <2>1 DEF Orderly, Locked
  <2>10. Home(s)'
    BY <2>1, <2>2, <2>4, <2>6 DEF Orderly, Home
  <2>11. Stages(s)' /\ Locked(s)'
    BY <2>1, <2>2, <2>6, <2>7, <2>8, <2>9 DEF Orderly, Stages, Locked
  <2>12. QueueLive(s)'
    BY <2>2 DEF QueueLive
  <2>13. SendLive(s)'
    BY <2>1, <2>4, <2>6, <2>7, <2>8 DEF Orderly, QueueLive, SendLive
  <2> QED BY <2>10, <2>11, <2>12, <2>13 DEF Orderly
<1> QED BY <1>1, <1>2, <1>3 DEF ObserverStep

LEMMA OrderlyProcess ==
  ASSUME TypeInv, NEW s \in Servers, RedisStep(s) \/ ProcessStep(s), Orderly(s)
  PROVE  Orderly(s)'
<1>1. CASE RedisStep(s) \/ SigInt(s) \/ Restart(s)
  <2>1. UNCHANGED <<loop, observer, conn_mtx, user_conn_map, functors, conn>>
    BY <1>1 DEF RedisStep, SigInt, Restart
  <2> QED BY <2>1, OrderlyFrame
<1>2. CASE EndProcess(s)
  <2>1. /\ loop'[s].pc = "poll" /\ observer'[s].pc = "reading"
        /\ \A u \in Users : user_conn_map'[s][u] = NoConn
        /\ functors'[s] = <<>>
    BY <1>2, ReadingType DEF EndProcess, Polling, TypeInv, TypeOK
  <2>2. Sends(s)' = {} /\ Destroys(s)' = {} /\ DOMAIN functors'[s] = {}
    BY <2>1 DEF Sends, Destroys
  <2> QED
    BY <2>1, <2>2
    DEF Orderly, Home, Stages, Locked, QueueLive, SendLive, LoginPcs, ClosePcs
<1> QED BY <1>1, <1>2 DEF ProcessStep, Crash, Exit

(* What a step of server s does to connections: it changes its own only. *)
LEMMA OwnConns ==
  ASSUME TypeInv, NEW s \in Servers, Orderly(s), NEW c \in Conns,
         \/ \E d \in Conns : ServeConn(s, d)
         \/ LoopStep(s) \/ ObserverStep(s) \/ RedisStep(s) \/ ProcessStep(s)
  PROVE  conn'[c].server = conn[c].server /\ (conn[c].server # s => conn'[c] = conn[c])
<1>c. conn \in [Conns -> ConnStates]
  BY DEF TypeInv, TypeOK
<1>1. ASSUME NEW d \in Conns, conn[d].server = s, NEW st, conn' = [conn EXCEPT ![d].state = st]
      PROVE  conn'[c].server = conn[c].server /\ (conn[c].server # s => conn'[c] = conn[c])
  BY <1>1, <1>c DEF ConnStates
<1>2. ASSUME NEW d \in Conns, ServeConn(s, d)
      PROVE  conn'[c].server = conn[c].server /\ (conn[c].server # s => conn'[c] = conn[c])
  <2>1. UNCHANGED conn \/ (conn[d].server = s /\ conn' = [conn EXCEPT ![d].state = "disconnected"])
    BY <1>2 DEF ServeConn, HandlerLogin, HandlerLogout, HandlerDirectChat, HandleClose
  <2> QED BY <2>1, <1>1
<1>3. CASE RunFunctor(s)
  <2>1. functors[s] # <<>> /\ functors[s] \in Seq(Functors)
    BY <1>3 DEF RunFunctor, LoopAt, TypeInv, TypeOK, DueFunctors
  <2>2. 1 \in DOMAIN functors[s] /\ functors[s][1] = Head(functors[s])
    BY <2>1
  <2>3. PICK d : d = Head(functors[s]).conn
    OBVIOUS
  <2>4. d \in Conns /\ conn[d].server = s
    BY <2>1, <2>2, <2>3 DEF Orderly, Home, Functors
  <2>5. UNCHANGED conn \/ conn' = [conn EXCEPT ![d].state = "destroyed"]
    BY <1>3, <2>3 DEF RunFunctor
  <2> QED BY <2>4, <2>5, <1>1
<1>4. CASE EndProcess(s)
  <2>1. conn'[c] = conn[c] \/ (conn[c].server = s /\ conn'[c] = [conn[c] EXCEPT !.state = "destroyed"])
    BY <1>4 DEF EndProcess
  <2> QED BY <2>1, <1>c DEF ConnStates
<1>5. CASE LoopStep(s) /\ ~RunFunctor(s)
  <2>1. UNCHANGED conn
    BY <1>5
    DEF LoopStep, LoginInsert, LoginSubscribe, LoginOnline, LoginQueryOffline, LoginDeleteOffline,
        LoginAck, LogoutUnsubscribe, LogoutOffline, ChatQuery, ChatPublish, ChatStoreOffline,
        CloseErase, CloseUnsubscribe, CloseOffline, DoPendingFunctors
  <2> QED BY <2>1
<1>6. CASE ObserverStep(s) \/ RedisStep(s) \/ SigInt(s) \/ Restart(s)
  <2>1. UNCHANGED conn
    BY <1>6 DEF ObserverStep, StartObserving, HandlerRedisSubscribeMessage, QueueInLoop, RedisStep,
                SigInt, Restart
  <2> QED BY <2>1
<1> QED BY <1>2, <1>3, <1>4, <1>5, <1>6 DEF ProcessStep, Crash, Exit

LEMMA UnconnectedStep ==
  ASSUME TypeInv, LifeInv, [Next]_vars
  PROVE  Unconnected'
<1> SUFFICES ASSUME NEW c \in Conns, client'[c].menu = "none"
             PROVE  conn'[c].state = "none"
  BY DEF Unconnected
<1>t. client \in [Conns -> ClientStates] /\ conn \in [Conns -> ConnStates]
  BY DEF TypeInv, TypeOK
<1>i. client[c].menu = "none" => conn[c].state = "none"
  BY DEF LifeInv, Unconnected
<1>1. CASE UNCHANGED vars
  BY <1>1, <1>i DEF vars
<1>2. ASSUME NEW d \in Conns, ClientNext(d)
      PROVE  conn'[c].state = "none"
  <2>1. CASE Connect(d)
    BY <2>1, <1>t, <1>i DEF Connect, ClientStates, ConnStates
  <2>2. ASSUME NEW u \in Users, NEW pwd \in Passwords, ClientLogin(d, u, pwd)
        PROVE  conn'[c].state = "none"
    BY <2>2, <1>t, <1>i DEF ClientLogin, SendRequest, ClientStates
  <2>3. CASE ClientLogout(d) \/ ClientClose(d)
    BY <2>3, <1>t, <1>i DEF ClientLogout, ClientClose, SendRequest
  <2>4. ASSUME NEW u \in Users, NEW m \in Msgs, ClientChat(d, u, m)
        PROVE  conn'[c].state = "none"
    BY <2>4, <1>i DEF ClientChat, SendRequest
  <2> QED BY <1>2, <2>1, <2>2, <2>3, <2>4 DEF ClientNext
<1>3. ASSUME NEW s \in Servers, NEW d \in Conns, ServeConn(s, d)
      PROVE  conn'[c].state = "none"
  <2>1. CASE HandleClose(s, d)
    <3>1. client'[c] = client[c] /\ conn[d].state = "connected"
      BY <2>1 DEF HandleClose
    <3> QED BY <2>1, <3>1, <1>t, <1>i DEF HandleClose
  <2>2. ASSUME NEW u \in Users, NEW pwd \in Passwords, HandlerLogin(s, d, u, pwd)
        PROVE  conn'[c].state = "none"
    <3>1. UNCHANGED client \/ \E errno \in {1, 2} : Answer(d, u, errno)
      BY <2>2 DEF HandlerLogin
    <3>2. client[c].menu = "none"
      BY <3>1, <1>t DEF Answer, ClientStates
    <3> QED BY <2>2, <3>2, <1>i DEF HandlerLogin
  <2>3. ASSUME NEW u \in Users, HandlerLogout(s, d, u) \/ \E m \in Msgs : HandlerDirectChat(s, d, u, m)
        PROVE  conn'[c].state = "none"
    BY <2>3, <1>i DEF HandlerLogout, HandlerDirectChat
  <2> QED BY <1>3, <2>1, <2>2, <2>3 DEF ServeConn
<1>4. ASSUME NEW s \in Servers, LoopStep(s)
      PROVE  conn'[c].state = "none"
  <2>1. CASE RunFunctor(s)
    <3>1. functors[s] # <<>> /\ functors[s] \in Seq(Functors) /\ UNCHANGED client
      BY <2>1 DEF RunFunctor, LoopAt, TypeInv, TypeOK, DueFunctors
    <3>2. 1 \in DOMAIN functors[s] /\ functors[s][1] = Head(functors[s])
      BY <3>1
    <3>3. PICK f : f = Head(functors[s])
      OBVIOUS
    <3>4. CASE f.kind = "destroy" /\ conn' = [conn EXCEPT ![f.conn].state = "destroyed"]
      <4>1. 1 \in Destroys(s)
        BY <3>2, <3>3, <3>4 DEF Destroys
      <4>2. conn[f.conn].state # "none"
        BY <3>2, <3>3, <4>1 DEF LifeInv, Orderly, Stages
      <4> QED BY <3>1, <3>4, <4>2, <1>t, <1>i
    <3>5. CASE UNCHANGED conn
      BY <3>1, <3>5, <1>i
    <3> QED BY <2>1, <3>3, <3>4, <3>5 DEF RunFunctor
  <2>2. CASE LoginAck(s)
    <3>1. UNCHANGED conn /\ \E u, d : Answer(d, u, 0)
      BY <2>2 DEF LoginAck
    <3>2. client[c].menu = "none"
      BY <3>1, <1>t DEF Answer, ClientStates
    <3> QED BY <3>1, <3>2, <1>i
  <2>3. CASE ~RunFunctor(s) /\ ~LoginAck(s)
    <3>1. UNCHANGED <<conn, client>>
      BY <1>4, <2>3
      DEF LoopStep, LoginInsert, LoginSubscribe, LoginOnline, LoginQueryOffline,
          LoginDeleteOffline, LogoutUnsubscribe, LogoutOffline, ChatQuery, ChatPublish,
          ChatStoreOffline, CloseErase, CloseUnsubscribe, CloseOffline, DoPendingFunctors
    <3> QED BY <3>1, <1>i
  <2> QED BY <2>1, <2>2, <2>3
<1>5. ASSUME NEW s \in Servers, ObserverStep(s) \/ RedisStep(s) \/ ProcessStep(s)
      PROVE  conn'[c].state = "none"
  <2>1. CASE EndProcess(s)
    BY <2>1, <1>t, <1>i DEF EndProcess
  <2>2. CASE ObserverStep(s) \/ RedisStep(s) \/ SigInt(s) \/ Restart(s)
    <3>1. UNCHANGED <<conn, client>>
      BY <2>2 DEF ObserverStep, StartObserving, HandlerRedisSubscribeMessage, QueueInLoop,
                  RedisStep, SigInt, Restart
    <3> QED BY <3>1, <1>i
  <2> QED BY <1>5, <2>1, <2>2 DEF ProcessStep, Crash, Exit
<1> QED BY <1>1, <1>2, <1>3, <1>4, <1>5 DEF Next

LEMMA LifeStep == TypeInv /\ LifeInv /\ [Next]_vars => LifeInv'
<1> SUFFICES ASSUME TypeInv, LifeInv, [Next]_vars
             PROVE  \A r \in Servers : Orderly(r)'
  BY UnconnectedStep DEF LifeInv
<1>o. \A r \in Servers : Orderly(r)
  BY DEF LifeInv
<1>1. CASE UNCHANGED vars
  <2>1. UNCHANGED <<loop, observer, conn_mtx, user_conn_map, functors, conn>>
    BY <1>1 DEF vars
  <2> QED BY <2>1, <1>o, OrderlyFrame
<1>2. ASSUME NEW c \in Conns, ClientNext(c)
      PROVE  \A r \in Servers : Orderly(r)'
  <2>1. UNCHANGED <<loop, observer, conn_mtx, user_conn_map, functors>>
    BY <1>2 DEF ClientNext, Connect, ClientLogin, ClientChat, ClientLogout, ClientClose, SendRequest
  <2>2. CASE UNCHANGED conn
    BY <2>1, <2>2, <1>o, OrderlyFrame
  <2>3. CASE Connect(c)
    <3>1. conn[c].state = "none" /\ conn' = [conn EXCEPT ![c].state = "connected"]
      BY <2>3 DEF Connect, LifeInv, Unconnected
    <3>2. \A d \in Conns :
            /\ conn'[d].server = conn[d].server
            /\ \/ conn'[d].state = conn[d].state
               \/ conn[d].state = "none" /\ conn'[d].state = "connected"
      BY <3>1 DEF TypeInv, TypeOK, ConnStates
    <3> QED BY <2>1, <3>2, <1>o, OrderlyFrame
  <2> QED
    BY <1>2, <2>2, <2>3 DEF ClientNext, ClientLogin, ClientChat, ClientLogout, ClientClose, SendRequest
<1>3. ASSUME NEW s \in Servers,
             \/ \E c \in Conns : ServeConn(s, c)
             \/ LoopStep(s) \/ ObserverStep(s) \/ RedisStep(s) \/ ProcessStep(s)
      PROVE  \A r \in Servers : Orderly(r)'
  <2>1. Orderly(s)'
    BY <1>3, <1>o, OrderlyServe, OrderlyLoop, OrderlyObserver, OrderlyProcess
  <2>2. ASSUME NEW r \in Servers, r # s
        PROVE  Orderly(r)'
    <3>1. OtherServersSame(s)
      BY <1>3, Locality
    <3>2. \A c \in Conns :
            conn'[c].server = conn[c].server /\ (conn[c].server # s => conn'[c] = conn[c])
      BY <1>3, <1>o, OwnConns
    <3>3. \A c \in Conns :
            /\ conn'[c].server = conn[c].server
            /\ conn'[c].state = conn[c].state \/ conn[c].server # r
      BY <2>2, <3>2
    <3> QED BY <2>2, <3>1, <3>3, <1>o, OrderlyFrame DEF OtherServersSame
  <2> QED BY <2>1, <2>2
<1> QED BY <1>1, <1>2, <1>3 DEF Next

LEMMA LifeCorrect == Spec => []LifeInv
<1>1. Init => LifeInv
  <2> SUFFICES ASSUME Init PROVE LifeInv
    OBVIOUS
  <2>1. Unconnected
    BY DEF Init, Unconnected
  <2>2. ASSUME NEW s \in Servers
        PROVE  Orderly(s)
    <3>1. /\ loop[s].pc = "poll" /\ observer[s].pc = "reading" /\ functors[s] = <<>>
          /\ \A u \in Users : user_conn_map[s][u] = NoConn
      BY DEF Init, Polling, Reading
    <3>2. Sends(s) = {} /\ Destroys(s) = {} /\ DOMAIN functors[s] = {}
      BY <3>1 DEF Sends, Destroys
    <3> QED
      BY <3>1, <3>2
      DEF Orderly, Home, Stages, Locked, QueueLive, SendLive, LoginPcs, ClosePcs
  <2> QED BY <2>1, <2>2 DEF LifeInv
<1> QED BY <1>1, LifeStep, TypeSafety, PTL DEF Spec

(* A sendInLoop that the observer thread queued still has its TcpConnection   *)
(* when the loop runs it, however logins, closes, process ends and Redis      *)
(* interleave: conn_mtx_ alone orders the two threads.                        *)
THEOREM SendsAreSafe == Spec => []NoSendAfterDestroy
<1>1. LifeInv => NoSendAfterDestroy
  BY DEF LifeInv, Orderly, SendLive, Sends, NoSendAfterDestroy
<1> QED BY <1>1, LifeCorrect, PTL

-----------------------------------------------------------------------------
(* Who may be written to.  The map entry makes a connection a target of the   *)
(* observer before the LogACK is written; but what the observer queues runs   *)
(* only after the handler that made the entry has returned.                   *)

Acked(c, u) ==
    \E j \in DOMAIN outbox[c] :
        outbox[c][j].kind = "ack" /\ outbox[c][j].errno = 0 /\ outbox[c][j].user = u

LoggingIn(s, c, u) == loop[s].pc \in LoginPcs /\ loop[s].conn = c /\ loop[s].user = u

Target(s, c, u) ==
    \/ user_conn_map[s][u] = c
    \/ observer[s].pc = "queue" /\ observer[s].conn = c /\ observer[s].user = u
    \/ \E i \in Sends(s) : functors[s][i].conn = c /\ functors[s][i].user = u

Told(s) == \A c \in Conns, u \in Users : Target(s, c, u) => Acked(c, u) \/ LoggingIn(s, c, u)

AckInv == AckBeforeChat /\ \A s \in Servers : Told(s)

(* What a write adds. *)
LEMMA WriteEffect ==
  ASSUME TypeInv, NEW c \in Conns, NEW item \in Replies, Write(c, item)
  PROVE  /\ \A d \in Conns, u \in Users : Acked(d, u) => Acked(d, u)'
         /\ AckBeforeChat /\ (item.kind = "chat" => Acked(c, item.user)) => AckBeforeChat'
         /\ conn[c].state = "connected" /\ item.kind = "ack" /\ item.errno = 0
               => Acked(c, item.user)'
<1>1. CASE UNCHANGED outbox /\ conn[c].state # "connected"
  BY <1>1 DEF Acked, AckBeforeChat, AckedBefore
<1>2. CASE outbox' = [outbox EXCEPT ![c] = Append(@, item)]
  <2> DEFINE q == outbox[c]
             n == Len(q) + 1
  <2>1. outbox \in [Conns -> Seq(Replies)]
    BY DEF TypeInv, TypeOK
  <2>2. outbox'[c] = Append(q, item) /\ \A d \in Conns : d # c => outbox'[d] = outbox[d]
    BY <1>2, <2>1
  <2>3. /\ q \in Seq(Replies) /\ Len(q) \in Nat /\ DOMAIN q = 1..Len(q)
        /\ DOMAIN outbox'[c] = 1..n /\ outbox'[c][n] = item
        /\ \A i \in DOMAIN q : outbox'[c][i] = q[i]
    BY <2>1, <2>2
  <2>4. DOMAIN q \subseteq DOMAIN outbox'[c] /\ n \in DOMAIN outbox'[c] /\ n \in Nat
    BY <2>3
  <2>5. ASSUME NEW d \in Conns, NEW u \in Users, Acked(d, u)
        PROVE  Acked(d, u)'
    <3>1. CASE d = c
      BY <2>3, <2>4, <2>5, <3>1 DEF Acked
    <3>2. CASE d # c
      BY <2>2, <2>5, <3>2 DEF Acked
    <3> QED BY <3>1, <3>2
  <2>6. ASSUME item.kind = "ack", item.errno = 0
        PROVE  Acked(c, item.user)'
    BY <2>3, <2>4, <2>6 DEF Acked
  <2>7. ASSUME AckBeforeChat, item.kind = "chat" => Acked(c, item.user),
               NEW d \in Conns, NEW i \in DOMAIN outbox'[d], outbox'[d][i].kind = "chat"
        PROVE  \E j \in 1..(i - 1) :
                 /\ outbox'[d][j].kind = "ack" /\ outbox'[d][j].errno = 0
                 /\ outbox'[d][j].user = outbox'[d][i].user
    <3>1. CASE d # c
      <4>1. i \in DOMAIN outbox[d] /\ outbox[d][i].kind = "chat" /\ outbox'[d] = outbox[d]
        BY <2>2, <2>7, <3>1
      <4> QED BY <2>7, <4>1 DEF AckBeforeChat, AckedBefore
    <3>2. CASE d = c /\ i = n
      <4>1. PICK j \in DOMAIN q :
              q[j].kind = "ack" /\ q[j].errno = 0 /\ q[j].user = item.user
        BY <2>3, <2>7, <3>2 DEF Acked
      <4>2. j \in 1..(n - 1) /\ outbox'[c][j] = q[j]
        BY <2>3
      <4> QED BY <2>3, <3>2, <4>1, <4>2
    <3>3. CASE d = c /\ i # n
      <4>1. i \in 1..Len(q)
        BY <2>3, <3>3
      <4>2. i \in DOMAIN outbox[c] /\ outbox'[c][i] = outbox[c][i] /\ outbox[c][i].kind = "chat"
        BY <2>3, <2>7, <3>3, <4>1
      <4>3. PICK j \in 1..(i - 1) :
              /\ outbox[c][j].kind = "ack" /\ outbox[c][j].errno = 0
              /\ outbox[c][j].user = outbox[c][i].user
        BY <2>7, <4>2 DEF AckBeforeChat, AckedBefore
      <4>4. j \in DOMAIN q
        BY <2>3, <4>1
      <4>5. outbox'[c][j] = outbox[c][j]
        BY <2>3, <4>4
      <4> QED BY <3>3, <4>2, <4>3, <4>5
    <3> QED BY <3>1, <3>2, <3>3
  <2> QED BY <2>5, <2>6, <2>7 DEF AckBeforeChat, AckedBefore
<1> QED BY <1>1, <1>2 DEF Write

(* The part of a step of server s that the invariant is about. *)
Tells(s) ==
    /\ \A c \in Conns, u \in Users : Acked(c, u) => Acked(c, u)'
    /\ AckBeforeChat'
    /\ Told(s)'

LEMMA SameOutbox ==
  ASSUME UNCHANGED outbox, AckBeforeChat
  PROVE  /\ AckBeforeChat'
         /\ \A c \in Conns, u \in Users : Acked(c, u) => Acked(c, u)'
  BY DEF Acked, AckBeforeChat, AckedBefore

LEMMA ToldFrame ==
  ASSUME NEW s, Told(s),
         \A c \in Conns, u \in Users : Acked(c, u) => Acked(c, u)',
         \A c \in Conns, u \in Users : LoggingIn(s, c, u) => Acked(c, u)' \/ LoggingIn(s, c, u)',
         \A c \in Conns, u \in Users : Target(s, c, u)' => Target(s, c, u) \/ LoggingIn(s, c, u)'
  PROVE  Told(s)'
<1> SUFFICES ASSUME NEW c \in Conns, NEW u \in Users, Target(s, c, u)'
             PROVE  Acked(c, u)' \/ LoggingIn(s, c, u)'
  BY DEF Told
<1> QED BY DEF Told

(* No new target, and the loop thread is in no login or goes on with it. *)
LEMMA QuietStep ==
  ASSUME AckInv, NEW s \in Servers, UNCHANGED <<outbox, observer, functors>>,
         \A u \in Users : user_conn_map'[s][u] \in {user_conn_map[s][u], NoConn},
         \/ loop[s].pc \notin LoginPcs
         \/ /\ loop'[s].pc \in LoginPcs
            /\ loop'[s].conn = loop[s].conn /\ loop'[s].user = loop[s].user
  PROVE  Tells(s)
<1>1. AckBeforeChat /\ Told(s)
  BY DEF AckInv
<1>2. \A c \in Conns, u \in Users : LoggingIn(s, c, u) => LoggingIn(s, c, u)'
  BY DEF LoggingIn
<1>3. \A c \in Conns, u \in Users : Target(s, c, u)' => Target(s, c, u)
  BY SentinelAssumption DEF Target, Sends
<1> QED BY <1>1, <1>2, <1>3, SameOutbox, ToldFrame DEF Tells

LEMMA TellsServe ==
  ASSUME TypeInv, AckInv, NEW s \in Servers, NEW c \in Conns, ServeConn(s, c)
  PROVE  Tells(s)
<1>m. user_conn_map \in [Servers -> [Users -> Conns \cup {NoConn}]]
  BY DEF TypeInv, TypeOK
<1>p. "poll" \notin LoginPcs
  BY DEF LoginPcs
<1>i. AckBeforeChat /\ Told(s)
  BY DEF AckInv
<1>w. ASSUME loop[s].pc = "poll", UNCHANGED <<user_conn_map, observer, functors>>,
             \A d \in Conns, u \in Users : Acked(d, u) => Acked(d, u)'
      PROVE  Told(s)'
  <2>1. \A d \in Conns, u \in Users : ~LoggingIn(s, d, u)
    BY <1>w, <1>p DEF LoggingIn
  <2>2. \A d \in Conns, u \in Users : Target(s, d, u)' => Target(s, d, u)
    BY <1>w DEF Target, Sends
  <2> QED BY <1>w, <1>i, <2>1, <2>2, ToldFrame
<1>1. ASSUME NEW u \in Users, NEW pwd \in Passwords, HandlerLogin(s, c, u, pwd)
      PROVE  Tells(s)
  <2>1. loop[s].pc = "poll" /\ UNCHANGED <<user_conn_map, observer, functors>>
    BY <1>1 DEF HandlerLogin, OnMessage, LoopAt
  <2>2. CASE UNCHANGED outbox
    BY <2>1, <2>2, <1>p, QuietStep
  <2>3. ASSUME NEW errno \in {1, 2}, Write(c, Ack(u, errno, <<>>))
        PROVE  Tells(s)
    <3>1. PICK item : item = Ack(u, errno, <<>>)
      OBVIOUS
    <3>2. item \in Replies /\ item.kind = "ack"
      BY <3>1 DEF Ack, Replies
    <3>3. /\ \A d \in Conns, v \in Users : Acked(d, v) => Acked(d, v)'
          /\ AckBeforeChat'
      BY <2>3, <3>1, <3>2, <1>i, WriteEffect
    <3> QED BY <2>1, <3>3, <1>w DEF Tells
  <2> QED BY <1>1, <2>2, <2>3 DEF HandlerLogin
<1>2. ASSUME NEW u \in Users, HandlerLogout(s, c, u)
      PROVE  Tells(s)
  <2>1. loop[s].pc = "poll" /\ UNCHANGED <<outbox, observer, functors>>
    BY <1>2 DEF HandlerLogout, OnMessage, LoopAt
  <2>2. \A v \in Users : user_conn_map'[s][v] \in {user_conn_map[s][v], NoConn}
    BY <1>2, <1>m DEF HandlerLogout
  <2> QED BY <2>1, <2>2, <1>p, QuietStep
<1>3. ASSUME NEW u \in Users, NEW m \in Msgs, HandlerDirectChat(s, c, u, m)
      PROVE  Tells(s)
  <2>1. loop[s].pc = "poll" /\ UNCHANGED <<user_conn_map, observer, functors>>
    BY <1>3 DEF HandlerDirectChat, OnMessage, LoopAt
  <2>2. CASE UNCHANGED outbox
    BY <2>1, <2>2, <1>p, QuietStep
  <2>3. CASE user_conn_map[s][u] # NoConn /\ Write(user_conn_map[s][u], Chat(u, m))
    <3>1. PICK d \in Conns : d = user_conn_map[s][u]
      BY <2>3, <1>m
    <3>2. PICK item : item = Chat(u, m)
      OBVIOUS
    <3>3. item \in Replies /\ item.kind = "chat" /\ item.user = u
      BY <3>2, ReplyTypes DEF Chat
    <3>4. Acked(d, u)
      BY <2>1, <3>1, <1>i, <1>p DEF Told, Target, LoggingIn
    <3>5. /\ \A e \in Conns, v \in Users : Acked(e, v) => Acked(e, v)'
          /\ AckBeforeChat'
      BY <2>3, <3>1, <3>2, <3>3, <3>4, <1>i, WriteEffect
    <3> QED BY <2>1, <3>5, <1>w DEF Tells
  <2> QED BY <1>3, <2>2, <2>3 DEF HandlerDirectChat
<1>4. CASE HandleClose(s, c)
  BY <1>4, <1>p, QuietStep DEF HandleClose, LoopAt
<1> QED BY <1>1, <1>2, <1>3, <1>4 DEF ServeConn

LEMMA TellsLoop ==
  ASSUME TypeInv, LifeInv, AckInv, NEW s \in Servers, LoopStep(s)
  PROVE  Tells(s)
<1>l. loop \in [Servers -> LoopStates] /\ LoopLocals(s)
  BY DEF TypeInv, TypeOK
<1>m. user_conn_map \in [Servers -> [Users -> Conns \cup {NoConn}]]
  BY DEF TypeInv, TypeOK
<1>i. AckBeforeChat /\ Told(s)
  BY DEF AckInv
<1>p. {"login_subscribe", "login_online", "login_query", "login_delete", "login_ack",
       "logout_offline", "chat_publish", "chat_store", "close_unsubscribe", "close_offline",
       "functors"} \subseteq LoopPcs
  BY DEF LoopPcs
<1>g. ASSUME NEW pc \in LoginPcs \cap LoopPcs, Goto(s, pc),
             UNCHANGED <<outbox, observer, functors, user_conn_map>>
      PROVE  Tells(s)
  <2>1. loop'[s].pc = pc /\ loop'[s].conn = loop[s].conn /\ loop'[s].user = loop[s].user
    BY <1>g, <1>l, GotoEffect
  <2> QED BY <1>g, <2>1, QuietStep
<1>1. CASE LoginInsert(s)
  <2>1. /\ loop[s].pc = "login_insert" /\ loop[s].user \in Users /\ loop[s].conn \in Conns
        /\ UNCHANGED <<outbox, observer, functors>>
    BY <1>1, <1>l DEF LoginInsert, LoopAt, LoopLocals, LoginPcs
  <2>2. /\ loop'[s].pc = "login_subscribe" /\ loop'[s].conn = loop[s].conn
        /\ loop'[s].user = loop[s].user
    BY <1>1, <1>l, <1>p, GotoEffect DEF LoginInsert
  <2>3. \A u \in Users : \/ user_conn_map'[s][u] = user_conn_map[s][u]
                         \/ u = loop[s].user /\ user_conn_map'[s][u] = loop[s].conn
    BY <1>1, <1>m, <2>1 DEF LoginInsert
  <2>4. \A c \in Conns, u \in Users : LoggingIn(s, c, u) => LoggingIn(s, c, u)'
    BY <2>1, <2>2 DEF LoggingIn, LoginPcs
  <2>5. \A c \in Conns, u \in Users : Target(s, c, u)' => Target(s, c, u) \/ LoggingIn(s, c, u)'
    BY <2>1, <2>2, <2>3 DEF Target, Sends, LoggingIn, LoginPcs
  <2> QED BY <2>1, <2>4, <2>5, <1>i, SameOutbox, ToldFrame DEF Tells
<1>2. CASE LoginSubscribe(s)
  BY <1>2, <1>g, <1>p DEF LoginSubscribe, LoginPcs
<1>3. CASE LoginOnline(s)
  BY <1>3, <1>g, <1>p DEF LoginOnline, LoginPcs
<1>4. CASE LoginQueryOffline(s)
  <2>1. PICK rows :
          loop' = [loop EXCEPT
                ![s].pc = IF rows = <<>> THEN "login_ack" ELSE "login_delete",
                ![s].rows = rows]
    BY <1>4 DEF LoginQueryOffline
  <2>2. /\ loop'[s].pc \in {"login_ack", "login_delete"} /\ loop'[s].conn = loop[s].conn
        /\ loop'[s].user = loop[s].user
    BY <2>1, <1>l DEF LoopStates
  <2>3. UNCHANGED <<outbox, observer, functors, user_conn_map>>
    BY <1>4 DEF LoginQueryOffline
  <2> QED BY <2>2, <2>3, QuietStep DEF LoginPcs
<1>5. CASE LoginDeleteOffline(s)
  BY <1>5, <1>g, <1>p DEF LoginDeleteOffline, LoginPcs
<1>6. CASE LoginAck(s)
  <2>1. PICK c \in Conns, u \in Users : c = loop[s].conn /\ u = loop[s].user
    BY <1>6, <1>l DEF LoginAck, LoopAt, LoopLocals, LoginPcs
  <2>2. PICK item : item = Ack(u, 0, loop[s].rows)
    OBVIOUS
  <2>3. item \in Replies /\ item.kind = "ack" /\ item.errno = 0 /\ item.user = u
    <3>1. loop[s].rows \in Seq(Msgs)
      BY <1>l DEF LoopStates
    <3> QED BY <2>2, <3>1, ReplyTypes DEF Ack
  <2>4. /\ conn[c].state = "connected" /\ Write(c, item)
        /\ UNCHANGED <<user_conn_map, observer, functors>>
    BY <1>6, <2>1, <2>2 DEF LoginAck, LoopAt, LifeInv, Orderly, Stages, LoginPcs
  <2>5. /\ \A d \in Conns, v \in Users : Acked(d, v) => Acked(d, v)'
        /\ AckBeforeChat' /\ Acked(c, u)'
    BY <2>3, <2>4, <1>i, WriteEffect
  <2>6. \A d \in Conns, v \in Users : LoggingIn(s, d, v) => Acked(d, v)'
    BY <2>1, <2>5 DEF LoggingIn
  <2>7. \A d \in Conns, v \in Users : Target(s, d, v)' => Target(s, d, v)
    BY <2>4 DEF Target, Sends
  <2> QED BY <2>5, <2>6, <2>7, <1>i, ToldFrame DEF Tells
<1>7. CASE LogoutUnsubscribe(s) \/ LogoutOffline(s) \/ ChatQuery(s) \/ ChatPublish(s)
             \/ ChatStoreOffline(s) \/ CloseUnsubscribe(s) \/ DoPendingFunctors(s)
  <2>1. loop[s].pc \notin LoginPcs /\ UNCHANGED <<outbox, observer, functors, user_conn_map>>
    BY <1>7 DEF LogoutUnsubscribe, LogoutOffline, ChatQuery, ChatPublish, ChatStoreOffline,
                CloseUnsubscribe, DoPendingFunctors, LoopAt, LoginPcs
  <2> QED BY <2>1, QuietStep
<1>8. CASE CloseErase(s)
  <2>1. loop[s].pc \notin LoginPcs /\ UNCHANGED <<outbox, observer, functors>>
    BY <1>8 DEF CloseErase, LoopAt, LoginPcs
  <2>2. \A u \in Users : user_conn_map'[s][u] \in {user_conn_map[s][u], NoConn}
    BY <1>8, <1>m DEF CloseErase
  <2> QED BY <2>1, <2>2, QuietStep
<1>9. CASE CloseOffline(s)
  <2>1. loop[s].pc \notin LoginPcs /\ UNCHANGED <<outbox, observer, user_conn_map>>
    BY <1>9 DEF CloseOffline, LoopAt, LoginPcs
  <2>2. PICK f : f = [kind |-> "destroy", conn |-> loop[s].conn]
    OBVIOUS
  <2>3. functors' = [functors EXCEPT ![s] = Append(@, f)] /\ f.kind = "destroy"
    BY <1>9, <2>2 DEF CloseOffline
  <2>4. /\ \A i \in DOMAIN functors[s] : functors'[s][i] = functors[s][i]
        /\ Sends(s)' = Sends(s) \cup (IF f.kind = "send" THEN {Len(functors[s]) + 1} ELSE {})
    BY <2>3, QueuedFunctor
  <2>5. \A i \in Sends(s)' : i \in Sends(s) /\ functors'[s][i] = functors[s][i]
    BY <2>3, <2>4 DEF Sends
  <2>6. \A c \in Conns, u \in Users : Target(s, c, u)' => Target(s, c, u)
    BY <2>1, <2>5 DEF Target
  <2>7. \A c \in Conns, u \in Users : ~LoggingIn(s, c, u)
    BY <2>1 DEF LoggingIn
  <2> QED BY <2>1, <2>6, <2>7, <1>i, SameOutbox, ToldFrame DEF Tells
<1>10. CASE RunFunctor(s)
  <2>1. /\ functors[s] # <<>> /\ functors' = [functors EXCEPT ![s] = Tail(@)]
        /\ loop[s].pc = "functors" /\ UNCHANGED <<user_conn_map, observer>>
    BY <1>10 DEF RunFunctor, LoopAt, TypeInv, TypeOK, DueFunctors
  <2>2. /\ 1 \in DOMAIN functors[s] /\ functors[s][1] = Head(functors[s])
        /\ Head(functors[s]) \in Functors
        /\ \A i \in Sends(s)' :
              i \in Nat /\ i + 1 \in Sends(s) /\ functors'[s][i] = functors[s][i + 1]
    BY <2>1, TakenFunctor
  <2>3. \A c \in Conns, u \in Users : Target(s, c, u)' => Target(s, c, u)
    BY <2>1, <2>2 DEF Target
  <2>4. \A c \in Conns, u \in Users : ~LoggingIn(s, c, u)
    BY <2>1 DEF LoggingIn, LoginPcs
  <2>5. /\ \A c \in Conns, u \in Users : Acked(c, u) => Acked(c, u)'
        /\ AckBeforeChat'
    <3>1. CASE UNCHANGED outbox
      BY <3>1, <1>i, SameOutbox
    <3>2. PICK f : f = Head(functors[s])
      OBVIOUS
    <3>3. CASE f.kind = "send" /\ Write(f.conn, Chat(f.user, f.msg))
      <4>1. f.conn \in Conns /\ f.user \in Users /\ f.msg \in Msgs
        BY <2>2, <3>2, <3>3 DEF Functors
      <4>2. PICK item : item = Chat(f.user, f.msg)
        OBVIOUS
      <4>3. item \in Replies /\ item.kind = "chat" /\ item.user = f.user
        BY <4>1, <4>2, ReplyTypes DEF Chat
      <4>4. 1 \in Sends(s)
        BY <2>2, <3>2, <3>3 DEF Sends
      <4>5. Acked(f.conn, f.user)
        BY <2>2, <2>4, <3>2, <4>1, <4>4, <1>i DEF Told, Target
      <4> QED BY <3>3, <4>1, <4>2, <4>3, <4>5, <1>i, WriteEffect
    <3> QED BY <1>10, <3>1, <3>2, <3>3 DEF RunFunctor
  <2> QED BY <2>3, <2>4, <2>5, <1>i, ToldFrame DEF Tells
<1> QED
  BY <1>1, <1>2, <1>3, <1>4, <1>5, <1>6, <1>7, <1>8, <1>9, <1>10 DEF LoopStep

LEMMA TellsOther ==
  ASSUME TypeInv, AckInv, NEW s \in Servers,
         ObserverStep(s) \/ RedisStep(s) \/ ProcessStep(s)
  PROVE  Tells(s)
<1>i. AckBeforeChat /\ Told(s)
  BY DEF AckInv
<1>o. observer \in [Servers -> ObserverStates] /\ Reading.pc = "reading"
  BY ReadingType DEF TypeInv, TypeOK
<1>f. ASSUME UNCHANGED <<outbox, loop>>,
             \A c \in Conns, u \in Users : Target(s, c, u)' => Target(s, c, u)
      PROVE  Tells(s)
  <2>1. \A c \in Conns, u \in Users : LoggingIn(s, c, u) => LoggingIn(s, c, u)'
    BY <1>f DEF LoggingIn
  <2> QED BY <1>f, <2>1, <1>i, SameOutbox, ToldFrame DEF Tells
<1>1. CASE StartObserving(s) \/ RedisStep(s) \/ SigInt(s) \/ Restart(s)
  <2>1. /\ UNCHANGED <<outbox, loop, functors, user_conn_map>>
        /\ UNCHANGED observer \/ observer'[s].pc = "notify"
    BY <1>1, <1>o DEF StartObserving, RedisStep, SigInt, Restart
  <2>2. \A c \in Conns, u \in Users : Target(s, c, u)' => Target(s, c, u)
    BY <2>1 DEF Target, Sends
  <2> QED BY <2>1, <2>2, <1>f
<1>2. CASE HandlerRedisSubscribeMessage(s)
  <2>1. UNCHANGED <<outbox, loop, functors, user_conn_map>>
    BY <1>2 DEF HandlerRedisSubscribeMessage
  <2>2. \/ observer'[s].pc = "reading"
        \/ /\ observer'[s].user = observer[s].user
           /\ observer'[s].conn = user_conn_map[s][observer[s].user]
    BY <1>2, <1>o DEF HandlerRedisSubscribeMessage, ObserverStates
  <2>3. \A c \in Conns, u \in Users : Target(s, c, u)' => Target(s, c, u)
    BY <2>1, <2>2 DEF Target, Sends
  <2> QED BY <2>1, <2>3, <1>f
<1>3. CASE QueueInLoop(s)
  <2>1. /\ UNCHANGED <<outbox, loop, user_conn_map>> /\ observer[s].pc = "queue"
        /\ observer' = [observer EXCEPT ![s] = Reading]
    BY <1>3 DEF QueueInLoop
  <2>2. observer'[s].pc = "reading"
    BY <2>1, <1>o
  <2>3. PICK f : f = [kind |-> "send", conn |-> observer[s].conn,
                      user |-> observer[s].user, msg |-> observer[s].msg]
    OBVIOUS
  <2>4. f.kind = "send" /\ f.conn = observer[s].conn /\ f.user = observer[s].user
    BY <2>3
  <2>5. functors' = [functors EXCEPT ![s] = Append(@, f)]
    BY <1>3, <2>3 DEF QueueInLoop
  <2>6. PICK n : n = Len(functors[s]) + 1
    OBVIOUS
  <2>7. /\ functors'[s][n] = f
        /\ \A i \in DOMAIN functors[s] : functors'[s][i] = functors[s][i]
        /\ Sends(s)' = Sends(s) \cup (IF f.kind = "send" THEN {n} ELSE {})
    BY <2>5, <2>6, QueuedFunctor, ZenonT(60)
  <2>8. \A i \in Sends(s)' :
           \/ i \in Sends(s) /\ functors'[s][i] = functors[s][i]
           \/ functors'[s][i] = f
    <3>1. Sends(s)' = Sends(s) \cup {n}
      BY <2>4, <2>7
    <3>2. \A i \in Sends(s) : i \in DOMAIN functors[s]
      BY DEF Sends
    <3> QED BY <3>1, <3>2, <2>7
  <2>9. \A c \in Conns, u \in Users : Target(s, c, u)' => Target(s, c, u)
    BY <2>1, <2>2, <2>4, <2>8 DEF Target
  <2> QED BY <2>1, <2>9, <1>f
<1>4. CASE EndProcess(s)
  <2>1. /\ observer'[s].pc = "reading" /\ functors'[s] = <<>> /\ UNCHANGED outbox
        /\ \A u \in Users : user_conn_map'[s][u] = NoConn
    BY <1>4, <1>o DEF EndProcess, TypeInv, TypeOK
  <2>2. Sends(s)' = {}
    BY <2>1 DEF Sends
  <2>3. Told(s)'
    BY <2>1, <2>2, SentinelAssumption DEF Told, Target
  <2> QED BY <2>1, <2>3, <1>i, SameOutbox DEF Tells
<1> QED BY <1>1, <1>2, <1>3, <1>4 DEF ObserverStep, ProcessStep, Crash, Exit

LEMMA AckStep == TypeInv /\ LifeInv /\ AckInv /\ [Next]_vars => AckInv'
<1> SUFFICES ASSUME TypeInv, LifeInv, AckInv, [Next]_vars
             PROVE  AckInv'
  OBVIOUS
<1>i. AckBeforeChat /\ \A r \in Servers : Told(r)
  BY DEF AckInv
<1>f. ASSUME NEW r \in Servers, loop'[r] = loop[r], observer'[r] = observer[r],
             user_conn_map'[r] = user_conn_map[r], functors'[r] = functors[r],
             \A c \in Conns, u \in Users : Acked(c, u) => Acked(c, u)'
      PROVE  Told(r)'
  <2>1. /\ \A c \in Conns, u \in Users : Target(r, c, u)' => Target(r, c, u)
        /\ \A c \in Conns, u \in Users : LoggingIn(r, c, u) => LoggingIn(r, c, u)'
    BY <1>f DEF Target, Sends, LoggingIn
  <2> QED BY <1>f, <1>i, <2>1, ToldFrame
<1>1. CASE UNCHANGED vars \/ \E c \in Conns : ClientNext(c)
  <2>1. UNCHANGED <<loop, observer, user_conn_map, functors, outbox>>
    BY <1>1 DEF vars, ClientNext, Connect, ClientLogin, ClientChat, ClientLogout, ClientClose,
                SendRequest
  <2>2. AckBeforeChat' /\ \A c \in Conns, u \in Users : Acked(c, u) => Acked(c, u)'
    BY <2>1, <1>i, SameOutbox
  <2> QED BY <2>1, <2>2, <1>f DEF AckInv
<1>2. ASSUME NEW s \in Servers,
             \/ \E c \in Conns : ServeConn(s, c)
             \/ LoopStep(s) \/ ObserverStep(s) \/ RedisStep(s) \/ ProcessStep(s)
      PROVE  AckInv'
  <2>1. Tells(s)
    BY <1>2, TellsServe, TellsLoop, TellsOther
  <2>2. OtherServersSame(s)
    BY <1>2, Locality
  <2>3. \A r \in Servers : r # s => Told(r)'
    BY <2>1, <2>2, <1>f DEF Tells, OtherServersSame
  <2> QED BY <2>1, <2>3 DEF Tells, AckInv
<1> QED BY <1>1, <1>2 DEF Next

(* No chat message reaches a client before the LogACK of the login that made  *)
(* its connection a target, for any number of servers and clients.            *)
THEOREM AcksComeFirst == Spec => []AckBeforeChat
<1>1. Init => AckInv
  <2> SUFFICES ASSUME Init PROVE AckInv
    OBVIOUS
  <2>1. AckBeforeChat
    BY DEF Init, AckBeforeChat
  <2>2. ASSUME NEW s \in Servers
        PROVE  Told(s)
    <3>1. /\ observer[s].pc = "reading" /\ functors[s] = <<>>
          /\ \A u \in Users : user_conn_map[s][u] = NoConn
      BY DEF Init, Reading
    <3>2. Sends(s) = {}
      BY <3>1 DEF Sends
    <3> QED BY <3>1, <3>2, SentinelAssumption DEF Told, Target
  <2> QED BY <2>1, <2>2 DEF AckInv
<1>2. AckInv => AckBeforeChat
  BY DEF AckInv
<1> QED BY <1>1, <1>2, LifeCorrect, AckStep, TypeSafety, PTL DEF Spec
=============================================================================
