---------------------------- MODULE ChatCluster ----------------------------
(***************************************************************************)
(* The cluster of chat servers: sessions and one-to-one chat.              *)
(*                                                                         *)
(* Each server process has two threads.  The loop thread (muduo EventLoop; *)
(* setThreadNum is never called, so it is the only I/O thread) reads       *)
(* requests, runs the handlers of MsgIDHandler to completion one at a      *)
(* time, and then runs the functors other threads queued for it.  The      *)
(* observer thread (RedisConn::StartObserving) takes messages pushed by    *)
(* Redis and hands them to HandlerRedisSubscribeMessage.  The two share    *)
(* user_conn_map_ under conn_mtx_.  The servers share MySQL (ChatStore)    *)
(* and Redis (RedisBus).                                                   *)
(*                                                                         *)
(* A handler is split where another thread or process can see it: every    *)
(* DAO call, every Redis call and every critical section is a step of its  *)
(* own.  A client sends what the client program sends: a login and then a  *)
(* wait for the answer, then chats and a logout, a close at any time.      *)
(***************************************************************************)
EXTENDS ChatStore, RedisBus

CONSTANTS
    Passwords,   \* what clients type as password: "right", "wrong"
    MaxRead,     \* how many requests one read of a socket may return together
    MaxOutbox,   \* client c stops logging in after MaxOutbox[c] items received
    MaxCrashes   \* bound on process ends (abort, kill, SIGINT)

ASSUME BoundsAssumption ==
    /\ Passwords \subseteq {"right", "wrong"}
    /\ MaxRead \in Nat \ {0}
    /\ MaxOutbox \in [Conns -> Nat]
    /\ MaxCrashes \in Nat

VARIABLES
    proc,            \* proc[s]: "up", "exiting" (inside the SIGINT handler), "down"
    user_conn_map,   \* user_conn_map[s][u]: connection bound to u, or NoConn
    conn_mtx,        \* conn_mtx[s]: which thread holds conn_mtx_
    loop,            \* loop[s]: where the loop thread is, and its handler's locals
    observer,        \* observer[s]: the same for the observer thread
    functors,        \* functors[s]: pendingFunctors_, oldest first
    due,             \* due[s]: how many of them doPendingFunctors is running
    conn,            \* conn[c]: its server and the TcpConnection's state_
    client,          \* client[c]: the client program's menu and its user
    inbox,           \* inbox[c]: requests sent by the client, unread by the server
    outbox,          \* outbox[c]: everything the server wrote to c
    msg_to,          \* msg_to[m]: the addressee of m, NoUser while unsent
    crashes,         \* process ends so far
    abandoned,       \* history: users a dead process or a failed update left online
    lost             \* history: messages a client that ended took with it

sessionVars == <<proc, user_conn_map, conn_mtx, loop, observer, functors, due>>
clientVars == <<client, inbox, outbox, msg_to>>
faultVars == <<crashes, abandoned, lost>>
vars == <<storeVars, busVars, sessionVars, conn, clientVars, faultVars>>

-----------------------------------------------------------------------------
(* Types *)

Requests == [type : {"login"}, user : Users, pwd : Passwords]
              \cup [type : {"logout"}, user : Users]
              \cup [type : {"chat"}, user : Users, msg : Msgs]

(* What a server writes to a connection: a LogACK, with the offline messages *)
(* it carries, or one forwarded chat message.                                *)
Replies == [kind : {"ack"}, user : Users, errno : 0..2, msgs : Seq(Msgs)]
             \cup [kind : {"chat"}, user : Users, errno : {0}, msgs : Seq(Msgs)]

Functors == [kind : {"send"}, conn : Conns, user : Users, msg : Msgs]
              \cup [kind : {"destroy"}, conn : Conns]

LoopPcs == {"poll", "functors",
            "login_insert", "login_subscribe", "login_online",
            "login_query", "login_delete", "login_ack",
            "logout_unsubscribe", "logout_offline",
            "chat_query", "chat_publish", "chat_store",
            "close_lock", "close_unsubscribe", "close_offline"}

LoopStates == [pc : LoopPcs, conn : Conns \cup {NoConn},
               user : Users \cup {NoUser}, msg : Msgs \cup {NoMsg},
               rows : Seq(Msgs)]

ObserverStates == [pc : {"reading", "notify", "queue"},
                   user : Users \cup {NoUser}, msg : Msgs \cup {NoMsg},
                   conn : Conns \cup {NoConn}]

ConnStates == [server : Servers, state : {"none", "connected", "disconnected", "destroyed"}]

ClientStates == [menu : {"none", "login", "waiting", "main", "closed"},
                 user : Users \cup {NoUser}]

TypeOK ==
    /\ StoreTypeOK
    /\ BusTypeOK
    /\ proc \in [Servers -> {"up", "exiting", "down"}]
    /\ user_conn_map \in [Servers -> [Users -> Conns \cup {NoConn}]]
    /\ conn_mtx \in [Servers -> {"free", "loop", "observer"}]
    /\ loop \in [Servers -> LoopStates]
    /\ observer \in [Servers -> ObserverStates]
    /\ functors \in [Servers -> Seq(Functors)]
    /\ due \in [Servers -> Nat]
    /\ conn \in [Conns -> ConnStates]
    /\ client \in [Conns -> ClientStates]
    /\ inbox \in [Conns -> Seq(Requests)]
    /\ outbox \in [Conns -> Seq(Replies)]
    /\ msg_to \in [Msgs -> Users \cup {NoUser}]
    /\ crashes \in Nat
    /\ abandoned \in SUBSET Users
    /\ lost \in SUBSET Msgs

Polling == [pc |-> "poll", conn |-> NoConn, user |-> NoUser, msg |-> NoMsg, rows |-> <<>>]
Reading == [pc |-> "reading", user |-> NoUser, msg |-> NoMsg, conn |-> NoConn]

Init ==
    /\ StoreInit
    /\ BusInit
    /\ proc = [s \in Servers |-> "up"]
    /\ user_conn_map = [s \in Servers |-> [u \in Users |-> NoConn]]
    /\ conn_mtx = [s \in Servers |-> "free"]
    /\ loop = [s \in Servers |-> Polling]
    /\ observer = [s \in Servers |-> Reading]
    /\ functors = [s \in Servers |-> <<>>]
    /\ due = [s \in Servers |-> 0]
    /\ conn \in [Conns -> [server : Servers, state : {"none"}]]
    /\ client = [c \in Conns |-> [menu |-> "none", user |-> NoUser]]
    /\ inbox = [c \in Conns |-> <<>>]
    /\ outbox = [c \in Conns |-> <<>>]
    /\ msg_to = [m \in Msgs |-> NoUser]
    /\ crashes = 0
    /\ abandoned = {}
    /\ lost = {}

-----------------------------------------------------------------------------
(* Helpers *)

LoopAt(s, pc) == proc[s] = "up" /\ loop[s].pc = pc
Goto(s, pc) == loop' = [loop EXCEPT ![s].pc = pc]
BackToPoll(s) == loop' = [loop EXCEPT ![s] = Polling]

(* A request takes the loop thread into a handler that has more steps. *)
Enter(s, pc, c, u, m) ==
    loop' = [loop EXCEPT ![s] = [pc |-> pc, conn |-> c, user |-> u, msg |-> m, rows |-> <<>>]]

(* TcpConnection::sendInLoop: a connection that is down swallows the message. *)
Write(c, item) ==
    outbox' = IF conn[c].state = "connected"
              THEN [outbox EXCEPT ![c] = Append(@, item)]
              ELSE outbox

Ack(u, errno, rows) == [kind |-> "ack", user |-> u, errno |-> errno, msgs |-> rows]
Chat(u, m) == [kind |-> "chat", user |-> u, errno |-> 0, msgs |-> <<m>>]

(* The client program leaves sem_wait when the LogACK arrives. *)
Answer(c, u, errno) ==
    client' = IF client[c].menu # "waiting" THEN client
              ELSE [client EXCEPT ![c] =
                      IF errno = 0 THEN [menu |-> "main", user |-> u]
                                   ELSE [menu |-> "login", user |-> NoUser]]

-----------------------------------------------------------------------------
(* Faulty variants of operations below, one slip each.  No specification      *)
(* uses them: put in place of the operation they vary, each breaks one of the *)
(* properties at the end of the module.                                      *)

(* The count of functors taken is one short. *)
DoPendingFunctorsShort(s) ==
    /\ LoopAt(s, "poll")
    /\ functors[s] # <<>>
    /\ due' = [due EXCEPT ![s] = Len(functors[s]) - 1]
    /\ Goto(s, "functors")
    /\ UNCHANGED <<storeVars, busVars, proc, user_conn_map, conn_mtx, observer, functors,
                   conn, clientVars, faultVars>>

(* The channel is left subscribed when a client disappears. *)
CloseKeepsSubscription(s) ==
    /\ LoopAt(s, "close_unsubscribe")
    /\ Goto(s, "close_offline")
    /\ UNCHANGED <<storeVars, busVars, proc, user_conn_map, conn_mtx, observer, functors,
                   due, conn, clientVars, faultVars>>

(* The entries of the connection are erased and no id is noted. *)
CloseForgetsUser(s) ==
    /\ LoopAt(s, "close_lock")
    /\ conn_mtx[s] = "free"
    /\ conn_mtx' = [conn_mtx EXCEPT ![s] = "loop"]
    /\ user_conn_map' = [user_conn_map EXCEPT
          ![s] = [u \in Users |-> IF @[u] = loop[s].conn THEN NoConn ELSE @[u]]]
    /\ Goto(s, "close_unsubscribe")
    /\ UNCHANGED <<storeVars, busVars, proc, observer, functors, due,
                   conn, clientVars, faultVars>>

(* The observer writes to the connection itself. *)
ObserverWrites(s) ==
    /\ proc[s] # "down"
    /\ observer[s].pc = "queue"
    /\ Write(observer[s].conn, Chat(observer[s].user, observer[s].msg))
    /\ conn_mtx' = [conn_mtx EXCEPT ![s] = "free"]
    /\ observer' = [observer EXCEPT ![s] = Reading]
    /\ UNCHANGED <<storeVars, busVars, proc, user_conn_map, loop, functors, due,
                   conn, client, inbox, msg_to, faultVars>>

(* The lock is released after the lookup, before send(). *)
NotifyUnlocked(s) ==
    LET c == user_conn_map[s][observer[s].user]
    IN  /\ proc[s] # "down"
        /\ observer[s].pc = "notify"
        /\ conn_mtx[s] = "free"
        /\ c # NoConn /\ conn[c].state = "connected"
        /\ observer' = [observer EXCEPT ![s].pc = "queue", ![s].conn = c]
        /\ UNCHANGED <<storeVars, busVars, proc, user_conn_map, conn_mtx, loop, functors,
                       due, conn, clientVars, faultVars>>

(* The handler asks for the lock it already holds, and waits for ever. *)
NotifyRelocks(s) ==
    /\ proc[s] # "down"
    /\ observer[s].pc = "notify"
    /\ conn_mtx[s] = "free"
    /\ conn_mtx' = [conn_mtx EXCEPT ![s] = "observer"]
    /\ UNCHANGED <<storeVars, busVars, proc, user_conn_map, loop, observer, functors,
                   due, conn, clientVars, faultVars>>

(* The rows are not deleted after they were read. *)
LoginKeepsRows(s) ==
    /\ LoopAt(s, "login_query")
    /\ loop' = [loop EXCEPT ![s].pc = "login_ack", ![s].rows = offline_message[loop[s].user]]
    /\ UNCHANGED <<storeVars, busVars, proc, user_conn_map, conn_mtx, observer, functors,
                   due, conn, clientVars, faultVars>>

(* Logout leaves the row online. *)
LogoutKeepsRow(s) ==
    /\ LoopAt(s, "logout_offline")
    /\ BackToPoll(s)
    /\ UNCHANGED <<storeVars, busVars, proc, user_conn_map, conn_mtx, observer, functors,
                   due, conn, clientVars, faultVars>>

-----------------------------------------------------------------------------
(* The client program behind connection c *)

Connect(c) ==
    /\ client[c].menu = "none"
    /\ proc[conn[c].server] = "up"
    /\ conn' = [conn EXCEPT ![c].state = "connected"]
    /\ client' = [client EXCEPT ![c].menu = "login"]
    /\ UNCHANGED <<storeVars, busVars, sessionVars, inbox, outbox, msg_to, faultVars>>

SendRequest(c, r) ==
    /\ inbox' = [inbox EXCEPT ![c] = Append(@, r)]
    /\ UNCHANGED <<storeVars, busVars, sessionVars, conn, outbox, faultVars>>

(* Login blocks the main thread of the client in sem_wait. *)
ClientLogin(c, u, pwd) ==
    /\ client[c].menu = "login"
    /\ Len(outbox[c]) < MaxOutbox[c]
    /\ client' = [client EXCEPT ![c].menu = "waiting"]
    /\ SendRequest(c, [type |-> "login", user |-> u, pwd |-> pwd])
    /\ UNCHANGED msg_to

ClientChat(c, u, m) ==
    /\ client[c].menu = "main"
    /\ msg_to[m] = NoUser
    /\ msg_to' = [msg_to EXCEPT ![m] = u]
    /\ SendRequest(c, [type |-> "chat", user |-> u, msg |-> m])
    /\ UNCHANGED client

(* Logout goes back to the login menu without waiting for anything. *)
ClientLogout(c) ==
    /\ client[c].menu = "main"
    /\ client' = [client EXCEPT ![c] = [menu |-> "login", user |-> NoUser]]
    /\ SendRequest(c, [type |-> "logout", user |-> client[c].user])
    /\ UNCHANGED msg_to

(* Quit from the login menu, or the end of the program at any other point.    *)
(* The kernel closes with a FIN behind what was sent or, when the client left *)
(* answers unread, with a reset: the requests from some point on are lost.    *)
ClientClose(c) ==
    /\ client[c].menu \in {"login", "waiting", "main"}
    /\ client' = [client EXCEPT ![c] = [menu |-> "closed", user |-> NoUser]]
    /\ \E k \in 0..Len(inbox[c]) :
          /\ inbox' = [inbox EXCEPT ![c] = SubSeq(@, 1, k)]
          /\ lost' = lost \cup {m \in Msgs : \E i \in DOMAIN inbox[c] :
                                  i > k /\ inbox[c][i].type = "chat" /\ inbox[c][i].msg = m}
    /\ UNCHANGED <<storeVars, busVars, sessionVars, conn, outbox, msg_to, crashes, abandoned>>

-----------------------------------------------------------------------------
(* Loop thread: requests                                                     *)
(* OnMessage takes the whole input buffer.  Requests end with a NUL byte,    *)
(* which json::parse takes for the end of its input: the first request is    *)
(* dispatched, the ones read together with it are dropped.                   *)

OnMessage(s, c, r) ==
    /\ LoopAt(s, "poll")
    /\ conn[c].server = s
    /\ conn[c].state = "connected"
    /\ inbox[c] # <<>>
    /\ r = Head(inbox[c])
    /\ \E n \in 1..MaxRead :
          /\ n <= Len(inbox[c])
          /\ inbox' = [inbox EXCEPT ![c] = SubSeq(@, n + 1, Len(@))]

(* Faulty variants of HandlerLogin: the state column is not looked at, ... *)
LoginIgnoresState(s, c, u, pwd) ==
    /\ OnMessage(s, c, [type |-> "login", user |-> u, pwd |-> pwd])
    /\ pwd = "right"
    /\ Enter(s, "login_insert", c, u, NoMsg)
    /\ UNCHANGED <<storeVars, busVars, proc, user_conn_map, conn_mtx, observer, functors, due,
                   conn, client, outbox, msg_to, faultVars>>

(* ... a refused login is not answered. *)
LoginSilent(s, c, u, pwd) ==
    /\ OnMessage(s, c, [type |-> "login", user |-> u, pwd |-> pwd])
    /\ IF pwd = "right" /\ user_state[u] = "offline"
       THEN Enter(s, "login_insert", c, u, NoMsg)
       ELSE UNCHANGED loop
    /\ UNCHANGED <<storeVars, busVars, proc, user_conn_map, conn_mtx, observer, functors, due,
                   conn, client, outbox, msg_to, faultVars>>

HandlerLogin(s, c, u, pwd) ==
    /\ OnMessage(s, c, [type |-> "login", user |-> u, pwd |-> pwd])
    /\ \E res \in QueryResults :
          /\ Query(u, res)
          /\ \/ /\ ~res.found \/ pwd = "wrong"
                /\ Write(c, Ack(u, 1, <<>>))
                /\ Answer(c, u, 1)
                /\ UNCHANGED loop
             \/ /\ res.found /\ pwd = "right" /\ res.state = "online"
                /\ Write(c, Ack(u, 2, <<>>))
                /\ Answer(c, u, 2)
                /\ UNCHANGED loop
             \/ /\ res.found /\ pwd = "right" /\ res.state = "offline"
                /\ Enter(s, "login_insert", c, u, NoMsg)
                /\ UNCHANGED <<outbox, client>>
    /\ UNCHANGED <<busVars, proc, user_conn_map, conn_mtx, observer, functors, due,
                   conn, msg_to, faultVars>>

(* unordered_map::insert keeps an entry that is already there. *)
LoginInsert(s) ==
    LET u == loop[s].user
    IN  /\ LoopAt(s, "login_insert")
        /\ conn_mtx[s] = "free"
        /\ user_conn_map' = [user_conn_map EXCEPT
                               ![s][u] = IF @ = NoConn THEN loop[s].conn ELSE @]
        /\ Goto(s, "login_subscribe")
        /\ UNCHANGED <<storeVars, busVars, proc, conn_mtx, observer, functors, due,
                       conn, clientVars, faultVars>>

LoginSubscribe(s) ==
    /\ LoopAt(s, "login_subscribe")
    /\ Subscribe(s, loop[s].user)
    /\ Goto(s, "login_online")
    /\ UNCHANGED <<storeVars, proc, user_conn_map, conn_mtx, observer, functors, due,
                   conn, clientVars, faultVars>>

LoginOnline(s) ==
    LET u == loop[s].user
    IN  /\ LoopAt(s, "login_online")
        /\ \/ UpdateState(u, "online") /\ abandoned' = abandoned \ {u}
           \/ DbFault /\ UNCHANGED abandoned
        /\ Goto(s, "login_query")
        /\ UNCHANGED <<busVars, proc, user_conn_map, conn_mtx, observer, functors, due,
                       conn, clientVars, crashes, lost>>

(* Rows that arrive after this read and before the delete are deleted unread. *)
LoginQueryOffline(s) ==
    /\ LoopAt(s, "login_query")
    /\ \E rows \in {offline_message[loop[s].user], <<>>} :
          /\ QueryOfflineMessages(loop[s].user, rows)
          /\ loop' = [loop EXCEPT
                ![s].pc = IF rows = <<>> THEN "login_ack" ELSE "login_delete",
                ![s].rows = rows]
    /\ UNCHANGED <<busVars, proc, user_conn_map, conn_mtx, observer, functors, due,
                   conn, clientVars, faultVars>>

LoginDeleteOffline(s) ==
    /\ LoopAt(s, "login_delete")
    /\ DeleteOfflineMessageByUserId(loop[s].user)
    /\ Goto(s, "login_ack")
    /\ UNCHANGED <<busVars, proc, user_conn_map, conn_mtx, observer, functors, due,
                   conn, clientVars, faultVars>>

(* The friend list only decorates the answer. *)
LoginAck(s) ==
    LET c == loop[s].conn
        u == loop[s].user
    IN  /\ LoopAt(s, "login_ack")
        /\ Write(c, Ack(u, 0, loop[s].rows))
        /\ Answer(c, u, 0)
        /\ BackToPoll(s)
        /\ UNCHANGED <<storeVars, busVars, proc, user_conn_map, conn_mtx, observer,
                       functors, due, conn, inbox, msg_to, faultVars>>

(* Faulty variant of the action below: the entry is not erased. *)
LogoutKeepsEntry(s, c, u) ==
    /\ OnMessage(s, c, [type |-> "logout", user |-> u])
    /\ Enter(s, "logout_unsubscribe", NoConn, u, NoMsg)
    /\ UNCHANGED <<storeVars, busVars, proc, user_conn_map, conn_mtx, observer, functors, due,
                   conn, client, outbox, msg_to, faultVars>>

HandlerLogout(s, c, u) ==
    /\ conn_mtx[s] = "free"
    /\ OnMessage(s, c, [type |-> "logout", user |-> u])
    /\ user_conn_map' = [user_conn_map EXCEPT ![s][u] = NoConn]
    /\ Enter(s, "logout_unsubscribe", NoConn, u, NoMsg)
    /\ UNCHANGED <<storeVars, busVars, proc, conn_mtx, observer, functors, due,
                   conn, client, outbox, msg_to, faultVars>>

LogoutUnsubscribe(s) ==
    /\ LoopAt(s, "logout_unsubscribe")
    /\ Unsubscribe(s, loop[s].user)
    /\ Goto(s, "logout_offline")
    /\ UNCHANGED <<storeVars, proc, user_conn_map, conn_mtx, observer, functors, due,
                   conn, clientVars, faultVars>>

(* A failed update leaves the row as it was, and nobody retries it. *)
SetOffline(u) ==
    \/ /\ UpdateState(u, "offline")
       /\ abandoned' = abandoned \ {u}
    \/ /\ DbFault
       /\ abandoned' = IF user_state[u] = "online" THEN abandoned \cup {u} ELSE abandoned

LogoutOffline(s) ==
    /\ LoopAt(s, "logout_offline")
    /\ SetOffline(loop[s].user)
    /\ BackToPoll(s)
    /\ UNCHANGED <<busVars, proc, user_conn_map, conn_mtx, observer, functors, due,
                   conn, clientVars, crashes, lost>>

(* Faulty variant: the message goes back to where it came from. *)
ChatEchoed(s, c, u, m) ==
    /\ conn_mtx[s] = "free"
    /\ OnMessage(s, c, [type |-> "chat", user |-> u, msg |-> m])
    /\ \/ /\ user_conn_map[s][u] # NoConn
          /\ Write(c, Chat(u, m))
          /\ UNCHANGED loop
       \/ /\ user_conn_map[s][u] = NoConn
          /\ Enter(s, "chat_query", NoConn, u, m)
          /\ UNCHANGED outbox
    /\ UNCHANGED <<storeVars, busVars, proc, user_conn_map, conn_mtx, observer, functors,
                   due, conn, client, msg_to, faultVars>>

(* A local addressee gets the message at once; else its row is looked up. *)
HandlerDirectChat(s, c, u, m) ==
    /\ conn_mtx[s] = "free"
    /\ OnMessage(s, c, [type |-> "chat", user |-> u, msg |-> m])
    /\ \/ /\ user_conn_map[s][u] # NoConn
          /\ Write(user_conn_map[s][u], Chat(u, m))
          /\ UNCHANGED loop
       \/ /\ user_conn_map[s][u] = NoConn
          /\ Enter(s, "chat_query", NoConn, u, m)
          /\ UNCHANGED outbox
    /\ UNCHANGED <<storeVars, busVars, proc, user_conn_map, conn_mtx, observer, functors,
                   due, conn, client, msg_to, faultVars>>

ChatQuery(s) ==
    /\ LoopAt(s, "chat_query")
    /\ \E res \in QueryResults :
          /\ Query(loop[s].user, res)
          /\ Goto(s, IF res.state = "online" THEN "chat_publish" ELSE "chat_store")
    /\ UNCHANGED <<busVars, proc, user_conn_map, conn_mtx, observer, functors, due,
                   conn, clientVars, faultVars>>

ChatPublish(s) ==
    /\ LoopAt(s, "chat_publish")
    /\ Publish(loop[s].user, loop[s].msg)
    /\ BackToPoll(s)
    /\ UNCHANGED <<storeVars, proc, user_conn_map, conn_mtx, observer, functors, due,
                   conn, clientVars, faultVars>>

ChatStoreOffline(s) ==
    /\ LoopAt(s, "chat_store")
    /\ StoreOfflineMessage(loop[s].user, loop[s].msg)
    /\ BackToPoll(s)
    /\ UNCHANGED <<busVars, proc, user_conn_map, conn_mtx, observer, functors, due,
                   conn, clientVars, faultVars>>

-----------------------------------------------------------------------------
(* Loop thread: the end of a connection *)

(* TcpConnection::handleClose after the peer's FIN: the state changes before  *)
(* OnConnection is called and before conn_mtx_ is asked for.                 *)
HandleClose(s, c) ==
    /\ LoopAt(s, "poll")
    /\ conn[c].server = s
    /\ conn[c].state = "connected"
    /\ client[c].menu = "closed"
    /\ inbox[c] = <<>>
    /\ conn' = [conn EXCEPT ![c].state = "disconnected"]
    /\ Enter(s, "close_lock", c, NoUser, NoMsg)
    /\ UNCHANGED <<storeVars, busVars, proc, user_conn_map, conn_mtx, observer, functors,
                   due, clientVars, faultVars>>

(* ClientCloseException, which holds conn_mtx_ to its end: erase the first    *)
(* entry of the connection (iteration order is unspecified), if there is one. *)
CloseErase(s) ==
    LET bound == {u \in Users : user_conn_map[s][u] = loop[s].conn}
    IN  /\ LoopAt(s, "close_lock")
        /\ conn_mtx[s] = "free"
        /\ conn_mtx' = [conn_mtx EXCEPT ![s] = "loop"]
        /\ \/ /\ bound = {}
              /\ Goto(s, "close_unsubscribe")
              /\ UNCHANGED user_conn_map
           \/ \E u \in bound :
              /\ user_conn_map' = [user_conn_map EXCEPT ![s][u] = NoConn]
              /\ loop' = [loop EXCEPT ![s].pc = "close_unsubscribe", ![s].user = u]
        /\ UNCHANGED <<storeVars, busVars, proc, observer, functors, due,
                       conn, clientVars, faultVars>>

(* Unsubscribe is called with -1 when no user was bound. *)
CloseUnsubscribe(s) ==
    /\ LoopAt(s, "close_unsubscribe")
    /\ Unsubscribe(s, loop[s].user)
    /\ Goto(s, "close_offline")
    /\ UNCHANGED <<storeVars, proc, user_conn_map, conn_mtx, observer, functors, due,
                   conn, clientVars, faultVars>>

(* Faulty variant of the action below: the lock is not released. *)
CloseKeepsLock(s) ==
    /\ LoopAt(s, "close_offline")
    /\ IF loop[s].user = NoUser THEN UNCHANGED <<storeVars, abandoned>>
                                ELSE SetOffline(loop[s].user)
    /\ functors' = [functors EXCEPT
                      ![s] = Append(@, [kind |-> "destroy", conn |-> loop[s].conn])]
    /\ BackToPoll(s)
    /\ UNCHANGED <<busVars, proc, user_conn_map, conn_mtx, observer, due, conn,
                   clientVars, crashes, lost>>

(* The lock is released, and TcpServer::removeConnectionInLoop queues the     *)
(* functor that destroys the connection.                                     *)
CloseOffline(s) ==
    /\ LoopAt(s, "close_offline")
    /\ IF loop[s].user = NoUser THEN UNCHANGED <<storeVars, abandoned>>
                                ELSE SetOffline(loop[s].user)
    /\ conn_mtx' = [conn_mtx EXCEPT ![s] = "free"]
    /\ functors' = [functors EXCEPT
                      ![s] = Append(@, [kind |-> "destroy", conn |-> loop[s].conn])]
    /\ BackToPoll(s)
    /\ UNCHANGED <<busVars, proc, user_conn_map, observer, due, conn, clientVars, crashes, lost>>

-----------------------------------------------------------------------------
(* Loop thread: EventLoop::doPendingFunctors takes the functors queued so far *)
(* and runs them before the next poll.  The connection object lives until the *)
(* last of them has run; the model has it gone as soon as connectDestroyed    *)
(* has, the earliest moment a pointer to it could be stale.                   *)

DoPendingFunctors(s) ==
    /\ LoopAt(s, "poll")
    /\ functors[s] # <<>>
    /\ due' = [due EXCEPT ![s] = Len(functors[s])]
    /\ Goto(s, "functors")
    /\ UNCHANGED <<storeVars, busVars, proc, user_conn_map, conn_mtx, observer, functors,
                   conn, clientVars, faultVars>>

RunFunctor(s) ==
    LET f == Head(functors[s])
    IN  /\ LoopAt(s, "functors")
        /\ functors' = [functors EXCEPT ![s] = Tail(@)]
        /\ due' = [due EXCEPT ![s] = @ - 1]
        /\ IF due[s] = 1 THEN BackToPoll(s) ELSE UNCHANGED loop
        /\ \/ /\ f.kind = "send"
              /\ Write(f.conn, Chat(f.user, f.msg))
              /\ UNCHANGED conn
           \/ /\ f.kind = "destroy"
              /\ conn' = [conn EXCEPT ![f.conn].state = "destroyed"]
              /\ UNCHANGED outbox
        /\ UNCHANGED <<storeVars, busVars, proc, user_conn_map, conn_mtx, observer,
                       client, inbox, msg_to, faultVars>>

-----------------------------------------------------------------------------
(* Observer thread *)

StartObserving(s) ==
    /\ proc[s] # "down"
    /\ observer[s].pc = "reading"
    /\ GetReply(s)
    /\ observer' = [observer EXCEPT ![s] =
         [pc |-> "notify", user |-> Head(pushed[s]).user,
          msg |-> Head(pushed[s]).msg, conn |-> NoConn]]
    /\ UNCHANGED <<storeVars, proc, user_conn_map, conn_mtx, loop, functors, due,
                   conn, clientVars, faultVars>>

(* Under conn_mtx_: a bound addressee's connection is sent to, which tests    *)
(* its state here and queues the write in a second step; an addressee that is *)
(* no longer bound gets the message into the offline table.                  *)
HandlerRedisSubscribeMessage(s) ==
    LET u == observer[s].user
        c == user_conn_map[s][u]
    IN  /\ proc[s] # "down"
        /\ observer[s].pc = "notify"
        /\ conn_mtx[s] = "free"
        /\ \/ /\ c # NoConn /\ conn[c].state = "connected"
              /\ conn_mtx' = [conn_mtx EXCEPT ![s] = "observer"]
              /\ observer' = [observer EXCEPT ![s].pc = "queue", ![s].conn = c]
              /\ UNCHANGED storeVars
           \/ /\ c # NoConn /\ conn[c].state # "connected"
              /\ observer' = [observer EXCEPT ![s] = Reading]
              /\ UNCHANGED <<storeVars, conn_mtx>>
           \/ /\ c = NoConn
              /\ StoreOfflineMessage(u, observer[s].msg)
              /\ observer' = [observer EXCEPT ![s] = Reading]
              /\ UNCHANGED conn_mtx
        /\ UNCHANGED <<busVars, proc, user_conn_map, loop, functors, due,
                       conn, clientVars, faultVars>>

(* EventLoop::queueInLoop of sendInLoop, then the lock is released. *)
QueueInLoop(s) ==
    /\ proc[s] # "down"
    /\ observer[s].pc = "queue"
    /\ functors' = [functors EXCEPT ![s] = Append(@,
         [kind |-> "send", conn |-> observer[s].conn,
          user |-> observer[s].user, msg |-> observer[s].msg])]
    /\ conn_mtx' = [conn_mtx EXCEPT ![s] = "free"]
    /\ observer' = [observer EXCEPT ![s] = Reading]
    /\ UNCHANGED <<storeVars, busVars, proc, user_conn_map, loop, due,
                   conn, clientVars, faultVars>>

-----------------------------------------------------------------------------
(* Redis *)

RedisStep(s) ==
    /\ RedisExecute(s)
    /\ UNCHANGED <<storeVars, sessionVars, conn, clientVars, faultVars>>

-----------------------------------------------------------------------------
(* The process of server s *)

(* The loop thread of s is between erasing u's entry and updating u's row. *)
SettingOffline(s, u) ==
    /\ loop[s].user = u
    /\ loop[s].pc \in {"logout_unsubscribe", "logout_offline",
                       "close_unsubscribe", "close_offline"}

(* The online row of u will be set back by server s. *)
Owns(s, u) == user_conn_map[s][u] # NoConn \/ SettingOffline(s, u)

(* Everything the process held is gone; its clients read EOF and exit.  The   *)
(* rows of its users stay as they are.                                       *)
EndProcess(s) ==
    /\ proc' = [proc EXCEPT ![s] = "down"]
    /\ DropClient(s)
    /\ user_conn_map' = [user_conn_map EXCEPT ![s] = [u \in Users |-> NoConn]]
    /\ conn_mtx' = [conn_mtx EXCEPT ![s] = "free"]
    /\ loop' = [loop EXCEPT ![s] = Polling]
    /\ observer' = [observer EXCEPT ![s] = Reading]
    /\ functors' = [functors EXCEPT ![s] = <<>>]
    /\ due' = [due EXCEPT ![s] = 0]
    /\ LET gone == {c \in Conns : conn[c].server = s /\ conn[c].state # "none"}
       IN  /\ conn' = [c \in Conns |->
                 IF c \in gone THEN [conn[c] EXCEPT !.state = "destroyed"] ELSE conn[c]]
           /\ client' = [c \in Conns |->
                 IF c \in gone THEN [menu |-> "closed", user |-> NoUser] ELSE client[c]]
           /\ inbox' = [c \in Conns |-> IF c \in gone THEN <<>> ELSE inbox[c]]
    /\ abandoned' = abandoned \cup {u \in Users : user_state[u] = "online" /\ Owns(s, u)}
    /\ UNCHANGED <<storeVars, outbox, msg_to, lost>>

(* An uncaught exception of a handler (json::parse, get<int>), or kill. *)
Crash(s) ==
    /\ proc[s] = "up"
    /\ crashes < MaxCrashes
    /\ crashes' = crashes + 1
    /\ EndProcess(s)

(* SIGINT interrupts the loop thread wherever it is: HandlerReset, ... *)
SigInt(s) ==
    /\ proc[s] = "up"
    /\ crashes < MaxCrashes
    /\ crashes' = crashes + 1
    /\ proc' = [proc EXCEPT ![s] = "exiting"]
    /\ \/ ResetState /\ abandoned' = {}
       \/ DbFault /\ UNCHANGED abandoned
    /\ UNCHANGED <<busVars, user_conn_map, conn_mtx, loop, observer, functors, due,
                   conn, clientVars, lost>>

(* ... then exit(0); the observer thread runs until then. *)
Exit(s) ==
    /\ proc[s] = "exiting"
    /\ EndProcess(s)
    /\ UNCHANGED crashes

(* main() does not reset anything. *)
Restart(s) ==
    /\ proc[s] = "down"
    /\ proc' = [proc EXCEPT ![s] = "up"]
    /\ UNCHANGED <<storeVars, busVars, user_conn_map, conn_mtx, loop, observer, functors,
                   due, conn, clientVars, faultVars>>

-----------------------------------------------------------------------------
ClientNext(c) ==
    \/ Connect(c)
    \/ \E u \in Users, pwd \in Passwords : ClientLogin(c, u, pwd)
    \/ \E u \in Users, m \in Msgs : ClientChat(c, u, m)
    \/ ClientLogout(c)
    \/ ClientClose(c)

(* The loop thread takes an event of connection c. *)
ServeConn(s, c) ==
    \/ \E u \in Users, pwd \in Passwords : HandlerLogin(s, c, u, pwd)
    \/ \E u \in Users : HandlerLogout(s, c, u)
    \/ \E u \in Users, m \in Msgs : HandlerDirectChat(s, c, u, m)
    \/ HandleClose(s, c)

(* The loop thread goes on with the handler it is in. *)
LoopStep(s) ==
    \/ LoginInsert(s)
    \/ LoginSubscribe(s)
    \/ LoginOnline(s)
    \/ LoginQueryOffline(s)
    \/ LoginDeleteOffline(s)
    \/ LoginAck(s)
    \/ LogoutUnsubscribe(s)
    \/ LogoutOffline(s)
    \/ ChatQuery(s)
    \/ ChatPublish(s)
    \/ ChatStoreOffline(s)
    \/ CloseErase(s)
    \/ CloseUnsubscribe(s)
    \/ CloseOffline(s)
    \/ DoPendingFunctors(s)
    \/ RunFunctor(s)

ObserverStep(s) ==
    \/ StartObserving(s)
    \/ HandlerRedisSubscribeMessage(s)
    \/ QueueInLoop(s)

ProcessStep(s) ==
    \/ Crash(s)
    \/ SigInt(s)
    \/ Exit(s)
    \/ Restart(s)

Next ==
    \/ \E c \in Conns : ClientNext(c)
    \/ \E s \in Servers, c \in Conns : ServeConn(s, c)
    \/ \E s \in Servers : LoopStep(s) \/ ObserverStep(s) \/ RedisStep(s) \/ ProcessStep(s)

Spec == Init /\ [][Next]_vars

(* The scheduler runs both threads of a process (the loop thread is the one   *)
(* that runs exit()), Redis runs, and epoll reports every readable            *)
(* connection.  Nothing is assumed of clients or of the ends of processes.    *)
Fairness ==
    /\ \A s \in Servers : /\ WF_vars(LoopStep(s) \/ Exit(s))
                          /\ WF_vars(ObserverStep(s))
                          /\ WF_vars(RedisStep(s))
    /\ \A c \in Conns : WF_vars(\E s \in Servers : ServeConn(s, c))

FairSpec == Spec /\ Fairness

-----------------------------------------------------------------------------
(* Safety *)

(* What Redis will deliver to a server is what its user_conn_map_ can hand    *)
(* on: once the commands on their way are executed, server s is subscribed to *)
(* exactly the users it has an entry for, except while a handler of s is      *)
(* between the map and the RedisConn call that follows it.  Subscribe and     *)
(* Unsubscribe are fire and forget and the map is changed first, so this      *)
(* rests on the order of the calls in HandlerLogin, HandlerLogout and         *)
(* ClientCloseException.                                                     *)
SubscriptionsFollowMap ==
    \A s \in Servers, u \in Users :
        \/ EventuallySubscribed(s, u) <=> user_conn_map[s][u] # NoConn
        \/ /\ loop[s].user = u
           /\ loop[s].pc \in {"login_subscribe", "logout_unsubscribe", "close_unsubscribe"}

(* A row of table user says "online" only while some server still has the     *)
(* user in its map or is about to set the row back, unless a process died or  *)
(* an update failed in between (those users are in abandoned).  It covers the *)
(* race of two servers that log the same user in and out.                    *)
OnlineRowsOwned ==
    \A u \in Users :
        user_state[u] = "online" /\ u \notin abandoned => \E s \in Servers : Owns(s, u)

(* A client never receives a chat message for a user before the LogACK of     *)
(* that user's login, though the map entry and the subscription, which make   *)
(* the connection a target of the observer thread, exist long before the      *)
(* LogACK is sent.                                                           *)
AckedBefore(c, u, i) ==
    \E j \in 1..(i - 1) :
        /\ outbox[c][j].kind = "ack" /\ outbox[c][j].errno = 0
        /\ outbox[c][j].user = u

AckBeforeChat ==
    \A c \in Conns : \A i \in DOMAIN outbox[c] :
        outbox[c][i].kind = "chat" => AckedBefore(c, outbox[c][i].user, i)

(* A sendInLoop queued by the observer thread holds a bare pointer to its     *)
(* TcpConnection: it must be gone from the queue before the connection is     *)
(* destroyed.  conn_mtx_, held over send() by the observer and over the whole *)
(* of ClientCloseException by the loop, is what orders the two.              *)
NoSendAfterDestroy ==
    \A s \in Servers : \A i \in DOMAIN functors[s] :
        functors[s][i].kind = "send" => conn[functors[s][i].conn].state # "destroyed"

(* No account is used by two clients at once: HandlerLogin answers errno 2    *)
(* when the row says online.                                                 *)
OneSession ==
    \A c, d \in Conns :
        client[c].menu = "main" /\ client[d].menu = "main" /\ client[c].user = client[d].user
            => c = d

(* A message the server has taken but not yet settled. *)
InTransit(m) ==
    \/ \E c \in Conns : \E i \in DOMAIN inbox[c] :
          inbox[c][i].type = "chat" /\ inbox[c][i].msg = m
    \/ \E s \in Servers :
          \/ loop[s].msg = m
          \/ \E i \in DOMAIN loop[s].rows : loop[s].rows[i] = m
          \/ \E i \in DOMAIN pushed[s] : pushed[s][i].msg = m
          \/ observer[s].msg = m
          \/ \E i \in DOMAIN functors[s] :
                functors[s][i].kind = "send" /\ functors[s][i].msg = m

(* Message m is in an answer or a chat the server wrote to connection c. *)
Delivered(c, m) ==
    \E i \in DOMAIN outbox[c] : \E k \in DOMAIN outbox[c][i].msgs : outbox[c][i].msgs[k] = m

Stored(m) ==
    \E u \in Users : \E i \in DOMAIN offline_message[u] : offline_message[u][i] = m

(* No chat message is lost by the servers: from the moment its client sent    *)
(* it, it is on its way through a handler, in the offline table, or written   *)
(* to a client, unless its client ended before a server had read it.          *)
MessageKept ==
    \A m \in Msgs :
        msg_to[m] # NoUser /\ m \notin lost
            => InTransit(m) \/ Stored(m) \/ \E c \in Conns : Delivered(c, m)

(* No chat message is written twice, neither to two clients nor, once live    *)
(* and once from the offline table, to one.                                  *)
AtMostOnce ==
    \A c, d \in Conns :
        \A i \in DOMAIN outbox[c], j \in DOMAIN outbox[d] :
            \A k \in DOMAIN outbox[c][i].msgs, l \in DOMAIN outbox[d][j].msgs :
                outbox[c][i].msgs[k] = outbox[d][j].msgs[l] => <<c, i, k>> = <<d, j, l>>

(* user_conn_map_ holds connections of users that are there: between two      *)
(* handlers, an entry names an established connection.                       *)
EntriesAreOpen ==
    \A s \in Servers, u \in Users :
        loop[s].pc = "poll" /\ user_conn_map[s][u] # NoConn
            => conn[user_conn_map[s][u]].state = "connected"

-----------------------------------------------------------------------------
(* Liveness *)

(* The semaphore the client waits on after it sent a login is posted: the     *)
(* server answers every login (or the client is gone).                       *)
LoginAnswered ==
    \A c \in Conns : client[c].menu = "waiting" ~> client[c].menu # "waiting"

(* When a client is gone its connection is destroyed, whatever the loop and   *)
(* the observer are doing, conn_mtx_ included.                               *)
ConnectionReclaimed ==
    \A c \in Conns : client[c].menu = "closed" ~> conn[c].state = "destroyed"

(* A chat message does not stay for ever between two threads: each handler,   *)
(* the observer and the functor queue pass it on.                            *)
MessageSettles ==
    \A m \in Msgs : msg_to[m] # NoUser ~> ~InTransit(m)

(* When the clients of a user are all gone for good, the row ends as offline, *)
(* though several servers may have been setting it for several sessions.      *)
RowSettles ==
    \A u \in Users :
        <>[](\A c \in Conns : client[c].menu \in {"none", "closed"})
            => <>[](user_state[u] = "offline")
=============================================================================
