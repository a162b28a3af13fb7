------------------------- MODULE ChatClusterProofs -------------------------
(***************************************************************************)
(* Proofs about ChatCluster for every set of servers, users, connections   *)
(* and messages and every bound: types, and that the three records of a    *)
(* session - a server's user_conn_map_, its Redis subscriptions, and the   *)
(* state column shared by the cluster - stay in step, whatever the other   *)
(* servers, clients, Redis, failing statements and ending processes do.    *)
(***************************************************************************)
EXTENDS ChatCluster, TLAPS

USE DEF storeVars, busVars, sessionVars, clientVars, faultVars

LoginPcs == {"login_insert", "login_subscribe", "login_online",
             "login_query", "login_delete", "login_ack"}
LogoutPcs == {"logout_unsubscribe", "logout_offline"}
ChatPcs == {"chat_query", "chat_publish", "chat_store"}
ClosePcs == {"close_lock", "close_unsubscribe", "close_offline"}

-----------------------------------------------------------------------------
(* What the helpers on the loop thread's state do. *)

LEMMA GotoEffect ==
  ASSUME loop \in [Servers -> LoopStates], NEW s \in Servers, NEW pc \in LoopPcs,
         Goto(s, pc)
  PROVE  /\ loop' \in [Servers -> LoopStates]
         /\ loop'[s].pc = pc /\ loop'[s].conn = loop[s].conn
         /\ loop'[s].user = loop[s].user /\ loop'[s].msg = loop[s].msg
         /\ loop'[s].rows = loop[s].rows
         /\ \A t \in Servers : t # s => loop'[t] = loop[t]
  BY DEF Goto, LoopStates

LEMMA PollEffect ==
  ASSUME loop \in [Servers -> LoopStates], NEW s \in Servers, BackToPoll(s)
  PROVE  /\ loop' \in [Servers -> LoopStates]
         /\ loop'[s] = Polling /\ loop'[s].pc = "poll"
         /\ \A t \in Servers : t # s => loop'[t] = loop[t]
  <1>1. Polling \in LoopStates
    BY DEF Polling, LoopStates, LoopPcs
  <1> QED BY <1>1 DEF BackToPoll, Polling

LEMMA EnterEffect ==
  ASSUME loop \in [Servers -> LoopStates], NEW s \in Servers, NEW pc \in LoopPcs,
         NEW c \in Conns \cup {NoConn}, NEW u \in Users \cup {NoUser},
         NEW m \in Msgs \cup {NoMsg}, Enter(s, pc, c, u, m)
  PROVE  /\ loop' \in [Servers -> LoopStates]
         /\ loop'[s].pc = pc /\ loop'[s].conn = c /\ loop'[s].user = u
         /\ loop'[s].msg = m
         /\ \A t \in Servers : t # s => loop'[t] = loop[t]
  <1>1. [pc |-> pc, conn |-> c, user |-> u, msg |-> m, rows |-> <<>>] \in LoopStates
    BY DEF LoopStates
  <1> QED BY <1>1 DEF Enter

-----------------------------------------------------------------------------
(* Types.  TypeOK is inductive only together with what a thread knows of its  *)
(* locals at each point of a handler, and with the count of due functors.     *)

LoopLocals(s) ==
    /\ loop[s].pc \in LoginPcs \cup LogoutPcs \cup ChatPcs => loop[s].user \in Users
    /\ loop[s].pc \in LoginPcs \cup ClosePcs => loop[s].conn \in Conns
    /\ loop[s].pc \in ChatPcs => loop[s].msg \in Msgs

DueFunctors(s) == loop[s].pc = "functors" => due[s] \in 1..Len(functors[s])

ObserverLocals(s) ==
    /\ observer[s].pc \in {"notify", "queue"}
          => observer[s].user \in Users /\ observer[s].msg \in Msgs
    /\ observer[s].pc = "queue" => observer[s].conn \in Conns

ClientLocals(c) == client[c].menu = "main" => client[c].user \in Users

TypeInv ==
    /\ TypeOK
    /\ \A s \in Servers : LoopLocals(s) /\ DueFunctors(s) /\ ObserverLocals(s)
    /\ \A c \in Conns : ClientLocals(c)

(* The operations of the store, of the bus and of a connection keep types. *)

LEMMA StoreTypes ==
  ASSUME StoreTypeOK
  PROVE  /\ DbFault => StoreTypeOK'
         /\ ResetState => StoreTypeOK'
         /\ \A u \in Users :
               /\ \A res \in QueryResults : Query(u, res) => StoreTypeOK'
               /\ \A st \in UserStates : UpdateState(u, st) => StoreTypeOK'
               /\ \A m \in Msgs : StoreOfflineMessage(u, m) => StoreTypeOK'
               /\ \A rows : QueryOfflineMessages(u, rows) =>
                              StoreTypeOK' /\ rows \in Seq(Msgs)
               /\ DeleteOfflineMessageByUserId(u) => StoreTypeOK'
<1>1. DbFault => StoreTypeOK'
  BY DEF StoreTypeOK, DbFault
<1>2. ResetState => StoreTypeOK'
  BY DEF StoreTypeOK, ResetState, UserStates
<1>3. ASSUME NEW u \in Users, NEW res \in QueryResults, Query(u, res)
      PROVE  StoreTypeOK'
  BY <1>3 DEF StoreTypeOK, Query, DbFault
<1>4. ASSUME NEW u \in Users, NEW st \in UserStates, UpdateState(u, st)
      PROVE  StoreTypeOK'
  BY <1>4 DEF StoreTypeOK, UpdateState
<1>5. ASSUME NEW u \in Users, NEW m \in Msgs, StoreOfflineMessage(u, m)
      PROVE  StoreTypeOK'
  <2>1. CASE DbFault
    BY <1>1, <2>1
  <2>2. CASE offline_message' = [offline_message EXCEPT ![u] = Append(@, m)]
             /\ UNCHANGED <<user_state, db_faults>>
    BY <2>2 DEF StoreTypeOK
  <2> QED BY <1>5, <2>1, <2>2 DEF StoreOfflineMessage
<1>6. ASSUME NEW u \in Users, NEW rows, QueryOfflineMessages(u, rows)
      PROVE  StoreTypeOK' /\ rows \in Seq(Msgs)
  <2>1. CASE rows = <<>> /\ DbFault
    BY <1>1, <2>1
  <2>2. CASE rows = offline_message[u] /\ UNCHANGED storeVars
    BY <2>2 DEF StoreTypeOK
  <2> QED BY <1>6, <2>1, <2>2 DEF QueryOfflineMessages
<1>7. ASSUME NEW u \in Users, DeleteOfflineMessageByUserId(u)
      PROVE  StoreTypeOK'
  <2>1. CASE DbFault
    BY <1>1, <2>1
  <2>2. CASE offline_message' = [offline_message EXCEPT ![u] = <<>>]
             /\ UNCHANGED <<user_state, db_faults>>
    BY <2>2 DEF StoreTypeOK
  <2> QED BY <1>7, <2>1, <2>2 DEF DeleteOfflineMessageByUserId
<1> QED BY <1>1, <1>2, <1>3, <1>4, <1>5, <1>6, <1>7

LEMMA BusTypes ==
  ASSUME BusTypeOK, NEW s \in Servers
  PROVE  /\ \A u \in Users : Subscribe(s, u) => BusTypeOK'
         /\ \A u \in Users \cup {NoUser} : Unsubscribe(s, u) => BusTypeOK'
         /\ RedisExecute(s) => BusTypeOK'
         /\ \A u \in Users, m \in Msgs : Publish(u, m) => BusTypeOK'
         /\ GetReply(s) => BusTypeOK' /\ Head(pushed[s]) \in Pushes
         /\ DropClient(s) => BusTypeOK'
<1>1. ASSUME NEW u \in Users, Subscribe(s, u)
      PROVE  BusTypeOK'
  <2>1. [op |-> "SUBSCRIBE", user |-> u] \in Commands
    BY DEF Commands
  <2> QED BY <1>1, <2>1 DEF BusTypeOK, Subscribe
<1>2. ASSUME NEW u \in Users \cup {NoUser}, Unsubscribe(s, u)
      PROVE  BusTypeOK'
  <2>1. [op |-> "UNSUBSCRIBE", user |-> u] \in Commands
    BY DEF Commands
  <2> QED BY <1>2, <2>1 DEF BusTypeOK, Unsubscribe
<1>3. ASSUME RedisExecute(s)
      PROVE  BusTypeOK'
  <2>1. sub_cmds[s] \in Seq(Commands) /\ sub_cmds[s] # <<>>
    BY <1>3 DEF BusTypeOK, RedisExecute
  <2>2. Head(sub_cmds[s]) \in Commands /\ Tail(sub_cmds[s]) \in Seq(Commands)
    BY <2>1
  <2>3. Head(sub_cmds[s]).op = "SUBSCRIBE" => Head(sub_cmds[s]).user \in Users
    BY <2>2 DEF Commands
  <2>4. subscribed' \in [Servers -> SUBSET Users]
    BY <1>3, <2>3 DEF BusTypeOK, RedisExecute
  <2>5. sub_cmds' \in [Servers -> Seq(Commands)]
    BY <1>3, <2>2 DEF BusTypeOK, RedisExecute
  <2> QED BY <1>3, <2>4, <2>5 DEF BusTypeOK, RedisExecute
<1>4. ASSUME NEW u \in Users, NEW m \in Msgs, Publish(u, m)
      PROVE  BusTypeOK'
  <2>1. [user |-> u, msg |-> m] \in Pushes
    BY DEF Pushes
  <2> QED BY <1>4, <2>1 DEF BusTypeOK, Publish
<1>5. ASSUME GetReply(s)
      PROVE  BusTypeOK' /\ Head(pushed[s]) \in Pushes
  BY <1>5 DEF BusTypeOK, GetReply
<1>6. ASSUME DropClient(s)
      PROVE  BusTypeOK'
  BY <1>6 DEF BusTypeOK, DropClient
<1> QED BY <1>1, <1>2, <1>3, <1>4, <1>5, <1>6

LEMMA WriteTypes ==
  ASSUME outbox \in [Conns -> Seq(Replies)], NEW c \in Conns,
         NEW item \in Replies, Write(c, item)
  PROVE  outbox' \in [Conns -> Seq(Replies)]
  BY DEF Write

LEMMA ReplyTypes ==
  ASSUME NEW u \in Users
  PROVE  /\ \A errno \in 0..2, rows \in Seq(Msgs) : Ack(u, errno, rows) \in Replies
         /\ \A m \in Msgs : Chat(u, m) \in Replies
  BY DEF Ack, Chat, Replies

LEMMA AnswerTypes ==
  ASSUME client \in [Conns -> ClientStates], \A d \in Conns : ClientLocals(d),
         NEW c \in Conns, NEW u \in Users, NEW errno \in 0..2, Answer(c, u, errno)
  PROVE  /\ client' \in [Conns -> ClientStates]
         /\ \A d \in Conns : ClientLocals(d)'
  BY DEF Answer, ClientStates, ClientLocals

LEMMA OnMessageTypes ==
  ASSUME inbox \in [Conns -> Seq(Requests)], NEW s \in Servers, NEW c \in Conns,
         NEW r, OnMessage(s, c, r)
  PROVE  inbox' \in [Conns -> Seq(Requests)] /\ r \in Requests /\ loop[s].pc = "poll"
<1>1. inbox[c] \in Seq(Requests) /\ inbox[c] # <<>> /\ r = Head(inbox[c])
  BY DEF OnMessage
<1>2. PICK n \in 1..MaxRead :
        /\ n <= Len(inbox[c])
        /\ inbox' = [inbox EXCEPT ![c] = SubSeq(@, n + 1, Len(@))]
  BY DEF OnMessage
<1>3. SubSeq(inbox[c], n + 1, Len(inbox[c])) \in Seq(Requests)
  BY <1>1, <1>2
<1> QED BY <1>1, <1>2, <1>3 DEF OnMessage, LoopAt

LEMMA TypeInit == Init => TypeInv
<1> SUFFICES ASSUME Init PROVE TypeInv
  OBVIOUS
<1>1. TypeOK
  BY SentinelAssumption
  DEF Init, StoreInit, BusInit, TypeOK, StoreTypeOK, BusTypeOK,
      UserStates, Polling, Reading, LoopStates, LoopPcs, ObserverStates, ConnStates,
      ClientStates
<1>2. \A s \in Servers : LoopLocals(s) /\ DueFunctors(s) /\ ObserverLocals(s)
  BY DEF Init, LoopLocals, DueFunctors, ObserverLocals, Polling, Reading,
         LoginPcs, LogoutPcs, ChatPcs, ClosePcs
<1>3. \A c \in Conns : ClientLocals(c)
  BY DEF Init, ClientLocals
<1> QED BY <1>1, <1>2, <1>3 DEF TypeInv

LEMMA TypeClient ==
  ASSUME TypeInv, NEW c \in Conns, ClientNext(c)
  PROVE  TypeInv'
<1>t. /\ conn \in [Conns -> ConnStates]
      /\ client \in [Conns -> ClientStates]
      /\ inbox \in [Conns -> Seq(Requests)]
  BY DEF TypeInv, TypeOK
<1>l. \A d \in Conns : ClientLocals(d)
  BY DEF TypeInv
<1>1. CASE Connect(c)
  <2>1. conn' \in [Conns -> ConnStates]
    BY <1>1, <1>t DEF Connect, ConnStates
  <2>2. client' \in [Conns -> ClientStates] /\ \A d \in Conns : ClientLocals(d)'
    BY <1>1, <1>t, <1>l DEF Connect, ClientStates, ClientLocals
  <2> QED
    BY <1>1, <2>1, <2>2
    DEF Connect, TypeInv, TypeOK, StoreTypeOK, BusTypeOK, LoopLocals, DueFunctors,
        ObserverLocals
<1>2. ASSUME NEW u \in Users, NEW pwd \in Passwords, ClientLogin(c, u, pwd)
      PROVE  TypeInv'
  <2>1. client' \in [Conns -> ClientStates] /\ \A d \in Conns : ClientLocals(d)'
    BY <1>2, <1>t, <1>l DEF ClientLogin, ClientStates, ClientLocals
  <2>2. inbox' \in [Conns -> Seq(Requests)]
    BY <1>2, <1>t DEF ClientLogin, SendRequest, Requests
  <2> QED
    BY <1>2, <2>1, <2>2
    DEF ClientLogin, SendRequest, TypeInv, TypeOK, StoreTypeOK, BusTypeOK, LoopLocals,
        DueFunctors, ObserverLocals
<1>3. ASSUME NEW u \in Users, NEW m \in Msgs, ClientChat(c, u, m)
      PROVE  TypeInv'
  <2>1. inbox' \in [Conns -> Seq(Requests)]
    BY <1>3, <1>t DEF ClientChat, SendRequest, Requests
  <2>2. msg_to' \in [Msgs -> Users \cup {NoUser}]
    BY <1>3 DEF ClientChat, TypeInv, TypeOK
  <2> QED
    BY <1>3, <2>1, <2>2
    DEF ClientChat, SendRequest, TypeInv, TypeOK, StoreTypeOK, BusTypeOK, LoopLocals,
        DueFunctors, ObserverLocals, ClientLocals
<1>4. CASE ClientLogout(c)
  <2>1. client' \in [Conns -> ClientStates] /\ \A d \in Conns : ClientLocals(d)'
    BY <1>4, <1>t, <1>l DEF ClientLogout, ClientStates, ClientLocals
  <2>2. client[c].user \in Users
    BY <1>4, <1>l DEF ClientLogout, ClientLocals
  <2>3. inbox' \in [Conns -> Seq(Requests)]
    BY <1>4, <1>t, <2>2 DEF ClientLogout, SendRequest, Requests
  <2> QED
    BY <1>4, <2>1, <2>3
    DEF ClientLogout, SendRequest, TypeInv, TypeOK, StoreTypeOK, BusTypeOK, LoopLocals,
        DueFunctors, ObserverLocals
<1>5. CASE ClientClose(c)
  <2>1. client' \in [Conns -> ClientStates] /\ \A d \in Conns : ClientLocals(d)'
    BY <1>5, <1>t, <1>l DEF ClientClose, ClientStates, ClientLocals
  <2> QED
    BY <1>5, <2>1
    DEF ClientClose, TypeInv, TypeOK, StoreTypeOK, BusTypeOK, LoopLocals, DueFunctors,
        ObserverLocals
<1> QED BY <1>1, <1>2, <1>3, <1>4, <1>5 DEF ClientNext

LEMMA TypeServe ==
  ASSUME TypeInv, NEW s \in Servers, NEW c \in Conns, ServeConn(s, c)
  PROVE  TypeInv'
<1>l. loop \in [Servers -> LoopStates]
  BY DEF TypeInv, TypeOK
<1>i. inbox \in [Conns -> Seq(Requests)]
  BY DEF TypeInv, TypeOK
<1>o. outbox \in [Conns -> Seq(Replies)]
  BY DEF TypeInv, TypeOK
<1>c. client \in [Conns -> ClientStates] /\ \A d \in Conns : ClientLocals(d)
  BY DEF TypeInv, TypeOK
<1>m. user_conn_map \in [Servers -> [Users -> Conns \cup {NoConn}]]
  BY DEF TypeInv, TypeOK
<1>p. {"login_insert", "logout_unsubscribe", "chat_query", "close_lock"} \subseteq LoopPcs
  BY DEF LoopPcs
<1>1. ASSUME NEW u \in Users, NEW pwd \in Passwords, HandlerLogin(s, c, u, pwd)
      PROVE  TypeInv'
  <2>1. inbox' \in [Conns -> Seq(Requests)]
    BY <1>1, <1>i, OnMessageTypes DEF HandlerLogin
  <2>2. StoreTypeOK'
    <3>1. PICK res \in QueryResults : Query(u, res)
      BY <1>1 DEF HandlerLogin
    <3> QED BY <3>1, StoreTypes DEF TypeInv, TypeOK
  <2>3. \/ \E errno \in {1, 2} :
             /\ Write(c, Ack(u, errno, <<>>)) /\ Answer(c, u, errno) /\ UNCHANGED loop
        \/ Enter(s, "login_insert", c, u, NoMsg) /\ UNCHANGED <<outbox, client>>
    BY <1>1 DEF HandlerLogin
  <2>4. CASE \E errno \in {1, 2} :
             /\ Write(c, Ack(u, errno, <<>>)) /\ Answer(c, u, errno) /\ UNCHANGED loop
    <3>1. PICK errno \in {1, 2} :
             /\ Write(c, Ack(u, errno, <<>>)) /\ Answer(c, u, errno) /\ UNCHANGED loop
      BY <2>4
    <3>2. outbox' \in [Conns -> Seq(Replies)]
      <4>1. Ack(u, errno, <<>>) \in Replies
        BY DEF Ack, Replies
      <4> QED BY <3>1, <4>1, <1>o, WriteTypes
    <3>3. client' \in [Conns -> ClientStates] /\ \A d \in Conns : ClientLocals(d)'
      BY <3>1, <1>c, AnswerTypes
    <3> QED
      BY <1>1, <2>1, <2>2, <3>1, <3>2, <3>3
      DEF HandlerLogin, TypeInv, TypeOK, BusTypeOK, LoopLocals, DueFunctors, ObserverLocals
  <2>5. CASE Enter(s, "login_insert", c, u, NoMsg) /\ UNCHANGED <<outbox, client>>
    <3>1. /\ loop' \in [Servers -> LoopStates]
          /\ loop'[s].pc = "login_insert" /\ loop'[s].conn = c /\ loop'[s].user = u
          /\ \A r \in Servers : r # s => loop'[r] = loop[r]
      BY <2>5, <1>l, <1>p, EnterEffect
    <3>2. \A r \in Servers : LoopLocals(r)' /\ DueFunctors(r)'
      BY <1>1, <3>1
      DEF HandlerLogin, TypeInv, LoopLocals, DueFunctors, LoginPcs, LogoutPcs, ChatPcs, ClosePcs
    <3> QED
      BY <1>1, <2>1, <2>2, <2>5, <3>1, <3>2
      DEF HandlerLogin, TypeInv, TypeOK, BusTypeOK, ObserverLocals, ClientLocals
  <2> QED BY <2>3, <2>4, <2>5
<1>2. ASSUME NEW u \in Users, HandlerLogout(s, c, u)
      PROVE  TypeInv'
  <2>1. inbox' \in [Conns -> Seq(Requests)]
    BY <1>2, <1>i, OnMessageTypes DEF HandlerLogout
  <2>2. user_conn_map' \in [Servers -> [Users -> Conns \cup {NoConn}]]
    BY <1>2, <1>m DEF HandlerLogout
  <2>3. /\ loop' \in [Servers -> LoopStates]
        /\ loop'[s].pc = "logout_unsubscribe" /\ loop'[s].user = u
        /\ \A r \in Servers : r # s => loop'[r] = loop[r]
    <3>1. Enter(s, "logout_unsubscribe", NoConn, u, NoMsg)
      BY <1>2 DEF HandlerLogout
    <3> QED BY <3>1, <1>l, <1>p, EnterEffect
  <2>4. \A r \in Servers : LoopLocals(r)' /\ DueFunctors(r)'
    BY <1>2, <2>3
    DEF HandlerLogout, TypeInv, LoopLocals, DueFunctors, LoginPcs, LogoutPcs, ChatPcs, ClosePcs
  <2> QED
    BY <1>2, <2>1, <2>2, <2>3, <2>4
    DEF HandlerLogout, TypeInv, TypeOK, StoreTypeOK, BusTypeOK, ObserverLocals, ClientLocals
<1>3. ASSUME NEW u \in Users, NEW m \in Msgs, HandlerDirectChat(s, c, u, m)
      PROVE  TypeInv'
  <2>1. inbox' \in [Conns -> Seq(Requests)]
    BY <1>3, <1>i, OnMessageTypes DEF HandlerDirectChat
  <2>2. CASE user_conn_map[s][u] # NoConn /\ Write(user_conn_map[s][u], Chat(u, m))
              /\ UNCHANGED loop
    <3>1. user_conn_map[s][u] \in Conns
      BY <1>m, <2>2
    <3>2. outbox' \in [Conns -> Seq(Replies)]
      BY <2>2, <3>1, <1>o, WriteTypes, ReplyTypes
    <3> QED
      BY <1>3, <2>1, <2>2, <3>2
      DEF HandlerDirectChat, TypeInv, TypeOK, StoreTypeOK, BusTypeOK, LoopLocals,
          DueFunctors, ObserverLocals, ClientLocals
  <2>3. CASE Enter(s, "chat_query", NoConn, u, m) /\ UNCHANGED outbox
    <3>1. /\ loop' \in [Servers -> LoopStates]
          /\ loop'[s].pc = "chat_query" /\ loop'[s].user = u /\ loop'[s].msg = m
          /\ \A r \in Servers : r # s => loop'[r] = loop[r]
      BY <2>3, <1>l, <1>p, EnterEffect
    <3>2. \A r \in Servers : LoopLocals(r)' /\ DueFunctors(r)'
      BY <1>3, <3>1
      DEF HandlerDirectChat, TypeInv, LoopLocals, DueFunctors, LoginPcs, LogoutPcs,
          ChatPcs, ClosePcs
    <3> QED
      BY <1>3, <2>1, <2>3, <3>1, <3>2
      DEF HandlerDirectChat, TypeInv, TypeOK, StoreTypeOK, BusTypeOK, ObserverLocals,
          ClientLocals
  <2> QED BY <1>3, <2>2, <2>3 DEF HandlerDirectChat
<1>4. CASE HandleClose(s, c)
  <2>1. conn' \in [Conns -> ConnStates]
    <3>1. conn \in [Conns -> ConnStates]
      BY DEF TypeInv, TypeOK
    <3> QED BY <1>4, <3>1 DEF HandleClose, ConnStates
  <2>2. /\ loop' \in [Servers -> LoopStates]
        /\ loop'[s].pc = "close_lock" /\ loop'[s].conn = c
        /\ \A r \in Servers : r # s => loop'[r] = loop[r]
    <3>1. Enter(s, "close_lock", c, NoUser, NoMsg)
      BY <1>4 DEF HandleClose
    <3> QED BY <3>1, <1>l, <1>p, EnterEffect
  <2>3. \A r \in Servers : LoopLocals(r)' /\ DueFunctors(r)'
    BY <1>4, <2>2
    DEF HandleClose, TypeInv, LoopLocals, DueFunctors, LoginPcs, LogoutPcs, ChatPcs, ClosePcs
  <2> QED
    BY <1>4, <2>1, <2>2, <2>3
    DEF HandleClose, TypeInv, TypeOK, StoreTypeOK, BusTypeOK, ObserverLocals, ClientLocals
<1> QED BY <1>1, <1>2, <1>3, <1>4 DEF ServeConn

LEMMA TypeLoop ==
  ASSUME TypeInv, NEW s \in Servers, LoopStep(s)
  PROVE  TypeInv'
<1>l. loop \in [Servers -> LoopStates] /\ LoopLocals(s)
  BY DEF TypeInv, TypeOK
<1>m. user_conn_map \in [Servers -> [Users -> Conns \cup {NoConn}]]
  BY DEF TypeInv, TypeOK
<1>d. StoreTypeOK
  BY DEF TypeInv, TypeOK
<1>b. BusTypeOK
  BY DEF TypeInv, TypeOK
<1>f. functors \in [Servers -> Seq(Functors)] /\ due \in [Servers -> Nat]
  BY DEF TypeInv, TypeOK
<1>o. outbox \in [Conns -> Seq(Replies)]
  BY DEF TypeInv, TypeOK
<1>a. abandoned \in SUBSET Users
  BY DEF TypeInv, TypeOK
<1>s. ASSUME NEW u \in Users, SetOffline(u)
      PROVE  StoreTypeOK' /\ abandoned' \in SUBSET Users
  BY <1>s, <1>d, <1>a, StoreTypes DEF SetOffline, UserStates
<1>g. ASSUME NEW pc \in LoopPcs, Goto(s, pc), UNCHANGED <<functors, due>>, pc # "functors",
             loop[s].pc \in LoginPcs => pc \in LoginPcs,
             loop[s].pc \in LogoutPcs => pc \in LogoutPcs,
             loop[s].pc \in ChatPcs => pc \in ChatPcs,
             loop[s].pc \in ClosePcs => pc \in ClosePcs,
             loop[s].pc \in LoginPcs \cup LogoutPcs \cup ChatPcs \cup ClosePcs
      PROVE  /\ loop' \in [Servers -> LoopStates]
             /\ \A r \in Servers : LoopLocals(r)' /\ DueFunctors(r)'
  <2>1. /\ loop' \in [Servers -> LoopStates]
        /\ loop'[s].pc = pc /\ loop'[s].conn = loop[s].conn
        /\ loop'[s].user = loop[s].user /\ loop'[s].msg = loop[s].msg
        /\ \A r \in Servers : r # s => loop'[r] = loop[r]
    BY <1>g, <1>l, GotoEffect
  <2>2. LoopLocals(s)' /\ DueFunctors(s)'
    BY <1>g, <1>l, <2>1 DEF LoopLocals, DueFunctors, LoginPcs, LogoutPcs, ChatPcs, ClosePcs
  <2>3. \A r \in Servers : r # s => LoopLocals(r)' /\ DueFunctors(r)'
    BY <1>g, <2>1 DEF TypeInv, LoopLocals, DueFunctors
  <2> QED BY <2>1, <2>2, <2>3
<1>q. ASSUME BackToPoll(s), UNCHANGED <<functors, due>>
      PROVE  /\ loop' \in [Servers -> LoopStates]
             /\ \A r \in Servers : LoopLocals(r)' /\ DueFunctors(r)'
  <2>1. /\ loop' \in [Servers -> LoopStates]
        /\ loop'[s].pc = "poll"
        /\ \A r \in Servers : r # s => loop'[r] = loop[r]
    BY <1>q, <1>l, PollEffect
  <2> QED
    BY <1>q, <2>1 DEF TypeInv, LoopLocals, DueFunctors, LoginPcs, LogoutPcs, ChatPcs, ClosePcs
<1>1. CASE LoginInsert(s)
  <2>1. user_conn_map' \in [Servers -> [Users -> Conns \cup {NoConn}]]
    BY <1>1, <1>l, <1>m DEF LoginInsert, LoopAt, LoopLocals, LoginPcs, LogoutPcs, ChatPcs
  <2>2. /\ loop' \in [Servers -> LoopStates]
        /\ \A r \in Servers : LoopLocals(r)' /\ DueFunctors(r)'
    BY <1>1, <1>g DEF LoginInsert, LoopAt, LoopPcs, LoginPcs, LogoutPcs, ChatPcs, ClosePcs
  <2> QED
    BY <1>1, <2>1, <2>2
    DEF LoginInsert, TypeInv, TypeOK, StoreTypeOK, BusTypeOK, ObserverLocals, ClientLocals
<1>2. CASE LoginSubscribe(s)
  <2>1. BusTypeOK'
    BY <1>2, <1>l, <1>b, BusTypes DEF LoginSubscribe, LoopAt, LoopLocals, LoginPcs
  <2>2. /\ loop' \in [Servers -> LoopStates]
        /\ \A r \in Servers : LoopLocals(r)' /\ DueFunctors(r)'
    BY <1>2, <1>g DEF LoginSubscribe, LoopAt, LoopPcs, LoginPcs, LogoutPcs, ChatPcs, ClosePcs
  <2> QED
    BY <1>2, <2>1, <2>2
    DEF LoginSubscribe, TypeInv, TypeOK, StoreTypeOK, ObserverLocals, ClientLocals
<1>3. CASE LoginOnline(s)
  <2>1. StoreTypeOK' /\ abandoned' \in SUBSET Users
    BY <1>3, <1>l, <1>d, <1>a, StoreTypes
    DEF LoginOnline, LoopAt, LoopLocals, LoginPcs, UserStates
  <2>2. /\ loop' \in [Servers -> LoopStates]
        /\ \A r \in Servers : LoopLocals(r)' /\ DueFunctors(r)'
    BY <1>3, <1>g DEF LoginOnline, LoopAt, LoopPcs, LoginPcs, LogoutPcs, ChatPcs, ClosePcs
  <2> QED
    BY <1>3, <2>1, <2>2
    DEF LoginOnline, TypeInv, TypeOK, BusTypeOK, ObserverLocals, ClientLocals
<1>4. CASE LoginQueryOffline(s)
  <2>1. PICK rows :
          /\ QueryOfflineMessages(loop[s].user, rows)
          /\ loop' = [loop EXCEPT
                ![s].pc = IF rows = <<>> THEN "login_ack" ELSE "login_delete",
                ![s].rows = rows]
    BY <1>4 DEF LoginQueryOffline
  <2>2. loop[s].pc = "login_query" /\ loop[s].user \in Users /\ loop[s].conn \in Conns
    BY <1>4, <1>l DEF LoginQueryOffline, LoopAt, LoopLocals, LoginPcs
  <2>3. StoreTypeOK' /\ rows \in Seq(Msgs)
    BY <2>1, <2>2, <1>d, StoreTypes
  <2>4. /\ loop' \in [Servers -> LoopStates]
        /\ loop'[s].pc \in {"login_ack", "login_delete"}
        /\ loop'[s].user = loop[s].user /\ loop'[s].conn = loop[s].conn
        /\ \A r \in Servers : r # s => loop'[r] = loop[r]
    <3>1. PICK pc \in {"login_ack", "login_delete"} :
            loop' = [loop EXCEPT ![s].pc = pc, ![s].rows = rows]
      BY <2>1
    <3>2. pc \in LoopPcs /\ pc \in {"login_ack", "login_delete"}
      BY DEF LoopPcs
    <3>3. [loop[s] EXCEPT !.pc = pc, !.rows = rows] \in LoopStates
      <4>1. loop[s] \in LoopStates
        BY <1>l
      <4> QED BY <4>1, <3>2, <2>3 DEF LoopStates
    <3>4. loop' = [loop EXCEPT ![s] = [loop[s] EXCEPT !.pc = pc, !.rows = rows]]
      BY <3>1, <1>l
    <3>5. loop' \in [Servers -> LoopStates]
      BY <3>3, <3>4, <1>l
    <3> QED BY <3>1, <3>2, <3>5, <1>l DEF LoopStates
  <2>5. \A r \in Servers : LoopLocals(r)' /\ DueFunctors(r)'
    BY <1>4, <2>2, <2>4
    DEF LoginQueryOffline, TypeInv, LoopLocals, DueFunctors, LoginPcs, LogoutPcs, ChatPcs,
        ClosePcs
  <2> QED
    BY <1>4, <2>3, <2>4, <2>5
    DEF LoginQueryOffline, TypeInv, TypeOK, BusTypeOK, ObserverLocals, ClientLocals
<1>5. CASE LoginDeleteOffline(s)
  <2>1. StoreTypeOK'
    BY <1>5, <1>l, <1>d, StoreTypes DEF LoginDeleteOffline, LoopAt, LoopLocals, LoginPcs
  <2>2. /\ loop' \in [Servers -> LoopStates]
        /\ \A r \in Servers : LoopLocals(r)' /\ DueFunctors(r)'
    BY <1>5, <1>g DEF LoginDeleteOffline, LoopAt, LoopPcs, LoginPcs, LogoutPcs, ChatPcs, ClosePcs
  <2> QED
    BY <1>5, <2>1, <2>2
    DEF LoginDeleteOffline, TypeInv, TypeOK, BusTypeOK, ObserverLocals, ClientLocals
<1>6. CASE LoginAck(s)
  <2>1. loop[s].user \in Users /\ loop[s].conn \in Conns /\ loop[s].rows \in Seq(Msgs)
    BY <1>6, <1>l DEF LoginAck, LoopAt, LoopLocals, LoginPcs, LoopStates
  <2>2. outbox' \in [Conns -> Seq(Replies)]
    <3>1. Ack(loop[s].user, 0, loop[s].rows) \in Replies
      BY <2>1 DEF Ack, Replies
    <3> QED BY <1>6, <2>1, <3>1, <1>o, WriteTypes DEF LoginAck
  <2>3. client' \in [Conns -> ClientStates] /\ \A d \in Conns : ClientLocals(d)'
    <3>1. client \in [Conns -> ClientStates] /\ \A d \in Conns : ClientLocals(d)
      BY DEF TypeInv, TypeOK
    <3>2. Answer(loop[s].conn, loop[s].user, 0) /\ 0 \in 0..2
      BY <1>6 DEF LoginAck
    <3> QED BY <2>1, <3>1, <3>2, AnswerTypes
  <2>4. /\ loop' \in [Servers -> LoopStates]
        /\ \A r \in Servers : LoopLocals(r)' /\ DueFunctors(r)'
    BY <1>6, <1>q DEF LoginAck
  <2> QED
    BY <1>6, <2>2, <2>3, <2>4
    DEF LoginAck, TypeInv, TypeOK, StoreTypeOK, BusTypeOK, ObserverLocals
<1>7. CASE LogoutUnsubscribe(s)
  <2>1. BusTypeOK'
    BY <1>7, <1>l, <1>b, BusTypes DEF LogoutUnsubscribe, LoopAt, LoopLocals, LogoutPcs
  <2>2. /\ loop' \in [Servers -> LoopStates]
        /\ \A r \in Servers : LoopLocals(r)' /\ DueFunctors(r)'
    BY <1>7, <1>g DEF LogoutUnsubscribe, LoopAt, LoopPcs, LoginPcs, LogoutPcs, ChatPcs, ClosePcs
  <2> QED
    BY <1>7, <2>1, <2>2
    DEF LogoutUnsubscribe, TypeInv, TypeOK, StoreTypeOK, ObserverLocals, ClientLocals
<1>8. CASE LogoutOffline(s)
  <2>1. StoreTypeOK' /\ abandoned' \in SUBSET Users
    BY <1>8, <1>l, <1>s DEF LogoutOffline, LoopAt, LoopLocals, LogoutPcs
  <2>2. /\ loop' \in [Servers -> LoopStates]
        /\ \A r \in Servers : LoopLocals(r)' /\ DueFunctors(r)'
    BY <1>8, <1>q DEF LogoutOffline
  <2> QED
    BY <1>8, <2>1, <2>2
    DEF LogoutOffline, TypeInv, TypeOK, BusTypeOK, ObserverLocals, ClientLocals
<1>9. CASE ChatQuery(s)
  <2>1. PICK res \in QueryResults :
          /\ Query(loop[s].user, res)
          /\ Goto(s, IF res.state = "online" THEN "chat_publish" ELSE "chat_store")
    BY <1>9 DEF ChatQuery
  <2>2. StoreTypeOK'
    BY <1>9, <2>1, <1>l, <1>d, StoreTypes DEF ChatQuery, LoopAt, LoopLocals, ChatPcs
  <2>3. /\ loop' \in [Servers -> LoopStates]
        /\ \A r \in Servers : LoopLocals(r)' /\ DueFunctors(r)'
    BY <1>9, <2>1, <1>g DEF ChatQuery, LoopAt, LoopPcs, LoginPcs, LogoutPcs, ChatPcs, ClosePcs
  <2> QED
    BY <1>9, <2>2, <2>3
    DEF ChatQuery, TypeInv, TypeOK, BusTypeOK, ObserverLocals, ClientLocals
<1>10. CASE ChatPublish(s)
  <2>1. BusTypeOK'
    BY <1>10, <1>l, <1>b, BusTypes DEF ChatPublish, LoopAt, LoopLocals, ChatPcs
  <2>2. /\ loop' \in [Servers -> LoopStates]
        /\ \A r \in Servers : LoopLocals(r)' /\ DueFunctors(r)'
    BY <1>10, <1>q DEF ChatPublish
  <2> QED
    BY <1>10, <2>1, <2>2
    DEF ChatPublish, TypeInv, TypeOK, StoreTypeOK, ObserverLocals, ClientLocals
<1>11. CASE ChatStoreOffline(s)
  <2>1. StoreTypeOK'
    BY <1>11, <1>l, <1>d, StoreTypes DEF ChatStoreOffline, LoopAt, LoopLocals, ChatPcs
  <2>2. /\ loop' \in [Servers -> LoopStates]
        /\ \A r \in Servers : LoopLocals(r)' /\ DueFunctors(r)'
    BY <1>11, <1>q DEF ChatStoreOffline
  <2> QED
    BY <1>11, <2>1, <2>2
    DEF ChatStoreOffline, TypeInv, TypeOK, BusTypeOK, ObserverLocals, ClientLocals
<1>12. CASE CloseErase(s)
  <2>1. conn_mtx' \in [Servers -> {"free", "loop", "observer"}]
    <3>1. conn_mtx \in [Servers -> {"free", "loop", "observer"}]
      BY DEF TypeInv, TypeOK
    <3> QED BY <1>12, <3>1 DEF CloseErase
  <2>2. PICK u \in Users \cup {NoUser} :
          /\ \/ UNCHANGED user_conn_map
             \/ u \in Users /\ user_conn_map' = [user_conn_map EXCEPT ![s][u] = NoConn]
          /\ \/ Goto(s, "close_unsubscribe")
             \/ loop' = [loop EXCEPT ![s].pc = "close_unsubscribe", ![s].user = u]
    BY <1>12 DEF CloseErase
  <2>3. user_conn_map' \in [Servers -> [Users -> Conns \cup {NoConn}]]
    BY <2>2, <1>m
  <2>4. loop[s].pc = "close_lock" /\ loop[s].conn \in Conns
    BY <1>12, <1>l DEF CloseErase, LoopAt, LoopLocals, ClosePcs
  <2>5. "close_unsubscribe" \in LoopPcs
    BY DEF LoopPcs
  <2>6. /\ loop' \in [Servers -> LoopStates]
        /\ loop'[s].pc = "close_unsubscribe" /\ loop'[s].conn = loop[s].conn
        /\ \A r \in Servers : r # s => loop'[r] = loop[r]
    <3>1. CASE Goto(s, "close_unsubscribe")
      BY <3>1, <2>5, <1>l, GotoEffect
    <3>2. CASE loop' = [loop EXCEPT ![s].pc = "close_unsubscribe", ![s].user = u]
      <4> DEFINE next == [loop[s] EXCEPT !.pc = "close_unsubscribe", !.user = u]
      <4>1. loop[s] \in LoopStates
        BY <1>l
      <4>2. next \in LoopStates /\ next.pc = "close_unsubscribe" /\ next.conn = loop[s].conn
        BY <4>1, <2>5 DEF LoopStates
      <4>3. loop' = [loop EXCEPT ![s] = next]
        BY <3>2, <1>l
      <4> HIDE DEF next
      <4> QED BY <4>2, <4>3, <1>l
    <3> QED BY <2>2, <3>1, <3>2
  <2>7. \A r \in Servers : LoopLocals(r)' /\ DueFunctors(r)'
    BY <1>12, <2>4, <2>6
    DEF CloseErase, TypeInv, LoopLocals, DueFunctors, LoginPcs, LogoutPcs, ChatPcs, ClosePcs
  <2> QED
    BY <1>12, <2>1, <2>3, <2>6, <2>7
    DEF CloseErase, TypeInv, TypeOK, StoreTypeOK, BusTypeOK, ObserverLocals, ClientLocals
<1>13. CASE CloseUnsubscribe(s)
  <2>1. BusTypeOK'
    BY <1>13, <1>l, <1>b, BusTypes DEF CloseUnsubscribe, LoopStates
  <2>2. /\ loop' \in [Servers -> LoopStates]
        /\ \A r \in Servers : LoopLocals(r)' /\ DueFunctors(r)'
    BY <1>13, <1>g DEF CloseUnsubscribe, LoopAt, LoopPcs, LoginPcs, LogoutPcs, ChatPcs, ClosePcs
  <2> QED
    BY <1>13, <2>1, <2>2
    DEF CloseUnsubscribe, TypeInv, TypeOK, StoreTypeOK, ObserverLocals, ClientLocals
<1>14. CASE CloseOffline(s)
  <2>1. StoreTypeOK' /\ abandoned' \in SUBSET Users
    <3>1. CASE loop[s].user = NoUser
      BY <1>14, <3>1, <1>d, <1>a DEF CloseOffline, StoreTypeOK
    <3>2. CASE loop[s].user # NoUser
      <4>1. loop[s].user \in Users
        BY <3>2, <1>l DEF LoopStates
      <4> QED BY <1>14, <3>2, <4>1, <1>s DEF CloseOffline
    <3> QED BY <3>1, <3>2
  <2>2. conn_mtx' \in [Servers -> {"free", "loop", "observer"}]
    <3>1. conn_mtx \in [Servers -> {"free", "loop", "observer"}]
      BY DEF TypeInv, TypeOK
    <3> QED BY <1>14, <3>1 DEF CloseOffline
  <2>3. functors' \in [Servers -> Seq(Functors)]
    <3>1. [kind |-> "destroy", conn |-> loop[s].conn] \in Functors
      BY <1>14, <1>l DEF CloseOffline, LoopAt, LoopLocals, ClosePcs, Functors
    <3> QED BY <1>14, <3>1, <1>f DEF CloseOffline
  <2>4. /\ loop' \in [Servers -> LoopStates] /\ loop'[s].pc = "poll"
        /\ \A r \in Servers : r # s => loop'[r] = loop[r]
    BY <1>14, <1>l, PollEffect DEF CloseOffline
  <2>5. \A r \in Servers : r # s => functors'[r] = functors[r]
    BY <1>14, <1>f DEF CloseOffline
  <2>6. \A r \in Servers : LoopLocals(r)' /\ DueFunctors(r)'
    BY <1>14, <2>4, <2>5
    DEF CloseOffline, TypeInv, LoopLocals, DueFunctors, LoginPcs, LogoutPcs, ChatPcs, ClosePcs
  <2> QED
    BY <1>14, <2>1, <2>2, <2>3, <2>4, <2>6
    DEF CloseOffline, TypeInv, TypeOK, BusTypeOK, ObserverLocals, ClientLocals
<1>15. CASE DoPendingFunctors(s)
  <2>1. functors[s] \in Seq(Functors) /\ functors[s] # <<>>
    BY <1>15, <1>f DEF DoPendingFunctors
  <2>2. Len(functors[s]) \in Nat /\ Len(functors[s]) \in 1..Len(functors[s])
    BY <2>1
  <2>3. /\ due' \in [Servers -> Nat] /\ due'[s] = Len(functors[s])
        /\ \A r \in Servers : r # s => due'[r] = due[r]
    BY <1>15, <1>f, <2>2 DEF DoPendingFunctors
  <2>4. /\ loop' \in [Servers -> LoopStates] /\ loop'[s].pc = "functors"
        /\ \A r \in Servers : r # s => loop'[r] = loop[r]
    <3>1. "functors" \in LoopPcs /\ Goto(s, "functors")
      BY <1>15 DEF LoopPcs, DoPendingFunctors
    <3> QED BY <3>1, <1>l, GotoEffect
  <2>5. LoopLocals(s)' /\ DueFunctors(s)'
    BY <1>15, <2>2, <2>3, <2>4
    DEF DoPendingFunctors, LoopLocals, DueFunctors, LoginPcs, LogoutPcs, ChatPcs, ClosePcs
  <2>6. \A r \in Servers : r # s => LoopLocals(r)' /\ DueFunctors(r)'
    BY <1>15, <2>3, <2>4 DEF DoPendingFunctors, TypeInv, LoopLocals, DueFunctors
  <2> QED
    BY <1>15, <2>3, <2>4, <2>5, <2>6
    DEF DoPendingFunctors, TypeInv, TypeOK, StoreTypeOK, BusTypeOK, ObserverLocals, ClientLocals
<1>16. CASE RunFunctor(s)
  <2>1. /\ functors[s] \in Seq(Functors) /\ due[s] \in Nat
        /\ due[s] \in 1..Len(functors[s])
    BY <1>16, <1>f DEF RunFunctor, LoopAt, TypeInv, DueFunctors
  <2>2. /\ functors[s] # <<>> /\ Head(functors[s]) \in Functors
        /\ Tail(functors[s]) \in Seq(Functors)
        /\ Len(Tail(functors[s])) = Len(functors[s]) - 1
    BY <2>1
  <2>3. /\ functors' \in [Servers -> Seq(Functors)] /\ functors'[s] = Tail(functors[s])
        /\ \A r \in Servers : r # s => functors'[r] = functors[r]
    BY <1>16, <1>f, <2>2 DEF RunFunctor
  <2>4. /\ due' \in [Servers -> Nat] /\ due'[s] = due[s] - 1
        /\ \A r \in Servers : r # s => due'[r] = due[r]
    BY <1>16, <1>f, <2>1 DEF RunFunctor
  <2>5. conn' \in [Conns -> ConnStates] /\ outbox' \in [Conns -> Seq(Replies)]
    <3>1. conn \in [Conns -> ConnStates]
      BY DEF TypeInv, TypeOK
    <3>2. CASE Head(functors[s]).kind = "send"
      <4> DEFINE f == Head(functors[s])
      <4>1. f.conn \in Conns /\ f.user \in Users /\ f.msg \in Msgs
        BY <2>2, <3>2 DEF Functors
      <4>2. Chat(f.user, f.msg) \in Replies
        BY <4>1, ReplyTypes
      <4>3. Write(f.conn, Chat(f.user, f.msg)) /\ UNCHANGED conn
        BY <1>16, <3>2 DEF RunFunctor
      <4> QED BY <3>1, <4>1, <4>2, <4>3, <1>o, WriteTypes
    <3>3. CASE Head(functors[s]).kind = "destroy"
      <4> DEFINE f == Head(functors[s])
      <4>1. f.conn \in Conns
        BY <2>2, <3>3 DEF Functors
      <4>2. conn' = [conn EXCEPT ![f.conn].state = "destroyed"] /\ UNCHANGED outbox
        BY <1>16, <3>3 DEF RunFunctor
      <4> QED BY <3>1, <4>1, <4>2, <1>o DEF ConnStates
    <3> QED BY <1>16, <3>2, <3>3 DEF RunFunctor
  <2>6. /\ loop' \in [Servers -> LoopStates]
        /\ IF due[s] = 1 THEN loop'[s].pc = "poll" ELSE loop'[s] = loop[s]
        /\ \A r \in Servers : r # s => loop'[r] = loop[r]
    <3>1. CASE due[s] = 1
      BY <1>16, <3>1, <1>l, PollEffect DEF RunFunctor
    <3>2. CASE due[s] # 1
      BY <1>16, <3>2, <1>l DEF RunFunctor
    <3> QED BY <3>1, <3>2
  <2>7. LoopLocals(s)'
    BY <1>16, <2>6
    DEF RunFunctor, LoopAt, LoopLocals, LoginPcs, LogoutPcs, ChatPcs, ClosePcs
  <2>8. DueFunctors(s)'
    BY <1>16, <2>1, <2>2, <2>3, <2>4, <2>6 DEF RunFunctor, LoopAt, DueFunctors
  <2>9. \A r \in Servers : r # s => LoopLocals(r)' /\ DueFunctors(r)'
    BY <1>16, <2>3, <2>4, <2>6 DEF TypeInv, LoopLocals, DueFunctors
  <2> QED
    BY <1>16, <2>3, <2>4, <2>5, <2>6, <2>7, <2>8, <2>9
    DEF RunFunctor, TypeInv, TypeOK, StoreTypeOK, BusTypeOK, ObserverLocals, ClientLocals
<1> QED
  BY <1>1, <1>2, <1>3, <1>4, <1>5, <1>6, <1>7, <1>8, <1>9, <1>10, <1>11, <1>12, <1>13,
     <1>14, <1>15, <1>16
  DEF LoopStep

LEMMA ReadingType == Reading \in ObserverStates /\ Reading.pc = "reading"
  BY DEF Reading, ObserverStates

LEMMA TypeObserver ==
  ASSUME TypeInv, NEW s \in Servers, ObserverStep(s)
  PROVE  TypeInv'
<1>o. observer \in [Servers -> ObserverStates] /\ ObserverLocals(s)
  BY DEF TypeInv, TypeOK
<1>k. conn_mtx \in [Servers -> {"free", "loop", "observer"}]
  BY DEF TypeInv, TypeOK
<1>1. CASE StartObserving(s)
  <2>1. BusTypeOK' /\ Head(pushed[s]) \in Pushes
    BY <1>1, BusTypes DEF StartObserving, TypeInv, TypeOK
  <2>2. Head(pushed[s]).user \in Users /\ Head(pushed[s]).msg \in Msgs
    BY <2>1 DEF Pushes
  <2>3. [pc |-> "notify", user |-> Head(pushed[s]).user,
         msg |-> Head(pushed[s]).msg, conn |-> NoConn] \in ObserverStates
    BY <2>2 DEF ObserverStates
  <2>4. observer' \in [Servers -> ObserverStates]
    BY <1>1, <1>o, <2>3 DEF StartObserving
  <2>5. \A r \in Servers : ObserverLocals(r)'
    BY <1>1, <1>o, <2>2 DEF StartObserving, TypeInv, ObserverLocals
  <2> QED
    BY <1>1, <2>1, <2>4, <2>5
    DEF StartObserving, TypeInv, TypeOK, StoreTypeOK, LoopLocals, DueFunctors, ClientLocals
<1>2. CASE HandlerRedisSubscribeMessage(s)
  <2> DEFINE u == observer[s].user
             c == user_conn_map[s][u]
  <2>1. u \in Users /\ observer[s].msg \in Msgs
    BY <1>2, <1>o DEF HandlerRedisSubscribeMessage, ObserverLocals
  <2>2. c \in Conns \cup {NoConn}
    BY <2>1 DEF TypeInv, TypeOK
  <2>3. StoreTypeOK'
    <3>1. StoreTypeOK
      BY DEF TypeInv, TypeOK
    <3>2. StoreOfflineMessage(u, observer[s].msg) \/ UNCHANGED storeVars
      BY <1>2 DEF HandlerRedisSubscribeMessage
    <3>3. CASE StoreOfflineMessage(u, observer[s].msg)
      BY <3>1, <3>3, <2>1, StoreTypes
    <3>4. CASE UNCHANGED storeVars
      BY <3>1, <3>4 DEF StoreTypeOK
    <3> QED BY <3>2, <3>3, <3>4
  <2>4. conn_mtx' \in [Servers -> {"free", "loop", "observer"}]
    BY <1>2, <1>k DEF HandlerRedisSubscribeMessage
  <2>5. CASE c # NoConn /\ observer' = [observer EXCEPT ![s].pc = "queue", ![s].conn = c]
    <3>1. observer' \in [Servers -> ObserverStates]
      <4>1. [observer[s] EXCEPT !.pc = "queue", !.conn = c] \in ObserverStates
        <5>1. observer[s] \in ObserverStates
          BY <1>o
        <5> QED BY <5>1, <2>2 DEF ObserverStates
      <4>2. observer' = [observer EXCEPT ![s] =
                           [observer[s] EXCEPT !.pc = "queue", !.conn = c]]
        BY <2>5, <1>o
      <4> QED BY <4>1, <4>2, <1>o
    <3>2. /\ observer'[s].user = u /\ observer'[s].msg = observer[s].msg
          /\ observer'[s].conn = c
          /\ \A r \in Servers : r # s => observer'[r] = observer[r]
      BY <2>5, <1>o DEF ObserverStates
    <3>3. \A r \in Servers : ObserverLocals(r)'
      BY <2>1, <2>2, <2>5, <3>2 DEF TypeInv, ObserverLocals
    <3> QED
      BY <1>2, <2>3, <2>4, <3>1, <3>3
      DEF HandlerRedisSubscribeMessage, TypeInv, TypeOK, BusTypeOK, LoopLocals, DueFunctors,
          ClientLocals
  <2>6. CASE observer' = [observer EXCEPT ![s] = Reading]
    <3>1. observer' \in [Servers -> ObserverStates] /\ \A r \in Servers : ObserverLocals(r)'
      BY <2>6, <1>o, ReadingType DEF TypeInv, ObserverLocals
    <3> QED
      BY <1>2, <2>3, <2>4, <3>1
      DEF HandlerRedisSubscribeMessage, TypeInv, TypeOK, BusTypeOK, LoopLocals, DueFunctors,
          ClientLocals
  <2> QED BY <1>2, <2>5, <2>6 DEF HandlerRedisSubscribeMessage
<1>3. CASE QueueInLoop(s)
  <2> DEFINE f == [kind |-> "send", conn |-> observer[s].conn,
                   user |-> observer[s].user, msg |-> observer[s].msg]
  <2>1. f \in Functors
    BY <1>3, <1>o DEF QueueInLoop, ObserverLocals, Functors
  <2>2. functors \in [Servers -> Seq(Functors)]
    BY DEF TypeInv, TypeOK
  <2>3. /\ functors' \in [Servers -> Seq(Functors)]
        /\ functors'[s] = Append(functors[s], f)
        /\ \A r \in Servers : r # s => functors'[r] = functors[r]
    BY <1>3, <2>1, <2>2 DEF QueueInLoop
  <2>4. Len(functors'[s]) = Len(functors[s]) + 1 /\ Len(functors[s]) \in Nat
    BY <2>1, <2>2, <2>3
  <2>5. DueFunctors(s)'
    <3>1. due[s] \in Nat /\ DueFunctors(s)
      BY DEF TypeInv, TypeOK
    <3> QED BY <1>3, <2>4, <3>1 DEF QueueInLoop, DueFunctors
  <2>6. \A r \in Servers : r # s => DueFunctors(r)'
    BY <1>3, <2>3 DEF QueueInLoop, TypeInv, DueFunctors
  <2>7. conn_mtx' \in [Servers -> {"free", "loop", "observer"}]
    BY <1>3, <1>k DEF QueueInLoop
  <2>8. observer' \in [Servers -> ObserverStates] /\ \A r \in Servers : ObserverLocals(r)'
    BY <1>3, <1>o, ReadingType DEF QueueInLoop, TypeInv, ObserverLocals
  <2> QED
    BY <1>3, <2>3, <2>5, <2>6, <2>7, <2>8
    DEF QueueInLoop, TypeInv, TypeOK, StoreTypeOK, BusTypeOK, LoopLocals, ClientLocals
<1> QED BY <1>1, <1>2, <1>3 DEF ObserverStep

LEMMA TypeRedis ==
  ASSUME TypeInv, NEW s \in Servers, RedisStep(s)
  PROVE  TypeInv'
<1>1. BusTypeOK'
  BY BusTypes DEF RedisStep, TypeInv, TypeOK
<1> QED
  BY <1>1
  DEF RedisStep, TypeInv, TypeOK, StoreTypeOK, LoopLocals, DueFunctors, ObserverLocals,
      ClientLocals

LEMMA TypeEndProcess ==
  ASSUME TypeInv, NEW s \in Servers, EndProcess(s), crashes' \in Nat
  PROVE  TypeInv'
<1>1. BusTypeOK'
  BY BusTypes DEF EndProcess, TypeInv, TypeOK
<1>2. /\ loop' \in [Servers -> LoopStates] /\ loop'[s].pc = "poll"
      /\ \A r \in Servers : r # s => loop'[r] = loop[r]
  <2>1. loop \in [Servers -> LoopStates] /\ BackToPoll(s)
    BY DEF EndProcess, TypeInv, TypeOK, BackToPoll
  <2> QED BY <2>1, PollEffect
<1>3. observer' \in [Servers -> ObserverStates] /\ \A r \in Servers : ObserverLocals(r)'
  <2>1. observer \in [Servers -> ObserverStates]
    BY DEF TypeInv, TypeOK
  <2> QED BY <2>1, ReadingType DEF EndProcess, TypeInv, ObserverLocals
<1>4. /\ functors' \in [Servers -> Seq(Functors)] /\ due' \in [Servers -> Nat]
      /\ \A r \in Servers : r # s => functors'[r] = functors[r] /\ due'[r] = due[r]
  <2>1. functors \in [Servers -> Seq(Functors)] /\ due \in [Servers -> Nat]
    BY DEF TypeInv, TypeOK
  <2> QED BY <2>1 DEF EndProcess
<1>5. \A r \in Servers : LoopLocals(r)' /\ DueFunctors(r)'
  BY <1>2, <1>4
  DEF TypeInv, LoopLocals, DueFunctors, LoginPcs, LogoutPcs, ChatPcs, ClosePcs
<1>6. /\ proc' \in [Servers -> {"up", "exiting", "down"}]
      /\ conn_mtx' \in [Servers -> {"free", "loop", "observer"}]
  <2>1. /\ proc \in [Servers -> {"up", "exiting", "down"}]
        /\ conn_mtx \in [Servers -> {"free", "loop", "observer"}]
    BY DEF TypeInv, TypeOK
  <2> QED BY <2>1 DEF EndProcess
<1>7. user_conn_map' \in [Servers -> [Users -> Conns \cup {NoConn}]]
  <2>1. user_conn_map \in [Servers -> [Users -> Conns \cup {NoConn}]]
    BY DEF TypeInv, TypeOK
  <2> QED BY <2>1 DEF EndProcess
<1>8. conn' \in [Conns -> ConnStates]
  <2>1. conn \in [Conns -> ConnStates]
    BY DEF TypeInv, TypeOK
  <2> QED BY <2>1 DEF EndProcess, ConnStates
<1>9. client' \in [Conns -> ClientStates] /\ \A c \in Conns : ClientLocals(c)'
  <2>1. client \in [Conns -> ClientStates] /\ \A c \in Conns : ClientLocals(c)
    BY DEF TypeInv, TypeOK
  <2> QED BY <2>1 DEF EndProcess, ClientStates, ClientLocals
<1>10. inbox' \in [Conns -> Seq(Requests)]
  <2>1. inbox \in [Conns -> Seq(Requests)]
    BY DEF TypeInv, TypeOK
  <2> QED BY <2>1 DEF EndProcess
<1>11. abandoned' \in SUBSET Users
  BY DEF EndProcess, TypeInv, TypeOK
<1> QED
  BY <1>1, <1>2, <1>3, <1>4, <1>5, <1>6, <1>7, <1>8, <1>9, <1>10, <1>11
  DEF EndProcess, TypeInv, TypeOK, StoreTypeOK

LEMMA TypeProcess ==
  ASSUME TypeInv, NEW s \in Servers, ProcessStep(s)
  PROVE  TypeInv'
<1>c. crashes \in Nat
  BY DEF TypeInv, TypeOK
<1>p. proc \in [Servers -> {"up", "exiting", "down"}]
  BY DEF TypeInv, TypeOK
<1>1. CASE Crash(s)
  BY <1>1, <1>c, TypeEndProcess DEF Crash
<1>2. CASE SigInt(s)
  <2>1. StoreTypeOK'
    BY <1>2, StoreTypes DEF SigInt, TypeInv, TypeOK
  <2>2. proc' \in [Servers -> {"up", "exiting", "down"}]
    BY <1>2, <1>p DEF SigInt
  <2>3. crashes' \in Nat /\ abandoned' \in SUBSET Users
    BY <1>2, <1>c DEF SigInt, TypeInv, TypeOK
  <2> QED
    BY <1>2, <2>1, <2>2, <2>3
    DEF SigInt, TypeInv, TypeOK, BusTypeOK, LoopLocals, DueFunctors, ObserverLocals,
        ClientLocals
<1>3. CASE Exit(s)
  BY <1>3, <1>c, TypeEndProcess DEF Exit
<1>4. CASE Restart(s)
  <2>1. proc' \in [Servers -> {"up", "exiting", "down"}]
    BY <1>4, <1>p DEF Restart
  <2> QED
    BY <1>4, <2>1
    DEF Restart, TypeInv, TypeOK, StoreTypeOK, BusTypeOK, LoopLocals, DueFunctors,
        ObserverLocals, ClientLocals
<1> QED BY <1>1, <1>2, <1>3, <1>4 DEF ProcessStep

LEMMA TypeStutter == TypeInv /\ UNCHANGED vars => TypeInv'
  BY DEF vars, TypeInv, TypeOK, StoreTypeOK, BusTypeOK, LoopLocals, DueFunctors,
         ObserverLocals, ClientLocals

LEMMA TypeStep == TypeInv /\ [Next]_vars => TypeInv'
  BY TypeClient, TypeServe, TypeLoop, TypeObserver, TypeRedis, TypeProcess, TypeStutter
  DEF Next

(* Every variable keeps its type, and no handler ever uses a local it has not *)
(* set: the id and connection a login goes on with, the message a chat goes   *)
(* on with, the functor doPendingFunctors takes from the queue.              *)
THEOREM TypeSafety == Spec => []TypeInv
<1>1. Init => TypeInv
  BY TypeInit
<1>2. TypeInv /\ [Next]_vars => TypeInv'
  BY TypeStep
<1> QED BY <1>1, <1>2, PTL DEF Spec

(* TypeOK, the type invariant the runs check, for every instance. *)
THEOREM TypeCorrect == Spec => []TypeOK
<1>1. TypeInv => TypeOK
  BY DEF TypeInv
<1> QED BY <1>1, TypeSafety, PTL

-----------------------------------------------------------------------------
(* A step of server s changes nothing of what another server's threads hold.  *)

OtherServersSame(s) ==
    \A r \in Servers : r # s =>
        /\ proc'[r] = proc[r] /\ loop'[r] = loop[r] /\ observer'[r] = observer[r]
        /\ user_conn_map'[r] = user_conn_map[r] /\ conn_mtx'[r] = conn_mtx[r]
        /\ functors'[r] = functors[r]
        /\ sub_cmds'[r] = sub_cmds[r] /\ subscribed'[r] = subscribed[r]

LEMMA Locality ==
  ASSUME TypeInv, NEW s \in Servers,
         \/ \E c \in Conns : ServeConn(s, c)
         \/ LoopStep(s) \/ ObserverStep(s) \/ RedisStep(s) \/ ProcessStep(s)
  PROVE  OtherServersSame(s)
<1>l. loop \in [Servers -> LoopStates]
  BY DEF TypeInv, TypeOK
<1>t. /\ proc \in [Servers -> {"up", "exiting", "down"}]
      /\ observer \in [Servers -> ObserverStates]
      /\ user_conn_map \in [Servers -> [Users -> Conns \cup {NoConn}]]
      /\ conn_mtx \in [Servers -> {"free", "loop", "observer"}]
  BY DEF TypeInv, TypeOK
<1>f. /\ functors \in [Servers -> Seq(Functors)]
      /\ sub_cmds \in [Servers -> Seq(Commands)] /\ subscribed \in [Servers -> SUBSET Users]
  BY DEF TypeInv, TypeOK, BusTypeOK
<1> USE DEF OtherServersSame
<1>1. ASSUME NEW c \in Conns, ServeConn(s, c)
      PROVE  OtherServersSame(s)
  <2>1. ASSUME NEW u \in Users, NEW pwd \in Passwords, HandlerLogin(s, c, u, pwd)
        PROVE  OtherServersSame(s)
    BY <2>1, <1>l DEF HandlerLogin, Enter
  <2>2. ASSUME NEW u \in Users, HandlerLogout(s, c, u)
        PROVE  OtherServersSame(s)
    BY <2>2, <1>l, <1>t DEF HandlerLogout, Enter
  <2>3. ASSUME NEW u \in Users, NEW m \in Msgs, HandlerDirectChat(s, c, u, m)
        PROVE  OtherServersSame(s)
    BY <2>3, <1>l DEF HandlerDirectChat, Enter
  <2>4. CASE HandleClose(s, c)
    BY <2>4, <1>l DEF HandleClose, Enter
  <2> QED BY <1>1, <2>1, <2>2, <2>3, <2>4 DEF ServeConn
<1>2. CASE LoopStep(s)
  <2>1. CASE LoginInsert(s)
    BY <2>1, <1>l, <1>t DEF LoginInsert, Goto
  <2>2. CASE LoginSubscribe(s)
    BY <2>2, <1>l, <1>f DEF LoginSubscribe, Subscribe, Goto
  <2>3. CASE LoginOnline(s)
    BY <2>3, <1>l DEF LoginOnline, Goto
  <2>4. CASE LoginQueryOffline(s)
    BY <2>4, <1>l DEF LoginQueryOffline
  <2>5. CASE LoginDeleteOffline(s)
    BY <2>5, <1>l DEF LoginDeleteOffline, Goto
  <2>6. CASE LoginAck(s)
    BY <2>6, <1>l DEF LoginAck, BackToPoll
  <2>7. CASE LogoutUnsubscribe(s)
    BY <2>7, <1>l, <1>f DEF LogoutUnsubscribe, Unsubscribe, Goto
  <2>8. CASE LogoutOffline(s)
    BY <2>8, <1>l DEF LogoutOffline, BackToPoll
  <2>9. CASE ChatQuery(s)
    BY <2>9, <1>l DEF ChatQuery, Goto
  <2>10. CASE ChatPublish(s)
    BY <2>10, <1>l DEF ChatPublish, Publish, BackToPoll
  <2>11. CASE ChatStoreOffline(s)
    BY <2>11, <1>l DEF ChatStoreOffline, BackToPoll
  <2>12. CASE CloseErase(s)
    BY <2>12, <1>l, <1>t DEF CloseErase, Goto
  <2>13. CASE CloseUnsubscribe(s)
    BY <2>13, <1>l, <1>f DEF CloseUnsubscribe, Unsubscribe, Goto
  <2>14. CASE CloseOffline(s)
    BY <2>14, <1>l, <1>t, <1>f DEF CloseOffline, BackToPoll
  <2>15. CASE DoPendingFunctors(s)
    BY <2>15, <1>l DEF DoPendingFunctors, Goto
  <2>16. CASE RunFunctor(s)
    BY <2>16, <1>l, <1>f DEF RunFunctor, BackToPoll
  <2> QED
    BY <1>2, <2>1, <2>2, <2>3, <2>4, <2>5, <2>6, <2>7, <2>8, <2>9, <2>10, <2>11, <2>12,
       <2>13, <2>14, <2>15, <2>16
    DEF LoopStep
<1>3. CASE ObserverStep(s)
  <2>1. CASE StartObserving(s)
    BY <2>1, <1>t DEF StartObserving, GetReply
  <2>2. CASE HandlerRedisSubscribeMessage(s)
    BY <2>2, <1>t DEF HandlerRedisSubscribeMessage
  <2>3. CASE QueueInLoop(s)
    BY <2>3, <1>t, <1>f DEF QueueInLoop
  <2> QED BY <1>3, <2>1, <2>2, <2>3 DEF ObserverStep
<1>4. CASE RedisStep(s)
  BY <1>4, <1>f DEF RedisStep, RedisExecute
<1>5. CASE ProcessStep(s)
  <2>1. CASE EndProcess(s)
    BY <2>1, <1>l, <1>t, <1>f DEF EndProcess, DropClient
  <2>2. CASE SigInt(s)
    BY <2>2, <1>t DEF SigInt
  <2>3. CASE Restart(s)
    BY <2>3, <1>t DEF Restart
  <2> QED BY <1>5, <2>1, <2>2, <2>3 DEF ProcessStep, Crash, Exit
<1> QED BY <1>1, <1>2, <1>3, <1>4, <1>5

-----------------------------------------------------------------------------
(* Subscriptions.  A command on its way to Redis decides the subscription of  *)
(* its channel and of no other; executing it changes nothing that was not     *)
(* already decided.                                                          *)

LEMMA AppendedCommand ==
  ASSUME BusTypeOK, NEW s \in Servers, NEW cmd \in Commands, NEW u \in Users,
         sub_cmds' = [sub_cmds EXCEPT ![s] = Append(@, cmd)], UNCHANGED subscribed
  PROVE  EventuallySubscribed(s, u)'
           <=> IF cmd.user = u THEN cmd.op = "SUBSCRIBE" ELSE EventuallySubscribed(s, u)
<1> DEFINE q == sub_cmds[s]
           n == Len(q) + 1
<1>1. q \in Seq(Commands) /\ Len(q) \in Nat
  BY DEF BusTypeOK
<1>2. sub_cmds'[s] = Append(q, cmd)
  BY DEF BusTypeOK
<1>3. /\ DOMAIN sub_cmds'[s] = 1..n /\ sub_cmds'[s][n] = cmd
      /\ DOMAIN q = 1..Len(q) /\ \A i \in DOMAIN q : sub_cmds'[s][i] = q[i]
  BY <1>1, <1>2
<1>4. subscribed'[s] = subscribed[s]
  OBVIOUS
<1>5. CASE cmd.user = u
  <2>1. cmd.op = "SUBSCRIBE" => cmd = [op |-> "SUBSCRIBE", user |-> u]
    BY <1>5 DEF Commands
  <2>2. CASE cmd.op = "SUBSCRIBE"
    <3>1. /\ n \in DOMAIN sub_cmds'[s] /\ sub_cmds'[s][n] = [op |-> "SUBSCRIBE", user |-> u]
          /\ \A j \in DOMAIN sub_cmds'[s] : ~(j > n)
      BY <1>1, <1>3, <2>1, <2>2
    <3> QED BY <1>5, <2>2, <3>1 DEF EventuallySubscribed
  <2>3. CASE cmd.op # "SUBSCRIBE"
    <3>1. ~ (\A i \in DOMAIN sub_cmds'[s] : sub_cmds'[s][i].user # u)
      BY <1>1, <1>3, <1>5
    <3>2. ASSUME NEW i \in DOMAIN sub_cmds'[s],
                 sub_cmds'[s][i] = [op |-> "SUBSCRIBE", user |-> u]
          PROVE  \E j \in DOMAIN sub_cmds'[s] : j > i /\ sub_cmds'[s][j].user = u
      <4>1. i # n
        BY <1>3, <2>3, <3>2
      <4>2. n \in DOMAIN sub_cmds'[s] /\ n > i
        BY <1>1, <1>3, <4>1
      <4> QED BY <1>3, <1>5, <4>2
    <3> QED BY <1>5, <2>3, <3>1, <3>2 DEF EventuallySubscribed
  <2> QED BY <2>2, <2>3
<1>6. CASE cmd.user # u
  <2>1. (\A i \in DOMAIN sub_cmds'[s] : sub_cmds'[s][i].user # u)
           <=> \A i \in DOMAIN q : q[i].user # u
    BY <1>1, <1>3, <1>6
  <2>2. ASSUME NEW i \in DOMAIN q, q[i] = [op |-> "SUBSCRIBE", user |-> u],
               \A j \in DOMAIN q : j > i => q[j].user # u
        PROVE  EventuallySubscribed(s, u)'
    <3>1. /\ i \in DOMAIN sub_cmds'[s]
          /\ sub_cmds'[s][i] = [op |-> "SUBSCRIBE", user |-> u]
          /\ \A j \in DOMAIN sub_cmds'[s] : j > i => sub_cmds'[s][j].user # u
      BY <1>1, <1>3, <1>6, <2>2
    <3> QED BY <3>1 DEF EventuallySubscribed
  <2>3. ASSUME NEW i \in DOMAIN sub_cmds'[s],
               sub_cmds'[s][i] = [op |-> "SUBSCRIBE", user |-> u],
               \A j \in DOMAIN sub_cmds'[s] : j > i => sub_cmds'[s][j].user # u
        PROVE  EventuallySubscribed(s, u)
    <3>1. i # n
      BY <1>3, <1>6, <2>3
    <3>2. /\ i \in DOMAIN q /\ q[i] = [op |-> "SUBSCRIBE", user |-> u]
          /\ \A j \in DOMAIN q : j > i => q[j].user # u
      BY <1>1, <1>3, <2>3, <3>1
    <3> QED BY <3>2 DEF EventuallySubscribed
  <2> QED BY <1>4, <1>6, <2>1, <2>2, <2>3 DEF EventuallySubscribed
<1> QED BY <1>5, <1>6

LEMMA ExecutedCommand ==
  ASSUME BusTypeOK, NEW s \in Servers, NEW u \in Users, RedisExecute(s)
  PROVE  EventuallySubscribed(s, u)' <=> EventuallySubscribed(s, u)
<1> DEFINE q == sub_cmds[s]
           cmd == Head(q)
           t == sub_cmds'[s]
<1>1. q \in Seq(Commands) /\ q # <<>> /\ Len(q) \in Nat /\ Len(q) >= 1
  BY DEF BusTypeOK, RedisExecute
<1>2. t = Tail(q)
  BY DEF BusTypeOK, RedisExecute
<1>3. /\ DOMAIN q = 1..Len(q) /\ q[1] = cmd /\ cmd \in Commands
      /\ DOMAIN t = 1..(Len(q) - 1) /\ \A i \in DOMAIN t : t[i] = q[i + 1]
  BY <1>1, <1>2
<1>4. /\ cmd.op = "SUBSCRIBE" => subscribed'[s] = subscribed[s] \cup {cmd.user}
      /\ cmd.op # "SUBSCRIBE" => subscribed'[s] = subscribed[s] \ {cmd.user}
  BY DEF BusTypeOK, RedisExecute
<1>5. cmd.op = "SUBSCRIBE" /\ cmd.user = u <=> cmd = [op |-> "SUBSCRIBE", user |-> u]
  BY <1>3 DEF Commands
<1>6. (\A i \in DOMAIN q : q[i].user # u)
         <=> cmd.user # u /\ \A i \in DOMAIN t : t[i].user # u
  <2>1. ASSUME cmd.user # u, \A i \in DOMAIN t : t[i].user # u, NEW i \in DOMAIN q
        PROVE  q[i].user # u
    <3>1. CASE i = 1
      BY <1>3, <2>1, <3>1
    <3>2. CASE i # 1
      <4>1. i - 1 \in DOMAIN t /\ t[i - 1] = q[i]
        BY <1>1, <1>3, <3>2
      <4> QED BY <2>1, <4>1
    <3> QED BY <3>1, <3>2
  <2>2. ASSUME \A i \in DOMAIN q : q[i].user # u
        PROVE  cmd.user # u /\ \A i \in DOMAIN t : t[i].user # u
    <3>1. 1 \in DOMAIN q /\ \A i \in DOMAIN t : i + 1 \in DOMAIN q
      BY <1>1, <1>3
    <3> QED BY <1>3, <2>2, <3>1
  <2> QED BY <2>1, <2>2
<1>7. ASSUME NEW i \in DOMAIN t, t[i] = [op |-> "SUBSCRIBE", user |-> u],
             \A j \in DOMAIN t : j > i => t[j].user # u
      PROVE  EventuallySubscribed(s, u)
  <2>1. i + 1 \in DOMAIN q /\ q[i + 1] = [op |-> "SUBSCRIBE", user |-> u]
    BY <1>1, <1>3, <1>7
  <2>2. ASSUME NEW j \in DOMAIN q, j > i + 1
        PROVE  q[j].user # u
    <3>1. j - 1 \in DOMAIN t /\ t[j - 1] = q[j] /\ j - 1 > i
      BY <1>1, <1>3, <2>2
    <3> QED BY <1>7, <3>1
  <2> QED BY <2>1, <2>2 DEF EventuallySubscribed
<1>8. ASSUME NEW i \in DOMAIN q, i # 1, q[i] = [op |-> "SUBSCRIBE", user |-> u],
             \A j \in DOMAIN q : j > i => q[j].user # u
      PROVE  EventuallySubscribed(s, u)'
  <2>1. i - 1 \in DOMAIN t /\ t[i - 1] = [op |-> "SUBSCRIBE", user |-> u]
    BY <1>1, <1>3, <1>8
  <2>2. ASSUME NEW j \in DOMAIN t, j > i - 1
        PROVE  t[j].user # u
    <3>1. j + 1 \in DOMAIN q /\ t[j] = q[j + 1] /\ j + 1 > i
      BY <1>1, <1>3, <2>2
    <3> QED BY <1>8, <3>1
  <2> QED BY <2>1, <2>2 DEF EventuallySubscribed
<1>9. ASSUME q[1] = [op |-> "SUBSCRIBE", user |-> u],
             \A j \in DOMAIN q : j > 1 => q[j].user # u
      PROVE  EventuallySubscribed(s, u)'
  <2>1. \A j \in DOMAIN t : t[j].user # u
    <3>1. ASSUME NEW j \in DOMAIN t
          PROVE  t[j] = q[j + 1] /\ j + 1 \in DOMAIN q /\ j + 1 > 1
      BY <1>1, <1>3
    <3> QED BY <1>9, <3>1
  <2>2. u \in subscribed'[s]
    BY <1>3, <1>4, <1>5, <1>9
  <2> QED BY <2>1, <2>2 DEF EventuallySubscribed
<1>10. ASSUME u \in subscribed'[s], \A i \in DOMAIN t : t[i].user # u
       PROVE  EventuallySubscribed(s, u)
  <2>1. CASE cmd.user = u
    <3>1. cmd = [op |-> "SUBSCRIBE", user |-> u] /\ q[1] = cmd /\ 1 \in DOMAIN q
      BY <1>1, <1>3, <1>4, <1>5, <1>10, <2>1
    <3>2. ASSUME NEW j \in DOMAIN q, j > 1
          PROVE  q[j].user # u
      <4>1. j - 1 \in DOMAIN t /\ t[j - 1] = q[j]
        BY <1>1, <1>3, <3>2
      <4> QED BY <1>10, <4>1
    <3> QED BY <3>1, <3>2 DEF EventuallySubscribed
  <2>2. CASE cmd.user # u
    BY <1>4, <1>6, <1>10, <2>2 DEF EventuallySubscribed
  <2> QED BY <2>1, <2>2
<1>11. ASSUME u \in subscribed[s], \A i \in DOMAIN q : q[i].user # u
       PROVE  EventuallySubscribed(s, u)'
  BY <1>4, <1>6, <1>11 DEF EventuallySubscribed
<1>12. EventuallySubscribed(s, u)' => EventuallySubscribed(s, u)
  BY <1>7, <1>10 DEF EventuallySubscribed
<1>13. EventuallySubscribed(s, u) => EventuallySubscribed(s, u)'
  BY <1>8, <1>9, <1>11 DEF EventuallySubscribed
<1> QED BY <1>12, <1>13
-----------------------------------------------------------------------------
(* SubscriptionsFollowMap is inductive together with what the map holds while *)
(* a handler is between the map and the RedisConn call.                      *)

SubPcs == {"login_subscribe", "logout_unsubscribe", "close_unsubscribe"}

Follows(s, u) ==
    \/ EventuallySubscribed(s, u) <=> user_conn_map[s][u] # NoConn
    \/ loop[s].user = u /\ loop[s].pc \in SubPcs

InStep(s) ==
    /\ \A u \in Users : Follows(s, u)
    /\ loop[s].pc = "login_subscribe" => user_conn_map[s][loop[s].user] # NoConn
    /\ loop[s].pc \in {"logout_unsubscribe", "close_unsubscribe"} /\ loop[s].user \in Users
          => user_conn_map[s][loop[s].user] = NoConn
    /\ loop[s].pc = "close_lock" => loop[s].user = NoUser

SubInv == \A s \in Servers : InStep(s)

LEMMA InStepFrame ==
  ASSUME NEW s \in Servers, InStep(s),
         user_conn_map'[s] = user_conn_map[s],
         sub_cmds'[s] = sub_cmds[s], subscribed'[s] = subscribed[s],
         \/ loop'[s] = loop[s]
         \/ /\ loop[s].pc \notin SubPcs /\ loop'[s].pc \notin SubPcs
            /\ loop'[s].pc = "close_lock" => loop'[s].user = NoUser
  PROVE  InStep(s)'
<1>1. \A u \in Users : EventuallySubscribed(s, u)' <=> EventuallySubscribed(s, u)
  BY DEF EventuallySubscribed
<1>2. CASE loop'[s] = loop[s]
  BY <1>1, <1>2 DEF InStep, Follows
<1>3. CASE /\ loop[s].pc \notin SubPcs /\ loop'[s].pc \notin SubPcs
           /\ loop'[s].pc = "close_lock" => loop'[s].user = NoUser
  BY <1>1, <1>3 DEF InStep, Follows, SubPcs
<1> QED BY <1>2, <1>3

LEMMA SubServe ==
  ASSUME TypeInv, NEW s \in Servers, InStep(s), NEW c \in Conns, ServeConn(s, c)
  PROVE  InStep(s)'
<1>l. loop \in [Servers -> LoopStates]
  BY DEF TypeInv, TypeOK
<1>m. user_conn_map \in [Servers -> [Users -> Conns \cup {NoConn}]]
  BY DEF TypeInv, TypeOK
<1>p. {"login_insert", "logout_unsubscribe", "chat_query", "close_lock"} \subseteq LoopPcs
  BY DEF LoopPcs
<1>1. ASSUME NEW u \in Users, NEW pwd \in Passwords, HandlerLogin(s, c, u, pwd)
      PROVE  InStep(s)'
  <2>1. loop[s].pc = "poll"
    BY <1>1 DEF HandlerLogin, OnMessage, LoopAt
  <2>2. UNCHANGED loop \/ Enter(s, "login_insert", c, u, NoMsg)
    BY <1>1 DEF HandlerLogin
  <2>3. loop' = loop \/ loop'[s].pc = "login_insert"
    BY <2>2, <1>l, <1>p, EnterEffect
  <2> QED BY <1>1, <2>1, <2>3, InStepFrame DEF HandlerLogin, SubPcs
<1>2. ASSUME NEW u \in Users, HandlerLogout(s, c, u)
      PROVE  InStep(s)'
  <2>1. loop[s].pc = "poll"
    BY <1>2 DEF HandlerLogout, OnMessage, LoopAt
  <2>2. loop'[s].pc = "logout_unsubscribe" /\ loop'[s].user = u
    <3>1. Enter(s, "logout_unsubscribe", NoConn, u, NoMsg)
      BY <1>2 DEF HandlerLogout
    <3> QED BY <3>1, <1>l, <1>p, EnterEffect
  <2>3. /\ user_conn_map'[s][u] = NoConn
        /\ \A v \in Users : v # u => user_conn_map'[s][v] = user_conn_map[s][v]
    BY <1>2, <1>m DEF HandlerLogout
  <2>4. \A v \in Users : EventuallySubscribed(s, v)' <=> EventuallySubscribed(s, v)
    BY <1>2 DEF HandlerLogout, EventuallySubscribed
  <2> QED BY <2>1, <2>2, <2>3, <2>4 DEF InStep, Follows, SubPcs
<1>3. ASSUME NEW u \in Users, NEW m \in Msgs, HandlerDirectChat(s, c, u, m)
      PROVE  InStep(s)'
  <2>1. loop[s].pc = "poll"
    BY <1>3 DEF HandlerDirectChat, OnMessage, LoopAt
  <2>2. UNCHANGED loop \/ Enter(s, "chat_query", NoConn, u, m)
    BY <1>3 DEF HandlerDirectChat
  <2>3. loop' = loop \/ loop'[s].pc = "chat_query"
    BY <2>2, <1>l, <1>p, EnterEffect
  <2> QED BY <1>3, <2>1, <2>3, InStepFrame DEF HandlerDirectChat, SubPcs
<1>4. CASE HandleClose(s, c)
  <2>1. loop[s].pc = "poll" /\ Enter(s, "close_lock", c, NoUser, NoMsg)
    BY <1>4 DEF HandleClose, LoopAt
  <2>2. loop'[s].pc = "close_lock" /\ loop'[s].user = NoUser
    BY <2>1, <1>l, <1>p, EnterEffect
  <2> QED BY <1>4, <2>1, <2>2, InStepFrame DEF HandleClose, SubPcs
<1> QED BY <1>1, <1>2, <1>3, <1>4 DEF ServeConn

LEMMA SubLoop ==
  ASSUME TypeInv, NEW s \in Servers, InStep(s), LoopStep(s)
  PROVE  InStep(s)'
<1>l. loop \in [Servers -> LoopStates] /\ LoopLocals(s)
  BY DEF TypeInv, TypeOK
<1>m. user_conn_map \in [Servers -> [Users -> Conns \cup {NoConn}]]
  BY DEF TypeInv, TypeOK
<1>b. BusTypeOK
  BY DEF TypeInv, TypeOK
<1>p. {"login_subscribe", "login_online", "login_query", "login_delete", "login_ack",
       "logout_offline", "chat_publish", "chat_store", "close_unsubscribe", "close_offline",
       "functors"} \subseteq LoopPcs
  BY DEF LoopPcs
<1>f. ASSUME UNCHANGED <<user_conn_map, sub_cmds, subscribed>>,
             loop[s].pc \notin SubPcs, loop'[s].pc \notin SubPcs \cup {"close_lock"}
      PROVE  InStep(s)'
  BY <1>f, InStepFrame
<1>q. ASSUME BackToPoll(s), UNCHANGED <<user_conn_map, sub_cmds, subscribed>>,
             loop[s].pc \notin SubPcs
      PROVE  InStep(s)'
  <2>1. loop'[s].pc = "poll"
    BY <1>q, <1>l, PollEffect
  <2> QED BY <1>q, <1>f, <2>1 DEF SubPcs
<1>g. ASSUME NEW pc \in LoopPcs \ (SubPcs \cup {"close_lock"}), Goto(s, pc), loop[s].pc \notin SubPcs,
             UNCHANGED <<user_conn_map, sub_cmds, subscribed>>
      PROVE  InStep(s)'
  <2>1. loop'[s].pc = pc
    BY <1>g, <1>l, GotoEffect
  <2> QED BY <1>g, <1>f, <2>1
<1>1. CASE LoginInsert(s)
  <2>1. loop[s].pc = "login_insert" /\ loop[s].user \in Users /\ loop[s].conn \in Conns
    BY <1>1, <1>l DEF LoginInsert, LoopAt, LoopLocals, LoginPcs
  <2>2. loop'[s].pc = "login_subscribe" /\ loop'[s].user = loop[s].user
    BY <1>1, <1>l, <1>p, GotoEffect DEF LoginInsert
  <2>3. /\ user_conn_map'[s][loop[s].user] # NoConn
        /\ \A v \in Users : v # loop[s].user => user_conn_map'[s][v] = user_conn_map[s][v]
    BY <1>1, <1>m, <2>1, SentinelAssumption DEF LoginInsert
  <2>4. \A v \in Users : EventuallySubscribed(s, v)' <=> EventuallySubscribed(s, v)
    BY <1>1 DEF LoginInsert, EventuallySubscribed
  <2> QED BY <2>1, <2>2, <2>3, <2>4 DEF InStep, Follows, SubPcs
<1>2. CASE LoginSubscribe(s)
  <2> DEFINE cmd == [op |-> "SUBSCRIBE", user |-> loop[s].user]
  <2>1. loop[s].pc = "login_subscribe" /\ loop[s].user \in Users
    BY <1>2, <1>l DEF LoginSubscribe, LoopAt, LoopLocals, LoginPcs
  <2>2. loop'[s].pc = "login_online" /\ loop'[s].user = loop[s].user
    BY <1>2, <1>l, <1>p, GotoEffect DEF LoginSubscribe
  <2>3. /\ sub_cmds' = [sub_cmds EXCEPT ![s] = Append(@, cmd)]
        /\ UNCHANGED <<subscribed, user_conn_map>>
    BY <1>2 DEF LoginSubscribe, Subscribe
  <2>4. cmd \in Commands /\ cmd.user = loop[s].user /\ cmd.op = "SUBSCRIBE"
    BY <2>1 DEF Commands
  <2>5. \A v \in Users : EventuallySubscribed(s, v)'
                           <=> (v = loop[s].user \/ EventuallySubscribed(s, v))
    BY <1>b, <2>3, <2>4, AppendedCommand
  <2> QED BY <2>1, <2>2, <2>3, <2>5 DEF InStep, Follows, SubPcs
<1>3. CASE LoginOnline(s)
  BY <1>3, <1>g, <1>p DEF LoginOnline, LoopAt, SubPcs
<1>4. CASE LoginQueryOffline(s)
  <2>1. loop[s].pc = "login_query"
    BY <1>4 DEF LoginQueryOffline, LoopAt
  <2>2. PICK rows : loop' = [loop EXCEPT
                ![s].pc = IF rows = <<>> THEN "login_ack" ELSE "login_delete",
                ![s].rows = rows]
    BY <1>4 DEF LoginQueryOffline
  <2>3. loop'[s].pc \in {"login_ack", "login_delete"}
    BY <2>2, <1>l DEF LoopStates
  <2> QED BY <1>4, <2>1, <2>3, <1>f DEF LoginQueryOffline, SubPcs
<1>5. CASE LoginDeleteOffline(s)
  BY <1>5, <1>g, <1>p DEF LoginDeleteOffline, LoopAt, SubPcs
<1>6. CASE LoginAck(s)
  BY <1>6, <1>q DEF LoginAck, LoopAt, SubPcs
<1>7. CASE LogoutUnsubscribe(s)
  <2> DEFINE cmd == [op |-> "UNSUBSCRIBE", user |-> loop[s].user]
  <2>1. loop[s].pc = "logout_unsubscribe" /\ loop[s].user \in Users
    BY <1>7, <1>l DEF LogoutUnsubscribe, LoopAt, LoopLocals, LogoutPcs
  <2>2. loop'[s].pc = "logout_offline" /\ loop'[s].user = loop[s].user
    BY <1>7, <1>l, <1>p, GotoEffect DEF LogoutUnsubscribe
  <2>3. /\ sub_cmds' = [sub_cmds EXCEPT ![s] = Append(@, cmd)]
        /\ UNCHANGED <<subscribed, user_conn_map>>
    BY <1>7 DEF LogoutUnsubscribe, Unsubscribe
  <2>4. cmd \in Commands /\ cmd.user = loop[s].user /\ cmd.op = "UNSUBSCRIBE"
    BY <2>1 DEF Commands
  <2>5. \A v \in Users : EventuallySubscribed(s, v)'
                           <=> (v # loop[s].user /\ EventuallySubscribed(s, v))
    BY <1>b, <2>3, <2>4, AppendedCommand
  <2> QED BY <2>1, <2>2, <2>3, <2>5 DEF InStep, Follows, SubPcs
<1>8. CASE LogoutOffline(s)
  BY <1>8, <1>q DEF LogoutOffline, LoopAt, SubPcs
<1>9. CASE ChatQuery(s)
  <2>1. PICK pc \in {"chat_publish", "chat_store"} : Goto(s, pc)
    BY <1>9 DEF ChatQuery
  <2>2. pc \in LoopPcs \ (SubPcs \cup {"close_lock"})
    BY <1>p DEF SubPcs
  <2> QED BY <1>9, <2>1, <2>2, <1>g DEF ChatQuery, LoopAt, SubPcs
<1>10. CASE ChatPublish(s)
  BY <1>10, <1>q DEF ChatPublish, Publish, LoopAt, SubPcs
<1>11. CASE ChatStoreOffline(s)
  BY <1>11, <1>q DEF ChatStoreOffline, LoopAt, SubPcs
<1>12. CASE CloseErase(s)
  <2>1. loop[s].pc = "close_lock" /\ UNCHANGED <<sub_cmds, subscribed>>
    BY <1>12 DEF CloseErase, LoopAt
  <2>2. \A v \in Users : EventuallySubscribed(s, v)' <=> EventuallySubscribed(s, v)
    BY <2>1 DEF EventuallySubscribed
  <2>3. CASE Goto(s, "close_unsubscribe") /\ UNCHANGED user_conn_map
    <3>1. loop'[s].pc = "close_unsubscribe" /\ loop'[s].user = loop[s].user
      BY <2>3, <1>l, <1>p, GotoEffect
    <3>2. loop[s].user = NoUser /\ NoUser \notin Users
      BY <2>1, SentinelAssumption DEF InStep
    <3> QED BY <2>1, <2>2, <2>3, <3>1, <3>2 DEF InStep, Follows, SubPcs
  <2>4. ASSUME NEW u \in Users,
               user_conn_map' = [user_conn_map EXCEPT ![s][u] = NoConn],
               loop' = [loop EXCEPT ![s].pc = "close_unsubscribe", ![s].user = u]
        PROVE  InStep(s)'
    <3>1. loop'[s].pc = "close_unsubscribe" /\ loop'[s].user = u
      BY <2>4, <1>l DEF LoopStates
    <3>2. /\ user_conn_map'[s][u] = NoConn
          /\ \A v \in Users : v # u => user_conn_map'[s][v] = user_conn_map[s][v]
      BY <2>4, <1>m
    <3> QED BY <2>1, <2>2, <3>1, <3>2 DEF InStep, Follows, SubPcs
  <2> QED BY <1>12, <2>3, <2>4 DEF CloseErase
<1>13. CASE CloseUnsubscribe(s)
  <2> DEFINE cmd == [op |-> "UNSUBSCRIBE", user |-> loop[s].user]
  <2>1. loop[s].pc = "close_unsubscribe" /\ loop[s].user \in Users \cup {NoUser}
    BY <1>13, <1>l DEF CloseUnsubscribe, LoopAt, LoopStates
  <2>2. loop'[s].pc = "close_offline" /\ loop'[s].user = loop[s].user
    BY <1>13, <1>l, <1>p, GotoEffect DEF CloseUnsubscribe
  <2>3. /\ sub_cmds' = [sub_cmds EXCEPT ![s] = Append(@, cmd)]
        /\ UNCHANGED <<subscribed, user_conn_map>>
    BY <1>13 DEF CloseUnsubscribe, Unsubscribe
  <2>4. cmd \in Commands /\ cmd.user = loop[s].user /\ cmd.op = "UNSUBSCRIBE"
    BY <2>1 DEF Commands
  <2>5. \A v \in Users : EventuallySubscribed(s, v)'
                           <=> (v # loop[s].user /\ EventuallySubscribed(s, v))
    BY <1>b, <2>3, <2>4, AppendedCommand
  <2> QED BY <2>1, <2>2, <2>3, <2>5 DEF InStep, Follows, SubPcs
<1>14. CASE CloseOffline(s)
  BY <1>14, <1>q DEF CloseOffline, LoopAt, SubPcs
<1>15. CASE DoPendingFunctors(s)
  BY <1>15, <1>g, <1>p DEF DoPendingFunctors, LoopAt, SubPcs
<1>16. CASE RunFunctor(s)
  <2>1. loop[s].pc = "functors" /\ (UNCHANGED loop \/ BackToPoll(s))
    BY <1>16 DEF RunFunctor, LoopAt
  <2>2. CASE UNCHANGED loop
    BY <1>16, <2>2, InStepFrame DEF RunFunctor
  <2>3. CASE BackToPoll(s)
    BY <1>16, <2>1, <2>3, <1>q DEF RunFunctor, SubPcs
  <2> QED BY <2>1, <2>2, <2>3
<1> QED
  BY <1>1, <1>2, <1>3, <1>4, <1>5, <1>6, <1>7, <1>8, <1>9, <1>10, <1>11, <1>12, <1>13,
     <1>14, <1>15, <1>16
  DEF LoopStep

LEMMA SubOther ==
  ASSUME TypeInv, NEW s \in Servers, InStep(s),
         ObserverStep(s) \/ RedisStep(s) \/ ProcessStep(s)
  PROVE  InStep(s)'
<1>b. BusTypeOK
  BY DEF TypeInv, TypeOK
<1>l. loop \in [Servers -> LoopStates]
  BY DEF TypeInv, TypeOK
<1>m. user_conn_map \in [Servers -> [Users -> Conns \cup {NoConn}]]
  BY DEF TypeInv, TypeOK
<1>1. CASE ObserverStep(s)
  <2>1. UNCHANGED <<user_conn_map, sub_cmds, subscribed, loop>>
    BY <1>1 DEF ObserverStep, StartObserving, HandlerRedisSubscribeMessage, QueueInLoop,
                GetReply
  <2> QED BY <2>1, InStepFrame
<1>2. CASE RedisStep(s)
  <2>1. UNCHANGED <<user_conn_map, loop>> /\ RedisExecute(s)
    BY <1>2 DEF RedisStep
  <2>2. \A u \in Users : EventuallySubscribed(s, u)' <=> EventuallySubscribed(s, u)
    BY <2>1, <1>b, ExecutedCommand
  <2> QED BY <2>1, <2>2 DEF InStep, Follows
<1>3. CASE EndProcess(s)
  <2>1. /\ sub_cmds'[s] = <<>> /\ subscribed'[s] = {}
        /\ \A u \in Users : user_conn_map'[s][u] = NoConn
    BY <1>3, <1>b, <1>m DEF EndProcess, DropClient, BusTypeOK
  <2>2. loop'[s].pc = "poll"
    BY <1>3, <1>l DEF EndProcess, Polling
  <2>3. \A u \in Users : ~ EventuallySubscribed(s, u)'
    BY <2>1 DEF EventuallySubscribed
  <2> QED BY <2>1, <2>2, <2>3 DEF InStep, Follows
<1>4. CASE SigInt(s) \/ Restart(s)
  BY <1>4, InStepFrame DEF SigInt, Restart
<1> QED BY <1>1, <1>2, <1>3, <1>4 DEF ProcessStep, Crash, Exit

LEMMA SubStep == TypeInv /\ SubInv /\ [Next]_vars => SubInv'
<1> SUFFICES ASSUME TypeInv, SubInv, [Next]_vars, NEW r \in Servers
             PROVE  InStep(r)'
  BY DEF SubInv
<1>i. \A s \in Servers : InStep(s)
  BY DEF SubInv
<1>1. CASE UNCHANGED vars \/ \E c \in Conns : ClientNext(c)
  <2>1. UNCHANGED <<user_conn_map, sub_cmds, subscribed, loop>>
    BY <1>1 DEF vars, ClientNext, Connect, ClientLogin, ClientChat, ClientLogout, ClientClose,
                SendRequest
  <2> QED BY <1>i, <2>1, InStepFrame
<1>2. ASSUME NEW s \in Servers,
             \/ \E c \in Conns : ServeConn(s, c)
             \/ LoopStep(s) \/ ObserverStep(s) \/ RedisStep(s) \/ ProcessStep(s)
      PROVE  InStep(r)'
  <2>1. CASE r # s
    BY <1>i, <1>2, <2>1, Locality, InStepFrame DEF OtherServersSame
  <2>2. InStep(s)'
    BY <1>i, <1>2, SubServe, SubLoop, SubOther
  <2> QED BY <2>1, <2>2
<1> QED BY <1>1, <1>2 DEF Next

(* What Redis will deliver to a server is what its map can hand on, for any   *)
(* number of servers, users and clients and through crashes and restarts.    *)
THEOREM SubscriptionsCorrect == Spec => []SubscriptionsFollowMap
<1>1. Init => SubInv
  <2> SUFFICES ASSUME Init, NEW s \in Servers PROVE InStep(s)
    BY DEF SubInv
  <2>1. /\ sub_cmds[s] = <<>> /\ subscribed[s] = {} /\ loop[s].pc = "poll"
        /\ \A u \in Users : user_conn_map[s][u] = NoConn
    BY DEF Init, BusInit, Polling
  <2>2. \A u \in Users : ~ EventuallySubscribed(s, u)
    BY <2>1 DEF EventuallySubscribed
  <2> QED BY <2>1, <2>2 DEF InStep, Follows
<1>2. SubInv => SubscriptionsFollowMap
  BY DEF SubInv, InStep, Follows, SubPcs, SubscriptionsFollowMap
<1> QED BY <1>1, <1>2, SubStep, TypeSafety, PTL DEF Spec

-----------------------------------------------------------------------------
(* Rows.  OnlineRowsOwned is inductive together with this: a login that has   *)
(* not set the row yet has its entry in the map.                             *)

OfflinePcs == {"logout_unsubscribe", "logout_offline", "close_unsubscribe", "close_offline"}
EntryPcs == {"login_subscribe", "login_online"}

EntryFirst(s) == loop[s].pc \in EntryPcs => user_conn_map[s][loop[s].user] # NoConn

OwnInv == OnlineRowsOwned /\ \A s \in Servers : EntryFirst(s)

NeedsOwner(u) == user_state[u] = "online" /\ u \notin abandoned

(* What a step of server s has to show: rows it leaves in need of an owner    *)
(* are its own, or were owned by another server already.                     *)
Accounts(s) ==
    /\ EntryFirst(s)'
    /\ \A u \in Users : NeedsOwner(u)' => Owns(s, u)' \/ (NeedsOwner(u) /\ ~Owns(s, u))

LEMMA OwnAccounts ==
  ASSUME OwnInv, NEW s \in Servers, OtherServersSame(s), Accounts(s)
  PROVE  OwnInv'
<1>1. ASSUME NEW r \in Servers, r # s
      PROVE  EntryFirst(r)' /\ \A u \in Users : Owns(r, u) => Owns(r, u)'
  BY <1>1 DEF OwnInv, OtherServersSame, EntryFirst, Owns, SettingOffline
<1>2. \A r \in Servers : EntryFirst(r)'
  BY <1>1 DEF Accounts
<1>3. ASSUME NEW u \in Users, NeedsOwner(u)'
      PROVE  \E r \in Servers : Owns(r, u)'
  <2>1. CASE Owns(s, u)'
    BY <2>1
  <2>2. CASE NeedsOwner(u) /\ ~Owns(s, u)
    <3>1. PICK r \in Servers : Owns(r, u)
      BY <2>2 DEF OwnInv, OnlineRowsOwned, NeedsOwner
    <3> QED BY <1>1, <2>2, <3>1
  <2> QED BY <1>3, <2>1, <2>2 DEF Accounts
<1>4. OnlineRowsOwned'
  BY <1>3 DEF OnlineRowsOwned, NeedsOwner
<1> QED BY <1>2, <1>4 DEF OwnInv

LEMMA OwnServe ==
  ASSUME TypeInv, OwnInv, NEW s \in Servers, NEW c \in Conns, ServeConn(s, c)
  PROVE  Accounts(s)
<1>l. loop \in [Servers -> LoopStates]
  BY DEF TypeInv, TypeOK
<1>m. user_conn_map \in [Servers -> [Users -> Conns \cup {NoConn}]]
  BY DEF TypeInv, TypeOK
<1>p. {"login_insert", "logout_unsubscribe", "chat_query", "close_lock"} \subseteq LoopPcs
  BY DEF LoopPcs
<1>f. ASSUME UNCHANGED <<user_conn_map, user_state, abandoned>>,
             loop[s].pc = "poll", loop' = loop \/ loop'[s].pc \notin EntryPcs
      PROVE  Accounts(s)
  BY <1>f DEF Accounts, EntryFirst, EntryPcs, NeedsOwner, Owns, SettingOffline
<1>1. ASSUME NEW u \in Users, NEW pwd \in Passwords, HandlerLogin(s, c, u, pwd)
      PROVE  Accounts(s)
  <2>1. loop[s].pc = "poll" /\ UNCHANGED <<user_conn_map, abandoned>>
    BY <1>1 DEF HandlerLogin, OnMessage, LoopAt
  <2>2. UNCHANGED user_state
    BY <1>1 DEF HandlerLogin, Query, DbFault
  <2>3. UNCHANGED loop \/ Enter(s, "login_insert", c, u, NoMsg)
    BY <1>1 DEF HandlerLogin
  <2>4. loop' = loop \/ loop'[s].pc = "login_insert"
    BY <2>3, <1>l, <1>p, EnterEffect
  <2> QED BY <2>1, <2>2, <2>4, <1>f DEF EntryPcs
<1>2. ASSUME NEW u \in Users, HandlerLogout(s, c, u)
      PROVE  Accounts(s)
  <2>1. loop'[s].pc = "logout_unsubscribe" /\ loop'[s].user = u
    <3>1. Enter(s, "logout_unsubscribe", NoConn, u, NoMsg)
      BY <1>2 DEF HandlerLogout
    <3> QED BY <3>1, <1>l, <1>p, EnterEffect
  <2>2. \A v \in Users : v # u => user_conn_map'[s][v] = user_conn_map[s][v]
    BY <1>2, <1>m DEF HandlerLogout
  <2>3. loop[s].pc = "poll" /\ UNCHANGED <<user_state, abandoned>>
    BY <1>2 DEF HandlerLogout, OnMessage, LoopAt
  <2> QED
    BY <2>1, <2>2, <2>3 DEF Accounts, EntryFirst, EntryPcs, NeedsOwner, Owns, SettingOffline
<1>3. ASSUME NEW u \in Users, NEW m \in Msgs, HandlerDirectChat(s, c, u, m)
      PROVE  Accounts(s)
  <2>1. loop[s].pc = "poll" /\ UNCHANGED <<user_conn_map, user_state, abandoned>>
    BY <1>3 DEF HandlerDirectChat, OnMessage, LoopAt
  <2>2. UNCHANGED loop \/ Enter(s, "chat_query", NoConn, u, m)
    BY <1>3 DEF HandlerDirectChat
  <2>3. loop' = loop \/ loop'[s].pc = "chat_query"
    BY <2>2, <1>l, <1>p, EnterEffect
  <2> QED BY <2>1, <2>3, <1>f DEF EntryPcs
<1>4. CASE HandleClose(s, c)
  <2>1. loop[s].pc = "poll" /\ Enter(s, "close_lock", c, NoUser, NoMsg)
    BY <1>4 DEF HandleClose, LoopAt
  <2>2. loop'[s].pc = "close_lock"
    BY <2>1, <1>l, <1>p, EnterEffect
  <2> QED BY <1>4, <2>1, <2>2, <1>f DEF HandleClose, EntryPcs
<1> QED BY <1>1, <1>2, <1>3, <1>4 DEF ServeConn

LEMMA OfflineRow ==
  ASSUME user_state \in [Users -> UserStates], NEW u \in Users, SetOffline(u)
  PROVE  /\ ~ NeedsOwner(u)'
         /\ \A v \in Users : v # u /\ NeedsOwner(v)' => NeedsOwner(v)
<1>1. CASE UpdateState(u, "offline") /\ abandoned' = abandoned \ {u}
  BY <1>1 DEF UpdateState, NeedsOwner
<1>2. CASE DbFault /\ abandoned' = IF user_state[u] = "online" THEN abandoned \cup {u}
                                                               ELSE abandoned
  BY <1>2 DEF DbFault, NeedsOwner
<1> QED BY <1>1, <1>2 DEF SetOffline

LEMMA OwnLoop ==
  ASSUME TypeInv, OwnInv, NEW s \in Servers, LoopStep(s)
  PROVE  Accounts(s)
<1>l. loop \in [Servers -> LoopStates] /\ LoopLocals(s)
  BY DEF TypeInv, TypeOK
<1>m. user_conn_map \in [Servers -> [Users -> Conns \cup {NoConn}]]
  BY DEF TypeInv, TypeOK
<1>d. user_state \in [Users -> UserStates]
  BY DEF TypeInv, TypeOK, StoreTypeOK
<1>e. EntryFirst(s)
  BY DEF OwnInv
<1>p. {"login_subscribe", "login_online", "login_query", "login_delete", "login_ack",
       "logout_offline", "chat_publish", "chat_store", "close_unsubscribe", "close_offline",
       "functors"} \subseteq LoopPcs
  BY DEF LoopPcs
<1>f. ASSUME UNCHANGED <<user_conn_map, user_state, abandoned>>,
             loop[s].pc \notin OfflinePcs, loop'[s].pc \notin EntryPcs
      PROVE  Accounts(s)
  BY <1>f DEF Accounts, EntryFirst, NeedsOwner, Owns, SettingOffline, OfflinePcs
<1>q. ASSUME BackToPoll(s), UNCHANGED <<user_conn_map, user_state, abandoned>>,
             loop[s].pc \notin OfflinePcs
      PROVE  Accounts(s)
  <2>1. loop'[s].pc = "poll"
    BY <1>q, <1>l, PollEffect
  <2> QED BY <1>q, <1>f, <2>1 DEF EntryPcs
<1>g. ASSUME NEW pc \in LoopPcs \ EntryPcs, Goto(s, pc), loop[s].pc \notin OfflinePcs,
             UNCHANGED <<user_conn_map, user_state, abandoned>>
      PROVE  Accounts(s)
  <2>1. loop'[s].pc = pc
    BY <1>g, <1>l, GotoEffect
  <2> QED BY <1>g, <1>f, <2>1
<1>h. ASSUME NEW pc \in OfflinePcs \cap LoopPcs, Goto(s, pc),
             UNCHANGED <<user_conn_map, user_state, abandoned>>
      PROVE  Accounts(s)
  <2>1. loop'[s].pc = pc /\ loop'[s].user = loop[s].user
    BY <1>h, <1>l, GotoEffect
  <2> QED
    BY <1>h, <2>1
    DEF Accounts, EntryFirst, EntryPcs, NeedsOwner, Owns, SettingOffline, OfflinePcs
<1>1. CASE LoginInsert(s)
  <2>1. loop[s].pc = "login_insert" /\ loop[s].user \in Users /\ loop[s].conn \in Conns
    BY <1>1, <1>l DEF LoginInsert, LoopAt, LoopLocals, LoginPcs
  <2>2. loop'[s].pc = "login_subscribe" /\ loop'[s].user = loop[s].user
    BY <1>1, <1>l, <1>p, GotoEffect DEF LoginInsert
  <2>3. /\ user_conn_map'[s][loop[s].user] # NoConn
        /\ \A v \in Users : v # loop[s].user => user_conn_map'[s][v] = user_conn_map[s][v]
    BY <1>1, <1>m, <2>1, SentinelAssumption DEF LoginInsert
  <2>4. UNCHANGED <<user_state, abandoned>>
    BY <1>1 DEF LoginInsert
  <2> QED
    BY <2>1, <2>2, <2>3, <2>4 DEF Accounts, EntryFirst, NeedsOwner, Owns, SettingOffline
<1>2. CASE LoginSubscribe(s)
  <2>1. loop[s].pc = "login_subscribe"
    BY <1>2 DEF LoginSubscribe, LoopAt
  <2>2. loop'[s].pc = "login_online" /\ loop'[s].user = loop[s].user
    BY <1>2, <1>l, <1>p, GotoEffect DEF LoginSubscribe
  <2>3. UNCHANGED <<user_conn_map, user_state, abandoned>>
    BY <1>2 DEF LoginSubscribe
  <2> QED
    BY <2>1, <2>2, <2>3, <1>e
    DEF Accounts, EntryFirst, EntryPcs, NeedsOwner, Owns, SettingOffline
<1>3. CASE LoginOnline(s)
  <2>1. loop[s].pc = "login_online" /\ loop[s].user \in Users
    BY <1>3, <1>l DEF LoginOnline, LoopAt, LoopLocals, LoginPcs
  <2>2. loop'[s].pc = "login_query"
    BY <1>3, <1>l, <1>p, GotoEffect DEF LoginOnline
  <2>3. user_conn_map' = user_conn_map /\ user_conn_map[s][loop[s].user] # NoConn
    BY <1>3, <2>1, <1>e DEF LoginOnline, EntryFirst, EntryPcs
  <2>4. \A v \in Users : v # loop[s].user /\ NeedsOwner(v)' => NeedsOwner(v)
    <3>1. CASE UpdateState(loop[s].user, "online") /\ abandoned' = abandoned \ {loop[s].user}
      BY <3>1, <2>1, <1>d DEF UpdateState, NeedsOwner
    <3>2. CASE DbFault /\ UNCHANGED abandoned
      BY <3>2 DEF DbFault, NeedsOwner
    <3> QED BY <1>3, <3>1, <3>2 DEF LoginOnline
  <2> QED
    BY <2>1, <2>2, <2>3, <2>4 DEF Accounts, EntryFirst, EntryPcs, Owns, SettingOffline
<1>4. CASE LoginQueryOffline(s)
  <2>1. loop[s].pc = "login_query" /\ UNCHANGED <<user_conn_map, abandoned>>
    BY <1>4 DEF LoginQueryOffline, LoopAt
  <2>2. PICK rows :
          /\ QueryOfflineMessages(loop[s].user, rows)
          /\ loop' = [loop EXCEPT
                ![s].pc = IF rows = <<>> THEN "login_ack" ELSE "login_delete",
                ![s].rows = rows]
    BY <1>4 DEF LoginQueryOffline
  <2>3. UNCHANGED user_state
    BY <2>2 DEF QueryOfflineMessages, DbFault
  <2>4. loop'[s].pc \in {"login_ack", "login_delete"}
    BY <2>2, <1>l DEF LoopStates
  <2> QED BY <2>1, <2>3, <2>4, <1>f DEF EntryPcs, OfflinePcs
<1>5. CASE LoginDeleteOffline(s)
  <2>1. UNCHANGED user_state
    BY <1>5 DEF LoginDeleteOffline, DeleteOfflineMessageByUserId, DbFault
  <2> QED BY <1>5, <2>1, <1>g, <1>p DEF LoginDeleteOffline, LoopAt, EntryPcs, OfflinePcs
<1>6. CASE LoginAck(s)
  BY <1>6, <1>q DEF LoginAck, LoopAt, OfflinePcs
<1>7. CASE LogoutUnsubscribe(s)
  BY <1>7, <1>h, <1>p DEF LogoutUnsubscribe, OfflinePcs
<1>8. CASE LogoutOffline(s)
  <2>1. loop[s].user \in Users /\ UNCHANGED user_conn_map
    BY <1>8, <1>l DEF LogoutOffline, LoopAt, LoopLocals, LogoutPcs
  <2>2. loop'[s].pc = "poll"
    BY <1>8, <1>l, PollEffect DEF LogoutOffline
  <2>3. PICK u \in Users : u = loop[s].user
    BY <2>1
  <2>4. ~ NeedsOwner(u)' /\ \A v \in Users : v # u /\ NeedsOwner(v)' => NeedsOwner(v)
    BY <1>8, <2>3, <1>d, OfflineRow DEF LogoutOffline
  <2> QED
    BY <2>1, <2>2, <2>3, <2>4 DEF Accounts, EntryFirst, EntryPcs, Owns, SettingOffline
<1>9. CASE ChatQuery(s)
  <2>1. PICK pc \in {"chat_publish", "chat_store"} : Goto(s, pc)
    BY <1>9 DEF ChatQuery
  <2>2. pc \in LoopPcs \ EntryPcs
    BY <1>p DEF EntryPcs
  <2>3. UNCHANGED user_state
    BY <1>9 DEF ChatQuery, Query, DbFault
  <2> QED BY <1>9, <2>1, <2>2, <2>3, <1>g DEF ChatQuery, LoopAt, OfflinePcs
<1>10. CASE ChatPublish(s)
  BY <1>10, <1>q DEF ChatPublish, LoopAt, OfflinePcs
<1>11. CASE ChatStoreOffline(s)
  <2>1. UNCHANGED user_state
    BY <1>11 DEF ChatStoreOffline, StoreOfflineMessage, DbFault
  <2> QED BY <1>11, <2>1, <1>q DEF ChatStoreOffline, LoopAt, OfflinePcs
<1>12. CASE CloseErase(s)
  <2>1. loop[s].pc = "close_lock" /\ UNCHANGED <<user_state, abandoned>>
    BY <1>12 DEF CloseErase, LoopAt
  <2>2. CASE Goto(s, "close_unsubscribe") /\ UNCHANGED user_conn_map
    BY <2>1, <2>2, <1>h, <1>p DEF OfflinePcs
  <2>3. ASSUME NEW u \in Users,
               user_conn_map' = [user_conn_map EXCEPT ![s][u] = NoConn],
               loop' = [loop EXCEPT ![s].pc = "close_unsubscribe", ![s].user = u]
        PROVE  Accounts(s)
    <3>1. loop'[s].pc = "close_unsubscribe" /\ loop'[s].user = u
      BY <2>3, <1>l DEF LoopStates
    <3>2. \A v \in Users : v # u => user_conn_map'[s][v] = user_conn_map[s][v]
      BY <2>3, <1>m
    <3> QED
      BY <2>1, <3>1, <3>2
      DEF Accounts, EntryFirst, EntryPcs, NeedsOwner, Owns, SettingOffline
  <2> QED BY <1>12, <2>2, <2>3 DEF CloseErase
<1>13. CASE CloseUnsubscribe(s)
  BY <1>13, <1>h, <1>p DEF CloseUnsubscribe, OfflinePcs
<1>14. CASE CloseOffline(s)
  <2>1. UNCHANGED user_conn_map
    BY <1>14 DEF CloseOffline
  <2>2. loop'[s].pc = "poll"
    BY <1>14, <1>l, PollEffect DEF CloseOffline
  <2>3. CASE loop[s].user = NoUser
    <3>1. UNCHANGED <<user_state, abandoned>>
      BY <1>14, <2>3 DEF CloseOffline
    <3> QED
      BY <2>1, <2>2, <2>3, <3>1, SentinelAssumption
      DEF Accounts, EntryFirst, EntryPcs, NeedsOwner, Owns, SettingOffline
  <2>4. CASE loop[s].user # NoUser
    <3>1. PICK u \in Users : u = loop[s].user
      BY <2>4, <1>l DEF LoopStates
    <3>2. ~ NeedsOwner(u)' /\ \A v \in Users : v # u /\ NeedsOwner(v)' => NeedsOwner(v)
      BY <1>14, <2>4, <3>1, <1>d, OfflineRow DEF CloseOffline
    <3> QED
      BY <2>1, <2>2, <3>1, <3>2 DEF Accounts, EntryFirst, EntryPcs, Owns, SettingOffline
  <2> QED BY <2>3, <2>4
<1>15. CASE DoPendingFunctors(s)
  BY <1>15, <1>g, <1>p DEF DoPendingFunctors, LoopAt, EntryPcs, OfflinePcs
<1>16. CASE RunFunctor(s)
  <2>1. loop[s].pc = "functors" /\ (UNCHANGED loop \/ BackToPoll(s))
    BY <1>16 DEF RunFunctor, LoopAt
  <2>2. CASE UNCHANGED loop
    BY <1>16, <2>1, <2>2, <1>f DEF RunFunctor, OfflinePcs, EntryPcs
  <2>3. CASE BackToPoll(s)
    BY <1>16, <2>1, <2>3, <1>q DEF RunFunctor, OfflinePcs
  <2> QED BY <2>1, <2>2, <2>3
<1> QED
  BY <1>1, <1>2, <1>3, <1>4, <1>5, <1>6, <1>7, <1>8, <1>9, <1>10, <1>11, <1>12, <1>13,
     <1>14, <1>15, <1>16
  DEF LoopStep

LEMMA OwnOther ==
  ASSUME TypeInv, OwnInv, NEW s \in Servers,
         ObserverStep(s) \/ RedisStep(s) \/ ProcessStep(s)
  PROVE  Accounts(s)
<1>l. loop \in [Servers -> LoopStates]
  BY DEF TypeInv, TypeOK
<1>e. EntryFirst(s)
  BY DEF OwnInv
<1>f. ASSUME UNCHANGED <<user_conn_map, loop, user_state, abandoned>>
      PROVE  Accounts(s)
  BY <1>f, <1>e DEF Accounts, EntryFirst, NeedsOwner, Owns, SettingOffline
<1>1. CASE ObserverStep(s)
  <2>1. CASE StartObserving(s) \/ QueueInLoop(s)
    BY <2>1, <1>f DEF StartObserving, QueueInLoop
  <2>2. CASE HandlerRedisSubscribeMessage(s)
    <3>1. UNCHANGED user_state
      BY <2>2 DEF HandlerRedisSubscribeMessage, StoreOfflineMessage, DbFault
    <3> QED BY <2>2, <3>1, <1>f DEF HandlerRedisSubscribeMessage
  <2> QED BY <1>1, <2>1, <2>2 DEF ObserverStep
<1>2. CASE RedisStep(s)
  BY <1>2, <1>f DEF RedisStep
<1>3. CASE EndProcess(s)
  <2>1. loop'[s].pc = "poll"
    BY <1>3, <1>l DEF EndProcess, Polling
  <2>2. /\ UNCHANGED user_state
        /\ abandoned' = abandoned \cup {u \in Users : user_state[u] = "online" /\ Owns(s, u)}
    BY <1>3 DEF EndProcess
  <2>3. \A u \in Users : NeedsOwner(u)' => NeedsOwner(u) /\ ~Owns(s, u)
    BY <2>2 DEF NeedsOwner
  <2> QED BY <2>1, <2>3 DEF Accounts, EntryFirst, EntryPcs
<1>4. CASE SigInt(s)
  <2>1. UNCHANGED <<user_conn_map, loop>>
    BY <1>4 DEF SigInt
  <2>2. \A u \in Users : NeedsOwner(u)' => NeedsOwner(u)
    BY <1>4 DEF SigInt, ResetState, DbFault, NeedsOwner
  <2> QED BY <2>1, <2>2, <1>e DEF Accounts, EntryFirst, Owns, SettingOffline
<1>5. CASE Restart(s)
  BY <1>5, <1>f DEF Restart
<1> QED BY <1>1, <1>2, <1>3, <1>4, <1>5 DEF ProcessStep, Crash, Exit

LEMMA OwnStep == TypeInv /\ OwnInv /\ [Next]_vars => OwnInv'
<1> SUFFICES ASSUME TypeInv, OwnInv, [Next]_vars
             PROVE  OwnInv'
  OBVIOUS
<1>1. CASE UNCHANGED vars \/ \E c \in Conns : ClientNext(c)
  <2>1. UNCHANGED <<user_conn_map, loop, user_state, abandoned>>
    BY <1>1 DEF vars, ClientNext, Connect, ClientLogin, ClientChat, ClientLogout, ClientClose,
                SendRequest
  <2> QED BY <2>1 DEF OwnInv, OnlineRowsOwned, EntryFirst, Owns, SettingOffline
<1>2. ASSUME NEW s \in Servers,
             \/ \E c \in Conns : ServeConn(s, c)
             \/ LoopStep(s) \/ ObserverStep(s) \/ RedisStep(s) \/ ProcessStep(s)
      PROVE  OwnInv'
  <2>1. OtherServersSame(s)
    BY <1>2, Locality
  <2>2. Accounts(s)
    BY <1>2, OwnServe, OwnLoop, OwnOther
  <2> QED BY <2>1, <2>2, OwnAccounts
<1> QED BY <1>1, <1>2 DEF Next

(* An online row has a server that will set it back, for any number of        *)
(* servers racing to log the same user in and out, unless a process died or a *)
(* statement failed.                                                         *)
THEOREM RowsCorrect == Spec => []OnlineRowsOwned
<1>1. Init => OwnInv
  BY DEF Init, StoreInit, Polling, OwnInv, OnlineRowsOwned, EntryFirst, EntryPcs
<1>2. OwnInv => OnlineRowsOwned
  BY DEF OwnInv
<1> QED BY <1>1, <1>2, OwnStep, TypeSafety, PTL DEF Spec
=============================================================================
