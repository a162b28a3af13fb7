------------------------- MODULE ChatServiceProofs -------------------------
(***************************************************************************)
(* Proofs about a chat server that is alone: what the cluster of several   *)
(* servers does not keep (README, section 4) holds when there is one, and  *)
(* the one server implements ChatService.  Each theorem names, as          *)
(* assumptions on the constants, what it needs.                            *)
(***************************************************************************)
EXTENDS ChatDeliveryProofs, ServiceRefinement

USE DEF storeVars, busVars, sessionVars, clientVars, faultVars

OneServer == \A s, t \in Servers : s = t
NoDbFaults == MaxDbFaults = 0
NoProcessEnds == MaxCrashes = 0
WholeRequests == MaxRead = 1

-----------------------------------------------------------------------------
(* Sessions.  Four records of a session exist: the client's menu, a logout on *)
(* its way, the entry of the map and the row.                                 *)

(* What a client has asked for and the server has not read. *)
Asks(c) ==
    /\ \A i \in DOMAIN inbox[c] :
          /\ inbox[c][i].type = "login"
                => i = Len(inbox[c]) /\ client[c].menu \in {"waiting", "closed"}
          /\ inbox[c][i].type = "logout" => client[c].menu \in {"login", "waiting", "closed"}
    /\ \A i, j \in DOMAIN inbox[c] :
          inbox[c][i].type = "logout" /\ inbox[c][j].type = "logout" => i = j
    /\ client[c].menu = "none" => inbox[c] = <<>>

Established(c) == client[c].menu # "none" => conn[c].state # "none"

(* A client that is logged in or taken down has no request on its way. *)
Serves(s) ==
    /\ loop[s].pc \in LoginPcs
          => /\ inbox[loop[s].conn] = <<>>
             /\ client[loop[s].conn].menu \in {"waiting", "closed"}
    /\ loop[s].pc = "close_lock"
          => /\ inbox[loop[s].conn] = <<>> /\ client[loop[s].conn].menu = "closed"
             /\ loop[s].user = NoUser

(* Why the map has an entry, and what it says of the row. *)
MenuEntries(s) ==
    /\ \A c \in Conns : client[c].menu = "main" => user_conn_map[s][client[c].user] = c
    /\ \A c \in Conns : \A i \in DOMAIN inbox[c] :
          inbox[c][i].type = "logout" => user_conn_map[s][inbox[c][i].user] = c

LoopEntries(s) ==
    /\ loop[s].pc = "login_insert" => user_conn_map[s][loop[s].user] = NoConn
    /\ loop[s].pc \in LoginPcs \ {"login_insert"}
          => user_conn_map[s][loop[s].user] = loop[s].conn
    /\ loop[s].pc \in OfflinePcs \cup ChatPcs /\ loop[s].user \in Users
          => user_conn_map[s][loop[s].user] = NoConn

EntriesOnline(s) ==
    proc[s] # "exiting" =>
        \A u \in Users : user_conn_map[s][u] # NoConn =>
            user_state[u] = "online" \/ (loop[s].pc \in EntryPcs /\ loop[s].user = u)

SessionInv ==
    /\ \A c \in Conns : Asks(c) /\ Established(c)
    /\ \A s \in Servers : Serves(s) /\ MenuEntries(s) /\ LoopEntries(s) /\ EntriesOnline(s)

LEMMA NoFault ==
  ASSUME NoDbFaults, TypeInv
  PROVE  ~DbFault
  BY DEF NoDbFaults, TypeInv, TypeOK, StoreTypeOK, DbFault

(* A step that leaves clients, their requests and the map alone. *)
LEMMA SessionFrame ==
  ASSUME OneServer, SessionInv, NEW s \in Servers,
         UNCHANGED <<client, inbox, user_conn_map>>,
         \A c \in Conns : conn[c].state # "none" => conn'[c].state # "none",
         Serves(s)', LoopEntries(s)', EntriesOnline(s)'
  PROVE  SessionInv'
<1>1. \A r \in Servers : r = s
  BY DEF OneServer
<1>2. \A c \in Conns : Asks(c)'
  BY DEF SessionInv, Asks
<1>3. \A c \in Conns : Established(c)'
  BY DEF SessionInv, Established
<1>4. MenuEntries(s)'
  BY DEF SessionInv, MenuEntries
<1> QED BY <1>1, <1>2, <1>3, <1>4 DEF SessionInv

(* What is behind a request that is read, and in front of one that is sent. *)
LEMMA SentRequest ==
  ASSUME TypeInv, NEW c \in Conns, NEW r \in Requests,
         inbox' = [inbox EXCEPT ![c] = Append(@, r)]
  PROVE  /\ \A d \in Conns : d # c => inbox'[d] = inbox[d]
         /\ inbox[c] \in Seq(Requests) /\ inbox'[c] \in Seq(Requests)
         /\ Len(inbox'[c]) = Len(inbox[c]) + 1
         /\ DOMAIN inbox[c] = 1..Len(inbox[c]) /\ DOMAIN inbox'[c] = 1..(Len(inbox[c]) + 1)
         /\ \A i \in DOMAIN inbox[c] : inbox'[c][i] = inbox[c][i]
         /\ inbox'[c][Len(inbox[c]) + 1] = r
  BY DEF TypeInv, TypeOK

(* A client that ends: a first part of its requests stays, and the chat       *)
(* messages in the rest are counted as lost.                                  *)
LEMMA CutRequests ==
  ASSUME TypeInv, NEW c \in Conns, ClientClose(c)
  PROVE  /\ \A d \in Conns : d # c => inbox'[d] = inbox[d]
         /\ \A d \in Conns : \A i \in DOMAIN inbox'[d] :
               i \in DOMAIN inbox[d] /\ inbox'[d][i] = inbox[d][i]
         /\ \A d \in Conns : \A i \in DOMAIN inbox[d] :
               \/ i \in DOMAIN inbox'[d] /\ inbox'[d][i] = inbox[d][i]
               \/ inbox[d][i].type = "chat" => inbox[d][i].msg \in lost'
         /\ Len(inbox[c]) \in DOMAIN inbox'[c] => inbox'[c] = inbox[c]
         /\ lost \subseteq lost' /\ UNCHANGED msg_to
<1>1. PICK k \in 0..Len(inbox[c]) :
         /\ inbox' = [inbox EXCEPT ![c] = SubSeq(@, 1, k)]
         /\ lost' = lost \cup {m \in Msgs : \E i \in DOMAIN inbox[c] :
                                  i > k /\ inbox[c][i].type = "chat" /\ inbox[c][i].msg = m}
  BY DEF ClientClose
<1>2. inbox \in [Conns -> Seq(Requests)] /\ inbox[c] \in Seq(Requests) /\ k \in Nat
  BY DEF TypeInv, TypeOK
<1>3. /\ inbox'[c] = SubSeq(inbox[c], 1, k) /\ \A d \in Conns : d # c => inbox'[d] = inbox[d]
      /\ DOMAIN inbox[c] = 1..Len(inbox[c]) /\ Len(inbox[c]) \in Nat /\ k <= Len(inbox[c])
  BY <1>1, <1>2
<1>4. /\ DOMAIN inbox'[c] = 1..k /\ \A i \in 1..k : inbox'[c][i] = inbox[c][i]
      /\ Len(inbox'[c]) = k /\ inbox'[c] \in Seq(Requests)
  BY <1>2, <1>3
<1>5. \A i \in DOMAIN inbox'[c] : i \in DOMAIN inbox[c] /\ inbox'[c][i] = inbox[c][i]
  BY <1>2, <1>3, <1>4
<1>6. ASSUME NEW i \in DOMAIN inbox[c], i \notin DOMAIN inbox'[c], inbox[c][i].type = "chat"
      PROVE  inbox[c][i].msg \in lost'
  <2>1. i > k
    BY <1>2, <1>3, <1>4, <1>6
  <2>2. inbox[c][i].msg \in Msgs
    BY <1>2, <1>6 DEF Requests
  <2> QED BY <1>1, <1>6, <2>1, <2>2
<1>7. Len(inbox[c]) \in DOMAIN inbox'[c] => inbox'[c] = inbox[c]
  <2> SUFFICES ASSUME Len(inbox[c]) \in DOMAIN inbox'[c] PROVE inbox'[c] = inbox[c]
    OBVIOUS
  <2>1. PICK n \in 1..k : n = Len(inbox[c])
    BY <1>4
  <2>2. n \in Nat /\ k <= n /\ n <= k
    BY <1>2, <1>3, <2>1
  <2>3. k = n
    BY <1>2, <2>2
  <2> QED BY <1>2, <1>3, <1>4, <2>1, <2>3
<1> QED BY <1>1, <1>3, <1>5, <1>6, <1>7 DEF ClientClose

LEMMA ReadRequest ==
  ASSUME TypeInv, NEW s \in Servers, NEW c \in Conns, NEW r \in Requests, OnMessage(s, c, r)
  PROVE  /\ \A d \in Conns : d # c => inbox'[d] = inbox[d]
         /\ inbox[c] \in Seq(Requests) /\ inbox'[c] \in Seq(Requests)
         /\ Len(inbox[c]) > 0 /\ inbox[c][1] = r
         /\ \E n \in 1..MaxRead :
               /\ n <= Len(inbox[c]) /\ Len(inbox'[c]) = Len(inbox[c]) - n
               /\ \A i \in DOMAIN inbox'[c] :
                     i + n \in DOMAIN inbox[c] /\ inbox'[c][i] = inbox[c][i + n]
<1>1. PICK n \in 1..MaxRead :
         /\ n <= Len(inbox[c])
         /\ inbox' = [inbox EXCEPT ![c] = SubSeq(@, n + 1, Len(@))]
  BY DEF OnMessage
<1>2. inbox \in [Conns -> Seq(Requests)] /\ n \in Nat /\ n >= 1
  BY BoundsAssumption DEF TypeInv, TypeOK
<1>3. inbox[c] \in Seq(Requests) /\ Len(inbox[c]) \in Nat
  BY <1>2
<1>4. inbox'[c] = SubSeq(inbox[c], n + 1, Len(inbox[c]))
  BY <1>1, <1>2
<1>5. /\ inbox'[c] \in Seq(Requests) /\ Len(inbox'[c]) = Len(inbox[c]) - n
      /\ \A i \in 1..(Len(inbox[c]) - n) : inbox'[c][i] = inbox[c][i + n]
  BY <1>1, <1>2, <1>3, <1>4
<1>6. Len(inbox[c]) > 0 /\ inbox[c][1] = r
  BY <1>3 DEF OnMessage
<1>7. \A i \in DOMAIN inbox'[c] : i + n \in DOMAIN inbox[c] /\ inbox'[c][i] = inbox[c][i + n]
  BY <1>1, <1>2, <1>3, <1>5
<1> QED BY <1>1, <1>2, <1>3, <1>5, <1>6, <1>7 DEF OnMessage

LEMMA SessionClient ==
  ASSUME OneServer, TypeInv, LifeInv, SessionInv, NEW c \in Conns, ClientNext(c)
  PROVE  SessionInv'
<1>s. PICK s \in Servers : \A r \in Servers : r = s
  BY DEF OneServer, TypeInv, TypeOK, ConnStates
<1>t. /\ client \in [Conns -> ClientStates] /\ conn \in [Conns -> ConnStates]
      /\ loop \in [Servers -> LoopStates]
      /\ \A r \in Servers : LoopLocals(r)
  BY DEF TypeInv, TypeOK
<1>i. /\ \A d \in Conns : Asks(d) /\ Established(d)
      /\ Serves(s) /\ MenuEntries(s) /\ LoopEntries(s) /\ EntriesOnline(s)
  BY <1>s DEF SessionInv
<1>1. CASE Connect(c)
  <2>1. Unconnected
    BY DEF LifeInv
  <2> QED
    BY <1>1, <1>s, <1>t, <1>i, <2>1
    DEF Connect, Unconnected, SessionInv, Asks, Established, Serves, MenuEntries, LoopEntries, EntriesOnline,
        ClientStates, ConnStates, LoopLocals
<1>2. ASSUME NEW u \in Users, NEW pwd \in Passwords, ClientLogin(c, u, pwd)
      PROVE  SessionInv'
  <2> DEFINE req == [type |-> "login", user |-> u, pwd |-> pwd]
  <2>1. req \in Requests /\ req.type = "login"
    BY DEF Requests
  <2>2. inbox' = [inbox EXCEPT ![c] = Append(@, req)]
    BY <1>2 DEF ClientLogin, SendRequest
  <2> HIDE DEF req
  <2>3. /\ client[c].menu = "login" /\ client' = [client EXCEPT ![c].menu = "waiting"]
        /\ UNCHANGED <<user_conn_map, loop, conn, proc, user_state>>
    BY <1>2 DEF ClientLogin, SendRequest
  <2>4. \A d \in Conns : Asks(d)'
    BY <1>i, <1>t, <2>1, <2>2, <2>3, SentRequest DEF Asks, ClientStates
  <2>5. \A d \in Conns : Established(d)'
    BY <1>i, <1>t, <2>3 DEF Established, ClientStates
  <2>6. Serves(s)'
    BY <1>s, <1>i, <1>t, <2>1, <2>2, <2>3, SentRequest DEF Serves, LoopLocals, ClientStates
  <2>7. MenuEntries(s)'
    BY <1>i, <1>t, <2>1, <2>2, <2>3, SentRequest DEF MenuEntries, ClientStates
  <2>8. LoopEntries(s)' /\ EntriesOnline(s)'
    BY <1>s, <1>i, <2>3 DEF LoopEntries, EntriesOnline
  <2> QED BY <1>s, <2>4, <2>5, <2>6, <2>7, <2>8 DEF SessionInv
<1>3. ASSUME NEW u \in Users, NEW m \in Msgs, ClientChat(c, u, m)
      PROVE  SessionInv'
  <2> DEFINE req == [type |-> "chat", user |-> u, msg |-> m]
  <2>1. req \in Requests /\ req.type = "chat"
    BY DEF Requests
  <2>2. inbox' = [inbox EXCEPT ![c] = Append(@, req)]
    BY <1>3 DEF ClientChat, SendRequest
  <2> HIDE DEF req
  <2>3. /\ client[c].menu = "main"
        /\ UNCHANGED <<client, user_conn_map, loop, conn, proc, user_state>>
    BY <1>3 DEF ClientChat, SendRequest
  <2>4. \A d \in Conns : Asks(d)'
    BY <1>i, <1>t, <2>1, <2>2, <2>3, SentRequest DEF Asks, ClientStates
  <2>5. \A d \in Conns : Established(d)'
    BY <1>i, <2>3 DEF Established
  <2>6. Serves(s)'
    BY <1>s, <1>i, <1>t, <2>1, <2>2, <2>3, SentRequest DEF Serves, LoopLocals
  <2>7. MenuEntries(s)'
    BY <1>i, <2>1, <2>2, <2>3, SentRequest DEF MenuEntries
  <2>8. LoopEntries(s)' /\ EntriesOnline(s)'
    BY <1>s, <1>i, <2>3 DEF LoopEntries, EntriesOnline
  <2> QED BY <1>s, <2>4, <2>5, <2>6, <2>7, <2>8 DEF SessionInv
<1>4. CASE ClientLogout(c)
  <2> DEFINE req == [type |-> "logout", user |-> client[c].user]
  <2>0. client[c].menu = "main" /\ client[c].user \in Users
    BY <1>4 DEF ClientLogout, TypeInv, ClientLocals
  <2>1. req \in Requests /\ req.type = "logout" /\ req.user = client[c].user
    BY <2>0 DEF Requests
  <2>2. inbox' = [inbox EXCEPT ![c] = Append(@, req)]
    BY <1>4 DEF ClientLogout, SendRequest
  <2> HIDE DEF req
  <2>3. /\ client' = [client EXCEPT ![c] = [menu |-> "login", user |-> NoUser]]
        /\ UNCHANGED <<user_conn_map, loop, conn, proc, user_state>>
    BY <1>4 DEF ClientLogout, SendRequest
  <2>4. \A d \in Conns : Asks(d)'
    BY <1>i, <1>t, <2>0, <2>1, <2>2, <2>3, SentRequest DEF Asks, ClientStates
  <2>5. \A d \in Conns : Established(d)'
    BY <1>i, <1>t, <2>0, <2>3 DEF Established, ClientStates
  <2>6. Serves(s)'
    BY <1>s, <1>i, <1>t, <2>0, <2>1, <2>2, <2>3, SentRequest DEF Serves, LoopLocals, ClientStates
  <2>7. MenuEntries(s)'
    BY <1>i, <1>t, <2>0, <2>1, <2>2, <2>3, SentRequest DEF MenuEntries, ClientStates
  <2>8. LoopEntries(s)' /\ EntriesOnline(s)'
    BY <1>s, <1>i, <2>3 DEF LoopEntries, EntriesOnline
  <2> QED BY <1>s, <2>4, <2>5, <2>6, <2>7, <2>8 DEF SessionInv
<1>5. CASE ClientClose(c)
  BY <1>5, <1>s, <1>t, <1>i
  DEF ClientClose, SessionInv, Asks, Established, Serves, MenuEntries, LoopEntries, EntriesOnline, ClientStates,
      LoopLocals
<1> QED BY <1>1, <1>2, <1>3, <1>4, <1>5 DEF ClientNext

(* Reading requests of a client that is not told anything. *)
LEMMA ReadKeepsAsks ==
  ASSUME TypeInv, SessionInv, NEW s \in Servers, NEW c \in Conns, NEW r \in Requests,
         OnMessage(s, c, r), UNCHANGED client
  PROVE  \A d \in Conns : Asks(d)'
<1>1. PICK n \in 1..MaxRead :
         /\ n <= Len(inbox[c]) /\ Len(inbox'[c]) = Len(inbox[c]) - n
         /\ \A i \in DOMAIN inbox'[c] :
               i + n \in DOMAIN inbox[c] /\ inbox'[c][i] = inbox[c][i + n]
  BY ReadRequest
<1>2. n \in Nat
  BY BoundsAssumption
<1>3. /\ \A d \in Conns : d # c => inbox'[d] = inbox[d]
      /\ inbox[c] \in Seq(Requests) /\ inbox'[c] \in Seq(Requests) /\ Len(inbox[c]) > 0
  BY ReadRequest
<1>4. \A d \in Conns : Asks(d)
  BY DEF SessionInv
<1>5. ASSUME NEW d \in Conns, d # c PROVE Asks(d)'
  BY <1>3, <1>4, <1>5 DEF Asks
<1>6. Asks(c)'
  BY <1>1, <1>2, <1>3, <1>4 DEF Asks
<1> QED BY <1>5, <1>6

(* A login is the last request of its client. *)
LEMMA ReadLogin ==
  ASSUME TypeInv, SessionInv, NEW s \in Servers, NEW c \in Conns, NEW r \in Requests,
         OnMessage(s, c, r), r.type = "login"
  PROVE  /\ inbox'[c] = <<>> /\ \A d \in Conns : d # c => inbox'[d] = inbox[d]
         /\ Len(inbox[c]) = 1 /\ client[c].menu \in {"waiting", "closed"}
<1>1. PICK n \in 1..MaxRead : n <= Len(inbox[c]) /\ Len(inbox'[c]) = Len(inbox[c]) - n
  BY ReadRequest
<1>2. n \in Nat /\ n >= 1
  BY BoundsAssumption
<1>3. /\ \A d \in Conns : d # c => inbox'[d] = inbox[d]
      /\ inbox[c] \in Seq(Requests) /\ inbox'[c] \in Seq(Requests)
      /\ Len(inbox[c]) > 0 /\ inbox[c][1] = r
  BY ReadRequest
<1>4. Len(inbox[c]) = 1 /\ client[c].menu \in {"waiting", "closed"}
  <2>1. 1 \in DOMAIN inbox[c]
    BY <1>3
  <2> QED BY <1>3, <2>1 DEF SessionInv, Asks
<1>5. inbox'[c] = <<>>
  BY <1>1, <1>2, <1>3, <1>4
<1> QED BY <1>3, <1>4, <1>5

LEMMA SessionServe ==
  ASSUME OneServer, NoDbFaults, TypeInv, SessionInv, NEW s \in Servers, NEW c \in Conns,
         ServeConn(s, c)
  PROVE  SessionInv'
<1>s. \A r \in Servers : r = s
  BY DEF OneServer
<1>t. /\ client \in [Conns -> ClientStates] /\ conn \in [Conns -> ConnStates]
      /\ loop \in [Servers -> LoopStates] /\ user_state \in [Users -> UserStates]
      /\ user_conn_map \in [Servers -> [Users -> Conns \cup {NoConn}]]
  BY DEF TypeInv, TypeOK, StoreTypeOK
<1>i. /\ \A d \in Conns : Asks(d) /\ Established(d)
      /\ Serves(s) /\ MenuEntries(s) /\ LoopEntries(s) /\ EntriesOnline(s)
  BY DEF SessionInv
<1>1. ASSUME NEW u \in Users, NEW pwd \in Passwords, HandlerLogin(s, c, u, pwd)
      PROVE  SessionInv'
  <2> DEFINE req == [type |-> "login", user |-> u, pwd |-> pwd]
  <2>1. req \in Requests /\ req.type = "login"
    BY DEF Requests
  <2>2. OnMessage(s, c, req)
    BY <1>1 DEF HandlerLogin
  <2> HIDE DEF req
  <2>3. /\ inbox'[c] = <<>> /\ \A d \in Conns : d # c => inbox'[d] = inbox[d]
        /\ client[c].menu \in {"waiting", "closed"}
    BY <2>1, <2>2, ReadLogin
  <2>4. /\ LoopAt(s, "poll") /\ UNCHANGED <<user_conn_map, conn, proc, user_state>>
    BY <1>1, NoFault DEF HandlerLogin, OnMessage, Query
  <2>5. \A d \in Conns : d # c => client'[d] = client[d]
    BY <1>1, <1>t DEF HandlerLogin, Answer
  <2>6. client' \in [Conns -> ClientStates] /\ client'[c].menu \in {"login", "waiting", "closed"}
    BY <1>1, <1>t, <2>3 DEF HandlerLogin, Answer, ClientStates
  <2>7. \A d \in Conns : Asks(d)'
    <3>1. Asks(c)'
      BY <2>3, <2>6 DEF Asks
    <3>2. ASSUME NEW d \in Conns, d # c PROVE Asks(d)'
      BY <1>i, <2>3, <2>5, <3>2 DEF Asks
    <3> QED BY <3>1, <3>2
  <2>8. \A d \in Conns : Established(d)'
    BY <1>i, <2>3, <2>4, <2>5 DEF Established
  <2>9. MenuEntries(s)'
    BY <1>i, <2>3, <2>4, <2>5, <2>6 DEF MenuEntries
  <2>10. CASE UNCHANGED loop
    <3>1. Serves(s)' /\ LoopEntries(s)' /\ EntriesOnline(s)'
      BY <1>i, <2>4, <2>10
      DEF Serves, LoopEntries, EntriesOnline, LoopAt, LoginPcs, OfflinePcs, ChatPcs, EntryPcs
    <3> QED BY <1>s, <2>7, <2>8, <2>9, <3>1 DEF SessionInv
  <2>11. CASE Enter(s, "login_insert", c, u, NoMsg) /\ UNCHANGED client /\ user_state[u] = "offline"
    <3>1. loop'[s].pc = "login_insert" /\ loop'[s].conn = c /\ loop'[s].user = u
      BY <1>t, <2>11 DEF Enter
    <3>2. user_conn_map[s][u] = NoConn
      BY <1>i, <2>4, <2>11 DEF EntriesOnline, LoopAt, EntryPcs
    <3>3. Serves(s)' /\ LoopEntries(s)'
      BY <2>3, <2>4, <2>11, <3>1, <3>2 DEF Serves, LoopEntries, LoginPcs, OfflinePcs, ChatPcs
    <3>4. EntriesOnline(s)'
      BY <1>i, <2>4, <3>1 DEF EntriesOnline, LoopAt, EntryPcs
    <3> QED BY <1>s, <2>7, <2>8, <2>9, <3>3, <3>4 DEF SessionInv
  <2>12. \/ UNCHANGED loop
         \/ Enter(s, "login_insert", c, u, NoMsg) /\ UNCHANGED client /\ user_state[u] = "offline"
    <3>1. PICK res \in QueryResults :
             /\ Query(u, res)
             /\ \/ UNCHANGED loop
                \/ /\ res.state = "offline" /\ Enter(s, "login_insert", c, u, NoMsg)
                   /\ UNCHANGED client /\ res.found
      BY <1>1 DEF HandlerLogin
    <3>2. res = [found |-> TRUE, state |-> user_state[u]]
      BY <3>1, NoFault DEF Query
    <3>3. res.state = user_state[u]
      BY <3>2
    <3> QED BY <3>1, <3>3, Zenon
  <2> QED BY <2>10, <2>11, <2>12
<1>2. ASSUME NEW u \in Users, HandlerLogout(s, c, u)
      PROVE  SessionInv'
  <2> DEFINE req == [type |-> "logout", user |-> u]
  <2>1. req \in Requests /\ req.type = "logout" /\ req.user = u
    BY DEF Requests
  <2>2. OnMessage(s, c, req)
    BY <1>2 DEF HandlerLogout
  <2> HIDE DEF req
  <2>3. /\ LoopAt(s, "poll") /\ UNCHANGED <<client, conn, proc, user_state>>
        /\ user_conn_map' = [user_conn_map EXCEPT ![s][u] = NoConn]
        /\ Enter(s, "logout_unsubscribe", NoConn, u, NoMsg)
    BY <1>2 DEF HandlerLogout, OnMessage
  <2>4. PICK n \in 1..MaxRead :
         /\ n <= Len(inbox[c]) /\ Len(inbox'[c]) = Len(inbox[c]) - n
         /\ \A i \in DOMAIN inbox'[c] :
               i + n \in DOMAIN inbox[c] /\ inbox'[c][i] = inbox[c][i + n]
    BY <2>1, <2>2, ReadRequest
  <2>5. n \in Nat /\ n >= 1
    BY BoundsAssumption
  <2>6. /\ \A d \in Conns : d # c => inbox'[d] = inbox[d]
        /\ inbox[c] \in Seq(Requests) /\ inbox'[c] \in Seq(Requests)
        /\ Len(inbox[c]) > 0 /\ inbox[c][1] = req
    BY <2>1, <2>2, ReadRequest
  <2>7. \A d \in Conns : Asks(d)'
    BY <2>1, <2>2, <2>3, ReadKeepsAsks
  <2>8. \A d \in Conns : Established(d)'
    BY <1>i, <2>3 DEF Established
  <2>9. loop'[s].pc = "logout_unsubscribe" /\ loop'[s].user = u
    BY <1>t, <2>3 DEF Enter
  <2>10. user_conn_map'[s][u] = NoConn /\ \A v \in Users : v # u => user_conn_map'[s][v] = user_conn_map[s][v]
    BY <1>t, <2>3
  <2>11. 1 \in DOMAIN inbox[c] /\ user_conn_map[s][u] = c
    BY <1>i, <2>1, <2>6 DEF MenuEntries
  <2>12. MenuEntries(s)'
    <3>1. ASSUME NEW d \in Conns, client[d].menu = "main"
          PROVE  user_conn_map'[s][client[d].user] = d
      <4>1. user_conn_map[s][client[d].user] = d /\ client[d].user \in Users
        BY <1>i, <3>1 DEF MenuEntries, TypeInv, ClientLocals
      <4>2. d # c
        BY <1>i, <2>1, <2>6, <2>11, <3>1 DEF Asks
      <4> QED BY <2>10, <2>11, <4>1, <4>2
    <3>2. ASSUME NEW d \in Conns, NEW i \in DOMAIN inbox'[d], inbox'[d][i].type = "logout"
          PROVE  user_conn_map'[s][inbox'[d][i].user] = d
      <4>0. inbox'[d] \in Seq(Requests)
        BY <2>6 DEF TypeInv, TypeOK
      <4>1. inbox'[d][i].user \in Users
        BY <4>0, <3>2 DEF Requests
      <4>2. CASE d # c
        BY <1>i, <2>6, <2>10, <2>11, <3>2, <4>1, <4>2 DEF MenuEntries
      <4>3. CASE d = c
        <5>1. i + n \in DOMAIN inbox[c] /\ inbox[c][i + n].type = "logout" /\ i + n # 1
          BY <2>4, <2>5, <2>6, <3>2, <4>3
        <5> QED BY <1>i, <2>1, <2>6, <2>11, <5>1 DEF Asks
      <4> QED BY <4>2, <4>3
    <3> QED BY <2>3, <3>1, <3>2 DEF MenuEntries
  <2>13. Serves(s)' /\ LoopEntries(s)' /\ EntriesOnline(s)'
    BY <1>i, <2>3, <2>9, <2>10 DEF Serves, LoopEntries, EntriesOnline, LoopAt, LoginPcs, OfflinePcs, EntryPcs
  <2> QED BY <1>s, <2>7, <2>8, <2>12, <2>13 DEF SessionInv
<1>3. ASSUME NEW u \in Users, NEW m \in Msgs, HandlerDirectChat(s, c, u, m)
      PROVE  SessionInv'
  <2> DEFINE req == [type |-> "chat", user |-> u, msg |-> m]
  <2>1. req \in Requests
    BY DEF Requests
  <2>2. OnMessage(s, c, req)
    BY <1>3 DEF HandlerDirectChat
  <2> HIDE DEF req
  <2>3. /\ LoopAt(s, "poll") /\ UNCHANGED <<client, conn, proc, user_state, user_conn_map>>
        /\ \/ UNCHANGED loop
           \/ user_conn_map[s][u] = NoConn /\ Enter(s, "chat_query", NoConn, u, m)
    BY <1>3 DEF HandlerDirectChat, OnMessage
  <2>4. PICK n \in 1..MaxRead :
         /\ n <= Len(inbox[c]) /\ Len(inbox'[c]) = Len(inbox[c]) - n
         /\ \A i \in DOMAIN inbox'[c] :
               i + n \in DOMAIN inbox[c] /\ inbox'[c][i] = inbox[c][i + n]
    BY <2>1, <2>2, ReadRequest
  <2>5. \A d \in Conns : d # c => inbox'[d] = inbox[d]
    BY <2>1, <2>2, ReadRequest
  <2>6. \A d \in Conns : Asks(d)'
    BY <2>1, <2>2, <2>3, ReadKeepsAsks
  <2>7. \A d \in Conns : Established(d)'
    BY <1>i, <2>3 DEF Established
  <2>8. MenuEntries(s)'
    BY <1>i, <2>3, <2>4, <2>5 DEF MenuEntries
  <2>9. CASE UNCHANGED loop
    <3>1. Serves(s)' /\ LoopEntries(s)' /\ EntriesOnline(s)'
      BY <1>i, <2>3, <2>9
      DEF Serves, LoopEntries, EntriesOnline, LoopAt, LoginPcs, OfflinePcs, ChatPcs, EntryPcs
    <3> QED BY <1>s, <2>6, <2>7, <2>8, <3>1 DEF SessionInv
  <2>10. CASE user_conn_map[s][u] = NoConn /\ Enter(s, "chat_query", NoConn, u, m)
    <3>1. loop'[s].pc = "chat_query" /\ loop'[s].user = u
      BY <1>t, <2>10 DEF Enter
    <3>2. Serves(s)' /\ LoopEntries(s)' /\ EntriesOnline(s)'
      BY <1>i, <2>3, <2>10, <3>1
      DEF Serves, LoopEntries, EntriesOnline, LoopAt, LoginPcs, OfflinePcs, ChatPcs, EntryPcs
    <3> QED BY <1>s, <2>6, <2>7, <2>8, <3>2 DEF SessionInv
  <2> QED BY <2>3, <2>9, <2>10
<1>4. CASE HandleClose(s, c)
  <2>1. /\ LoopAt(s, "poll") /\ client[c].menu = "closed" /\ inbox[c] = <<>>
        /\ UNCHANGED <<client, inbox, proc, user_state, user_conn_map>>
        /\ \A d \in Conns : conn[d].state # "none" => conn'[d].state # "none"
    BY <1>4, <1>t DEF HandleClose, ConnStates
  <2>2. loop'[s].pc = "close_lock" /\ loop'[s].conn = c /\ loop'[s].user = NoUser
    BY <1>4, <1>t DEF HandleClose, Enter
  <2>3. Serves(s)' /\ LoopEntries(s)' /\ EntriesOnline(s)'
    BY <1>i, <2>1, <2>2
    DEF Serves, LoopEntries, EntriesOnline, LoopAt, LoginPcs, OfflinePcs, ChatPcs, EntryPcs
  <2> QED BY <2>1, <2>3, SessionFrame
<1> QED BY <1>1, <1>2, <1>3, <1>4 DEF ServeConn

LEMMA SessionLoop ==
  ASSUME OneServer, NoDbFaults, TypeInv, SessionInv, NEW s \in Servers, LoopStep(s)
  PROVE  SessionInv'
<1>s. \A r \in Servers : r = s
  BY DEF OneServer
<1>t. /\ client \in [Conns -> ClientStates] /\ conn \in [Conns -> ConnStates]
      /\ loop \in [Servers -> LoopStates] /\ user_state \in [Users -> UserStates]
      /\ user_conn_map \in [Servers -> [Users -> Conns \cup {NoConn}]]
      /\ LoopLocals(s)
  BY DEF TypeInv, TypeOK, StoreTypeOK
<1>i. /\ \A d \in Conns : Asks(d) /\ Established(d)
      /\ Serves(s) /\ MenuEntries(s) /\ LoopEntries(s) /\ EntriesOnline(s)
  BY DEF SessionInv
<1>p. /\ "login_insert" \in LoginPcs /\ "login_subscribe" \in LoginPcs \ {"login_insert"}
      /\ "login_online" \in LoginPcs \ {"login_insert"}
      /\ "login_query" \in LoginPcs \ {"login_insert"}
      /\ "login_delete" \in LoginPcs \ {"login_insert"}
      /\ "login_ack" \in LoginPcs \ {"login_insert"}
  BY DEF LoginPcs
<1> USE DEF LoopAt
<1>1. CASE LoginInsert(s)
  <2> DEFINE u == loop[s].user
             c == loop[s].conn
  <2>1. /\ loop[s].pc = "login_insert" /\ u \in Users /\ c \in Conns
        /\ UNCHANGED <<client, inbox, conn, proc, user_state>>
        /\ user_conn_map' = [user_conn_map EXCEPT ![s][u] = IF @ = NoConn THEN c ELSE @]
    BY <1>1, <1>t, <1>p DEF LoginInsert, LoopLocals
  <2>2. loop'[s].pc = "login_subscribe" /\ loop'[s].user = u /\ loop'[s].conn = c
    BY <1>1, <1>t, GotoEffect DEF LoginInsert, LoopPcs
  <2>3. user_conn_map[s][u] = NoConn /\ inbox[c] = <<>> /\ client[c].menu \in {"waiting", "closed"}
    BY <1>i, <1>p, <2>1 DEF LoopEntries, Serves
  <2>4. user_conn_map'[s][u] = c /\ \A v \in Users : v # u => user_conn_map'[s][v] = user_conn_map[s][v]
    BY <1>t, <2>1, <2>3
  <2> HIDE DEF u, c
  <2>5. MenuEntries(s)'
    <3>1. ASSUME NEW d \in Conns, client[d].menu = "main"
          PROVE  user_conn_map'[s][client[d].user] = d
      BY <1>i, <2>3, <2>4, <3>1, SentinelAssumption DEF MenuEntries, TypeInv, ClientLocals
    <3>2. ASSUME NEW d \in Conns, NEW i \in DOMAIN inbox[d], inbox[d][i].type = "logout"
          PROVE  user_conn_map'[s][inbox[d][i].user] = d
      <4>1. inbox[d] \in Seq(Requests)
        BY DEF TypeInv, TypeOK
      <4>2. inbox[d][i].user \in Users
        BY <4>1, <3>2 DEF Requests
      <4> QED BY <1>i, <2>3, <2>4, <3>2, <4>2, SentinelAssumption DEF MenuEntries
    <3> QED BY <2>1, <3>1, <3>2 DEF MenuEntries
  <2>6. \A d \in Conns : Asks(d)' /\ Established(d)'
    BY <1>i, <2>1 DEF Asks, Established
  <2>7. Serves(s)' /\ LoopEntries(s)'
    BY <2>1, <2>2, <2>3, <2>4 DEF Serves, LoopEntries, LoginPcs, OfflinePcs, ChatPcs
  <2>8. EntriesOnline(s)'
    BY <1>i, <2>1, <2>2, <2>4 DEF EntriesOnline, EntryPcs
  <2> QED BY <1>s, <2>5, <2>6, <2>7, <2>8 DEF SessionInv
<1>2. CASE LoginSubscribe(s)
  <2>1. loop'[s].pc = "login_online" /\ loop'[s].user = loop[s].user /\ loop'[s].conn = loop[s].conn
    BY <1>2, <1>t, GotoEffect DEF LoginSubscribe, LoopPcs
  <2>2. Serves(s)' /\ LoopEntries(s)' /\ EntriesOnline(s)'
    BY <1>2, <1>i, <1>p, <2>1
    DEF LoginSubscribe, Serves, LoopEntries, EntriesOnline, LoginPcs, OfflinePcs, ChatPcs, EntryPcs
  <2> QED BY <1>2, <2>2, SessionFrame DEF LoginSubscribe
<1>3. CASE LoginOnline(s)
  <2>1. loop'[s].pc = "login_query" /\ loop'[s].user = loop[s].user /\ loop'[s].conn = loop[s].conn
    BY <1>3, <1>t, GotoEffect DEF LoginOnline, LoopPcs
  <2>2. user_state' = [user_state EXCEPT ![loop[s].user] = "online"]
    BY <1>3, NoFault DEF LoginOnline, UpdateState
  <2>3. loop[s].pc = "login_online" /\ loop[s].user \in Users
    BY <1>3, <1>t, <1>p DEF LoginOnline, LoopLocals
  <2>4. Serves(s)' /\ LoopEntries(s)'
    BY <1>3, <1>i, <1>p, <2>1, <2>3
    DEF LoginOnline, Serves, LoopEntries, LoginPcs, OfflinePcs, ChatPcs
  <2>5. EntriesOnline(s)'
    BY <1>3, <1>i, <1>t, <2>1, <2>2, <2>3 DEF LoginOnline, EntriesOnline, EntryPcs
  <2> QED BY <1>3, <2>4, <2>5, SessionFrame DEF LoginOnline
<1>4. CASE LoginQueryOffline(s)
  <2>1. /\ loop'[s].pc \in {"login_ack", "login_delete"} /\ loop'[s].user = loop[s].user
        /\ loop'[s].conn = loop[s].conn /\ loop[s].pc = "login_query"
        /\ UNCHANGED <<client, inbox, conn, proc, user_conn_map, user_state>>
    BY <1>4, <1>t, NoFault DEF LoginQueryOffline, QueryOfflineMessages, LoopStates
  <2>2. Serves(s)' /\ LoopEntries(s)' /\ EntriesOnline(s)'
    BY <1>i, <1>p, <2>1 DEF Serves, LoopEntries, EntriesOnline, LoginPcs, OfflinePcs, ChatPcs, EntryPcs
  <2> QED BY <2>1, <2>2, SessionFrame
<1>5. CASE LoginDeleteOffline(s)
  <2>1. loop'[s].pc = "login_ack" /\ loop'[s].user = loop[s].user /\ loop'[s].conn = loop[s].conn
    BY <1>5, <1>t, GotoEffect DEF LoginDeleteOffline, LoopPcs
  <2>2. /\ loop[s].pc = "login_delete"
        /\ UNCHANGED <<client, inbox, conn, proc, user_conn_map, user_state>>
    BY <1>5, NoFault DEF LoginDeleteOffline, DeleteOfflineMessageByUserId
  <2>3. Serves(s)' /\ LoopEntries(s)' /\ EntriesOnline(s)'
    BY <1>i, <1>p, <2>1, <2>2 DEF Serves, LoopEntries, EntriesOnline, LoginPcs, OfflinePcs, ChatPcs, EntryPcs
  <2> QED BY <2>2, <2>3, SessionFrame
<1>6. CASE LoginAck(s)
  <2>c. PICK c \in Conns, u \in Users : c = loop[s].conn /\ u = loop[s].user
    BY <1>6, <1>t, <1>p DEF LoginAck, LoopLocals
  <2>1. /\ loop[s].pc = "login_ack" /\ u \in Users /\ c \in Conns /\ Answer(c, u, 0)
        /\ UNCHANGED <<inbox, conn, proc, user_conn_map, user_state>>
    BY <1>6, <2>c DEF LoginAck
  <2>2. loop'[s].pc = "poll"
    BY <1>6, <1>t, PollEffect DEF LoginAck
  <2>3. user_conn_map[s][u] = c /\ inbox[c] = <<>> /\ client[c].menu \in {"waiting", "closed"}
    BY <1>i, <1>p, <2>c, <2>1 DEF LoopEntries, Serves
  <2>4. /\ \A d \in Conns : d # c => client'[d] = client[d]
        /\ client'[c].menu \in {"main", "closed"} /\ (client'[c].menu = "main" => client'[c].user = u)
    BY <1>t, <2>1, <2>3 DEF Answer, ClientStates
  <2>5. \A d \in Conns : Asks(d)' /\ Established(d)'
    <3>1. ASSUME NEW d \in Conns, d # c PROVE Asks(d)' /\ Established(d)'
      BY <1>i, <2>1, <2>4, <3>1 DEF Asks, Established
    <3>2. Asks(c)' /\ Established(c)'
      BY <1>i, <2>1, <2>3, <2>4 DEF Asks, Established
    <3> QED BY <3>1, <3>2
  <2>6. MenuEntries(s)'
    BY <1>i, <2>1, <2>3, <2>4 DEF MenuEntries
  <2>7. Serves(s)' /\ LoopEntries(s)'
    BY <2>2 DEF Serves, LoopEntries, LoginPcs, OfflinePcs, ChatPcs
  <2>8. EntriesOnline(s)'
    BY <1>i, <2>1, <2>2 DEF EntriesOnline, EntryPcs
  <2> QED BY <1>s, <2>5, <2>6, <2>7, <2>8 DEF SessionInv
<1>7. CASE LogoutUnsubscribe(s)
  <2>1. loop'[s].pc = "logout_offline" /\ loop'[s].user = loop[s].user
    BY <1>7, <1>t, GotoEffect DEF LogoutUnsubscribe, LoopPcs
  <2>2. Serves(s)' /\ LoopEntries(s)' /\ EntriesOnline(s)'
    BY <1>7, <1>i, <2>1
    DEF LogoutUnsubscribe, Serves, LoopEntries, EntriesOnline, LoginPcs, OfflinePcs, ChatPcs, EntryPcs
  <2> QED BY <1>7, <2>2, SessionFrame DEF LogoutUnsubscribe
<1>8. CASE LogoutOffline(s)
  <2>1. loop'[s].pc = "poll"
    BY <1>8, <1>t, PollEffect DEF LogoutOffline
  <2>2. /\ user_state' = [user_state EXCEPT ![loop[s].user] = "offline"]
        /\ loop[s].pc = "logout_offline" /\ loop[s].user \in Users
        /\ UNCHANGED <<client, inbox, conn, proc, user_conn_map>>
    BY <1>8, <1>t, NoFault DEF LogoutOffline, SetOffline, UpdateState, LoopLocals, LogoutPcs
  <2>3. user_conn_map[s][loop[s].user] = NoConn
    BY <1>i, <2>2 DEF LoopEntries, OfflinePcs
  <2>4. Serves(s)' /\ LoopEntries(s)'
    BY <2>1 DEF Serves, LoopEntries, LoginPcs, OfflinePcs, ChatPcs
  <2>5. EntriesOnline(s)'
    BY <1>i, <1>t, <2>1, <2>2, <2>3 DEF EntriesOnline, EntryPcs
  <2> QED BY <2>2, <2>4, <2>5, SessionFrame
<1>9. CASE ChatQuery(s)
  <2>1. /\ loop'[s].pc \in {"chat_publish", "chat_store"} /\ loop'[s].user = loop[s].user
        /\ loop[s].pc = "chat_query"
        /\ UNCHANGED <<client, inbox, conn, proc, user_conn_map, user_state>>
    BY <1>9, <1>t, NoFault DEF ChatQuery, Query, Goto, LoopStates
  <2>2. Serves(s)' /\ LoopEntries(s)' /\ EntriesOnline(s)'
    BY <1>i, <2>1 DEF Serves, LoopEntries, EntriesOnline, LoginPcs, OfflinePcs, ChatPcs, EntryPcs
  <2> QED BY <2>1, <2>2, SessionFrame
<1>10. CASE ChatPublish(s) \/ ChatStoreOffline(s)
  <2>1. /\ loop'[s].pc = "poll" /\ loop[s].pc \in {"chat_publish", "chat_store"}
        /\ UNCHANGED <<client, inbox, conn, proc, user_conn_map, user_state>>
    BY <1>10, <1>t, NoFault, PollEffect DEF ChatPublish, ChatStoreOffline, StoreOfflineMessage
  <2>2. Serves(s)' /\ LoopEntries(s)' /\ EntriesOnline(s)'
    BY <1>i, <2>1 DEF Serves, LoopEntries, EntriesOnline, LoginPcs, OfflinePcs, ChatPcs, EntryPcs
  <2> QED BY <2>1, <2>2, SessionFrame
<1>11. CASE CloseErase(s)
  <2> DEFINE c == loop[s].conn
  <2>1. /\ loop[s].pc = "close_lock" /\ c \in Conns
        /\ UNCHANGED <<client, inbox, conn, proc, user_state>>
    BY <1>11, <1>t DEF CloseErase, LoopLocals, ClosePcs
  <2>2. inbox[c] = <<>> /\ client[c].menu = "closed" /\ loop[s].user = NoUser
    BY <1>i, <2>1 DEF Serves
  <2>3. CASE Goto(s, "close_unsubscribe") /\ UNCHANGED user_conn_map
    <3>1. loop'[s].pc = "close_unsubscribe" /\ loop'[s].user = NoUser
      BY <1>t, <2>2, <2>3, GotoEffect DEF LoopPcs
    <3>2. Serves(s)' /\ LoopEntries(s)' /\ EntriesOnline(s)'
      BY <1>i, <2>1, <2>3, <3>1, SentinelAssumption
      DEF Serves, LoopEntries, EntriesOnline, LoginPcs, OfflinePcs, ChatPcs, EntryPcs
    <3> QED BY <2>1, <2>3, <3>2, SessionFrame
  <2>4. ASSUME NEW u \in Users, user_conn_map[s][u] = c,
               user_conn_map' = [user_conn_map EXCEPT ![s][u] = NoConn],
               loop' = [loop EXCEPT ![s].pc = "close_unsubscribe", ![s].user = u]
        PROVE  SessionInv'
    <3>1. loop'[s].pc = "close_unsubscribe" /\ loop'[s].user = u
      BY <1>t, <2>4 DEF LoopStates
    <3>2. user_conn_map'[s][u] = NoConn /\ \A v \in Users : v # u => user_conn_map'[s][v] = user_conn_map[s][v]
      BY <1>t, <2>4
    <3> HIDE DEF c
    <3>3. MenuEntries(s)'
      <4>1. ASSUME NEW d \in Conns, client[d].menu = "main"
            PROVE  user_conn_map'[s][client[d].user] = d
        BY <1>i, <2>2, <2>4, <3>2, <4>1 DEF MenuEntries, TypeInv, ClientLocals
      <4>2. ASSUME NEW d \in Conns, NEW i \in DOMAIN inbox[d], inbox[d][i].type = "logout"
            PROVE  user_conn_map'[s][inbox[d][i].user] = d
        <5>1. inbox[d] \in Seq(Requests)
          BY DEF TypeInv, TypeOK
        <5>2. inbox[d][i].user \in Users
          BY <5>1, <4>2 DEF Requests
        <5>3. d # c
          BY <2>2, <4>2
        <5> QED BY <1>i, <2>4, <3>2, <4>2, <5>2, <5>3 DEF MenuEntries
      <4> QED BY <2>1, <4>1, <4>2 DEF MenuEntries
    <3>4. \A d \in Conns : Asks(d)' /\ Established(d)'
      BY <1>i, <2>1 DEF Asks, Established
    <3>5. Serves(s)' /\ LoopEntries(s)' /\ EntriesOnline(s)'
      BY <1>i, <2>1, <3>1, <3>2
      DEF Serves, LoopEntries, EntriesOnline, LoginPcs, OfflinePcs, ChatPcs, EntryPcs
    <3> QED BY <1>s, <3>3, <3>4, <3>5 DEF SessionInv
  <2> QED BY <1>11, <2>3, <2>4 DEF CloseErase
<1>12. CASE CloseUnsubscribe(s)
  <2>1. loop'[s].pc = "close_offline" /\ loop'[s].user = loop[s].user
    BY <1>12, <1>t, GotoEffect DEF CloseUnsubscribe, LoopPcs
  <2>2. Serves(s)' /\ LoopEntries(s)' /\ EntriesOnline(s)'
    BY <1>12, <1>i, <2>1
    DEF CloseUnsubscribe, Serves, LoopEntries, EntriesOnline, LoginPcs, OfflinePcs, ChatPcs, EntryPcs
  <2> QED BY <1>12, <2>2, SessionFrame DEF CloseUnsubscribe
<1>13. CASE CloseOffline(s)
  <2>1. /\ loop'[s].pc = "poll" /\ loop[s].pc = "close_offline"
        /\ UNCHANGED <<client, inbox, conn, proc, user_conn_map>>
    BY <1>13, <1>t, PollEffect DEF CloseOffline
  <2>2. Serves(s)' /\ LoopEntries(s)'
    BY <2>1 DEF Serves, LoopEntries, LoginPcs, OfflinePcs, ChatPcs
  <2>3. UNCHANGED user_state \/ user_state' = [user_state EXCEPT ![loop[s].user] = "offline"]
    BY <1>13, NoFault DEF CloseOffline, SetOffline, UpdateState
  <2>4. EntriesOnline(s)'
    BY <1>i, <1>t, <2>1, <2>3 DEF EntriesOnline, EntryPcs, LoopEntries, OfflinePcs
  <2> QED BY <2>1, <2>2, <2>4, SessionFrame
<1>14. CASE DoPendingFunctors(s)
  <2>1. /\ loop'[s].pc = "functors" /\ loop[s].pc = "poll"
        /\ UNCHANGED <<client, inbox, conn, proc, user_conn_map, user_state>>
    BY <1>14, <1>t, GotoEffect DEF DoPendingFunctors, LoopPcs
  <2>2. Serves(s)' /\ LoopEntries(s)' /\ EntriesOnline(s)'
    BY <1>i, <2>1 DEF Serves, LoopEntries, EntriesOnline, LoginPcs, OfflinePcs, ChatPcs, EntryPcs
  <2> QED BY <2>1, <2>2, SessionFrame
<1>15. CASE RunFunctor(s)
  <2>1. /\ loop'[s].pc \in {"functors", "poll"} /\ loop[s].pc = "functors"
        /\ UNCHANGED <<client, inbox, proc, user_conn_map, user_state>>
    BY <1>15, <1>t, PollEffect DEF RunFunctor
  <2>2. \A d \in Conns : conn[d].state # "none" => conn'[d].state # "none"
    BY <1>15, <1>t DEF RunFunctor, ConnStates
  <2>3. Serves(s)' /\ LoopEntries(s)' /\ EntriesOnline(s)'
    BY <1>i, <2>1 DEF Serves, LoopEntries, EntriesOnline, LoginPcs, OfflinePcs, ChatPcs, EntryPcs
  <2> QED BY <2>1, <2>2, <2>3, SessionFrame
<1> QED
  BY <1>1, <1>2, <1>3, <1>4, <1>5, <1>6, <1>7, <1>8, <1>9, <1>10, <1>11, <1>12, <1>13, <1>14, <1>15
  DEF LoopStep

(* When the process ends, all its clients are gone. *)
LEMMA SessionEnd ==
  ASSUME OneServer, TypeInv, SessionInv, NEW s \in Servers, EndProcess(s)
  PROVE  SessionInv'
<1>s. \A r \in Servers : r = s
  BY DEF OneServer
<1>t. /\ client \in [Conns -> ClientStates] /\ conn \in [Conns -> ConnStates]
      /\ loop \in [Servers -> LoopStates]
      /\ user_conn_map \in [Servers -> [Users -> Conns \cup {NoConn}]]
      /\ inbox \in [Conns -> Seq(Requests)]
  BY DEF TypeInv, TypeOK
<1>1. ASSUME NEW c \in Conns
      PROVE  /\ inbox'[c] = <<>> /\ client'[c].menu \in {"none", "closed"}
             /\ (client'[c].menu # "none" => conn'[c].state # "none")
  <2>1. conn[c].server = s
    BY <1>s, <1>t DEF ConnStates
  <2>2. CASE conn[c].state = "none"
    <3>1. client[c].menu = "none" /\ inbox[c] = <<>>
      BY <2>2 DEF SessionInv, Established, Asks
    <3> QED BY <2>2, <3>1 DEF EndProcess
  <2>3. CASE conn[c].state # "none"
    BY <1>t, <2>1, <2>3 DEF EndProcess, ConnStates
  <2> QED BY <2>2, <2>3
<1>2. \A c \in Conns : Asks(c)' /\ Established(c)'
  BY <1>1 DEF Asks, Established
<1>3. loop'[s].pc = "poll" /\ \A u \in Users : user_conn_map'[s][u] = NoConn
  BY <1>t DEF EndProcess, Polling
<1>4. Serves(s)' /\ LoopEntries(s)' /\ EntriesOnline(s)'
  BY <1>3 DEF Serves, LoopEntries, EntriesOnline, LoginPcs, OfflinePcs, ChatPcs, EntryPcs
<1>5. MenuEntries(s)'
  BY <1>1 DEF MenuEntries
<1> QED BY <1>s, <1>2, <1>4, <1>5 DEF SessionInv

LEMMA SessionOther ==
  ASSUME OneServer, NoDbFaults, TypeInv, SessionInv, NEW s \in Servers,
         ObserverStep(s) \/ RedisStep(s) \/ ProcessStep(s)
  PROVE  SessionInv'
<1>i. Serves(s) /\ LoopEntries(s) /\ EntriesOnline(s)
  BY DEF SessionInv
<1>t. proc \in [Servers -> {"up", "exiting", "down"}]
  BY DEF TypeInv, TypeOK
<1>1. CASE ObserverStep(s) \/ RedisStep(s)
  <2>1. UNCHANGED <<client, inbox, conn, proc, user_conn_map, user_state, loop>>
    BY <1>1, NoFault
    DEF ObserverStep, StartObserving, HandlerRedisSubscribeMessage, QueueInLoop, StoreOfflineMessage, RedisStep
  <2>2. Serves(s)' /\ LoopEntries(s)' /\ EntriesOnline(s)'
    BY <1>i, <2>1 DEF Serves, LoopEntries, EntriesOnline
  <2> QED BY <2>1, <2>2, SessionFrame
<1>2. CASE Crash(s) \/ Exit(s)
  BY <1>2, SessionEnd DEF Crash, Exit
<1>3. CASE SigInt(s)
  <2>1. UNCHANGED <<client, inbox, conn, user_conn_map, loop>> /\ proc'[s] = "exiting"
    BY <1>3, <1>t DEF SigInt
  <2>2. Serves(s)' /\ LoopEntries(s)' /\ EntriesOnline(s)'
    BY <1>i, <2>1 DEF Serves, LoopEntries, EntriesOnline
  <2> QED BY <2>1, <2>2, SessionFrame
<1>4. CASE Restart(s)
  <2>1. UNCHANGED <<client, inbox, conn, user_conn_map, loop, user_state>> /\ proc[s] = "down"
    BY <1>4 DEF Restart
  <2>2. Serves(s)' /\ LoopEntries(s)' /\ EntriesOnline(s)'
    BY <1>i, <2>1 DEF Serves, LoopEntries, EntriesOnline
  <2> QED BY <2>1, <2>2, SessionFrame
<1> QED BY <1>1, <1>2, <1>3, <1>4 DEF ProcessStep

LEMMA SessionStep ==
  ASSUME OneServer, NoDbFaults
  PROVE  TypeInv /\ LifeInv /\ SessionInv /\ [Next]_vars => SessionInv'
<1> SUFFICES ASSUME TypeInv, LifeInv, SessionInv, [Next]_vars
             PROVE  SessionInv'
  OBVIOUS
<1>1. CASE UNCHANGED vars
  BY <1>1 DEF vars, SessionInv, Asks, Established, Serves, MenuEntries, LoopEntries, EntriesOnline
<1> QED BY <1>1, SessionClient, SessionServe, SessionLoop, SessionOther DEF Next

LEMMA SessionCorrect ==
  ASSUME OneServer, NoDbFaults
  PROVE  Spec => []SessionInv
<1>1. Init => SessionInv
  <2> SUFFICES ASSUME Init PROVE SessionInv
    OBVIOUS
  <2>1. \A c \in Conns : client[c].menu = "none" /\ inbox[c] = <<>>
    BY DEF Init
  <2>2. \A s \in Servers : loop[s].pc = "poll" /\ \A u \in Users : user_conn_map[s][u] = NoConn
    BY DEF Init, Polling
  <2> QED
    BY <2>1, <2>2
    DEF SessionInv, Asks, Established, Serves, MenuEntries, LoopEntries, EntriesOnline, LoginPcs, OfflinePcs,
        ChatPcs, EntryPcs
<1>2. TypeInv /\ LifeInv /\ SessionInv /\ [Next]_vars => SessionInv'
  BY SessionStep
<1> QED BY <1>1, <1>2, TypeSafety, LifeCorrect, PTL DEF Spec

(* On a server that is alone no account is used by two clients at once, for   *)
(* any number of clients, however requests are read together, and through     *)
(* crashes, signals and restarts, as long as no statement fails: the check of *)
(* the row in HandlerLogin is enough, because the row says online from before *)
(* the client is told that it is logged in until the server has taken its     *)
(* entry out of the map.                                                      *)
THEOREM OneSessionAlone ==
  ASSUME OneServer, NoDbFaults
  PROVE  Spec => []OneSession
<1>1. TypeInv /\ SessionInv => OneSession
  <2> SUFFICES ASSUME TypeInv, SessionInv, NEW c \in Conns, NEW d \in Conns,
                      client[c].menu = "main", client[d].menu = "main",
                      client[c].user = client[d].user
               PROVE  c = d
    BY DEF OneSession
  <2>1. PICK s \in Servers : MenuEntries(s)
    BY DEF SessionInv, TypeInv, TypeOK, ConnStates
  <2> QED BY <2>1 DEF MenuEntries
<1> QED BY <1>1, SessionCorrect, TypeSafety, PTL

-----------------------------------------------------------------------------
(* The bus.  A server that is alone publishes only to users it has no entry   *)
(* for; nobody is subscribed to those, so its observer never has anything to  *)
(* do.  A row of such a user can say online, after the end of a process, and  *)
(* the user's channel can still be subscribed, after a logout, but never both *)
(* at once: that is RowsSettled.                                              *)

BusIdle(s) ==
    /\ pushed[s] = <<>> /\ observer[s] = Reading
    /\ \A i \in DOMAIN functors[s] : functors[s][i].kind = "destroy"

(* The process has subscribed to u, and Redis may not have heard the end yet. *)
Touched(s, u) ==
    u \in subscribed[s] \/ \E i \in DOMAIN sub_cmds[s] : sub_cmds[s][i].user = u

RowsSettled(s) ==
    /\ \A u \in Users :
          Touched(s, u) /\ user_conn_map[s][u] = NoConn
              => user_state[u] = "offline" \/ (loop[s].pc \in OfflinePcs /\ loop[s].user = u)
    /\ loop[s].pc = "chat_publish" /\ proc[s] # "exiting" => user_state[loop[s].user] = "online"

IdleInv == \A s \in Servers : BusIdle(s) /\ RowsSettled(s)

LEMMA TouchedAppend ==
  ASSUME TypeInv, NEW s \in Servers, NEW cmd \in Commands,
         sub_cmds' = [sub_cmds EXCEPT ![s] = Append(@, cmd)], UNCHANGED subscribed
  PROVE  \A u \in Users : Touched(s, u)' => Touched(s, u) \/ cmd.user = u
<1>1. sub_cmds[s] \in Seq(Commands) /\ sub_cmds'[s] = Append(sub_cmds[s], cmd)
  BY DEF TypeInv, TypeOK, BusTypeOK
<1>2. \A i \in DOMAIN sub_cmds'[s] : sub_cmds'[s][i] = cmd \/ (i \in DOMAIN sub_cmds[s] /\ sub_cmds'[s][i] = sub_cmds[s][i])
  BY <1>1
<1> QED BY <1>2 DEF Touched

LEMMA TouchedExecute ==
  ASSUME TypeInv, NEW s \in Servers, RedisExecute(s)
  PROVE  \A u \in Users : Touched(s, u)' => Touched(s, u)
<1>1. sub_cmds[s] \in Seq(Commands) /\ sub_cmds[s] # <<>> /\ sub_cmds'[s] = Tail(sub_cmds[s])
  BY DEF TypeInv, TypeOK, BusTypeOK, RedisExecute
<1>2. 1 \in DOMAIN sub_cmds[s] /\ Head(sub_cmds[s]) = sub_cmds[s][1]
  BY <1>1
<1>3. \A i \in DOMAIN sub_cmds'[s] : i + 1 \in DOMAIN sub_cmds[s] /\ sub_cmds'[s][i] = sub_cmds[s][i + 1]
  BY <1>1
<1>4. \A u \in Users : u \in subscribed'[s] => u \in subscribed[s] \/ u = Head(sub_cmds[s]).user
  BY DEF TypeInv, TypeOK, BusTypeOK, RedisExecute
<1> QED BY <1>2, <1>3, <1>4 DEF Touched

(* A step that leaves bus, observer and functors alone. *)
LEMMA IdleFrame ==
  ASSUME OneServer, IdleInv, NEW s \in Servers,
         UNCHANGED <<busVars, observer, functors>>, RowsSettled(s)'
  PROVE  IdleInv'
<1>1. \A r \in Servers : r = s
  BY DEF OneServer
<1>2. BusIdle(s)'
  BY DEF IdleInv, BusIdle
<1> QED BY <1>1, <1>2 DEF IdleInv

LEMMA IdleClient ==
  ASSUME OneServer, TypeInv, IdleInv, NEW c \in Conns, ClientNext(c)
  PROVE  IdleInv'
<1>1. PICK s \in Servers : TRUE
  BY DEF TypeInv, TypeOK, ConnStates
<1>2. UNCHANGED <<busVars, sessionVars, user_state>>
  BY DEF ClientNext, Connect, ClientLogin, ClientChat, ClientLogout, ClientClose, SendRequest
<1>3. RowsSettled(s)'
  BY <1>2 DEF IdleInv, RowsSettled, Touched
<1> QED BY <1>2, <1>3, IdleFrame

LEMMA IdleServe ==
  ASSUME OneServer, NoDbFaults, TypeInv, SessionInv, IdleInv, NEW s \in Servers, NEW c \in Conns,
         ServeConn(s, c)
  PROVE  IdleInv'
<1>t. /\ loop \in [Servers -> LoopStates]
      /\ user_conn_map \in [Servers -> [Users -> Conns \cup {NoConn}]]
  BY DEF TypeInv, TypeOK
<1>i. RowsSettled(s)
  BY DEF IdleInv
<1>1. UNCHANGED <<busVars, observer, functors, proc, user_state>> /\ loop[s].pc = "poll"
  BY NoFault DEF ServeConn, HandlerLogin, HandlerLogout, HandlerDirectChat, HandleClose, OnMessage, LoopAt, Query
<1>2. ASSUME NEW u \in Users, HandlerLogout(s, c, u)
      PROVE  RowsSettled(s)'
  <2>1. loop'[s].pc = "logout_unsubscribe" /\ loop'[s].user = u
    BY <1>2, <1>t DEF HandlerLogout, Enter
  <2>2. user_conn_map' = [user_conn_map EXCEPT ![s][u] = NoConn]
    BY <1>2 DEF HandlerLogout
  <2> QED BY <1>i, <1>t, <1>1, <2>1, <2>2 DEF RowsSettled, Touched, OfflinePcs
<1>3. ASSUME UNCHANGED user_conn_map, loop'[s].pc # "chat_publish"
      PROVE  RowsSettled(s)'
  BY <1>i, <1>1, <1>3 DEF RowsSettled, Touched, OfflinePcs
<1>4. RowsSettled(s)'
  <2>1. ASSUME NEW u \in Users, NEW pwd \in Passwords, HandlerLogin(s, c, u, pwd)
        PROVE  UNCHANGED user_conn_map /\ loop'[s].pc # "chat_publish"
    BY <2>1, <1>t, <1>1 DEF HandlerLogin, Enter
  <2>2. ASSUME NEW u \in Users, NEW m \in Msgs, HandlerDirectChat(s, c, u, m)
        PROVE  UNCHANGED user_conn_map /\ loop'[s].pc # "chat_publish"
    BY <2>2, <1>t, <1>1 DEF HandlerDirectChat, Enter
  <2>3. ASSUME HandleClose(s, c)
        PROVE  UNCHANGED user_conn_map /\ loop'[s].pc # "chat_publish"
    BY <2>3, <1>t DEF HandleClose, Enter
  <2> QED BY <1>2, <1>3, <2>1, <2>2, <2>3 DEF ServeConn
<1> QED BY <1>1, <1>4, IdleFrame

LEMMA IdleLoop ==
  ASSUME OneServer, NoDbFaults, TypeInv, SessionInv, IdleInv, NEW s \in Servers, LoopStep(s)
  PROVE  IdleInv'
<1>s. \A r \in Servers : r = s
  BY DEF OneServer
<1>t. /\ loop \in [Servers -> LoopStates] /\ user_state \in [Users -> UserStates]
      /\ user_conn_map \in [Servers -> [Users -> Conns \cup {NoConn}]]
      /\ functors \in [Servers -> Seq(Functors)] /\ pushed \in [Servers -> Seq(Pushes)]
      /\ LoopLocals(s)
  BY DEF TypeInv, TypeOK, StoreTypeOK, BusTypeOK
<1>i. RowsSettled(s) /\ BusIdle(s) /\ LoopEntries(s) /\ Serves(s)
  BY DEF IdleInv, SessionInv
<1> USE DEF LoopAt
<1>1. CASE LoginInsert(s)
  <2>1. UNCHANGED <<busVars, observer, functors, user_state, proc>>
    BY <1>1 DEF LoginInsert
  <2>2. loop[s].pc = "login_insert" /\ loop'[s].pc = "login_subscribe"
    BY <1>1, <1>t, GotoEffect DEF LoginInsert, LoopPcs
  <2>3. \A u \in Users : user_conn_map'[s][u] = NoConn => user_conn_map[s][u] = NoConn
    BY <1>1, <1>t DEF LoginInsert
  <2>4. RowsSettled(s)'
    BY <1>i, <2>1, <2>2, <2>3 DEF RowsSettled, Touched, OfflinePcs
  <2> QED BY <2>1, <2>4, IdleFrame
<1>2. CASE LoginSubscribe(s)
  <2> DEFINE cmd == [op |-> "SUBSCRIBE", user |-> loop[s].user]
  <2>1. /\ sub_cmds' = [sub_cmds EXCEPT ![s] = Append(@, cmd)]
        /\ UNCHANGED <<subscribed, pushed, observer, functors, user_state, user_conn_map>>
    BY <1>2 DEF LoginSubscribe, Subscribe
  <2>2. /\ loop[s].pc = "login_subscribe" /\ loop'[s].pc = "login_online" /\ loop[s].user \in Users
        /\ loop[s].conn \in Conns
    BY <1>2, <1>t, GotoEffect DEF LoginSubscribe, LoopPcs, LoopLocals, LoginPcs
  <2>3. cmd \in Commands /\ cmd.user = loop[s].user
    BY <2>2 DEF Commands
  <2>4. user_conn_map[s][loop[s].user] # NoConn
    BY <1>i, <2>2, SentinelAssumption DEF LoopEntries, LoginPcs
  <2> HIDE DEF cmd
  <2>5. \A u \in Users : Touched(s, u)' => Touched(s, u) \/ cmd.user = u
    BY <2>1, <2>3, TouchedAppend
  <2>6. RowsSettled(s)'
    BY <1>i, <2>1, <2>2, <2>3, <2>4, <2>5 DEF RowsSettled, OfflinePcs
  <2>7. BusIdle(s)'
    BY <1>i, <2>1 DEF BusIdle
  <2> QED BY <1>s, <2>6, <2>7 DEF IdleInv
<1>3. CASE LoginOnline(s)
  <2>1. UNCHANGED <<busVars, observer, functors, user_conn_map>>
    BY <1>3 DEF LoginOnline
  <2>2. loop[s].pc = "login_online" /\ loop'[s].pc = "login_query" /\ loop[s].conn \in Conns
    BY <1>3, <1>t, GotoEffect DEF LoginOnline, LoopPcs, LoopLocals, LoginPcs
  <2>3. user_state' = [user_state EXCEPT ![loop[s].user] = "online"]
    BY <1>3, NoFault DEF LoginOnline, UpdateState
  <2>4. user_conn_map[s][loop[s].user] # NoConn
    BY <1>i, <2>2, SentinelAssumption DEF LoopEntries, LoginPcs
  <2>5. RowsSettled(s)'
    BY <1>i, <1>t, <2>1, <2>2, <2>3, <2>4 DEF RowsSettled, Touched, OfflinePcs
  <2> QED BY <2>1, <2>5, IdleFrame
<1>4. CASE LoginQueryOffline(s) \/ LoginDeleteOffline(s) \/ LoginAck(s) \/ ChatStoreOffline(s) \/ DoPendingFunctors(s)
  <2>1. UNCHANGED <<busVars, observer, functors, user_conn_map, user_state>>
    BY <1>4, NoFault
    DEF LoginQueryOffline, LoginDeleteOffline, LoginAck, ChatStoreOffline, DoPendingFunctors,
        QueryOfflineMessages, DeleteOfflineMessageByUserId, StoreOfflineMessage
  <2>2. loop[s].pc \notin OfflinePcs
    BY <1>4
    DEF LoginQueryOffline, LoginDeleteOffline, LoginAck, ChatStoreOffline, DoPendingFunctors, OfflinePcs
  <2>3. loop'[s].pc # "chat_publish"
    <3>1. CASE LoginQueryOffline(s)
      BY <3>1, <1>t DEF LoginQueryOffline, LoopStates
    <3>2. CASE LoginDeleteOffline(s) \/ DoPendingFunctors(s)
      BY <3>2, <1>t, GotoEffect DEF LoginDeleteOffline, DoPendingFunctors, LoopPcs
    <3>3. CASE LoginAck(s) \/ ChatStoreOffline(s)
      BY <3>3, <1>t, PollEffect DEF LoginAck, ChatStoreOffline
    <3> QED BY <1>4, <3>1, <3>2, <3>3
  <2>4. RowsSettled(s)'
    BY <1>i, <2>1, <2>2, <2>3 DEF RowsSettled, Touched
  <2> QED BY <2>1, <2>4, IdleFrame
<1>5. CASE LogoutUnsubscribe(s) \/ CloseUnsubscribe(s)
  <2> DEFINE cmd == [op |-> "UNSUBSCRIBE", user |-> loop[s].user]
  <2>1. /\ sub_cmds' = [sub_cmds EXCEPT ![s] = Append(@, cmd)]
        /\ UNCHANGED <<subscribed, pushed, observer, functors, user_state, user_conn_map>>
    BY <1>5 DEF LogoutUnsubscribe, CloseUnsubscribe, Unsubscribe
  <2>2. /\ loop'[s].pc \in {"logout_offline", "close_offline"} /\ loop'[s].user = loop[s].user
    BY <1>5, <1>t, GotoEffect DEF LogoutUnsubscribe, CloseUnsubscribe, LoopPcs
  <2>3. cmd \in Commands /\ cmd.user = loop[s].user
    BY <1>t DEF Commands, LoopStates
  <2> HIDE DEF cmd
  <2>4. \A u \in Users : Touched(s, u)' => Touched(s, u) \/ cmd.user = u
    BY <2>1, <2>3, TouchedAppend
  <2>5. RowsSettled(s)'
    BY <1>i, <2>1, <2>2, <2>3, <2>4 DEF RowsSettled, OfflinePcs
  <2>6. BusIdle(s)'
    BY <1>i, <2>1 DEF BusIdle
  <2> QED BY <1>s, <2>5, <2>6 DEF IdleInv
<1>6. CASE LogoutOffline(s)
  <2>1. UNCHANGED <<busVars, observer, functors, user_conn_map>> /\ loop'[s].pc = "poll"
    BY <1>6, <1>t, PollEffect DEF LogoutOffline
  <2>2. user_state' = [user_state EXCEPT ![loop[s].user] = "offline"]
    BY <1>6, NoFault DEF LogoutOffline, SetOffline, UpdateState
  <2>3. RowsSettled(s)'
    BY <1>i, <1>t, <2>1, <2>2 DEF RowsSettled, Touched, OfflinePcs
  <2> QED BY <2>1, <2>3, IdleFrame
<1>7. CASE ChatQuery(s)
  <2>1. UNCHANGED <<busVars, observer, functors, user_conn_map, user_state, proc>>
    BY <1>7, NoFault DEF ChatQuery, Query
  <2>2. PICK res \in QueryResults :
           /\ res = [found |-> TRUE, state |-> user_state[loop[s].user]]
           /\ Goto(s, IF res.state = "online" THEN "chat_publish" ELSE "chat_store")
    BY <1>7, NoFault DEF ChatQuery, Query
  <2>3. /\ loop'[s].pc = (IF user_state[loop[s].user] = "online" THEN "chat_publish" ELSE "chat_store")
        /\ loop'[s].user = loop[s].user /\ loop[s].pc = "chat_query"
    BY <1>7, <1>t, <2>2 DEF ChatQuery, Goto, LoopStates
  <2>4. RowsSettled(s)'
    BY <1>i, <2>1, <2>3 DEF RowsSettled, Touched, OfflinePcs
  <2> QED BY <2>1, <2>4, IdleFrame
<1>8. CASE ChatPublish(s)
  <2>1. /\ UNCHANGED <<sub_cmds, subscribed, observer, functors, user_conn_map, user_state>>
        /\ proc[s] = "up" /\ loop[s].pc = "chat_publish"
    BY <1>8 DEF ChatPublish, Publish
  <2>2. loop'[s].pc = "poll" /\ loop[s].user \in Users
    BY <1>8, <1>t, PollEffect DEF ChatPublish, LoopLocals, ChatPcs
  <2>3. loop[s].user \notin subscribed[s]
    <3>1. user_state[loop[s].user] = "online"
      BY <1>i, <2>1 DEF RowsSettled
    <3>2. user_conn_map[s][loop[s].user] = NoConn
      BY <1>i, <2>1, <2>2 DEF LoopEntries, ChatPcs
    <3> QED BY <1>i, <2>1, <2>2, <3>1, <3>2 DEF RowsSettled, Touched, OfflinePcs
  <2>4. pushed'[s] = pushed[s]
    BY <1>8, <2>3 DEF ChatPublish, Publish
  <2>5. BusIdle(s)'
    BY <1>i, <2>1, <2>4 DEF BusIdle
  <2>6. RowsSettled(s)'
    BY <1>i, <2>1, <2>2 DEF RowsSettled, Touched, OfflinePcs
  <2> QED BY <1>s, <2>5, <2>6 DEF IdleInv
<1>9. CASE CloseErase(s)
  <2>1. UNCHANGED <<busVars, observer, functors, user_state, proc>> /\ loop[s].pc = "close_lock"
    BY <1>9 DEF CloseErase
  <2>2. CASE Goto(s, "close_unsubscribe") /\ UNCHANGED user_conn_map
    <3>1. loop'[s].pc = "close_unsubscribe"
      BY <1>t, <2>2, GotoEffect DEF LoopPcs
    <3>2. RowsSettled(s)'
      BY <1>i, <2>1, <2>2, <3>1 DEF RowsSettled, Touched, OfflinePcs
    <3> QED BY <2>1, <3>2, IdleFrame
  <2>3. ASSUME NEW u \in Users, user_conn_map' = [user_conn_map EXCEPT ![s][u] = NoConn],
               loop' = [loop EXCEPT ![s].pc = "close_unsubscribe", ![s].user = u]
        PROVE  IdleInv'
    <3>1. loop'[s].pc = "close_unsubscribe" /\ loop'[s].user = u
      BY <1>t, <2>3 DEF LoopStates
    <3>2. RowsSettled(s)'
      BY <1>i, <1>t, <2>1, <2>3, <3>1 DEF RowsSettled, Touched, OfflinePcs
    <3> QED BY <2>1, <3>2, IdleFrame
  <2> QED BY <1>9, <2>2, <2>3 DEF CloseErase
<1>10. CASE CloseOffline(s)
  <2> DEFINE f == [kind |-> "destroy", conn |-> loop[s].conn]
  <2>1. /\ UNCHANGED <<busVars, observer, user_conn_map>> /\ loop'[s].pc = "poll"
        /\ functors' = [functors EXCEPT ![s] = Append(@, f)] /\ loop[s].pc = "close_offline"
    BY <1>10, <1>t, PollEffect DEF CloseOffline
  <2>2. \/ loop[s].user = NoUser /\ UNCHANGED user_state
        \/ user_state' = [user_state EXCEPT ![loop[s].user] = "offline"]
    BY <1>10, NoFault DEF CloseOffline, SetOffline, UpdateState
  <2>3. RowsSettled(s)'
    BY <1>i, <1>t, <2>1, <2>2, SentinelAssumption DEF RowsSettled, Touched, OfflinePcs
  <2>4. \A i \in DOMAIN functors'[s] : functors'[s][i].kind = "destroy"
    <3>1. f.kind = "destroy"
      OBVIOUS
    <3> HIDE DEF f
    <3>2. functors'[s] = Append(functors[s], f) /\ functors[s] \in Seq(Functors)
      BY <1>t, <2>1
    <3>3. \A i \in DOMAIN functors'[s] : functors'[s][i] = f \/ (i \in DOMAIN functors[s] /\ functors'[s][i] = functors[s][i])
      BY <3>2
    <3> QED BY <1>i, <3>1, <3>3 DEF BusIdle
  <2>5. BusIdle(s)'
    BY <1>i, <2>1, <2>4 DEF BusIdle
  <2> QED BY <1>s, <2>3, <2>5 DEF IdleInv
<1>11. CASE RunFunctor(s)
  <2>1. /\ UNCHANGED <<busVars, observer, user_conn_map, user_state, proc>>
        /\ functors' = [functors EXCEPT ![s] = Tail(@)] /\ loop[s].pc = "functors"
        /\ loop'[s].pc \in {"functors", "poll"}
    BY <1>11, <1>t, PollEffect DEF RunFunctor
  <2>2. functors[s] # <<>>
    <3>1. due[s] \in 1..Len(functors[s])
      BY <2>1 DEF TypeInv, DueFunctors
    <3> QED BY <3>1
  <2>3. \A i \in DOMAIN functors'[s] : i + 1 \in DOMAIN functors[s] /\ functors'[s][i] = functors[s][i + 1]
    BY <2>1, <2>2, TakenFunctor
  <2>4. BusIdle(s)'
    BY <1>i, <2>1, <2>3 DEF BusIdle
  <2>5. RowsSettled(s)'
    BY <1>i, <2>1 DEF RowsSettled, Touched, OfflinePcs
  <2> QED BY <1>s, <2>4, <2>5 DEF IdleInv
<1> QED
  BY <1>1, <1>2, <1>3, <1>4, <1>5, <1>6, <1>7, <1>8, <1>9, <1>10, <1>11
  DEF LoopStep

LEMMA IdleOther ==
  ASSUME OneServer, NoDbFaults, TypeInv, IdleInv, NEW s \in Servers,
         ObserverStep(s) \/ RedisStep(s) \/ ProcessStep(s)
  PROVE  IdleInv'
<1>s. \A r \in Servers : r = s
  BY DEF OneServer
<1>t. /\ loop \in [Servers -> LoopStates] /\ proc \in [Servers -> {"up", "exiting", "down"}]
      /\ user_conn_map \in [Servers -> [Users -> Conns \cup {NoConn}]]
      /\ observer \in [Servers -> ObserverStates]
      /\ functors \in [Servers -> Seq(Functors)]
      /\ sub_cmds \in [Servers -> Seq(Commands)]
      /\ pushed \in [Servers -> Seq(Pushes)] /\ subscribed \in [Servers -> SUBSET Users]
  BY DEF TypeInv, TypeOK, BusTypeOK
<1>i. RowsSettled(s) /\ BusIdle(s)
  BY DEF IdleInv
<1>1. ~ ObserverStep(s)
  BY <1>i
  DEF ObserverStep, StartObserving, HandlerRedisSubscribeMessage, QueueInLoop, GetReply, BusIdle, Reading
<1>2. CASE RedisStep(s)
  <2>1. UNCHANGED <<pushed, observer, functors, user_conn_map, user_state, loop, proc>> /\ RedisExecute(s)
    BY <1>2 DEF RedisStep, RedisExecute
  <2>2. BusIdle(s)'
    BY <1>i, <2>1 DEF BusIdle
  <2>3. RowsSettled(s)'
    BY <1>i, <2>1, TouchedExecute DEF RowsSettled
  <2> QED BY <1>s, <2>2, <2>3 DEF IdleInv
<1>3. CASE EndProcess(s)
  <2>1. /\ pushed'[s] = <<>> /\ sub_cmds'[s] = <<>> /\ subscribed'[s] = {}
        /\ observer'[s] = Reading /\ functors'[s] = <<>> /\ loop'[s].pc = "poll"
    BY <1>3, <1>t DEF EndProcess, DropClient, Polling
  <2>2. BusIdle(s)' /\ RowsSettled(s)'
    BY <2>1 DEF BusIdle, RowsSettled, Touched
  <2> QED BY <1>s, <2>2 DEF IdleInv
<1>4. CASE SigInt(s)
  <2>1. /\ UNCHANGED <<busVars, user_conn_map, loop, observer, functors>> /\ proc'[s] = "exiting"
        /\ user_state' = [u \in Users |-> "offline"]
    BY <1>4, <1>t, NoFault DEF SigInt, ResetState
  <2>2. RowsSettled(s)'
    BY <2>1 DEF RowsSettled, Touched
  <2> QED BY <2>1, <2>2, IdleFrame
<1>5. CASE Restart(s)
  <2>1. UNCHANGED <<busVars, user_conn_map, loop, observer, functors, user_state>> /\ proc[s] = "down"
    BY <1>5 DEF Restart
  <2>2. RowsSettled(s)'
    BY <1>i, <2>1 DEF RowsSettled, Touched
  <2> QED BY <2>1, <2>2, IdleFrame
<1> QED BY <1>1, <1>2, <1>3, <1>4, <1>5 DEF ProcessStep, Crash, Exit

LEMMA IdleStep ==
  ASSUME OneServer, NoDbFaults
  PROVE  TypeInv /\ SessionInv /\ IdleInv /\ [Next]_vars => IdleInv'
<1> SUFFICES ASSUME TypeInv, SessionInv, IdleInv, [Next]_vars
             PROVE  IdleInv'
  OBVIOUS
<1>1. CASE UNCHANGED vars
  BY <1>1 DEF vars, IdleInv, BusIdle, RowsSettled, Touched
<1> QED BY <1>1, IdleClient, IdleServe, IdleLoop, IdleOther DEF Next

LEMMA IdleCorrect ==
  ASSUME OneServer, NoDbFaults
  PROVE  Spec => []IdleInv
<1>1. Init => IdleInv
  <2> SUFFICES ASSUME Init, NEW s \in Servers PROVE BusIdle(s) /\ RowsSettled(s)
    BY DEF IdleInv
  <2>1. /\ pushed[s] = <<>> /\ sub_cmds[s] = <<>> /\ subscribed[s] = {} /\ observer[s] = Reading
        /\ functors[s] = <<>> /\ loop[s].pc = "poll"
    BY DEF Init, BusInit, Polling
  <2> QED BY <2>1 DEF BusIdle, RowsSettled, Touched
<1>2. TypeInv /\ SessionInv /\ IdleInv /\ [Next]_vars => IdleInv'
  BY IdleStep
<1> QED BY <1>1, <1>2, TypeSafety, SessionCorrect, PTL DEF Spec

-----------------------------------------------------------------------------
(* Messages.  With the bus idle, a message that was sent is in one place: in  *)
(* a request, in the hands of a handler, in a row of the offline table, in    *)
(* the rows a login has read and deleted, or written to a client.             *)

ChatsIn(c) == {i \in DOMAIN inbox[c] : inbox[c][i].type = "chat"}

Unsent(m) == msg_to[m] = NoUser
Asked(m) == \E c \in Conns : \E i \in ChatsIn(c) : inbox[c][i].msg = m
Handled(m) == \E s \in Servers : loop[s].msg = m
Read(m) ==
    \E s \in Servers :
        loop[s].pc = "login_ack" /\ \E i \in DOMAIN loop[s].rows : loop[s].rows[i] = m
Given(m) == \E c \in Conns : Delivered(c, m)

OnePlace(m) ==
    /\ Unsent(m) => ~Asked(m) /\ ~Handled(m) /\ ~Stored(m) /\ ~Read(m) /\ ~Given(m)
    /\ Asked(m) => ~Handled(m) /\ ~Stored(m) /\ ~Read(m) /\ ~Given(m)
    /\ Handled(m) => ~Stored(m) /\ ~Read(m) /\ ~Given(m)
    /\ Stored(m) => ~Read(m) /\ ~Given(m)
    /\ Read(m) => ~Given(m)

(* Within a place there is one copy. *)
AskedOnce ==
    \A c, d \in Conns : \A i \in ChatsIn(c), j \in ChatsIn(d) :
        inbox[c][i].msg = inbox[d][j].msg => c = d /\ i = j

StoredOnce ==
    \A u, v \in Users : \A i \in DOMAIN offline_message[u], j \in DOMAIN offline_message[v] :
        offline_message[u][i] = offline_message[v][j] => u = v /\ i = j

(* Between a login's read and its delete the rows are still the table's. *)
Rows(s) ==
    /\ loop[s].pc = "login_delete" => loop[s].rows = offline_message[loop[s].user]
    /\ loop[s].pc \notin {"login_delete", "login_ack"} => loop[s].rows = <<>>
    /\ loop[s].pc \notin ChatPcs => loop[s].msg = NoMsg
    /\ \A i, j \in DOMAIN loop[s].rows : loop[s].rows[i] = loop[s].rows[j] => i = j

PlaceInv ==
    /\ \A s \in Servers : Rows(s)
    /\ \A m \in Msgs : OnePlace(m)
    /\ AskedOnce /\ StoredOnce /\ AtMostOnce

LEMMA AskedRead ==
  ASSUME TypeInv, NEW s \in Servers, NEW c \in Conns, NEW r \in Requests, OnMessage(s, c, r)
  PROVE  /\ \A m \in Msgs : Asked(m)' => Asked(m)
         /\ AskedOnce => AskedOnce'
         /\ AskedOnce /\ r.type = "chat" => Asked(r.msg) /\ ~Asked(r.msg)'
<1>1. PICK n \in 1..MaxRead :
         /\ n <= Len(inbox[c]) /\ Len(inbox'[c]) = Len(inbox[c]) - n
         /\ \A i \in DOMAIN inbox'[c] :
               i + n \in DOMAIN inbox[c] /\ inbox'[c][i] = inbox[c][i + n]
  BY ReadRequest
<1>2. n \in Nat /\ n >= 1
  BY BoundsAssumption
<1>3. /\ \A d \in Conns : d # c => inbox'[d] = inbox[d]
      /\ inbox[c] \in Seq(Requests) /\ inbox'[c] \in Seq(Requests)
      /\ Len(inbox[c]) > 0 /\ inbox[c][1] = r
  BY ReadRequest
<1>4. \A i \in DOMAIN inbox'[c] : i \in Nat /\ i >= 1
  BY <1>3
<1>5. PICK shift \in [Conns -> Nat] :
         shift[c] = n /\ \A d \in Conns : d # c => shift[d] = 0
  <2>1. [d \in Conns |-> IF d = c THEN n ELSE 0] \in [Conns -> Nat]
    BY <1>2
  <2> QED BY <2>1
<1>6. ASSUME NEW d \in Conns, NEW i \in ChatsIn(d)'
      PROVE  i \in Nat /\ i + shift[d] \in ChatsIn(d) /\ inbox'[d][i] = inbox[d][i + shift[d]]
  <2>1. CASE d = c
    BY <1>1, <1>4, <1>5, <1>6, <2>1 DEF ChatsIn
  <2>2. CASE d # c
    <3>1. inbox[d] \in Seq(Requests)
      BY DEF TypeInv, TypeOK
    <3>2. i \in DOMAIN inbox[d]
      BY <1>3, <1>6, <2>2 DEF ChatsIn
    <3>3. i \in Nat
      BY <3>1, <3>2
    <3> QED BY <1>3, <1>5, <1>6, <2>2, <3>3 DEF ChatsIn
  <2> QED BY <2>1, <2>2
<1>7. ASSUME NEW m \in Msgs, Asked(m)'
      PROVE  Asked(m)
  BY <1>6, <1>7 DEF Asked
<1>8. ASSUME AskedOnce
      PROVE  AskedOnce'
  <2> SUFFICES ASSUME NEW d \in Conns, NEW e \in Conns, NEW i \in ChatsIn(d)', NEW j \in ChatsIn(e)',
                      inbox'[d][i].msg = inbox'[e][j].msg
               PROVE  d = e /\ i = j
    BY DEF AskedOnce
  <2>1. /\ i \in Nat /\ i + shift[d] \in ChatsIn(d) /\ inbox'[d][i] = inbox[d][i + shift[d]]
        /\ j \in Nat /\ j + shift[e] \in ChatsIn(e) /\ inbox'[e][j] = inbox[e][j + shift[e]]
    BY <1>6
  <2>2. d = e /\ i + shift[d] = j + shift[e]
    BY <1>8, <2>1 DEF AskedOnce
  <2>3. shift[d] \in Nat
    BY <1>5
  <2> QED BY <2>1, <2>2, <2>3
<1>9. ASSUME AskedOnce, r.type = "chat"
      PROVE  Asked(r.msg) /\ ~Asked(r.msg)'
  <2>1. 1 \in ChatsIn(c) /\ inbox[c][1].msg = r.msg
    BY <1>3, <1>9 DEF ChatsIn
  <2>2. Asked(r.msg)
    BY <2>1 DEF Asked
  <2>3. ASSUME NEW d \in Conns, NEW i \in ChatsIn(d)', inbox'[d][i].msg = r.msg
        PROVE  FALSE
    <3>1. i \in Nat /\ i + shift[d] \in ChatsIn(d) /\ inbox'[d][i] = inbox[d][i + shift[d]]
      BY <1>6
    <3>2. d = c /\ i + shift[d] = 1
      BY <1>9, <2>1, <2>3, <3>1 DEF AskedOnce
    <3>3. i >= 1
      BY <1>4, <3>2 DEF ChatsIn
    <3> QED BY <1>2, <1>5, <3>1, <3>2, <3>3
  <2> QED BY <2>2, <2>3 DEF Asked
<1> QED BY <1>7, <1>8, <1>9

LEMMA AskedSent ==
  ASSUME TypeInv, NEW c \in Conns, NEW r \in Requests,
         inbox' = [inbox EXCEPT ![c] = Append(@, r)]
  PROVE  /\ \A m \in Msgs : Asked(m)' => Asked(m) \/ (r.type = "chat" /\ r.msg = m)
         /\ AskedOnce /\ (r.type = "chat" => ~Asked(r.msg)) => AskedOnce'
<1> DEFINE n == Len(inbox[c]) + 1
<1>1. /\ \A d \in Conns : d # c => inbox'[d] = inbox[d]
      /\ DOMAIN inbox[c] = 1..Len(inbox[c]) /\ DOMAIN inbox'[c] = 1..n /\ Len(inbox[c]) \in Nat
      /\ \A i \in DOMAIN inbox[c] : inbox'[c][i] = inbox[c][i]
      /\ inbox'[c][n] = r
  <2>1. Len(inbox[c]) \in Nat
    BY DEF TypeInv, TypeOK
  <2> QED BY <2>1, SentRequest
<1>2. ASSUME NEW d \in Conns, NEW i \in ChatsIn(d)'
      PROVE  \/ i \in ChatsIn(d) /\ inbox'[d][i] = inbox[d][i]
             \/ d = c /\ i = n /\ inbox'[d][i] = r /\ r.type = "chat"
  <2>1. CASE d # c
    BY <1>1, <1>2, <2>1 DEF ChatsIn
  <2>2. CASE d = c /\ i = n
    BY <1>1, <1>2, <2>2 DEF ChatsIn
  <2>3. CASE d = c /\ i # n
    <3>1. i \in 1..n
      BY <1>1, <2>3 DEF ChatsIn
    <3>2. i \in DOMAIN inbox[c]
      BY <1>1, <2>3, <3>1
    <3> QED BY <1>1, <1>2, <2>3, <3>2 DEF ChatsIn
  <2> QED BY <2>1, <2>2, <2>3
<1> HIDE DEF n
<1>3. ASSUME NEW m \in Msgs, Asked(m)'
      PROVE  Asked(m) \/ (r.type = "chat" /\ r.msg = m)
  BY <1>2, <1>3 DEF Asked
<1>4. ASSUME AskedOnce, r.type = "chat" => ~Asked(r.msg)
      PROVE  AskedOnce'
  <2> SUFFICES ASSUME NEW d \in Conns, NEW e \in Conns, NEW i \in ChatsIn(d)', NEW j \in ChatsIn(e)',
                      inbox'[d][i].msg = inbox'[e][j].msg
               PROVE  d = e /\ i = j
    BY DEF AskedOnce
  <2>1. CASE i \in ChatsIn(d) /\ inbox'[d][i] = inbox[d][i]
    <3>1. CASE j \in ChatsIn(e) /\ inbox'[e][j] = inbox[e][j]
      <4>1. inbox[d][i].msg = inbox[e][j].msg
        BY <2>1, <3>1
      <4> QED BY <1>4, <2>1, <3>1, <4>1 DEF AskedOnce
    <3>2. CASE inbox'[e][j] = r /\ r.type = "chat"
      BY <1>4, <2>1, <3>2 DEF Asked
    <3> QED BY <1>2, <3>1, <3>2
  <2>2. CASE d = c /\ i = n /\ inbox'[d][i] = r /\ r.type = "chat"
    BY <1>2, <1>4, <2>2 DEF Asked
  <2> QED BY <1>2, <2>1, <2>2
<1> QED BY <1>3, <1>4

(* What a write hands to the client. *)
LEMMA WriteDelivers ==
  ASSUME TypeInv, NEW c \in Conns, NEW item \in Replies, Write(c, item)
  PROVE  /\ \A d \in Conns, m \in Msgs :
               Delivered(d, m)' <=>
                 \/ Delivered(d, m)
                 \/ /\ d = c /\ conn[c].state = "connected"
                    /\ \E k \in DOMAIN item.msgs : item.msgs[k] = m
         /\ /\ AtMostOnce
            /\ \A k, l \in DOMAIN item.msgs : item.msgs[k] = item.msgs[l] => k = l
            /\ \A k \in DOMAIN item.msgs : ~Given(item.msgs[k])
            => AtMostOnce'
<1>1. CASE UNCHANGED outbox /\ conn[c].state # "connected"
  BY <1>1 DEF Delivered, AtMostOnce
<1>2. CASE outbox' = [outbox EXCEPT ![c] = Append(@, item)] /\ conn[c].state = "connected"
  <2> DEFINE n == Len(outbox[c]) + 1
  <2>1. outbox \in [Conns -> Seq(Replies)]
    BY DEF TypeInv, TypeOK
  <2>2. outbox'[c] = Append(outbox[c], item) /\ \A d \in Conns : d # c => outbox'[d] = outbox[d]
    BY <1>2, <2>1
  <2>3. /\ Len(outbox[c]) \in Nat /\ DOMAIN outbox[c] = 1..Len(outbox[c])
        /\ DOMAIN outbox'[c] = 1..n /\ outbox'[c][n] = item
        /\ \A i \in DOMAIN outbox[c] : outbox'[c][i] = outbox[c][i]
    BY <2>1, <2>2
  <2>4. DOMAIN outbox'[c] = DOMAIN outbox[c] \cup {n} /\ n \notin DOMAIN outbox[c]
    BY <2>3
  <2>5. ASSUME NEW d \in Conns, NEW i \in DOMAIN outbox'[d]
        PROVE  \/ i \in DOMAIN outbox[d] /\ outbox'[d][i] = outbox[d][i]
               \/ d = c /\ i = n /\ outbox'[d][i] = item
    BY <2>2, <2>3, <2>4
  <2> HIDE DEF n
  <2>6. ASSUME NEW d \in Conns, NEW m \in Msgs
        PROVE  Delivered(d, m)' <=>
                 Delivered(d, m) \/ (d = c /\ \E k \in DOMAIN item.msgs : item.msgs[k] = m)
    <3>1. ASSUME Delivered(d, m)'
          PROVE  Delivered(d, m) \/ (d = c /\ \E k \in DOMAIN item.msgs : item.msgs[k] = m)
      BY <2>5, <3>1 DEF Delivered
    <3>2. ASSUME Delivered(d, m)
          PROVE  Delivered(d, m)'
      <4>1. PICK i \in DOMAIN outbox[d] : \E k \in DOMAIN outbox[d][i].msgs : outbox[d][i].msgs[k] = m
        BY <3>2 DEF Delivered
      <4>2. i \in DOMAIN outbox'[d] /\ outbox'[d][i] = outbox[d][i]
        BY <2>2, <2>3, <2>4
      <4> QED BY <4>1, <4>2 DEF Delivered
    <3>3. ASSUME d = c, \E k \in DOMAIN item.msgs : item.msgs[k] = m
          PROVE  Delivered(d, m)'
      BY <2>3, <2>4, <3>3 DEF Delivered
    <3> QED BY <3>1, <3>2, <3>3
  <2>7. ASSUME AtMostOnce,
               \A k, l \in DOMAIN item.msgs : item.msgs[k] = item.msgs[l] => k = l,
               \A k \in DOMAIN item.msgs : ~Given(item.msgs[k])
        PROVE  AtMostOnce'
    <3> SUFFICES ASSUME NEW d \in Conns, NEW e \in Conns,
                        NEW i \in DOMAIN outbox'[d], NEW j \in DOMAIN outbox'[e],
                        NEW k \in DOMAIN outbox'[d][i].msgs, NEW l \in DOMAIN outbox'[e][j].msgs,
                        outbox'[d][i].msgs[k] = outbox'[e][j].msgs[l]
                 PROVE  d = e /\ i = j /\ k = l
      BY DEF AtMostOnce
    <3>1. CASE i \in DOMAIN outbox[d] /\ outbox'[d][i] = outbox[d][i]
      <4>1. CASE j \in DOMAIN outbox[e] /\ outbox'[e][j] = outbox[e][j]
        BY <2>7, <3>1, <4>1 DEF AtMostOnce
      <4>2. CASE outbox'[e][j] = item
        <5>1. l \in DOMAIN item.msgs /\ item.msgs[l] = outbox[d][i].msgs[k]
          BY <3>1, <4>2
        <5>2. Given(item.msgs[l])
          BY <3>1, <5>1 DEF Given, Delivered
        <5> QED BY <2>7, <5>1, <5>2
      <4> QED BY <2>5, <4>1, <4>2
    <3>2. CASE d = c /\ i = n /\ outbox'[d][i] = item
      <4>1. CASE j \in DOMAIN outbox[e] /\ outbox'[e][j] = outbox[e][j]
        <5>1. k \in DOMAIN item.msgs /\ item.msgs[k] = outbox[e][j].msgs[l]
          BY <3>2, <4>1
        <5>2. Given(item.msgs[k])
          BY <4>1, <5>1 DEF Given, Delivered
        <5> QED BY <2>7, <5>1, <5>2
      <4>2. CASE e = c /\ j = n /\ outbox'[e][j] = item
        BY <2>7, <3>2, <4>2
      <4> QED BY <2>5, <4>1, <4>2
    <3> QED BY <2>5, <3>1, <3>2
  <2> QED BY <1>2, <2>6, <2>7
<1> QED BY <1>1, <1>2 DEF Write

(* No message is put into a new place, and no login reads rows. *)
LEMMA PlaceFrame ==
  ASSUME OneServer, TypeInv, PlaceInv, NEW s \in Servers, UNCHANGED <<offline_message, msg_to>>,
         \A m \in Msgs : Asked(m)' => Asked(m),
         \A m \in Msgs : Given(m)' => Given(m),
         AskedOnce', AtMostOnce',
         \/ loop'[s] = loop[s]
         \/ /\ loop'[s].rows = <<>> /\ loop'[s].pc # "login_delete"
            /\ \/ loop'[s].msg = NoMsg
               \/ loop'[s].msg = loop[s].msg /\ loop'[s].pc \in ChatPcs
  PROVE  PlaceInv'
<1>s. \A r \in Servers : r = s
  BY DEF OneServer
<1>1. Rows(s) /\ \A m \in Msgs : OnePlace(m)
  BY DEF PlaceInv
<1>2. Rows(s)'
  BY <1>1 DEF Rows
<1>3. StoredOnce' /\ \A m \in Msgs : Stored(m)' => Stored(m)
  BY DEF PlaceInv, StoredOnce, Stored
<1>4. \A m \in Msgs : Handled(m)' => Handled(m)
  BY <1>s, SentinelAssumption DEF Handled
<1>5. \A m \in Msgs : Read(m)' => Read(m)
  BY <1>s DEF Read
<1>6. \A m \in Msgs : Unsent(m)' => Unsent(m)
  BY DEF Unsent
<1>7. \A m \in Msgs : OnePlace(m)'
  BY <1>1, <1>3, <1>4, <1>5, <1>6 DEF OnePlace
<1> QED BY <1>s, <1>2, <1>3, <1>7 DEF PlaceInv

LEMMA SameInbox ==
  ASSUME UNCHANGED inbox
  PROVE  /\ \A m : Asked(m)' <=> Asked(m)
         /\ AskedOnce => AskedOnce'
  BY DEF Asked, AskedOnce, ChatsIn

LEMMA SameWrites ==
  ASSUME UNCHANGED outbox
  PROVE  /\ \A m : Given(m)' <=> Given(m)
         /\ \A c \in Conns : \A m : Delivered(c, m)' <=> Delivered(c, m)
         /\ AtMostOnce => AtMostOnce'
  BY DEF Given, Delivered, AtMostOnce

LEMMA PlaceClient ==
  ASSUME OneServer, TypeInv, PlaceInv, NEW c \in Conns, ClientNext(c)
  PROVE  PlaceInv'
<1>s. PICK s \in Servers : \A r \in Servers : r = s
  BY DEF OneServer, TypeInv, TypeOK, ConnStates
<1>i. AskedOnce /\ AtMostOnce /\ StoredOnce /\ Rows(s) /\ \A m \in Msgs : OnePlace(m)
  BY DEF PlaceInv
<1>1. UNCHANGED <<offline_message, outbox, loop>>
  BY DEF ClientNext, Connect, ClientLogin, ClientChat, ClientLogout, ClientClose, SendRequest
<1>2. AtMostOnce' /\ \A m \in Msgs : Given(m)' => Given(m)
  BY <1>1, <1>i, SameWrites
<1>3. CASE UNCHANGED <<inbox, msg_to>>
  BY <1>1, <1>2, <1>3, <1>i, SameInbox, PlaceFrame
<1>4. ASSUME NEW r \in Requests, r.type # "chat", UNCHANGED msg_to,
             inbox' = [inbox EXCEPT ![c] = Append(@, r)]
      PROVE  PlaceInv'
  BY <1>1, <1>2, <1>4, <1>i, AskedSent, PlaceFrame
<1>5. ASSUME NEW u \in Users, NEW m \in Msgs, ClientChat(c, u, m)
      PROVE  PlaceInv'
  <2>1. PICK r \in Requests : r = [type |-> "chat", user |-> u, msg |-> m]
    BY DEF Requests
  <2>2. r.type = "chat" /\ r.msg = m
    BY <2>1
  <2>3. /\ inbox' = [inbox EXCEPT ![c] = Append(@, r)]
        /\ msg_to[m] = NoUser /\ msg_to' = [msg_to EXCEPT ![m] = u]
    BY <1>5, <2>1 DEF ClientChat, SendRequest
  <2>4. Unsent(m) /\ ~Unsent(m)' /\ \A n \in Msgs : Unsent(n)' => Unsent(n)
    BY <2>3, SentinelAssumption DEF Unsent, TypeInv, TypeOK
  <2>5. ~Asked(m) /\ ~Handled(m) /\ ~Stored(m) /\ ~Read(m) /\ ~Given(m)
    BY <1>i, <2>4 DEF OnePlace
  <2>6. AskedOnce' /\ \A n \in Msgs : Asked(n)' => Asked(n) \/ n = m
    BY <1>i, <2>2, <2>3, <2>5, AskedSent
  <2>7. \A n \in Msgs : (Handled(n)' => Handled(n)) /\ (Stored(n)' => Stored(n)) /\ (Read(n)' => Read(n))
    BY <1>1 DEF Handled, Stored, Read
  <2>8. \A n \in Msgs : OnePlace(n)'
    BY <1>2, <1>i, <2>4, <2>5, <2>6, <2>7 DEF OnePlace
  <2>9. Rows(s)' /\ StoredOnce'
    BY <1>1, <1>i DEF Rows, StoredOnce
  <2> QED BY <1>s, <1>2, <2>6, <2>8, <2>9 DEF PlaceInv
<1>6. ASSUME NEW u \in Users, NEW pwd \in Passwords, ClientLogin(c, u, pwd)
      PROVE  PlaceInv'
  <2>1. PICK r \in Requests : r = [type |-> "login", user |-> u, pwd |-> pwd]
    BY DEF Requests
  <2> QED BY <1>4, <1>6, <2>1 DEF ClientLogin, SendRequest
<1>7. CASE ClientLogout(c)
  <2>1. client[c].user \in Users
    BY <1>7 DEF ClientLogout, TypeInv, ClientLocals
  <2>2. PICK r \in Requests : r = [type |-> "logout", user |-> client[c].user]
    BY <2>1 DEF Requests
  <2> QED BY <1>4, <1>7, <2>2 DEF ClientLogout, SendRequest
<1>8. CASE ClientClose(c)
  <2>1. \A d \in Conns : \A i \in DOMAIN inbox'[d] :
           i \in DOMAIN inbox[d] /\ inbox'[d][i] = inbox[d][i]
    BY <1>8, CutRequests
  <2>2. AskedOnce' /\ \A m \in Msgs : Asked(m)' => Asked(m)
    BY <1>i, <2>1 DEF Asked, AskedOnce, ChatsIn
  <2>3. UNCHANGED msg_to
    BY <1>8 DEF ClientClose
  <2> QED BY <1>1, <1>2, <2>2, <2>3, PlaceFrame
<1> QED BY <1>3, <1>5, <1>6, <1>7, <1>8 DEF ClientNext, Connect

LEMMA PlaceServe ==
  ASSUME OneServer, NoDbFaults, TypeInv, PlaceInv, NEW s \in Servers, NEW c \in Conns,
         ServeConn(s, c)
  PROVE  PlaceInv'
<1>s. \A r \in Servers : r = s
  BY DEF OneServer
<1>t. /\ loop \in [Servers -> LoopStates] /\ outbox \in [Conns -> Seq(Replies)]
      /\ user_conn_map \in [Servers -> [Users -> Conns \cup {NoConn}]]
  BY DEF TypeInv, TypeOK
<1>i. AskedOnce /\ AtMostOnce /\ StoredOnce /\ Rows(s) /\ \A m \in Msgs : OnePlace(m)
  BY DEF PlaceInv
<1>1. UNCHANGED <<offline_message, msg_to>> /\ loop[s].pc = "poll"
  BY NoFault DEF ServeConn, HandlerLogin, HandlerLogout, HandlerDirectChat, HandleClose, OnMessage, LoopAt, Query
<1>2. ASSUME NEW u \in Users, NEW pwd \in Passwords, HandlerLogin(s, c, u, pwd)
      PROVE  PlaceInv'
  <2>1. PICK r \in Requests : r = [type |-> "login", user |-> u, pwd |-> pwd]
    BY DEF Requests
  <2>2. OnMessage(s, c, r)
    BY <1>2, <2>1 DEF HandlerLogin
  <2>3. AskedOnce' /\ \A m \in Msgs : Asked(m)' => Asked(m)
    BY <1>i, <2>2, AskedRead
  <2>4. AtMostOnce' /\ \A m \in Msgs : Given(m)' => Given(m)
    <3>1. CASE UNCHANGED outbox
      BY <1>i, <3>1, SameWrites
    <3>2. ASSUME NEW errno \in 0..2, Write(c, Ack(u, errno, <<>>))
          PROVE  AtMostOnce' /\ \A m \in Msgs : Given(m)' => Given(m)
      <4>0. Ack(u, errno, <<>>) \in Replies
        BY DEF Ack, Replies
      <4>1. PICK item \in Replies : item = Ack(u, errno, <<>>)
        BY <4>0
      <4>2. DOMAIN item.msgs = {}
        BY <4>1 DEF Ack
      <4> QED BY <1>i, <3>2, <4>1, <4>2, WriteDelivers DEF Given
    <3> QED BY <1>2, <3>1, <3>2 DEF HandlerLogin
  <2>5. \/ loop'[s] = loop[s]
        \/ loop'[s].rows = <<>> /\ loop'[s].pc # "login_delete" /\ loop'[s].msg = NoMsg
    BY <1>2, <1>t DEF HandlerLogin, Enter
  <2> QED BY <1>1, <2>3, <2>4, <2>5, PlaceFrame
<1>3. ASSUME NEW u \in Users, HandlerLogout(s, c, u)
      PROVE  PlaceInv'
  <2>1. PICK r \in Requests : r = [type |-> "logout", user |-> u]
    BY DEF Requests
  <2>2. OnMessage(s, c, r)
    BY <1>3, <2>1 DEF HandlerLogout
  <2>3. AskedOnce' /\ \A m \in Msgs : Asked(m)' => Asked(m)
    BY <1>i, <2>2, AskedRead
  <2>4. AtMostOnce' /\ \A m \in Msgs : Given(m)' => Given(m)
    BY <1>3, <1>i, SameWrites DEF HandlerLogout
  <2>5. loop'[s].rows = <<>> /\ loop'[s].pc # "login_delete" /\ loop'[s].msg = NoMsg
    BY <1>3, <1>t DEF HandlerLogout, Enter
  <2> QED BY <1>1, <2>3, <2>4, <2>5, PlaceFrame
<1>4. ASSUME NEW u \in Users, NEW m \in Msgs, HandlerDirectChat(s, c, u, m)
      PROVE  PlaceInv'
  <2>1. PICK r \in Requests : r = [type |-> "chat", user |-> u, msg |-> m]
    BY DEF Requests
  <2>2. OnMessage(s, c, r) /\ r.type = "chat" /\ r.msg = m
    BY <1>4, <2>1 DEF HandlerDirectChat
  <2>3. AskedOnce' /\ \A n \in Msgs : Asked(n)' => Asked(n)
    BY <1>i, <2>2, AskedRead
  <2>4. Asked(m) /\ ~Asked(m)'
    BY <1>i, <2>2, AskedRead
  <2>5. ~Unsent(m) /\ ~Handled(m) /\ ~Stored(m) /\ ~Read(m) /\ ~Given(m)
    BY <1>i, <2>4 DEF OnePlace
  <2>6. StoredOnce' /\ \A n \in Msgs : (Stored(n)' => Stored(n)) /\ (Unsent(n)' => Unsent(n))
    BY <1>1, <1>i DEF StoredOnce, Stored, Unsent
  <2>7. CASE user_conn_map[s][u] # NoConn /\ Write(user_conn_map[s][u], Chat(u, m)) /\ UNCHANGED loop
    <3>1. PICK d \in Conns : d = user_conn_map[s][u]
      BY <1>t, <2>7
    <3>2. PICK item \in Replies : item = Chat(u, m)
      BY ReplyTypes
    <3>3. item.msgs = <<m>>
      BY <3>2 DEF Chat
    <3>4. \A k \in DOMAIN item.msgs : k = 1 /\ item.msgs[k] = m
      BY <3>3
    <3>5. AtMostOnce' /\ \A n \in Msgs : Given(n)' => Given(n) \/ n = m
      BY <1>i, <2>5, <2>7, <3>1, <3>2, <3>4, WriteDelivers DEF Given
    <3>6. Rows(s)' /\ \A n \in Msgs : (Handled(n)' => Handled(n)) /\ (Read(n)' => Read(n))
      BY <1>1, <1>i, <2>7 DEF Rows, Handled, Read
    <3>7. \A n \in Msgs : OnePlace(n)'
      BY <1>i, <2>3, <2>4, <2>5, <2>6, <3>5, <3>6 DEF OnePlace
    <3> QED BY <1>s, <2>3, <2>6, <3>5, <3>6, <3>7 DEF PlaceInv
  <2>8. CASE Enter(s, "chat_query", NoConn, u, m) /\ UNCHANGED outbox
    <3>1. loop'[s].pc = "chat_query" /\ loop'[s].msg = m /\ loop'[s].rows = <<>>
      BY <1>t, <2>8 DEF Enter
    <3>2. Rows(s)' /\ \A n \in Msgs : (Handled(n)' => n = m) /\ ~Read(n)'
      BY <1>s, <3>1 DEF Rows, Handled, Read, ChatPcs
    <3>3. AtMostOnce' /\ \A n \in Msgs : Given(n)' => Given(n)
      BY <1>i, <2>8, SameWrites
    <3>4. \A n \in Msgs : OnePlace(n)'
      BY <1>i, <2>3, <2>4, <2>5, <2>6, <3>2, <3>3 DEF OnePlace
    <3> QED BY <1>s, <2>3, <2>6, <3>2, <3>3, <3>4 DEF PlaceInv
  <2> QED BY <1>4, <2>7, <2>8 DEF HandlerDirectChat
<1>5. ASSUME HandleClose(s, c)
      PROVE  PlaceInv'
  <2>1. loop'[s].rows = <<>> /\ loop'[s].pc # "login_delete" /\ loop'[s].msg = NoMsg
    BY <1>5, <1>t DEF HandleClose, Enter
  <2>2. UNCHANGED <<inbox, outbox>>
    BY <1>5 DEF HandleClose
  <2> QED BY <1>1, <1>i, <2>1, <2>2, SameInbox, SameWrites, PlaceFrame
<1> QED BY <1>2, <1>3, <1>4, <1>5 DEF ServeConn

LEMMA PlaceLoop ==
  ASSUME OneServer, NoDbFaults, TypeInv, IdleInv, PlaceInv, NEW s \in Servers, LoopStep(s)
  PROVE  PlaceInv'
<1>s. \A r \in Servers : r = s
  BY DEF OneServer
<1>t. /\ loop \in [Servers -> LoopStates] /\ offline_message \in [Users -> Seq(Msgs)]
      /\ functors \in [Servers -> Seq(Functors)] /\ LoopLocals(s)
  BY DEF TypeInv, TypeOK, StoreTypeOK
<1>i. AskedOnce /\ AtMostOnce /\ StoredOnce /\ Rows(s) /\ \A m \in Msgs : OnePlace(m)
  BY DEF PlaceInv
<1> USE DEF LoopAt
<1>1. UNCHANGED <<inbox, msg_to>>
  BY DEF LoopStep, LoginInsert, LoginSubscribe, LoginOnline, LoginQueryOffline, LoginDeleteOffline,
         LoginAck, LogoutUnsubscribe, LogoutOffline, ChatQuery, ChatPublish, ChatStoreOffline,
         CloseErase, CloseUnsubscribe, CloseOffline, DoPendingFunctors, RunFunctor
<1>2. AskedOnce' /\ \A m \in Msgs : (Asked(m)' => Asked(m)) /\ (Unsent(m)' => Unsent(m))
  BY <1>1, <1>i, SameInbox DEF Unsent
<1>f. ASSUME UNCHANGED <<offline_message, outbox>>,
             loop'[s].rows = <<>>, loop'[s].pc # "login_delete",
             loop'[s].msg = NoMsg \/ (loop'[s].msg = loop[s].msg /\ loop'[s].pc \in ChatPcs)
      PROVE  PlaceInv'
  BY <1>1, <1>2, <1>i, <1>f, SameWrites, PlaceFrame
<1>g. ASSUME NEW pc \in LoopPcs, Goto(s, pc), UNCHANGED <<offline_message, outbox>>,
             loop[s].pc \notin {"login_delete", "login_ack"}, pc # "login_delete",
             loop[s].pc \in ChatPcs => pc \in ChatPcs
      PROVE  PlaceInv'
  <2>1. loop'[s].pc = pc /\ loop'[s].msg = loop[s].msg /\ loop'[s].rows = loop[s].rows
    BY <1>g, <1>t, GotoEffect
  <2> QED BY <1>f, <1>g, <1>i, <2>1 DEF Rows
<1>b. ASSUME BackToPoll(s), UNCHANGED <<offline_message, outbox>>
      PROVE  PlaceInv'
  BY <1>b, <1>f, <1>t, PollEffect DEF Polling
<1>3. CASE LoginInsert(s)
  BY <1>3, <1>g DEF LoginInsert, LoopPcs, ChatPcs
<1>4. CASE LoginSubscribe(s)
  BY <1>4, <1>g DEF LoginSubscribe, LoopPcs, ChatPcs
<1>5. CASE LoginOnline(s)
  BY <1>5, <1>g, NoFault DEF LoginOnline, UpdateState, LoopPcs, ChatPcs
<1>6. CASE LoginQueryOffline(s)
  <2>1. PICK rows : rows = offline_message[loop[s].user]
    OBVIOUS
  <2>2. /\ loop' = [loop EXCEPT
              ![s].pc = IF rows = <<>> THEN "login_ack" ELSE "login_delete",
              ![s].rows = rows]
        /\ UNCHANGED <<offline_message, outbox>> /\ loop[s].pc = "login_query" /\ loop[s].user \in Users
    BY <1>6, <1>t, <2>1, NoFault DEF LoginQueryOffline, QueryOfflineMessages, LoopLocals, LoginPcs
  <2>3. /\ loop'[s].pc = (IF rows = <<>> THEN "login_ack" ELSE "login_delete")
        /\ loop'[s].rows = rows /\ loop'[s].user = loop[s].user /\ loop'[s].msg = loop[s].msg
    BY <1>t, <2>2 DEF LoopStates
  <2>4. loop'[s].msg = NoMsg
    BY <1>i, <2>2, <2>3 DEF Rows, ChatPcs
  <2>5. CASE rows = <<>>
    BY <1>f, <2>2, <2>3, <2>4, <2>5
  <2>6. CASE rows # <<>>
    <3>1. \A i, j \in DOMAIN rows : rows[i] = rows[j] => i = j
      BY <1>i, <2>1, <2>2 DEF StoredOnce
    <3>2. Rows(s)'
      <4>1. loop'[s].pc = "login_delete" /\ loop'[s].rows = offline_message'[loop'[s].user]
        BY <2>1, <2>2, <2>3, <2>6
      <4>2. \A i, j \in DOMAIN loop'[s].rows : loop'[s].rows[i] = loop'[s].rows[j] => i = j
        BY <2>3, <3>1
      <4> QED BY <2>4, <4>1, <4>2 DEF Rows
    <3>3. AtMostOnce' /\ \A m \in Msgs : Given(m)' => Given(m)
      BY <1>i, <2>2, SameWrites
    <3>4. StoredOnce' /\ \A m \in Msgs : Stored(m)' => Stored(m)
      BY <1>i, <2>2 DEF StoredOnce, Stored
    <3>5. \A m \in Msgs : ~Handled(m)' /\ ~Read(m)'
      BY <1>s, <2>3, <2>4, <2>6, SentinelAssumption DEF Handled, Read
    <3>6. \A m \in Msgs : OnePlace(m)'
      BY <1>2, <1>i, <3>3, <3>4, <3>5 DEF OnePlace
    <3> QED BY <1>s, <1>2, <3>2, <3>3, <3>4, <3>6 DEF PlaceInv
  <2> QED BY <2>5, <2>6
<1>7. CASE LoginDeleteOffline(s)
  <2>1. PICK u \in Users : u = loop[s].user
    BY <1>7, <1>t DEF LoginDeleteOffline, LoopLocals, LoginPcs
  <2>2. /\ offline_message' = [offline_message EXCEPT ![u] = <<>>]
        /\ UNCHANGED outbox /\ loop[s].pc = "login_delete"
    BY <1>7, <2>1, NoFault DEF LoginDeleteOffline, DeleteOfflineMessageByUserId
  <2>3. loop'[s].pc = "login_ack" /\ loop'[s].rows = loop[s].rows /\ loop'[s].msg = loop[s].msg
    BY <1>7, <1>t, GotoEffect DEF LoginDeleteOffline, LoopPcs
  <2>4. loop[s].rows = offline_message[u] /\ loop[s].msg = NoMsg
    BY <1>i, <2>1, <2>2 DEF Rows, ChatPcs
  <2>5. offline_message'[u] = <<>> /\ \A v \in Users : v # u => offline_message'[v] = offline_message[v]
    BY <1>t, <2>2
  <2>6. Rows(s)'
    BY <1>i, <2>3, <2>4 DEF Rows
  <2>7. AtMostOnce' /\ \A m \in Msgs : Given(m)' => Given(m)
    BY <1>i, <2>2, SameWrites
  <2>8. StoredOnce'
    BY <1>i, <2>5 DEF StoredOnce
  <2>9. ASSUME NEW m \in Msgs
        PROVE  (Read(m)' => Stored(m) /\ ~Stored(m)') /\ (Stored(m)' => Stored(m)) /\ ~Handled(m)'
    <3>1. Stored(m)' => \E v \in Users : v # u /\ \E i \in DOMAIN offline_message[v] : offline_message[v][i] = m
      BY <2>5 DEF Stored
    <3>2. Read(m)' => \E i \in DOMAIN offline_message[u] : offline_message[u][i] = m
      BY <1>s, <2>3, <2>4 DEF Read
    <3>3. Read(m)' => ~Stored(m)'
      BY <1>i, <3>1, <3>2 DEF StoredOnce
    <3>4. ~Handled(m)'
      BY <1>s, <2>3, <2>4, SentinelAssumption DEF Handled
    <3> QED BY <3>1, <3>2, <3>3, <3>4 DEF Stored
  <2>10. \A m \in Msgs : OnePlace(m)'
    BY <1>2, <1>i, <2>7, <2>9 DEF OnePlace
  <2> QED BY <1>s, <1>2, <2>6, <2>7, <2>8, <2>10 DEF PlaceInv
<1>8. CASE LoginAck(s)
  <2>1. PICK c \in Conns, u \in Users : c = loop[s].conn /\ u = loop[s].user
    BY <1>8, <1>t DEF LoginAck, LoopLocals, LoginPcs
  <2>2. PICK item \in Replies : item = Ack(u, 0, loop[s].rows)
    <3>1. loop[s].rows \in Seq(Msgs)
      BY <1>t DEF LoopStates
    <3> QED BY <3>1, ReplyTypes
  <2>3. item.msgs = loop[s].rows
    BY <2>2 DEF Ack
  <2>4. /\ Write(c, item) /\ UNCHANGED offline_message /\ loop[s].pc = "login_ack"
        /\ loop'[s] = Polling
    BY <1>8, <1>t, <2>1, <2>2, PollEffect DEF LoginAck
  <2>5. loop[s].rows \in Seq(Msgs)
    BY <1>t DEF LoopStates
  <2>6. \A k \in DOMAIN item.msgs : item.msgs[k] \in Msgs /\ Read(item.msgs[k])
    BY <2>3, <2>4, <2>5 DEF Read
  <2>7. \A k \in DOMAIN item.msgs : ~Given(item.msgs[k])
    BY <1>i, <2>6 DEF OnePlace
  <2>8. AtMostOnce' /\ \A m \in Msgs : Given(m)' => Given(m) \/ Read(m)
    BY <1>i, <2>3, <2>4, <2>6, <2>7, WriteDelivers DEF Given, Rows
  <2>9. StoredOnce' /\ \A m \in Msgs : Stored(m)' => Stored(m)
    BY <1>i, <2>4 DEF StoredOnce, Stored
  <2>10. Rows(s)' /\ \A m \in Msgs : ~Handled(m)' /\ ~Read(m)'
    BY <1>s, <2>4, SentinelAssumption DEF Handled, Read, Polling, Rows
  <2>11. \A m \in Msgs : OnePlace(m)'
    BY <1>2, <1>i, <2>8, <2>9, <2>10 DEF OnePlace
  <2> QED BY <1>s, <1>2, <2>8, <2>9, <2>10, <2>11 DEF PlaceInv
<1>9. CASE LogoutUnsubscribe(s)
  BY <1>9, <1>g DEF LogoutUnsubscribe, LoopPcs, ChatPcs
<1>10. CASE LogoutOffline(s)
  BY <1>10, <1>b, NoFault DEF LogoutOffline, SetOffline, UpdateState
<1>11. CASE ChatQuery(s)
  BY <1>11, <1>g, NoFault DEF ChatQuery, Query, LoopPcs, ChatPcs
<1>12. CASE ChatPublish(s)
  BY <1>12, <1>b DEF ChatPublish
<1>13. CASE ChatStoreOffline(s)
  <2>1. PICK u \in Users, m \in Msgs : u = loop[s].user /\ m = loop[s].msg
    BY <1>13, <1>t DEF ChatStoreOffline, LoopLocals, ChatPcs
  <2>2. /\ offline_message' = [offline_message EXCEPT ![u] = Append(@, m)]
        /\ UNCHANGED outbox /\ loop'[s] = Polling
    BY <1>13, <1>t, <2>1, NoFault, PollEffect DEF ChatStoreOffline, StoreOfflineMessage
  <2>3. Handled(m)
    BY <2>1 DEF Handled
  <2>4. ~Stored(m) /\ ~Unsent(m) /\ ~Asked(m) /\ ~Read(m) /\ ~Given(m)
    BY <1>i, <2>3 DEF OnePlace
  <2>5. /\ \A v \in Users : v # u => offline_message'[v] = offline_message[v]
        /\ offline_message'[u] = Append(offline_message[u], m) /\ offline_message[u] \in Seq(Msgs)
    BY <1>t, <2>2
  <2>6. PICK n : n = Len(offline_message[u]) + 1
    OBVIOUS
  <2>7. ASSUME NEW v \in Users, NEW i \in DOMAIN offline_message'[v]
        PROVE  \/ i \in DOMAIN offline_message[v] /\ offline_message'[v][i] = offline_message[v][i]
               \/ v = u /\ i = n /\ offline_message'[v][i] = m
    BY <2>5, <2>6
  <2>8. \A k \in Msgs : Stored(k)' => Stored(k) \/ k = m
    BY <2>7 DEF Stored
  <2>9. StoredOnce'
    <3> SUFFICES ASSUME NEW v \in Users, NEW w \in Users,
                        NEW i \in DOMAIN offline_message'[v], NEW j \in DOMAIN offline_message'[w],
                        offline_message'[v][i] = offline_message'[w][j]
                 PROVE  v = w /\ i = j
      BY DEF StoredOnce
    <3>1. CASE i \in DOMAIN offline_message[v] /\ offline_message'[v][i] = offline_message[v][i]
      <4>1. CASE j \in DOMAIN offline_message[w] /\ offline_message'[w][j] = offline_message[w][j]
        <5>1. offline_message[v][i] = offline_message[w][j]
          BY <3>1, <4>1
        <5> QED BY <1>i, <3>1, <4>1, <5>1 DEF StoredOnce
      <4>2. CASE offline_message'[w][j] = m
        BY <2>4, <3>1, <4>2 DEF Stored
      <4> QED BY <2>7, <4>1, <4>2
    <3>2. CASE v = u /\ i = n /\ offline_message'[v][i] = m
      BY <2>4, <2>7, <3>2 DEF Stored
    <3> QED BY <2>7, <3>1, <3>2
  <2>10. AtMostOnce' /\ \A k \in Msgs : Given(k)' => Given(k)
    BY <1>i, <2>2, SameWrites
  <2>11. Rows(s)' /\ \A k \in Msgs : ~Handled(k)' /\ ~Read(k)'
    BY <1>s, <2>2, SentinelAssumption DEF Handled, Read, Polling, Rows
  <2>12. \A k \in Msgs : OnePlace(k)'
    BY <1>2, <1>i, <2>4, <2>8, <2>10, <2>11 DEF OnePlace
  <2> QED BY <1>s, <1>2, <2>9, <2>10, <2>11, <2>12 DEF PlaceInv
<1>14. CASE CloseErase(s)
  <2>1. /\ UNCHANGED <<offline_message, outbox>> /\ loop[s].pc = "close_lock"
        /\ loop'[s].pc = "close_unsubscribe" /\ loop'[s].rows = loop[s].rows
        /\ loop'[s].msg = loop[s].msg
    BY <1>14, <1>t DEF CloseErase, Goto, LoopStates
  <2> QED BY <1>f, <1>i, <2>1 DEF Rows, ChatPcs
<1>15. CASE CloseUnsubscribe(s)
  BY <1>15, <1>g DEF CloseUnsubscribe, LoopPcs, ChatPcs
<1>16. CASE CloseOffline(s)
  BY <1>16, <1>b, NoFault DEF CloseOffline, SetOffline, UpdateState
<1>17. CASE DoPendingFunctors(s)
  BY <1>17, <1>g DEF DoPendingFunctors, LoopPcs, ChatPcs
<1>18. CASE RunFunctor(s)
  <2>1. functors[s] # <<>>
    <3>1. due[s] \in 1..Len(functors[s])
      BY <1>18 DEF RunFunctor, TypeInv, DueFunctors
    <3> QED BY <3>1
  <2>2. Head(functors[s]).kind = "destroy"
    <3>1. 1 \in DOMAIN functors[s] /\ functors[s][1] = Head(functors[s])
      BY <1>t, <2>1
    <3> QED BY <3>1 DEF IdleInv, BusIdle
  <2>3. UNCHANGED <<offline_message, outbox>> /\ (loop'[s] = loop[s] \/ BackToPoll(s))
    BY <1>18, <2>2 DEF RunFunctor
  <2>4. CASE loop'[s] = loop[s]
    BY <1>1, <1>2, <1>i, <2>3, <2>4, SameWrites, PlaceFrame
  <2> QED BY <1>b, <2>3, <2>4
<1> QED
  BY <1>3, <1>4, <1>5, <1>6, <1>7, <1>8, <1>9, <1>10, <1>11, <1>12, <1>13, <1>14, <1>15, <1>16, <1>17, <1>18
  DEF LoopStep

LEMMA PlaceOther ==
  ASSUME OneServer, NoDbFaults, TypeInv, IdleInv, PlaceInv, NEW s \in Servers,
         ObserverStep(s) \/ RedisStep(s) \/ ProcessStep(s)
  PROVE  PlaceInv'
<1>i. AskedOnce /\ AtMostOnce
  BY DEF PlaceInv
<1>1. ~ObserverStep(s)
  BY DEF ObserverStep, StartObserving, HandlerRedisSubscribeMessage, QueueInLoop, GetReply, BusIdle,
         IdleInv, Reading
<1>2. UNCHANGED <<offline_message, msg_to, outbox>>
  BY <1>1, NoFault
  DEF RedisStep, ProcessStep, Crash, SigInt, Exit, Restart, EndProcess, ResetState
<1>3. CASE UNCHANGED <<inbox, loop>>
  BY <1>2, <1>3, <1>i, SameInbox, SameWrites, PlaceFrame
<1>4. CASE EndProcess(s)
  <2>1. loop'[s] = Polling
    BY <1>4 DEF EndProcess, TypeInv, TypeOK
  <2>2. \A c \in Conns : inbox'[c] = inbox[c] \/ inbox'[c] = <<>>
    BY <1>4 DEF EndProcess
  <2>3. AskedOnce' /\ \A m \in Msgs : Asked(m)' => Asked(m)
    BY <1>i, <2>2 DEF AskedOnce, Asked, ChatsIn
  <2> QED BY <1>2, <1>i, <2>1, <2>3, SameWrites, PlaceFrame DEF Polling
<1> QED BY <1>1, <1>3, <1>4 DEF RedisStep, ProcessStep, Crash, SigInt, Exit, Restart

LEMMA PlaceCorrect ==
  ASSUME OneServer, NoDbFaults
  PROVE  Spec => []PlaceInv
<1>1. Init => PlaceInv
  <2> SUFFICES ASSUME Init PROVE PlaceInv
    OBVIOUS
  <2>1. /\ \A c \in Conns : inbox[c] = <<>> /\ outbox[c] = <<>>
        /\ \A u \in Users : offline_message[u] = <<>>
        /\ \A s \in Servers : loop[s] = Polling
    BY DEF Init, StoreInit
  <2>2. \A m \in Msgs : ~Asked(m) /\ ~Handled(m) /\ ~Stored(m) /\ ~Read(m) /\ ~Given(m)
    BY <2>1, SentinelAssumption DEF Asked, ChatsIn, Handled, Stored, Read, Given, Delivered, Polling
  <2>3. AskedOnce /\ StoredOnce /\ AtMostOnce
    BY <2>1 DEF AskedOnce, StoredOnce, AtMostOnce, ChatsIn
  <2>4. ASSUME NEW s \in Servers PROVE Rows(s)
    <3>1. loop[s].pc = "poll" /\ loop[s].rows = <<>> /\ loop[s].msg = NoMsg
      BY <2>1 DEF Polling
    <3> QED BY <3>1 DEF Rows
  <2> QED BY <2>2, <2>3, <2>4 DEF PlaceInv, OnePlace
<1>2. TypeInv /\ IdleInv /\ PlaceInv /\ [Next]_vars => PlaceInv'
  <2> SUFFICES ASSUME TypeInv, IdleInv, PlaceInv, [Next]_vars
               PROVE  PlaceInv'
    OBVIOUS
  <2>1. CASE UNCHANGED vars
    BY <2>1
    DEF vars, PlaceInv, Rows, OnePlace, Unsent, Asked, ChatsIn, Handled, Stored, Read, Given, Delivered,
        AskedOnce, StoredOnce, AtMostOnce
  <2> QED BY <2>1, PlaceClient, PlaceServe, PlaceLoop, PlaceOther DEF Next
<1> QED BY <1>1, <1>2, TypeSafety, IdleCorrect, PTL DEF Spec

(* A server that is alone writes no chat message twice, neither to two        *)
(* clients nor, once live and once from the offline table, to one: however    *)
(* logins, logouts and chats follow each other and whatever a process end     *)
(* interrupts, as long as no statement fails.  The rows a login reads leave   *)
(* the table before they are in the answer, and what is not in the table then *)
(* was taken from one request.                                                *)
THEOREM AtMostOnceAlone ==
  ASSUME OneServer, NoDbFaults
  PROVE  Spec => []AtMostOnce
<1>1. PlaceInv => AtMostOnce
  BY DEF PlaceInv
<1> QED BY <1>1, PlaceCorrect, PTL

-----------------------------------------------------------------------------
(* Mail.  A chat is under way to the user it was sent to, and a user with a   *)
(* session has no rows left once the login of the session has read them.      *)

Addressed ==
    /\ \A c \in Conns : \A i \in ChatsIn(c) : msg_to[inbox[c][i].msg] = inbox[c][i].user
    /\ \A s \in Servers : loop[s].pc \in ChatPcs => msg_to[loop[s].msg] = loop[s].user

MailPcs == {"login_subscribe", "login_online", "login_query", "login_delete"}

MailRead(s) ==
    /\ \A u \in Users : user_conn_map[s][u] # NoConn =>
          offline_message[u] = <<>> \/ (loop[s].user = u /\ loop[s].pc \in MailPcs)
    /\ loop[s].pc = "login_ack" => offline_message[loop[s].user] = <<>>

MailInv == Addressed /\ \A s \in Servers : MailRead(s)

LEMMA ReadChats ==
  ASSUME TypeInv, NEW s \in Servers, NEW c \in Conns, NEW r \in Requests, OnMessage(s, c, r)
  PROVE  /\ \A d \in Conns : \A i \in ChatsIn(d)' :
               \E j \in ChatsIn(d) : inbox'[d][i] = inbox[d][j]
         /\ r.type = "chat" => \E j \in ChatsIn(c) : inbox[c][j] = r
<1>1. PICK n \in 1..MaxRead :
         \A i \in DOMAIN inbox'[c] : i + n \in DOMAIN inbox[c] /\ inbox'[c][i] = inbox[c][i + n]
  BY ReadRequest
<1>2. /\ \A d \in Conns : d # c => inbox'[d] = inbox[d]
      /\ inbox[c] \in Seq(Requests) /\ Len(inbox[c]) > 0 /\ inbox[c][1] = r
  BY ReadRequest
<1>3. 1 \in DOMAIN inbox[c]
  BY <1>2
<1>4. r.type = "chat" => \E j \in ChatsIn(c) : inbox[c][j] = r
  BY <1>2, <1>3 DEF ChatsIn
<1>5. ASSUME NEW d \in Conns, NEW i \in ChatsIn(d)'
      PROVE  \E j \in ChatsIn(d) : inbox'[d][i] = inbox[d][j]
  <2>1. CASE d = c
    BY <1>1, <1>5, <2>1 DEF ChatsIn
  <2>2. CASE d # c
    BY <1>2, <1>5, <2>2 DEF ChatsIn
  <2> QED BY <2>1, <2>2
<1> QED BY <1>4, <1>5

LEMMA SentChats ==
  ASSUME TypeInv, NEW c \in Conns, NEW r \in Requests,
         inbox' = [inbox EXCEPT ![c] = Append(@, r)]
  PROVE  \A d \in Conns : \A i \in ChatsIn(d)' :
            \/ i \in ChatsIn(d) /\ inbox'[d][i] = inbox[d][i]
            \/ inbox'[d][i] = r /\ r.type = "chat"
<1> SUFFICES ASSUME NEW d \in Conns, NEW i \in ChatsIn(d)'
             PROVE  \/ i \in ChatsIn(d) /\ inbox'[d][i] = inbox[d][i]
                    \/ inbox'[d][i] = r /\ r.type = "chat"
  OBVIOUS
<1>1. /\ \A e \in Conns : e # c => inbox'[e] = inbox[e]
      /\ DOMAIN inbox[c] = 1..Len(inbox[c]) /\ DOMAIN inbox'[c] = 1..(Len(inbox[c]) + 1)
      /\ \A j \in DOMAIN inbox[c] : inbox'[c][j] = inbox[c][j]
      /\ inbox'[c][Len(inbox[c]) + 1] = r
  BY SentRequest
<1>2. Len(inbox[c]) \in Nat
  BY DEF TypeInv, TypeOK
<1>3. CASE d = c
  <2>1. i \in 1..(Len(inbox[c]) + 1) /\ inbox'[c][i].type = "chat"
    BY <1>1, <1>3 DEF ChatsIn
  <2>2. CASE i = Len(inbox[c]) + 1
    BY <1>1, <1>3, <2>1, <2>2
  <2>3. CASE i # Len(inbox[c]) + 1
    <3>1. i \in DOMAIN inbox[c]
      BY <1>1, <1>2, <2>1, <2>3
    <3> QED BY <1>1, <1>3, <2>1, <3>1 DEF ChatsIn
  <2> QED BY <2>2, <2>3
<1>4. CASE d # c
  BY <1>1, <1>4 DEF ChatsIn
<1> QED BY <1>3, <1>4

(* The rows, the entries and the addressees stay; the loop thread is in no    *)
(* login, or goes on with it.                                                 *)
LEMMA MailFrame ==
  ASSUME OneServer, MailInv, NEW s \in Servers, UNCHANGED <<offline_message, msg_to>>,
         \A u \in Users : user_conn_map'[s][u] \in {user_conn_map[s][u], NoConn},
         \A d \in Conns : \A i \in ChatsIn(d)' : \E j \in ChatsIn(d) : inbox'[d][i] = inbox[d][j],
         loop[s].pc \in MailPcs => loop'[s].pc \in MailPcs /\ loop'[s].user = loop[s].user,
         loop'[s].pc # "login_ack",
         loop'[s].pc \in ChatPcs => msg_to[loop'[s].msg] = loop'[s].user
  PROVE  MailInv'
<1>s. \A r \in Servers : r = s
  BY DEF OneServer
<1>1. Addressed'
  <2>1. ASSUME NEW d \in Conns, NEW i \in ChatsIn(d)'
        PROVE  msg_to'[inbox'[d][i].msg] = inbox'[d][i].user
    <3>1. PICK j \in ChatsIn(d) : inbox'[d][i] = inbox[d][j]
      BY <2>1
    <3> QED BY <3>1 DEF MailInv, Addressed
  <2> QED BY <1>s, <2>1 DEF Addressed
<1>2. MailRead(s)'
  BY DEF MailInv, MailRead
<1> QED BY <1>s, <1>1, <1>2 DEF MailInv

LEMMA MailClient ==
  ASSUME OneServer, TypeInv, PlaceInv, MailInv, NEW c \in Conns, ClientNext(c)
  PROVE  MailInv'
<1>s. PICK s \in Servers : \A r \in Servers : r = s
  BY DEF OneServer, TypeInv, TypeOK, ConnStates
<1>i. Addressed /\ MailRead(s)
  BY DEF MailInv
<1>1. UNCHANGED <<offline_message, user_conn_map, loop>>
  BY DEF ClientNext, Connect, ClientLogin, ClientChat, ClientLogout, ClientClose, SendRequest
<1>2. MailRead(s)'
  BY <1>1, <1>i DEF MailRead
<1>3. CASE UNCHANGED <<inbox, msg_to>>
  BY <1>s, <1>1, <1>2, <1>3, <1>i DEF MailInv, Addressed, ChatsIn
<1>5. ASSUME NEW r \in Requests, r.type # "chat", UNCHANGED msg_to,
             inbox' = [inbox EXCEPT ![c] = Append(@, r)]
      PROVE  MailInv'
  <2>1. \A d \in Conns : \A i \in ChatsIn(d)' : i \in ChatsIn(d) /\ inbox'[d][i] = inbox[d][i]
    BY <1>5, SentChats DEF ChatsIn
  <2>2. ASSUME NEW d \in Conns, NEW i \in ChatsIn(d)'
        PROVE  msg_to'[inbox'[d][i].msg] = inbox'[d][i].user
    <3>1. i \in ChatsIn(d) /\ inbox'[d][i] = inbox[d][i]
      BY <2>1, <2>2 DEF ChatsIn
    <3>2. msg_to[inbox[d][i].msg] = inbox[d][i].user
      BY <1>i, <3>1 DEF Addressed
    <3> QED BY <1>5, <3>1, <3>2
  <2>3. Addressed'
    BY <1>1, <1>5, <1>i, <2>2 DEF Addressed
  <2> QED BY <1>s, <1>2, <2>3 DEF MailInv
<1>6. ASSUME NEW u \in Users, NEW m \in Msgs, ClientChat(c, u, m)
      PROVE  MailInv'
  <2>1. PICK r \in Requests : r = [type |-> "chat", user |-> u, msg |-> m]
    BY DEF Requests
  <2>2. r.type = "chat" /\ r.msg = m /\ r.user = u
    BY <2>1
  <2>3. /\ inbox' = [inbox EXCEPT ![c] = Append(@, r)] /\ Unsent(m)
        /\ msg_to' = [msg_to EXCEPT ![m] = u]
    BY <1>6, <2>1 DEF ClientChat, SendRequest, Unsent
  <2>4. ~Asked(m) /\ ~Handled(m)
    BY <2>3 DEF PlaceInv, OnePlace
  <2>5. msg_to \in [Msgs -> Users \cup {NoUser}] /\ LoopLocals(s)
    BY DEF TypeInv, TypeOK
  <2>6. msg_to'[m] = u /\ \A n \in Msgs : n # m => msg_to'[n] = msg_to[n]
    BY <2>3, <2>5
  <2>7. ASSUME NEW d \in Conns, NEW i \in ChatsIn(d)'
        PROVE  msg_to'[inbox'[d][i].msg] = inbox'[d][i].user
    <3>1. CASE i \in ChatsIn(d) /\ inbox'[d][i] = inbox[d][i]
      <4>1. inbox[d] \in Seq(Requests)
        BY DEF TypeInv, TypeOK
      <4>2. inbox[d][i].msg \in Msgs
        BY <3>1, <4>1 DEF ChatsIn, Requests
      <4>3. inbox[d][i].msg # m
        BY <2>4, <3>1 DEF Asked
      <4> QED BY <1>i, <2>6, <3>1, <4>2, <4>3 DEF Addressed
    <3>2. CASE inbox'[d][i] = r
      BY <2>2, <2>6, <3>2
    <3>3. \A e \in Conns : \A j \in ChatsIn(e)' :
             (j \in ChatsIn(e) /\ inbox'[e][j] = inbox[e][j]) \/ inbox'[e][j] = r
      BY <2>3, SentChats DEF ChatsIn
    <3> QED BY <2>7, <3>1, <3>2, <3>3
  <2>8. loop[s].pc \in ChatPcs => msg_to'[loop[s].msg] = loop[s].user
    BY <1>i, <2>4, <2>5, <2>6 DEF Addressed, Handled, LoopLocals
  <2> QED BY <1>s, <1>1, <1>2, <2>7, <2>8 DEF MailInv, Addressed
<1>7. ASSUME NEW u \in Users, NEW pwd \in Passwords, ClientLogin(c, u, pwd)
      PROVE  MailInv'
  <2>1. PICK r \in Requests : r = [type |-> "login", user |-> u, pwd |-> pwd]
    BY DEF Requests
  <2> QED BY <1>5, <1>7, <2>1 DEF ClientLogin, SendRequest
<1>8. CASE ClientLogout(c)
  <2>1. client[c].user \in Users
    BY <1>8 DEF ClientLogout, TypeInv, ClientLocals
  <2>2. PICK r \in Requests : r = [type |-> "logout", user |-> client[c].user]
    BY <2>1 DEF Requests
  <2> QED BY <1>5, <1>8, <2>2 DEF ClientLogout, SendRequest
<1>9. CASE ClientClose(c)
  <2>1. \A d \in Conns : \A i \in DOMAIN inbox'[d] :
           i \in DOMAIN inbox[d] /\ inbox'[d][i] = inbox[d][i]
    BY <1>9, CutRequests
  <2>2. UNCHANGED msg_to
    BY <1>9 DEF ClientClose
  <2>3. Addressed'
    BY <1>1, <1>i, <2>1, <2>2 DEF Addressed, ChatsIn
  <2> QED BY <1>s, <1>2, <2>3 DEF MailInv
<1> QED BY <1>3, <1>6, <1>7, <1>8, <1>9 DEF ClientNext, Connect

LEMMA MailServe ==
  ASSUME OneServer, NoDbFaults, TypeInv, MailInv, NEW s \in Servers, NEW c \in Conns,
         ServeConn(s, c)
  PROVE  MailInv'
<1>t. /\ loop \in [Servers -> LoopStates]
      /\ user_conn_map \in [Servers -> [Users -> Conns \cup {NoConn}]]
  BY DEF TypeInv, TypeOK
<1>1. UNCHANGED <<offline_message, msg_to>> /\ loop[s].pc = "poll" /\ "poll" \notin MailPcs
  BY NoFault
  DEF ServeConn, HandlerLogin, HandlerLogout, HandlerDirectChat, HandleClose, OnMessage, LoopAt, Query, MailPcs
<1>2. ASSUME NEW u \in Users, NEW pwd \in Passwords, HandlerLogin(s, c, u, pwd)
      PROVE  MailInv'
  <2>1. PICK r \in Requests : r = [type |-> "login", user |-> u, pwd |-> pwd]
    BY DEF Requests
  <2>2. OnMessage(s, c, r) /\ UNCHANGED user_conn_map
    BY <1>2, <2>1 DEF HandlerLogin
  <2>3. loop'[s].pc \in {"poll", "login_insert"}
    BY <1>2, <1>1, <1>t DEF HandlerLogin, Enter
  <2> QED BY <1>1, <2>2, <2>3, ReadChats, MailFrame DEF ChatPcs
<1>3. ASSUME NEW u \in Users, HandlerLogout(s, c, u)
      PROVE  MailInv'
  <2>1. PICK r \in Requests : r = [type |-> "logout", user |-> u]
    BY DEF Requests
  <2>2. OnMessage(s, c, r)
    BY <1>3, <2>1 DEF HandlerLogout
  <2>3. loop'[s].pc = "logout_unsubscribe"
    BY <1>3, <1>t DEF HandlerLogout, Enter
  <2>4. \A v \in Users : user_conn_map'[s][v] \in {user_conn_map[s][v], NoConn}
    BY <1>3, <1>t DEF HandlerLogout
  <2> QED BY <1>1, <2>2, <2>3, <2>4, ReadChats, MailFrame DEF ChatPcs
<1>4. ASSUME NEW u \in Users, NEW m \in Msgs, HandlerDirectChat(s, c, u, m)
      PROVE  MailInv'
  <2>1. PICK r \in Requests : r = [type |-> "chat", user |-> u, msg |-> m]
    BY DEF Requests
  <2>2. OnMessage(s, c, r) /\ r.type = "chat" /\ r.msg = m /\ r.user = u /\ UNCHANGED user_conn_map
    BY <1>4, <2>1 DEF HandlerDirectChat
  <2>3. msg_to[m] = u
    BY <2>2, ReadChats DEF MailInv, Addressed
  <2>4. \/ loop'[s].pc = "poll"
        \/ loop'[s].pc = "chat_query" /\ loop'[s].msg = m /\ loop'[s].user = u
    BY <1>4, <1>1, <1>t DEF HandlerDirectChat, Enter
  <2> QED BY <1>1, <2>2, <2>3, <2>4, ReadChats, MailFrame DEF ChatPcs
<1>5. ASSUME HandleClose(s, c)
      PROVE  MailInv'
  <2>1. loop'[s].pc = "close_lock"
    BY <1>5, <1>t DEF HandleClose, Enter
  <2>2. UNCHANGED <<user_conn_map, inbox>>
    BY <1>5 DEF HandleClose
  <2> QED BY <1>1, <2>1, <2>2, MailFrame DEF ChatPcs, ChatsIn
<1> QED BY <1>2, <1>3, <1>4, <1>5 DEF ServeConn

LEMMA MailLoop ==
  ASSUME OneServer, NoDbFaults, TypeInv, SessionInv, MailInv, NEW s \in Servers, LoopStep(s)
  PROVE  MailInv'
<1>s. \A r \in Servers : r = s
  BY DEF OneServer
<1>t. /\ loop \in [Servers -> LoopStates] /\ offline_message \in [Users -> Seq(Msgs)]
      /\ user_conn_map \in [Servers -> [Users -> Conns \cup {NoConn}]] /\ LoopLocals(s)
  BY DEF TypeInv, TypeOK, StoreTypeOK
<1>i. Addressed /\ MailRead(s) /\ LoopEntries(s)
  BY DEF MailInv, SessionInv
<1> USE DEF LoopAt
<1>1. UNCHANGED <<inbox, msg_to>>
  BY DEF LoopStep, LoginInsert, LoginSubscribe, LoginOnline, LoginQueryOffline, LoginDeleteOffline,
         LoginAck, LogoutUnsubscribe, LogoutOffline, ChatQuery, ChatPublish, ChatStoreOffline,
         CloseErase, CloseUnsubscribe, CloseOffline, DoPendingFunctors, RunFunctor
<1>2. \A d \in Conns : \A i \in ChatsIn(d)' : \E j \in ChatsIn(d) : inbox'[d][i] = inbox[d][j]
  BY <1>1 DEF ChatsIn
<1>a. ASSUME MailRead(s)', loop'[s].pc \notin ChatPcs
      PROVE  MailInv'
  <2>1. Addressed'
    BY <1>s, <1>1, <1>i, <1>a DEF Addressed, ChatsIn
  <2> QED BY <1>s, <1>a, <2>1 DEF MailInv
<1>g. ASSUME NEW pc \in LoopPcs, Goto(s, pc), UNCHANGED <<offline_message, user_conn_map>>,
             loop[s].pc \in MailPcs => pc \in MailPcs, pc # "login_ack",
             pc \in ChatPcs => loop[s].pc \in ChatPcs
      PROVE  MailInv'
  <2>1. loop'[s].pc = pc /\ loop'[s].msg = loop[s].msg /\ loop'[s].user = loop[s].user
    BY <1>g, <1>t, GotoEffect
  <2>2. loop'[s].pc \in ChatPcs => msg_to[loop'[s].msg] = loop'[s].user
    BY <1>g, <1>i, <2>1 DEF Addressed
  <2> QED BY <1>1, <1>2, <1>g, <2>1, <2>2, MailFrame
<1>b. ASSUME BackToPoll(s), UNCHANGED <<offline_message, user_conn_map>>, loop[s].pc \notin MailPcs
      PROVE  MailInv'
  <2>1. loop'[s].pc = "poll"
    BY <1>b, <1>t, PollEffect
  <2> QED BY <1>1, <1>2, <1>b, <2>1, MailFrame DEF ChatPcs
<1>3. CASE LoginInsert(s)
  <2>1. /\ loop[s].pc = "login_insert" /\ UNCHANGED offline_message /\ loop[s].user \in Users
        /\ \A u \in Users : u # loop[s].user => user_conn_map'[s][u] = user_conn_map[s][u]
    BY <1>3, <1>t DEF LoginInsert, LoopLocals, LoginPcs
  <2>2. loop'[s].pc = "login_subscribe" /\ loop'[s].user = loop[s].user
    BY <1>3, <1>t, GotoEffect DEF LoginInsert, LoopPcs
  <2>3. MailRead(s)'
    BY <1>i, <2>1, <2>2 DEF MailRead, MailPcs
  <2> QED BY <1>a, <2>2, <2>3 DEF ChatPcs
<1>4. CASE LoginSubscribe(s)
  BY <1>4, <1>g DEF LoginSubscribe, LoopPcs, ChatPcs, MailPcs
<1>5. CASE LoginOnline(s)
  BY <1>5, <1>g, NoFault DEF LoginOnline, UpdateState, LoopPcs, ChatPcs, MailPcs
<1>6. CASE LoginQueryOffline(s)
  <2>1. PICK rows : rows = offline_message[loop[s].user]
    OBVIOUS
  <2>2. /\ loop' = [loop EXCEPT
              ![s].pc = IF rows = <<>> THEN "login_ack" ELSE "login_delete",
              ![s].rows = rows]
        /\ UNCHANGED <<offline_message, user_conn_map>> /\ loop[s].pc = "login_query"
    BY <1>6, <1>t, <2>1, NoFault DEF LoginQueryOffline, QueryOfflineMessages
  <2>3. /\ loop'[s].pc = (IF rows = <<>> THEN "login_ack" ELSE "login_delete")
        /\ loop'[s].user = loop[s].user
    BY <1>t, <2>2 DEF LoopStates
  <2>4. MailRead(s)'
    BY <1>i, <2>1, <2>2, <2>3 DEF MailRead, MailPcs
  <2> QED BY <1>a, <2>3, <2>4 DEF ChatPcs
<1>7. CASE LoginDeleteOffline(s)
  <2>1. /\ offline_message' = [offline_message EXCEPT ![loop[s].user] = <<>>]
        /\ UNCHANGED user_conn_map /\ loop[s].pc = "login_delete" /\ loop[s].user \in Users
    BY <1>7, <1>t, NoFault DEF LoginDeleteOffline, DeleteOfflineMessageByUserId, LoopLocals, LoginPcs
  <2>2. loop'[s].pc = "login_ack" /\ loop'[s].user = loop[s].user
    BY <1>7, <1>t, GotoEffect DEF LoginDeleteOffline, LoopPcs
  <2>3. MailRead(s)'
    BY <1>i, <1>t, <2>1, <2>2 DEF MailRead, MailPcs
  <2> QED BY <1>a, <2>2, <2>3 DEF ChatPcs
<1>8. CASE LoginAck(s)
  BY <1>8, <1>b DEF LoginAck, MailPcs
<1>9. CASE LogoutUnsubscribe(s)
  BY <1>9, <1>g DEF LogoutUnsubscribe, LoopPcs, ChatPcs, MailPcs
<1>10. CASE LogoutOffline(s)
  BY <1>10, <1>b, NoFault DEF LogoutOffline, SetOffline, UpdateState, MailPcs
<1>11. CASE ChatQuery(s)
  BY <1>11, <1>g, NoFault DEF ChatQuery, Query, LoopPcs, ChatPcs, MailPcs
<1>12. CASE ChatPublish(s)
  BY <1>12, <1>b DEF ChatPublish, MailPcs
<1>13. CASE ChatStoreOffline(s)
  <2>1. /\ offline_message' = [offline_message EXCEPT ![loop[s].user] = Append(@, loop[s].msg)]
        /\ UNCHANGED user_conn_map /\ loop'[s].pc = "poll" /\ loop[s].pc = "chat_store"
        /\ loop[s].user \in Users
    BY <1>13, <1>t, NoFault, PollEffect
    DEF ChatStoreOffline, StoreOfflineMessage, LoopLocals, ChatPcs
  <2>2. user_conn_map[s][loop[s].user] = NoConn
    BY <1>i, <2>1 DEF LoopEntries, ChatPcs
  <2>3. MailRead(s)'
    BY <1>i, <1>t, <2>1, <2>2 DEF MailRead, MailPcs
  <2> QED BY <1>a, <2>1, <2>3 DEF ChatPcs
<1>14. CASE CloseErase(s)
  <2>1. /\ UNCHANGED offline_message /\ loop[s].pc = "close_lock"
        /\ loop'[s].pc = "close_unsubscribe"
        /\ \A u \in Users : user_conn_map'[s][u] \in {user_conn_map[s][u], NoConn}
    BY <1>14, <1>t DEF CloseErase, Goto, LoopStates
  <2> QED BY <1>1, <1>2, <2>1, MailFrame DEF ChatPcs, MailPcs
<1>15. CASE CloseUnsubscribe(s)
  BY <1>15, <1>g DEF CloseUnsubscribe, LoopPcs, ChatPcs, MailPcs
<1>16. CASE CloseOffline(s)
  BY <1>16, <1>b, NoFault DEF CloseOffline, SetOffline, UpdateState, MailPcs
<1>17. CASE DoPendingFunctors(s)
  BY <1>17, <1>g DEF DoPendingFunctors, LoopPcs, ChatPcs, MailPcs
<1>18. CASE RunFunctor(s)
  <2>1. /\ UNCHANGED <<offline_message, user_conn_map>> /\ loop[s].pc = "functors"
        /\ (loop'[s] = loop[s] \/ BackToPoll(s))
    BY <1>18 DEF RunFunctor
  <2>2. CASE loop'[s] = loop[s]
    BY <1>1, <1>2, <2>1, <2>2, MailFrame DEF ChatPcs, MailPcs
  <2> QED BY <1>b, <2>1, <2>2 DEF MailPcs
<1> QED
  BY <1>3, <1>4, <1>5, <1>6, <1>7, <1>8, <1>9, <1>10, <1>11, <1>12, <1>13, <1>14, <1>15, <1>16, <1>17, <1>18
  DEF LoopStep

LEMMA MailOther ==
  ASSUME OneServer, NoDbFaults, TypeInv, IdleInv, MailInv, NEW s \in Servers,
         ObserverStep(s) \/ RedisStep(s) \/ ProcessStep(s)
  PROVE  MailInv'
<1>s. \A r \in Servers : r = s
  BY DEF OneServer
<1>i. Addressed /\ MailRead(s)
  BY DEF MailInv
<1>1. ~ObserverStep(s)
  BY DEF ObserverStep, StartObserving, HandlerRedisSubscribeMessage, QueueInLoop, GetReply, BusIdle,
         IdleInv, Reading
<1>2. UNCHANGED <<offline_message, msg_to>>
  BY <1>1, NoFault
  DEF RedisStep, ProcessStep, Crash, SigInt, Exit, Restart, EndProcess, ResetState
<1>3. CASE UNCHANGED <<inbox, loop, user_conn_map>>
  BY <1>2, <1>3 DEF MailInv, Addressed, MailRead, ChatsIn
<1>4. CASE EndProcess(s)
  <2>1. loop'[s].pc = "poll" /\ \A u \in Users : user_conn_map'[s][u] = NoConn
    BY <1>4 DEF EndProcess, TypeInv, TypeOK, Polling
  <2>2. \A c \in Conns : inbox'[c] = inbox[c] \/ inbox'[c] = <<>>
    BY <1>4 DEF EndProcess
  <2>3. Addressed'
    BY <1>s, <1>2, <1>i, <2>1, <2>2 DEF Addressed, ChatsIn, ChatPcs
  <2>4. MailRead(s)'
    BY <2>1 DEF MailRead
  <2> QED BY <1>s, <2>3, <2>4 DEF MailInv
<1> QED BY <1>1, <1>3, <1>4 DEF RedisStep, ProcessStep, Crash, SigInt, Exit, Restart

LEMMA MailCorrect ==
  ASSUME OneServer, NoDbFaults
  PROVE  Spec => []MailInv
<1>1. Init => MailInv
  <2> SUFFICES ASSUME Init PROVE MailInv
    OBVIOUS
  <2>1. /\ \A c \in Conns : inbox[c] = <<>>
        /\ \A u \in Users : offline_message[u] = <<>>
        /\ \A s \in Servers : loop[s].pc = "poll"
    BY DEF Init, StoreInit, Polling
  <2> QED BY <2>1 DEF MailInv, Addressed, MailRead, ChatsIn, ChatPcs
<1>2. TypeInv /\ SessionInv /\ IdleInv /\ PlaceInv /\ MailInv /\ [Next]_vars => MailInv'
  <2> SUFFICES ASSUME TypeInv, SessionInv, IdleInv, PlaceInv, MailInv, [Next]_vars
               PROVE  MailInv'
    OBVIOUS
  <2>1. CASE UNCHANGED vars
    BY <2>1 DEF vars, MailInv, Addressed, MailRead, ChatsIn
  <2> QED BY <2>1, MailClient, MailServe, MailLoop, MailOther DEF Next
<1> QED BY <1>1, <1>2, TypeSafety, SessionCorrect, IdleCorrect, PlaceCorrect, PTL DEF Spec

-----------------------------------------------------------------------------
(* The service.  What ServiceRefinement makes of the state of one server.     *)

(* No process ends, so the server is always up. *)
UpInv == \A s \in Servers : proc[s] = "up"

LEMMA UpCorrect ==
  ASSUME NoProcessEnds
  PROVE  Spec => []UpInv
<1>1. Init => UpInv
  BY DEF Init, UpInv
<1>2. TypeInv /\ UpInv /\ [Next]_vars => UpInv'
  <2> SUFFICES ASSUME TypeInv, UpInv, [Next]_vars
               PROVE  UpInv'
    OBVIOUS
  <2>1. ~(crashes < MaxCrashes)
    BY DEF TypeInv, TypeOK, NoProcessEnds
  <2>2. \A s \in Servers : ~ProcessStep(s)
    BY <2>1 DEF ProcessStep, Crash, SigInt, Exit, Restart, UpInv
  <2>3. UNCHANGED proc
    <3>1. ASSUME NEW c \in Conns, ClientNext(c) PROVE UNCHANGED proc
      BY <3>1 DEF ClientNext, Connect, ClientLogin, ClientChat, ClientLogout, ClientClose, SendRequest
    <3>2. ASSUME NEW s \in Servers, NEW c \in Conns, ServeConn(s, c) PROVE UNCHANGED proc
      BY <3>2 DEF ServeConn, HandlerLogin, HandlerLogout, HandlerDirectChat, HandleClose
    <3>3. ASSUME NEW s \in Servers, LoopStep(s) PROVE UNCHANGED proc
      BY <3>3
      DEF LoopStep, LoginInsert, LoginSubscribe, LoginOnline, LoginQueryOffline, LoginDeleteOffline,
          LoginAck, LogoutUnsubscribe, LogoutOffline, ChatQuery, ChatPublish, ChatStoreOffline,
          CloseErase, CloseUnsubscribe, CloseOffline, DoPendingFunctors, RunFunctor
    <3>4. ASSUME NEW s \in Servers, ObserverStep(s) \/ RedisStep(s) PROVE UNCHANGED proc
      BY <3>4
      DEF ObserverStep, StartObserving, HandlerRedisSubscribeMessage, QueueInLoop, RedisStep
    <3>5. CASE UNCHANGED vars
      BY <3>5 DEF vars
    <3> QED BY <2>2, <3>1, <3>2, <3>3, <3>4, <3>5 DEF Next
  <2> QED BY <2>3 DEF UpInv
<1> QED BY <1>1, <1>2, TypeSafety, PTL DEF Spec

(* The session of u is its entry, its mail the rows and what a login holds. *)
LEMMA ServiceView ==
  ASSUME OneServer, NEW s \in Servers, NEW u
  PROVE  /\ SessionOf(u) = user_conn_map[s][u]
         /\ SessionOf(u)' = user_conn_map'[s][u]
         /\ MailOf(u) = Range(offline_message[u])
                          \cup (IF loop[s].user = u THEN Range(loop[s].rows) ELSE {})
         /\ MailOf(u)' = Range(offline_message'[u])
                          \cup (IF loop'[s].user = u THEN Range(loop'[s].rows) ELSE {})
<1>s. \A r \in Servers : r = s
  BY DEF OneServer
<1>1. SessionOf(u) = user_conn_map[s][u]
  <2> DEFINE bound == {r \in Servers : user_conn_map[r][u] # NoConn}
  <2>1. CASE user_conn_map[s][u] = NoConn
    BY <1>s, <2>1 DEF SessionOf
  <2>2. CASE user_conn_map[s][u] # NoConn
    <3>1. bound = {s}
      BY <1>s, <2>2
    <3>2. (CHOOSE r \in bound : TRUE) = s
      BY <3>1
    <3> QED BY <3>1, <3>2 DEF SessionOf
  <2> QED BY <2>1, <2>2
<1>2. SessionOf(u)' = user_conn_map'[s][u]
  <2>1. CASE user_conn_map'[s][u] = NoConn
    BY <1>s, <2>1 DEF SessionOf
  <2>2. CASE user_conn_map'[s][u] # NoConn
    <3>1. {r \in Servers : user_conn_map'[r][u] # NoConn} = {s}
      BY <1>s, <2>2
    <3>2. (CHOOSE r \in {r \in Servers : user_conn_map'[r][u] # NoConn} : TRUE) = s
      BY <3>1
    <3> QED BY <3>1, <3>2 DEF SessionOf
  <2> QED BY <2>1, <2>2
<1>3. MailOf(u) = Range(offline_message[u])
                    \cup (IF loop[s].user = u THEN Range(loop[s].rows) ELSE {})
  BY <1>s DEF MailOf
<1>4. MailOf(u)' = Range(offline_message'[u])
                    \cup (IF loop'[s].user = u THEN Range(loop'[s].rows) ELSE {})
  BY <1>s DEF MailOf
<1> QED BY <1>1, <1>2, <1>3, <1>4

LEMMA MailSame ==
  ASSUME OneServer, NEW s \in Servers, UNCHANGED offline_message,
         \/ loop'[s].rows = loop[s].rows /\ loop'[s].user = loop[s].user
         \/ loop'[s].rows = <<>> /\ loop[s].rows = <<>>
  PROVE  \A u : MailOf(u)' = MailOf(u)
<1>1. Range(<<>>) = {}
  BY DEF Range
<1> SUFFICES ASSUME NEW u
             PROVE  MailOf(u)' = MailOf(u)
  OBVIOUS
<1>2. /\ MailOf(u) = Range(offline_message[u])
                       \cup (IF loop[s].user = u THEN Range(loop[s].rows) ELSE {})
      /\ MailOf(u)' = Range(offline_message'[u])
                       \cup (IF loop'[s].user = u THEN Range(loop'[s].rows) ELSE {})
  BY ServiceView
<1>3. CASE loop'[s].rows = loop[s].rows /\ loop'[s].user = loop[s].user
  BY <1>2, <1>3
<1>4. CASE loop'[s].rows = <<>> /\ loop[s].rows = <<>>
  BY <1>1, <1>2, <1>4
<1> QED BY <1>3, <1>4

(* Kept mail is in the table, or in the hands of the login that took it out. *)
LEMMA MailPlace ==
  ASSUME OneServer, PlaceInv, NEW s \in Servers, NEW u \in Users
  PROVE  /\ \A m \in MailOf(u) : Stored(m) \/ Read(m)
         /\ loop[s].pc \notin {"login_delete", "login_ack"} /\ offline_message[u] = <<>>
               => MailOf(u) = {}
<1>1. Rows(s)
  BY DEF PlaceInv
<1>2. Range(<<>>) = {}
  BY DEF Range
<1>3. MailOf(u) = Range(offline_message[u])
                    \cup (IF loop[s].user = u THEN Range(loop[s].rows) ELSE {})
  BY ServiceView
<1>4. ASSUME NEW m \in Range(offline_message[u])
      PROVE  Stored(m)
  BY <1>4 DEF Range, Stored
<1>5. ASSUME NEW m \in Range(loop[s].rows), loop[s].user = u
      PROVE  Stored(m) \/ Read(m)
  <2>1. CASE loop[s].pc = "login_delete"
    <3>1. loop[s].rows = offline_message[u]
      BY <1>1, <1>5, <2>1 DEF Rows
    <3> QED BY <1>4, <1>5, <3>1
  <2>2. CASE loop[s].pc = "login_ack"
    BY <1>5, <2>2 DEF Read, Range
  <2>3. CASE loop[s].pc \notin {"login_delete", "login_ack"}
    BY <1>1, <1>2, <1>5, <2>3 DEF Rows
  <2> QED BY <2>1, <2>2, <2>3
<1>6. loop[s].pc \notin {"login_delete", "login_ack"} /\ offline_message[u] = <<>> => MailOf(u) = {}
  BY <1>1, <1>2, <1>3 DEF Rows
<1> QED BY <1>3, <1>4, <1>5, <1>6

(* A message that a request or a handler has is with nobody else. *)
LEMMA StillOnTheWay ==
  ASSUME OneServer, PlaceInv, NEW s \in Servers, NEW m \in Msgs, Asked(m) \/ Handled(m)
  PROVE  Service!OnTheWay(m)
<1>1. ~Unsent(m) /\ ~Stored(m) /\ ~Read(m) /\ ~Given(m)
  BY DEF PlaceInv, OnePlace
<1>2. \A u \in Users : m \notin MailOf(u)
  BY <1>1, MailPlace
<1>3. \A c \in Conns : ~Delivered(c, m)
  BY <1>1 DEF Given
<1> QED BY <1>1, <1>2, <1>3 DEF Service!OnTheWay, Unsent

LEMMA ServiceStutter ==
  ASSUME OneServer, NEW s \in Servers, UNCHANGED msg_to,
         \A u \in Users : user_conn_map'[s][u] = user_conn_map[s][u],
         \A u \in Users : MailOf(u)' = MailOf(u),
         \A c \in Conns, m \in Msgs : Delivered(c, m)' <=> Delivered(c, m)
  PROVE  UNCHANGED Service!vars
<1>1. \A u \in Users : SessionOf(u)' = SessionOf(u)
  BY ServiceView
<1>2. UNCHANGED [u \in Users |-> SessionOf(u)]
  BY <1>1
<1>3. UNCHANGED [u \in Users |-> MailOf(u)]
  OBVIOUS
<1>4. UNCHANGED [c \in Conns |-> {m \in Msgs : Delivered(c, m)}]
  <2>1. \A c \in Conns : {m \in Msgs : Delivered(c, m)'} = {m \in Msgs : Delivered(c, m)}
    OBVIOUS
  <2> QED BY <2>1
<1> QED BY <1>2, <1>3, <1>4 DEF Service!vars

LEMMA ServiceClient ==
  ASSUME OneServer, TypeInv, NEW c \in Conns, ClientNext(c)
  PROVE  [Service!Next]_(Service!vars)
<1>s. PICK s \in Servers : TRUE
  BY DEF TypeInv, TypeOK, ConnStates
<1>1. UNCHANGED <<offline_message, outbox, loop, user_conn_map>>
  BY DEF ClientNext, Connect, ClientLogin, ClientChat, ClientLogout, ClientClose, SendRequest
<1>2. /\ \A u \in Users : user_conn_map'[s][u] = user_conn_map[s][u]
      /\ \A u \in Users : MailOf(u)' = MailOf(u)
      /\ \A d \in Conns, m \in Msgs : Delivered(d, m)' <=> Delivered(d, m)
  BY <1>1, MailSame, SameWrites
<1>3. CASE UNCHANGED msg_to
  BY <1>2, <1>3, ServiceStutter
<1>4. ASSUME NEW u \in Users, NEW m \in Msgs, ClientChat(c, u, m)
      PROVE  Service!Next
  <2>1. /\ UNCHANGED [v \in Users |-> SessionOf(v)] /\ UNCHANGED [v \in Users |-> MailOf(v)]
        /\ UNCHANGED [d \in Conns |-> {n \in Msgs : Delivered(d, n)}]
    <3>1. \A v \in Users : SessionOf(v)' = SessionOf(v)
      BY <1>2, ServiceView
    <3>2. \A d \in Conns : {n \in Msgs : Delivered(d, n)'} = {n \in Msgs : Delivered(d, n)}
      BY <1>2
    <3> QED BY <1>2, <3>1, <3>2
  <2>2. Service!Send(m, u)
    BY <1>4, <2>1 DEF ClientChat, Service!Send
  <2> QED BY <2>2 DEF Service!Next
<1> QED BY <1>3, <1>4 DEF ClientNext, Connect, ClientLogin, ClientLogout, ClientClose

(* What stays the same of the service when the part of the state it is made   *)
(* of does.                                                                   *)
LEMMA ServiceSame ==
  ASSUME OneServer, NEW s \in Servers
  PROVE  /\ (\A u \in Users : user_conn_map'[s][u] = user_conn_map[s][u])
               => UNCHANGED [u \in Users |-> SessionOf(u)]
         /\ (\A u \in Users : MailOf(u)' = MailOf(u)) => UNCHANGED [u \in Users |-> MailOf(u)]
         /\ (\A c \in Conns, m \in Msgs : Delivered(c, m)' <=> Delivered(c, m))
               => UNCHANGED [c \in Conns |-> {m \in Msgs : Delivered(c, m)}]
<1>1. ASSUME \A u \in Users : user_conn_map'[s][u] = user_conn_map[s][u]
      PROVE  UNCHANGED [u \in Users |-> SessionOf(u)]
  <2>1. \A u \in Users : SessionOf(u)' = SessionOf(u)
    BY <1>1, ServiceView
  <2> QED BY <2>1
<1>2. ASSUME \A u \in Users : MailOf(u)' = MailOf(u)
      PROVE  UNCHANGED [u \in Users |-> MailOf(u)]
  BY <1>2
<1>3. ASSUME \A c \in Conns, m \in Msgs : Delivered(c, m)' <=> Delivered(c, m)
      PROVE  UNCHANGED [c \in Conns |-> {m \in Msgs : Delivered(c, m)}]
  <2>1. \A c \in Conns : {m \in Msgs : Delivered(c, m)'} = {m \in Msgs : Delivered(c, m)}
    BY <1>3
  <2> QED BY <2>1
<1> QED BY <1>1, <1>2, <1>3

(* An entry that is erased when there is no mail ends a session. *)
LEMMA ServiceEnd ==
  ASSUME OneServer, TypeInv, NEW s \in Servers, NEW u \in Users, user_conn_map[s][u] # NoConn,
         MailOf(u) = {}, user_conn_map' = [user_conn_map EXCEPT ![s][u] = NoConn],
         UNCHANGED msg_to, \A v \in Users : MailOf(v)' = MailOf(v),
         \A c \in Conns, m \in Msgs : Delivered(c, m)' <=> Delivered(c, m)
  PROVE  Service!Next
<1>t. user_conn_map \in [Servers -> [Users -> Conns \cup {NoConn}]]
  BY DEF TypeInv, TypeOK
<1>1. \A v \in Users : SessionOf(v)' = IF v = u THEN NoConn ELSE SessionOf(v)
  <2>1. \A v \in Users : user_conn_map'[s][v] = IF v = u THEN NoConn ELSE user_conn_map[s][v]
    BY <1>t
  <2> QED BY <2>1, ServiceView
<1>2. [v \in Users |-> SessionOf(v)]' = [[v \in Users |-> SessionOf(v)] EXCEPT ![u] = NoConn]
  BY <1>1
<1>3. SessionOf(u) # NoConn
  BY ServiceView
<1>4. Service!End(u)
  BY <1>2, <1>3, ServiceSame DEF Service!End
<1> QED BY <1>4 DEF Service!Next

LEMMA ServiceServe ==
  ASSUME OneServer, NoDbFaults, TypeInv, SessionInv, PlaceInv, MailInv,
         NEW s \in Servers, NEW c \in Conns, ServeConn(s, c)
  PROVE  [Service!Next]_(Service!vars)
<1>t. /\ loop \in [Servers -> LoopStates] /\ outbox \in [Conns -> Seq(Replies)]
      /\ user_conn_map \in [Servers -> [Users -> Conns \cup {NoConn}]]
  BY DEF TypeInv, TypeOK
<1>1. UNCHANGED <<offline_message, msg_to>> /\ loop[s].pc = "poll"
  BY NoFault DEF ServeConn, HandlerLogin, HandlerLogout, HandlerDirectChat, HandleClose, OnMessage, LoopAt, Query
<1>2. loop[s].rows = <<>>
  BY <1>1 DEF PlaceInv, Rows
<1>3. loop'[s].rows = <<>>
  <2>1. \A pc, d, u, m : Enter(s, pc, d, u, m) => loop'[s].rows = <<>>
    BY <1>t DEF Enter
  <2>2. UNCHANGED loop => loop'[s].rows = <<>>
    BY <1>2
  <2> QED BY <2>1, <2>2 DEF ServeConn, HandlerLogin, HandlerLogout, HandlerDirectChat, HandleClose
<1>4. \A v \in Users : MailOf(v)' = MailOf(v)
  BY <1>1, <1>2, <1>3, MailSame
<1>5. ASSUME NEW u \in Users, user_conn_map[s][u] # NoConn
      PROVE  MailOf(u) = {}
  BY <1>1, <1>5, MailPlace DEF MailInv, MailRead, MailPcs
<1>6. ASSUME NEW u \in Users, NEW pwd \in Passwords, HandlerLogin(s, c, u, pwd)
      PROVE  UNCHANGED Service!vars
  <2>1. \A d \in Conns, m \in Msgs : Delivered(d, m)' <=> Delivered(d, m)
    <3>1. CASE UNCHANGED outbox
      BY <3>1, SameWrites
    <3>2. ASSUME NEW errno \in 0..2, Write(c, Ack(u, errno, <<>>))
          PROVE  \A d \in Conns, m \in Msgs : Delivered(d, m)' <=> Delivered(d, m)
      <4>0. Ack(u, errno, <<>>) \in Replies
        BY DEF Ack, Replies
      <4>1. PICK item \in Replies : item = Ack(u, errno, <<>>)
        BY <4>0
      <4>2. DOMAIN item.msgs = {}
        BY <4>1 DEF Ack
      <4> QED BY <3>2, <4>1, <4>2, WriteDelivers
    <3> QED BY <1>6, <3>1, <3>2 DEF HandlerLogin
  <2>2. UNCHANGED user_conn_map
    BY <1>6 DEF HandlerLogin
  <2> QED BY <1>1, <1>4, <2>1, <2>2, ServiceStutter
<1>7. ASSUME NEW u \in Users, HandlerLogout(s, c, u)
      PROVE  Service!Next
  <2>1. PICK r \in Requests : r = [type |-> "logout", user |-> u]
    BY DEF Requests
  <2>2. OnMessage(s, c, r) /\ r.type = "logout" /\ r.user = u
    BY <1>7, <2>1 DEF HandlerLogout
  <2>3. 1 \in DOMAIN inbox[c] /\ inbox[c][1] = r
    BY <2>2, ReadRequest
  <2>4. user_conn_map[s][u] = c /\ c # NoConn
    BY <2>2, <2>3, SentinelAssumption DEF SessionInv, MenuEntries
  <2>5. UNCHANGED outbox /\ user_conn_map' = [user_conn_map EXCEPT ![s][u] = NoConn]
    BY <1>7 DEF HandlerLogout
  <2> QED BY <1>1, <1>4, <1>5, <2>4, <2>5, SameWrites, ServiceEnd
<1>8. ASSUME NEW u \in Users, NEW m \in Msgs, HandlerDirectChat(s, c, u, m)
      PROVE  [Service!Next]_(Service!vars)
  <2>1. PICK r \in Requests : r = [type |-> "chat", user |-> u, msg |-> m]
    BY DEF Requests
  <2>2. OnMessage(s, c, r) /\ r.type = "chat" /\ r.msg = m /\ r.user = u /\ UNCHANGED user_conn_map
    BY <1>8, <2>1 DEF HandlerDirectChat
  <2>3. msg_to[m] = u
    BY <2>2, ReadChats DEF MailInv, Addressed
  <2>4. Asked(m)
    BY <2>2, ReadChats DEF Asked
  <2>5. CASE UNCHANGED outbox
    BY <1>1, <1>4, <2>2, <2>5, SameWrites, ServiceStutter
  <2>6. CASE user_conn_map[s][u] # NoConn /\ Write(user_conn_map[s][u], Chat(u, m))
    <3>1. PICK d \in Conns : d = user_conn_map[s][u]
      BY <1>t, <2>6
    <3>2. PICK item \in Replies : item = Chat(u, m)
      BY ReplyTypes
    <3>3. item.msgs = <<m>>
      BY <3>2 DEF Chat
    <3>4. \A n : (\E k \in DOMAIN item.msgs : item.msgs[k] = n) <=> n = m
      BY <3>3
    <3>5. CASE conn[d].state # "connected"
      BY <2>5, <2>6, <3>1, <3>5 DEF Write
    <3>6. CASE conn[d].state = "connected"
      <4>1. \A e \in Conns, n \in Msgs : Delivered(e, n)' <=> Delivered(e, n) \/ (e = d /\ n = m)
        BY <2>6, <3>1, <3>2, <3>4, <3>6, WriteDelivers
      <4>2. \A e \in Conns : {n \in Msgs : Delivered(e, n)'} =
               {n \in Msgs : Delivered(e, n)} \cup (IF e = d THEN {m} ELSE {})
        BY <4>1
      <4>3. [e \in Conns |-> {n \in Msgs : Delivered(e, n)}]' =
               [[e \in Conns |-> {n \in Msgs : Delivered(e, n)}] EXCEPT ![d] = @ \cup {m}]
        BY <4>2
      <4>4. SessionOf(u) = d /\ d # NoConn
        BY <2>6, <3>1, ServiceView
      <4>5. Service!OnTheWay(m)
        BY <2>4, StillOnTheWay
      <4>6. MailOf(u) = {}
        BY <1>5, <2>6
      <4>7. UNCHANGED [v \in Users |-> SessionOf(v)] /\ UNCHANGED [v \in Users |-> MailOf(v)]
        BY <1>4, <2>2, ServiceSame
      <4>8. Service!Give(m)
        BY <1>1, <2>3, <4>3, <4>4, <4>5, <4>6, <4>7 DEF Service!Give
      <4> QED BY <4>8 DEF Service!Next
    <3> QED BY <3>5, <3>6
  <2> QED BY <1>8, <2>5, <2>6 DEF HandlerDirectChat
<1>9. ASSUME HandleClose(s, c)
      PROVE  UNCHANGED Service!vars
  <2>1. UNCHANGED <<user_conn_map, outbox>>
    BY <1>9 DEF HandleClose
  <2> QED BY <1>1, <1>4, <2>1, SameWrites, ServiceStutter
<1> QED BY <1>6, <1>7, <1>8, <1>9 DEF ServeConn

LEMMA ServiceLoop ==
  ASSUME OneServer, NoDbFaults, TypeInv, LifeInv, SessionInv, IdleInv, PlaceInv, MailInv,
         NEW s \in Servers, LoopStep(s)
  PROVE  [Service!Next]_(Service!vars)
<1>t. /\ loop \in [Servers -> LoopStates] /\ offline_message \in [Users -> Seq(Msgs)]
      /\ user_conn_map \in [Servers -> [Users -> Conns \cup {NoConn}]]
      /\ functors \in [Servers -> Seq(Functors)] /\ LoopLocals(s)
  BY DEF TypeInv, TypeOK, StoreTypeOK
<1>i. Rows(s) /\ MailRead(s) /\ LoopEntries(s) /\ Addressed
  BY DEF PlaceInv, MailInv, SessionInv
<1>r. Range(<<>>) = {}
  BY DEF Range
<1> USE DEF LoopAt
<1>1. UNCHANGED msg_to
  BY DEF LoopStep, LoginInsert, LoginSubscribe, LoginOnline, LoginQueryOffline, LoginDeleteOffline,
         LoginAck, LogoutUnsubscribe, LogoutOffline, ChatQuery, ChatPublish, ChatStoreOffline,
         CloseErase, CloseUnsubscribe, CloseOffline, DoPendingFunctors, RunFunctor
<1>m. \A v \in Users :
        /\ MailOf(v) = Range(offline_message[v])
                         \cup (IF loop[s].user = v THEN Range(loop[s].rows) ELSE {})
        /\ MailOf(v)' = Range(offline_message'[v])
                         \cup (IF loop'[s].user = v THEN Range(loop'[s].rows) ELSE {})
  BY ServiceView
<1>g. ASSUME NEW pc \in LoopPcs, Goto(s, pc), UNCHANGED <<offline_message, outbox, user_conn_map>>
      PROVE  UNCHANGED Service!vars
  <2>1. \A v \in Users : MailOf(v)' = MailOf(v)
    BY <1>g, <1>t, GotoEffect, MailSame
  <2> QED BY <1>1, <1>g, <2>1, SameWrites, ServiceStutter
<1>b. ASSUME BackToPoll(s), loop[s].pc \notin {"login_delete", "login_ack"},
             UNCHANGED <<offline_message, outbox, user_conn_map>>
      PROVE  UNCHANGED Service!vars
  <2>1. loop'[s].rows = <<>> /\ loop[s].rows = <<>>
    BY <1>b, <1>i, <1>t, PollEffect DEF Polling, Rows
  <2>2. \A v \in Users : MailOf(v)' = MailOf(v)
    BY <1>b, <2>1, MailSame
  <2> QED BY <1>1, <1>b, <2>2, SameWrites, ServiceStutter
<1>3. CASE LoginInsert(s)
  <2>1. PICK c \in Conns, u \in Users : c = loop[s].conn /\ u = loop[s].user
    BY <1>3, <1>t DEF LoginInsert, LoopLocals, LoginPcs
  <2>2. user_conn_map[s][u] = NoConn
    BY <1>3, <1>i, <2>1 DEF LoginInsert, LoopEntries
  <2>3. \A v \in Users : user_conn_map'[s][v] = IF v = u THEN c ELSE user_conn_map[s][v]
    BY <1>3, <1>t, <2>1, <2>2 DEF LoginInsert
  <2>4. \A v \in Users : MailOf(v)' = MailOf(v)
    <3>1. UNCHANGED offline_message /\ Goto(s, "login_subscribe")
      BY <1>3 DEF LoginInsert
    <3> QED BY <1>t, <3>1, GotoEffect, MailSame DEF LoopPcs
  <2>5. \A v \in Users : SessionOf(v)' = IF v = u THEN c ELSE SessionOf(v)
    BY <2>3, ServiceView
  <2>6. [v \in Users |-> SessionOf(v)]' = [[v \in Users |-> SessionOf(v)] EXCEPT ![u] = c]
    BY <2>5
  <2>7. SessionOf(u) = NoConn
    BY <2>2, ServiceView
  <2>8. UNCHANGED [d \in Conns |-> {m \in Msgs : Delivered(d, m)}]
    BY <1>3, SameWrites, ServiceSame DEF LoginInsert
  <2>9. UNCHANGED [v \in Users |-> MailOf(v)]
    BY <2>4, ServiceSame
  <2>10. Service!Begin(u, c)
    BY <1>1, <2>6, <2>7, <2>8, <2>9 DEF Service!Begin
  <2> QED BY <2>10 DEF Service!Next
<1>4. CASE LoginSubscribe(s)
  BY <1>4, <1>g DEF LoginSubscribe, LoopPcs
<1>5. CASE LoginOnline(s)
  BY <1>5, <1>g, NoFault DEF LoginOnline, UpdateState, LoopPcs
<1>6. CASE LoginQueryOffline(s)
  <2>1. PICK u \in Users : u = loop[s].user
    BY <1>6, <1>t DEF LoginQueryOffline, LoopLocals, LoginPcs
  <2>2. /\ \E pc : loop' = [loop EXCEPT ![s].pc = pc, ![s].rows = offline_message[u]]
        /\ UNCHANGED <<offline_message, outbox, user_conn_map>> /\ loop[s].pc = "login_query"
    BY <1>6, <2>1, NoFault DEF LoginQueryOffline, QueryOfflineMessages
  <2>3. loop'[s].rows = offline_message[u] /\ loop'[s].user = u
    BY <1>t, <2>1, <2>2 DEF LoopStates
  <2>4. loop[s].rows = <<>>
    BY <1>i, <2>2 DEF Rows
  <2>5. \A v \in Users : MailOf(v)' = MailOf(v)
    BY <1>m, <1>r, <2>2, <2>3, <2>4
  <2> QED BY <1>1, <2>2, <2>5, SameWrites, ServiceStutter
<1>7. CASE LoginDeleteOffline(s)
  <2>1. PICK u \in Users : u = loop[s].user
    BY <1>7, <1>t DEF LoginDeleteOffline, LoopLocals, LoginPcs
  <2>2. /\ offline_message' = [offline_message EXCEPT ![u] = <<>>]
        /\ UNCHANGED <<outbox, user_conn_map>> /\ loop[s].pc = "login_delete"
    BY <1>7, <2>1, NoFault DEF LoginDeleteOffline, DeleteOfflineMessageByUserId
  <2>3. loop'[s].user = u /\ loop'[s].rows = loop[s].rows
    BY <1>7, <1>t, <2>1, GotoEffect DEF LoginDeleteOffline, LoopPcs
  <2>4. loop[s].rows = offline_message[u]
    BY <1>i, <2>1, <2>2 DEF Rows
  <2>5. \A v \in Users : offline_message'[v] = IF v = u THEN <<>> ELSE offline_message[v]
    BY <1>t, <2>2
  <2>6. ASSUME NEW v \in Users
        PROVE  MailOf(v)' = MailOf(v)
    <3>1. CASE v = u
      <4>1. Range(offline_message'[u]) = {}
        BY <1>r, <2>5
      <4>2. MailOf(u)' = Range(offline_message[u])
        BY <1>m, <2>3, <2>4, <4>1
      <4>3. MailOf(u) = Range(offline_message[u])
        BY <1>m, <2>1, <2>4
      <4> QED BY <3>1, <4>2, <4>3
    <3>2. CASE v # u
      <4>1. offline_message'[v] = offline_message[v]
        BY <2>5, <3>2
      <4>2. MailOf(v) = Range(offline_message[v])
        BY <1>m, <2>1, <3>2
      <4>3. MailOf(v)' = Range(offline_message'[v])
        BY <1>m, <2>3, <3>2
      <4> QED BY <4>1, <4>2, <4>3
    <3> QED BY <3>1, <3>2
  <2> QED BY <1>1, <2>2, <2>6, SameWrites, ServiceStutter
<1>8. CASE LoginAck(s)
  <2>1. PICK c \in Conns, u \in Users : c = loop[s].conn /\ u = loop[s].user
    BY <1>8, <1>t DEF LoginAck, LoopLocals, LoginPcs
  <2>2. PICK item \in Replies : item = Ack(u, 0, loop[s].rows)
    <3>1. loop[s].rows \in Seq(Msgs)
      BY <1>t DEF LoopStates
    <3> QED BY <3>1, ReplyTypes
  <2>3. item.msgs = loop[s].rows
    BY <2>2 DEF Ack
  <2>4. /\ Write(c, item) /\ UNCHANGED <<offline_message, user_conn_map>>
        /\ loop[s].pc = "login_ack" /\ loop'[s].rows = <<>>
    BY <1>8, <1>t, <2>1, <2>2, PollEffect DEF LoginAck, Polling
  <2>5. conn[c].state = "connected"
    BY <2>1, <2>4 DEF LifeInv, Orderly, Stages, LoginPcs
  <2>6. user_conn_map[s][u] = c /\ offline_message[u] = <<>>
    BY <1>i, <2>1, <2>4 DEF LoopEntries, MailRead, LoginPcs
  <2>e. /\ Range(offline_message[u]) = {} /\ Range(offline_message'[u]) = {}
        /\ Range(loop'[s].rows) = {}
    BY <1>r, <2>4, <2>6
  <2>7. MailOf(u) = Range(loop[s].rows)
    BY <1>m, <2>1, <2>e
  <2>8. \A v \in Users : MailOf(v)' = IF v = u THEN {} ELSE MailOf(v)
    <3>1. MailOf(u)' = {}
      BY <1>m, <2>e
    <3>2. \A v \in Users : v # u => MailOf(v)' = MailOf(v)
      BY <1>m, <2>1, <2>4, <2>e
    <3> QED BY <3>1, <3>2
  <2>9. \A m \in Msgs : (\E k \in DOMAIN item.msgs : item.msgs[k] = m) <=> m \in MailOf(u)
    BY <2>3, <2>7 DEF Range
  <2>10. MailOf(u) \subseteq Msgs
    <3>1. loop[s].rows \in Seq(Msgs)
      BY <1>t DEF LoopStates
    <3> QED BY <2>7, <3>1 DEF Range
  <2>11. \A d \in Conns, m \in Msgs :
            Delivered(d, m)' <=> Delivered(d, m) \/ (d = c /\ m \in MailOf(u))
    BY <2>4, <2>5, <2>9, WriteDelivers
  <2>12. \A d \in Conns : {m \in Msgs : Delivered(d, m)'} =
            {m \in Msgs : Delivered(d, m)} \cup (IF d = c THEN MailOf(u) ELSE {})
    BY <2>10, <2>11
  <2>13. [d \in Conns |-> {m \in Msgs : Delivered(d, m)}]' =
            [[d \in Conns |-> {m \in Msgs : Delivered(d, m)}] EXCEPT ![c] = @ \cup MailOf(u)]
    BY <2>12
  <2>14. [v \in Users |-> MailOf(v)]' = [[v \in Users |-> MailOf(v)] EXCEPT ![u] = {}]
    BY <2>8
  <2>15. SessionOf(u) = c /\ c # NoConn
    BY <2>6, ServiceView, SentinelAssumption
  <2>16. UNCHANGED [v \in Users |-> SessionOf(v)]
    BY <2>4, ServiceSame
  <2>17. Service!GiveMail(u)
    BY <1>1, <2>13, <2>14, <2>15, <2>16 DEF Service!GiveMail
  <2> QED BY <2>17 DEF Service!Next
<1>9. CASE LogoutUnsubscribe(s)
  BY <1>9, <1>g DEF LogoutUnsubscribe, LoopPcs
<1>10. CASE LogoutOffline(s)
  BY <1>10, <1>b, NoFault DEF LogoutOffline, SetOffline, UpdateState
<1>11. CASE ChatQuery(s)
  BY <1>11, <1>g, NoFault DEF ChatQuery, Query, LoopPcs
<1>12. CASE ChatPublish(s)
  BY <1>12, <1>b DEF ChatPublish
<1>13. CASE ChatStoreOffline(s)
  <2>1. PICK u \in Users, m \in Msgs : u = loop[s].user /\ m = loop[s].msg
    BY <1>13, <1>t DEF ChatStoreOffline, LoopLocals, ChatPcs
  <2>2. /\ offline_message' = [offline_message EXCEPT ![u] = Append(@, m)]
        /\ UNCHANGED <<outbox, user_conn_map>> /\ loop'[s].rows = <<>>
        /\ loop[s].pc = "chat_store"
    BY <1>13, <1>t, <2>1, NoFault, PollEffect DEF ChatStoreOffline, StoreOfflineMessage, Polling
  <2>3. msg_to[m] = u /\ user_conn_map[s][u] = NoConn /\ loop[s].rows = <<>>
    BY <1>i, <2>1, <2>2 DEF Addressed, LoopEntries, Rows, ChatPcs
  <2>4. Service!OnTheWay(m)
    BY <2>1, StillOnTheWay DEF Handled
  <2>5. \A v \in Users :
          Range(offline_message'[v]) = Range(offline_message[v]) \cup (IF v = u THEN {m} ELSE {})
    <3>1. /\ \A v \in Users : v # u => offline_message'[v] = offline_message[v]
          /\ offline_message'[u] = Append(offline_message[u], m) /\ offline_message[u] \in Seq(Msgs)
      BY <1>t, <2>2
    <3>2. Range(Append(offline_message[u], m)) = Range(offline_message[u]) \cup {m}
      <4>1. PICK q \in Seq(Msgs) : q = offline_message[u]
        BY <3>1
      <4>2. /\ DOMAIN Append(q, m) = 1..(Len(q) + 1) /\ DOMAIN q = 1..Len(q) /\ Len(q) \in Nat
            /\ \A i \in 1..Len(q) : Append(q, m)[i] = q[i]
            /\ Append(q, m)[Len(q) + 1] = m
        BY <4>1
      <4>3. DOMAIN Append(q, m) = DOMAIN q \cup {Len(q) + 1}
        BY <4>2
      <4> QED BY <4>1, <4>2, <4>3 DEF Range
    <3> QED BY <3>1, <3>2
  <2>6. \A v \in Users : MailOf(v)' = MailOf(v) \cup (IF v = u THEN {m} ELSE {})
    BY <1>m, <1>r, <2>2, <2>3, <2>5
  <2>7. [v \in Users |-> MailOf(v)]' = [[v \in Users |-> MailOf(v)] EXCEPT ![u] = @ \cup {m}]
    BY <2>6
  <2>8. SessionOf(u) = NoConn
    BY <2>3, ServiceView
  <2>9. /\ UNCHANGED [v \in Users |-> SessionOf(v)]
        /\ UNCHANGED [d \in Conns |-> {n \in Msgs : Delivered(d, n)}]
    BY <2>2, SameWrites, ServiceSame
  <2>10. Service!Keep(m)
    BY <1>1, <2>3, <2>4, <2>7, <2>8, <2>9 DEF Service!Keep
  <2> QED BY <2>10 DEF Service!Next
<1>14. CASE CloseErase(s)
  <2>1. /\ UNCHANGED <<offline_message, outbox>> /\ loop[s].pc = "close_lock"
        /\ loop'[s].rows = loop[s].rows /\ loop[s].rows = <<>>
    BY <1>14, <1>t, <1>i DEF CloseErase, Goto, LoopStates, Rows
  <2>2. \A v \in Users : MailOf(v)' = MailOf(v)
    BY <2>1, MailSame
  <2>3. CASE UNCHANGED user_conn_map
    BY <1>1, <2>1, <2>2, <2>3, SameWrites, ServiceStutter
  <2>4. ASSUME NEW u \in Users, user_conn_map[s][u] = loop[s].conn,
               user_conn_map' = [user_conn_map EXCEPT ![s][u] = NoConn]
        PROVE  Service!Next
    <3>1. user_conn_map[s][u] # NoConn
      BY <1>t, <2>1, <2>4, SentinelAssumption DEF LoopLocals, ClosePcs
    <3>2. MailOf(u) = {}
      BY <1>i, <2>1, <3>1, MailPlace DEF MailRead, MailPcs
    <3> QED BY <1>1, <2>1, <2>2, <2>4, <3>1, <3>2, SameWrites, ServiceEnd
  <2> QED BY <1>14, <2>3, <2>4 DEF CloseErase
<1>15. CASE CloseUnsubscribe(s)
  BY <1>15, <1>g DEF CloseUnsubscribe, LoopPcs
<1>16. CASE CloseOffline(s)
  BY <1>16, <1>b, NoFault DEF CloseOffline, SetOffline, UpdateState
<1>17. CASE DoPendingFunctors(s)
  BY <1>17, <1>g DEF DoPendingFunctors, LoopPcs
<1>18. CASE RunFunctor(s)
  <2>1. functors[s] # <<>>
    <3>1. due[s] \in 1..Len(functors[s])
      BY <1>18 DEF RunFunctor, TypeInv, DueFunctors
    <3> QED BY <3>1
  <2>2. Head(functors[s]).kind = "destroy"
    <3>1. 1 \in DOMAIN functors[s] /\ functors[s][1] = Head(functors[s])
      BY <1>t, <2>1
    <3> QED BY <3>1 DEF IdleInv, BusIdle
  <2>3. /\ UNCHANGED <<offline_message, outbox, user_conn_map>> /\ loop[s].pc = "functors"
        /\ (loop'[s] = loop[s] \/ BackToPoll(s))
    BY <1>18, <2>2 DEF RunFunctor
  <2>4. CASE loop'[s] = loop[s]
    BY <1>1, <2>3, <2>4, SameWrites, MailSame, ServiceStutter
  <2> QED BY <1>b, <2>3, <2>4
<1> QED
  BY <1>3, <1>4, <1>5, <1>6, <1>7, <1>8, <1>9, <1>10, <1>11, <1>12, <1>13, <1>14, <1>15, <1>16, <1>17, <1>18
  DEF LoopStep

LEMMA ServiceOther ==
  ASSUME OneServer, NoProcessEnds, TypeInv, UpInv, IdleInv, NEW s \in Servers,
         ObserverStep(s) \/ RedisStep(s) \/ ProcessStep(s)
  PROVE  UNCHANGED Service!vars
<1>1. ~ObserverStep(s)
  BY DEF ObserverStep, StartObserving, HandlerRedisSubscribeMessage, QueueInLoop, GetReply, BusIdle,
         IdleInv, Reading
<1>2. ~ProcessStep(s)
  BY DEF ProcessStep, Crash, SigInt, Exit, Restart, UpInv, NoProcessEnds, TypeInv, TypeOK
<1>3. UNCHANGED <<offline_message, user_conn_map, loop, msg_to, outbox>>
  BY <1>1, <1>2 DEF RedisStep
<1> QED BY <1>3, MailSame, SameWrites, ServiceStutter

(* A chat server that is alone, whose process does not end and whose database *)
(* does not fail, implements ChatService: HandlerLogin, HandlerLogout,        *)
(* HandlerDirectChat and ClientCloseException, split at every call another    *)
(* thread can see, are one step of the service each or none, for any number   *)
(* of users, connections and messages and however reads lump requests.        *)
THEOREM ServiceImplemented ==
  ASSUME OneServer, NoDbFaults, NoProcessEnds, Servers # {}
  PROVE  Spec => ImplementsService
<1>1. Init => Service!Init
  <2> SUFFICES ASSUME Init PROVE Service!Init
    OBVIOUS
  <2>s. PICK s \in Servers : TRUE
    OBVIOUS
  <2>1. /\ \A u \in Users : user_conn_map[s][u] = NoConn /\ offline_message[u] = <<>>
        /\ loop[s].rows = <<>> /\ \A c \in Conns : outbox[c] = <<>>
    BY DEF Init, StoreInit, Polling
  <2>2. \A u \in Users : SessionOf(u) = NoConn
    BY <2>1, ServiceView
  <2>3. \A u \in Users : MailOf(u) = {}
    <3>1. Range(<<>>) = {}
      BY DEF Range
    <3> QED BY <2>1, <3>1, ServiceView
  <2>4. \A c \in Conns : {m \in Msgs : Delivered(c, m)} = {}
    BY <2>1 DEF Delivered
  <2>5. msg_to = [m \in Msgs |-> NoUser]
    BY DEF Init
  <2> QED BY <2>2, <2>3, <2>4, <2>5 DEF Service!Init
<1>2. /\ TypeInv /\ LifeInv /\ UpInv /\ SessionInv /\ IdleInv /\ PlaceInv /\ MailInv
      /\ [Next]_vars
      => [Service!Next]_(Service!vars)
  <2> SUFFICES ASSUME TypeInv, LifeInv, UpInv, SessionInv, IdleInv, PlaceInv, MailInv, [Next]_vars
               PROVE  [Service!Next]_(Service!vars)
    OBVIOUS
  <2>s. PICK s \in Servers : TRUE
    OBVIOUS
  <2>1. CASE UNCHANGED vars
    <3>1. UNCHANGED <<offline_message, user_conn_map, loop, msg_to, outbox>>
      BY <2>1 DEF vars
    <3> QED BY <3>1, MailSame, SameWrites, ServiceStutter
  <2> QED BY <2>1, ServiceClient, ServiceServe, ServiceLoop, ServiceOther DEF Next
<1> QED
  BY <1>1, <1>2, TypeSafety, LifeCorrect, UpCorrect, SessionCorrect, IdleCorrect, PlaceCorrect,
     MailCorrect, PTL
  DEF Spec, ImplementsService, Service!Spec

-----------------------------------------------------------------------------
(* Requests read one at a time.  A connection then has one entry, the logout  *)
(* of which reaches the server before the next login from it; that is why no  *)
(* entry outlives its connection, and why no message is given to a dead one.  *)

HasLogin(c) == \E i \in DOMAIN inbox[c] : inbox[c][i].type = "login"
HasLogout(c, u) ==
    \E i \in DOMAIN inbox[c] : inbox[c][i].type = "logout" /\ inbox[c][i].user = u

OneEntry(s) ==
    \A u, v \in Users :
        user_conn_map[s][u] = user_conn_map[s][v] /\ user_conn_map[s][u] # NoConn => u = v

LogoutFirst(s) ==
    \A c \in Conns, u \in Users :
        user_conn_map[s][u] = c /\ (client[c].menu = "login" \/ HasLogin(c)) => HasLogout(c, u)

NewEntry(s) ==
    loop[s].pc = "login_insert" => \A u \in Users : user_conn_map[s][u] # loop[s].conn

OpenEntries(s) ==
    \A u \in Users : user_conn_map[s][u] # NoConn =>
        \/ conn[user_conn_map[s][u]].state = "connected"
        \/ loop[s].pc = "close_lock" /\ loop[s].conn = user_conn_map[s][u]

WholeInv == \A s \in Servers : OneEntry(s) /\ LogoutFirst(s) /\ NewEntry(s) /\ OpenEntries(s)

LEMMA WholeRead ==
  ASSUME WholeRequests, TypeInv, NEW s \in Servers, NEW c \in Conns, NEW r \in Requests,
         OnMessage(s, c, r)
  PROVE  /\ \A d \in Conns : d # c => inbox'[d] = inbox[d]
         /\ \A d \in Conns : HasLogin(d)' => HasLogin(d)
         /\ r.type # "logout" => \A d \in Conns, u \in Users : HasLogout(d, u) => HasLogout(d, u)'
         /\ \A m \in Msgs : Asked(m) => Asked(m)' \/ (r.type = "chat" /\ r.msg = m)
<1>1. PICK n \in 1..MaxRead :
         /\ n <= Len(inbox[c]) /\ Len(inbox'[c]) = Len(inbox[c]) - n
         /\ \A i \in DOMAIN inbox'[c] :
               i + n \in DOMAIN inbox[c] /\ inbox'[c][i] = inbox[c][i + n]
  BY ReadRequest
<1>2. /\ \A d \in Conns : d # c => inbox'[d] = inbox[d]
      /\ inbox[c] \in Seq(Requests) /\ inbox'[c] \in Seq(Requests)
      /\ Len(inbox[c]) > 0 /\ inbox[c][1] = r
  BY ReadRequest
<1>3. n = 1
  BY DEF WholeRequests
<1>4. ASSUME NEW i \in DOMAIN inbox[c], inbox[c][i] # r
      PROVE  \E j \in DOMAIN inbox'[c] : inbox'[c][j] = inbox[c][i]
  <2>1. i \in Nat /\ i > 1 /\ i <= Len(inbox[c])
    BY <1>2, <1>4
  <2>2. i - 1 \in DOMAIN inbox'[c]
    BY <1>1, <1>2, <1>3, <2>1
  <2>3. inbox'[c][i - 1] = inbox[c][i - 1 + 1]
    BY <1>1, <1>3, <2>2
  <2> QED BY <2>1, <2>2, <2>3
<1>5. \A j \in DOMAIN inbox'[c] : \E i \in DOMAIN inbox[c] : inbox'[c][j] = inbox[c][i]
  BY <1>1
<1>6. \A d \in Conns : HasLogin(d)' => HasLogin(d)
  BY <1>2, <1>5 DEF HasLogin
<1>7. ASSUME r.type # "logout", NEW d \in Conns, NEW u \in Users, HasLogout(d, u)
      PROVE  HasLogout(d, u)'
  BY <1>2, <1>4, <1>7 DEF HasLogout
<1>8. ASSUME NEW m \in Msgs, Asked(m)
      PROVE  Asked(m)' \/ (r.type = "chat" /\ r.msg = m)
  <2>0. PICK d \in Conns : \E i \in ChatsIn(d) : inbox[d][i].msg = m
    BY <1>8 DEF Asked
  <2>1. PICK i \in DOMAIN inbox[d] : inbox[d][i].type = "chat" /\ inbox[d][i].msg = m
    BY <2>0 DEF ChatsIn
  <2>2. CASE d # c
    BY <1>2, <2>1, <2>2 DEF Asked, ChatsIn
  <2>3. CASE d = c /\ inbox[c][i] # r
    <3>1. PICK j \in DOMAIN inbox'[c] : inbox'[c][j] = inbox[c][i]
      BY <1>4, <2>1, <2>3
    <3> QED BY <2>1, <2>3, <3>1 DEF Asked, ChatsIn
  <2>4. CASE d = c /\ inbox[c][i] = r
    BY <2>1, <2>4
  <2> QED BY <2>2, <2>3, <2>4
<1> QED BY <1>2, <1>6, <1>7, <1>8

LEMMA WholeSent ==
  ASSUME TypeInv, NEW c \in Conns, NEW r \in Requests,
         inbox' = [inbox EXCEPT ![c] = Append(@, r)]
  PROVE  /\ \A d \in Conns : HasLogin(d)' => HasLogin(d) \/ (d = c /\ r.type = "login")
         /\ \A d \in Conns, u \in Users : HasLogout(d, u) => HasLogout(d, u)'
         /\ r.type = "logout" => HasLogout(c, r.user)'
         /\ \A m \in Msgs : Asked(m) => Asked(m)'
         /\ r.type = "chat" => Asked(r.msg)'
<1>1. /\ \A d \in Conns : d # c => inbox'[d] = inbox[d]
      /\ DOMAIN inbox[c] = 1..Len(inbox[c]) /\ DOMAIN inbox'[c] = 1..(Len(inbox[c]) + 1)
      /\ \A i \in DOMAIN inbox[c] : inbox'[c][i] = inbox[c][i]
      /\ inbox'[c][Len(inbox[c]) + 1] = r
  BY SentRequest
<1>2. Len(inbox[c]) \in Nat
  BY DEF TypeInv, TypeOK
<1>3. Len(inbox[c]) + 1 \in DOMAIN inbox'[c] /\ DOMAIN inbox[c] \subseteq DOMAIN inbox'[c]
  BY <1>1, <1>2
<1>4. \A i \in DOMAIN inbox'[c] : i \in DOMAIN inbox[c] \/ inbox'[c][i] = r
  BY <1>1, <1>2
<1>5. \A d \in Conns : \A i \in DOMAIN inbox[d] : i \in DOMAIN inbox'[d] /\ inbox'[d][i] = inbox[d][i]
  BY <1>1, <1>3
<1>6. \A d \in Conns : HasLogin(d)' => HasLogin(d) \/ (d = c /\ r.type = "login")
  BY <1>1, <1>4 DEF HasLogin
<1>7. \A d \in Conns, u \in Users : HasLogout(d, u) => HasLogout(d, u)'
  BY <1>5 DEF HasLogout
<1>8. r.type = "logout" => HasLogout(c, r.user)'
  BY <1>1, <1>3 DEF HasLogout
<1>9. \A m \in Msgs : Asked(m) => Asked(m)'
  BY <1>5 DEF Asked, ChatsIn
<1>10. r.type = "chat" => Asked(r.msg)'
  BY <1>1, <1>3 DEF Asked, ChatsIn
<1> QED BY <1>6, <1>7, <1>8, <1>9, <1>10

(* A step that leaves the entries and the requests alone. *)
LEMMA WholeFrame ==
  ASSUME OneServer, WholeInv, NEW s \in Servers, UNCHANGED <<user_conn_map, inbox>>,
         \A c \in Conns : client'[c].menu = "login" => client[c].menu = "login",
         loop'[s].pc = "login_insert" => loop[s].pc = "login_insert" /\ loop'[s].conn = loop[s].conn,
         TypeInv, \A c \in Conns : conn[c].state = "connected" => conn'[c].state = "connected",
         loop[s].pc = "close_lock" => loop'[s].pc = "close_lock" /\ loop'[s].conn = loop[s].conn
  PROVE  WholeInv'
<1>s. \A r \in Servers : r = s
  BY DEF OneServer
<1>t. user_conn_map \in [Servers -> [Users -> Conns \cup {NoConn}]]
  BY DEF TypeInv, TypeOK
<1>1. OneEntry(s) /\ LogoutFirst(s) /\ NewEntry(s) /\ OpenEntries(s)
  BY DEF WholeInv
<1>2. OneEntry(s)' /\ NewEntry(s)'
  BY <1>1 DEF OneEntry, NewEntry
<1>3. LogoutFirst(s)'
  BY <1>1 DEF LogoutFirst, HasLogin, HasLogout
<1>4. OpenEntries(s)'
  BY <1>1, <1>t DEF OpenEntries
<1> QED BY <1>s, <1>2, <1>3, <1>4 DEF WholeInv

LEMMA WholeClient ==
  ASSUME OneServer, TypeInv, LifeInv, SessionInv, WholeInv, NEW c \in Conns, ClientNext(c)
  PROVE  WholeInv'
<1>s. PICK s \in Servers : \A r \in Servers : r = s
  BY DEF OneServer, TypeInv, TypeOK, ConnStates
<1>t. /\ client \in [Conns -> ClientStates] /\ conn \in [Conns -> ConnStates]
      /\ user_conn_map \in [Servers -> [Users -> Conns \cup {NoConn}]]
  BY DEF TypeInv, TypeOK
<1>i. OneEntry(s) /\ LogoutFirst(s) /\ NewEntry(s) /\ OpenEntries(s)
  BY DEF WholeInv
<1>1. UNCHANGED <<user_conn_map, loop>>
  BY DEF ClientNext, Connect, ClientLogin, ClientChat, ClientLogout, ClientClose, SendRequest
<1>2. OneEntry(s)' /\ NewEntry(s)'
  BY <1>1, <1>i DEF OneEntry, NewEntry
<1>3. CASE Connect(c)
  <2>1. /\ conn' = [conn EXCEPT ![c].state = "connected"] /\ UNCHANGED inbox
        /\ client' = [client EXCEPT ![c].menu = "login"] /\ client[c].menu = "none"
    BY <1>3 DEF Connect
  <2>2. conn[c].state = "none"
    BY <2>1 DEF LifeInv, Unconnected
  <2>3. \A u \in Users : user_conn_map[s][u] # c
    <3>1. loop[s].pc = "close_lock" => loop[s].conn # c
      BY <2>2 DEF LifeInv, Orderly, Stages, ClosePcs
    <3>2. c # NoConn
      BY SentinelAssumption
    <3> QED BY <1>i, <2>2, <3>1, <3>2 DEF OpenEntries
  <2>4. \A d \in Conns : d # c => client'[d] = client[d] /\ conn'[d] = conn[d]
    BY <1>t, <2>1
  <2>5. LogoutFirst(s)'
    BY <1>1, <1>i, <2>1, <2>3, <2>4 DEF LogoutFirst, HasLogin, HasLogout
  <2>6. OpenEntries(s)'
    BY <1>1, <1>i, <1>t, <2>3, <2>4 DEF OpenEntries
  <2> QED BY <1>s, <1>2, <2>5, <2>6 DEF WholeInv
<1>c. ASSUME UNCHANGED conn PROVE OpenEntries(s)'
  BY <1>1, <1>c, <1>i DEF OpenEntries
<1>4. ASSUME NEW u \in Users, NEW pwd \in Passwords, ClientLogin(c, u, pwd)
      PROVE  WholeInv'
  <2>1. PICK r \in Requests : r = [type |-> "login", user |-> u, pwd |-> pwd]
    BY DEF Requests
  <2>2. /\ inbox' = [inbox EXCEPT ![c] = Append(@, r)] /\ UNCHANGED conn
        /\ client[c].menu = "login" /\ client' = [client EXCEPT ![c].menu = "waiting"]
    BY <1>4, <2>1 DEF ClientLogin, SendRequest
  <2>3. \A d \in Conns : client'[d].menu = "login" => client[d].menu = "login"
    BY <1>t, <2>2 DEF ClientStates
  <2>4. /\ \A d \in Conns : HasLogin(d)' => HasLogin(d) \/ d = c
        /\ \A d \in Conns, v \in Users : HasLogout(d, v) => HasLogout(d, v)'
    BY <2>2, WholeSent
  <2>5. LogoutFirst(s)'
    BY <1>1, <1>i, <2>2, <2>3, <2>4 DEF LogoutFirst
  <2> QED BY <1>s, <1>2, <1>c, <2>2, <2>5 DEF WholeInv
<1>5. ASSUME NEW u \in Users, NEW m \in Msgs, ClientChat(c, u, m)
      PROVE  WholeInv'
  <2>1. PICK r \in Requests : r = [type |-> "chat", user |-> u, msg |-> m]
    BY DEF Requests
  <2>2. inbox' = [inbox EXCEPT ![c] = Append(@, r)] /\ UNCHANGED <<conn, client>> /\ r.type = "chat"
    BY <1>5, <2>1 DEF ClientChat, SendRequest
  <2>3. /\ \A d \in Conns : HasLogin(d)' => HasLogin(d)
        /\ \A d \in Conns, v \in Users : HasLogout(d, v) => HasLogout(d, v)'
    BY <2>2, WholeSent
  <2>4. LogoutFirst(s)'
    BY <1>1, <1>i, <2>2, <2>3 DEF LogoutFirst
  <2> QED BY <1>s, <1>2, <1>c, <2>2, <2>4 DEF WholeInv
<1>6. CASE ClientLogout(c)
  <2>0. PICK u \in Users : u = client[c].user /\ client[c].menu = "main"
    BY <1>6 DEF ClientLogout, TypeInv, ClientLocals
  <2>1. PICK r \in Requests : r = [type |-> "logout", user |-> u]
    BY DEF Requests
  <2>2. /\ inbox' = [inbox EXCEPT ![c] = Append(@, r)] /\ UNCHANGED conn
        /\ r.type = "logout" /\ r.user = u
        /\ client' = [client EXCEPT ![c] = [menu |-> "login", user |-> NoUser]]
    BY <1>6, <2>0, <2>1 DEF ClientLogout, SendRequest
  <2>3. \A d \in Conns : d # c => client'[d] = client[d]
    BY <1>t, <2>2
  <2>4. /\ \A d \in Conns : HasLogin(d)' => HasLogin(d)
        /\ \A d \in Conns, v \in Users : HasLogout(d, v) => HasLogout(d, v)'
        /\ HasLogout(c, u)'
    BY <2>2, WholeSent
  <2>5. \A v \in Users : user_conn_map[s][v] = c => v = u
    <3>1. user_conn_map[s][u] = c /\ c # NoConn
      BY <2>0, SentinelAssumption DEF SessionInv, MenuEntries
    <3> QED BY <1>i, <3>1 DEF OneEntry
  <2>6. LogoutFirst(s)'
    BY <1>1, <1>i, <2>3, <2>4, <2>5 DEF LogoutFirst
  <2> QED BY <1>s, <1>2, <1>c, <2>2, <2>6 DEF WholeInv
<1>7. CASE ClientClose(c)
  <2>1. \A d \in Conns : client'[d].menu = "login" => client[d].menu = "login"
    BY <1>7, <1>t DEF ClientClose
  <2>2. /\ \A d \in Conns : d # c => inbox'[d] = inbox[d]
        /\ \A i \in DOMAIN inbox'[c] : i \in DOMAIN inbox[c] /\ inbox'[c][i] = inbox[c][i]
        /\ Len(inbox[c]) \in DOMAIN inbox'[c] => inbox'[c] = inbox[c]
    BY <1>7, CutRequests
  <2>3. client'[c].menu # "login" /\ UNCHANGED conn
    BY <1>7, <1>t DEF ClientClose
  <2>4. HasLogin(c)' => inbox'[c] = inbox[c]
    BY <2>2 DEF HasLogin, SessionInv, Asks
  <2>5. LogoutFirst(s)'
    BY <1>1, <1>i, <2>1, <2>2, <2>3, <2>4 DEF LogoutFirst, HasLogin, HasLogout
  <2> QED BY <1>s, <1>2, <1>c, <2>3, <2>5 DEF WholeInv
<1> QED BY <1>3, <1>4, <1>5, <1>6, <1>7 DEF ClientNext

LEMMA WholeServe ==
  ASSUME OneServer, NoDbFaults, WholeRequests, TypeInv, SessionInv, WholeInv,
         NEW s \in Servers, NEW c \in Conns, ServeConn(s, c)
  PROVE  WholeInv'
<1>s. \A r \in Servers : r = s
  BY DEF OneServer
<1>t. /\ client \in [Conns -> ClientStates] /\ conn \in [Conns -> ConnStates]
      /\ loop \in [Servers -> LoopStates]
      /\ user_conn_map \in [Servers -> [Users -> Conns \cup {NoConn}]]
  BY DEF TypeInv, TypeOK
<1>i. OneEntry(s) /\ LogoutFirst(s) /\ NewEntry(s) /\ OpenEntries(s)
  BY DEF WholeInv
<1>1. loop[s].pc = "poll"
  BY DEF ServeConn, HandlerLogin, HandlerLogout, HandlerDirectChat, HandleClose, OnMessage, LoopAt
<1>2. \A u \in Users : user_conn_map[s][u] # NoConn => conn[user_conn_map[s][u]].state = "connected"
  BY <1>1, <1>i DEF OpenEntries
<1>3. ASSUME NEW u \in Users, NEW pwd \in Passwords, HandlerLogin(s, c, u, pwd)
      PROVE  WholeInv'
  <2>1. PICK r \in Requests : r = [type |-> "login", user |-> u, pwd |-> pwd]
    BY DEF Requests
  <2>2. OnMessage(s, c, r) /\ r.type = "login" /\ UNCHANGED <<user_conn_map, conn>>
    BY <1>3, <2>1 DEF HandlerLogin
  <2>3. /\ inbox'[c] = <<>> /\ \A d \in Conns : d # c => inbox'[d] = inbox[d]
        /\ Len(inbox[c]) = 1 /\ inbox[c][1] = r /\ inbox[c] \in Seq(Requests)
    BY <2>2, ReadLogin, ReadRequest
  <2>4. \A v \in Users : user_conn_map[s][v] # c
    <3>1. DOMAIN inbox[c] = {1}
      BY <2>3
    <3>2. HasLogin(c) /\ \A v \in Users : ~HasLogout(c, v)
      BY <2>2, <2>3, <3>1 DEF HasLogin, HasLogout
    <3> QED BY <1>i, <3>2 DEF LogoutFirst
  <2>5. \A d \in Conns : d # c => client'[d] = client[d]
    BY <1>3, <1>t DEF HandlerLogin, Answer
  <2>6. LogoutFirst(s)'
    BY <1>i, <2>2, <2>3, <2>4, <2>5 DEF LogoutFirst, HasLogin, HasLogout
  <2>7. loop'[s].pc \in {"poll", "login_insert"} /\ (loop'[s].pc = "login_insert" => loop'[s].conn = c)
    BY <1>3, <1>1, <1>t DEF HandlerLogin, Enter
  <2>8. OneEntry(s)' /\ NewEntry(s)' /\ OpenEntries(s)'
    BY <1>2, <1>i, <2>2, <2>4, <2>7 DEF OneEntry, NewEntry, OpenEntries
  <2> QED BY <1>s, <2>6, <2>8 DEF WholeInv
<1>4. ASSUME NEW u \in Users, HandlerLogout(s, c, u)
      PROVE  WholeInv'
  <2>1. PICK r \in Requests : r = [type |-> "logout", user |-> u]
    BY DEF Requests
  <2>2. /\ OnMessage(s, c, r) /\ r.type = "logout" /\ r.user = u /\ UNCHANGED <<client, conn>>
        /\ user_conn_map' = [user_conn_map EXCEPT ![s][u] = NoConn]
    BY <1>4, <2>1 DEF HandlerLogout
  <2>3. 1 \in DOMAIN inbox[c] /\ inbox[c][1] = r
    BY <2>2, ReadRequest
  <2>4. user_conn_map[s][u] = c /\ c # NoConn
    BY <2>2, <2>3, SentinelAssumption DEF SessionInv, MenuEntries
  <2>5. \A v \in Users : /\ user_conn_map'[s][v] = (IF v = u THEN NoConn ELSE user_conn_map[s][v])
                         /\ user_conn_map'[s][v] # c
    BY <1>i, <1>t, <2>2, <2>4 DEF OneEntry
  <2>6. \A d \in Conns : d # c => inbox'[d] = inbox[d]
    BY <2>2, WholeRead
  <2>7. \A d \in Conns : d # NoConn
    BY SentinelAssumption
  <2>8. LogoutFirst(s)'
    BY <1>i, <2>2, <2>5, <2>6, <2>7 DEF LogoutFirst, HasLogin, HasLogout
  <2>9. loop'[s].pc = "logout_unsubscribe"
    BY <1>4, <1>t DEF HandlerLogout, Enter
  <2>10. OneEntry(s)' /\ NewEntry(s)' /\ OpenEntries(s)'
    BY <1>2, <1>i, <2>2, <2>5, <2>9 DEF OneEntry, NewEntry, OpenEntries
  <2> QED BY <1>s, <2>8, <2>10 DEF WholeInv
<1>5. ASSUME NEW u \in Users, NEW m \in Msgs, HandlerDirectChat(s, c, u, m)
      PROVE  WholeInv'
  <2>1. PICK r \in Requests : r = [type |-> "chat", user |-> u, msg |-> m]
    BY DEF Requests
  <2>2. OnMessage(s, c, r) /\ r.type = "chat" /\ UNCHANGED <<client, conn, user_conn_map>>
    BY <1>5, <2>1 DEF HandlerDirectChat
  <2>3. /\ \A d \in Conns : HasLogin(d)' => HasLogin(d)
        /\ \A d \in Conns, v \in Users : HasLogout(d, v) => HasLogout(d, v)'
    BY <2>2, WholeRead
  <2>4. LogoutFirst(s)'
    BY <1>i, <2>2, <2>3 DEF LogoutFirst
  <2>5. loop'[s].pc \in {"poll", "chat_query"}
    BY <1>5, <1>1, <1>t DEF HandlerDirectChat, Enter
  <2>6. OneEntry(s)' /\ NewEntry(s)' /\ OpenEntries(s)'
    BY <1>2, <1>i, <2>2, <2>5 DEF OneEntry, NewEntry, OpenEntries
  <2> QED BY <1>s, <2>4, <2>6 DEF WholeInv
<1>6. ASSUME HandleClose(s, c)
      PROVE  WholeInv'
  <2>1. UNCHANGED <<client, inbox, user_conn_map>> /\ \A d \in Conns : d # c => conn'[d] = conn[d]
    BY <1>6, <1>t DEF HandleClose
  <2>2. loop'[s].pc = "close_lock" /\ loop'[s].conn = c
    BY <1>6, <1>t DEF HandleClose, Enter
  <2>3. OpenEntries(s)'
    BY <1>2, <1>t, <2>1, <2>2 DEF OpenEntries
  <2>4. OneEntry(s)' /\ NewEntry(s)' /\ LogoutFirst(s)'
    BY <1>i, <2>1, <2>2 DEF OneEntry, NewEntry, LogoutFirst, HasLogin, HasLogout
  <2> QED BY <1>s, <2>3, <2>4 DEF WholeInv
<1> QED BY <1>3, <1>4, <1>5, <1>6 DEF ServeConn

LEMMA WholeLoop ==
  ASSUME OneServer, TypeInv, LifeInv, SessionInv, WholeInv, NEW s \in Servers, LoopStep(s)
  PROVE  WholeInv'
<1>s. \A r \in Servers : r = s
  BY DEF OneServer
<1>t. /\ client \in [Conns -> ClientStates] /\ conn \in [Conns -> ConnStates]
      /\ loop \in [Servers -> LoopStates] /\ LoopLocals(s)
      /\ user_conn_map \in [Servers -> [Users -> Conns \cup {NoConn}]]
      /\ functors \in [Servers -> Seq(Functors)]
  BY DEF TypeInv, TypeOK
<1>i. OneEntry(s) /\ LogoutFirst(s) /\ NewEntry(s) /\ OpenEntries(s)
  BY DEF WholeInv
<1> USE DEF LoopAt
<1>f. ASSUME UNCHANGED <<user_conn_map, inbox, conn>>,
             \A c \in Conns : client'[c].menu = "login" => client[c].menu = "login",
             loop'[s].pc # "login_insert", loop[s].pc # "close_lock"
      PROVE  WholeInv'
  BY <1>f, WholeFrame
<1>g. ASSUME NEW pc \in LoopPcs, Goto(s, pc), pc # "login_insert", loop[s].pc # "close_lock",
             UNCHANGED <<user_conn_map, inbox, conn, client>>
      PROVE  WholeInv'
  BY <1>f, <1>g, <1>t, GotoEffect
<1>b. ASSUME BackToPoll(s), loop[s].pc # "close_lock", UNCHANGED <<user_conn_map, inbox, conn, client>>
      PROVE  WholeInv'
  BY <1>b, <1>f, <1>t, PollEffect
<1>1. CASE LoginInsert(s)
  <2>1. PICK c \in Conns, u \in Users : c = loop[s].conn /\ u = loop[s].user
    BY <1>1, <1>t DEF LoginInsert, LoopLocals, LoginPcs
  <2>2. /\ loop[s].pc = "login_insert" /\ UNCHANGED <<client, conn, inbox>>
        /\ Goto(s, "login_subscribe")
    BY <1>1 DEF LoginInsert
  <2>3. user_conn_map[s][u] = NoConn
    BY <2>1, <2>2 DEF SessionInv, LoopEntries
  <2>4. \A v \in Users : user_conn_map'[s][v] = IF v = u THEN c ELSE user_conn_map[s][v]
    BY <1>1, <1>t, <2>1, <2>3 DEF LoginInsert
  <2>5. \A v \in Users : user_conn_map[s][v] # c
    BY <1>i, <2>1, <2>2 DEF NewEntry
  <2>6. inbox[c] = <<>> /\ client[c].menu # "login"
    BY <2>1, <2>2 DEF SessionInv, Serves, LoginPcs
  <2>7. LogoutFirst(s)'
    BY <1>i, <2>2, <2>4, <2>5, <2>6 DEF LogoutFirst, HasLogin, HasLogout
  <2>8. loop'[s].pc = "login_subscribe"
    BY <1>t, <2>2, GotoEffect DEF LoopPcs
  <2>9. OneEntry(s)' /\ NewEntry(s)'
    BY <1>i, <2>4, <2>5, <2>8 DEF OneEntry, NewEntry
  <2>10. conn[c].state = "connected"
    BY <2>1, <2>2 DEF LifeInv, Orderly, Stages, LoginPcs
  <2>11. OpenEntries(s)'
    BY <1>i, <2>2, <2>4, <2>10 DEF OpenEntries
  <2> QED BY <1>s, <2>7, <2>9, <2>11 DEF WholeInv
<1>2. CASE LoginSubscribe(s)
  BY <1>2, <1>g DEF LoginSubscribe, LoopPcs
<1>3. CASE LoginOnline(s)
  BY <1>3, <1>g DEF LoginOnline, LoopPcs
<1>4. CASE LoginQueryOffline(s)
  <2>1. loop'[s].pc # "login_insert"
    BY <1>4, <1>t DEF LoginQueryOffline, LoopStates
  <2> QED BY <1>4, <1>f, <2>1 DEF LoginQueryOffline
<1>5. CASE LoginDeleteOffline(s)
  BY <1>5, <1>g DEF LoginDeleteOffline, LoopPcs
<1>6. CASE LoginAck(s)
  <2>1. loop'[s].pc = "poll"
    BY <1>6, <1>t, PollEffect DEF LoginAck
  <2>2. \A c \in Conns : client'[c].menu = "login" => client[c].menu = "login"
    BY <1>6, <1>t DEF LoginAck, Answer
  <2> QED BY <1>6, <1>f, <2>1, <2>2 DEF LoginAck
<1>7. CASE LogoutUnsubscribe(s)
  BY <1>7, <1>g DEF LogoutUnsubscribe, LoopPcs
<1>8. CASE LogoutOffline(s)
  BY <1>8, <1>b DEF LogoutOffline
<1>9. CASE ChatQuery(s)
  BY <1>9, <1>g DEF ChatQuery, LoopPcs
<1>10. CASE ChatPublish(s)
  BY <1>10, <1>b DEF ChatPublish
<1>11. CASE ChatStoreOffline(s)
  BY <1>11, <1>b DEF ChatStoreOffline
<1>12. CASE CloseErase(s)
  <2>1. PICK c \in Conns : c = loop[s].conn
    BY <1>12, <1>t DEF CloseErase, LoopLocals, ClosePcs
  <2>2. UNCHANGED <<client, conn, inbox>> /\ loop[s].pc = "close_lock"
    BY <1>12 DEF CloseErase
  <2>3. loop'[s].pc = "close_unsubscribe"
    BY <1>12, <1>t DEF CloseErase, Goto, LoopStates
  <2>4. \A v \in Users : user_conn_map'[s][v] = IF user_conn_map[s][v] = c THEN NoConn ELSE user_conn_map[s][v]
    <3>1. CASE UNCHANGED user_conn_map /\ {v \in Users : user_conn_map[s][v] = c} = {}
      BY <3>1
    <3>2. ASSUME NEW u \in Users, user_conn_map[s][u] = c,
                 user_conn_map' = [user_conn_map EXCEPT ![s][u] = NoConn]
          PROVE  \A v \in Users :
                   user_conn_map'[s][v] = IF user_conn_map[s][v] = c THEN NoConn ELSE user_conn_map[s][v]
      <4>1. \A v \in Users : user_conn_map'[s][v] = IF v = u THEN NoConn ELSE user_conn_map[s][v]
        BY <1>t, <3>2
      <4>2. \A v \in Users : user_conn_map[s][v] = c => v = u
        BY <1>i, <3>2, SentinelAssumption DEF OneEntry
      <4> QED BY <3>2, <4>1, <4>2
    <3> QED BY <1>12, <2>1, <3>1, <3>2 DEF CloseErase
  <2>5. \A d \in Conns : d # NoConn
    BY SentinelAssumption
  <2>6. LogoutFirst(s)'
    BY <1>i, <2>2, <2>4, <2>5 DEF LogoutFirst, HasLogin, HasLogout
  <2>7. OneEntry(s)' /\ NewEntry(s)' /\ OpenEntries(s)'
    BY <1>i, <2>1, <2>2, <2>3, <2>4 DEF OneEntry, NewEntry, OpenEntries
  <2> QED BY <1>s, <2>6, <2>7 DEF WholeInv
<1>13. CASE CloseUnsubscribe(s)
  BY <1>13, <1>g DEF CloseUnsubscribe, LoopPcs
<1>14. CASE CloseOffline(s)
  BY <1>14, <1>b DEF CloseOffline
<1>15. CASE DoPendingFunctors(s)
  BY <1>15, <1>g DEF DoPendingFunctors, LoopPcs
<1>16. CASE RunFunctor(s)
  <2>1. /\ loop[s].pc = "functors" /\ UNCHANGED <<user_conn_map, inbox, client>>
        /\ loop'[s] = loop[s] \/ BackToPoll(s)
    BY <1>16 DEF RunFunctor
  <2>2. loop'[s].pc \in {"functors", "poll"}
    BY <1>t, <2>1, PollEffect
  <2>3. \A c \in Conns : conn[c].state = "connected" => conn'[c].state = "connected"
    <3>1. CASE UNCHANGED conn
      BY <3>1
    <3>2. CASE /\ Head(functors[s]).kind = "destroy"
               /\ conn' = [conn EXCEPT ![Head(functors[s]).conn].state = "destroyed"]
      <4>1. functors[s] # <<>>
        <5>1. due[s] \in 1..Len(functors[s])
          BY <1>16 DEF RunFunctor, TypeInv, DueFunctors
        <5> QED BY <5>1
      <4>2. 1 \in DOMAIN functors[s] /\ functors[s][1] = Head(functors[s])
        BY <1>t, <4>1
      <4>3. conn[Head(functors[s]).conn].state # "connected"
        BY <3>2, <4>2 DEF LifeInv, Orderly, Stages, Destroys
      <4> QED BY <1>t, <3>2, <4>3 DEF ConnStates
    <3> QED BY <1>16, <3>1, <3>2 DEF RunFunctor
  <2> QED BY <2>1, <2>2, <2>3, WholeFrame
<1> QED
  BY <1>1, <1>2, <1>3, <1>4, <1>5, <1>6, <1>7, <1>8, <1>9, <1>10, <1>11, <1>12, <1>13, <1>14, <1>15, <1>16
  DEF LoopStep

LEMMA WholeOther ==
  ASSUME OneServer, TypeInv, WholeInv, NEW s \in Servers,
         ObserverStep(s) \/ RedisStep(s) \/ ProcessStep(s)
  PROVE  WholeInv'
<1>s. \A r \in Servers : r = s
  BY DEF OneServer
<1>1. CASE UNCHANGED <<user_conn_map, inbox, client, loop, conn>>
  BY <1>1, WholeFrame
<1>2. CASE EndProcess(s)
  <2>1. loop'[s].pc = "poll" /\ \A u \in Users : user_conn_map'[s][u] = NoConn
    BY <1>2 DEF EndProcess, TypeInv, TypeOK, Polling
  <2> QED BY <1>s, <2>1, SentinelAssumption DEF WholeInv, OneEntry, LogoutFirst, NewEntry, OpenEntries
<1> QED
  BY <1>1, <1>2
  DEF ObserverStep, StartObserving, HandlerRedisSubscribeMessage, QueueInLoop, RedisStep, ProcessStep,
      Crash, SigInt, Exit, Restart

LEMMA WholeCorrect ==
  ASSUME OneServer, NoDbFaults, WholeRequests
  PROVE  Spec => []WholeInv
<1>1. Init => WholeInv
  <2> SUFFICES ASSUME Init PROVE WholeInv
    OBVIOUS
  <2>1. \A s \in Servers : loop[s].pc = "poll" /\ \A u \in Users : user_conn_map[s][u] = NoConn
    BY DEF Init, Polling
  <2> QED BY <2>1, SentinelAssumption DEF WholeInv, OneEntry, LogoutFirst, NewEntry, OpenEntries
<1>2. TypeInv /\ LifeInv /\ SessionInv /\ WholeInv /\ [Next]_vars => WholeInv'
  <2> SUFFICES ASSUME TypeInv, LifeInv, SessionInv, WholeInv, [Next]_vars
               PROVE  WholeInv'
    OBVIOUS
  <2>1. CASE UNCHANGED vars
    BY <2>1
    DEF vars, WholeInv, OneEntry, LogoutFirst, NewEntry, OpenEntries, HasLogin, HasLogout
  <2> QED BY <2>1, WholeClient, WholeServe, WholeLoop, WholeOther DEF Next
<1> QED BY <1>1, <1>2, TypeSafety, LifeCorrect, SessionCorrect, PTL DEF Spec

(* A server that is alone and reads requests one at a time keeps no entry of  *)
(* a connection that is gone, although ClientCloseException erases the first  *)
(* entry it finds and stops: there is only one, through crashes and restarts  *)
(* too.  When requests are read together a dropped logout breaks this (run    *)
(* dead_entry).                                                               *)
THEOREM EntriesOpenAlone ==
  ASSUME OneServer, NoDbFaults, WholeRequests
  PROVE  Spec => []EntriesAreOpen
<1>1. WholeInv => EntriesAreOpen
  BY DEF WholeInv, OpenEntries, EntriesAreOpen
<1> QED BY <1>1, WholeCorrect, PTL

-----------------------------------------------------------------------------
(* No message is lost.  The places of PlaceInv are all the places there are,  *)
(* and HandlerDirectChat never publishes: a row that says online belongs to a *)
(* user with an entry, which is where the handler looked first.               *)

Kept(m) == m \in lost \/ Unsent(m) \/ Asked(m) \/ Handled(m) \/ Stored(m) \/ Read(m) \/ Given(m)
KeptInv == \A m \in Msgs : Kept(m)

NoneAbandoned == abandoned = {}

LEMMA AbandonedCorrect ==
  ASSUME NoDbFaults, NoProcessEnds
  PROVE  Spec => []NoneAbandoned
<1>1. Init => NoneAbandoned
  BY DEF Init, NoneAbandoned
<1>2. TypeInv /\ UpInv /\ NoneAbandoned /\ [Next]_vars => NoneAbandoned'
  <2> SUFFICES ASSUME TypeInv, UpInv, NoneAbandoned, [Next]_vars
               PROVE  abandoned' \subseteq abandoned
    BY DEF NoneAbandoned
  <2>1. \A s \in Servers : ~ProcessStep(s)
    BY DEF ProcessStep, Crash, SigInt, Exit, Restart, UpInv, NoProcessEnds, TypeInv, TypeOK
  <2>2. ASSUME NEW c \in Conns, ClientNext(c) PROVE UNCHANGED abandoned
    BY <2>2 DEF ClientNext, Connect, ClientLogin, ClientChat, ClientLogout, ClientClose, SendRequest
  <2>3. ASSUME NEW s \in Servers, NEW c \in Conns, ServeConn(s, c) PROVE UNCHANGED abandoned
    BY <2>3 DEF ServeConn, HandlerLogin, HandlerLogout, HandlerDirectChat, HandleClose
  <2>4. ASSUME NEW s \in Servers, LoopStep(s) PROVE abandoned' \subseteq abandoned
    BY <2>4, NoFault
    DEF LoopStep, LoginInsert, LoginSubscribe, LoginOnline, LoginQueryOffline, LoginDeleteOffline,
        LoginAck, LogoutUnsubscribe, LogoutOffline, ChatQuery, ChatPublish, ChatStoreOffline,
        CloseErase, CloseUnsubscribe, CloseOffline, DoPendingFunctors, RunFunctor, SetOffline
  <2>5. ASSUME NEW s \in Servers, ObserverStep(s) \/ RedisStep(s) PROVE UNCHANGED abandoned
    BY <2>5 DEF ObserverStep, StartObserving, HandlerRedisSubscribeMessage, QueueInLoop, RedisStep
  <2>6. CASE UNCHANGED vars
    BY <2>6 DEF vars
  <2> QED BY <2>1, <2>2, <2>3, <2>4, <2>5, <2>6 DEF Next
<1> QED BY <1>1, <1>2, TypeSafety, UpCorrect, PTL DEF Spec

(* The chat handler never finds the row of a user without an entry online. *)
LEMMA NeverPublishes ==
  ASSUME OneServer, TypeInv, UpInv, SessionInv, IdleInv, NoneAbandoned, OnlineRowsOwned,
         NEW s \in Servers
  PROVE  loop[s].pc # "chat_publish"
<1> SUFFICES ASSUME loop[s].pc = "chat_publish" PROVE FALSE
  OBVIOUS
<1>s. \A r \in Servers : r = s
  BY DEF OneServer
<1>1. PICK u \in Users : u = loop[s].user
  BY DEF TypeInv, LoopLocals, ChatPcs
<1>2. proc[s] # "exiting"
  BY DEF UpInv
<1>3. user_state[u] = "online"
  BY <1>1, <1>2 DEF IdleInv, RowsSettled
<1>4. user_conn_map[s][u] = NoConn
  BY <1>1 DEF SessionInv, LoopEntries, ChatPcs
<1>5. Owns(s, u)
  BY <1>s, <1>3 DEF OnlineRowsOwned, NoneAbandoned
<1> QED BY <1>4, <1>5 DEF Owns, SettingOffline

(* Every message stays where it was. *)
LEMMA KeptFrame ==
  ASSUME OneServer, KeptInv, NEW s \in Servers, UNCHANGED <<msg_to, offline_message, lost>>,
         \A m \in Msgs : Asked(m) => Asked(m)',
         \A m \in Msgs : Given(m) => Given(m)',
         loop[s].pc # "login_ack", loop[s].msg = NoMsg \/ loop'[s].msg = loop[s].msg
  PROVE  KeptInv'
<1>s. \A r \in Servers : r = s
  BY DEF OneServer
<1>1. \A m \in Msgs : (Unsent(m) => Unsent(m)') /\ (Stored(m) => Stored(m)')
  BY DEF Unsent, Stored
<1>2. \A m \in Msgs : (Handled(m) => Handled(m)') /\ ~Read(m)
  BY <1>s, SentinelAssumption DEF Handled, Read
<1> QED BY <1>1, <1>2 DEF KeptInv, Kept

LEMMA KeptClient ==
  ASSUME OneServer, TypeInv, KeptInv, NEW c \in Conns, ClientNext(c)
  PROVE  KeptInv'
<1>1. UNCHANGED <<offline_message, outbox, loop>>
  BY DEF ClientNext, Connect, ClientLogin, ClientChat, ClientLogout, ClientClose, SendRequest
<1>2. \A m \in Msgs : /\ Handled(m) => Handled(m)'
                      /\ Stored(m) => Stored(m)'
                      /\ Read(m) => Read(m)'
                      /\ Given(m) => Given(m)'
  BY <1>1, SameWrites DEF Handled, Stored, Read
<1>3. CASE UNCHANGED <<inbox, msg_to, lost>>
  BY <1>2, <1>3, SameInbox DEF KeptInv, Kept, Unsent
<1>4. ASSUME NEW r \in Requests, inbox' = [inbox EXCEPT ![c] = Append(@, r)], UNCHANGED <<msg_to, lost>>
      PROVE  KeptInv'
  BY <1>2, <1>4, WholeSent DEF KeptInv, Kept, Unsent
<1>5. ASSUME NEW u \in Users, NEW m \in Msgs, ClientChat(c, u, m)
      PROVE  KeptInv'
  <2>1. PICK r \in Requests : r = [type |-> "chat", user |-> u, msg |-> m]
    BY DEF Requests
  <2>2. /\ inbox' = [inbox EXCEPT ![c] = Append(@, r)] /\ r.type = "chat" /\ r.msg = m
        /\ msg_to' = [msg_to EXCEPT ![m] = u] /\ UNCHANGED lost
    BY <1>5, <2>1 DEF ClientChat, SendRequest
  <2>3. Asked(m)' /\ \A n \in Msgs : Asked(n) => Asked(n)'
    BY <2>2, WholeSent
  <2>4. \A n \in Msgs : n # m /\ Unsent(n) => Unsent(n)'
    BY <2>2 DEF Unsent, TypeInv, TypeOK
  <2> QED BY <1>2, <2>2, <2>3, <2>4 DEF KeptInv, Kept
<1>6. CASE Connect(c)
  BY <1>3, <1>6 DEF Connect
<1>9. CASE ClientClose(c)
  <2>1. /\ \A d \in Conns : \A i \in DOMAIN inbox[d] :
              \/ i \in DOMAIN inbox'[d] /\ inbox'[d][i] = inbox[d][i]
              \/ inbox[d][i].type = "chat" => inbox[d][i].msg \in lost'
        /\ lost \subseteq lost' /\ UNCHANGED msg_to
    BY <1>9, CutRequests
  <2>2. \A m \in Msgs : Asked(m) => Asked(m)' \/ m \in lost'
    BY <2>1 DEF Asked, ChatsIn
  <2> QED BY <1>2, <2>1, <2>2 DEF KeptInv, Kept, Unsent
<1>7. ASSUME NEW u \in Users, NEW pwd \in Passwords, ClientLogin(c, u, pwd)
      PROVE  KeptInv'
  <2>1. [type |-> "login", user |-> u, pwd |-> pwd] \in Requests
    BY DEF Requests
  <2> QED BY <1>4, <1>7, <2>1 DEF ClientLogin, SendRequest
<1>8. CASE ClientLogout(c)
  <2>1. [type |-> "logout", user |-> client[c].user] \in Requests
    BY <1>8 DEF Requests, ClientLogout, TypeInv, ClientLocals
  <2> QED BY <1>4, <1>8, <2>1 DEF ClientLogout, SendRequest
<1> QED BY <1>5, <1>6, <1>7, <1>8, <1>9 DEF ClientNext

LEMMA KeptServe ==
  ASSUME OneServer, NoDbFaults, WholeRequests, TypeInv, PlaceInv, WholeInv, KeptInv,
         NEW s \in Servers, NEW c \in Conns, ServeConn(s, c)
  PROVE  KeptInv'
<1>t. /\ loop \in [Servers -> LoopStates]
      /\ user_conn_map \in [Servers -> [Users -> Conns \cup {NoConn}]]
  BY DEF TypeInv, TypeOK
<1>1. UNCHANGED <<offline_message, msg_to, lost>> /\ loop[s].pc = "poll"
  BY NoFault DEF ServeConn, HandlerLogin, HandlerLogout, HandlerDirectChat, HandleClose, OnMessage, LoopAt, Query
<1>2. loop[s].msg = NoMsg
  BY <1>1 DEF PlaceInv, Rows, ChatPcs
<1>3. ASSUME NEW u \in Users, NEW pwd \in Passwords, HandlerLogin(s, c, u, pwd)
      PROVE  KeptInv'
  <2>1. PICK r \in Requests : r = [type |-> "login", user |-> u, pwd |-> pwd]
    BY DEF Requests
  <2>2. OnMessage(s, c, r) /\ r.type = "login"
    BY <1>3, <2>1 DEF HandlerLogin
  <2>3. \A m \in Msgs : Asked(m) => Asked(m)'
    BY <2>2, WholeRead
  <2>4. \A m \in Msgs : Given(m) => Given(m)'
    <3>1. CASE UNCHANGED outbox
      BY <3>1, SameWrites
    <3>2. ASSUME NEW errno \in 0..2, Write(c, Ack(u, errno, <<>>))
          PROVE  \A m \in Msgs : Given(m) => Given(m)'
      <4>0. Ack(u, errno, <<>>) \in Replies
        BY DEF Ack, Replies
      <4>1. PICK item \in Replies : item = Ack(u, errno, <<>>)
        BY <4>0
      <4> QED BY <3>2, <4>1, WriteDelivers DEF Given
    <3> QED BY <1>3, <3>1, <3>2 DEF HandlerLogin
  <2> QED BY <1>1, <1>2, <2>3, <2>4, KeptFrame
<1>4. ASSUME NEW u \in Users, HandlerLogout(s, c, u)
      PROVE  KeptInv'
  <2>1. PICK r \in Requests : r = [type |-> "logout", user |-> u]
    BY DEF Requests
  <2>2. OnMessage(s, c, r) /\ r.type = "logout" /\ UNCHANGED outbox
    BY <1>4, <2>1 DEF HandlerLogout
  <2>3. \A m \in Msgs : Asked(m) => Asked(m)'
    BY <2>2, WholeRead
  <2> QED BY <1>1, <1>2, <2>2, <2>3, SameWrites, KeptFrame
<1>5. ASSUME NEW u \in Users, NEW m \in Msgs, HandlerDirectChat(s, c, u, m)
      PROVE  KeptInv'
  <2>1. PICK r \in Requests : r = [type |-> "chat", user |-> u, msg |-> m]
    BY DEF Requests
  <2>2. OnMessage(s, c, r) /\ r.type = "chat" /\ r.msg = m
    BY <1>5, <2>1 DEF HandlerDirectChat
  <2>3. \A n \in Msgs : Asked(n) => Asked(n)' \/ n = m
    BY <2>2, WholeRead
  <2>4. \A n \in Msgs : (Unsent(n) => Unsent(n)') /\ (Stored(n) => Stored(n)') /\ ~Handled(n) /\ ~Read(n)
    BY <1>1, <1>2, SentinelAssumption DEF Unsent, Stored, Handled, Read, OneServer
  <2>5. CASE Enter(s, "chat_query", NoConn, u, m) /\ UNCHANGED outbox
    <3>1. Handled(m)'
      BY <1>t, <2>5 DEF Enter, Handled
    <3> QED BY <1>1, <2>3, <2>4, <2>5, <3>1, SameWrites DEF KeptInv, Kept
  <2>6. CASE user_conn_map[s][u] # NoConn /\ Write(user_conn_map[s][u], Chat(u, m))
    <3>1. PICK d \in Conns : d = user_conn_map[s][u]
      BY <1>t, <2>6
    <3>2. PICK item \in Replies : item = Chat(u, m)
      BY ReplyTypes
    <3>3. item.msgs = <<m>>
      BY <3>2 DEF Chat
    <3>4. \E k \in DOMAIN item.msgs : item.msgs[k] = m
      BY <3>3
    <3>5. conn[d].state = "connected"
      BY <1>1, <2>6, <3>1 DEF WholeInv, OpenEntries
    <3>6. Given(m)' /\ \A n \in Msgs : Given(n) => Given(n)'
      BY <2>6, <3>1, <3>2, <3>4, <3>5, WriteDelivers DEF Given
    <3> QED BY <1>1, <2>3, <2>4, <3>6 DEF KeptInv, Kept
  <2> QED BY <1>5, <2>5, <2>6 DEF HandlerDirectChat
<1>6. ASSUME HandleClose(s, c)
      PROVE  KeptInv'
  BY <1>1, <1>2, <1>6, SameInbox, SameWrites, KeptFrame DEF HandleClose
<1> QED BY <1>3, <1>4, <1>5, <1>6 DEF ServeConn

LEMMA KeptLoop ==
  ASSUME OneServer, NoDbFaults, TypeInv, LifeInv, UpInv, SessionInv, IdleInv, PlaceInv, NoneAbandoned,
         OnlineRowsOwned, KeptInv, NEW s \in Servers, LoopStep(s)
  PROVE  KeptInv'
<1>s. \A r \in Servers : r = s
  BY DEF OneServer
<1>t. /\ loop \in [Servers -> LoopStates] /\ offline_message \in [Users -> Seq(Msgs)]
      /\ functors \in [Servers -> Seq(Functors)] /\ LoopLocals(s)
  BY DEF TypeInv, TypeOK, StoreTypeOK
<1>i. Rows(s)
  BY DEF PlaceInv
<1> USE DEF LoopAt
<1>1. UNCHANGED <<inbox, msg_to, lost>>
  BY DEF LoopStep, LoginInsert, LoginSubscribe, LoginOnline, LoginQueryOffline, LoginDeleteOffline,
         LoginAck, LogoutUnsubscribe, LogoutOffline, ChatQuery, ChatPublish, ChatStoreOffline,
         CloseErase, CloseUnsubscribe, CloseOffline, DoPendingFunctors, RunFunctor
<1>2. \A m \in Msgs : (Asked(m) => Asked(m)') /\ (Unsent(m) => Unsent(m)') /\ (m \in lost => m \in lost')
  BY <1>1, SameInbox DEF Unsent
<1>f. ASSUME UNCHANGED <<offline_message, outbox>>, loop[s].pc # "login_ack",
             loop[s].pc \notin ChatPcs \/ loop'[s].msg = loop[s].msg
      PROVE  KeptInv'
  BY <1>1, <1>2, <1>f, <1>i, SameWrites, KeptFrame DEF Rows
<1>g. ASSUME NEW pc \in LoopPcs, Goto(s, pc), UNCHANGED <<offline_message, outbox>>,
             loop[s].pc # "login_ack"
      PROVE  KeptInv'
  BY <1>f, <1>g, <1>t, GotoEffect
<1>3. CASE LoginInsert(s)
  BY <1>3, <1>g DEF LoginInsert, LoopPcs
<1>4. CASE LoginSubscribe(s)
  BY <1>4, <1>g DEF LoginSubscribe, LoopPcs
<1>5. CASE LoginOnline(s)
  BY <1>5, <1>g, NoFault DEF LoginOnline, UpdateState, LoopPcs
<1>6. CASE LoginQueryOffline(s)
  BY <1>6, <1>f, NoFault DEF LoginQueryOffline, QueryOfflineMessages, ChatPcs
<1>7. CASE LoginDeleteOffline(s)
  <2>1. PICK u \in Users : u = loop[s].user
    BY <1>7, <1>t DEF LoginDeleteOffline, LoopLocals, LoginPcs
  <2>2. /\ offline_message' = [offline_message EXCEPT ![u] = <<>>]
        /\ UNCHANGED outbox /\ loop[s].pc = "login_delete"
    BY <1>7, <2>1, NoFault DEF LoginDeleteOffline, DeleteOfflineMessageByUserId
  <2>3. loop'[s].pc = "login_ack" /\ loop'[s].rows = offline_message[u]
    BY <1>7, <1>i, <1>t, <2>1, <2>2, GotoEffect DEF LoginDeleteOffline, LoopPcs, Rows
  <2>4. \A v \in Users : v # u => offline_message'[v] = offline_message[v]
    BY <1>t, <2>2
  <2>5. ASSUME NEW m \in Msgs, Stored(m)
        PROVE  Stored(m)' \/ Read(m)'
    <3>1. PICK v \in Users : \E i \in DOMAIN offline_message[v] : offline_message[v][i] = m
      BY <2>5 DEF Stored
    <3>2. CASE v = u
      BY <2>3, <3>1, <3>2 DEF Read
    <3>3. CASE v # u
      BY <2>4, <3>1, <3>3 DEF Stored
    <3> QED BY <3>2, <3>3
  <2>6. \A m \in Msgs : ~Handled(m) /\ ~Read(m)
    BY <1>s, <1>i, <2>2, SentinelAssumption DEF Handled, Read, Rows, ChatPcs
  <2> QED BY <1>2, <2>2, <2>5, <2>6, SameWrites DEF KeptInv, Kept
<1>8. CASE LoginAck(s)
  <2>1. PICK c \in Conns, u \in Users : c = loop[s].conn /\ u = loop[s].user
    BY <1>8, <1>t DEF LoginAck, LoopLocals, LoginPcs
  <2>2. PICK item \in Replies : item = Ack(u, 0, loop[s].rows)
    <3>1. loop[s].rows \in Seq(Msgs)
      BY <1>t DEF LoopStates
    <3> QED BY <3>1, ReplyTypes
  <2>3. item.msgs = loop[s].rows
    BY <2>2 DEF Ack
  <2>4. Write(c, item) /\ UNCHANGED offline_message /\ loop[s].pc = "login_ack"
    BY <1>8, <2>1, <2>2 DEF LoginAck
  <2>5. conn[c].state = "connected"
    BY <2>1, <2>4 DEF LifeInv, Orderly, Stages, LoginPcs
  <2>6. \A m \in Msgs : (Given(m) => Given(m)') /\ (Read(m) => Given(m)')
    <3>1. \A m \in Msgs : Read(m) => \E k \in DOMAIN item.msgs : item.msgs[k] = m
      BY <1>s, <2>3 DEF Read
    <3> QED BY <2>4, <2>5, <3>1, WriteDelivers DEF Given
  <2>7. \A m \in Msgs : (Stored(m) => Stored(m)') /\ ~Handled(m)
    BY <1>s, <1>i, <2>4, SentinelAssumption DEF Stored, Handled, Rows, ChatPcs
  <2> QED BY <1>2, <2>6, <2>7 DEF KeptInv, Kept
<1>9. CASE LogoutUnsubscribe(s)
  BY <1>9, <1>g DEF LogoutUnsubscribe, LoopPcs
<1>10. CASE LogoutOffline(s)
  BY <1>10, <1>f, NoFault DEF LogoutOffline, SetOffline, UpdateState, ChatPcs
<1>11. CASE ChatQuery(s)
  BY <1>11, <1>g, NoFault DEF ChatQuery, Query, LoopPcs
<1>12. CASE ChatPublish(s)
  BY <1>12, NeverPublishes DEF ChatPublish
<1>13. CASE ChatStoreOffline(s)
  <2>1. PICK u \in Users, m \in Msgs : u = loop[s].user /\ m = loop[s].msg
    BY <1>13, <1>t DEF ChatStoreOffline, LoopLocals, ChatPcs
  <2>2. /\ offline_message' = [offline_message EXCEPT ![u] = Append(@, m)]
        /\ UNCHANGED outbox /\ loop[s].pc = "chat_store"
    BY <1>13, <2>1, NoFault DEF ChatStoreOffline, StoreOfflineMessage
  <2>3. /\ \A v \in Users : v # u => offline_message'[v] = offline_message[v]
        /\ offline_message'[u] = Append(offline_message[u], m) /\ offline_message[u] \in Seq(Msgs)
    BY <1>t, <2>2
  <2>4. /\ Len(offline_message[u]) + 1 \in DOMAIN offline_message'[u]
        /\ offline_message'[u][Len(offline_message[u]) + 1] = m
        /\ \A i \in DOMAIN offline_message[u] :
              i \in DOMAIN offline_message'[u] /\ offline_message'[u][i] = offline_message[u][i]
    BY <2>3
  <2>5. Stored(m)'
    BY <2>4 DEF Stored
  <2>6. \A n \in Msgs : Stored(n) => Stored(n)'
    BY <2>3, <2>4 DEF Stored
  <2>7. \A n \in Msgs : (Handled(n) => n = m) /\ ~Read(n)
    BY <1>s, <2>1, <2>2 DEF Handled, Read
  <2> QED BY <1>2, <2>2, <2>5, <2>6, <2>7, SameWrites DEF KeptInv, Kept
<1>14. CASE CloseErase(s)
  BY <1>14, <1>f DEF CloseErase, ChatPcs
<1>15. CASE CloseUnsubscribe(s)
  BY <1>15, <1>g DEF CloseUnsubscribe, LoopPcs
<1>16. CASE CloseOffline(s)
  BY <1>16, <1>f, NoFault DEF CloseOffline, SetOffline, UpdateState, ChatPcs
<1>17. CASE DoPendingFunctors(s)
  BY <1>17, <1>g DEF DoPendingFunctors, LoopPcs
<1>18. CASE RunFunctor(s)
  <2>1. functors[s] # <<>>
    <3>1. due[s] \in 1..Len(functors[s])
      BY <1>18 DEF RunFunctor, TypeInv, DueFunctors
    <3> QED BY <3>1
  <2>2. Head(functors[s]).kind = "destroy"
    <3>1. 1 \in DOMAIN functors[s] /\ functors[s][1] = Head(functors[s])
      BY <1>t, <2>1
    <3> QED BY <3>1 DEF IdleInv, BusIdle
  <2> QED BY <1>18, <1>f, <2>2 DEF RunFunctor, ChatPcs
<1> QED
  BY <1>3, <1>4, <1>5, <1>6, <1>7, <1>8, <1>9, <1>10, <1>11, <1>12, <1>13, <1>14, <1>15, <1>16, <1>17, <1>18
  DEF LoopStep

LEMMA KeptOther ==
  ASSUME NoProcessEnds, TypeInv, UpInv, IdleInv, KeptInv, NEW s \in Servers,
         ObserverStep(s) \/ RedisStep(s) \/ ProcessStep(s)
  PROVE  KeptInv'
<1>1. ~ObserverStep(s)
  BY DEF ObserverStep, StartObserving, HandlerRedisSubscribeMessage, QueueInLoop, GetReply, BusIdle,
         IdleInv, Reading
<1>2. ~ProcessStep(s)
  BY DEF ProcessStep, Crash, SigInt, Exit, Restart, UpInv, NoProcessEnds, TypeInv, TypeOK
<1>3. UNCHANGED <<offline_message, inbox, loop, msg_to, outbox, lost>>
  BY <1>1, <1>2 DEF RedisStep
<1> QED BY <1>3, SameInbox, SameWrites DEF KeptInv, Kept, Unsent, Handled, Stored, Read

(* A server that is alone loses no message: from the moment its client sent   *)
(* it, it is in a request, in the hands of a handler, in the offline table or *)
(* written to a client, unless it was in a request the end of its own client  *)
(* took back before the server read it, and however logins and logouts of the *)
(* addressee fall between HandlerDirectChat's look at the map, its query and  *)
(* its insert.                                                                *)
(* Each hypothesis is needed: a second server, a failed statement, the end of *)
(* a process and requests read together lose messages (README, section 4).    *)
THEOREM MessageKeptAlone ==
  ASSUME OneServer, NoDbFaults, NoProcessEnds, WholeRequests
  PROVE  Spec => []MessageKept
<1>1. Init => KeptInv
  BY DEF Init, KeptInv, Kept, Unsent
<1>2. /\ TypeInv /\ LifeInv /\ UpInv /\ SessionInv /\ IdleInv /\ PlaceInv /\ WholeInv
      /\ NoneAbandoned /\ OnlineRowsOwned /\ KeptInv /\ [Next]_vars
      => KeptInv'
  <2> SUFFICES ASSUME TypeInv, LifeInv, UpInv, SessionInv, IdleInv, PlaceInv, WholeInv,
                      NoneAbandoned, OnlineRowsOwned, KeptInv, [Next]_vars
               PROVE  KeptInv'
    OBVIOUS
  <2>1. CASE UNCHANGED vars
    <3>1. UNCHANGED <<offline_message, inbox, loop, msg_to, outbox, lost>>
      BY <2>1 DEF vars
    <3> QED BY <3>1, SameInbox, SameWrites DEF KeptInv, Kept, Unsent, Handled, Stored, Read
  <2> QED BY <2>1, KeptClient, KeptServe, KeptLoop, KeptOther DEF Next
<1>3. KeptInv => MessageKept
  <2> SUFFICES ASSUME KeptInv, NEW m \in Msgs, ~Unsent(m), m \notin lost
               PROVE  InTransit(m) \/ Stored(m) \/ \E c \in Conns : Delivered(c, m)
    BY DEF MessageKept, Unsent
  <2>1. Asked(m) => InTransit(m)
    BY DEF Asked, ChatsIn, InTransit
  <2>2. Handled(m) \/ Read(m) => InTransit(m)
    BY DEF Handled, Read, InTransit
  <2> QED BY <2>1, <2>2 DEF KeptInv, Kept, Given
<1> QED
  BY <1>1, <1>2, <1>3, TypeSafety, LifeCorrect, UpCorrect, SessionCorrect, IdleCorrect, PlaceCorrect,
     WholeCorrect, AbandonedCorrect, RowsCorrect, PTL
  DEF Spec
=============================================================================
