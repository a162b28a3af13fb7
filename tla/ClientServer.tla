--------------------------- MODULE ClientServer ---------------------------
(***************************************************************************)
(* The client program and the server it is connected to.  A client has two *)
(* threads, the menu (main, MainMenu and the command handlers) and the     *)
(* reader (ReadTaskHandler), which share g_is_login_success, the current   *)
(* user and a semaphore.  Some connections are typed by hand (telnet).     *)
(*                                                                         *)
(* A request is the JSON object that is sent, with the fields it has.  The *)
(* client ends each with a NUL, at which json::parse stops, so of several  *)
(* requests read together the first is dispatched and the rest dropped.    *)
(* Neither side catches exceptions: text that is cut, and a field that is  *)
(* read and missing, end the process.  Answers have no separator at all.   *)
(*                                                                         *)
(* One server, so no bus; a chat to a user without a connection and the    *)
(* interleaving of a handler with the observer are ChatCluster's.          *)
(***************************************************************************)
EXTENDS Directory, FiniteSets

CONSTANTS
    Clients,      \* client programs, each with its connection
    Typed,        \* connections typed by hand
    Names,        \* names of users: 1..n
    Registered,   \* the first names, registered before
    Groups,       \* ids of groups a request may name
    Commands,     \* what the users do: msgids
    Cuts,         \* a read may end inside a request or an answer
    MaxRequests,  \* bound on requests per client
    MaxTyped      \* bound on requests per connection typed by hand

ASSUME ClientServerAssumption ==
    /\ Clients \cap Typed = {}
    /\ Cardinality(Names) \in Nat /\ Names = 1..Cardinality(Names)
    /\ Registered \in 0..Cardinality(Names)
    /\ {MaxRequests, MaxTyped} \subseteq Nat

Conns == Clients \cup Typed

VARIABLES
    up,             \* the server process runs
    handler,        \* what HandlerCreateGroup still has to do
    user_conn_map,  \* rows <<userid, connection>>
    open,           \* connections the server has not seen closing
    c2s, s2c,       \* requests and answers on their way
    cut,            \* the rest of a request that was read in part comes next
    main,           \* the client's main thread: where it is
    current_user,   \* g_current_user
    is_login_success,
    sem,            \* g_read_write_mutex
    reader,         \* the client's reader: the answer it handles, or NoAnswer
    requests,       \* number of requests sent
    asked,          \* history: the last login or registration sent
    dropped         \* history: one of its requests was dropped

serverVars == <<up, handler, user_conn_map, open, cut, dropped>>
menuVars == <<main, requests, asked>>
sharedVars == <<current_user, is_login_success, sem>>
vars == <<directoryVars, serverVars, c2s, s2c, menuVars, sharedVars, reader>>

NoAnswer == [msgid |-> "none"]
Idle == [todo |-> "poll"]
Ids == DOMAIN user

(* The fields a handler reads; get<int>() of a missing one throws.  The other *)
(* msgids of the enum have no handler.                                        *)
Reads == [login |-> {"id", "password"}, register |-> {"name", "password"},
          logout |-> {"id"}, chat |-> {"toid"}, addfriend |-> {"userid", "friendid"},
          creategroup |-> {"id", "groupname", "groupdesc"}, joingroup |-> {"id", "group_id"},
          groupchat |-> {"id", "groupid"}]

Throws(r) == r.msgid \in DOMAIN Reads /\ ~(Reads[r.msgid] \subseteq DOMAIN r)

TypeOK ==
    /\ up \in BOOLEAN
    /\ user_conn_map \subseteq Ids \X Conns
    /\ online \subseteq Ids /\ open \subseteq Conns
    /\ \A c \in Conns : \A i \in DOMAIN c2s[c] : c2s[c][i].msgid \in DOMAIN Reads \cup {"regack"}
    /\ \A c \in Conns : \A i \in DOMAIN s2c[c] :
          s2c[c][i].msgid \in {"logack", "regack", "chat"}
    /\ main \in [Clients -> {"menu", "login", "waitlogin", "waitreg", "MainMenu", "ended"}]
    /\ current_user \in [Clients -> Ids \cup {NoId}]
    /\ is_login_success \in [Clients -> BOOLEAN]
    /\ sem \in [Clients -> Nat]
    /\ cut \in [Conns -> BOOLEAN] /\ dropped \in [Conns -> BOOLEAN]

Init ==
    /\ DirectoryInit([i \in 1..Registered |-> i])
    /\ up = TRUE /\ handler = Idle /\ user_conn_map = {} /\ open = Conns
    /\ c2s = [c \in Conns |-> <<>>] /\ s2c = [c \in Conns |-> <<>>]
    /\ cut = [c \in Conns |-> FALSE] /\ dropped = [c \in Conns |-> FALSE]
    /\ main = [c \in Clients |-> "menu"]
    /\ current_user = [c \in Clients |-> NoId]
    /\ is_login_success = [c \in Clients |-> FALSE]
    /\ sem = [c \in Clients |-> 0]
    /\ reader = [c \in Clients |-> NoAnswer]
    /\ requests = [c \in Conns |-> 0]
    /\ asked = [c \in Clients |-> NoAnswer]

-----------------------------------------------------------------------------
(* The client's main thread *)

Send(c, r) ==
    /\ r.msgid \in Commands
    /\ requests[c] < IF c \in Clients THEN MaxRequests ELSE MaxTyped
    /\ c2s' = [c2s EXCEPT ![c] = Append(@, r)]
    /\ requests' = [requests EXCEPT ![c] = @ + 1]

MenuGoes(c, from, to) == main[c] = from /\ main' = [main EXCEPT ![c] = to]

(* Choice 1, up to the send: the flag is cleared first. *)
Login(c, id, password) ==
    /\ MenuGoes(c, "menu", "login")
    /\ "login" \in Commands /\ requests[c] < MaxRequests
    /\ is_login_success' = [is_login_success EXCEPT ![c] = FALSE]
    /\ asked' = [asked EXCEPT ![c] = [msgid |-> "login", id |-> id, password |-> password]]
    /\ UNCHANGED <<directoryVars, serverVars, c2s, s2c, requests, current_user, sem, reader>>

LoginSend(c) ==
    /\ MenuGoes(c, "login", "waitlogin")
    /\ Send(c, asked[c])
    /\ UNCHANGED <<directoryVars, serverVars, s2c, asked, sharedVars, reader>>

(* Choice 2 *)
Register(c, name) ==
    LET r == [msgid |-> "register", name |-> name, password |-> "right"]
    IN  /\ MenuGoes(c, "menu", "waitreg")
        /\ Send(c, r)
        /\ asked' = [asked EXCEPT ![c] = r]
        /\ UNCHANGED <<directoryVars, serverVars, s2c, sharedVars, reader>>

(* sem_wait returns; after a login that succeeded, the main menu. *)
SemWait(c) ==
    /\ sem[c] > 0
    /\ sem' = [sem EXCEPT ![c] = @ - 1]
    /\ \/ MenuGoes(c, "waitlogin", IF is_login_success[c] THEN "MainMenu" ELSE "menu")
       \/ MenuGoes(c, "waitreg", "menu")
    /\ UNCHANGED <<directoryVars, serverVars, c2s, s2c, requests, asked, current_user,
                   is_login_success, reader>>

(* The client ends.  Closing a socket with unread input resets the            *)
(* connection, and requests the server has not read may be discarded.         *)
End(c) ==
    /\ main' = [main EXCEPT ![c] = "ended"]
    /\ c2s' \in {c2s, [c2s EXCEPT ![c] = <<>>]}
    /\ s2c' = [s2c EXCEPT ![c] = <<>>]
    /\ reader' = [reader EXCEPT ![c] = NoAnswer]
    /\ UNCHANGED <<directoryVars, serverVars, requests, asked, sharedVars>>

(* Choice 3 *)
Quit(c) == main[c] = "menu" /\ End(c)

(* The requests the commands of MainMenu build. *)
CommandRequests(c) ==
    LET me == current_user[c]
    IN  {[msgid |-> "addfriend", id |-> me, friendid |-> f] : f \in Names}
          \cup {[msgid |-> "chat", id |-> me, name |-> me, toid |-> f, msg |-> "text",
                 time |-> "now"] : f \in Names}
          \cup {[msgid |-> "creategroup", id |-> me, groupname |-> g, groupdesc |-> "text"]
                 : g \in Groups}
          \cup {[msgid |-> "joingroup", id |-> me, groupid |-> g] : g \in Groups}
          \cup {[msgid |-> "groupchat", id |-> me, name |-> me, groupid |-> g, msg |-> "text",
                 time |-> "now"] : g \in Groups}

MenuCommand(c, r) ==
    /\ main[c] = "MainMenu"
    /\ Send(c, r)
    /\ UNCHANGED <<directoryVars, serverVars, s2c, main, asked, sharedVars, reader>>

Logout(c) ==
    /\ MenuGoes(c, "MainMenu", "menu")
    /\ Send(c, [msgid |-> "logout", id |-> current_user[c]])
    /\ UNCHANGED <<directoryVars, serverVars, s2c, asked, sharedVars, reader>>

-----------------------------------------------------------------------------
(* The client's reader thread *)

(* What handling answer a reads besides its msgid, when it is forwarded. *)
ShownFields == {"time", "name", "msg"}

(* recv() returns the answers that have come, or a part of one: exactly one   *)
(* whole answer can be parsed.  The fields of a chat are the sender's.        *)
Recv(c) ==
    /\ main[c] # "ended" /\ reader[c] = NoAnswer /\ s2c[c] # <<>>
    /\ \/ /\ s2c[c][1].msgid = "chat" => ShownFields \subseteq DOMAIN s2c[c][1]
          /\ reader' = [reader EXCEPT ![c] = IF s2c[c][1].msgid = "chat" THEN @ ELSE s2c[c][1]]
          /\ s2c' = [s2c EXCEPT ![c] = Tail(@)]
          /\ UNCHANGED <<directoryVars, serverVars, c2s, menuVars, sharedVars>>
       \/ /\ \/ Cuts \/ Len(s2c[c]) > 1
             \/ s2c[c][1].msgid = "chat" /\ ~(ShownFields \subseteq DOMAIN s2c[c][1])
          /\ End(c)

(* Faulty variant: a lost connection is not noticed. *)
RecvEndIgnored(c) ==
    /\ main[c] # "ended" /\ reader[c] = NoAnswer /\ ~up
    /\ UNCHANGED vars

(* recv() returns 0 or -1: exit(-1). *)
RecvEnd(c) ==
    /\ main[c] # "ended" /\ reader[c] = NoAnswer /\ ~up
    /\ End(c)

(* Faulty variant: the main thread is woken before the answer is handled. *)
PostFirst(c) ==
    /\ reader[c].msgid \in {"logack", "regack"}
    /\ reader' = [reader EXCEPT ![c].msgid = "post"]
    /\ sem' = [sem EXCEPT ![c] = @ + 1]
    /\ UNCHANGED <<directoryVars, serverVars, c2s, s2c, menuVars, current_user, is_login_success>>

(* HandleLoginResponse, HandleRegistrationResponse *)
HandleResponse(c) ==
    LET a == reader[c]
    IN  /\ a.msgid \in {"logack", "regack"}
        /\ reader' = [reader EXCEPT ![c].msgid = "post"]
        /\ IF a.msgid = "regack"
           THEN UNCHANGED <<current_user, is_login_success>>
           ELSE /\ is_login_success' = [is_login_success EXCEPT ![c] = a.errno = 0]
                /\ current_user' = [current_user EXCEPT ![c] = IF a.errno = 0 THEN a.id ELSE @]
        /\ UNCHANGED <<directoryVars, serverVars, c2s, s2c, menuVars, sem>>

SemPost(c) ==
    /\ reader[c].msgid = "post"
    /\ reader' = [reader EXCEPT ![c] = NoAnswer]
    /\ sem' = [sem EXCEPT ![c] = @ + 1]
    /\ UNCHANGED <<directoryVars, serverVars, c2s, s2c, menuVars, current_user, is_login_success>>

-----------------------------------------------------------------------------
(* A connection typed by hand *)

(* The samples at the end of message_handler.cpp, captioned register, chat,   *)
(* add friend, create group and join group.  Their msgids are not the ones    *)
(* the enum of utils.hpp gives to these: 5 has no handler, the others reach   *)
(* handlers that read other fields.                                           *)
Samples ==
    {[msgid |-> "logout", name |-> "text", password |-> "text"],
     [msgid |-> "regack", toid |-> 1, fromname |-> "text", msg |-> "text"],
     [msgid |-> "chat", userid |-> 1, friendid |-> 1],
     [msgid |-> "addfriend", id |-> 1, groupname |-> "text", groupdesc |-> "text"],
     [msgid |-> "creategroup", id |-> 1, group_id |-> 1]}

(* The samples, and objects with their fields under the msgid of the caption. *)
TypedRequests ==
    Samples
      \cup {[msgid |-> "addfriend", userid |-> u, friendid |-> f] : u \in Names, f \in Names}
      \cup {[msgid |-> "joingroup", id |-> u, group_id |-> g] : u \in Names, g \in Groups}
      \cup {[msgid |-> "chat", toid |-> u, fromname |-> u, msg |-> "text"] : u \in Names}

Type(c, r) ==
    /\ Send(c, r)
    /\ UNCHANGED <<directoryVars, serverVars, s2c, main, asked, sharedVars, reader>>

-----------------------------------------------------------------------------
(* The server *)

Ended(c) == c \in Clients /\ main[c] = "ended"

(* conn->send(): nothing reaches a client that has ended. *)
Answer(c, a) == s2c' = IF Ended(c) THEN s2c ELSE [s2c EXCEPT ![c] = Append(@, a)]

(* The process ends; nothing of it is left but the rows. *)
Abort ==
    /\ up' = FALSE /\ handler' = Idle /\ user_conn_map' = {}
    /\ UNCHANGED <<directoryVars, s2c>>

Stays == UNCHANGED <<up, handler>>

LogAck(errno) == [msgid |-> "logack", errno |-> errno]

(* Faulty variant: an id without a row is let in. *)
LoginUnknownId(c, r) ==
    /\ Stays
    /\ IF r.id \notin online
       THEN /\ user_conn_map' = user_conn_map \cup {<<r.id, c>>}
            /\ UpdateState(r.id, "online")
            /\ Answer(c, [msgid |-> "logack", errno |-> 0, id |-> r.id])
       ELSE Answer(c, LogAck(2)) /\ UNCHANGED <<user_conn_map, directoryVars>>

HandlerLogin(c, r) ==
    /\ Stays
    /\ IF r.id \in Ids /\ r.password = "right" /\ r.id \notin online
       THEN /\ user_conn_map' = user_conn_map
                 \cup {e \in {<<r.id, c>>} : \A d \in Conns : <<r.id, d>> \notin user_conn_map}
            /\ UpdateState(r.id, "online")
            /\ Answer(c, [msgid |-> "logack", errno |-> 0, id |-> r.id, name |-> user[r.id],
                          friendinfo |-> GetFriends(r.id)])
       ELSE /\ Answer(c, LogAck(IF r.id \in online /\ r.password = "right" THEN 2 ELSE 1))
            /\ UNCHANGED <<user_conn_map, directoryVars>>

(* Faulty variant: a registration that fails is not answered. *)
RegisterSilent(c, r) ==
    /\ Stays
    /\ \E id \in Names \cup {NoId} :
          /\ Insert(r.name, id)
          /\ IF id = NoId THEN UNCHANGED s2c
                          ELSE Answer(c, [msgid |-> "regack", errno |-> 0, id |-> id])
    /\ UNCHANGED user_conn_map

HandlerRegister(c, r) ==
    /\ Stays
    /\ \E id \in Names \cup {NoId} :
          /\ Insert(r.name, id)
          /\ Answer(c, IF id = NoId THEN [msgid |-> "regack", errno |-> 1]
                                    ELSE [msgid |-> "regack", errno |-> 0, id |-> id])
    /\ UNCHANGED user_conn_map

HandlerLogout(c, r) ==
    /\ Stays
    /\ user_conn_map' = {e \in user_conn_map : e[1] # r.id}
    /\ UpdateState(r.id, "offline")
    /\ UNCHANGED s2c

(* The request is forwarded as it came. *)
HandlerDirectChat(c, r) ==
    /\ Stays
    /\ IF \E d \in Conns : <<r.toid, d>> \in user_conn_map
       THEN Answer(CHOOSE d \in Conns : <<r.toid, d>> \in user_conn_map, r)
       ELSE UNCHANGED s2c
    /\ UNCHANGED <<user_conn_map, directoryVars>>

HandlerAddFriend(c, r) ==
    Stays /\ AddFriend(r.userid, r.friendid) /\ UNCHANGED <<user_conn_map, s2c>>

(* Faulty variant: the creator joins before the id is known. *)
CreateGroupStaleId(c, r) ==
    /\ \E id \in {NoId, Len(chat_group) + 1} :
          /\ CreateGroup(r.groupname, id)
          /\ handler' = IF id = NoId THEN Idle ELSE [todo |-> "join", user |-> r.id, group |-> NoId]
    /\ UNCHANGED <<up, user_conn_map, s2c>>

HandlerCreateGroup(c, r) ==
    /\ \E id \in {NoId, Len(chat_group) + 1} :
          /\ CreateGroup(r.groupname, id)
          /\ handler' = IF id = NoId THEN Idle ELSE [todo |-> "join", user |-> r.id, group |-> id]
    /\ UNCHANGED <<up, user_conn_map, s2c>>

HandlerJoinGroup(c, r) ==
    Stays /\ JoinGroup(r.id, r.group_id, "normal") /\ UNCHANGED <<user_conn_map, s2c>>

(* The request is forwarded to each member that has an entry.  The arguments  *)
(* are in the order the code passes them.                                     *)
HandlerGroupChat(c, r) ==
    LET members == GetOtherGroupMembers(r.id, r.groupid)
    IN  /\ Stays
        /\ s2c' = [d \in Conns |->
                     IF ~Ended(d) /\ \E u \in members : <<u, d>> \in user_conn_map
                     THEN Append(s2c[d], r) ELSE s2c[d]]
        /\ UNCHANGED <<directoryVars, user_conn_map>>

(* What Dispatch returns for a msgid that is not in the map only logs. *)
NoHandler(c, r) == Stays /\ UNCHANGED <<user_conn_map, directoryVars, s2c>>

Dispatch(c, r) ==
    \/ Throws(r) /\ Abort
    \/ r.msgid \notin DOMAIN Reads /\ NoHandler(c, r)
    \/ /\ ~Throws(r)
       /\ \/ r.msgid = "login" /\ HandlerLogin(c, r)
          \/ r.msgid = "register" /\ HandlerRegister(c, r)
          \/ r.msgid = "logout" /\ HandlerLogout(c, r)
          \/ r.msgid = "chat" /\ HandlerDirectChat(c, r)
          \/ r.msgid = "addfriend" /\ HandlerAddFriend(c, r)
          \/ r.msgid = "creategroup" /\ HandlerCreateGroup(c, r)
          \/ r.msgid = "joingroup" /\ HandlerJoinGroup(c, r)
          \/ r.msgid = "groupchat" /\ HandlerGroupChat(c, r)

Polling == up /\ handler = Idle

(* OnMessage: k whole requests are read, and perhaps a part of the next. *)
OnMessage(c, k) ==
    /\ Polling /\ ~cut[c]
    /\ Dispatch(c, c2s[c][1])
    /\ c2s' = [c2s EXCEPT ![c] = SubSeq(@, k + 1, Len(@))]
    /\ cut' \in {cut} \cup {f \in {[cut EXCEPT ![c] = TRUE]} : Cuts /\ k < Len(c2s[c])}
    /\ dropped' = [dropped EXCEPT ![c] = @ \/ k > 1]
    /\ UNCHANGED <<open, menuVars, sharedVars, reader>>

(* OnMessage on text that starts or ends inside its first request. *)
OnMessageCut(c) ==
    /\ Polling /\ c2s[c] # <<>>
    /\ cut[c] \/ Cuts
    /\ Abort
    /\ UNCHANGED <<open, cut, dropped, c2s, menuVars, sharedVars, reader>>

(* The second statement of HandlerCreateGroup. *)
CreatorJoins ==
    /\ up /\ handler.todo = "join"
    /\ JoinGroup(handler.user, handler.group, "creator")
    /\ handler' = Idle
    /\ UNCHANGED <<up, user_conn_map, open, cut, dropped, c2s, s2c, menuVars, sharedVars, reader>>

(* ClientCloseException, once per connection: one entry, if there is any. *)
ClientCloseException(c) ==
    /\ Polling /\ Ended(c) /\ c2s[c] = <<>> /\ c \in open
    /\ open' = open \ {c}
    /\ \/ \E u \in Ids : /\ <<u, c>> \in user_conn_map
                         /\ user_conn_map' = user_conn_map \ {<<u, c>>}
                         /\ UpdateState(u, "offline")
       \/ /\ \A u \in Ids : <<u, c>> \notin user_conn_map
          /\ UNCHANGED <<user_conn_map, directoryVars>>
    /\ UNCHANGED <<up, handler, cut, dropped, c2s, s2c, menuVars, sharedVars, reader>>

-----------------------------------------------------------------------------
MenuStep(c) ==
    \/ \E id \in Names, password \in {"right", "wrong"} : Login(c, id, password)
    \/ LoginSend(c)
    \/ \E name \in Names : Register(c, name)
    \/ SemWait(c)
    \/ Quit(c)
    \/ \E r \in CommandRequests(c) : MenuCommand(c, r)
    \/ Logout(c)

ReaderStep(c) == Recv(c) \/ RecvEnd(c) \/ HandleResponse(c) \/ SemPost(c)

Serve(c) ==
    \/ \E k \in 1..Len(c2s[c]) : OnMessage(c, k)
    \/ OnMessageCut(c)
    \/ ClientCloseException(c)

Next ==
    \/ \E c \in Clients : MenuStep(c) \/ ReaderStep(c)
    \/ \E c \in Typed : \E r \in TypedRequests : Type(c, r)
    \/ \E c \in Conns : Serve(c)
    \/ CreatorJoins

Spec == Init /\ [][Next]_vars

(* Threads run; the user of a client need not type anything. *)
Fairness ==
    /\ \A c \in Clients : WF_vars(LoginSend(c)) /\ WF_vars(SemWait(c)) /\ WF_vars(ReaderStep(c))
    /\ \A c \in Conns : WF_vars(Serve(c))
    /\ WF_vars(CreatorJoins)

FairSpec == Spec /\ Fairness

-----------------------------------------------------------------------------
Acked(a, u) == a.msgid \in {"logack", "post"} /\ "id" \in DOMAIN a /\ a.id = u

(* The client waits for a login the server has let in as u, and will know. *)
LearnsOf(c, u) ==
    /\ main[c] = "waitlogin"
    /\ \/ \E i \in DOMAIN s2c[c] : Acked(s2c[c][i], u)
       \/ Acked(reader[c], u)
       \/ sem[c] > 0 /\ is_login_success[c] /\ current_user[c] = u

(* Client and server agree on the session: who is in MainMenu has an entry in *)
(* user_conn_map_ under the id its commands carry, and an entry belongs to a  *)
(* client that is in MainMenu as that user, is about to learn that it is, or  *)
(* has sent its logout.  It takes the order of flag, send, answer, flag and   *)
(* semaphore of main() and ReadTaskHandler.  A dropped request (read together *)
(* with the one before) is the exception.                                     *)
SessionAgreement ==
    \A c \in Clients :
        /\ up /\ main[c] = "MainMenu" => <<current_user[c], c>> \in user_conn_map
        /\ main[c] # "ended" /\ ~dropped[c] =>
              \A u \in Ids : <<u, c>> \in user_conn_map =>
                  \/ main[c] = "MainMenu" /\ current_user[c] = u
                  \/ LearnsOf(c, u)
                  \/ [msgid |-> "logout", id |-> u] \in Range(c2s[c])

(* The id a registration is answered with is the id of the row that carries   *)
(* the name asked for (UserDAO::Insert, HandlerRegister).                     *)
RegisteredAsAsked ==
    \A c \in Clients : \A a \in Range(s2c[c]) \cup {reader[c]} :
        a.msgid = "regack" /\ a.errno = 0 => user[a.id] = asked[c].name

(* HandlerCreateGroup's two statements: once both have run, and unless one of *)
(* them failed, the group has one creator, also when somebody had joined a    *)
(* group of that id before there was one.                                     *)
GroupHasCreator ==
    handler = Idle /\ db_faults = 0 =>
        \A g \in DOMAIN chat_group :
            Cardinality({m \in group_member : m.groupid = g /\ m.grouprole = "creator"}) = 1

Waiting(c) == main[c] \in {"waitlogin", "waitreg"}

(* Nobody hangs in sem_wait: an answer comes, or the client ends, unless the  *)
(* request was dropped.                                                       *)
WaitEnds == \A c \in Clients : Waiting(c) ~> (~Waiting(c) \/ dropped[c])

(* When the server ends, by a cut request or a missing field, every client    *)
(* notices and ends, wherever its menu is.                                    *)
ClientsEnd == ~up ~> \A c \in Clients : main[c] = "ended"

(* Whole requests, whatever they ask for, do not end the server. *)
ServerSurvives == up
=============================================================================
