------------------------- MODULE ClientServerProofs -------------------------
(***************************************************************************)
(* Proofs about the client program and its server for every number of      *)
(* clients and of connections typed by hand, every set of commands and     *)
(* however reads cut or join what is sent: client and server agree on who  *)
(* is logged in, a registration is answered with the id of the row that    *)
(* was asked for, and a group has one creator.                             *)
(***************************************************************************)
EXTENDS ClientServer, SequenceTheorems, FiniteSetTheorems, TLAPS

Users == Nat \cup {NoId}

(* Requests *)
Logins == [msgid : {"login"}, id : Names, password : {"right", "wrong"}]
Registers == [msgid : {"register"}, name : Names, password : {"right"}]
Logouts == [msgid : {"logout"}, id : Users]
CreateGroups == [msgid : {"creategroup"}, id : Users, groupname : Groups, groupdesc : {"text"}]
Others ==
    [msgid : {"addfriend"}, id : Users, friendid : Names]
      \cup [msgid : {"addfriend"}, userid : Names, friendid : Names]
      \cup [msgid : {"joingroup"}, id : Users, groupid : Groups]
      \cup [msgid : {"joingroup"}, id : Names, group_id : Groups]
      \cup [msgid : {"groupchat"}, id : Users, name : Users, groupid : Groups, msg : {"text"},
            time : {"now"}]
      \cup Samples
Chats ==
    [msgid : {"chat"}, id : Users, name : Users, toid : Names, msg : {"text"}, time : {"now"}]
      \cup [msgid : {"chat"}, toid : Names, fromname : Names, msg : {"text"}]
Requests == Logins \cup Registers \cup Logouts \cup CreateGroups \cup Others \cup Chats

(* Answers; one that the reader has handled has msgid "post". *)
Refusals(M) == [msgid : M, errno : {1, 2}]
Admissions(M) ==
    [msgid : M, errno : {0}, id : Nat, name : Names, friendinfo : SUBSET Nat]
Insertions(M) == [msgid : M, errno : {0}, id : Nat]
LogAcks == Refusals({"logack"}) \cup Admissions({"logack"})
RegAcks == Refusals({"regack"}) \cup Insertions({"regack"})
Posts == Refusals({"post"}) \cup Admissions({"post"}) \cup Insertions({"post"})
Answers == LogAcks \cup RegAcks \cup Chats

TypeInv ==
    /\ user \in Seq(Names) /\ online \subseteq Ids /\ chat_group \in Seq(Groups)
    /\ db_faults \in Nat
    /\ up \in BOOLEAN
    /\ user_conn_map \subseteq Ids \X Conns /\ open \subseteq Conns
    /\ c2s \in [Conns -> Seq(Requests)] /\ s2c \in [Conns -> Seq(Answers)]
    /\ cut \in [Conns -> BOOLEAN] /\ dropped \in [Conns -> BOOLEAN]
    /\ main \in [Clients -> {"menu", "login", "waitlogin", "waitreg", "MainMenu", "ended"}]
    /\ current_user \in [Clients -> Ids \cup {NoId}]
    /\ is_login_success \in [Clients -> BOOLEAN]
    /\ sem \in [Clients -> Nat]
    /\ reader \in [Clients -> {NoAnswer} \cup LogAcks \cup RegAcks \cup Posts]
    /\ asked \in [Clients -> {NoAnswer} \cup Logins \cup Registers]

(* Only client programs log in, register and log out. *)
TypedOK ==
    \A c \in Typed : \A i \in 1..Len(c2s[c]) :
        c2s[c][i] \in CreateGroups \cup Others \cup Chats

-----------------------------------------------------------------------------
(* One exchange at a time: how far the one that client c waits for has come.  *)

IsAck(a) == a.msgid # "chat"
AckSent(c) == \E i \in 1..Len(s2c[c]) : IsAck(s2c[c][i])
Answered(c) == AckSent(c) \/ reader[c] # NoAnswer \/ sem[c] # 0

(* A login or registration is the last request on its way, a logout is the    *)
(* only one, and neither is left once the client may act as logged in.        *)
RequestsOK(c) ==
    /\ \A i \in 1..Len(c2s[c]) : c2s[c][i] \in Logins \cup Registers =>
          i = Len(c2s[c]) /\ (main[c] = "ended" \/ (Waiting(c) /\ c2s[c][i] = asked[c]))
    /\ \A i, j \in 1..Len(c2s[c]) : c2s[c][i] \in Logouts /\ c2s[c][j] \in Logouts => i = j
    /\ main[c] = "MainMenu" => \A i \in 1..Len(c2s[c]) : c2s[c][i] \notin Logouts
    /\ main[c] \in {"login", "waitlogin"} => asked[c] \in Logins
    /\ main[c] = "waitreg" => asked[c] \in Registers

AnswersOK(c) ==
    /\ main[c] = "ended" => s2c[c] = <<>> /\ reader[c] = NoAnswer
    /\ main[c] # "ended" /\ Answered(c) => Waiting(c) /\ c2s[c] = <<>>
    /\ AckSent(c) => reader[c] = NoAnswer /\ sem[c] = 0
    /\ reader[c] # NoAnswer => sem[c] = 0
    /\ sem[c] \in {0, 1}
    /\ \A i, j \in 1..Len(s2c[c]) : IsAck(s2c[c][i]) /\ IsAck(s2c[c][j]) => i = j
    /\ \A i \in 1..Len(s2c[c]) :
          /\ s2c[c][i] \in LogAcks => main[c] = "waitlogin"
          /\ s2c[c][i] \in RegAcks => main[c] = "waitreg"
    /\ reader[c] \in LogAcks => main[c] = "waitlogin"
    /\ reader[c] \in RegAcks => main[c] = "waitreg"

(* What the answers say is so. *)
HasEntry(c, u) == up => <<u, c>> \in user_conn_map
AnswerTrue(c, a) ==
    /\ a \in Admissions({"logack"}) => a.id \in Ids /\ HasEntry(c, a.id)
    /\ a \in Insertions({"regack"}) => a.id \in Ids /\ user[a.id] = asked[c].name
AnswersTrue(c) ==
    /\ \A i \in 1..Len(s2c[c]) : AnswerTrue(c, s2c[c][i])
    /\ AnswerTrue(c, reader[c])

-----------------------------------------------------------------------------
(* Sessions *)

EntriesOK ==
    /\ \A u \in Ids : \A c, d \in Conns :
          <<u, c>> \in user_conn_map /\ <<u, d>> \in user_conn_map => c = d
    /\ \A u \in Ids : \A c \in Conns : <<u, c>> \in user_conn_map => u \in online

LoggedIn(c) ==
    /\ main[c] = "MainMenu" => HasEntry(c, current_user[c])
    /\ main[c] \in {"login", "waitlogin"} /\ is_login_success[c] =>
          /\ main[c] = "waitlogin" /\ (reader[c] \in Posts \/ sem[c] # 0)
          /\ HasEntry(c, current_user[c])
    /\ \A i \in 1..Len(c2s[c]) : c2s[c][i] \in Logouts => HasEntry(c, c2s[c][i].id)

Learnt(c) ==
    main[c] = "waitlogin" /\ reader[c] \in Admissions({"post"}) =>
        is_login_success[c] /\ current_user[c] = reader[c].id

(* Why client c has an entry under u. *)
Knows(c, u) ==
    \/ main[c] = "MainMenu" /\ current_user[c] = u
    \/ /\ main[c] = "waitlogin"
       /\ \/ \E i \in 1..Len(s2c[c]) : s2c[c][i] \in Admissions({"logack"}) /\ s2c[c][i].id = u
          \/ reader[c] \in Admissions({"logack", "post"}) /\ reader[c].id = u
          \/ sem[c] # 0 /\ is_login_success[c] /\ current_user[c] = u
    \/ \E i \in 1..Len(c2s[c]) : c2s[c][i] \in Logouts /\ c2s[c][i].id = u
KnownEntries(c) ==
    main[c] # "ended" /\ ~dropped[c] =>
        \A u \in Ids : <<u, c>> \in user_conn_map => Knows(c, u)

ClientInv(c) ==
    /\ RequestsOK(c) /\ AnswersOK(c) /\ AnswersTrue(c)
    /\ LoggedIn(c) /\ Learnt(c) /\ KnownEntries(c)

SessionInv == TypedOK /\ EntriesOK /\ \A c \in Clients : ClientInv(c)

-----------------------------------------------------------------------------
(* Groups *)

Creators(g) == {m \in group_member : m.groupid = g /\ m.grouprole = "creator"}

GroupInv ==
    /\ handler # Idle => handler.todo = "join" /\ handler.group = Len(chat_group)
                         /\ Len(chat_group) # 0
    /\ db_faults = 0 =>
          \A g \in Nat :
             IF g \in 1..Len(chat_group) /\ (handler = Idle \/ g # Len(chat_group))
             THEN \E m \in group_member : Creators(g) = {m}
             ELSE Creators(g) = {}

-----------------------------------------------------------------------------
(* What the records are told apart by *)

(* The samples' msgids mislead: none is what the handler of its msgid reads. *)
LEMMA SampleKinds ==
  ASSUME NEW r \in Samples
  PROVE  /\ r.msgid \in {"logout", "regack", "chat", "addfriend", "creategroup"}
         /\ r.msgid # "regack" => Throws(r)
         /\ r \notin Logouts /\ r \notin CreateGroups /\ r \notin Chats
<1>1. CASE r = [msgid |-> "logout", name |-> "text", password |-> "text"]
  <2>1. r.msgid = "logout" /\ "id" \notin DOMAIN r
    BY <1>1
  <2>2. r \notin Logouts
    BY <2>1 DEF Logouts
  <2> QED BY <2>1, <2>2 DEF Throws, Reads, CreateGroups, Chats
<1>2. CASE r = [msgid |-> "regack", toid |-> 1, fromname |-> "text", msg |-> "text"]
  <2>1. r.msgid = "regack"
    BY <1>2
  <2> QED BY <2>1 DEF Logouts, CreateGroups, Chats
<1>3. CASE r = [msgid |-> "chat", userid |-> 1, friendid |-> 1]
  <2>1. r.msgid = "chat" /\ "toid" \notin DOMAIN r
    BY <1>3
  <2>2. r \notin Chats
    BY <2>1 DEF Chats
  <2> QED BY <2>1, <2>2 DEF Throws, Reads, CreateGroups, Logouts
<1>4. CASE r = [msgid |-> "addfriend", id |-> 1, groupname |-> "text", groupdesc |-> "text"]
  <2>1. r.msgid = "addfriend" /\ "userid" \notin DOMAIN r
    BY <1>4
  <2> QED BY <2>1 DEF Throws, Reads, CreateGroups, Logouts, Chats
<1>5. CASE r = [msgid |-> "creategroup", id |-> 1, group_id |-> 1]
  <2>1. r.msgid = "creategroup" /\ "groupname" \notin DOMAIN r
    BY <1>5
  <2>2. r \notin CreateGroups
    BY <2>1 DEF CreateGroups
  <2> QED BY <2>1, <2>2 DEF Throws, Reads, Logouts, Chats
<1> QED BY <1>1, <1>2, <1>3, <1>4, <1>5 DEF Samples

LEMMA RequestKinds ==
  ASSUME NEW r \in Requests
  PROVE  /\ r \in Logins <=> r.msgid = "login"
         /\ r \in Registers <=> r.msgid = "register"
         /\ r \in Logouts <=> r.msgid = "logout" /\ r \notin Samples
         /\ r \in CreateGroups <=> r.msgid = "creategroup" /\ r \notin Samples
         /\ r \in Chats <=> r.msgid = "chat" /\ r \notin Samples
         /\ r \in Others <=> r.msgid \in {"addfriend", "joingroup", "groupchat"} \/ r \in Samples
         /\ r \in Samples => r.msgid \notin {"login", "register"}
         /\ r.msgid \in DOMAIN Reads \cup {"regack"}
<1>0. CASE r \in Samples
  BY <1>0, SampleKinds DEF Logins, Registers, Others, Reads
<1> DEFINE Plain == r \notin Samples
<1>1. CASE r \in Logins /\ Plain
  BY <1>1 DEF Requests, Logins, Registers, Logouts, CreateGroups, Others, Chats, Reads
<1>2. CASE r \in Registers /\ Plain
  BY <1>2 DEF Requests, Logins, Registers, Logouts, CreateGroups, Others, Chats, Reads
<1>3. CASE r \in Logouts /\ Plain
  BY <1>3 DEF Requests, Logins, Registers, Logouts, CreateGroups, Others, Chats, Reads
<1>4. CASE r \in CreateGroups /\ Plain
  BY <1>4 DEF Requests, Logins, Registers, Logouts, CreateGroups, Others, Chats, Reads
<1>5. CASE r \in Others /\ Plain
  BY <1>5 DEF Requests, Logins, Registers, Logouts, CreateGroups, Others, Chats, Reads
<1>6. CASE r \in Chats /\ Plain
  BY <1>6 DEF Requests, Logins, Registers, Logouts, CreateGroups, Others, Chats, Reads
<1> QED BY <1>0, <1>1, <1>2, <1>3, <1>4, <1>5, <1>6 DEF Requests

LEMMA AckKinds ==
  ASSUME NEW a \in {NoAnswer} \cup LogAcks \cup RegAcks \cup Posts
  PROVE  /\ a = NoAnswer <=> a.msgid = "none"
         /\ a \in LogAcks <=> a.msgid = "logack"
         /\ a \in RegAcks <=> a.msgid = "regack"
         /\ a \in Posts <=> a.msgid = "post"
         /\ a.msgid \in {"none", "logack", "regack", "post"}
         /\ a \in Admissions({"logack"}) <=> a.msgid = "logack" /\ a.errno = 0
         /\ a \in Insertions({"regack"}) <=> a.msgid = "regack" /\ a.errno = 0
<1>1. CASE a = NoAnswer
  BY <1>1 DEF NoAnswer, LogAcks, RegAcks, Posts, Admissions, Insertions, Refusals
<1>2. CASE a \in LogAcks
  BY <1>2 DEF NoAnswer, LogAcks, RegAcks, Posts, Admissions, Insertions, Refusals
<1>3. CASE a \in RegAcks
  BY <1>3 DEF NoAnswer, LogAcks, RegAcks, Posts, Admissions, Insertions, Refusals
<1>4. CASE a \in Posts
  BY <1>4 DEF NoAnswer, LogAcks, RegAcks, Posts, Admissions, Insertions, Refusals
<1> QED BY <1>1, <1>2, <1>3, <1>4

LEMMA AnswerKinds ==
  ASSUME NEW a \in Answers
  PROVE  /\ a \in LogAcks <=> a.msgid = "logack"
         /\ a \in RegAcks <=> a.msgid = "regack"
         /\ a \in Chats <=> a.msgid = "chat"
         /\ a.msgid \in {"logack", "regack", "chat"}
         /\ a \in Admissions({"logack"}) <=> a.msgid = "logack" /\ a.errno = 0
         /\ a \in Insertions({"regack"}) <=> a.msgid = "regack" /\ a.errno = 0
         /\ a \notin Chats => a \in {NoAnswer} \cup LogAcks \cup RegAcks \cup Posts
<1>1. CASE a \in LogAcks
  BY <1>1 DEF Chats, LogAcks, RegAcks, Admissions, Insertions, Refusals
<1>2. CASE a \in RegAcks
  BY <1>2 DEF Chats, LogAcks, RegAcks, Admissions, Insertions, Refusals
<1>3. CASE a \in Chats
  BY <1>3 DEF Chats, LogAcks, RegAcks, Admissions, Insertions, Refusals
<1> QED BY <1>1, <1>2, <1>3 DEF Answers

(* The answer after the reader has handled it. *)
LEMMA PostOf ==
  ASSUME NEW a \in LogAcks \cup RegAcks, NEW b, b = [a EXCEPT !.msgid = "post"]
  PROVE  /\ b \in Posts /\ b # NoAnswer
         /\ a \in Admissions({"logack"}) => b \in Admissions({"post"}) /\ b.id = a.id
         /\ b \in Admissions({"post"}) => a.errno = 0 /\ b.id = a.id
         /\ a \in LogAcks /\ a.errno = 0 <=> a \in Admissions({"logack"})
         /\ b.errno = a.errno
<1>1. CASE a \in LogAcks
  BY <1>1 DEF NoAnswer, LogAcks, RegAcks, Posts, Admissions, Insertions, Refusals
<1>2. CASE a \in RegAcks
  BY <1>2 DEF NoAnswer, LogAcks, RegAcks, Posts, Admissions, Insertions, Refusals
<1> QED BY <1>1, <1>2

LEMMA IdsOf ==
  ASSUME TypeInv
  PROVE  Len(user) \in Nat /\ Ids = 1..Len(user) /\ Ids \subseteq Nat
<1>1. user \in Seq(Names)
  BY DEF TypeInv
<1>2. Len(user) \in Nat /\ DOMAIN user = 1..Len(user)
  BY <1>1, LenProperties
<1> QED BY <1>2 DEF Ids

LEMMA CommandTypes ==
  ASSUME TypeInv, NEW c \in Clients
  PROVE  CommandRequests(c) \subseteq CreateGroups \cup Others \cup Chats
<1>1. PICK me \in Users : me = current_user[c]
  BY IdsOf DEF TypeInv, Users
<1>2. ASSUME NEW f \in Names
      PROVE  /\ [msgid |-> "addfriend", id |-> me, friendid |-> f] \in Others
             /\ [msgid |-> "chat", id |-> me, name |-> me, toid |-> f, msg |-> "text",
                 time |-> "now"] \in Chats
  BY DEF Others, Chats
<1>3. ASSUME NEW g \in Groups
      PROVE  /\ [msgid |-> "creategroup", id |-> me, groupname |-> g, groupdesc |-> "text"]
                   \in CreateGroups
             /\ [msgid |-> "joingroup", id |-> me, groupid |-> g] \in Others
             /\ [msgid |-> "groupchat", id |-> me, name |-> me, groupid |-> g, msg |-> "text",
                 time |-> "now"] \in Others
  BY DEF Others, CreateGroups
<1> QED BY <1>1, <1>2, <1>3 DEF CommandRequests

LEMMA TypedTypes == TypedRequests \subseteq Others \cup Chats
  BY DEF TypedRequests, Others, Chats, Users

-----------------------------------------------------------------------------
(* Sequences *)

LEMMA Appended ==
  ASSUME NEW S, NEW s \in Seq(S), NEW e \in S, NEW t, t = Append(s, e)
  PROVE  /\ t \in Seq(S) /\ Len(s) \in Nat /\ Len(t) = Len(s) + 1
         /\ \A i \in 1..Len(s) : t[i] = s[i]
         /\ t[Len(s) + 1] = e
         /\ \A i \in 1..Len(t) : i \in 1..Len(s) \/ i = Len(s) + 1
<1>1. /\ t \in Seq(S) /\ Len(t) = Len(s) + 1
      /\ \A i \in 1..Len(s) : t[i] = s[i]
      /\ t[Len(s) + 1] = e
  BY AppendProperties
<1>2. Len(s) \in Nat
  BY LenProperties
<1> QED BY <1>1, <1>2

LEMMA CutOff ==
  ASSUME NEW S, NEW s \in Seq(S), NEW k \in 1..Len(s), NEW t, t = SubSeq(s, k + 1, Len(s))
  PROVE  /\ t \in Seq(S) /\ Len(s) \in Nat /\ Len(t) = Len(s) - k
         /\ \A i \in 1..Len(t) : i + k \in 2..Len(s) /\ t[i] = s[i + k]
<1>1. Len(s) \in Nat /\ k \in Nat /\ k >= 1 /\ k <= Len(s)
  BY LenProperties
<1>2. \A i \in (k + 1)..Len(s) : s[i] \in S
  <2>1. \A i \in (k + 1)..Len(s) : i \in 1..Len(s)
    BY <1>1
  <2> QED BY <2>1, ElementOfSeq
<1>3. k + 1 \in Int /\ Len(s) \in Int
  BY <1>1
<1>4. /\ t \in Seq(S)
      /\ Len(t) = IF k + 1 <= Len(s) THEN Len(s) - (k + 1) + 1 ELSE 0
      /\ \A i \in 1..(Len(s) - (k + 1) + 1) : t[i] = s[(k + 1) + i - 1]
  BY <1>2, <1>3, SubSeqProperties
<1>5. Len(t) = Len(s) - k /\ Len(s) - (k + 1) + 1 = Len(s) - k
  BY <1>1, <1>4
<1>6. ASSUME NEW i \in 1..Len(t)
      PROVE  i + k \in 2..Len(s) /\ t[i] = s[i + k]
  <2>1. PICK n \in Nat : n = Len(s)
    BY <1>1
  <2>2. i \in 1..(n - k)
    BY <1>5, <2>1
  <2>3. i + k \in 2..n /\ (k + 1) + i - 1 = i + k
    BY ONLY n \in Nat, <1>1, <2>1, <2>2
  <2> QED BY <1>4, <1>5, <2>1, <2>2, <2>3
<1> QED BY <1>1, <1>4, <1>5, <1>6

LEMMA TailOf ==
  ASSUME NEW S, NEW s \in Seq(S), s # <<>>, NEW t, t = Tail(s)
  PROVE  /\ s[1] \in S /\ Len(s) \in Nat /\ Len(s) >= 1
         /\ t \in Seq(S) /\ Len(t) = Len(s) - 1
         /\ \A i \in 1..Len(t) : i + 1 \in 2..Len(s) /\ t[i] = s[i + 1]
<1>1. Len(s) \in Nat /\ Len(s) # 0
  BY LenProperties, EmptySeq
<1>2. s[1] \in S
  <2>1. 1 \in 1..Len(s)
    BY <1>1
  <2> QED BY <2>1, ElementOfSeq
<1>3. t \in Seq(S) /\ Len(t) = Len(s) - 1 /\ \A i \in 1..Len(t) : t[i] = s[i + 1]
  BY HeadTailProperties
<1> QED BY <1>1, <1>2, <1>3

LEMMA InQueues ==
  ASSUME TypeInv, NEW c \in Conns
  PROVE  /\ c2s[c] \in Seq(Requests) /\ Len(c2s[c]) \in Nat
         /\ \A i \in 1..Len(c2s[c]) : c2s[c][i] \in Requests
         /\ s2c[c] \in Seq(Answers) /\ Len(s2c[c]) \in Nat
         /\ \A i \in 1..Len(s2c[c]) : s2c[c][i] \in Answers
<1>1. PICK q \in Seq(Requests) : q = c2s[c]
  BY DEF TypeInv
<1>2. PICK s \in Seq(Answers) : s = s2c[c]
  BY DEF TypeInv
<1>3. Len(q) \in Nat /\ \A i \in 1..Len(q) : q[i] \in Requests
  BY LenProperties, ElementOfSeq
<1>4. Len(s) \in Nat /\ \A i \in 1..Len(s) : s[i] \in Answers
  BY LenProperties, ElementOfSeq
<1> QED BY <1>1, <1>2, <1>3, <1>4

-----------------------------------------------------------------------------
(* The server's answers *)

LEMMA AnswerOf ==
  ASSUME TypeInv, NEW c \in Conns, NEW a \in Answers, Answer(c, a)
  PROVE  /\ s2c' \in [Conns -> Seq(Answers)]
         /\ \A d \in Conns : d # c => s2c'[d] = s2c[d]
         /\ s2c'[c] = IF Ended(c) THEN s2c[c] ELSE Append(s2c[c], a)
<1>1. Append(s2c[c], a) \in Seq(Answers)
  <2>1. PICK s \in Seq(Answers) : s = s2c[c]
    BY DEF TypeInv
  <2> QED BY <2>1, AppendProperties
<1> QED BY <1>1 DEF Answer, TypeInv

LEMMA InsertOf ==
  ASSUME TypeInv, NEW name \in Names, NEW id, Insert(name, id)
  PROVE  /\ user' \in Seq(Names) /\ db_faults' \in Nat
         /\ Ids \subseteq Ids' /\ \A i \in Ids : user'[i] = user[i]
         /\ id # NoId => id \in Ids' /\ id \in Nat /\ user'[id] = name
         /\ UNCHANGED <<online, chat_group, group_member>>
         /\ db_faults' = 0 => db_faults = 0
<1>1. PICK u \in Seq(Names) : u = user
  BY DEF TypeInv
<1>2. CASE user' = user
  BY <1>1, <1>2, DirectoryAssumption DEF Insert, DirectoryFault, directoryVars, TypeInv, Ids
<1>3. CASE /\ user' = Append(user, name) /\ id = Len(user) + 1
           /\ UNCHANGED <<online, chat_group, group_member, db_faults>>
  <2>1. PICK v : v = Append(u, name)
    OBVIOUS
  <2>2. /\ v \in Seq(Names) /\ Len(u) \in Nat /\ Len(v) = Len(u) + 1
        /\ \A i \in 1..Len(u) : v[i] = u[i]
        /\ v[Len(u) + 1] = name
    BY <2>1, Appended
  <2>3. DOMAIN v = 1..Len(v) /\ DOMAIN u = 1..Len(u)
    BY <2>2, LenProperties
  <2> QED BY <1>1, <1>3, <2>1, <2>2, <2>3 DEF TypeInv, Ids
<1> QED BY <1>2, <1>3 DEF Insert, DirectoryFault, directoryVars

-----------------------------------------------------------------------------
(* What a request may do to the server *)

Admitted(c, r) ==
    /\ r \in Logins /\ r.id \in Ids /\ r.id \notin online
    /\ Stays /\ user_conn_map' = user_conn_map \cup {<<r.id, c>>}
    /\ online' = online \cup {r.id}
    /\ UNCHANGED <<user, chat_group, group_member, db_faults>>
    /\ \E a \in Admissions({"logack"}) : a.id = r.id /\ Answer(c, a)

Refused(c, r) ==
    /\ r \in Logins
    /\ Stays /\ UNCHANGED <<user_conn_map, directoryVars>>
    /\ \E a \in Refusals({"logack"}) : Answer(c, a)

Inserted(c, r) ==
    /\ r \in Registers
    /\ Stays /\ UNCHANGED user_conn_map
    /\ \E id : /\ Insert(r.name, id)
               /\ \E a \in RegAcks : /\ Answer(c, a)
                                     /\ a \in Insertions({"regack"}) => id # NoId /\ a.id = id

LoggedOut(c, r) ==
    /\ r \in Logouts
    /\ Stays /\ user_conn_map' = {e \in user_conn_map : e[1] # r.id}
    /\ online' = online \ {r.id}
    /\ UNCHANGED <<user, chat_group, group_member, db_faults, s2c>>

Forwarded(c, r) ==
    /\ r \in Chats
    /\ Stays /\ UNCHANGED <<user_conn_map, directoryVars>>
    /\ UNCHANGED s2c \/ \E d \in Conns : Answer(d, r)

Quiet(c, r) ==
    /\ r \in CreateGroups \cup Others
    /\ UNCHANGED <<up, user_conn_map, user, online, s2c>>
    /\ chat_group' \in Seq(Groups) /\ db_faults' \in Nat

LEMMA LoginCases ==
  ASSUME TypeInv, EntriesOK, NEW c \in Conns, NEW r \in Logins, HandlerLogin(c, r)
  PROVE  Admitted(c, r) \/ Refused(c, r)
<1>1. CASE r.id \in Ids /\ r.password = "right" /\ r.id \notin online
  <2>1. \A d \in Conns : <<r.id, d>> \notin user_conn_map
    BY <1>1 DEF EntriesOK
  <2>2. user_conn_map' = user_conn_map \cup {<<r.id, c>>}
    BY <1>1, <2>1 DEF HandlerLogin
  <2>3. PICK a : a = [msgid |-> "logack", errno |-> 0, id |-> r.id, name |-> user[r.id],
                      friendinfo |-> GetFriends(r.id)]
    OBVIOUS
  <2>4. r.id \in Nat /\ user[r.id] \in Names /\ GetFriends(r.id) \subseteq Nat
    <3>1. user[r.id] \in Names
      <4>1. PICK u \in Seq(Names) : u = user
        BY DEF TypeInv
      <4>2. r.id \in 1..Len(u)
        BY <1>1, <4>1, IdsOf
      <4> QED BY <4>1, <4>2, ElementOfSeq
    <3> QED BY <1>1, <3>1, IdsOf DEF GetFriends, Ids
  <2>5. a \in Admissions({"logack"}) /\ a.id = r.id
    BY <2>3, <2>4 DEF Admissions
  <2>6. Answer(c, a)
    BY <1>1, <2>3 DEF HandlerLogin
  <2>7. Stays /\ online' = online \cup {r.id} /\ UNCHANGED <<user, chat_group, group_member, db_faults>>
    BY <1>1 DEF HandlerLogin, UpdateState
  <2> QED BY <1>1, <2>2, <2>5, <2>6, <2>7 DEF Admitted
<1>2. CASE ~(r.id \in Ids /\ r.password = "right" /\ r.id \notin online)
  <2>1. PICK n \in {1, 2} : Answer(c, LogAck(n))
    BY <1>2 DEF HandlerLogin
  <2>2. LogAck(n) \in Refusals({"logack"})
    BY DEF LogAck, Refusals
  <2> QED BY <1>2, <2>1, <2>2 DEF HandlerLogin, Refused
<1> QED BY <1>1, <1>2

LEMMA RegisterCases ==
  ASSUME TypeInv, NEW c \in Conns, NEW r \in Registers, HandlerRegister(c, r)
  PROVE  Inserted(c, r)
<1>1. PICK id \in Names \cup {NoId} :
         /\ Insert(r.name, id)
         /\ Answer(c, IF id = NoId THEN [msgid |-> "regack", errno |-> 1]
                                   ELSE [msgid |-> "regack", errno |-> 0, id |-> id])
  BY DEF HandlerRegister
<1>2. r.name \in Names
  BY DEF Registers
<1>3. id # NoId => id \in Nat
  BY <1>1, <1>2, InsertOf
<1>4. PICK a : a = IF id = NoId THEN [msgid |-> "regack", errno |-> 1]
                                ELSE [msgid |-> "regack", errno |-> 0, id |-> id]
  OBVIOUS
<1>5. a \in RegAcks /\ (a \in Insertions({"regack"}) => id # NoId /\ a.id = id)
  BY <1>3, <1>4 DEF RegAcks, Refusals, Insertions
<1> QED BY <1>1, <1>4, <1>5 DEF HandlerRegister, Inserted

LEMMA QuietCases ==
  ASSUME TypeInv, NEW c \in Conns, NEW r \in CreateGroups \cup Others,
         HandlerAddFriend(c, r) \/ HandlerJoinGroup(c, r) \/ HandlerGroupChat(c, r)
           \/ (r \in CreateGroups /\ HandlerCreateGroup(c, r))
  PROVE  Quiet(c, r)
<1>t. chat_group \in Seq(Groups) /\ db_faults \in Nat /\ s2c \in [Conns -> Seq(Answers)]
  BY DEF TypeInv
<1>1. CASE HandlerAddFriend(c, r)
  BY <1>t, <1>1 DEF HandlerAddFriend, AddFriend, DirectoryFault, Stays, Quiet
<1>2. CASE HandlerJoinGroup(c, r)
  BY <1>t, <1>2 DEF HandlerJoinGroup, JoinGroup, DirectoryFault, Stays, Quiet
<1>3. CASE HandlerGroupChat(c, r)
  <2>1. s2c' = [d \in Conns |-> s2c[d]]
    BY <1>3 DEF HandlerGroupChat, GetOtherGroupMembers
  <2>2. s2c' = s2c
    BY <1>t, <2>1
  <2> QED BY <1>t, <1>3, <2>2 DEF HandlerGroupChat, Stays, Quiet, directoryVars
<1>4. CASE r \in CreateGroups /\ HandlerCreateGroup(c, r)
  <2>1. r.groupname \in Groups
    BY <1>4 DEF CreateGroups
  <2>2. PICK more \in Seq(Groups) : more = Append(chat_group, r.groupname)
    BY <1>t, <2>1, AppendProperties
  <2>3. PICK id : CreateGroup(r.groupname, id)
    BY <1>4 DEF HandlerCreateGroup
  <2>4. UNCHANGED <<up, user_conn_map, s2c>>
    BY <1>4 DEF HandlerCreateGroup
  <2>5. UNCHANGED <<user, online>>
    BY <2>3 DEF CreateGroup, DirectoryFault
  <2>6. chat_group' \in Seq(Groups) /\ db_faults' \in Nat
    <3>1. \/ chat_group' = more /\ db_faults' = db_faults
          \/ chat_group' = chat_group /\ db_faults' = db_faults + 1
      BY <2>2, <2>3 DEF CreateGroup, DirectoryFault
    <3> QED BY <1>t, <3>1
  <2> QED BY <1>4, <2>4, <2>5, <2>6 DEF Quiet
<1> QED BY <1>1, <1>2, <1>3, <1>4

LEMMA DispatchCases ==
  ASSUME TypeInv, EntriesOK, NEW c \in Conns, NEW r \in Requests, Dispatch(c, r)
  PROVE  \/ r \notin Logouts /\ Abort
         \/ Admitted(c, r) \/ Refused(c, r) \/ Inserted(c, r) \/ LoggedOut(c, r)
         \/ Forwarded(c, r) \/ Quiet(c, r)
<1>k. /\ r \in Logins <=> r.msgid = "login"
      /\ r \in Registers <=> r.msgid = "register"
      /\ r \in Logouts <=> r.msgid = "logout" /\ r \notin Samples
      /\ r \in CreateGroups <=> r.msgid = "creategroup" /\ r \notin Samples
      /\ r \in Chats <=> r.msgid = "chat" /\ r \notin Samples
      /\ r \in Others <=> r.msgid \in {"addfriend", "joingroup", "groupchat"} \/ r \in Samples
      /\ r \in Samples => r.msgid \notin {"login", "register"}
      /\ r.msgid \in DOMAIN Reads \cup {"regack"}
  BY RequestKinds
<1>s. r \in Samples /\ ~Throws(r) => r.msgid = "regack"
  BY SampleKinds
<1>1. CASE Throws(r) /\ Abort
  <2>1. r \in Logouts => ~Throws(r)
    BY <1>k DEF Throws, Reads, Logouts
  <2> QED BY <1>1, <2>1
<1>2. CASE r.msgid = "login" /\ HandlerLogin(c, r)
  BY <1>k, <1>2, LoginCases
<1>3. CASE r.msgid = "register" /\ HandlerRegister(c, r)
  BY <1>k, <1>3, RegisterCases
<1>4. CASE ~Throws(r) /\ r.msgid = "logout" /\ HandlerLogout(c, r)
  BY <1>k, <1>s, <1>4 DEF HandlerLogout, UpdateState, LoggedOut
<1>5. CASE ~Throws(r) /\ r.msgid = "chat" /\ HandlerDirectChat(c, r)
  <2>1. CASE \E d \in Conns : <<r.toid, d>> \in user_conn_map
    <3>1. PICK d : d = CHOOSE e \in Conns : <<r.toid, e>> \in user_conn_map
      OBVIOUS
    <3>2. d \in Conns
      BY <2>1, <3>1
    <3>3. Answer(d, r)
      BY <1>5, <2>1, <3>1 DEF HandlerDirectChat
    <3> QED BY <1>k, <1>s, <1>5, <3>2, <3>3 DEF HandlerDirectChat, Forwarded
  <2>2. CASE ~\E d \in Conns : <<r.toid, d>> \in user_conn_map
    BY <1>k, <1>s, <1>5, <2>2 DEF HandlerDirectChat, Forwarded
  <2> QED BY <2>1, <2>2
<1>6. CASE r.msgid = "addfriend" /\ HandlerAddFriend(c, r)
  BY <1>k, <1>6, QuietCases
<1>7. CASE ~Throws(r) /\ r.msgid = "creategroup" /\ HandlerCreateGroup(c, r)
  BY <1>k, <1>s, <1>7, QuietCases
<1>8. CASE r.msgid = "joingroup" /\ HandlerJoinGroup(c, r)
  BY <1>k, <1>8, QuietCases
<1>9. CASE r.msgid = "groupchat" /\ HandlerGroupChat(c, r)
  BY <1>k, <1>9, QuietCases
<1>10. CASE r.msgid \notin DOMAIN Reads /\ NoHandler(c, r)
  <2>1. r.msgid \notin {"login", "register", "logout", "creategroup", "chat"}
    BY <1>10 DEF Reads
  <2>2. r \in Others
    BY <1>k, <2>1 DEF Requests
  <2> QED BY <1>10, <2>2 DEF NoHandler, Stays, Quiet, directoryVars, TypeInv
<1> QED BY <1>1, <1>2, <1>3, <1>4, <1>5, <1>6, <1>7, <1>8, <1>9, <1>10 DEF Dispatch

-----------------------------------------------------------------------------
(* Types *)

LEMMA SendOf ==
  ASSUME TypeInv, NEW c \in Conns, NEW r \in Requests, Send(c, r)
  PROVE  /\ c2s' \in [Conns -> Seq(Requests)]
         /\ c2s'[c] = Append(c2s[c], r)
         /\ \A d \in Conns : d # c => c2s'[d] = c2s[d]
<1>1. PICK q \in Seq(Requests) : q = c2s[c]
  BY DEF TypeInv
<1>2. PICK more \in Seq(Requests) : more = Append(q, r)
  BY AppendProperties
<1>3. c2s' = [c2s EXCEPT ![c] = more]
  BY <1>1, <1>2 DEF Send
<1> QED BY <1>1, <1>2, <1>3 DEF TypeInv

LEMMA MenuOf ==
  ASSUME TypeInv, NEW c \in Clients, NEW from, NEW to, MenuGoes(c, from, to),
         to \in {"menu", "login", "waitlogin", "waitreg", "MainMenu", "ended"}
  PROVE  /\ main' \in [Clients -> {"menu", "login", "waitlogin", "waitreg", "MainMenu", "ended"}]
         /\ main[c] = from /\ main'[c] = to
         /\ \A d \in Clients : d # c => main'[d] = main[d]
  BY DEF MenuGoes, TypeInv

LEMMA EndOf ==
  ASSUME TypeInv, NEW c \in Clients, End(c)
  PROVE  /\ main' \in [Clients -> {"menu", "login", "waitlogin", "waitreg", "MainMenu", "ended"}]
         /\ c2s' \in [Conns -> Seq(Requests)] /\ s2c' \in [Conns -> Seq(Answers)]
         /\ reader' \in [Clients -> {NoAnswer} \cup LogAcks \cup RegAcks \cup Posts]
         /\ main'[c] = "ended" /\ s2c'[c] = <<>> /\ reader'[c] = NoAnswer
         /\ c2s'[c] \in {c2s[c], <<>>}
         /\ \A d \in Clients : d # c => main'[d] = main[d] /\ reader'[d] = reader[d]
         /\ \A d \in Conns : d # c => c2s'[d] = c2s[d] /\ s2c'[d] = s2c[d]
<1>1. c \in Conns
  BY DEF Conns
<1>2. PICK none \in Seq(Requests) : none = <<>>
  BY EmptySeq
<1>3. PICK noanswers \in Seq(Answers) : noanswers = <<>>
  BY EmptySeq
<1>4. /\ main' \in [Clients -> {"menu", "login", "waitlogin", "waitreg", "MainMenu", "ended"}]
      /\ main'[c] = "ended" /\ \A d \in Clients : d # c => main'[d] = main[d]
  BY DEF End, TypeInv
<1>5. /\ reader' \in [Clients -> {NoAnswer} \cup LogAcks \cup RegAcks \cup Posts]
      /\ reader'[c] = NoAnswer /\ \A d \in Clients : d # c => reader'[d] = reader[d]
  BY DEF End, TypeInv
<1>6. /\ s2c' \in [Conns -> Seq(Answers)]
      /\ s2c'[c] = noanswers /\ \A d \in Conns : d # c => s2c'[d] = s2c[d]
  <2>1. s2c' = [s2c EXCEPT ![c] = noanswers]
    BY <1>3 DEF End
  <2> QED BY <1>1, <2>1 DEF TypeInv
<1>7. /\ c2s' \in [Conns -> Seq(Requests)]
      /\ c2s'[c] \in {c2s[c], none} /\ \A d \in Conns : d # c => c2s'[d] = c2s[d]
  <2>1. c2s' \in {c2s, [c2s EXCEPT ![c] = none]}
    BY <1>2 DEF End
  <2> QED BY <1>1, <2>1 DEF TypeInv
<1> QED BY <1>2, <1>3, <1>4, <1>5, <1>6, <1>7

LEMMA TypeInit == Init => TypeInv
<1> SUFFICES ASSUME Init PROVE TypeInv
  OBVIOUS
<1>1. user \in Seq(Names)
  <2>1. PICK n \in Nat : n = Cardinality(Names)
    BY ClientServerAssumption
  <2>2. Registered \in Nat /\ Registered <= n /\ Names = 1..n
    BY <2>1, ClientServerAssumption
  <2>3. user = [i \in 1..Registered |-> i]
    BY DEF Init, DirectoryInit
  <2>4. user \in [1..Registered -> Names]
    BY <2>2, <2>3
  <2> QED BY <2>2, <2>4, SeqDef
<1>2. <<>> \in Seq(Requests) /\ <<>> \in Seq(Answers) /\ <<>> \in Seq(Groups)
  BY EmptySeq
<1>3. /\ c2s \in [Conns -> Seq(Requests)] /\ s2c \in [Conns -> Seq(Answers)]
      /\ chat_group \in Seq(Groups)
  BY <1>2 DEF Init, DirectoryInit
<1>4. up \in BOOLEAN /\ cut \in [Conns -> BOOLEAN] /\ dropped \in [Conns -> BOOLEAN]
      /\ is_login_success \in [Clients -> BOOLEAN]
  BY DEF Init
<1>5. /\ online \subseteq Ids /\ db_faults \in Nat /\ user_conn_map \subseteq Ids \X Conns
      /\ open \subseteq Conns
  BY DEF Init, DirectoryInit
<1>6. /\ main \in [Clients -> {"menu", "login", "waitlogin", "waitreg", "MainMenu", "ended"}]
      /\ current_user \in [Clients -> Ids \cup {NoId}]
      /\ sem \in [Clients -> Nat]
      /\ reader \in [Clients -> {NoAnswer} \cup LogAcks \cup RegAcks \cup Posts]
      /\ asked \in [Clients -> {NoAnswer} \cup Logins \cup Registers]
  BY DEF Init
<1> QED BY <1>1, <1>3, <1>4, <1>5, <1>6 DEF TypeInv

-----------------------------------------------------------------------------
(* Clients a step does not touch *)

ThreadsSame(d) ==
    /\ main'[d] = main[d] /\ reader'[d] = reader[d] /\ sem'[d] = sem[d] /\ asked'[d] = asked[d]
    /\ current_user'[d] = current_user[d] /\ is_login_success'[d] = is_login_success[d]

Same(d) ==
    ThreadsSame(d) /\ c2s'[d] = c2s[d] /\ s2c'[d] = s2c[d] /\ dropped'[d] = dropped[d]

(* Rows are only added, and the entries of d stay what they are. *)
EntriesKept(d) ==
    /\ Ids \subseteq Ids' /\ \A i \in Ids : user'[i] = user[i]
    /\ \A u : HasEntry(d, u) => HasEntry(d, u)'
    /\ \A u \in Ids' : <<u, d>> \in user_conn_map' => u \in Ids /\ <<u, d>> \in user_conn_map

LEMMA Unaffected ==
  ASSUME NEW d \in Clients, ClientInv(d), Same(d), EntriesKept(d)
  PROVE  ClientInv(d)'
<1> USE DEF Same, ThreadsSame, ClientInv
<1>1. RequestsOK(d)'
  BY DEF RequestsOK, Waiting
<1>2. AnswersOK(d)'
  BY DEF AnswersOK, Answered, AckSent, Waiting
<1>3. AnswersTrue(d)'
  <2>1. ASSUME NEW a, AnswerTrue(d, a) PROVE AnswerTrue(d, a)'
    BY <2>1 DEF AnswerTrue, EntriesKept
  <2> QED BY <2>1 DEF AnswersTrue
<1>4. LoggedIn(d)'
  BY DEF LoggedIn, EntriesKept
<1>5. Learnt(d)'
  BY DEF Learnt
<1>6. KnownEntries(d)'
  <2>1. ASSUME NEW u, Knows(d, u) PROVE Knows(d, u)'
    BY <2>1 DEF Knows
  <2> QED BY <2>1 DEF KnownEntries, EntriesKept
<1> QED BY <1>1, <1>2, <1>3, <1>4, <1>5, <1>6

-----------------------------------------------------------------------------
(* Steps of one client *)

Frame(c) ==
    /\ UNCHANGED <<user, online, up, user_conn_map>>
    /\ \A d \in Conns : d # c => c2s'[d] = c2s[d] /\ s2c'[d] = s2c[d] /\ dropped'[d] = dropped[d]
    /\ \A d \in Clients : d # c => ThreadsSame(d)

LEMMA FrameStep ==
  ASSUME SessionInv, NEW c \in Clients, Frame(c), ClientInv(c)'
  PROVE  SessionInv'
<1>1. Ids' = Ids
  BY DEF Frame, Ids
<1>2. ASSUME NEW d \in Clients, d # c PROVE ClientInv(d)'
  <2>1. EntriesKept(d)
    BY <1>1 DEF EntriesKept, HasEntry, Frame
  <2>2. Same(d)
    BY <1>2 DEF Same, Frame, Conns
  <2> QED BY <2>1, <2>2, Unaffected DEF SessionInv
<1>3. EntriesOK'
  BY <1>1 DEF SessionInv, EntriesOK, Frame
<1>4. TypedOK'
  <2>1. \A t \in Typed : c2s'[t] = c2s[t]
    BY ClientServerAssumption DEF Frame, Conns
  <2> QED BY <2>1 DEF SessionInv, TypedOK
<1> QED BY <1>2, <1>3, <1>4 DEF SessionInv

(* Nothing is outstanding while the user is in a menu. *)
LEMMA NothingOutstanding ==
  ASSUME NEW c \in Clients, ClientInv(c), main[c] \in {"menu", "login", "MainMenu"}
  PROVE  /\ reader[c] = NoAnswer /\ sem[c] = 0 /\ ~AckSent(c)
         /\ \A i \in 1..Len(c2s[c]) : c2s[c][i] \notin Logins \cup Registers
         /\ \A i \in 1..Len(s2c[c]) : /\ s2c[c][i] \notin LogAcks \cup RegAcks
                                      /\ s2c[c][i] \notin Admissions({"logack"})
                                      /\ s2c[c][i] \notin Insertions({"regack"})
                                      /\ ~IsAck(s2c[c][i])
         /\ reader[c] \notin LogAcks \cup RegAcks \cup Posts
         /\ reader[c] \notin Admissions({"logack"}) /\ reader[c] \notin Admissions({"post"})
         /\ reader[c] \notin Insertions({"regack"})
<1>1. reader[c] = NoAnswer /\ sem[c] = 0 /\ ~AckSent(c)
  BY DEF ClientInv, AnswersOK, Answered, Waiting
<1>2. \A i \in 1..Len(c2s[c]) : c2s[c][i] \notin Logins \cup Registers
  BY DEF ClientInv, RequestsOK, Waiting
<1>3. NoAnswer \notin LogAcks \cup RegAcks \cup Posts
  BY AckKinds DEF NoAnswer
<1>4. Admissions({"logack"}) \subseteq LogAcks /\ Insertions({"regack"}) \subseteq RegAcks
      /\ Admissions({"post"}) \subseteq Posts
  BY DEF LogAcks, RegAcks, Posts
<1>5. \A i \in 1..Len(s2c[c]) : s2c[c][i] \notin LogAcks \cup RegAcks
  BY DEF ClientInv, AnswersOK
<1> QED BY <1>1, <1>2, <1>3, <1>4, <1>5 DEF AckSent

LEMMA LoginStep ==
  ASSUME TypeInv, SessionInv, NEW c \in Clients, NEW id \in Names, NEW password \in {"right", "wrong"},
         Login(c, id, password)
  PROVE  TypeInv' /\ SessionInv'
<1>1. /\ main' \in [Clients -> {"menu", "login", "waitlogin", "waitreg", "MainMenu", "ended"}]
      /\ main[c] = "menu" /\ main'[c] = "login"
      /\ \A d \in Clients : d # c => main'[d] = main[d]
  BY MenuOf DEF Login
<1>2. PICK r \in Logins : asked' = [asked EXCEPT ![c] = r]
  <2>1. [msgid |-> "login", id |-> id, password |-> password] \in Logins
    BY DEF Logins
  <2> QED BY <2>1 DEF Login
<1>3. /\ asked' \in [Clients -> {NoAnswer} \cup Logins \cup Registers] /\ asked'[c] \in Logins
      /\ \A d \in Clients : d # c => asked'[d] = asked[d]
  BY <1>2 DEF TypeInv
<1>4. /\ is_login_success' \in [Clients -> BOOLEAN] /\ is_login_success'[c] = FALSE
      /\ \A d \in Clients : d # c => is_login_success'[d] = is_login_success[d]
  BY DEF Login, TypeInv
<1>5. UNCHANGED <<directoryVars, serverVars, c2s, s2c, current_user, sem, reader>>
  BY DEF Login
<1>6. TypeInv'
  BY <1>1, <1>3, <1>4, <1>5 DEF TypeInv, directoryVars, serverVars, Ids
<1>7. Frame(c)
  BY <1>1, <1>3, <1>4, <1>5 DEF Frame, ThreadsSame, directoryVars, serverVars
<1>8. ClientInv(c)
  BY DEF SessionInv
<1>9. /\ reader[c] = NoAnswer /\ sem[c] = 0 /\ ~AckSent(c)
      /\ \A i \in 1..Len(c2s[c]) : c2s[c][i] \notin Logins \cup Registers
      /\ \A i \in 1..Len(s2c[c]) : /\ s2c[c][i] \notin LogAcks \cup RegAcks
                                   /\ s2c[c][i] \notin Admissions({"logack"})
                                   /\ s2c[c][i] \notin Insertions({"regack"})
                                   /\ ~IsAck(s2c[c][i])
      /\ reader[c] \notin LogAcks \cup RegAcks \cup Posts
      /\ reader[c] \notin Admissions({"logack"}) /\ reader[c] \notin Admissions({"post"})
      /\ reader[c] \notin Insertions({"regack"})
  BY <1>1, <1>8, NothingOutstanding
<1>10. UNCHANGED <<user, up, user_conn_map, dropped, c2s, s2c, current_user, sem, reader>>
  BY <1>5 DEF directoryVars, serverVars
<1>11. RequestsOK(c)'
  BY <1>1, <1>3, <1>8, <1>9, <1>10 DEF ClientInv, RequestsOK
<1>12. AnswersOK(c)'
  BY <1>1, <1>8, <1>9, <1>10 DEF ClientInv, AnswersOK, Answered, AckSent
<1>13. AnswersTrue(c)'
  BY <1>9, <1>10 DEF AnswersTrue, AnswerTrue
<1>14. LoggedIn(c)'
  BY <1>1, <1>4, <1>8, <1>10 DEF ClientInv, LoggedIn, HasEntry
<1>15. Learnt(c)'
  BY <1>1 DEF Learnt
<1>16. KnownEntries(c)'
  BY <1>1, <1>8, <1>10 DEF ClientInv, KnownEntries, Knows, Ids
<1>17. ClientInv(c)'
  BY <1>11, <1>12, <1>13, <1>14, <1>15, <1>16 DEF ClientInv
<1> QED BY <1>6, <1>7, <1>17, FrameStep

(* The main thread sends request r. *)
Sends(c, r) ==
    /\ c2s'[c] = Append(c2s[c], r)
    /\ \/ /\ main[c] = "login" /\ main'[c] = "waitlogin"
          /\ r \in Logins /\ r = asked[c] /\ asked'[c] = asked[c]
       \/ /\ main[c] = "menu" /\ main'[c] = "waitreg"
          /\ r \in Registers /\ asked'[c] = r
       \/ /\ main[c] = "MainMenu" /\ main'[c] = "MainMenu" /\ asked'[c] = asked[c]
          /\ r \in CreateGroups \cup Others \cup Chats
       \/ /\ main[c] = "MainMenu" /\ main'[c] = "menu" /\ asked'[c] = asked[c]
          /\ r \in Logouts /\ r.id = current_user[c]
    /\ reader'[c] = reader[c] /\ sem'[c] = sem[c] /\ current_user'[c] = current_user[c]
    /\ is_login_success'[c] = is_login_success[c] /\ s2c'[c] = s2c[c] /\ dropped'[c] = dropped[c]

LEMMA SentInv ==
  ASSUME TypeInv, NEW c \in Clients, ClientInv(c), NEW r \in Requests, Sends(c, r),
         UNCHANGED <<user, up, user_conn_map>>
  PROVE  ClientInv(c)'
<1>1. PICK q \in Seq(Requests) : q = c2s[c]
  BY DEF TypeInv, Conns
<1>2. PICK t : t = Append(q, r)
  OBVIOUS
<1>3. /\ t \in Seq(Requests) /\ Len(q) \in Nat /\ Len(t) = Len(q) + 1
      /\ \A i \in 1..Len(q) : t[i] = q[i]
      /\ t[Len(q) + 1] = r
      /\ \A i \in 1..Len(t) : i \in 1..Len(q) \/ i = Len(q) + 1
  BY <1>2, Appended
<1>4. c2s'[c] = t
  BY <1>1, <1>2 DEF Sends
<1>5. /\ reader'[c] = reader[c] /\ sem'[c] = sem[c] /\ current_user'[c] = current_user[c]
      /\ is_login_success'[c] = is_login_success[c] /\ s2c'[c] = s2c[c] /\ dropped'[c] = dropped[c]
  BY DEF Sends
<1>6. /\ reader[c] = NoAnswer /\ sem[c] = 0 /\ ~AckSent(c)
      /\ \A i \in 1..Len(q) : q[i] \notin Logins \cup Registers
      /\ \A i \in 1..Len(s2c[c]) : /\ s2c[c][i] \notin LogAcks \cup RegAcks
                                   /\ s2c[c][i] \notin Admissions({"logack"})
                                   /\ s2c[c][i] \notin Insertions({"regack"})
                                   /\ ~IsAck(s2c[c][i])
      /\ reader[c] \notin LogAcks \cup RegAcks \cup Posts
      /\ reader[c] \notin Admissions({"logack"}) /\ reader[c] \notin Admissions({"post"})
      /\ reader[c] \notin Insertions({"regack"})
  <2>1. main[c] \in {"menu", "login", "MainMenu"}
    BY DEF Sends
  <2> QED BY <1>1, <2>1, NothingOutstanding
<1>7. AnswersOK(c)'
  <2>1. main'[c] # "ended"
    BY DEF Sends
  <2> QED BY <1>5, <1>6, <2>1 DEF ClientInv, AnswersOK, Answered, AckSent
<1>8. AnswersTrue(c)'
  BY <1>5, <1>6 DEF AnswersTrue, AnswerTrue
<1>9. Learnt(c)'
  BY <1>5, <1>6 DEF Learnt
<1>10. ~(main[c] = "login" /\ is_login_success[c])
  BY DEF ClientInv, LoggedIn
<1>11. \A i \in 1..Len(q) : q[i] \in Logouts => HasEntry(c, q[i].id)
  BY <1>1 DEF ClientInv, LoggedIn
<1>12. /\ \A i, j \in 1..Len(q) : q[i] \in Logouts /\ q[j] \in Logouts => i = j
       /\ main[c] = "MainMenu" => \A i \in 1..Len(q) : q[i] \notin Logouts
       /\ main[c] = "login" => asked[c] \in Logins
  BY <1>1 DEF ClientInv, RequestsOK
<1>13. \A i \in 1..Len(q) : i \in 1..Len(t)
  BY <1>3
<1>14. ASSUME NEW u, HasEntry(c, u) PROVE HasEntry(c, u)'
  BY <1>14 DEF HasEntry
<1>15. ASSUME main'[c] # "ended", ~dropped'[c], NEW u \in Ids, <<u, c>> \in user_conn_map
       PROVE  \/ main[c] = "MainMenu" /\ current_user[c] = u
              \/ \E i \in 1..Len(q) : q[i] \in Logouts /\ q[i].id = u
  <2>1. main[c] # "ended" /\ main[c] # "waitlogin" /\ ~dropped[c]
    BY <1>5, <1>15 DEF Sends
  <2> QED BY <1>1, <1>15, <2>1 DEF ClientInv, KnownEntries, Knows
<1>16. ASSUME NEW u, \E i \in 1..Len(q) : q[i] \in Logouts /\ q[i].id = u
       PROVE  \E i \in 1..Len(t) : t[i] \in Logouts /\ t[i].id = u
  BY <1>3, <1>13, <1>16
<1>17. KnownEntries(c)' <=>
         (main'[c] # "ended" /\ ~dropped'[c] =>
            \A u \in Ids : <<u, c>> \in user_conn_map => Knows(c, u)')
  BY DEF KnownEntries, Ids
<1>18. ASSUME NEW u, \E i \in 1..Len(t) : t[i] \in Logouts /\ t[i].id = u
       PROVE  Knows(c, u)'
  BY <1>4, <1>18 DEF Knows
<1>k. /\ r \in Logins <=> r.msgid = "login"
      /\ r \in Registers <=> r.msgid = "register"
      /\ r \in Logouts <=> r.msgid = "logout" /\ r \notin Samples
      /\ r \in CreateGroups <=> r.msgid = "creategroup" /\ r \notin Samples
      /\ r \in Chats <=> r.msgid = "chat" /\ r \notin Samples
      /\ r \in Others <=> r.msgid \in {"addfriend", "joingroup", "groupchat"} \/ r \in Samples
      /\ r \in Samples => r.msgid \notin {"login", "register"}
  BY RequestKinds
<1>19. CASE \/ /\ main[c] = "login" /\ main'[c] = "waitlogin"
               /\ r \in Logins /\ r = asked[c] /\ asked'[c] = asked[c]
            \/ /\ main[c] = "menu" /\ main'[c] = "waitreg"
               /\ r \in Registers /\ asked'[c] = r
  <2>1. r \notin Logouts /\ (r \in Logins \/ r \in Registers)
    BY <1>k, <1>19
  <2>2. RequestsOK(c)'
    BY <1>3, <1>4, <1>6, <1>12, <1>19, <2>1 DEF RequestsOK, Waiting
  <2>3. LoggedIn(c)'
    BY <1>3, <1>4, <1>5, <1>10, <1>11, <1>14, <1>19, <2>1 DEF LoggedIn
  <2>4. KnownEntries(c)'
    BY <1>15, <1>16, <1>17, <1>18, <1>19
  <2> QED BY <1>7, <1>8, <1>9, <2>2, <2>3, <2>4 DEF ClientInv
<1>20. CASE /\ main[c] = "MainMenu" /\ main'[c] = "MainMenu" /\ asked'[c] = asked[c]
            /\ r \in CreateGroups \cup Others \cup Chats
  <2>1. r \notin Logouts /\ r \notin Logins /\ r \notin Registers
    BY <1>k, <1>20
  <2>2. RequestsOK(c)'
    BY <1>3, <1>4, <1>6, <1>12, <1>20, <2>1 DEF RequestsOK, Waiting
  <2>3. LoggedIn(c)'
    BY <1>3, <1>4, <1>5, <1>11, <1>14, <1>20, <2>1 DEF ClientInv, LoggedIn
  <2>4. ASSUME NEW u, main[c] = "MainMenu" /\ current_user[c] = u PROVE Knows(c, u)'
    BY <1>5, <1>20, <2>4 DEF Knows
  <2>5. KnownEntries(c)'
    BY <1>15, <1>16, <1>17, <1>18, <2>4
  <2> QED BY <1>7, <1>8, <1>9, <2>2, <2>3, <2>5 DEF ClientInv
<1>21. CASE /\ main[c] = "MainMenu" /\ main'[c] = "menu" /\ asked'[c] = asked[c]
            /\ r \in Logouts /\ r.id = current_user[c]
  <2>1. r \notin Logins /\ r \notin Registers
    BY <1>k, <1>21
  <2>2. RequestsOK(c)'
    BY <1>3, <1>4, <1>6, <1>12, <1>21, <2>1 DEF RequestsOK, Waiting
  <2>3. HasEntry(c, r.id)
    BY <1>21 DEF ClientInv, LoggedIn
  <2>4. LoggedIn(c)'
    BY <1>3, <1>4, <1>5, <1>11, <1>14, <1>21, <2>3 DEF LoggedIn
  <2>5. Len(q) + 1 \in 1..Len(t)
    BY <1>3
  <2>6. ASSUME NEW u, main[c] = "MainMenu" /\ current_user[c] = u
        PROVE  \E i \in 1..Len(t) : t[i] \in Logouts /\ t[i].id = u
    BY <1>3, <1>21, <2>5, <2>6
  <2>7. KnownEntries(c)'
    BY <1>15, <1>16, <1>17, <1>18, <2>6
  <2> QED BY <1>7, <1>8, <1>9, <2>2, <2>4, <2>7 DEF ClientInv
<1> QED BY <1>19, <1>20, <1>21 DEF Sends

LEMMA SendStep ==
  ASSUME TypeInv, SessionInv, NEW c \in Clients, NEW r \in Requests, Sends(c, r), Send(c, r),
         main' \in [Clients -> {"menu", "login", "waitlogin", "waitreg", "MainMenu", "ended"}],
         asked' \in [Clients -> {NoAnswer} \cup Logins \cup Registers],
         \A d \in Clients : d # c => main'[d] = main[d] /\ asked'[d] = asked[d],
         UNCHANGED <<directoryVars, serverVars, s2c, sharedVars, reader>>
  PROVE  TypeInv' /\ SessionInv'
<1>1. c \in Conns
  BY DEF Conns
<1>2. /\ c2s' \in [Conns -> Seq(Requests)]
      /\ \A d \in Conns : d # c => c2s'[d] = c2s[d]
  BY <1>1, SendOf
<1>3. TypeInv'
  BY <1>2 DEF TypeInv, directoryVars, serverVars, sharedVars, Ids
<1>4. Frame(c)
  BY <1>2 DEF Frame, ThreadsSame, directoryVars, serverVars, sharedVars
<1>5. UNCHANGED <<user, up, user_conn_map>>
  BY DEF directoryVars, serverVars
<1>6. ClientInv(c)'
  BY <1>5, SentInv DEF SessionInv
<1> QED BY <1>3, <1>4, <1>6, FrameStep

LEMMA RequestSteps ==
  ASSUME TypeInv, SessionInv, NEW c \in Clients,
         \/ LoginSend(c) \/ (\E name \in Names : Register(c, name))
         \/ (\E r \in CommandRequests(c) : MenuCommand(c, r)) \/ Logout(c)
  PROVE  TypeInv' /\ SessionInv'
<1>1. c \in Conns /\ ClientInv(c)
  BY DEF Conns, SessionInv
<1>2. main \in [Clients -> {"menu", "login", "waitlogin", "waitreg", "MainMenu", "ended"}]
      /\ asked \in [Clients -> {NoAnswer} \cup Logins \cup Registers]
  BY DEF TypeInv
<1>3. ASSUME LoginSend(c) PROVE TypeInv' /\ SessionInv'
  <2>1. /\ main' \in [Clients -> {"menu", "login", "waitlogin", "waitreg", "MainMenu", "ended"}]
        /\ main[c] = "login" /\ main'[c] = "waitlogin"
        /\ \A d \in Clients : d # c => main'[d] = main[d]
    BY <1>3, MenuOf DEF LoginSend
  <2>2. asked[c] \in Logins
    BY <1>1, <2>1 DEF ClientInv, RequestsOK
  <2>3. PICK r \in Requests : r = asked[c] /\ r \in Logins
    BY <2>2 DEF Requests
  <2>4. Send(c, r)
    BY <1>3, <2>3 DEF LoginSend
  <2>5. c2s'[c] = Append(c2s[c], r)
    BY <1>1, <2>4, SendOf
  <2>6. UNCHANGED <<directoryVars, serverVars, s2c, asked, sharedVars, reader>>
    BY <1>3 DEF LoginSend
  <2>7. Sends(c, r)
    BY <2>1, <2>3, <2>5, <2>6 DEF Sends, sharedVars, serverVars
  <2> QED BY <1>2, <2>1, <2>4, <2>6, <2>7, SendStep
<1>4. ASSUME NEW name \in Names, Register(c, name) PROVE TypeInv' /\ SessionInv'
  <2>1. /\ main' \in [Clients -> {"menu", "login", "waitlogin", "waitreg", "MainMenu", "ended"}]
        /\ main[c] = "menu" /\ main'[c] = "waitreg"
        /\ \A d \in Clients : d # c => main'[d] = main[d]
    BY <1>4, MenuOf DEF Register
  <2>2. [msgid |-> "register", name |-> name, password |-> "right"] \in Registers
    BY DEF Registers
  <2>3. PICK r \in Requests : r \in Registers /\ Send(c, r) /\ asked' = [asked EXCEPT ![c] = r]
    BY <1>4, <2>2 DEF Requests, Register
  <2>4. /\ asked' \in [Clients -> {NoAnswer} \cup Logins \cup Registers] /\ asked'[c] = r
        /\ \A d \in Clients : d # c => asked'[d] = asked[d]
    BY <1>2, <2>3
  <2>5. c2s'[c] = Append(c2s[c], r)
    BY <1>1, <2>3, SendOf
  <2>6. UNCHANGED <<directoryVars, serverVars, s2c, sharedVars, reader>>
    BY <1>4 DEF Register
  <2>7. Sends(c, r)
    BY <2>1, <2>3, <2>4, <2>5, <2>6 DEF Sends, sharedVars, serverVars
  <2> QED BY <2>1, <2>3, <2>4, <2>6, <2>7, SendStep
<1>5. ASSUME NEW r \in CommandRequests(c), MenuCommand(c, r) PROVE TypeInv' /\ SessionInv'
  <2>1. r \in CreateGroups \cup Others \cup Chats
    BY CommandTypes
  <2>2. r \in Requests
    BY <2>1 DEF Requests
  <2>3. main[c] = "MainMenu" /\ Send(c, r)
        /\ UNCHANGED <<directoryVars, serverVars, s2c, main, asked, sharedVars, reader>>
    BY <1>5 DEF MenuCommand
  <2>4. c2s'[c] = Append(c2s[c], r)
    BY <1>1, <2>2, <2>3, SendOf
  <2>5. Sends(c, r)
    BY <2>1, <2>3, <2>4 DEF Sends, sharedVars, serverVars
  <2> QED BY <1>2, <2>2, <2>3, <2>5, SendStep
<1>6. ASSUME Logout(c) PROVE TypeInv' /\ SessionInv'
  <2>1. /\ main' \in [Clients -> {"menu", "login", "waitlogin", "waitreg", "MainMenu", "ended"}]
        /\ main[c] = "MainMenu" /\ main'[c] = "menu"
        /\ \A d \in Clients : d # c => main'[d] = main[d]
    BY <1>6, MenuOf DEF Logout
  <2>2. current_user[c] \in Users
    BY IdsOf DEF TypeInv, Users
  <2>3. /\ [msgid |-> "logout", id |-> current_user[c]] \in Logouts
        /\ [msgid |-> "logout", id |-> current_user[c]].id = current_user[c]
    BY <2>2 DEF Logouts
  <2>4. PICK r \in Requests : r \in Logouts /\ Send(c, r) /\ r.id = current_user[c]
    BY <1>6, <2>3 DEF Requests, Logout
  <2>5. c2s'[c] = Append(c2s[c], r)
    BY <1>1, <2>4, SendOf
  <2>6. UNCHANGED <<directoryVars, serverVars, s2c, asked, sharedVars, reader>>
    BY <1>6 DEF Logout
  <2>7. Sends(c, r)
    BY <2>1, <2>4, <2>5, <2>6 DEF Sends, sharedVars, serverVars
  <2> QED BY <1>2, <2>1, <2>4, <2>6, <2>7, SendStep
<1> QED BY <1>3, <1>4, <1>5, <1>6

LEMMA SemWaitStep ==
  ASSUME TypeInv, SessionInv, NEW c \in Clients, SemWait(c)
  PROVE  TypeInv' /\ SessionInv'
<1>1. PICK to \in {"menu", "MainMenu"} :
         /\ MenuGoes(c, main[c], to)
         /\ main[c] = "waitlogin" \/ (main[c] = "waitreg" /\ to = "menu")
         /\ main[c] = "waitlogin" => (to = "MainMenu" <=> is_login_success[c])
  BY DEF SemWait, MenuGoes, TypeInv
<1>2. /\ main' \in [Clients -> {"menu", "login", "waitlogin", "waitreg", "MainMenu", "ended"}]
      /\ main'[c] = to /\ \A d \in Clients : d # c => main'[d] = main[d]
  BY <1>1, MenuOf
<1>3. ClientInv(c)
  BY DEF SessionInv
<1>4. sem[c] = 1
  BY <1>3 DEF SemWait, ClientInv, AnswersOK
<1>5. /\ sem' \in [Clients -> Nat] /\ sem'[c] = 0
      /\ \A d \in Clients : d # c => sem'[d] = sem[d]
  BY <1>4 DEF SemWait, TypeInv
<1>6. UNCHANGED <<directoryVars, serverVars, c2s, s2c, asked, current_user, is_login_success, reader>>
  BY DEF SemWait
<1>7. TypeInv'
  BY <1>2, <1>5, <1>6 DEF TypeInv, directoryVars, serverVars, Ids
<1>8. Frame(c)
  BY <1>2, <1>5, <1>6 DEF Frame, ThreadsSame, directoryVars, serverVars
<1>9. UNCHANGED <<user, up, user_conn_map, dropped, c2s, s2c, asked, current_user,
                  is_login_success, reader>>
  BY <1>6 DEF directoryVars, serverVars
<1>10. c2s[c] = <<>> /\ ~AckSent(c) /\ reader[c] = NoAnswer
  BY <1>1, <1>3, <1>4 DEF ClientInv, AnswersOK, Answered
<1>11. Len(c2s[c]) = 0
  BY <1>10
<1>12. /\ \A i \in 1..Len(s2c[c]) : /\ s2c[c][i] \notin LogAcks \cup RegAcks
                                    /\ s2c[c][i] \notin Admissions({"logack"})
                                    /\ ~IsAck(s2c[c][i])
       /\ reader[c] \notin LogAcks \cup RegAcks \cup Posts
       /\ reader[c] \notin Admissions({"logack", "post"})
  <2>1. \A i \in 1..Len(s2c[c]) : s2c[c][i] \in Answers
    BY InQueues DEF Conns
  <2>2. NoAnswer \notin LogAcks \cup RegAcks \cup Posts
    BY AckKinds DEF NoAnswer
  <2>3. Admissions({"logack", "post"}) \subseteq LogAcks \cup Posts
    BY DEF LogAcks, Posts, Admissions
  <2> QED BY <1>10, <2>1, <2>2, <2>3, AnswerKinds DEF AckSent, IsAck
<1>13. RequestsOK(c)'
  BY <1>2, <1>9, <1>11 DEF RequestsOK
<1>14. AnswersOK(c)'
  BY <1>2, <1>5, <1>9, <1>10, <1>12 DEF AnswersOK, Answered, AckSent
<1>15. AnswersTrue(c)'
  BY <1>3, <1>9 DEF ClientInv, AnswersTrue, AnswerTrue, HasEntry, Ids
<1>16. LoggedIn(c)'
  BY <1>1, <1>2, <1>3, <1>9, <1>11 DEF ClientInv, LoggedIn, HasEntry
<1>17. Learnt(c)'
  BY <1>2 DEF Learnt
<1>18. KnownEntries(c)'
  <2>1. SUFFICES ASSUME ~dropped[c], NEW u \in Ids, <<u, c>> \in user_conn_map
                 PROVE  Knows(c, u)'
    BY <1>9 DEF KnownEntries, Ids
  <2>2. Knows(c, u)
    BY <1>1, <1>3, <2>1 DEF ClientInv, KnownEntries
  <2>3. main[c] = "waitlogin" /\ is_login_success[c] /\ current_user[c] = u
    BY <1>1, <1>11, <1>12, <2>2 DEF Knows
  <2> QED BY <1>1, <1>2, <1>9, <2>3 DEF Knows
<1>19. ClientInv(c)'
  BY <1>13, <1>14, <1>15, <1>16, <1>17, <1>18 DEF ClientInv
<1> QED BY <1>7, <1>8, <1>19, FrameStep

(* However a client ends, its connection's entries stay until the server      *)
(* notices.                                                                   *)
LEMMA EndStep ==
  ASSUME TypeInv, SessionInv, NEW c \in Clients, End(c)
  PROVE  TypeInv' /\ SessionInv'
<1>1. /\ main' \in [Clients -> {"menu", "login", "waitlogin", "waitreg", "MainMenu", "ended"}]
      /\ c2s' \in [Conns -> Seq(Requests)] /\ s2c' \in [Conns -> Seq(Answers)]
      /\ reader' \in [Clients -> {NoAnswer} \cup LogAcks \cup RegAcks \cup Posts]
      /\ main'[c] = "ended" /\ s2c'[c] = <<>> /\ reader'[c] = NoAnswer
      /\ c2s'[c] \in {c2s[c], <<>>}
      /\ \A d \in Clients : d # c => main'[d] = main[d] /\ reader'[d] = reader[d]
      /\ \A d \in Conns : d # c => c2s'[d] = c2s[d] /\ s2c'[d] = s2c[d]
  BY EndOf
<1>2. UNCHANGED <<directoryVars, serverVars, asked, sharedVars>>
  BY DEF End
<1>3. TypeInv'
  BY <1>1, <1>2 DEF TypeInv, directoryVars, serverVars, sharedVars, Ids
<1>4. Frame(c)
  BY <1>1, <1>2 DEF Frame, ThreadsSame, directoryVars, serverVars, sharedVars
<1>5. UNCHANGED <<user, up, user_conn_map, asked, current_user, is_login_success, sem>>
  BY <1>2 DEF directoryVars, serverVars, sharedVars
<1>6. ClientInv(c)
  BY DEF SessionInv
<1>7. Len(s2c'[c]) = 0
  BY <1>1
<1>8. \A i \in 1..Len(c2s'[c]) : c2s'[c] = c2s[c]
  <2>1. CASE c2s'[c] = <<>>
    <3>1. Len(c2s'[c]) = 0
      BY <2>1
    <3> QED BY <3>1
  <2> QED BY <1>1, <2>1
<1>9. NoAnswer \notin LogAcks \cup RegAcks \cup Posts
  BY AckKinds DEF NoAnswer
<1>10. Admissions({"logack"}) \subseteq LogAcks /\ Insertions({"regack"}) \subseteq RegAcks
  BY DEF LogAcks, RegAcks
<1>11. RequestsOK(c)'
  BY <1>1, <1>6, <1>8 DEF ClientInv, RequestsOK
<1>12. AnswersOK(c)'
  BY <1>1, <1>5, <1>6, <1>7, <1>9 DEF ClientInv, AnswersOK, AckSent
<1>13. AnswersTrue(c)'
  BY <1>1, <1>7, <1>9, <1>10 DEF AnswersTrue, AnswerTrue
<1>14. LoggedIn(c)'
  BY <1>1, <1>5, <1>6, <1>8 DEF ClientInv, LoggedIn, HasEntry
<1>15. Learnt(c)' /\ KnownEntries(c)'
  BY <1>1 DEF Learnt, KnownEntries
<1>16. ClientInv(c)'
  BY <1>11, <1>12, <1>13, <1>14, <1>15 DEF ClientInv
<1> QED BY <1>3, <1>4, <1>16, FrameStep

-----------------------------------------------------------------------------
(* The reader *)

(* One answer is read. *)
LEMMA RecvInv ==
  ASSUME TypeInv, NEW c \in Clients, ClientInv(c), main[c] # "ended", reader[c] = NoAnswer,
         NEW s \in Seq(Answers), s = s2c[c], s # <<>>, NEW t, t = Tail(s), s2c'[c] = t,
         reader'[c] = IF s[1].msgid = "chat" THEN reader[c] ELSE s[1],
         UNCHANGED <<user, up, user_conn_map, dropped, c2s, main, asked, current_user,
                     is_login_success, sem>>
  PROVE  ClientInv(c)'
<1>1. /\ s[1] \in Answers /\ Len(s) \in Nat /\ Len(s) >= 1
      /\ t \in Seq(Answers) /\ Len(t) = Len(s) - 1
      /\ \A i \in 1..Len(t) : i + 1 \in 2..Len(s) /\ t[i] = s[i + 1]
  BY TailOf
<1>2. PICK a \in Answers : a = s[1]
  BY <1>1
<1>3. /\ a \in LogAcks <=> a.msgid = "logack"
      /\ a \in RegAcks <=> a.msgid = "regack"
      /\ a \in Chats <=> a.msgid = "chat"
      /\ a.msgid \in {"logack", "regack", "chat"}
      /\ a \in Admissions({"logack"}) <=> a.msgid = "logack" /\ a.errno = 0
      /\ a \in Insertions({"regack"}) <=> a.msgid = "regack" /\ a.errno = 0
      /\ a \notin Chats => a \in {NoAnswer} \cup LogAcks \cup RegAcks \cup Posts
  BY AnswerKinds
<1>4. \A i \in 1..Len(t) : \E j \in 1..Len(s) : j # 1 /\ j = i + 1 /\ t[i] = s[j]
  <2> TAKE i \in 1..Len(t)
  <2>1. i + 1 \in 2..Len(s) /\ t[i] = s[i + 1] /\ i + 1 # 1
    BY <1>1
  <2>2. i + 1 \in 1..Len(s)
    BY <1>1, <2>1
  <2> QED BY <2>1, <2>2
<1>5. 1 \in 1..Len(s)
  BY <1>1
<1>6. \A j \in 1..Len(s) : j = 1 \/ \E i \in 1..Len(t) : t[i] = s[j]
  <2> TAKE j \in 1..Len(s)
  <2>1. j # 1 => j - 1 \in 1..Len(t) /\ (j - 1) + 1 = j
    BY <1>1
  <2> QED BY <1>1, <2>1
<1>7. Admissions({"logack"}) \subseteq LogAcks /\ Insertions({"regack"}) \subseteq RegAcks
      /\ Admissions({"post"}) \subseteq Posts
  BY DEF LogAcks, RegAcks, Posts
<1>8. NoAnswer \notin LogAcks \cup RegAcks \cup Posts
      /\ NoAnswer \notin Admissions({"logack", "post"})
  BY AckKinds DEF NoAnswer, Admissions
<1>u. ASSUME NEW u, Knows(c, u),
             a \in Admissions({"logack"}) =>
               reader'[c] \in Admissions({"logack", "post"}) /\ reader'[c] = a
      PROVE  Knows(c, u)'
  <2>1. CASE main[c] = "MainMenu" /\ current_user[c] = u
    BY <2>1 DEF Knows
  <2>2. CASE \E i \in 1..Len(c2s[c]) : c2s[c][i] \in Logouts /\ c2s[c][i].id = u
    BY <2>2 DEF Knows
  <2>3. CASE main[c] = "waitlogin" /\ sem[c] # 0 /\ is_login_success[c] /\ current_user[c] = u
    BY <2>3 DEF Knows
  <2>4. CASE main[c] = "waitlogin"
             /\ \E i \in 1..Len(s) : s[i] \in Admissions({"logack"}) /\ s[i].id = u
    <3>1. PICK j \in 1..Len(s) : s[j] \in Admissions({"logack"}) /\ s[j].id = u
      BY <2>4
    <3>2. CASE j = 1
      <4>1. reader'[c] \in Admissions({"logack", "post"}) /\ reader'[c].id = u
        BY <1>2, <1>u, <3>1, <3>2
      <4> QED BY <2>4, <4>1 DEF Knows
    <3>3. CASE j # 1
      <4>1. PICK i \in 1..Len(t) : t[i] = s[j]
        BY <1>6, <3>3
      <4> QED BY <2>4, <3>1, <4>1 DEF Knows
    <3> QED BY <3>2, <3>3
  <2> QED BY <1>8, <1>u, <2>1, <2>2, <2>3, <2>4 DEF Knows
<1>9. RequestsOK(c)'
  BY DEF ClientInv, RequestsOK, Waiting
<1>10. ASSUME NEW b, AnswerTrue(c, b) PROVE AnswerTrue(c, b)'
  BY <1>10 DEF AnswerTrue, HasEntry, Ids
<1>11. AnswersTrue(c)'
  <2>1. \A i \in 1..Len(s) : AnswerTrue(c, s[i])
    BY DEF ClientInv, AnswersTrue
  <2>2. \A i \in 1..Len(t) : AnswerTrue(c, t[i])
    BY <1>4, <2>1
  <2>3. AnswerTrue(c, reader[c]) /\ AnswerTrue(c, s[1])
    BY <1>5, <2>1 DEF ClientInv, AnswersTrue
  <2> QED BY <1>10, <2>2, <2>3 DEF AnswersTrue
<1>12. \A i \in 1..Len(t) : /\ t[i] \in LogAcks => main[c] = "waitlogin"
                            /\ t[i] \in RegAcks => main[c] = "waitreg"
  BY <1>4 DEF ClientInv, AnswersOK
<1>13. \A i, j \in 1..Len(s) : IsAck(s[i]) /\ IsAck(s[j]) => i = j
  BY DEF ClientInv, AnswersOK
<1>14. \A i, j \in 1..Len(t) : IsAck(t[i]) /\ IsAck(t[j]) => i = j
  <2> TAKE i, j \in 1..Len(t)
  <2>1. IsAck(t[i]) /\ IsAck(t[j]) => i + 1 = j + 1
    BY <1>4, <1>13
  <2> QED BY <1>1, <2>1
<1>15. AckSent(c)' => \E i \in 1..Len(t) : IsAck(t[i])
  BY DEF AckSent
<1>16. LoggedIn(c)'
  BY <1>8 DEF ClientInv, LoggedIn, HasEntry
<1>17. CASE a.msgid = "chat"
  <2>1. reader'[c] = NoAnswer /\ ~IsAck(a)
    BY <1>2, <1>17 DEF IsAck
  <2>2. AckSent(c)' => AckSent(c)
    BY <1>4, <1>15 DEF AckSent
  <2>3. AnswersOK(c)'
    BY <1>8, <1>12, <1>14, <2>1, <2>2 DEF ClientInv, AnswersOK, Answered, Waiting
  <2>4. Learnt(c)'
    BY <1>7, <1>8, <2>1 DEF Learnt
  <2>5. ASSUME NEW u, Knows(c, u) PROVE Knows(c, u)'
    BY <1>3, <1>17, <1>u, <2>5
  <2>6. KnownEntries(c)'
    BY <2>5 DEF ClientInv, KnownEntries, Ids
  <2> QED BY <1>9, <1>11, <1>16, <2>3, <2>4, <2>6 DEF ClientInv
<1>18. CASE a.msgid # "chat"
  <2>1. reader'[c] = a /\ a # NoAnswer /\ IsAck(a) /\ a \notin Posts
    BY <1>2, <1>3, <1>18, AckKinds DEF IsAck, NoAnswer
  <2>2. AckSent(c)
    BY <1>2, <1>5, <2>1 DEF AckSent
  <2>3. Waiting(c) /\ c2s[c] = <<>> /\ sem[c] = 0
    BY <2>2 DEF ClientInv, AnswersOK, Answered
  <2>4. ~AckSent(c)'
    BY <1>2, <1>4, <1>5, <1>13, <1>15, <2>1
  <2>5. /\ a \in LogAcks => main[c] = "waitlogin"
        /\ a \in RegAcks => main[c] = "waitreg"
    BY <1>2, <1>5 DEF ClientInv, AnswersOK
  <2>6. Waiting(c)'
    BY <2>3 DEF Waiting
  <2>7. main'[c] # "ended" /\ c2s'[c] = <<>> /\ sem'[c] = 0 /\ main'[c] = main[c]
    BY <2>3
  <2>8. AnswersOK(c)'
    BY <1>12, <1>14, <2>1, <2>4, <2>5, <2>6, <2>7 DEF AnswersOK
  <2>9. Learnt(c)'
    BY <1>7, <2>1 DEF Learnt
  <2>10. ASSUME NEW u, Knows(c, u) PROVE Knows(c, u)'
    <3>1. a \in Admissions({"logack"}) => a \in Admissions({"logack", "post"})
      BY DEF Admissions
    <3> QED BY <1>u, <2>1, <2>10, <3>1
  <2>11. KnownEntries(c)'
    BY <2>10 DEF ClientInv, KnownEntries, Ids
  <2> QED BY <1>9, <1>11, <1>16, <2>8, <2>9, <2>11 DEF ClientInv
<1> QED BY <1>17, <1>18

LEMMA RecvStep ==
  ASSUME TypeInv, SessionInv, NEW c \in Clients, Recv(c)
  PROVE  TypeInv' /\ SessionInv'
<1>1. CASE End(c)
  BY <1>1, EndStep
<1>2. CASE ~End(c)
  <2>1. /\ main[c] # "ended" /\ reader[c] = NoAnswer /\ s2c[c] # <<>>
        /\ reader' = [reader EXCEPT ![c] = IF s2c[c][1].msgid = "chat" THEN @ ELSE s2c[c][1]]
        /\ s2c' = [s2c EXCEPT ![c] = Tail(@)]
        /\ UNCHANGED <<directoryVars, serverVars, c2s, menuVars, sharedVars>>
    BY <1>2 DEF Recv
  <2>2. PICK s \in Seq(Answers) : s = s2c[c]
    BY DEF TypeInv, Conns
  <2>3. PICK t \in Seq(Answers) : t = Tail(s)
    BY <2>1, <2>2, TailOf
  <2>4. PICK a \in {NoAnswer} \cup LogAcks \cup RegAcks \cup Posts :
           a = IF s[1].msgid = "chat" THEN reader[c] ELSE s[1]
    <3>1. s[1] \in Answers
      BY <2>1, <2>2, TailOf
    <3> QED BY <2>1, <3>1, AnswerKinds
  <2>5. /\ s2c' \in [Conns -> Seq(Answers)] /\ s2c'[c] = t
        /\ \A d \in Conns : d # c => s2c'[d] = s2c[d]
    <3>1. s2c' = [s2c EXCEPT ![c] = t]
      BY <2>1, <2>2, <2>3
    <3> QED BY <3>1 DEF TypeInv, Conns
  <2>6. /\ reader' \in [Clients -> {NoAnswer} \cup LogAcks \cup RegAcks \cup Posts]
        /\ reader'[c] = a /\ \A d \in Clients : d # c => reader'[d] = reader[d]
    <3>1. reader' = [reader EXCEPT ![c] = a]
      BY <2>1, <2>2, <2>4
    <3> QED BY <3>1 DEF TypeInv
  <2>7. UNCHANGED <<user, up, user_conn_map, dropped, c2s, main, asked, current_user,
                    is_login_success, sem>>
    BY <2>1 DEF directoryVars, serverVars, menuVars, sharedVars
  <2>8. TypeInv'
    BY <2>1, <2>5, <2>6 DEF TypeInv, directoryVars, serverVars, menuVars, sharedVars, Ids
  <2>9. Frame(c)
    BY <2>1, <2>5, <2>6 DEF Frame, ThreadsSame, directoryVars, serverVars, menuVars, sharedVars
  <2>10. ClientInv(c)
    BY DEF SessionInv
  <2>11. ClientInv(c)'
    BY <2>1, <2>2, <2>3, <2>4, <2>5, <2>6, <2>7, <2>10, RecvInv
  <2> QED BY <2>8, <2>9, <2>11, FrameStep
<1> QED BY <1>1, <1>2

(* The reader holds an answer: the client waits for nothing else. *)
LEMMA Handling ==
  ASSUME TypeInv, NEW c \in Clients, ClientInv(c), reader[c] # NoAnswer
  PROVE  /\ main[c] # "ended" /\ Waiting(c) /\ c2s[c] = <<>> /\ Len(c2s[c]) = 0
         /\ sem[c] = 0 /\ ~AckSent(c)
         /\ \A i \in 1..Len(s2c[c]) : s2c[c][i] \notin Admissions({"logack"})
<1>1. main[c] # "ended" /\ Waiting(c) /\ c2s[c] = <<>> /\ sem[c] = 0 /\ ~AckSent(c)
  BY DEF ClientInv, AnswersOK, Answered
<1>2. Len(c2s[c]) = 0
  BY <1>1
<1>3. \A i \in 1..Len(s2c[c]) : s2c[c][i] \in Answers
  BY InQueues DEF Conns
<1> QED BY <1>1, <1>2, <1>3, AnswerKinds DEF AckSent, IsAck

LEMMA HandleStep ==
  ASSUME TypeInv, SessionInv, NEW c \in Clients, HandleResponse(c)
  PROVE  TypeInv' /\ SessionInv'
<1>1. ClientInv(c)
  BY DEF SessionInv
<1>2. PICK a \in {NoAnswer} \cup LogAcks \cup RegAcks \cup Posts : a = reader[c]
  BY DEF TypeInv
<1>3. a \in LogAcks \cup RegAcks /\ a # NoAnswer /\ (a \in LogAcks <=> a.msgid # "regack")
      /\ (a \in LogAcks => a \notin RegAcks)
  BY <1>2, AckKinds DEF HandleResponse
<1>4. PICK b : b = [a EXCEPT !.msgid = "post"]
  OBVIOUS
<1>5. /\ b \in Posts /\ b # NoAnswer
      /\ a \in Admissions({"logack"}) => b \in Admissions({"post"}) /\ b.id = a.id
      /\ b \in Admissions({"post"}) => a.errno = 0 /\ b.id = a.id
      /\ a \in LogAcks /\ a.errno = 0 <=> a \in Admissions({"logack"})
  BY <1>3, <1>4, PostOf
<1>6. /\ main[c] # "ended" /\ Waiting(c) /\ c2s[c] = <<>> /\ Len(c2s[c]) = 0
      /\ sem[c] = 0 /\ ~AckSent(c)
      /\ \A i \in 1..Len(s2c[c]) : s2c[c][i] \notin Admissions({"logack"})
  BY <1>1, <1>2, <1>3, Handling
<1>7. /\ a \in LogAcks => main[c] = "waitlogin"
      /\ a \in RegAcks => main[c] = "waitreg"
      /\ a \in Admissions({"logack"}) => a.id \in Ids /\ HasEntry(c, a.id)
  BY <1>1, <1>2 DEF ClientInv, AnswersOK, AnswersTrue, AnswerTrue
<1>8. /\ reader' \in [Clients -> {NoAnswer} \cup LogAcks \cup RegAcks \cup Posts]
      /\ reader'[c] = b /\ \A d \in Clients : d # c => reader'[d] = reader[d]
  <2>1. reader' = [reader EXCEPT ![c] = b]
    BY <1>2, <1>4 DEF HandleResponse
  <2> QED BY <1>5, <2>1 DEF TypeInv
<1>9. UNCHANGED <<directoryVars, serverVars, c2s, s2c, menuVars, sem>>
  BY DEF HandleResponse
<1>10. /\ current_user' \in [Clients -> Ids \cup {NoId}]
       /\ is_login_success' \in [Clients -> BOOLEAN]
       /\ \A d \in Clients : d # c => /\ current_user'[d] = current_user[d]
                                      /\ is_login_success'[d] = is_login_success[d]
       /\ a \in RegAcks => UNCHANGED <<current_user, is_login_success>>
       /\ a \in Admissions({"logack"}) => is_login_success'[c] /\ current_user'[c] = a.id
       /\ a \in LogAcks /\ a \notin Admissions({"logack"}) => ~is_login_success'[c]
  <2>t. current_user \in [Clients -> Ids \cup {NoId}] /\ is_login_success \in [Clients -> BOOLEAN]
    BY DEF TypeInv
  <2>1. CASE a \in RegAcks
    <3>1. a.msgid = "regack" /\ a \notin LogAcks /\ a \notin Admissions({"logack"})
      BY <1>3, <1>5, <2>1
    <3>2. UNCHANGED <<current_user, is_login_success>>
      BY <1>2, <3>1 DEF HandleResponse
    <3> QED BY <2>t, <3>1, <3>2
  <2>2. CASE a \in LogAcks
    <3>1. /\ is_login_success' = [is_login_success EXCEPT ![c] = a.errno = 0]
          /\ current_user' = [current_user EXCEPT ![c] = IF a.errno = 0 THEN a.id ELSE @]
      BY <1>2, <1>3, <2>2 DEF HandleResponse
    <3>2. /\ current_user' \in [Clients -> Ids \cup {NoId}]
          /\ \A d \in Clients : d # c => current_user'[d] = current_user[d]
          /\ a.errno = 0 => current_user'[c] = a.id
      BY <1>5, <1>7, <2>t, <2>2, <3>1
    <3>3. PICK ok \in BOOLEAN : ok <=> a.errno = 0
      OBVIOUS
    <3>4. is_login_success' = [is_login_success EXCEPT ![c] = ok]
      BY <3>1, <3>3, Zenon
    <3>5. /\ is_login_success' \in [Clients -> BOOLEAN]
          /\ \A d \in Clients : d # c => is_login_success'[d] = is_login_success[d]
          /\ is_login_success'[c] = ok
      BY <2>t, <3>4, Zenon
    <3> QED BY <1>3, <1>5, <2>2, <3>2, <3>3, <3>5
  <2> QED BY <1>3, <2>1, <2>2
<1>11. TypeInv'
  <2>1. Ids' = Ids
    BY <1>9 DEF Ids, directoryVars
  <2> QED BY <1>8, <1>9, <1>10, <2>1 DEF TypeInv, directoryVars, serverVars, menuVars
<1>12. Frame(c)
  BY <1>8, <1>9, <1>10 DEF Frame, ThreadsSame, directoryVars, serverVars, menuVars
<1>13. UNCHANGED <<user, up, user_conn_map, dropped, c2s, s2c, main, asked, sem>>
  BY <1>9 DEF directoryVars, serverVars, menuVars
<1>14. b \notin LogAcks /\ b \notin RegAcks
       /\ Admissions({"logack"}) \subseteq LogAcks /\ Insertions({"regack"}) \subseteq RegAcks
  BY <1>5, AckKinds DEF LogAcks, RegAcks
<1>15. RequestsOK(c)'
  BY <1>1, <1>13 DEF ClientInv, RequestsOK, Waiting
<1>16. AnswersOK(c)'
  <2>1. ~AckSent(c)' /\ Waiting(c)'
    BY <1>6, <1>13 DEF AckSent, Waiting
  <2> QED BY <1>1, <1>6, <1>8, <1>13, <1>14, <2>1 DEF ClientInv, AnswersOK
<1>17. AnswersTrue(c)'
  <2>1. ASSUME NEW e, AnswerTrue(c, e) PROVE AnswerTrue(c, e)'
    BY <1>13, <2>1 DEF AnswerTrue, HasEntry, Ids
  <2>2. AnswerTrue(c, b)'
    BY <1>14 DEF AnswerTrue
  <2> QED BY <1>1, <1>8, <1>13, <2>1, <2>2 DEF ClientInv, AnswersTrue
<1>18. LoggedIn(c)'
  <2>1. main'[c] # "MainMenu" /\ main'[c] # "login" /\ Len(c2s'[c]) = 0
    BY <1>6, <1>13 DEF Waiting
  <2>2. main'[c] = "waitlogin" /\ is_login_success'[c] => HasEntry(c, current_user'[c])
    BY <1>3, <1>7, <1>10, <1>13
  <2> QED BY <1>5, <1>8, <1>13, <2>1, <2>2 DEF LoggedIn, HasEntry
<1>19. Learnt(c)'
  BY <1>3, <1>5, <1>7, <1>8, <1>10, <1>13 DEF Learnt
<1>20. KnownEntries(c)'
  <2>1. SUFFICES ASSUME ~dropped[c], NEW u \in Ids, <<u, c>> \in user_conn_map
                 PROVE  Knows(c, u)'
    BY <1>13 DEF KnownEntries, Ids
  <2>2. Knows(c, u)
    BY <1>1, <1>6, <2>1 DEF ClientInv, KnownEntries
  <2>3. main[c] = "waitlogin" /\ a \in Admissions({"logack", "post"}) /\ a.id = u
    BY <1>2, <1>6, <2>2 DEF Knows, Waiting
  <2>4. a \in LogAcks /\ a.errno = 0
    BY <1>3, <1>7, <2>3 DEF Admissions
  <2>5. b \in Admissions({"logack", "post"}) /\ b.id = u
    BY <1>5, <2>3, <2>4 DEF Admissions
  <2> QED BY <1>8, <1>13, <2>3, <2>5 DEF Knows
<1>21. ClientInv(c)'
  BY <1>15, <1>16, <1>17, <1>18, <1>19, <1>20 DEF ClientInv
<1> QED BY <1>11, <1>12, <1>21, FrameStep

LEMMA SemPostStep ==
  ASSUME TypeInv, SessionInv, NEW c \in Clients, SemPost(c)
  PROVE  TypeInv' /\ SessionInv'
<1>1. ClientInv(c)
  BY DEF SessionInv
<1>2. PICK a \in {NoAnswer} \cup LogAcks \cup RegAcks \cup Posts : a = reader[c]
  BY DEF TypeInv
<1>3. a \in Posts /\ a # NoAnswer /\ a \notin LogAcks
  BY <1>2, AckKinds DEF SemPost
<1>4. /\ main[c] # "ended" /\ Waiting(c) /\ c2s[c] = <<>> /\ Len(c2s[c]) = 0
      /\ sem[c] = 0 /\ ~AckSent(c)
      /\ \A i \in 1..Len(s2c[c]) : s2c[c][i] \notin Admissions({"logack"})
  BY <1>1, <1>2, <1>3, Handling
<1>5. /\ reader' \in [Clients -> {NoAnswer} \cup LogAcks \cup RegAcks \cup Posts]
      /\ reader'[c] = NoAnswer /\ \A d \in Clients : d # c => reader'[d] = reader[d]
  BY DEF SemPost, TypeInv
<1>6. /\ sem' \in [Clients -> Nat] /\ sem'[c] = 1
      /\ \A d \in Clients : d # c => sem'[d] = sem[d]
  BY <1>4 DEF SemPost, TypeInv
<1>7. UNCHANGED <<directoryVars, serverVars, c2s, s2c, menuVars, current_user, is_login_success>>
  BY DEF SemPost
<1>8. TypeInv'
  BY <1>5, <1>6, <1>7 DEF TypeInv, directoryVars, serverVars, menuVars, Ids
<1>9. Frame(c)
  BY <1>5, <1>6, <1>7 DEF Frame, ThreadsSame, directoryVars, serverVars, menuVars
<1>10. UNCHANGED <<user, up, user_conn_map, dropped, c2s, s2c, main, asked, current_user,
                   is_login_success>>
  BY <1>7 DEF directoryVars, serverVars, menuVars
<1>11. NoAnswer \notin LogAcks \cup RegAcks \cup Posts
       /\ Admissions({"logack"}) \subseteq LogAcks /\ Insertions({"regack"}) \subseteq RegAcks
       /\ Admissions({"post"}) \subseteq Posts
  BY AckKinds DEF NoAnswer, LogAcks, RegAcks, Posts
<1>12. RequestsOK(c)'
  BY <1>1, <1>10 DEF ClientInv, RequestsOK, Waiting
<1>13. AnswersOK(c)'
  <2>1. ~AckSent(c)' /\ Waiting(c)'
    BY <1>4, <1>10 DEF AckSent, Waiting
  <2> QED BY <1>1, <1>4, <1>5, <1>6, <1>10, <1>11, <2>1 DEF ClientInv, AnswersOK
<1>14. AnswersTrue(c)'
  <2>1. ASSUME NEW e, AnswerTrue(c, e) PROVE AnswerTrue(c, e)'
    BY <1>10, <2>1 DEF AnswerTrue, HasEntry, Ids
  <2>2. AnswerTrue(c, NoAnswer)'
    BY <1>11 DEF AnswerTrue
  <2> QED BY <1>1, <1>5, <1>10, <2>1, <2>2 DEF ClientInv, AnswersTrue
<1>15. LoggedIn(c)'
  BY <1>1, <1>6, <1>10 DEF ClientInv, LoggedIn, HasEntry
<1>16. Learnt(c)'
  BY <1>5, <1>11 DEF Learnt
<1>17. KnownEntries(c)'
  <2>1. SUFFICES ASSUME ~dropped[c], NEW u \in Ids, <<u, c>> \in user_conn_map
                 PROVE  Knows(c, u)'
    BY <1>10 DEF KnownEntries, Ids
  <2>2. Knows(c, u)
    BY <1>1, <1>4, <2>1 DEF ClientInv, KnownEntries
  <2>3. main[c] = "waitlogin" /\ a \in Admissions({"logack", "post"}) /\ a.id = u
    BY <1>2, <1>4, <2>2 DEF Knows, Waiting
  <2>4. a \in Admissions({"post"})
    BY <1>3, <2>3 DEF Admissions, LogAcks
  <2>5. is_login_success[c] /\ current_user[c] = u
    BY <1>1, <1>2, <2>3, <2>4 DEF ClientInv, Learnt
  <2> QED BY <1>6, <1>10, <2>3, <2>5 DEF Knows
<1>18. ClientInv(c)'
  BY <1>12, <1>13, <1>14, <1>15, <1>16, <1>17 DEF ClientInv
<1> QED BY <1>8, <1>9, <1>18, FrameStep

-----------------------------------------------------------------------------
(* What the server reads.  Requests are taken off the front; a logout that is *)
(* not dispatched is still to come, or was dropped.                           *)

Consumed(d) ==
    /\ c2s[d] = <<>> => c2s'[d] = <<>>
    /\ \E k \in Nat : /\ Len(c2s'[d]) = Len(c2s[d]) - k
                      /\ \A i \in 1..Len(c2s'[d]) : /\ i + k \in 1..Len(c2s[d])
                                                    /\ c2s'[d][i] = c2s[d][i + k]
    /\ dropped[d] => dropped'[d]
    /\ dropped'[d] \/ \A j \in 1..Len(c2s[d]) : c2s[d][j] \in Logouts =>
                         \E i \in 1..Len(c2s'[d]) : c2s'[d][i] = c2s[d][j]

LEMMA ConsumedInv ==
  ASSUME TypeInv, NEW d \in Clients, ClientInv(d), ThreadsSame(d), Consumed(d),
         \/ s2c'[d] = s2c[d]
         \/ main[d] # "ended" /\ \E r \in Chats : s2c'[d] = Append(s2c[d], r),
         EntriesKept(d)
  PROVE  ClientInv(d)'
<1> USE DEF ThreadsSame
<1>1. PICK s \in Seq(Answers) : s = s2c[d]
  BY DEF TypeInv, Conns
<1>2. PICK t : t = s2c'[d]
  OBVIOUS
<1>3. /\ \A i \in 1..Len(s) : i \in 1..Len(t) /\ t[i] = s[i]
      /\ \A i \in 1..Len(t) : (i \in 1..Len(s) /\ t[i] = s[i]) \/ (t[i] \in Chats /\ main[d] # "ended")
      /\ main[d] = "ended" => t = s
  <2>1. CASE t = s
    BY <2>1
  <2>2. CASE main[d] # "ended" /\ \E r \in Chats : t = Append(s, r)
    <3>1. PICK r \in Answers : r \in Chats /\ t = Append(s, r)
      BY <2>2 DEF Answers
    <3>2. /\ t \in Seq(Answers) /\ Len(s) \in Nat /\ Len(t) = Len(s) + 1
          /\ \A i \in 1..Len(s) : t[i] = s[i]
          /\ t[Len(s) + 1] = r
          /\ \A i \in 1..Len(t) : i \in 1..Len(s) \/ i = Len(s) + 1
      BY <3>1, Appended
    <3>3. \A i \in 1..Len(s) : i \in 1..Len(t)
      BY <3>2
    <3> QED BY <2>2, <3>1, <3>2, <3>3
  <2> QED BY <1>1, <1>2, <2>1, <2>2
<1>4. ASSUME NEW r \in Chats
      PROVE  /\ ~IsAck(r) /\ r \notin LogAcks /\ r \notin RegAcks /\ r \notin Admissions({"logack"})
             /\ r \notin Insertions({"regack"})
  <2>1. r \in Answers
    BY DEF Answers
  <2> QED BY <2>1, AnswerKinds DEF IsAck
<1>5. Len(c2s[d]) \in Nat
  BY InQueues DEF Conns
<1>6. PICK k \in Nat : /\ Len(c2s'[d]) = Len(c2s[d]) - k
                       /\ \A i \in 1..Len(c2s'[d]) : /\ i + k \in 1..Len(c2s[d])
                                                     /\ c2s'[d][i] = c2s[d][i + k]
  BY DEF Consumed
<1>7. RequestsOK(d)'
  <2>1. ASSUME NEW i \in 1..Len(c2s'[d]), c2s'[d][i] \in Logins \cup Registers
        PROVE  i = Len(c2s'[d]) /\ (main[d] = "ended" \/ (Waiting(d) /\ c2s'[d][i] = asked[d]))
    <3>1. /\ i + k \in 1..Len(c2s[d]) /\ c2s'[d][i] = c2s[d][i + k]
      BY <1>6
    <3>2. /\ i + k = Len(c2s[d])
          /\ main[d] = "ended" \/ (Waiting(d) /\ c2s[d][i + k] = asked[d])
      BY <2>1, <3>1 DEF ClientInv, RequestsOK
    <3> QED BY <1>5, <1>6, <3>1, <3>2
  <2>2. ASSUME NEW i \in 1..Len(c2s'[d]), NEW j \in 1..Len(c2s'[d]),
               c2s'[d][i] \in Logouts, c2s'[d][j] \in Logouts
        PROVE  i = j
    <3>1. i + k = j + k
      BY <1>6, <2>2 DEF ClientInv, RequestsOK
    <3> QED BY <3>1
  <2>3. ASSUME main[d] = "MainMenu", NEW i \in 1..Len(c2s'[d]) PROVE c2s'[d][i] \notin Logouts
    BY <1>6, <2>3 DEF ClientInv, RequestsOK
  <2>4. Waiting(d)' <=> Waiting(d)
    BY DEF Waiting
  <2> QED BY <2>1, <2>2, <2>3, <2>4 DEF ClientInv, RequestsOK
<1>8. AnswersOK(d)'
  <2>1. AckSent(d)' <=> AckSent(d)
    BY <1>1, <1>2, <1>3, <1>4 DEF AckSent
  <2>2. \A i, j \in 1..Len(t) : IsAck(t[i]) /\ IsAck(t[j]) => i = j
    BY <1>1, <1>3, <1>4 DEF ClientInv, AnswersOK
  <2>3. \A i \in 1..Len(t) : /\ t[i] \in LogAcks => main[d] = "waitlogin"
                             /\ t[i] \in RegAcks => main[d] = "waitreg"
    BY <1>1, <1>3, <1>4 DEF ClientInv, AnswersOK
  <2>4. c2s[d] = <<>> => c2s'[d] = <<>>
    BY DEF Consumed
  <2>5. main[d] = "ended" => t = <<>>
    BY <1>1, <1>3 DEF ClientInv, AnswersOK
  <2> QED BY <1>2, <2>1, <2>2, <2>3, <2>4, <2>5 DEF ClientInv, AnswersOK, Answered, Waiting
<1>9. AnswersTrue(d)'
  <2>1. ASSUME NEW a, AnswerTrue(d, a) PROVE AnswerTrue(d, a)'
    BY <2>1 DEF AnswerTrue, EntriesKept
  <2>2. ASSUME NEW r \in Chats PROVE AnswerTrue(d, r)'
    BY <1>4 DEF AnswerTrue
  <2> QED BY <1>1, <1>2, <1>3, <2>1, <2>2 DEF ClientInv, AnswersTrue
<1>10. LoggedIn(d)'
  <2>1. \A i \in 1..Len(c2s'[d]) : c2s'[d][i] \in Logouts => HasEntry(d, c2s'[d][i].id)
    BY <1>6 DEF ClientInv, LoggedIn
  <2> QED BY <2>1 DEF ClientInv, LoggedIn, EntriesKept
<1>11. Learnt(d)'
  BY DEF ClientInv, Learnt
<1>12. KnownEntries(d)'
  <2>1. ASSUME NEW u, Knows(d, u), ~dropped'[d] PROVE Knows(d, u)'
    <3>1. CASE \E j \in 1..Len(c2s[d]) : c2s[d][j] \in Logouts /\ c2s[d][j].id = u
      <4>1. PICK j \in 1..Len(c2s[d]) : c2s[d][j] \in Logouts /\ c2s[d][j].id = u
        BY <3>1
      <4>2. PICK i \in 1..Len(c2s'[d]) : c2s'[d][i] = c2s[d][j]
        BY <2>1, <4>1 DEF Consumed
      <4> QED BY <4>1, <4>2 DEF Knows
    <3>2. CASE main[d] = "waitlogin"
               /\ \E i \in 1..Len(s) : s[i] \in Admissions({"logack"}) /\ s[i].id = u
      <4>1. PICK i \in 1..Len(s) : s[i] \in Admissions({"logack"}) /\ s[i].id = u
        BY <3>2
      <4>2. i \in 1..Len(t) /\ t[i] = s[i]
        BY <1>3
      <4> QED BY <1>2, <3>2, <4>1, <4>2 DEF Knows
    <3> QED BY <1>1, <2>1, <3>1, <3>2 DEF Knows
  <2> QED BY <2>1 DEF ClientInv, KnownEntries, EntriesKept, Consumed
<1> QED BY <1>7, <1>8, <1>9, <1>10, <1>11, <1>12 DEF ClientInv

(* The login or registration of client c, its only request, is answered. *)
LEMMA AnsweredInv ==
  ASSUME TypeInv, NEW c \in Clients, ClientInv(c), ThreadsSame(c), Waiting(c),
         Len(c2s[c]) = 1, c2s[c][1] \notin Logouts, c2s'[c] = <<>>, dropped'[c] = dropped[c],
         NEW a \in Answers, s2c'[c] = Append(s2c[c], a), AnswerTrue(c, a)',
         \/ a \in LogAcks /\ main[c] = "waitlogin"
         \/ a \in RegAcks /\ main[c] = "waitreg",
         Ids \subseteq Ids', \A i \in Ids : user'[i] = user[i],
         \A u : HasEntry(c, u) => HasEntry(c, u)',
         \A u \in Ids' : <<u, c>> \in user_conn_map' =>
             \/ u \in Ids /\ <<u, c>> \in user_conn_map
             \/ a \in Admissions({"logack"}) /\ a.id = u
  PROVE  ClientInv(c)'
<1> USE DEF ThreadsSame
<1>1. PICK s \in Seq(Answers) : s = s2c[c]
  BY DEF TypeInv, Conns
<1>2. PICK t : t = Append(s, a)
  OBVIOUS
<1>3. /\ t \in Seq(Answers) /\ Len(s) \in Nat /\ Len(t) = Len(s) + 1
      /\ \A i \in 1..Len(s) : t[i] = s[i]
      /\ t[Len(s) + 1] = a
      /\ \A i \in 1..Len(t) : i \in 1..Len(s) \/ i = Len(s) + 1
  BY <1>2, Appended
<1>4. s2c'[c] = t /\ Len(s) + 1 \in 1..Len(t)
  BY <1>1, <1>2, <1>3
<1>5. /\ a \in LogAcks => a \notin RegAcks
      /\ a \in LogAcks => a \notin Insertions({"regack"})
  <2>1. Insertions({"regack"}) \subseteq RegAcks
    BY DEF RegAcks
  <2> QED BY <2>1, AnswerKinds
<1>6. main[c] # "ended" /\ main[c] # "MainMenu" /\ main[c] # "menu" /\ main[c] # "login"
  BY DEF Waiting
<1>7. c2s[c] # <<>> /\ Len(c2s'[c]) = 0
  <2>1. CASE c2s[c] = <<>>
    <3>1. Len(c2s[c]) = 0
      BY <2>1
    <3> QED BY <3>1
  <2>2. Len(c2s'[c]) = 0
    OBVIOUS
  <2> QED BY <2>1, <2>2
<1>8. ~AckSent(c) /\ reader[c] = NoAnswer /\ sem[c] = 0
  BY <1>6, <1>7 DEF ClientInv, AnswersOK, Answered
<1>9. \A i \in 1..Len(s) : s[i] \in Answers /\ ~IsAck(s[i]) /\ s[i] \notin LogAcks
                           /\ s[i] \notin RegAcks /\ s[i] \notin Admissions({"logack"})
  <2>1. \A i \in 1..Len(s) : s[i] \in Answers
    BY ElementOfSeq
  <2> QED BY <1>1, <1>8, <2>1, AnswerKinds DEF AckSent, IsAck
<1>10. NoAnswer \notin LogAcks \cup RegAcks \cup Posts
       /\ Admissions({"logack"}) \subseteq LogAcks /\ Admissions({"post"}) \subseteq Posts
       /\ Admissions({"logack", "post"}) \subseteq LogAcks \cup Posts
  BY AckKinds DEF NoAnswer, LogAcks, Posts, Admissions
<1>11. RequestsOK(c)'
  BY <1>6, <1>7 DEF ClientInv, RequestsOK
<1>12. AnswersOK(c)'
  <2>1. Waiting(c)' /\ c2s'[c] = <<>> /\ main'[c] # "ended"
    BY <1>6 DEF Waiting
  <2>2. reader'[c] = NoAnswer /\ sem'[c] = 0
    BY <1>8
  <2>3. \A i, j \in 1..Len(t) : IsAck(t[i]) /\ IsAck(t[j]) => i = j
    BY <1>3, <1>9
  <2>4. \A i \in 1..Len(t) : /\ t[i] \in LogAcks => main'[c] = "waitlogin"
                             /\ t[i] \in RegAcks => main'[c] = "waitreg"
    BY <1>3, <1>5, <1>9
  <2> QED BY <1>4, <1>10, <2>1, <2>2, <2>3, <2>4 DEF AnswersOK
<1>13. AnswersTrue(c)'
  <2>1. ASSUME NEW b, AnswerTrue(c, b) PROVE AnswerTrue(c, b)'
    BY <2>1 DEF AnswerTrue
  <2> QED BY <1>1, <1>3, <1>4, <2>1 DEF ClientInv, AnswersTrue
<1>14. LoggedIn(c)'
  BY <1>6, <1>7 DEF ClientInv, LoggedIn
<1>15. Learnt(c)'
  BY <1>8, <1>10 DEF Learnt
<1>16. KnownEntries(c)'
  <2>1. SUFFICES ASSUME ~dropped[c], NEW u \in Ids', <<u, c>> \in user_conn_map'
                 PROVE  Knows(c, u)'
    BY DEF KnownEntries
  <2>2. ~(u \in Ids /\ <<u, c>> \in user_conn_map)
    <3>1. ~Knows(c, u)
      BY <1>1, <1>6, <1>8, <1>9, <1>10 DEF Knows
    <3> QED BY <1>6, <2>1, <3>1 DEF ClientInv, KnownEntries
  <2>3. a \in Admissions({"logack"}) /\ a.id = u
    BY <2>1, <2>2
  <2>4. main'[c] = "waitlogin"
    BY <1>5, <1>10, <2>3
  <2> QED BY <1>3, <1>4, <2>3, <2>4 DEF Knows
<1> QED BY <1>11, <1>12, <1>13, <1>14, <1>15, <1>16 DEF ClientInv

(* Nothing is promised to a client that has ended and whose input is read. *)
LEMMA EndedInv ==
  ASSUME NEW c \in Clients, ClientInv(c), ThreadsSame(c), main[c] = "ended",
         c2s'[c] = <<>>, s2c'[c] = s2c[c]
  PROVE  ClientInv(c)'
<1>1. main'[c] = "ended" /\ s2c'[c] = <<>> /\ reader'[c] = NoAnswer /\ sem'[c] = sem[c]
      /\ sem[c] \in {0, 1}
  BY DEF ClientInv, AnswersOK, ThreadsSame
<1>2. Len(s2c'[c]) = 0 /\ Len(c2s'[c]) = 0
  BY <1>1
<1>3. NoAnswer \notin LogAcks \cup RegAcks
      /\ Admissions({"logack"}) \subseteq LogAcks /\ Insertions({"regack"}) \subseteq RegAcks
  BY AckKinds DEF NoAnswer, LogAcks, RegAcks
<1>4. RequestsOK(c)'
  BY <1>1, <1>2 DEF RequestsOK
<1>5. AnswersOK(c)'
  BY <1>1, <1>2, <1>3 DEF AnswersOK, AckSent
<1>6. AnswersTrue(c)'
  BY <1>1, <1>2, <1>3 DEF AnswersTrue, AnswerTrue
<1>7. LoggedIn(c)'
  BY <1>1, <1>2 DEF LoggedIn
<1>8. Learnt(c)' /\ KnownEntries(c)'
  BY <1>1 DEF Learnt, KnownEntries
<1> QED BY <1>4, <1>5, <1>6, <1>7, <1>8 DEF ClientInv

-----------------------------------------------------------------------------
(* Server steps *)

LEMMA TypeStep ==
  ASSUME TypeInv, SessionInv, NEW c \in Typed, NEW r \in TypedRequests, Type(c, r)
  PROVE  TypeInv' /\ SessionInv'
<1>1. c \in Conns /\ c \notin Clients
  BY ClientServerAssumption DEF Conns
<1>2. r \in Others \cup Chats /\ r \in Requests
  BY TypedTypes DEF Requests
<1>3. /\ c2s' \in [Conns -> Seq(Requests)] /\ c2s'[c] = Append(c2s[c], r)
      /\ \A d \in Conns : d # c => c2s'[d] = c2s[d]
  BY <1>1, <1>2, SendOf DEF Type
<1>4. UNCHANGED <<directoryVars, serverVars, s2c, main, asked, sharedVars, reader>>
  BY DEF Type
<1>5. TypeInv'
  BY <1>3, <1>4 DEF TypeInv, directoryVars, serverVars, sharedVars, Ids
<1>6. Ids' = Ids /\ EntriesOK'
  BY <1>4 DEF SessionInv, EntriesOK, directoryVars, serverVars, Ids
<1>7. ASSUME NEW d \in Clients PROVE ClientInv(d)'
  <2>1. Same(d)
    BY <1>1, <1>3, <1>4 DEF Same, ThreadsSame, serverVars, sharedVars, Conns
  <2>2. EntriesKept(d)
    BY <1>4, <1>6 DEF EntriesKept, HasEntry, directoryVars, serverVars
  <2> QED BY <2>1, <2>2, Unaffected DEF SessionInv
<1>8. TypedOK'
  <2>1. PICK q \in Seq(Requests) : q = c2s[c]
    BY <1>1 DEF TypeInv
  <2>2. PICK t : t = Append(q, r)
    OBVIOUS
  <2>3. /\ \A i \in 1..Len(q) : t[i] = q[i]
        /\ t[Len(q) + 1] = r
        /\ \A i \in 1..Len(t) : i \in 1..Len(q) \/ i = Len(q) + 1
    BY <1>2, <2>2, Appended
  <2>4. \A i \in 1..Len(t) : t[i] \in CreateGroups \cup Others \cup Chats
    BY <1>2, <2>1, <2>3 DEF SessionInv, TypedOK
  <2>5. c2s'[c] = t /\ \A d \in Typed : d # c => c2s'[d] = c2s[d]
    BY <1>3, <2>1, <2>2 DEF Conns
  <2> QED BY <2>4, <2>5 DEF SessionInv, TypedOK
<1> QED BY <1>5, <1>6, <1>7, <1>8 DEF SessionInv

(* What reading does apart from dispatching the first request. *)
Takes(c) ==
    /\ c2s' \in [Conns -> Seq(Requests)] /\ cut' \in [Conns -> BOOLEAN]
    /\ dropped' \in [Conns -> BOOLEAN]
    /\ \A d \in Conns : d # c => c2s'[d] = c2s[d] /\ dropped'[d] = dropped[d]
    /\ UNCHANGED <<open, menuVars, sharedVars, reader>>
    /\ Len(c2s[c]) = 1 => c2s'[c] = <<>> /\ dropped'[c] = dropped[c]
    /\ dropped[c] => dropped'[c]
    /\ \E k \in Nat : /\ Len(c2s'[c]) = Len(c2s[c]) - k
                      /\ \A i \in 1..Len(c2s'[c]) : /\ i + k \in 2..Len(c2s[c])
                                                    /\ c2s'[c][i] = c2s[c][i + k]
    /\ c2s[c][1] \notin Logouts => Consumed(c)

LEMMA ReadOf ==
  ASSUME TypeInv, NEW c \in Conns, NEW k \in 1..Len(c2s[c]), OnMessage(c, k)
  PROVE  Takes(c) /\ c2s[c][1] \in Requests /\ 1 \in 1..Len(c2s[c])
<1>1. PICK q \in Seq(Requests) : q = c2s[c]
  BY DEF TypeInv
<1>2. PICK t : t = SubSeq(q, k + 1, Len(q))
  OBVIOUS
<1>3. /\ t \in Seq(Requests) /\ Len(q) \in Nat /\ Len(t) = Len(q) - k
      /\ \A i \in 1..Len(t) : i + k \in 2..Len(q) /\ t[i] = q[i + k]
  BY <1>1, <1>2, CutOff, SMTT(30)
<1>4. k \in Nat /\ k >= 1 /\ k <= Len(q) /\ 1 \in 1..Len(q)
  BY <1>1, <1>3
<1>5. q[1] \in Requests
  BY <1>4, ElementOfSeq
<1>6. /\ c2s' \in [Conns -> Seq(Requests)] /\ c2s'[c] = t
      /\ \A d \in Conns : d # c => c2s'[d] = c2s[d]
  <2>1. c2s' = [c2s EXCEPT ![c] = t]
    BY <1>1, <1>2 DEF OnMessage
  <2> QED BY <1>3, <2>1 DEF TypeInv
<1>7. cut' \in [Conns -> BOOLEAN]
  BY DEF OnMessage, TypeInv
<1>8. /\ dropped' \in [Conns -> BOOLEAN]
      /\ \A d \in Conns : d # c => dropped'[d] = dropped[d]
      /\ dropped'[c] <=> dropped[c] \/ k > 1
  <2>1. PICK b \in BOOLEAN : b <=> dropped[c] \/ k > 1
    OBVIOUS
  <2>2. dropped' = [dropped EXCEPT ![c] = dropped[c] \/ k > 1]
    BY DEF OnMessage
  <2>3. (dropped[c] \/ k > 1) = b
    BY <2>1, Zenon
  <2>4. dropped' = [dropped EXCEPT ![c] = b]
    BY <2>2, <2>3, Zenon
  <2>5. dropped \in [Conns -> BOOLEAN]
    BY DEF TypeInv
  <2> QED BY <2>1, <2>4, <2>5, Zenon
<1>9. Len(q) = 1 => t = <<>> /\ dropped'[c] = dropped[c]
  <2>1. Len(q) = 1 => Len(t) = 0 /\ ~(k > 1)
    BY <1>3, <1>4
  <2>2. Len(q) = 1 => t = <<>>
    BY <1>3, <2>1, EmptySeq
  <2>3. dropped[c] \in BOOLEAN /\ dropped'[c] \in BOOLEAN
    BY <1>8 DEF TypeInv
  <2> QED BY <1>8, <2>1, <2>2, <2>3
<1>10. \E j \in Nat : /\ Len(t) = Len(q) - j
                      /\ \A i \in 1..Len(t) : i + j \in 2..Len(q) /\ t[i] = q[i + j]
  BY <1>3, <1>4
<1>11. ASSUME q[1] \notin Logouts PROVE Consumed(c)
  <2>1. Len(c2s[c]) # 0 /\ c2s[c] # <<>>
    <3>1. CASE q = <<>>
      <4>1. Len(q) = 0
        BY <3>1
      <4> QED BY <1>4, <4>1
    <3> QED BY <1>1, <1>4, <3>1
  <2>2. \A i \in 1..Len(t) : i + k \in 1..Len(q) /\ t[i] = q[i + k]
    BY <1>3
  <2>3. ASSUME ~dropped'[c], NEW j \in 1..Len(q), q[j] \in Logouts
        PROVE  \E i \in 1..Len(t) : t[i] = q[j]
    <3>1. j # 1 /\ k = 1
      BY <1>4, <1>8, <1>11, <2>3
    <3>2. j - 1 \in 1..Len(t) /\ (j - 1) + k = j
      BY <1>3, <3>1
    <3> QED BY <1>3, <3>2
  <2> QED BY <1>1, <1>3, <1>4, <1>6, <1>8, <2>1, <2>2, <2>3 DEF Consumed
<1>12. UNCHANGED <<open, menuVars, sharedVars, reader>>
  BY DEF OnMessage
<1>13. \E j \in Nat : /\ Len(c2s'[c]) = Len(c2s[c]) - j
                      /\ \A i \in 1..Len(c2s'[c]) : /\ i + j \in 2..Len(c2s[c])
                                                    /\ c2s'[c][i] = c2s[c][i + j]
  BY <1>1, <1>6, <1>10, Zenon
<1>14. dropped[c] => dropped'[c]
  BY <1>8
<1> QED BY <1>1, <1>4, <1>5, <1>6, <1>7, <1>8, <1>9, <1>11, <1>12, <1>13, <1>14 DEF Takes

LEMMA TakesType ==
  ASSUME TypeInv, NEW c \in Conns, Takes(c),
         user' \in Seq(Names), Ids \subseteq Ids', online' \subseteq Ids',
         chat_group' \in Seq(Groups), db_faults' \in Nat, up' \in BOOLEAN,
         user_conn_map' \subseteq Ids' \X Conns, s2c' \in [Conns -> Seq(Answers)]
  PROVE  TypeInv'
<1>1. UNCHANGED <<open, main, asked, current_user, is_login_success, sem, reader>>
  BY DEF Takes, menuVars, sharedVars
<1>2. current_user \in [Clients -> Ids' \cup {NoId}]
  BY DEF TypeInv
<1>3. /\ c2s' \in [Conns -> Seq(Requests)] /\ cut' \in [Conns -> BOOLEAN]
      /\ dropped' \in [Conns -> BOOLEAN]
  BY DEF Takes
<1> QED BY <1>1, <1>2, <1>3 DEF TypeInv

LEMMA TakesSame ==
  ASSUME TypeInv, SessionInv, NEW c \in Conns, Takes(c)
  PROVE  /\ \A d \in Clients : ThreadsSame(d) /\ (d # c => Consumed(d))
         /\ TypedOK'
<1>1. ASSUME NEW d \in Clients PROVE ThreadsSame(d)
  BY DEF Takes, menuVars, sharedVars, ThreadsSame
<1>2. ASSUME NEW d \in Clients, d # c PROVE Consumed(d)
  <2>1. c2s'[d] = c2s[d] /\ dropped'[d] = dropped[d]
    BY <1>2 DEF Takes, Conns
  <2>2. Len(c2s[d]) \in Nat
    BY InQueues DEF Conns
  <2>3. /\ Len(c2s'[d]) = Len(c2s[d]) - 0
        /\ \A i \in 1..Len(c2s'[d]) : i + 0 \in 1..Len(c2s[d]) /\ c2s'[d][i] = c2s[d][i + 0]
    BY <2>1, <2>2
  <2>4. \E k \in Nat : /\ Len(c2s'[d]) = Len(c2s[d]) - k
                       /\ \A i \in 1..Len(c2s'[d]) : /\ i + k \in 1..Len(c2s[d])
                                                     /\ c2s'[d][i] = c2s[d][i + k]
    BY <2>3
  <2> QED BY <2>1, <2>4 DEF Consumed
<1>3. TypedOK'
  <2>1. SUFFICES ASSUME NEW d \in Typed, NEW i \in 1..Len(c2s'[d])
                 PROVE  c2s'[d][i] \in CreateGroups \cup Others \cup Chats
    BY DEF TypedOK
  <2>2. CASE d = c
    <3>1. PICK j \in 2..Len(c2s[c]) : c2s'[c][i] = c2s[c][j]
      BY <2>2 DEF Takes
    <3>2. j \in 1..Len(c2s[c])
      BY <3>1, InQueues
    <3> QED BY <2>2, <3>1, <3>2 DEF SessionInv, TypedOK
  <2>3. CASE d # c
    <3>1. c2s'[d] = c2s[d]
      BY <2>3 DEF Takes, Conns
    <3> QED BY <3>1 DEF SessionInv, TypedOK
  <2> QED BY <2>2, <2>3
<1> QED BY <1>1, <1>2, <1>3

(* Requests that answer nobody but by forwarding. *)
LEMMA PassedOn ==
  ASSUME TypeInv, SessionInv, NEW c \in Conns, NEW r \in Requests, r = c2s[c][1], Takes(c),
         (r \notin Logouts /\ Abort) \/ Forwarded(c, r) \/ Quiet(c, r)
  PROVE  TypeInv' /\ SessionInv'
<1>1. UNCHANGED <<user, online>> /\ Ids' = Ids
  BY DEF Abort, Forwarded, Quiet, directoryVars, Ids
<1>2. chat_group' \in Seq(Groups) /\ db_faults' \in Nat
  BY DEF Abort, Forwarded, Quiet, directoryVars, TypeInv
<1>3. (up' = FALSE /\ user_conn_map' = {}) \/ UNCHANGED <<up, user_conn_map>>
  BY DEF Abort, Forwarded, Quiet, Stays
<1>4. /\ s2c' \in [Conns -> Seq(Answers)]
      /\ \A d \in Conns : \/ s2c'[d] = s2c[d]
                          \/ ~Ended(d) /\ \E a \in Chats : s2c'[d] = Append(s2c[d], a)
  <2>1. CASE s2c' = s2c
    BY <2>1 DEF TypeInv
  <2>2. CASE r \in Chats /\ \E d \in Conns : Answer(d, r)
    <3>1. PICK e \in Conns : Answer(e, r)
      BY <2>2
    <3>2. r \in Answers
      BY <2>2 DEF Answers
    <3>3. /\ s2c' \in [Conns -> Seq(Answers)]
          /\ \A d \in Conns : d # e => s2c'[d] = s2c[d]
          /\ s2c'[e] = IF Ended(e) THEN s2c[e] ELSE Append(s2c[e], r)
      BY <3>1, <3>2, AnswerOf
    <3> QED BY <2>2, <3>3
  <2> QED BY <2>1, <2>2 DEF Abort, Forwarded, Quiet
<1>5. TypeInv'
  <2>1. /\ user' \in Seq(Names) /\ Ids \subseteq Ids' /\ online' \subseteq Ids'
        /\ up' \in BOOLEAN /\ user_conn_map' \subseteq Ids' \X Conns
    BY <1>1, <1>3 DEF TypeInv
  <2> QED BY <1>2, <1>4, <2>1, TakesType
<1>6. EntriesOK'
  BY <1>1, <1>3 DEF SessionInv, EntriesOK
<1>7. Consumed(c)
  <2>1. r \notin Logouts
    BY RequestKinds DEF Forwarded, Quiet
  <2> QED BY <2>1 DEF Takes
<1>8. ASSUME NEW d \in Clients PROVE ClientInv(d)'
  <2>1. EntriesKept(d)
    BY <1>1, <1>3 DEF EntriesKept, HasEntry
  <2>2. ThreadsSame(d) /\ Consumed(d)
    BY <1>7, TakesSame
  <2>3. \/ s2c'[d] = s2c[d]
        \/ main[d] # "ended" /\ \E a \in Chats : s2c'[d] = Append(s2c[d], a)
    BY <1>4 DEF Conns, Ended
  <2> QED BY <2>1, <2>2, <2>3, ConsumedInv DEF SessionInv
<1> QED BY <1>5, <1>6, <1>8, TakesSame DEF SessionInv

(* A login or registration is the only request of the client program c. *)
LEMMA OnlyRequest ==
  ASSUME TypeInv, SessionInv, NEW c \in Conns, 1 \in 1..Len(c2s[c]),
         c2s[c][1] \in Logins \cup Registers
  PROVE  /\ c \in Clients /\ Len(c2s[c]) = 1 /\ c2s[c][1] \notin Logouts
         /\ main[c] = "ended" \/ (Waiting(c) /\ c2s[c][1] = asked[c])
         /\ ~Ended(c) /\ c2s[c][1] \in Logins => main[c] = "waitlogin"
         /\ ~Ended(c) /\ c2s[c][1] \in Registers => main[c] = "waitreg"
<1>1. PICK r \in Requests : r = c2s[c][1]
  BY InQueues
<1>2. r \notin Logouts /\ r \notin CreateGroups /\ r \notin Others /\ r \notin Chats
      /\ (r \in Logins => r \notin Registers)
  BY <1>1, RequestKinds
<1>3. c \in Clients
  BY <1>1, <1>2 DEF SessionInv, TypedOK, Conns
<1>4. Len(c2s[c]) = 1 /\ (main[c] = "ended" \/ (Waiting(c) /\ c2s[c][1] = asked[c]))
  BY <1>3 DEF SessionInv, ClientInv, RequestsOK
<1>5. ~Ended(c) => /\ main[c] = "waitlogin" => asked[c] \in Logins
                   /\ main[c] = "waitreg" => asked[c] \in Registers
  BY <1>3 DEF SessionInv, ClientInv, RequestsOK
<1> QED BY <1>1, <1>2, <1>3, <1>4, <1>5 DEF Ended, Waiting

LEMMA AnsweredStep ==
  ASSUME TypeInv, SessionInv, NEW c \in Conns, NEW r \in Requests, r = c2s[c][1], Takes(c),
         1 \in 1..Len(c2s[c]),
         Admitted(c, r) \/ Refused(c, r) \/ Inserted(c, r)
  PROVE  TypeInv' /\ SessionInv'
<1>1. r \in Logins \cup Registers /\ Stays
  BY DEF Admitted, Refused, Inserted
<1>2. /\ c \in Clients /\ Len(c2s[c]) = 1 /\ c2s[c][1] \notin Logouts
      /\ main[c] = "ended" \/ (Waiting(c) /\ r = asked[c])
      /\ ~Ended(c) /\ r \in Logins => main[c] = "waitlogin"
      /\ ~Ended(c) /\ r \in Registers => main[c] = "waitreg"
  BY <1>1, OnlyRequest
<1>3. /\ user' \in Seq(Names) /\ Ids \subseteq Ids' /\ \A i \in Ids : user'[i] = user[i]
      /\ chat_group' \in Seq(Groups) /\ db_faults' \in Nat
  <2>1. CASE Admitted(c, r) \/ Refused(c, r)
    BY <2>1 DEF Admitted, Refused, directoryVars, TypeInv, Ids
  <2>2. CASE Inserted(c, r)
    <3>1. PICK id : Insert(r.name, id)
      BY <2>2 DEF Inserted
    <3>2. r.name \in Names
      BY <2>2 DEF Inserted, Registers
    <3> QED BY <3>1, <3>2, InsertOf DEF TypeInv
  <2> QED BY <2>1, <2>2
<1>4. /\ online \subseteq online' /\ online' \subseteq Ids'
      /\ Admitted(c, r) => r.id \in online' /\ r.id \in Ids'
      /\ ~Admitted(c, r) => user_conn_map' = user_conn_map
  <2>1. CASE Admitted(c, r)
    BY <1>3, <2>1 DEF Admitted, TypeInv
  <2>2. CASE Refused(c, r) /\ ~Admitted(c, r)
    BY <1>3, <2>2 DEF Refused, TypeInv, directoryVars
  <2>3. CASE Inserted(c, r)
    <3>1. PICK id : Insert(r.name, id)
      BY <2>3 DEF Inserted
    <3>2. r.name \in Names
      BY <2>3 DEF Inserted, Registers
    <3>3. online' = online
      BY <3>1, <3>2, InsertOf
    <3>4. ~Admitted(c, r) \/ r \in Logins
      BY DEF Admitted
    <3>5. r \notin Logins
      BY <2>3, RequestKinds DEF Inserted
    <3> QED BY <1>3, <2>3, <3>3, <3>4, <3>5 DEF Inserted, TypeInv
  <2> QED BY <2>1, <2>2, <2>3
<1>5. PICK a \in Answers :
         /\ Answer(c, a)
         /\ (a \in LogAcks /\ r \in Logins) \/ (a \in RegAcks /\ r \in Registers)
         /\ Admitted(c, r) => a \in Admissions({"logack"}) /\ a.id = r.id
         /\ a \in Admissions({"logack"}) => Admitted(c, r) /\ a.id = r.id
         /\ a \in Insertions({"regack"}) => a.id \in Ids' /\ user'[a.id] = r.name
  <2>k. /\ LogAcks \cup RegAcks \subseteq Answers
        /\ Admissions({"logack"}) \subseteq LogAcks /\ Refusals({"logack"}) \subseteq LogAcks
        /\ Insertions({"regack"}) \subseteq RegAcks
    BY DEF Answers, LogAcks, RegAcks
  <2>l. ASSUME NEW a \in LogAcks PROVE a \notin RegAcks
    BY <2>k, AnswerKinds
  <2>1. CASE Admitted(c, r)
    <3>1. PICK a \in Admissions({"logack"}) : a.id = r.id /\ Answer(c, a)
      BY <2>1 DEF Admitted
    <3>2. r \in Logins
      BY <2>1 DEF Admitted
    <3>3. a \in Answers /\ a \in LogAcks /\ a \notin Insertions({"regack"})
      BY <2>k, <2>l
    <3> QED BY <2>1, <3>1, <3>2, <3>3
  <2>2. CASE Refused(c, r) /\ ~Admitted(c, r)
    <3>1. PICK a \in Refusals({"logack"}) : Answer(c, a)
      BY <2>2 DEF Refused
    <3>2. a \notin Admissions({"logack"})
      BY DEF Refusals, Admissions
    <3>3. r \in Logins
      BY <2>2 DEF Refused
    <3>4. a \in Answers /\ a \in LogAcks /\ a \notin Insertions({"regack"})
      BY <2>k, <2>l
    <3> QED BY <2>2, <3>1, <3>2, <3>3, <3>4
  <2>3. CASE Inserted(c, r) /\ ~Admitted(c, r)
    <3>1. PICK id : /\ Insert(r.name, id)
                    /\ \E a \in RegAcks : /\ Answer(c, a)
                                          /\ a \in Insertions({"regack"}) => id # NoId /\ a.id = id
      BY <2>3 DEF Inserted
    <3>2. r.name \in Names
      BY <2>3 DEF Inserted, Registers
    <3>3. id # NoId => id \in Ids' /\ user'[id] = r.name
      BY <3>1, <3>2, InsertOf
    <3>4. PICK a \in RegAcks : /\ Answer(c, a)
                               /\ a \in Insertions({"regack"}) => id # NoId /\ a.id = id
      BY <3>1
    <3>5. a \notin Admissions({"logack"})
      BY <2>k, <2>l, <3>4
    <3> QED BY <2>3, <2>k, <3>3, <3>4, <3>5 DEF Inserted
  <2> QED BY <2>1, <2>2, <2>3
<1>6. /\ s2c' \in [Conns -> Seq(Answers)]
      /\ \A d \in Conns : d # c => s2c'[d] = s2c[d]
      /\ s2c'[c] = IF Ended(c) THEN s2c[c] ELSE Append(s2c[c], a)
  BY <1>5, AnswerOf
<1>7. Admitted(c, r) => user_conn_map' = user_conn_map \cup {<<r.id, c>>} /\ r.id \in Ids
                        /\ r.id \notin online
  BY DEF Admitted
<1>8. user_conn_map \subseteq Ids \X Conns /\ up' = up /\ up \in BOOLEAN
  BY <1>1 DEF TypeInv, Stays
<1>9. TypeInv'
  <2>1. user_conn_map' \subseteq Ids' \X Conns
    BY <1>3, <1>4, <1>7, <1>8
  <2> QED BY <1>3, <1>4, <1>6, <1>8, <2>1, TakesType
<1>10. EntriesOK'
  <2>1. /\ \A u \in Ids : \A e, d \in Conns :
              <<u, e>> \in user_conn_map /\ <<u, d>> \in user_conn_map => e = d
        /\ \A u \in Ids : \A e \in Conns : <<u, e>> \in user_conn_map => u \in online
    BY DEF SessionInv, EntriesOK
  <2>2. ASSUME NEW u, NEW e, <<u, e>> \in user_conn_map'
        PROVE  \/ <<u, e>> \in user_conn_map /\ u \in Ids /\ e \in Conns
               \/ Admitted(c, r) /\ u = r.id /\ e = c
    BY <1>4, <1>7, <1>8, <2>2
  <2>3. ASSUME NEW u \in Ids', NEW e \in Conns, NEW d \in Conns,
               <<u, e>> \in user_conn_map', <<u, d>> \in user_conn_map'
        PROVE  e = d
    BY <1>7, <2>1, <2>2, <2>3
  <2>4. ASSUME NEW u \in Ids', NEW e \in Conns, <<u, e>> \in user_conn_map' PROVE u \in online'
    BY <1>4, <2>1, <2>2, <2>4
  <2> QED BY <2>3, <2>4 DEF EntriesOK
<1>11. \A d \in Conns : /\ \A u : HasEntry(d, u) => HasEntry(d, u)'
                        /\ \A u \in Ids' : <<u, d>> \in user_conn_map' =>
                             \/ u \in Ids /\ <<u, d>> \in user_conn_map
                             \/ d = c /\ a \in Admissions({"logack"}) /\ a.id = u
  BY <1>4, <1>5, <1>7, <1>8 DEF HasEntry
<1>12. ASSUME NEW d \in Clients, d # c PROVE ClientInv(d)'
  <2>1. d \in Conns
    BY DEF Conns
  <2>2. EntriesKept(d)
    BY <1>3, <1>11, <1>12, <2>1 DEF EntriesKept
  <2> QED BY <1>6, <1>12, <2>1, <2>2, TakesSame, ConsumedInv DEF SessionInv
<1>13. ClientInv(c)'
  <2>1. ClientInv(c) /\ ThreadsSame(c) /\ c2s'[c] = <<>> /\ dropped'[c] = dropped[c]
    BY <1>2, TakesSame DEF SessionInv, Takes
  <2>2. CASE Ended(c)
    BY <1>2, <1>6, <2>1, <2>2, EndedInv DEF Ended
  <2>3. CASE ~Ended(c)
    <3>1. Waiting(c) /\ r = asked[c]
      BY <1>2, <2>3 DEF Ended
    <3>2. AnswerTrue(c, a)'
      <4>1. asked'[c] = asked[c]
        BY <2>1 DEF ThreadsSame
      <4>2. a \in Admissions({"logack"}) => a.id \in Ids' /\ <<a.id, c>> \in user_conn_map'
        BY <1>4, <1>5, <1>7
      <4> QED BY <1>5, <3>1, <4>1, <4>2 DEF AnswerTrue, HasEntry
    <3>3. \/ a \in LogAcks /\ main[c] = "waitlogin"
          \/ a \in RegAcks /\ main[c] = "waitreg"
      BY <1>2, <1>5, <2>3
    <3>4. s2c'[c] = Append(s2c[c], a)
      BY <1>6, <2>3
    <3>5. /\ \A u : HasEntry(c, u) => HasEntry(c, u)'
          /\ \A u \in Ids' : <<u, c>> \in user_conn_map' =>
               \/ u \in Ids /\ <<u, c>> \in user_conn_map
               \/ a \in Admissions({"logack"}) /\ a.id = u
      BY <1>11
    <3> QED BY <1>2, <1>3, <2>1, <3>1, <3>2, <3>3, <3>4, <3>5, AnsweredInv
  <2> QED BY <2>2, <2>3
<1> QED BY <1>9, <1>10, <1>12, <1>13, TakesSame DEF SessionInv

(* A logout removes the client's own entry and nobody else's. *)
LEMMA LoggedOutStep ==
  ASSUME TypeInv, SessionInv, NEW c \in Conns, NEW r \in Requests, r = c2s[c][1], Takes(c),
         1 \in 1..Len(c2s[c]), up, LoggedOut(c, r)
  PROVE  TypeInv' /\ SessionInv'
<1>1. r \in Logouts /\ r \notin Logins /\ r \notin Registers
      /\ r \notin CreateGroups /\ r \notin Others /\ r \notin Chats
  BY RequestKinds DEF LoggedOut
<1>2. c \in Clients
  BY <1>1 DEF SessionInv, TypedOK, Conns
<1>3. ClientInv(c) /\ ThreadsSame(c)
  BY <1>2, TakesSame DEF SessionInv
<1>4. <<r.id, c>> \in user_conn_map /\ r.id \in Ids
  BY <1>1, <1>3 DEF ClientInv, LoggedIn, HasEntry, TypeInv
<1>5. /\ user_conn_map' = {e \in user_conn_map : e[1] # r.id}
      /\ online' = online \ {r.id} /\ UNCHANGED <<user, chat_group, db_faults, s2c, up>>
      /\ Ids' = Ids
  BY DEF LoggedOut, Stays, Ids
<1>6. TypeInv'
  <2>1. /\ user' \in Seq(Names) /\ Ids \subseteq Ids' /\ online' \subseteq Ids'
        /\ chat_group' \in Seq(Groups) /\ db_faults' \in Nat /\ up' \in BOOLEAN
        /\ user_conn_map' \subseteq Ids' \X Conns /\ s2c' \in [Conns -> Seq(Answers)]
    BY <1>5 DEF TypeInv
  <2> QED BY <2>1, TakesType
<1>7. \A u, d : <<u, d>> \in user_conn_map' <=> <<u, d>> \in user_conn_map /\ u # r.id
  BY <1>5
<1>8. EntriesOK'
  BY <1>5, <1>7 DEF SessionInv, EntriesOK
<1>9. ASSUME NEW d \in Clients, d # c PROVE ClientInv(d)'
  <2>1. ASSUME NEW u, HasEntry(d, u) PROVE HasEntry(d, u)'
    <3>1. <<u, d>> \in user_conn_map
      BY <2>1 DEF HasEntry
    <3>2. u # r.id
      BY <1>4, <1>9, <3>1 DEF SessionInv, EntriesOK, Conns
    <3> QED BY <1>7, <3>1, <3>2 DEF HasEntry
  <2>2. EntriesKept(d)
    BY <1>5, <1>7, <2>1 DEF EntriesKept
  <2>3. s2c'[d] = s2c[d]
    BY <1>5
  <2> QED BY <1>9, <2>2, <2>3, TakesSame, ConsumedInv DEF SessionInv
<1>10. ClientInv(c)'
  <2>q. Len(c2s[c]) \in Nat /\ c2s[c] # <<>>
    <3>1. CASE c2s[c] = <<>>
      <4>1. Len(c2s[c]) = 0
        BY <3>1
      <4> QED BY <4>1
    <3> QED BY <3>1, InQueues
  <2>s. PICK k \in Nat : /\ Len(c2s'[c]) = Len(c2s[c]) - k
                         /\ \A i \in 1..Len(c2s'[c]) : /\ i + k \in 2..Len(c2s[c])
                                                       /\ c2s'[c][i] = c2s[c][i + k]
    BY DEF Takes
  <2>t. \A i \in 1..Len(c2s'[c]) : /\ i + k \in 1..Len(c2s[c]) /\ i + k # 1
                                   /\ c2s'[c][i] = c2s[c][i + k]
    <3> TAKE i \in 1..Len(c2s'[c])
    <3>1. i + k \in 2..Len(c2s[c]) /\ c2s'[c][i] = c2s[c][i + k]
      BY <2>s
    <3>2. PICK n \in Nat : n = Len(c2s[c])
      BY <2>q
    <3>3. i + k \in 2..n => i + k \in 1..n /\ i + k # 1
      BY ONLY n \in Nat
    <3> QED BY <3>1, <3>2, <3>3
  <2>1. /\ main[c] # "MainMenu"
        /\ \A i \in 1..Len(c2s'[c]) : c2s'[c][i] \notin Logouts
    BY <1>1, <1>3, <2>t DEF ClientInv, RequestsOK
  <2>2. main[c] # "ended" => ~Answered(c)
    BY <1>3, <2>q DEF ClientInv, AnswersOK
  <2>k. /\ NoAnswer \notin LogAcks \cup RegAcks \cup Posts
        /\ Admissions({"logack"}) \subseteq LogAcks /\ Insertions({"regack"}) \subseteq RegAcks
        /\ Admissions({"logack", "post"}) \subseteq LogAcks \cup Posts
    BY AckKinds DEF NoAnswer, LogAcks, RegAcks, Posts, Admissions
  <2>3. ~AckSent(c) /\ reader[c] = NoAnswer /\ (main[c] # "ended" => sem[c] = 0)
    <3>1. CASE main[c] = "ended"
      <4>1. s2c[c] = <<>> /\ reader[c] = NoAnswer
        BY <1>3, <3>1 DEF ClientInv, AnswersOK
      <4>2. Len(s2c[c]) = 0
        BY <4>1
      <4> QED BY <3>1, <4>1, <4>2 DEF AckSent
    <3> QED BY <2>2, <3>1 DEF Answered
  <2>4. \A i \in 1..Len(s2c[c]) : s2c[c][i] \notin LogAcks /\ s2c[c][i] \notin RegAcks
    <3>1. \A i \in 1..Len(s2c[c]) : s2c[c][i] \in Answers
      BY InQueues
    <3> QED BY <2>3, <3>1, AnswerKinds DEF AckSent, IsAck
  <2>5. \A i \in 1..Len(c2s'[c]) : c2s'[c][i] \in Logins \cup Registers =>
          i = Len(c2s'[c]) /\ (main[c] = "ended" \/ (Waiting(c) /\ c2s'[c][i] = asked[c]))
    <3>1. SUFFICES ASSUME NEW i \in 1..Len(c2s'[c]), c2s'[c][i] \in Logins \cup Registers
                   PROVE  i = Len(c2s'[c]) /\ (main[c] = "ended" \/ (Waiting(c) /\ c2s'[c][i] = asked[c]))
      OBVIOUS
    <3>2. i + k = Len(c2s[c]) /\ (main[c] = "ended" \/ (Waiting(c) /\ c2s'[c][i] = asked[c]))
      BY <1>3, <2>t, <3>1 DEF ClientInv, RequestsOK
    <3> QED BY <2>q, <2>s, <3>2
  <2>6. RequestsOK(c)'
    BY <1>3, <2>1, <2>5 DEF ClientInv, RequestsOK, ThreadsSame, Waiting
  <2>7. AnswersOK(c)'
    <3>1. ~AckSent(c)' /\ reader'[c] = NoAnswer /\ (main'[c] # "ended" => sem'[c] = 0)
      BY <1>3, <1>5, <2>3 DEF AckSent, ThreadsSame
    <3> QED BY <1>3, <1>5, <2>k, <2>4, <3>1 DEF ClientInv, AnswersOK, Answered, ThreadsSame
  <2>8. AnswersTrue(c)'
    BY <1>3, <1>5, <2>k, <2>3, <2>4 DEF AnswersTrue, AnswerTrue, ThreadsSame
  <2>9. LoggedIn(c)'
    <3>1. ~(main[c] \in {"login", "waitlogin"} /\ is_login_success[c])
      BY <1>3, <2>k, <2>3 DEF ClientInv, LoggedIn
    <3> QED BY <1>3, <2>1, <3>1 DEF LoggedIn, ThreadsSame
  <2>10. Learnt(c)'
    <3>1. Admissions({"post"}) \subseteq Posts
      BY DEF Posts
    <3> QED BY <1>3, <2>k, <2>3, <3>1 DEF Learnt, ThreadsSame
  <2>11. KnownEntries(c)'
    <3>1. SUFFICES ASSUME main[c] # "ended", ~dropped'[c], NEW u \in Ids,
                          <<u, c>> \in user_conn_map, u # r.id
                   PROVE  FALSE
      BY <1>3, <1>5, <1>7 DEF KnownEntries, ThreadsSame
    <3>2. ~dropped[c]
      BY <3>1 DEF Takes
    <3>3. Knows(c, u)
      BY <1>3, <3>1, <3>2 DEF ClientInv, KnownEntries
    <3>4. PICK j \in 1..Len(c2s[c]) : c2s[c][j] \in Logouts /\ c2s[c][j].id = u
      BY <2>k, <2>1, <2>3, <2>4, <3>1, <3>3 DEF Knows
    <3>5. j = 1
      BY <1>1, <1>3, <3>4 DEF ClientInv, RequestsOK
    <3> QED BY <3>1, <3>4, <3>5
  <2> QED BY <2>6, <2>7, <2>8, <2>9, <2>10, <2>11 DEF ClientInv
<1> QED BY <1>6, <1>8, <1>9, <1>10, TakesSame DEF SessionInv

LEMMA OnMessageStep ==
  ASSUME TypeInv, SessionInv, NEW c \in Conns, NEW k \in 1..Len(c2s[c]), OnMessage(c, k)
  PROVE  TypeInv' /\ SessionInv'
<1>1. Takes(c) /\ c2s[c][1] \in Requests /\ 1 \in 1..Len(c2s[c])
  BY ReadOf
<1>2. PICK r \in Requests : r = c2s[c][1]
  BY <1>1
<1>3. Dispatch(c, r) /\ up
  BY <1>2 DEF OnMessage, Polling
<1>4. \/ r \notin Logouts /\ Abort
      \/ Admitted(c, r) \/ Refused(c, r) \/ Inserted(c, r) \/ LoggedOut(c, r)
      \/ Forwarded(c, r) \/ Quiet(c, r)
  BY <1>3, DispatchCases DEF SessionInv
<1>5. CASE (r \notin Logouts /\ Abort) \/ Forwarded(c, r) \/ Quiet(c, r)
  BY <1>1, <1>2, <1>5, PassedOn
<1>6. CASE Admitted(c, r) \/ Refused(c, r) \/ Inserted(c, r)
  BY <1>1, <1>2, <1>6, AnsweredStep
<1>7. CASE LoggedOut(c, r)
  BY <1>1, <1>2, <1>3, <1>7, LoggedOutStep
<1> QED BY <1>4, <1>5, <1>6, <1>7

(* The server ends, or only the directory and the handler change. *)
LEMMA ClientsSame ==
  ASSUME TypeInv, SessionInv, UNCHANGED <<user, online, c2s, s2c, cut, dropped, menuVars,
                                          sharedVars, reader>>,
         chat_group' \in Seq(Groups), db_faults' \in Nat, open' \subseteq Conns,
         (up' = FALSE /\ user_conn_map' = {}) \/ UNCHANGED <<up, user_conn_map>>
  PROVE  TypeInv' /\ SessionInv'
<1>1. Ids' = Ids
  BY DEF Ids
<1>2. TypeInv'
  BY <1>1 DEF TypeInv, menuVars, sharedVars
<1>3. EntriesOK' /\ TypedOK'
  BY <1>1 DEF SessionInv, EntriesOK, TypedOK
<1>4. ASSUME NEW d \in Clients PROVE ClientInv(d)'
  <2>1. Same(d)
    BY DEF Same, ThreadsSame, menuVars, sharedVars
  <2>2. EntriesKept(d)
    BY <1>1 DEF EntriesKept, HasEntry
  <2> QED BY <2>1, <2>2, Unaffected DEF SessionInv
<1> QED BY <1>2, <1>3, <1>4 DEF SessionInv

LEMMA CloseStep ==
  ASSUME TypeInv, SessionInv, NEW c \in Conns, ClientCloseException(c)
  PROVE  TypeInv' /\ SessionInv'
<1>o. open' \subseteq Conns
  BY DEF ClientCloseException, TypeInv
<1>0. CASE UNCHANGED <<user_conn_map, directoryVars>>
  <2>1. /\ UNCHANGED <<user, online, c2s, s2c, cut, dropped, menuVars, sharedVars, reader>>
        /\ chat_group' \in Seq(Groups) /\ db_faults' \in Nat
        /\ UNCHANGED <<up, user_conn_map>>
    BY <1>0 DEF ClientCloseException, directoryVars, TypeInv
  <2> QED BY <1>o, <2>1, ClientsSame
<1> SUFFICES ASSUME NEW u \in Ids, <<u, c>> \in user_conn_map,
                    user_conn_map' = user_conn_map \ {<<u, c>>}, UpdateState(u, "offline")
             PROVE  TypeInv' /\ SessionInv'
  BY <1>0 DEF ClientCloseException
<1>1. user_conn_map' = user_conn_map \ {<<u, c>>} /\ UpdateState(u, "offline")
  OBVIOUS
<1>2. /\ UNCHANGED <<up, handler, cut, dropped, c2s, s2c, menuVars, sharedVars, reader>>
      /\ c \in Clients /\ main[c] = "ended" /\ c2s[c] = <<>>
  BY DEF ClientCloseException, Ended
<1>3. online' = online \ {u} /\ UNCHANGED <<user, chat_group, db_faults>> /\ Ids' = Ids
  BY <1>1 DEF UpdateState, Ids
<1>4. TypeInv'
  BY <1>1, <1>2, <1>3, <1>o DEF TypeInv, menuVars, sharedVars
<1>5. \A v, d : <<v, d>> \in user_conn_map' <=>
                  <<v, d>> \in user_conn_map /\ ~(v = u /\ d = c)
  BY <1>1
<1>6. EntriesOK'
  BY <1>1, <1>3, <1>5 DEF SessionInv, EntriesOK
<1>7. TypedOK'
  BY <1>2 DEF SessionInv, TypedOK
<1>8. ASSUME NEW d \in Clients PROVE ClientInv(d)'
  <2>1. Same(d)
    BY <1>2 DEF Same, ThreadsSame, menuVars, sharedVars
  <2>2. CASE d # c
    <3>1. EntriesKept(d)
      BY <1>2, <1>3, <1>5, <2>2 DEF EntriesKept, HasEntry
    <3> QED BY <2>1, <3>1, Unaffected DEF SessionInv
  <2>3. CASE d = c
    BY <1>2, <2>1, <2>3, EndedInv DEF SessionInv, Same
  <2> QED BY <2>2, <2>3
<1> QED BY <1>4, <1>6, <1>7, <1>8 DEF SessionInv

LEMMA SessionInit == Init => SessionInv
<1> SUFFICES ASSUME Init PROVE SessionInv
  OBVIOUS
<1>1. \A c \in Conns : c2s[c] = <<>> /\ s2c[c] = <<>>
  BY DEF Init
<1>2. \A c \in Conns : Len(c2s[c]) = 0 /\ Len(s2c[c]) = 0
  BY <1>1
<1>3. TypedOK /\ EntriesOK
  BY <1>2 DEF TypedOK, EntriesOK, Init, Conns
<1>4. ASSUME NEW c \in Clients PROVE ClientInv(c)
  <2>1. /\ Len(c2s[c]) = 0 /\ Len(s2c[c]) = 0 /\ main[c] = "menu" /\ reader[c] = NoAnswer
        /\ sem[c] = 0
    BY <1>2 DEF Init, Conns
  <2>2. NoAnswer \notin LogAcks \cup RegAcks
        /\ Admissions({"logack"}) \subseteq LogAcks /\ Insertions({"regack"}) \subseteq RegAcks
    BY AckKinds DEF NoAnswer, LogAcks, RegAcks
  <2>3. RequestsOK(c) /\ AnswersOK(c)
    BY <2>1, <2>2 DEF RequestsOK, AnswersOK, Answered, AckSent
  <2>4. AnswersTrue(c)
    BY <2>1, <2>2 DEF AnswersTrue, AnswerTrue
  <2>5. LoggedIn(c) /\ Learnt(c)
    BY <2>1 DEF LoggedIn, Learnt
  <2>6. KnownEntries(c)
    BY DEF KnownEntries, Init
  <2> QED BY <2>3, <2>4, <2>5, <2>6 DEF ClientInv
<1> QED BY <1>3, <1>4 DEF SessionInv

LEMMA InvStep ==
  ASSUME TypeInv, SessionInv, [Next]_vars
  PROVE  TypeInv' /\ SessionInv'
<1>1. ASSUME NEW c \in Clients, MenuStep(c) PROVE TypeInv' /\ SessionInv'
  BY <1>1, LoginStep, RequestSteps, SemWaitStep, EndStep DEF MenuStep, Quit
<1>2. ASSUME NEW c \in Clients, ReaderStep(c) PROVE TypeInv' /\ SessionInv'
  BY <1>2, RecvStep, EndStep, HandleStep, SemPostStep DEF ReaderStep, RecvEnd
<1>3. ASSUME NEW c \in Typed, NEW r \in TypedRequests, Type(c, r) PROVE TypeInv' /\ SessionInv'
  BY <1>3, TypeStep
<1>4. ASSUME NEW c \in Conns, Serve(c) PROVE TypeInv' /\ SessionInv'
  <2>1. CASE OnMessageCut(c)
    <3>1. /\ UNCHANGED <<user, online, c2s, s2c, cut, dropped, menuVars, sharedVars, reader>>
          /\ chat_group' \in Seq(Groups) /\ db_faults' \in Nat /\ open' \subseteq Conns
          /\ up' = FALSE /\ user_conn_map' = {}
      BY <2>1 DEF OnMessageCut, Abort, directoryVars, TypeInv
    <3> QED BY <3>1, ClientsSame
  <2> QED BY <1>4, <2>1, OnMessageStep, CloseStep DEF Serve
<1>5. CASE CreatorJoins
  <2>1. /\ UNCHANGED <<user, online, c2s, s2c, cut, dropped, menuVars, sharedVars, reader>>
        /\ chat_group' \in Seq(Groups) /\ db_faults' \in Nat /\ open' \subseteq Conns
        /\ UNCHANGED <<up, user_conn_map>>
    BY <1>5 DEF CreatorJoins, JoinGroup, DirectoryFault, TypeInv
  <2> QED BY <2>1, ClientsSame
<1>6. CASE UNCHANGED vars
  <2>1. /\ UNCHANGED <<user, online, c2s, s2c, cut, dropped, menuVars, sharedVars, reader>>
        /\ chat_group' \in Seq(Groups) /\ db_faults' \in Nat /\ open' \subseteq Conns
        /\ UNCHANGED <<up, user_conn_map>>
    BY <1>6 DEF vars, directoryVars, serverVars, TypeInv
  <2> QED BY <2>1, ClientsSame
<1> QED BY <1>1, <1>2, <1>3, <1>4, <1>5, <1>6 DEF Next

LEMMA Invariant == Spec => [](TypeInv /\ SessionInv)
<1>1. Init => TypeInv /\ SessionInv
  BY TypeInit, SessionInit
<1>2. TypeInv /\ SessionInv /\ [Next]_vars => (TypeInv /\ SessionInv)'
  BY InvStep
<1> QED BY <1>1, <1>2, PTL DEF Spec

-----------------------------------------------------------------------------
(* The theorems *)

(* Everything the program keeps, sends and reads has its type: no handler and *)
(* no thread of the client meets a message of a kind it does not know.        *)
THEOREM TypeCorrect == Spec => []TypeOK
<1>1. TypeInv => TypeOK
  <2> SUFFICES ASSUME TypeInv PROVE TypeOK
    OBVIOUS
  <2>1. ASSUME NEW c \in Conns
        PROVE  /\ \A i \in DOMAIN c2s[c] : c2s[c][i].msgid \in DOMAIN Reads \cup {"regack"}
               /\ \A i \in DOMAIN s2c[c] : s2c[c][i].msgid \in {"logack", "regack", "chat"}
    <3>1. PICK q \in Seq(Requests) : q = c2s[c]
      BY DEF TypeInv
    <3>2. PICK s \in Seq(Answers) : s = s2c[c]
      BY DEF TypeInv
    <3>3. /\ DOMAIN q = 1..Len(q) /\ \A i \in 1..Len(q) : q[i] \in Requests
          /\ DOMAIN s = 1..Len(s) /\ \A i \in 1..Len(s) : s[i] \in Answers
      BY LenProperties, ElementOfSeq
    <3> QED BY <3>1, <3>2, <3>3, RequestKinds, AnswerKinds
  <2> QED BY <2>1 DEF TypeInv, TypeOK
<1> QED BY <1>1, Invariant, PTL

(* SessionAgreement for any number of clients, whatever the order of flag,    *)
(* send, answer, flag and semaphore in main() and ReadTaskHandler, with reads *)
(* that cut or join requests: who is in MainMenu has an entry under its id,   *)
(* and an entry belongs to a client that knows, will know or has logged out.  *)
THEOREM SessionsAgree == Spec => []SessionAgreement
<1>1. TypeInv /\ SessionInv => SessionAgreement
  <2> SUFFICES ASSUME TypeInv, SessionInv, NEW c \in Clients
               PROVE  /\ up /\ main[c] = "MainMenu" => <<current_user[c], c>> \in user_conn_map
                      /\ main[c] # "ended" /\ ~dropped[c] =>
                           \A u \in Ids : <<u, c>> \in user_conn_map =>
                              \/ main[c] = "MainMenu" /\ current_user[c] = u
                              \/ LearnsOf(c, u)
                              \/ [msgid |-> "logout", id |-> u] \in Range(c2s[c])
    BY DEF SessionAgreement
  <2>1. up /\ main[c] = "MainMenu" => <<current_user[c], c>> \in user_conn_map
    BY DEF SessionInv, ClientInv, LoggedIn, HasEntry
  <2>2. ASSUME NEW u \in Ids, Knows(c, u)
        PROVE  \/ main[c] = "MainMenu" /\ current_user[c] = u
               \/ LearnsOf(c, u)
               \/ [msgid |-> "logout", id |-> u] \in Range(c2s[c])
    <3>q. PICK q \in Seq(Requests) : q = c2s[c]
      BY DEF TypeInv, Conns
    <3>s. PICK s \in Seq(Answers) : s = s2c[c]
      BY DEF TypeInv, Conns
    <3>d. DOMAIN q = 1..Len(q) /\ DOMAIN s = 1..Len(s)
      BY LenProperties
    <3>a. ASSUME NEW a \in Admissions({"logack", "post"}), a.id = u PROVE Acked(a, u)
      BY <3>a DEF Acked, Admissions
    <3>1. CASE main[c] = "waitlogin"
               /\ \E i \in 1..Len(s) : s[i] \in Admissions({"logack"}) /\ s[i].id = u
      <4>1. PICK i \in 1..Len(s) : s[i] \in Admissions({"logack"}) /\ s[i].id = u
        BY <3>1
      <4>2. s[i] \in Admissions({"logack", "post"})
        BY <4>1 DEF Admissions
      <4> QED BY <3>1, <3>s, <3>d, <3>a, <4>1, <4>2 DEF LearnsOf
    <3>2. CASE main[c] = "waitlogin" /\ reader[c] \in Admissions({"logack", "post"})
               /\ reader[c].id = u
      BY <3>2, <3>a DEF LearnsOf
    <3>3. CASE main[c] = "waitlogin" /\ sem[c] # 0 /\ is_login_success[c] /\ current_user[c] = u
      <4>1. sem[c] > 0
        BY <3>3 DEF TypeInv
      <4> QED BY <3>3, <4>1 DEF LearnsOf
    <3>4. CASE \E i \in 1..Len(q) : q[i] \in Logouts /\ q[i].id = u
      <4>1. PICK i \in 1..Len(q) : q[i] \in Logouts /\ q[i].id = u
        BY <3>4
      <4>2. PICK r \in Logouts : r = q[i] /\ r.id = u
        BY <4>1
      <4>3. r = [msgid |-> "logout", id |-> u]
        BY <4>2 DEF Logouts
      <4> QED BY <3>q, <3>d, <4>1, <4>2, <4>3 DEF Range
    <3> QED BY <2>2, <3>q, <3>s, <3>1, <3>2, <3>3, <3>4 DEF Knows
  <2> QED BY <2>1, <2>2 DEF SessionInv, ClientInv, KnownEntries
<1> QED BY <1>1, Invariant, PTL

(* RegisteredAsAsked: the id that HandlerRegister answers with stays the id   *)
(* of the row of the name the client asked for until the client has read it.  *)
THEOREM RegistrationsAnswered == Spec => []RegisteredAsAsked
<1>1. TypeInv /\ SessionInv => RegisteredAsAsked
  <2> SUFFICES ASSUME TypeInv, SessionInv, NEW c \in Clients,
                      NEW a \in Range(s2c[c]) \cup {reader[c]}, a.msgid = "regack", a.errno = 0
               PROVE  user[a.id] = asked[c].name
    BY DEF RegisteredAsAsked
  <2>1. PICK s \in Seq(Answers) : s = s2c[c]
    BY DEF TypeInv, Conns
  <2>2. DOMAIN s = 1..Len(s) /\ \A i \in 1..Len(s) : s[i] \in Answers
    BY LenProperties, ElementOfSeq
  <2>3. CASE a \in Range(s)
    <3>1. PICK i \in 1..Len(s) : a = s[i]
      BY <2>2, <2>3 DEF Range
    <3>2. a \in Insertions({"regack"})
      BY <2>2, <3>1, AnswerKinds
    <3> QED BY <2>1, <3>1, <3>2 DEF SessionInv, ClientInv, AnswersTrue, AnswerTrue
  <2>4. CASE a = reader[c]
    <3>1. reader[c] \in {NoAnswer} \cup LogAcks \cup RegAcks \cup Posts
      BY DEF TypeInv
    <3>2. a \in Insertions({"regack"})
      BY <2>4, <3>1, AckKinds
    <3> QED BY <2>4, <3>2 DEF SessionInv, ClientInv, AnswersTrue, AnswerTrue
  <2> QED BY <2>1, <2>3, <2>4
<1> QED BY <1>1, Invariant, PTL

-----------------------------------------------------------------------------
(* Groups *)

(* The step creates no group and adds no creator, or a statement of it fails. *)
GroupsSame ==
    /\ handler' = handler /\ chat_group' = chat_group
    /\ db_faults' # 0 \/ (db_faults' = db_faults /\ \A g \in Nat : Creators(g)' = Creators(g))

LEMMA GroupsKept ==
  ASSUME GroupInv, GroupsSame
  PROVE  GroupInv'
<1>1. CASE db_faults' # 0
  BY <1>1 DEF GroupInv, GroupsSame
<1>2. CASE db_faults' = db_faults /\ \A g \in Nat : Creators(g)' = Creators(g)
  <2>1. ASSUME db_faults = 0, NEW g \in Nat
        PROVE  IF g \in 1..Len(chat_group) /\ (handler = Idle \/ g # Len(chat_group))
               THEN \E m \in group_member' : Creators(g)' = {m}
               ELSE Creators(g)' = {}
    <3>1. IF g \in 1..Len(chat_group) /\ (handler = Idle \/ g # Len(chat_group))
          THEN \E m \in group_member : Creators(g) = {m}
          ELSE Creators(g) = {}
      BY <2>1 DEF GroupInv
    <3>2. ASSUME NEW m, Creators(g)' = {m} PROVE m \in group_member'
      BY <3>2 DEF Creators
    <3> QED BY <1>2, <3>1, <3>2
  <2> QED BY <1>2, <2>1 DEF GroupInv, GroupsSame
<1> QED BY <1>1, <1>2 DEF GroupsSame

LEMMA DirectorySame ==
  ASSUME handler' = handler, UNCHANGED <<chat_group, group_member, db_faults>>
  PROVE  GroupsSame
  BY DEF GroupsSame, Creators

LEMMA JoinOf ==
  ASSUME TypeInv, NEW u, NEW g, NEW role, JoinGroup(u, g, role)
  PROVE  /\ UNCHANGED chat_group
         /\ \/ db_faults' # 0
            \/ /\ db_faults' = db_faults
               /\ \E m \in group_member' : m.groupid = g /\ m.grouprole = role
                                           /\ group_member' = group_member \cup {m}
<1>1. CASE DirectoryFault
  BY <1>1 DEF DirectoryFault, TypeInv
<1>2. CASE /\ group_member' = group_member
                            \cup {[userid |-> u, groupid |-> g, grouprole |-> role]}
           /\ UNCHANGED <<user, online, friend, chat_group, db_faults>>
  <2>1. PICK m : m = [userid |-> u, groupid |-> g, grouprole |-> role]
    OBVIOUS
  <2>2. m.groupid = g /\ m.grouprole = role
    BY <2>1
  <2> QED BY <1>2, <2>1, <2>2
<1> QED BY <1>1, <1>2 DEF JoinGroup

(* A group is created: it has no creator yet, and the handler goes on. *)
LEMMA CreateStep ==
  ASSUME TypeInv, GroupInv, NEW c, NEW r, handler = Idle, HandlerCreateGroup(c, r)
  PROVE  GroupInv'
<1>1. PICK id \in {NoId, Len(chat_group) + 1} :
         /\ CreateGroup(r.groupname, id)
         /\ handler' = IF id = NoId THEN Idle ELSE [todo |-> "join", user |-> r.id, group |-> id]
  BY DEF HandlerCreateGroup
<1>2. CASE id = NoId /\ DirectoryFault
  <2>1. handler' = handler /\ chat_group' = chat_group /\ db_faults' # 0
    BY <1>1, <1>2 DEF DirectoryFault, TypeInv
  <2> QED BY <2>1, GroupsKept DEF GroupsSame
<1>3. CASE /\ chat_group' = Append(chat_group, r.groupname) /\ id = Len(chat_group) + 1
           /\ UNCHANGED <<user, online, friend, group_member, db_faults>>
  <2>1. Len(chat_group) \in Nat
    BY LenProperties DEF TypeInv
  <2>2. Len(chat_group') = Len(chat_group) + 1
    BY <1>3, AppendProperties DEF TypeInv
  <2>3. id # NoId
    BY <1>3, <2>1, DirectoryAssumption
  <2>4. handler' # Idle /\ handler'.todo = "join" /\ handler'.group = Len(chat_group')
    BY <1>1, <1>3, <2>2, <2>3 DEF Idle
  <2>5. ASSUME db_faults = 0, NEW g \in Nat
        PROVE  IF g \in 1..Len(chat_group') /\ (handler' = Idle \/ g # Len(chat_group'))
               THEN \E m \in group_member' : Creators(g)' = {m}
               ELSE Creators(g)' = {}
    <3>1. IF g \in 1..Len(chat_group)
          THEN \E m \in group_member : Creators(g) = {m}
          ELSE Creators(g) = {}
      BY <2>5 DEF GroupInv
    <3>2. g \in 1..Len(chat_group) <=> g \in 1..Len(chat_group') /\ g # Len(chat_group')
      BY <2>1, <2>2
    <3>3. Creators(g)' = Creators(g) /\ group_member' = group_member
      BY <1>3 DEF Creators
    <3> QED BY <2>4, <3>1, <3>2, <3>3
  <2>6. Len(chat_group') # 0 /\ db_faults' = db_faults
    BY <1>3, <2>1, <2>2
  <2> QED BY <2>4, <2>5, <2>6 DEF GroupInv
<1> QED BY <1>1, <1>2, <1>3 DEF CreateGroup

(* The creator joins the group that was created last. *)
LEMMA CreatorStep ==
  ASSUME TypeInv, GroupInv, CreatorJoins
  PROVE  GroupInv'
<1>1. handler # Idle /\ handler' = Idle
  BY DEF CreatorJoins, Idle
<1>2. Len(chat_group) \in Nat
  BY LenProperties DEF TypeInv
<1>3. PICK n \in Nat : n = Len(chat_group) /\ n # 0 /\ handler.group = n
  BY <1>1, <1>2 DEF GroupInv
<1>4. JoinGroup(handler.user, n, "creator")
  BY <1>3 DEF CreatorJoins
<1>5. /\ chat_group' = chat_group
      /\ \/ db_faults' # 0
         \/ /\ db_faults' = db_faults
            /\ \E m \in group_member' : m.groupid = n /\ m.grouprole = "creator"
                                        /\ group_member' = group_member \cup {m}
  BY <1>4, JoinOf
<1>6. CASE db_faults' # 0
  BY <1>1, <1>6 DEF GroupInv
<1>7. CASE db_faults' = db_faults /\ \E m \in group_member' :
             m.groupid = n /\ m.grouprole = "creator" /\ group_member' = group_member \cup {m}
  <2>1. PICK m \in group_member' :
           m.groupid = n /\ m.grouprole = "creator" /\ group_member' = group_member \cup {m}
    BY <1>7
  <2>2. ASSUME db_faults = 0, NEW g \in Nat
        PROVE  IF g \in 1..n THEN \E e \in group_member' : Creators(g)' = {e}
                             ELSE Creators(g)' = {}
    <3>1. IF g \in 1..n /\ g # n
          THEN \E e \in group_member : Creators(g) = {e}
          ELSE Creators(g) = {}
      BY <1>1, <1>3, <2>2 DEF GroupInv
    <3>2. n \in 1..n
      BY <1>3
    <3>3. CASE g = n
      <4>1. Creators(g)' = Creators(g) \cup {m}
        BY <2>1, <3>3 DEF Creators
      <4>2. Creators(g)' = {m}
        BY <3>1, <3>3, <4>1
      <4> QED BY <2>1, <3>2, <3>3, <4>2
    <3>4. CASE g # n
      <4>1. Creators(g)' = Creators(g)
        BY <2>1, <3>4 DEF Creators
      <4>2. group_member \subseteq group_member'
        BY <2>1
      <4> QED BY <3>1, <3>4, <4>1, <4>2
    <3> QED BY <3>3, <3>4
  <2> QED BY <1>1, <1>3, <1>5, <1>7, <2>2 DEF GroupInv
<1> QED BY <1>5, <1>6, <1>7

LEMMA GroupStep ==
  ASSUME TypeInv, GroupInv, [Next]_vars
  PROVE  GroupInv'
<1>1. CASE CreatorJoins
  BY <1>1, CreatorStep
<1>2. ASSUME handler' = handler, UNCHANGED <<chat_group, group_member, db_faults>>
      PROVE  GroupInv'
  BY <1>2, DirectorySame, GroupsKept
<1>3. ASSUME NEW c \in Conns, NEW k \in 1..Len(c2s[c]), OnMessage(c, k) PROVE GroupInv'
  <2>1. handler = Idle
    BY <1>3 DEF OnMessage, Polling
  <2>2. PICK r : r = c2s[c][1]
    OBVIOUS
  <2>3. Dispatch(c, r)
    BY <1>3, <2>2 DEF OnMessage
  <2>4. CASE HandlerCreateGroup(c, r)
    BY <2>1, <2>4, CreateStep
  <2>5. CASE HandlerJoinGroup(c, r)
    <3>1. handler' = handler /\ JoinGroup(r.id, r.group_id, "normal")
      BY <2>5 DEF HandlerJoinGroup, Stays
    <3>2. /\ chat_group' = chat_group
          /\ \/ db_faults' # 0
             \/ /\ db_faults' = db_faults
                /\ \E m \in group_member' : m.groupid = r.group_id /\ m.grouprole = "normal"
                                            /\ group_member' = group_member \cup {m}
      BY <3>1, JoinOf
    <3>3. ASSUME NEW m, m.grouprole = "normal", group_member' = group_member \cup {m}, NEW g \in Nat
          PROVE  Creators(g)' = Creators(g)
      BY <3>3 DEF Creators
    <3>4. GroupsSame
      BY <3>1, <3>2, <3>3 DEF GroupsSame
    <3> QED BY <3>4, GroupsKept
  <2>6. CASE HandlerRegister(c, r) \/ HandlerAddFriend(c, r)
    <3>1. /\ handler' = handler /\ UNCHANGED <<chat_group, group_member>>
          /\ db_faults' = db_faults \/ db_faults' = db_faults + 1
      BY <2>6 DEF HandlerRegister, HandlerAddFriend, Stays, Insert, AddFriend, DirectoryFault,
                  directoryVars
    <3>2. db_faults' = db_faults + 1 => db_faults' # 0
      BY DEF TypeInv
    <3>3. GroupsSame
      BY <3>1, <3>2 DEF GroupsSame, Creators
    <3> QED BY <3>3, GroupsKept
  <2>7. CASE HandlerLogin(c, r) \/ HandlerLogout(c, r)
    <3>1. handler' = handler /\ UNCHANGED <<chat_group, group_member, db_faults>>
      BY <2>7 DEF HandlerLogin, HandlerLogout, Stays, UpdateState, directoryVars
    <3> QED BY <1>2, <3>1
  <2>8. CASE Abort \/ HandlerDirectChat(c, r) \/ HandlerGroupChat(c, r) \/ NoHandler(c, r)
    <3>1. handler' = handler /\ UNCHANGED <<chat_group, group_member, db_faults>>
      BY <2>1, <2>8 DEF Abort, HandlerDirectChat, HandlerGroupChat, NoHandler, Stays, directoryVars
    <3> QED BY <1>2, <3>1
  <2> QED BY <2>3, <2>4, <2>5, <2>6, <2>7, <2>8 DEF Dispatch
<1>4. ASSUME NEW c \in Conns, OnMessageCut(c) \/ ClientCloseException(c) PROVE GroupInv'
  <2>1. handler' = handler /\ UNCHANGED <<chat_group, group_member, db_faults>>
    BY <1>4 DEF OnMessageCut, ClientCloseException, Polling, Abort, UpdateState, directoryVars
  <2> QED BY <1>2, <2>1
<1>5. ASSUME NEW c \in Clients, MenuStep(c) \/ ReaderStep(c) PROVE GroupInv'
  <2>1. UNCHANGED <<directoryVars, serverVars>>
    BY <1>5 DEF MenuStep, Login, LoginSend, Register, SemWait, Quit, End, MenuCommand, Logout,
                ReaderStep, Recv, RecvEnd, HandleResponse, SemPost
  <2> QED BY <1>2, <2>1 DEF directoryVars, serverVars
<1>6. ASSUME NEW c \in Typed, NEW r \in TypedRequests, Type(c, r) PROVE GroupInv'
  BY <1>2, <1>6 DEF Type, directoryVars, serverVars
<1>7. CASE UNCHANGED vars
  BY <1>2, <1>7 DEF vars, directoryVars, serverVars
<1> QED BY <1>1, <1>3, <1>4, <1>5, <1>6, <1>7 DEF Next, Serve

(* GroupHasCreator: unless a statement failed, every group has exactly one    *)
(* creator once HandlerCreateGroup has run both its statements, whoever joins *)
(* in between or joined a group of that id before it existed.                 *)
THEOREM GroupsHaveCreators == Spec => []GroupHasCreator
<1>1. Init => GroupInv
  <2> SUFFICES ASSUME Init PROVE GroupInv
    OBVIOUS
  <2>1. handler = Idle /\ chat_group = <<>> /\ group_member = {}
    BY DEF Init, DirectoryInit
  <2>2. Len(chat_group) = 0
    BY <2>1
  <2>3. \A g \in Nat : g \notin 1..0 /\ Creators(g) = {}
    BY <2>1 DEF Creators
  <2> QED BY <2>1, <2>2, <2>3 DEF GroupInv
<1>2. TypeInv /\ GroupInv /\ [Next]_vars => GroupInv'
  BY GroupStep
<1>3. TypeInv /\ GroupInv => GroupHasCreator
  <2> SUFFICES ASSUME TypeInv, GroupInv, handler = Idle, db_faults = 0,
                      NEW g \in DOMAIN chat_group
               PROVE  Cardinality(Creators(g)) = 1
    BY DEF GroupHasCreator, Creators
  <2>1. DOMAIN chat_group = 1..Len(chat_group)
    BY LenProperties DEF TypeInv
  <2>2. g \in Nat /\ g \in 1..Len(chat_group)
    BY <2>1
  <2>3. PICK m : Creators(g) = {m}
    BY <2>2 DEF GroupInv
  <2> QED BY <2>3, FS_Singleton
<1> QED BY <1>1, <1>2, <1>3, Invariant, PTL DEF Spec
=============================================================================
