------------------------ MODULE ServerProcessProofs ------------------------
(***************************************************************************)
(* Proofs about ServerProcess, for every set of users, every number of     *)
(* requests and pushed messages, with and without a link that breaks.      *)
(***************************************************************************)
EXTENDS ServerProcess, SequenceTheorems, TLAPS

USE DEF signalVars, redisVars, counters, raceVars

-----------------------------------------------------------------------------
(* Types.  TypeOK needs that a request has its command until it is sent.      *)

TypeInv ==
    /\ TypeOK
    /\ main \in {"request", "append", "write"} => cmd \in Commands

LEMMA TypeInit == Init => TypeInv
<1> SUFFICES ASSUME Init PROVE TypeInv
  OBVIOUS
<1>1. {notify_set, inlib, signal_mutex} \subseteq BOOLEAN
  BY Zenon DEF Init
<1>2. obuf \in Seq(Commands) /\ sock \in Seq(Commands) /\ replies \in Seq({"ack", "message"})
  BY DEF Init
<1> QED BY <1>1, <1>2, ProcessAssumption DEF Init, TypeInv, TypeOK, HandlerPcs

LEMMA UsersOfCommands ==
  ASSUME NEW q \in Seq(Commands)
  PROVE  UsersOf(q) \subseteq Users
<1>1. \A i \in DOMAIN q : q[i] \in Commands
  OBVIOUS
<1> QED BY <1>1 DEF UsersOf, Commands

(* The buffer and the socket after a step that leaves b and writes w. *)
LEMMA OutputTypes ==
  ASSUME TypeInv, NEW b \in Seq(Commands), NEW w \in Seq(Commands), Output(b, w)
  PROVE  /\ obuf' \in Seq(Commands) /\ sock' \in Seq(Commands)
         /\ races' \in 0..MaxRaces /\ harmed' \subseteq Users
         /\ subscribed' \subseteq Users /\ replies' \in Seq({"ack", "message"}) /\ UNCHANGED link
<1>1. sock \in Seq(Commands) /\ subscribed \subseteq Users /\ replies \in Seq({"ack", "message"})
  BY DEF TypeInv, TypeOK
<1>2. sock \o w \in Seq(Commands) /\ b \o w \in Seq(Commands) /\ <<>> \in Seq(Commands)
  BY <1>1, ConcatProperties
<1>3. UsersOf(b \o w) \subseteq Users
  BY <1>2, UsersOfCommands
<1>4. races \in 0..MaxRaces /\ harmed \subseteq Users
  BY DEF TypeInv, TypeOK
<1>5. CASE obuf' = b /\ sock' = sock \o w /\ UNCHANGED raceVars
  BY <1>1, <1>2, <1>4, <1>5 DEF Output
<1>6. CASE /\ RaceGoesWrong
           /\ obuf' = <<>> /\ UNCHANGED sock
           /\ harmed' = harmed \cup UsersOf(b \o w)
  BY <1>1, <1>2, <1>3, <1>4, <1>6, ProcessAssumption DEF Output, RaceGoesWrong
<1>7. CASE RaceGoesWrong /\ obuf' = b \o w /\ sock' = sock \o w /\ UNCHANGED harmed
  BY <1>1, <1>2, <1>4, <1>7, ProcessAssumption DEF Output, RaceGoesWrong
<1> QED BY <1>5, <1>6, <1>7 DEF Output

LEMMA TypeStep == TypeInv /\ [Next]_vars => TypeInv'
<1> SUFFICES ASSUME TypeInv, [Next]_vars PROVE TypeInv'
  OBVIOUS
<1> USE DEF TypeInv, TypeOK, HandlerPcs, Goes
<1>1. CASE RegisterSignal
  BY <1>1 DEF RegisterSignal
<1>2. CASE StartLoop
  BY <1>2 DEF StartLoop
<1>3. CASE Connect
  BY <1>3 DEF Connect
<1>4. CASE InitNotifyHandler
  BY <1>4 DEF InitNotifyHandler
<1>5. CASE UnlockConns
  BY <1>5 DEF UnlockConns
<1>6. CASE AppendCommand
  <2>1. Append(obuf, cmd) \in Seq(Commands) /\ <<>> \in Seq(Commands)
    BY <1>6 DEF AppendCommand
  <2>2. Output(Append(obuf, cmd), <<>>)
    BY <1>6 DEF AppendCommand
  <2>3. /\ obuf' \in Seq(Commands) /\ sock' \in Seq(Commands)
        /\ races' \in 0..MaxRaces /\ harmed' \subseteq Users
        /\ subscribed' \subseteq Users /\ replies' \in Seq({"ack", "message"}) /\ UNCHANGED link
    BY <2>1, <2>2, OutputTypes
  <2> QED BY <1>6, <2>3 DEF AppendCommand
<1>7. CASE BufferWrite
  <2>1. obuf \in Seq(Commands) /\ <<>> \in Seq(Commands)
    OBVIOUS
  <2>2. Output(<<>>, obuf) \/ Output(obuf, <<>>)
    BY <1>7 DEF BufferWrite
  <2>3. /\ obuf' \in Seq(Commands) /\ sock' \in Seq(Commands)
        /\ races' \in 0..MaxRaces /\ harmed' \subseteq Users
        /\ subscribed' \subseteq Users /\ replies' \in Seq({"ack", "message"}) /\ UNCHANGED link
    BY <2>1, <2>2, OutputTypes
  <2> QED BY <1>7, <2>3 DEF BufferWrite
<1>8. CASE HandleSignal
  BY <1>8 DEF HandleSignal
<1>9. CASE GetInstance
  BY <1>9 DEF GetInstance
<1>10. CASE HandlerReset
  BY <1>10 DEF HandlerReset
<1>11. CASE Exit \/ Crash
  BY <1>11, ProcessAssumption DEF Exit, Crash, Ended, RaceGoesWrong
<1>12. CASE ObserverFlush
  <2>1. obuf \in Seq(Commands) /\ <<>> \in Seq(Commands)
    OBVIOUS
  <2>2. CASE observer' = "read" /\ Output(<<>>, obuf)
    <3>1. /\ obuf' \in Seq(Commands) /\ sock' \in Seq(Commands)
          /\ races' \in 0..MaxRaces /\ harmed' \subseteq Users
          /\ subscribed' \subseteq Users /\ replies' \in Seq({"ack", "message"}) /\ UNCHANGED link
      BY <2>1, <2>2, OutputTypes
    <3> QED BY <1>12, <2>2, <3>1 DEF ObserverFlush
  <2>3. CASE observer' = "quit" /\ UNCHANGED <<obuf, redisVars, raceVars>>
    BY <1>12, <2>3 DEF ObserverFlush
  <2> QED BY <1>12, <2>2, <2>3 DEF ObserverFlush
<1>13. CASE ObserverRead
  <2>1. Tail(replies) \in Seq({"ack", "message"})
    BY <1>13 DEF ObserverRead
  <2> QED BY <1>13, <2>1 DEF ObserverRead
<1>14. CASE ObserverQuit
  BY <1>14 DEF ObserverQuit
<1>15. CASE NotifyLocks
  BY <1>15 DEF NotifyLocks
<1>16. CASE NotifyReturns
  BY <1>16 DEF NotifyReturns
<1>17. CASE FirstUse
  BY <1>17 DEF FirstUse
<1>18. ASSUME NEW c \in Commands, BeginRequest(c)
       PROVE  TypeInv'
  <2>1. c.user \in Users
    BY DEF Commands
  <2> QED BY <1>18, <2>1, ProcessAssumption DEF BeginRequest
<1>19. CASE RedisExecute
  <2>1. Head(sock) \in Commands /\ Tail(sock) \in Seq(Commands)
    BY <1>19 DEF RedisExecute
  <2>2. Head(sock).user \in Users
    BY <2>1 DEF Commands
  <2>3. Append(replies, "ack") \in Seq({"ack", "message"})
    OBVIOUS
  <2> QED BY <1>19, <2>1, <2>2, <2>3 DEF RedisExecute
<1>20. CASE RedisPush
  <2>1. Append(replies, "message") \in Seq({"ack", "message"})
    OBVIOUS
  <2> QED BY <1>20, <2>1, ProcessAssumption DEF RedisPush
<1>21. CASE LinkBreaks
  BY <1>21 DEF LinkBreaks
<1>22. CASE SigInt
  <2>1. inlib \in BOOLEAN
    OBVIOUS
  <2>2. inlib' \in BOOLEAN
    BY ONLY <1>22, <2>1, Zenon DEF SigInt
  <2>3. main' \in {"ended", "HandleSignal"}
    BY ONLY <1>22 DEF SigInt
  <2>4. UNCHANGED <<signal_mutex, conn_mtx, instance, notify_set, observer, cmd, obuf, redisVars,
                    counters, wanted, raceVars>>
    BY <1>22 DEF SigInt
  <2> QED BY <2>2, <2>3, <2>4
<1>23. CASE UNCHANGED vars
  BY <1>23 DEF vars
<1> QED
  BY <1>1, <1>2, <1>3, <1>4, <1>5, <1>6, <1>7, <1>8, <1>9, <1>10, <1>11, <1>12, <1>13, <1>14,
     <1>15, <1>16, <1>17, <1>18, <1>19, <1>20, <1>21, <1>22, <1>23
  DEF Next, MainStep, ObserverStep

(* Every variable of the process keeps its type, in whatever order the two    *)
(* threads, Redis and SIGINT run, and whatever a race in the output buffer    *)
(* does to the commands.                                                      *)
THEOREM TypeCorrect == Spec => []TypeOK
<1>1. TypeInv => TypeOK
  BY DEF TypeInv
<1> QED BY <1>1, TypeInit, TypeStep, PTL DEF Spec

-----------------------------------------------------------------------------
(* The observer.  Until the constructor has set the notify handler nothing    *)
(* was asked of Redis, so nothing can have come back.                         *)

NothingBeforeSet ==
    /\ instance = "ready" \/ main \in {"request", "append", "write"} => notify_set
    /\ ~notify_set =>
          /\ obuf = <<>> /\ sock = <<>> /\ subscribed = {} /\ replies = <<>>
          /\ observer # "notify"

LEMMA NothingBeforeSetInit == Init => NothingBeforeSet
  BY DEF Init, NothingBeforeSet

(* A step that writes nothing and leaves nothing in the buffer. *)
LEMMA EmptyOutput ==
  ASSUME sock = <<>>, Output(<<>>, <<>>)
  PROVE  obuf' = <<>> /\ sock' = <<>> /\ UNCHANGED <<subscribed, replies, link>>
  BY DEF Output

LEMMA NothingBeforeSetStep == TypeInv /\ NothingBeforeSet /\ [Next]_vars => NothingBeforeSet'
<1> SUFFICES ASSUME TypeInv, NothingBeforeSet, [Next]_vars PROVE NothingBeforeSet'
  OBVIOUS
<1>t. notify_set \in BOOLEAN
  BY DEF TypeInv, TypeOK
<1> USE DEF NothingBeforeSet, Goes
<1>1. CASE RegisterSignal \/ StartLoop \/ Connect \/ UnlockConns \/ FirstUse
  BY <1>1 DEF RegisterSignal, StartLoop, Connect, UnlockConns, FirstUse
<1>2. CASE InitNotifyHandler
  BY <1>2 DEF InitNotifyHandler
<1>3. CASE AppendCommand
  BY <1>3 DEF AppendCommand
<1>4. CASE BufferWrite
  BY <1>4 DEF BufferWrite
<1>5. CASE HandleSignal \/ HandlerReset \/ SigInt
  BY <1>5 DEF HandleSignal, HandlerReset, SigInt
<1>6. CASE GetInstance
  <2>1. main' \in {"construct_connect", "HandlerReset", "blocked"}
    BY <1>6 DEF GetInstance, TypeInv, TypeOK
  <2> QED BY <1>6, <2>1 DEF GetInstance
<1>7. CASE Exit \/ Crash
  BY <1>7 DEF Exit, Crash, Ended
<1>8. CASE ObserverFlush
  <2>1. CASE observer' = "read" /\ Output(<<>>, obuf)
    BY <1>8, <2>1, EmptyOutput DEF ObserverFlush
  <2>2. CASE observer' = "quit" /\ UNCHANGED <<obuf, redisVars, raceVars>>
    BY <1>8, <2>2 DEF ObserverFlush
  <2> QED BY <1>8, <2>1, <2>2 DEF ObserverFlush
<1>9. CASE ObserverRead \/ ObserverQuit \/ NotifyLocks \/ NotifyReturns
  BY <1>9 DEF ObserverRead, ObserverQuit, NotifyLocks, NotifyReturns
<1>10. ASSUME NEW c \in Commands, BeginRequest(c)
       PROVE  NothingBeforeSet'
  BY <1>10 DEF BeginRequest
<1>11. CASE RedisExecute \/ RedisPush
  BY <1>11 DEF RedisExecute, RedisPush
<1>12. CASE LinkBreaks
  BY <1>12 DEF LinkBreaks
<1>13. CASE UNCHANGED vars
  BY <1>13 DEF vars
<1> QED
  BY <1>1, <1>2, <1>3, <1>4, <1>5, <1>6, <1>7, <1>8, <1>9, <1>10, <1>11, <1>12, <1>13
  DEF Next, MainStep, ObserverStep

(* RedisConn::Connect starts the observer before InitNotifyHandler is called  *)
(* and nothing orders the two threads; still the observer never calls an      *)
(* empty notify handler.                                                      *)
THEOREM NotifyIsSetAlways == Spec => []NotifyIsSet
<1>1. TypeInv /\ NothingBeforeSet => NotifyIsSet
  BY DEF TypeInv, TypeOK, NothingBeforeSet, NotifyIsSet
<1> QED
  BY <1>1, TypeInit, TypeStep, NothingBeforeSetInit, NothingBeforeSetStep, PTL DEF Spec

-----------------------------------------------------------------------------
(* The subscriptions.  Of a queue q of commands, executed on the channels S,  *)
(* the last one about u decides whether u is subscribed in the end.           *)

LastWord(S, q, u) ==
    \/ u \in S /\ \A i \in DOMAIN q : q[i].user # u
    \/ \E i \in DOMAIN q :
          /\ q[i].user = u /\ q[i].op = "SUBSCRIBE"
          /\ \A j \in DOMAIN q : j > i => q[j].user # u

LEMMA WordOfNone ==
  ASSUME NEW S, NEW u
  PROVE  LastWord(S, <<>>, u) <=> u \in S
  BY DEF LastWord

(* Of two queues one after the other, the second decides about the channels   *)
(* it names.                                                                  *)
LEMMA WordConcat ==
  ASSUME NEW S, NEW q \in Seq(Commands), NEW r \in Seq(Commands), NEW u
  PROVE  LastWord(S, q \o r, u)
           <=> IF u \in UsersOf(r) THEN LastWord({}, r, u) ELSE LastWord(S, q, u)
<1> DEFINE n == Len(q)
           p == q \o r
<1>1. /\ n \in Nat /\ Len(r) \in Nat
      /\ DOMAIN q = 1..n /\ DOMAIN r = 1..Len(r) /\ DOMAIN p = 1..(n + Len(r))
  OBVIOUS
<1>2. \A i \in DOMAIN q : i \in DOMAIN p /\ p[i] = q[i]
  BY <1>1
<1>3. \A i \in DOMAIN r : i + n \in DOMAIN p /\ p[i + n] = r[i] /\ i + n > n
  BY <1>1
<1>4. \A i \in DOMAIN p : i \in DOMAIN q \/ (i - n \in DOMAIN r /\ p[i] = r[i - n] /\ i > n)
  BY <1>1
<1> HIDE DEF p, n
<1>5. ASSUME NEW i \in DOMAIN r
      PROVE  (\A j \in DOMAIN r : j > i => r[j].user # u)
               <=> (\A j \in DOMAIN p : j > i + n => p[j].user # u)
  <2>1. ASSUME \A j \in DOMAIN r : j > i => r[j].user # u, NEW j \in DOMAIN p, j > i + n
        PROVE  p[j].user # u
    <3>1. j - n \in DOMAIN r /\ p[j] = r[j - n] /\ j - n > i
      BY <1>1, <1>4, <2>1
    <3> QED BY <2>1, <3>1
  <2>2. ASSUME \A j \in DOMAIN p : j > i + n => p[j].user # u, NEW j \in DOMAIN r, j > i
        PROVE  r[j].user # u
    <3>1. j + n \in DOMAIN p /\ p[j + n] = r[j] /\ j + n > i + n
      BY <1>1, <1>3, <2>2
    <3> QED BY <2>2, <3>1
  <2> QED BY <2>1, <2>2
<1>6. CASE u \in UsersOf(r)
  <2>1. PICK k \in DOMAIN r : r[k].user = u
    BY <1>6 DEF UsersOf
  <2>2. k + n \in DOMAIN p /\ p[k + n].user = u
    BY <1>3, <2>1
  <2>3. ASSUME LastWord(S, p, u) PROVE LastWord({}, r, u)
    <3>1. PICK i \in DOMAIN p :
            /\ p[i].user = u /\ p[i].op = "SUBSCRIBE"
            /\ \A j \in DOMAIN p : j > i => p[j].user # u
      BY <2>2, <2>3 DEF LastWord
    <3>2. i \notin DOMAIN q
      BY <1>1, <2>1, <2>2, <3>1
    <3>3. i - n \in DOMAIN r /\ p[i] = r[i - n] /\ (i - n) + n = i
      BY <1>1, <1>4, <3>2
    <3>4. \A j \in DOMAIN r : j > i - n => r[j].user # u
      BY <1>5, <3>1, <3>3
    <3> QED BY <3>1, <3>3, <3>4 DEF LastWord
  <2>4. ASSUME LastWord({}, r, u) PROVE LastWord(S, p, u)
    <3>1. PICK i \in DOMAIN r :
            /\ r[i].user = u /\ r[i].op = "SUBSCRIBE"
            /\ \A j \in DOMAIN r : j > i => r[j].user # u
      BY <2>4 DEF LastWord
    <3>2. i + n \in DOMAIN p /\ p[i + n] = r[i]
      BY <1>3
    <3>3. \A j \in DOMAIN p : j > i + n => p[j].user # u
      BY <1>5, <3>1
    <3> QED BY <3>1, <3>2, <3>3 DEF LastWord
  <2> QED BY <1>6, <2>3, <2>4 DEF p
<1>7. CASE u \notin UsersOf(r)
  <2>1. \A i \in DOMAIN r : r[i].user # u
    BY <1>7 DEF UsersOf
  <2>2. \A i \in DOMAIN p : p[i].user = u => i \in DOMAIN q /\ q[i].user = u
    BY <1>2, <1>4, <2>1
  <2>3. (\A i \in DOMAIN p : p[i].user # u) <=> (\A i \in DOMAIN q : q[i].user # u)
    BY <1>2, <2>2
  <2>4. ASSUME NEW i \in DOMAIN q
        PROVE  (\A j \in DOMAIN p : j > i => p[j].user # u)
                 <=> (\A j \in DOMAIN q : j > i => q[j].user # u)
    BY <1>2, <2>2
  <2> QED BY <1>2, <1>7, <2>2, <2>3, <2>4 DEF LastWord, p
<1> QED BY <1>6, <1>7

LEMMA WordAdded ==
  ASSUME NEW S, NEW q \in Seq(Commands), NEW c \in Commands, NEW u
  PROVE  LastWord(S, q \o <<c>>, u)
           <=> IF c.user = u THEN c.op = "SUBSCRIBE" ELSE LastWord(S, q, u)
<1>1. <<c>> \in Seq(Commands) /\ DOMAIN <<c>> = {1} /\ <<c>>[1] = c
  OBVIOUS
<1>2. UsersOf(<<c>>) = {c.user}
  BY <1>1 DEF UsersOf
<1>3. c.user = u => (LastWord({}, <<c>>, u) <=> c.op = "SUBSCRIBE")
  BY <1>1 DEF LastWord
<1> QED BY <1>1, <1>2, <1>3, WordConcat

LEMMA WordExecuted ==
  ASSUME NEW S, NEW q \in Seq(Commands), q # <<>>, NEW u, NEW T,
         T = IF Head(q).op = "SUBSCRIBE" THEN S \cup {Head(q).user} ELSE S \ {Head(q).user}
  PROVE  LastWord(T, Tail(q), u) <=> LastWord(S, q, u)
<1> DEFINE t == Tail(q)
           c == Head(q)
<1>1. /\ Len(q) \in Nat /\ Len(q) >= 1 /\ DOMAIN q = 1..Len(q) /\ q[1] = c
      /\ DOMAIN t = 1..(Len(q) - 1) /\ \A i \in DOMAIN t : t[i] = q[i + 1]
  OBVIOUS
<1>2. 1 \in DOMAIN q /\ \A i \in DOMAIN t : i + 1 \in DOMAIN q /\ i + 1 > 1 /\ i + 1 # 1
  BY <1>1
<1>3. \A i \in DOMAIN q : i = 1 \/ (i - 1 \in DOMAIN t /\ t[i - 1] = q[i] /\ i > 1)
  BY <1>1
<1>4. ASSUME NEW i \in DOMAIN t
      PROVE  (\A j \in DOMAIN t : j > i => t[j].user # u)
               <=> (\A j \in DOMAIN q : j > i + 1 => q[j].user # u)
  <2>1. ASSUME \A j \in DOMAIN t : j > i => t[j].user # u, NEW j \in DOMAIN q, j > i + 1
        PROVE  q[j].user # u
    <3>1. j - 1 \in DOMAIN t /\ t[j - 1] = q[j] /\ j - 1 > i
      BY <1>1, <2>1
    <3> QED BY <2>1, <3>1
  <2>2. ASSUME \A j \in DOMAIN q : j > i + 1 => q[j].user # u, NEW j \in DOMAIN t, j > i
        PROVE  t[j].user # u
    <3>1. j + 1 \in DOMAIN q /\ t[j] = q[j + 1] /\ j + 1 > i + 1
      BY <1>1, <2>2
    <3> QED BY <2>2, <3>1
  <2> QED BY <2>1, <2>2
<1>5. (\A j \in DOMAIN q : j > 1 => q[j].user # u) <=> (\A j \in DOMAIN t : t[j].user # u)
  <2>1. ASSUME \A j \in DOMAIN t : t[j].user # u, NEW j \in DOMAIN q, j > 1
        PROVE  q[j].user # u
    BY <1>1, <1>3, <2>1
  <2>2. ASSUME \A j \in DOMAIN q : j > 1 => q[j].user # u, NEW j \in DOMAIN t
        PROVE  t[j].user # u
    BY <1>1, <1>2, <2>2
  <2> QED BY <2>1, <2>2
<1>6. (\A j \in DOMAIN q : q[j].user # u)
         <=> c.user # u /\ \A j \in DOMAIN t : t[j].user # u
  BY <1>1, <1>2, <1>3, <1>5
<1>7. ASSUME LastWord(T, t, u) PROVE LastWord(S, q, u)
  <2>1. CASE u \in T /\ \A j \in DOMAIN t : t[j].user # u
    <3>1. CASE c.user = u
      <4>1. c.op = "SUBSCRIBE"
        BY <2>1, <3>1
      <4> QED BY <1>1, <1>2, <1>5, <2>1, <3>1, <4>1 DEF LastWord
    <3>2. CASE c.user # u
      BY <1>6, <2>1, <3>2 DEF LastWord
    <3> QED BY <3>1, <3>2
  <2>2. ASSUME NEW i \in DOMAIN t, t[i].user = u, t[i].op = "SUBSCRIBE",
               \A j \in DOMAIN t : j > i => t[j].user # u
        PROVE  LastWord(S, q, u)
    <3>1. i + 1 \in DOMAIN q /\ q[i + 1] = t[i]
      BY <1>1, <1>2
    <3>2. \A j \in DOMAIN q : j > i + 1 => q[j].user # u
      BY <1>4, <2>2
    <3> QED BY <2>2, <3>1, <3>2 DEF LastWord
  <2> QED BY <1>7, <2>1, <2>2 DEF LastWord
<1>8. ASSUME LastWord(S, q, u) PROVE LastWord(T, t, u)
  <2>1. CASE u \in S /\ \A j \in DOMAIN q : q[j].user # u
    BY <1>6, <2>1 DEF LastWord
  <2>2. ASSUME NEW i \in DOMAIN q, q[i].user = u, q[i].op = "SUBSCRIBE",
               \A j \in DOMAIN q : j > i => q[j].user # u
        PROVE  LastWord(T, t, u)
    <3>1. CASE i = 1
      BY <1>1, <1>5, <2>2, <3>1 DEF LastWord
    <3>2. CASE i # 1
      <4>1. i - 1 \in DOMAIN t /\ t[i - 1] = q[i] /\ (i - 1) + 1 = i
        BY <1>1, <1>3, <3>2
      <4>2. \A j \in DOMAIN t : j > i - 1 => t[j].user # u
        BY <1>4, <2>2, <4>1
      <4> QED BY <2>2, <4>1, <4>2 DEF LastWord
    <3> QED BY <3>1, <3>2
  <2> QED BY <1>8, <2>1, <2>2 DEF LastWord
<1> QED BY <1>7, <1>8

(* Where the main thread is when no signal has come. *)
NormalPcs == {"Init", "RegisterSignal", "loop", "connect", "notify", "request", "append", "write"}

(* The command in hand is not in the output buffer yet. *)
InHand(u) == main \in {"request", "append"} /\ cmd.user = u

(* What Redis will come to, with the commands on their way, those in the      *)
(* buffer and the one in hand, is what the handlers asked for.                *)
Decided ==
    \A u \in Users \ harmed :
        u \in wanted <=> IF InHand(u) THEN cmd.op = "SUBSCRIBE"
                                      ELSE LastWord(subscribed, sock \o obuf, u)

(* A command in the buffer has a thread that is going to write it. *)
WillBeWritten == obuf # <<>> => main \in {"append", "write"} \/ observer = "flush"

Undisturbed == link = "up" /\ main \in NormalPcs

CarriedInv == Undisturbed => Decided /\ WillBeWritten

(* A link that is up was up, and the main thread does not come back from a    *)
(* signal.                                                                    *)
LEMMA UndisturbedBefore ==
  ASSUME TypeInv, [Next]_vars, Undisturbed'
  PROVE  Undisturbed
<1> USE DEF Undisturbed, NormalPcs, Goes
<1>1. CASE MainStep
  <2>1. CASE Exit
    BY <2>1 DEF Exit, Ended
  <2>2. CASE AppendCommand \/ BufferWrite
    BY <2>2 DEF AppendCommand, BufferWrite, Output
  <2>3. CASE RegisterSignal \/ StartLoop \/ Connect \/ InitNotifyHandler \/ UnlockConns
    BY <2>3 DEF RegisterSignal, StartLoop, Connect, InitNotifyHandler, UnlockConns
  <2>4. CASE HandleSignal \/ HandlerReset
    BY <2>4 DEF HandleSignal, HandlerReset
  <2>5. CASE GetInstance
    <3>1. main' \in {"construct_connect", "HandlerReset", "blocked"}
      BY <2>5 DEF GetInstance, TypeInv, TypeOK
    <3> QED BY <3>1
  <2> QED BY <1>1, <2>1, <2>2, <2>3, <2>4, <2>5 DEF MainStep
<1>2. CASE ObserverStep
  <2>1. CASE ObserverFlush
    BY <2>1 DEF ObserverFlush, Output
  <2>2. CASE ObserverRead \/ ObserverQuit \/ NotifyLocks \/ NotifyReturns
    BY <2>2 DEF ObserverRead, ObserverQuit, NotifyLocks, NotifyReturns
  <2> QED BY <1>2, <2>1, <2>2 DEF ObserverStep
<1>3. CASE FirstUse \/ Crash \/ SigInt \/ UNCHANGED vars
  <2>1. CASE FirstUse \/ Crash
    BY <2>1 DEF FirstUse, Crash, Ended
  <2>2. CASE SigInt
    <3>1. main' \in {"ended", "HandleSignal"}
      BY <2>2, Zenon DEF SigInt
    <3> QED BY <3>1
  <2>3. CASE UNCHANGED vars
    BY <2>3 DEF vars
  <2> QED BY <1>3, <2>1, <2>2, <2>3
<1>4. ASSUME NEW c \in Commands, BeginRequest(c)
      PROVE  Undisturbed
  BY <1>4 DEF BeginRequest
<1>5. CASE RedisExecute \/ RedisPush \/ LinkBreaks
  BY <1>5 DEF RedisExecute, RedisPush, LinkBreaks
<1> QED BY <1>1, <1>2, <1>3, <1>4, <1>5 DEF Next

(* The buffer is written, by whichever thread: all of it, none of it, or      *)
(* twice.  Of a channel that is not harmed the last word stays.               *)
LEMMA BufferWritten ==
  ASSUME TypeInv, Output(<<>>, obuf), NEW u \in Users \ harmed'
  PROVE  /\ u \notin harmed
         /\ LastWord(subscribed', sock' \o obuf', u) <=> LastWord(subscribed, sock \o obuf, u)
<1>1. obuf \in Seq(Commands) /\ sock \in Seq(Commands)
  BY DEF TypeInv, TypeOK
<1>2. /\ sock \o obuf \in Seq(Commands) /\ sock \o <<>> = sock /\ <<>> \o obuf = obuf
      /\ (sock \o obuf) \o <<>> = sock \o obuf
  BY <1>1
<1>3. UNCHANGED subscribed
  BY DEF Output
<1>4. CASE obuf' = <<>> /\ sock' = sock \o obuf /\ UNCHANGED harmed
  BY <1>2, <1>3, <1>4
<1>5. CASE obuf' = <<>> /\ UNCHANGED sock /\ harmed' = harmed \cup UsersOf(<<>> \o obuf)
  <2>1. u \notin harmed /\ u \notin UsersOf(obuf)
    BY <1>2, <1>5
  <2>2. LastWord(subscribed, sock \o obuf, u) <=> LastWord(subscribed, sock, u)
    BY <1>1, <2>1, WordConcat
  <2> QED BY <1>2, <1>3, <1>5, <2>1, <2>2
<1>6. CASE obuf' = <<>> \o obuf /\ sock' = sock \o obuf /\ UNCHANGED harmed
  <2>1. LastWord(subscribed, (sock \o obuf) \o obuf, u)
          <=> IF u \in UsersOf(obuf) THEN LastWord({}, obuf, u)
                                     ELSE LastWord(subscribed, sock \o obuf, u)
    BY <1>1, <1>2, WordConcat
  <2>2. LastWord(subscribed, sock \o obuf, u)
          <=> IF u \in UsersOf(obuf) THEN LastWord({}, obuf, u)
                                     ELSE LastWord(subscribed, sock, u)
    BY <1>1, WordConcat
  <2> QED BY <1>2, <1>3, <1>6, <2>1, <2>2
<1> QED BY <1>4, <1>5, <1>6 DEF Output

(* A command is added to the buffer, or the buffer with it is lost. *)
LEMMA CommandAppended ==
  ASSUME TypeInv, cmd \in Commands, Output(Append(obuf, cmd), <<>>), NEW u \in Users \ harmed'
  PROVE  /\ u \notin harmed
         /\ LastWord(subscribed', sock' \o obuf', u)
              <=> IF cmd.user = u THEN cmd.op = "SUBSCRIBE"
                                  ELSE LastWord(subscribed, sock \o obuf, u)
<1> DEFINE b == Append(obuf, cmd)
<1>1. obuf \in Seq(Commands) /\ sock \in Seq(Commands)
  BY DEF TypeInv, TypeOK
<1>2. b \in Seq(Commands) /\ b \o <<>> = b /\ sock \o <<>> = sock
  BY <1>1
<1>3. sock \o obuf \in Seq(Commands) /\ sock \o b = (sock \o obuf) \o <<cmd>>
  BY <1>1
<1>4. UNCHANGED subscribed
  BY DEF Output
<1>5. \/ obuf' = b /\ sock' = sock \o <<>> /\ UNCHANGED harmed
      \/ obuf' = <<>> /\ UNCHANGED sock /\ harmed' = harmed \cup UsersOf(b \o <<>>)
  BY <1>2 DEF Output
<1> HIDE DEF b
<1>6. LastWord(subscribed, sock \o b, u)
        <=> IF cmd.user = u THEN cmd.op = "SUBSCRIBE"
                            ELSE LastWord(subscribed, sock \o obuf, u)
  BY <1>3, WordAdded
<1>7. CASE obuf' = b /\ sock' = sock \o <<>> /\ UNCHANGED harmed
  BY <1>2, <1>4, <1>6, <1>7
<1>8. CASE obuf' = <<>> /\ UNCHANGED sock /\ harmed' = harmed \cup UsersOf(b \o <<>>)
  <2>1. u \notin harmed /\ u \notin UsersOf(b)
    BY <1>2, <1>8
  <2>2. LastWord(subscribed, sock \o b, u) <=> LastWord(subscribed, sock, u)
    BY <1>1, <1>2, <2>1, WordConcat
  <2> QED BY <1>2, <1>4, <1>6, <1>8, <2>1, <2>2
<1> QED BY <1>5, <1>7, <1>8

(* Steps of either thread that touch neither commands nor channels. *)
LEMMA CarriedFrame ==
  ASSUME CarriedInv, Undisturbed, UNCHANGED <<cmd, obuf, sock, subscribed, wanted, harmed>>,
         \/ UNCHANGED main
         \/ {main, main'} \cap {"request", "append", "write"} = {}
         \/ main = "request" /\ main' = "append",
         observer = "flush" => observer' = "flush"
  PROVE  CarriedInv'
<1>1. \A u : InHand(u)' <=> InHand(u)
  BY DEF InHand
<1>2. Decided'
  BY <1>1 DEF CarriedInv, Decided
<1>3. WillBeWritten'
  BY DEF CarriedInv, WillBeWritten
<1> QED BY <1>2, <1>3 DEF CarriedInv

LEMMA CarriedStep == TypeInv /\ CarriedInv /\ [Next]_vars => CarriedInv'
<1> SUFFICES ASSUME TypeInv, CarriedInv, [Next]_vars, Undisturbed' PROVE CarriedInv'
  BY DEF CarriedInv
<1>u. Undisturbed /\ Decided /\ WillBeWritten
  BY UndisturbedBefore DEF CarriedInv
<1>q. sock \in Seq(Commands) /\ obuf \in Seq(Commands)
  BY DEF TypeInv, TypeOK
<1>1. CASE RegisterSignal \/ StartLoop \/ Connect \/ InitNotifyHandler \/ UnlockConns \/ FirstUse
  <2>1. /\ UNCHANGED <<cmd, obuf, sock, subscribed, wanted, harmed>>
        /\ \/ {main, main'} \cap {"request", "append", "write"} = {}
           \/ main = "request" /\ main' = "append"
        /\ observer = "flush" => observer' = "flush"
    BY <1>1 DEF RegisterSignal, StartLoop, Connect, InitNotifyHandler, UnlockConns, FirstUse, Goes
  <2> QED BY <1>u, <2>1, CarriedFrame
<1>2. CASE AppendCommand
  <2>1. main = "append" /\ main' = "write" /\ UNCHANGED <<cmd, wanted>>
    BY <1>2 DEF AppendCommand, Goes
  <2>2. cmd \in Commands
    BY <2>1 DEF TypeInv
  <2>3. ASSUME NEW u \in Users \ harmed'
        PROVE  u \in wanted' <=> IF InHand(u)' THEN cmd'.op = "SUBSCRIBE"
                                               ELSE LastWord(subscribed', sock' \o obuf', u)
    <3>1. /\ u \notin harmed
          /\ LastWord(subscribed', sock' \o obuf', u)
               <=> IF cmd.user = u THEN cmd.op = "SUBSCRIBE"
                                   ELSE LastWord(subscribed, sock \o obuf, u)
      BY <1>2, <2>2, CommandAppended DEF AppendCommand
    <3>2. ~InHand(u)' /\ (InHand(u) <=> cmd.user = u)
      BY <2>1 DEF InHand
    <3> QED BY <1>u, <2>1, <3>1, <3>2 DEF Decided
  <2> QED BY <2>1, <2>3 DEF CarriedInv, Decided, WillBeWritten
<1>3. CASE BufferWrite
  <2>1. Output(<<>>, obuf) /\ main = "write" /\ main' = "loop" /\ UNCHANGED <<wanted, observer>>
    BY <1>3, <1>u DEF BufferWrite, Undisturbed, Goes
  <2>2. ASSUME NEW u \in Users \ harmed'
        PROVE  u \in wanted' <=> IF InHand(u)' THEN cmd'.op = "SUBSCRIBE"
                                               ELSE LastWord(subscribed', sock' \o obuf', u)
    <3>1. /\ u \notin harmed
          /\ LastWord(subscribed', sock' \o obuf', u) <=> LastWord(subscribed, sock \o obuf, u)
      BY <2>1, BufferWritten
    <3>2. ~InHand(u)' /\ ~InHand(u)
      BY <2>1 DEF InHand
    <3> QED BY <1>u, <2>1, <3>1, <3>2 DEF Decided
  <2>3. obuf' = <<>> \/ observer = "flush"
    BY <2>1 DEF Output, RaceGoesWrong
  <2> QED BY <2>1, <2>2, <2>3 DEF CarriedInv, Decided, WillBeWritten
<1>4. CASE ObserverFlush
  <2>1. Output(<<>>, obuf) /\ UNCHANGED <<main, wanted, cmd>>
    BY <1>4, <1>u DEF ObserverFlush, Undisturbed
  <2>2. ASSUME NEW u \in Users \ harmed'
        PROVE  u \in wanted' <=> IF InHand(u)' THEN cmd'.op = "SUBSCRIBE"
                                               ELSE LastWord(subscribed', sock' \o obuf', u)
    <3>1. /\ u \notin harmed
          /\ LastWord(subscribed', sock' \o obuf', u) <=> LastWord(subscribed, sock \o obuf, u)
      BY <2>1, BufferWritten
    <3>2. InHand(u)' <=> InHand(u)
      BY <2>1 DEF InHand
    <3> QED BY <1>u, <2>1, <3>1, <3>2 DEF Decided
  <2>3. obuf' = <<>> \/ main \in {"append", "write"}
    BY <2>1 DEF Output, RaceGoesWrong
  <2> QED BY <2>1, <2>2, <2>3 DEF CarriedInv, Decided, WillBeWritten
<1>5. CASE ObserverRead \/ ObserverQuit \/ NotifyLocks \/ NotifyReturns \/ RedisPush
  <2>1. /\ UNCHANGED <<main, cmd, obuf, sock, subscribed, wanted, harmed>>
        /\ observer = "flush" => observer' = "flush"
    BY <1>5 DEF ObserverRead, ObserverQuit, NotifyLocks, NotifyReturns, RedisPush
  <2> QED BY <1>u, <2>1, CarriedFrame
<1>6. ASSUME NEW c \in Commands, BeginRequest(c)
      PROVE  CarriedInv'
  <2>1. /\ main = "loop" /\ main' = "request" /\ cmd' = c
        /\ UNCHANGED <<obuf, sock, subscribed, observer>> /\ harmed' = harmed \ {c.user}
        /\ wanted' = IF c.op = "SUBSCRIBE" THEN wanted \cup {c.user} ELSE wanted \ {c.user}
    BY <1>6 DEF BeginRequest, Goes
  <2>2. \A u : ~InHand(u) /\ (InHand(u)' <=> c.user = u)
    BY <2>1 DEF InHand
  <2>3. \A u \in Users \ harmed : u \in wanted <=> LastWord(subscribed, sock \o obuf, u)
    BY <1>u, <2>2 DEF Decided
  <2>4. Decided'
    BY <2>1, <2>2, <2>3 DEF Decided
  <2>5. WillBeWritten'
    BY <1>u, <2>1 DEF WillBeWritten
  <2> QED BY <2>4, <2>5 DEF CarriedInv
<1>7. CASE RedisExecute
  <2>1. /\ sock # <<>> /\ sock' = Tail(sock)
        /\ UNCHANGED <<main, cmd, obuf, wanted, harmed, observer>>
        /\ subscribed' = IF Head(sock).op = "SUBSCRIBE" THEN subscribed \cup {Head(sock).user}
                                                        ELSE subscribed \ {Head(sock).user}
    BY <1>7 DEF RedisExecute
  <2> DEFINE p == sock \o obuf
  <2>2. p \in Seq(Commands) /\ p # <<>> /\ Head(p) = Head(sock) /\ Tail(p) = Tail(sock) \o obuf
    BY <1>q, <2>1
  <2>3. \A u : LastWord(subscribed', Tail(p), u) <=> LastWord(subscribed, p, u)
    <3> HIDE DEF p
    <3> QED BY <2>1, <2>2, WordExecuted
  <2>4. \A u : LastWord(subscribed', sock' \o obuf', u) <=> LastWord(subscribed, sock \o obuf, u)
    BY <2>1, <2>2, <2>3
  <2>5. \A u : InHand(u)' <=> InHand(u)
    BY <2>1 DEF InHand
  <2> QED BY <1>u, <2>1, <2>4, <2>5 DEF CarriedInv, Decided, WillBeWritten
<1>8. CASE Exit \/ Crash \/ LinkBreaks \/ SigInt
  BY <1>8 DEF Exit, Crash, Ended, LinkBreaks, SigInt, Undisturbed, NormalPcs
<1>9. CASE HandleSignal \/ GetInstance \/ HandlerReset
  <2>1. main \in HandlerPcs
    BY <1>9, Zenon DEF HandleSignal, GetInstance, HandlerReset, Goes, HandlerPcs
  <2> QED BY <1>u, <2>1 DEF Undisturbed, NormalPcs, HandlerPcs
<1>10. CASE UNCHANGED vars
  BY <1>10, <1>u, CarriedFrame DEF vars
<1> QED
  BY <1>1, <1>2, <1>3, <1>4, <1>5, <1>6, <1>7, <1>8, <1>9, <1>10 DEF Next, MainStep, ObserverStep

(* RedisConn::Subscribe and Unsubscribe are not acknowledged and share their  *)
(* output buffer, without a lock, with the observer's redisGetReply.  While   *)
(* the link holds, every command is carried out in its order, whichever of    *)
(* the two threads writes it; however many races in the buffer go wrong, they *)
(* cost only the commands that were in it, until the same channel's next.     *)
THEOREM SubscriptionsAlwaysCarriedOut == Spec => []SubscriptionsCarriedOut
<1>1. Init => CarriedInv
  <2> SUFFICES ASSUME Init PROVE CarriedInv
    OBVIOUS
  <2>1. obuf = <<>> /\ wanted = {} /\ subscribed = {} /\ sock = <<>> /\ main = "Init"
    BY DEF Init
  <2>2. sock \o obuf = <<>> /\ \A u : ~InHand(u)
    BY <2>1 DEF InHand
  <2> QED BY <2>1, <2>2, WordOfNone DEF CarriedInv, Decided, WillBeWritten
<1>2. TypeInv /\ CarriedInv => SubscriptionsCarriedOut
  <2> SUFFICES ASSUME TypeInv, CarriedInv, main = "loop", observer = "read", link = "up",
                      sock = <<>>
               PROVE  obuf = <<>> /\ \A u \in Users \ harmed : u \in subscribed <=> u \in wanted
    BY DEF SubscriptionsCarriedOut
  <2>1. obuf = <<>> /\ Decided
    BY DEF CarriedInv, Undisturbed, NormalPcs, WillBeWritten
  <2>2. sock \o obuf = <<>> /\ \A u : ~InHand(u)
    BY <2>1 DEF InHand
  <2> QED BY <2>1, <2>2, WordOfNone DEF Decided
<1> QED BY <1>1, <1>2, TypeInit, TypeStep, CarriedStep, PTL DEF Spec
=============================================================================
