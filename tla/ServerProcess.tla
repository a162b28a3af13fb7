--------------------------- MODULE ServerProcess ---------------------------
(***************************************************************************)
(* One chat server process seen from inside: main(), SignalHandler, the    *)
(* construction of MsgIDHandler on first use, RedisConn and its observer   *)
(* thread, and SIGINT, which interrupts the main thread anywhere.          *)
(*                                                                         *)
(* Both threads use subscribe_context_ without a lock: the main thread     *)
(* appends a command to its output buffer and writes it, the observer's    *)
(* redisGetReply writes what is in the buffer before it reads.  When they  *)
(* are in there together that is a data race, and what becomes of the      *)
(* commands, or of the process, is open.  Otherwise a call of hiredis      *)
(* (external) is one step.                                                 *)
(*                                                                         *)
(* A request is a login or a logout as far as the subscription and         *)
(* conn_mtx_ are concerned.  SIGINT comes once: the kernel gives it to the *)
(* main thread, and it is blocked while its handler runs.                  *)
(***************************************************************************)
EXTENDS Naturals, Sequences

CONSTANTS
    Users,         \* channels
    MaxRequests,   \* bound on requests
    MaxPushes,     \* bound on messages other servers publish
    MaxRaces,      \* bound on races in the output buffer that go wrong
    MayBreak       \* the connection to Redis may break

ASSUME ProcessAssumption ==
    {MaxRequests, MaxPushes, MaxRaces} \subseteq Nat /\ MayBreak \in BOOLEAN

VARIABLES
    main,          \* where the main thread is
    interrupted,   \* where SIGINT found it
    inlib,         \* SIGINT found it inside malloc or the like
    signal_mutex,  \* held by the main thread
    conn_mtx,      \* "free", "main" or "observer"
    instance,      \* GetInstance's static: "none", "constructing", "ready"
    notify_set,    \* notify_message_handler_ is set
    observer,      \* where the observer thread is
    cmd,           \* the command the main thread is sending
    obuf,          \* subscribe_context_'s output buffer
    sock,          \* commands written, unread by Redis
    subscribed,    \* channels Redis has this server subscribed to
    replies,       \* what Redis sent, unread by the observer
    link,          \* "up" or "broken"
    requests, pushes,   \* bounded counters
    wanted,        \* history: the channels the handlers asked for
    races,         \* races in the output buffer that went wrong
    harmed         \* history: channels whose last command a race may have lost

signalVars == <<interrupted, inlib, signal_mutex>>
redisVars == <<sock, subscribed, replies, link>>
counters == <<requests, pushes>>
raceVars == <<races, harmed>>
vars == <<main, signalVars, conn_mtx, instance, notify_set, observer, cmd, obuf, redisVars,
          counters, wanted, raceVars>>

NoCmd == [op |-> "none", user |-> "none"]
Commands == [op : {"SUBSCRIBE", "UNSUBSCRIBE"}, user : Users]
UsersOf(q) == {q[i].user : i \in DOMAIN q}

(* Between a signal's arrival and the end. *)
HandlerPcs == {"HandleSignal", "GetInstance", "construct_connect", "construct_notify",
               "HandlerReset", "exit"}

TypeOK ==
    /\ main \in {"Init", "RegisterSignal", "loop", "connect", "notify",
                 "request", "append", "write", "ended", "blocked"} \cup HandlerPcs
    /\ conn_mtx \in {"free", "main", "observer"}
    /\ instance \in {"none", "constructing", "ready"}
    /\ observer \in {"none", "flush", "read", "notify", "quit"}
    /\ cmd \in Commands \cup {NoCmd}
    /\ obuf \in Seq(Commands) /\ sock \in Seq(Commands)
    /\ subscribed \subseteq Users /\ wanted \subseteq Users /\ harmed \subseteq Users
    /\ replies \in Seq({"ack", "message"}) /\ link \in {"up", "broken"}
    /\ requests \in 0..MaxRequests /\ pushes \in 0..MaxPushes /\ races \in 0..MaxRaces
    /\ {notify_set, inlib, signal_mutex} \subseteq BOOLEAN

Init ==
    /\ main = "Init" /\ interrupted = "no" /\ inlib = FALSE /\ signal_mutex = FALSE
    /\ conn_mtx = "free" /\ instance = "none" /\ notify_set = FALSE
    /\ observer = "none" /\ cmd = NoCmd /\ obuf = <<>>
    /\ sock = <<>> /\ subscribed = {} /\ replies = <<>> /\ link = "up"
    /\ requests = 0 /\ pushes = 0 /\ wanted = {} /\ races = 0 /\ harmed = {}

Goes(from, to) == main = from /\ main' = to

-----------------------------------------------------------------------------
(* main(): RegisterSignal installs the handler while it holds signal_mutex_,  *)
(* then the loop runs.                                                        *)

RegisterSignal ==
    /\ Goes("Init", "RegisterSignal")
    /\ signal_mutex' = TRUE
    /\ UNCHANGED <<interrupted, inlib, conn_mtx, instance, notify_set, observer, cmd, obuf,
                   redisVars, counters, wanted, raceVars>>

StartLoop ==
    /\ Goes("RegisterSignal", "loop")
    /\ signal_mutex' = FALSE
    /\ UNCHANGED <<interrupted, inlib, conn_mtx, instance, notify_set, observer, cmd, obuf,
                   redisVars, counters, wanted, raceVars>>

(* The constructor of MsgIDHandler: Connect() starts the observer, then the   *)
(* notify handler is set; from the first request, or from the signal handler. *)

FirstUse ==
    /\ Goes("loop", "connect")
    /\ instance = "none"
    /\ instance' = "constructing"
    /\ UNCHANGED <<signalVars, conn_mtx, notify_set, observer, cmd, obuf, redisVars, counters,
                   wanted, raceVars>>

(* Faulty variant: the server's channels are subscribed to before the notify  *)
(* handler is set.                                                            *)
ConnectSubscribes ==
    /\ Goes("connect", "notify") \/ Goes("construct_connect", "construct_notify")
    /\ observer' = "flush"
    /\ obuf' = <<[op |-> "SUBSCRIBE", user |-> CHOOSE u \in Users : TRUE]>>
    /\ UNCHANGED <<signalVars, conn_mtx, instance, notify_set, cmd, redisVars, counters,
                   wanted, raceVars>>

Connect ==
    /\ Goes("connect", "notify") \/ Goes("construct_connect", "construct_notify")
    /\ observer' = "flush"
    /\ UNCHANGED <<signalVars, conn_mtx, instance, notify_set, cmd, obuf, redisVars, counters,
                   wanted, raceVars>>

InitNotifyHandler ==
    /\ Goes("notify", "loop") \/ Goes("construct_notify", "HandlerReset")
    /\ notify_set' = TRUE /\ instance' = "ready"
    /\ UNCHANGED <<signalVars, conn_mtx, observer, cmd, obuf, redisVars, counters, wanted, raceVars>>

-----------------------------------------------------------------------------
(* A request: the part of a handler that holds conn_mtx_, then RedisConn. *)

BeginRequest(c) ==
    /\ Goes("loop", "request")
    /\ instance = "ready" /\ requests < MaxRequests /\ conn_mtx = "free"
    /\ requests' = requests + 1
    /\ conn_mtx' = "main"
    /\ cmd' = c
    /\ wanted' = IF c.op = "SUBSCRIBE" THEN wanted \cup {c.user} ELSE wanted \ {c.user}
    /\ harmed' = harmed \ {c.user}
    /\ UNCHANGED <<signalVars, instance, notify_set, observer, obuf, redisVars, pushes, races>>

(* Faulty variant: the id is gone when the command is built. *)
UnlockForgets ==
    /\ Goes("request", "append")
    /\ conn_mtx' = "free" /\ cmd' = NoCmd
    /\ UNCHANGED <<signalVars, instance, notify_set, observer, obuf, redisVars, counters,
                   wanted, raceVars>>

UnlockConns ==
    /\ Goes("request", "append")
    /\ conn_mtx' = "free"
    /\ UNCHANGED <<signalVars, instance, notify_set, observer, cmd, obuf, redisVars, counters,
                   wanted, raceVars>>

(* Both threads are inside hiredis with the output buffer, and it goes wrong. *)
RaceGoesWrong ==
    /\ main \in {"append", "write"} /\ observer = "flush"
    /\ races < MaxRaces
    /\ races' = races + 1

(* The process ends: a crash, or exit(). *)
Ended ==
    /\ main' = "ended" /\ observer' = "quit" /\ conn_mtx' = "free"
    /\ UNCHANGED <<signalVars, instance, notify_set, cmd, obuf, redisVars, counters, wanted>>

Crash == RaceGoesWrong /\ Ended /\ UNCHANGED harmed

(* What a step that leaves b in the buffer and writes w may come to: exactly  *)
(* that; or, in a race, commands that are lost or written twice.              *)
Output(b, w) ==
    /\ \/ obuf' = b /\ sock' = sock \o w /\ UNCHANGED raceVars
       \/ /\ RaceGoesWrong
          /\ obuf' = <<>> /\ UNCHANGED sock
          /\ harmed' = harmed \cup UsersOf(b \o w)
       \/ /\ RaceGoesWrong
          /\ obuf' = b \o w /\ sock' = sock \o w
          /\ UNCHANGED harmed
    /\ UNCHANGED <<subscribed, replies, link>>

(* redisAppendCommand *)
AppendCommand ==
    /\ Goes("append", "write")
    /\ Output(Append(obuf, cmd), <<>>)
    /\ UNCHANGED <<signalVars, conn_mtx, instance, notify_set, observer, cmd, counters, wanted>>

(* Faulty variant: the command is left to the observer to write. *)
CommandNotWritten ==
    /\ Goes("write", "loop")
    /\ cmd' = NoCmd
    /\ UNCHANGED <<signalVars, conn_mtx, instance, notify_set, observer, obuf, redisVars,
                   counters, wanted, raceVars>>

(* redisBufferWrite; on a broken link it fails, which no caller looks at. *)
BufferWrite ==
    /\ Goes("write", "loop")
    /\ IF link = "up" THEN Output(<<>>, obuf) ELSE Output(obuf, <<>>)
    /\ cmd' = NoCmd
    /\ UNCHANGED <<signalVars, conn_mtx, instance, notify_set, observer, counters, wanted>>

-----------------------------------------------------------------------------
(* StartObserving: redisGetReply writes the output buffer and reads a reply.  *)

ObserverFlush ==
    /\ observer = "flush"
    /\ IF link = "up" THEN observer' = "read" /\ Output(<<>>, obuf)
                      ELSE observer' = "quit" /\ UNCHANGED <<obuf, redisVars, raceVars>>
    /\ UNCHANGED <<main, signalVars, conn_mtx, instance, notify_set, cmd, counters, wanted>>

(* Faulty variant: the thread ends on a reply without a string. *)
ObserverReadOnce ==
    /\ observer = "read" /\ replies # <<>>
    /\ observer' = IF Head(replies) = "message" THEN "notify" ELSE "quit"
    /\ replies' = Tail(replies)
    /\ UNCHANGED <<main, signalVars, conn_mtx, instance, notify_set, cmd, obuf, sock, subscribed,
                   link, counters, wanted, raceVars>>

(* The replies to SUBSCRIBE and UNSUBSCRIBE have no string and are skipped. *)
ObserverRead ==
    /\ observer = "read" /\ replies # <<>>
    /\ observer' = IF Head(replies) = "message" THEN "notify" ELSE "flush"
    /\ replies' = Tail(replies)
    /\ UNCHANGED <<main, signalVars, conn_mtx, instance, notify_set, cmd, obuf, sock, subscribed,
                   link, counters, wanted, raceVars>>

(* The link is gone: the thread ends, and nothing connects again. *)
ObserverQuit ==
    /\ observer = "read" /\ replies = <<>> /\ link = "broken"
    /\ observer' = "quit"
    /\ UNCHANGED <<main, signalVars, conn_mtx, instance, notify_set, cmd, obuf, redisVars,
                   counters, wanted, raceVars>>

(* notify_message_handler_: HandlerRedisSubscribeMessage, under conn_mtx_. *)
NotifyLocks ==
    /\ observer = "notify" /\ conn_mtx = "free"
    /\ conn_mtx' = "observer"
    /\ UNCHANGED <<main, signalVars, instance, notify_set, observer, cmd, obuf, redisVars,
                   counters, wanted, raceVars>>

NotifyReturns ==
    /\ observer = "notify" /\ conn_mtx = "observer"
    /\ conn_mtx' = "free" /\ observer' = "flush"
    /\ UNCHANGED <<main, signalVars, instance, notify_set, cmd, obuf, redisVars, counters,
                   wanted, raceVars>>

-----------------------------------------------------------------------------
(* Redis *)

RedisExecute ==
    /\ sock # <<>> /\ link = "up"
    /\ sock' = Tail(sock)
    /\ subscribed' = IF Head(sock).op = "SUBSCRIBE" THEN subscribed \cup {Head(sock).user}
                                                    ELSE subscribed \ {Head(sock).user}
    /\ replies' = Append(replies, "ack")
    /\ UNCHANGED <<main, signalVars, conn_mtx, instance, notify_set, observer, cmd, obuf, link,
                   counters, wanted, raceVars>>

(* Another server publishes to a channel of this one. *)
RedisPush ==
    /\ subscribed # {} /\ link = "up" /\ pushes < MaxPushes
    /\ pushes' = pushes + 1
    /\ replies' = Append(replies, "message")
    /\ UNCHANGED <<main, signalVars, conn_mtx, instance, notify_set, observer, cmd, obuf, sock,
                   subscribed, link, requests, wanted, raceVars>>

LinkBreaks ==
    /\ MayBreak /\ link = "up" /\ main # "ended"
    /\ link' = "broken" /\ sock' = <<>> /\ subscribed' = {}
    /\ UNCHANGED <<main, signalVars, conn_mtx, instance, notify_set, observer, cmd, obuf, replies,
                   counters, wanted, raceVars>>

-----------------------------------------------------------------------------
(* SIGINT: before signal() it ends the process; afterwards HandleSignal runs  *)
(* on the stack of what it interrupted, which may be inside malloc: in "loop" *)
(* too, where muduo and the JSON parser run between two waits.                *)

SigInt ==
    /\ interrupted = "no" /\ main # "ended"
    /\ interrupted' = main
    /\ IF main = "Init"
       THEN main' = "ended" /\ UNCHANGED inlib
       ELSE main' = "HandleSignal" /\ inlib' \in BOOLEAN
    /\ UNCHANGED <<signal_mutex, conn_mtx, instance, notify_set, observer, cmd, obuf, redisVars,
                   counters, wanted, raceVars>>

(* lock_guard on signal_mutex_: never returns when the same thread holds it. *)
HandleSignal ==
    /\ Goes("HandleSignal", IF signal_mutex THEN "blocked" ELSE "GetInstance")
    /\ signal_mutex' = TRUE
    /\ UNCHANGED <<interrupted, inlib, conn_mtx, instance, notify_set, observer, cmd, obuf,
                   redisVars, counters, wanted, raceVars>>

(* The static is constructed, used, or, when it is its construction that was  *)
(* interrupted, waited for.                                                   *)
GetInstance ==
    /\ Goes("GetInstance", CASE instance = "none" -> "construct_connect"
                             [] instance = "ready" -> "HandlerReset"
                             [] instance = "constructing" -> "blocked")
    /\ instance' = IF instance = "none" THEN "constructing" ELSE instance
    /\ UNCHANGED <<signalVars, conn_mtx, notify_set, observer, cmd, obuf, redisVars,
                   counters, wanted, raceVars>>

(* Faulty variant: Reset takes conn_mtx_. *)
ResetLocks ==
    /\ conn_mtx # "observer"
    /\ Goes("HandlerReset", IF inlib \/ conn_mtx = "main" THEN "blocked" ELSE "exit")
    /\ UNCHANGED <<signalVars, conn_mtx, instance, notify_set, observer, cmd, obuf, redisVars,
                   counters, wanted, raceVars>>

(* ResetState allocates and uses the MySQL library: it blocks when the        *)
(* interrupted code holds their locks.                                        *)
HandlerReset ==
    /\ Goes("HandlerReset", IF inlib THEN "blocked" ELSE "exit")
    /\ UNCHANGED <<signalVars, conn_mtx, instance, notify_set, observer, cmd, obuf, redisVars,
                   counters, wanted, raceVars>>

Exit == main = "exit" /\ Ended /\ UNCHANGED raceVars

-----------------------------------------------------------------------------
MainStep ==
    \/ RegisterSignal \/ StartLoop \/ Connect \/ InitNotifyHandler
    \/ UnlockConns \/ AppendCommand \/ BufferWrite
    \/ HandleSignal \/ GetInstance \/ HandlerReset \/ Exit

ObserverStep ==
    /\ main # "ended"
    /\ ObserverFlush \/ ObserverRead \/ ObserverQuit \/ NotifyLocks \/ NotifyReturns

Next ==
    \/ MainStep
    \/ ObserverStep
    \/ FirstUse
    \/ \E c \in Commands : BeginRequest(c)
    \/ Crash
    \/ RedisExecute \/ RedisPush \/ LinkBreaks
    \/ SigInt

Spec == Init /\ [][Next]_vars

(* The two threads and Redis run; requests, messages and signals need not     *)
(* come.                                                                      *)
FairSpec ==
    Spec /\ WF_vars(MainStep) /\ WF_vars(ObserverStep) /\ WF_vars(RedisExecute)

-----------------------------------------------------------------------------
(* The observer starts before notify_message_handler_ is set and copies it    *)
(* without a lock; yet it never calls an empty function, because nothing is   *)
(* subscribed to before the constructor has returned.                         *)
NotifyIsSet == observer = "notify" => notify_set

(* What the handlers asked for is what Redis does: once both threads wait and *)
(* Redis has read everything, no command is left in the output buffer and     *)
(* each channel is as the handlers want it.  A race in the buffer takes       *)
(* nothing but the commands that were in it, and the next login or logout of  *)
(* the same user makes up for it.                                             *)
SubscriptionsCarriedOut ==
    main = "loop" /\ observer = "read" /\ link = "up" /\ sock = <<>>
        => obuf = <<>> /\ \A u \in Users \ harmed : u \in subscribed <=> u \in wanted

(* A message pushed to this server is taken from the socket, unless the link  *)
(* broke or the process ended or blocked for good.                            *)
MessageTaken ==
    ("message" \in {replies[i] : i \in DOMAIN replies})
        ~> (replies = <<>> \/ link = "broken" \/ main \in {"ended", "blocked"})

(* SIGINT ends the process whatever either thread was doing, conn_mtx_ held   *)
(* or not, but for three places: inside RegisterSignal, which holds           *)
(* signal_mutex_; inside the first GetInstance; and inside a library function *)
(* whose lock ResetState needs.                                               *)
SigIntEnds ==
    interrupted # "no"
        ~> (main = "ended" \/ inlib \/ interrupted \in {"RegisterSignal", "connect", "notify"})
=============================================================================
