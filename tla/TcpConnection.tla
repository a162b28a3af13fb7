--------------------------- MODULE TcpConnection ---------------------------
(***************************************************************************)
(* One connection of a muduo TcpServer, from accept to its destruction:    *)
(* Acceptor, TcpServer, TcpConnection, Channel and EPollPoller on top of   *)
(* EventLoop and Buffer.  The acceptor runs in BaseLoop; the connection    *)
(* lives in a loop of the pool, or in BaseLoop when the pool is empty, as  *)
(* it is in the chat server.                                               *)
(*                                                                         *)
(* The application is used as the chat server uses muduo: it keeps the     *)
(* connection in a map under a mutex (user_conn_map_, conn_mtx_), another  *)
(* thread (the Redis observer) sends to it while it holds that mutex, and  *)
(* the connection-down callback takes the mutex to drop the entry.  The    *)
(* message callback takes the whole input buffer, and may send, shut down  *)
(* or force a close from the loop's thread.  No write-complete and no      *)
(* high-water-mark callback is set, and reading is never stopped.  The     *)
(* application has one entry per connection and drops it when told of the  *)
(* close; ChatCluster and ClientServer have the chat server's own map, in  *)
(* which dropped requests can leave a connection with two.                 *)
(***************************************************************************)
EXTENDS EventLoop, Buffer, FiniteSetsExt

CONSTANTS
    BaseLoop,   \* TcpServer::loop_
    Observer,   \* the thread that sends without being the loop's
    Msgs,       \* what the application sends, each once: m is a message of m bytes
    MaxIn,      \* bytes the peer sends
    AppCalls    \* what the message callback may do: "send", "shutdown", "forceClose"

ASSUME ConnectionAssumption ==
    /\ BaseLoop \in Loops /\ Observer \in Others
    /\ Msgs \subseteq Nat \ {0} /\ MaxIn \in Nat

VARIABLES
    pool,          \* the loops of EventLoopThreadPool
    io,            \* TcpConnection::loop_
    conn,          \* the TcpConnection, its Channel and its socket's sending side
    connections,   \* TcpServer::connections_ has the connection
    closing,       \* its loop is inside handleClose, before the callbacks
    peer,          \* the other side: "none", "arrived", "open", "fin", "rst"
    rcvq,          \* bytes it sent, unread in our socket
    sockerr,       \* an error is pending on our socket
    entry,         \* the application's map has the connection
    app,           \* the observer's call of send(): its point and its message
    unsent,        \* messages the application has not used yet
    peer_sent,     \* history: how many bytes the peer sent
    received       \* history: bytes handed to the message callback

connVars == <<pool, io, conn, connections, closing>>
peerVars == <<peer, rcvq, sockerr, peer_sent>>
appVars == <<entry, app, unsent, received>>
vars == <<loopVars, connVars, peerVars, appVars>>

Bytes(m) == [i \in 1..m |-> <<m, i>>]

Idle == [pc |-> "idle", msg |-> ZeroByte]

Ops == {"connectEstablished", "sendInLoop", "forceCloseInLoop",
        "removeConnectionInLoop", "connectDestroyed"}
Functors == [op : Ops, msg : Msgs \cup {ZeroByte}]
Functor(op) == [op |-> op, msg |-> ZeroByte]

BufferOK(b) ==
    /\ DOMAIN b = {"data", "r", "w"}
    /\ 0 <= b.r /\ b.r <= b.w /\ b.w <= Len(b.data)

TypeOK ==
    /\ at \in [Loops -> {"poll", "events", "functors"}]
    /\ active \in [Loops -> SUBSET {"wakeup", "accept", "err", "in", "out"}]
    /\ pending \in [Loops -> Seq(Functors)]
    /\ batch \in [Loops -> Seq(Functors)]
    /\ wakefd \in [Loops -> BOOLEAN]
    /\ waking \in [Threads -> Loops \cup {NoLoop}]
    /\ pool \subseteq Loops
    /\ io \in Loops \cup {NoLoop}
    /\ conn.state \in {"none", "kConnecting", "kConnected", "kDisconnecting", "kDisconnected"}
    /\ conn.events \subseteq {"in", "out"}
    /\ conn.index \in {"kNew", "kAdded", "kDeleted"}
    /\ BufferOK(conn.inputBuffer) /\ BufferOK(conn.outputBuffer)
    /\ conn.fin \in BOOLEAN
    /\ {connections, closing, sockerr, entry} \subseteq BOOLEAN
    /\ peer \in {"none", "arrived", "open", "fin", "rst"}
    /\ app \in [pc : {"idle", "push", "wake"}, msg : Msgs \cup {ZeroByte}]
    /\ unsent \subseteq Msgs
    /\ peer_sent \in 0..MaxIn

Init ==
    /\ LoopInit
    /\ pool \in SUBSET (Loops \ {BaseLoop})
    /\ io = NoLoop
    /\ conn = [state |-> "none", events |-> {}, index |-> "kNew", fin |-> FALSE, wire |-> <<>>,
               inputBuffer |-> NewBuffer, outputBuffer |-> NewBuffer]
    /\ connections = FALSE /\ closing = FALSE
    /\ peer = "none" /\ rcvq = <<>> /\ sockerr = FALSE /\ peer_sent = 0
    /\ entry = FALSE /\ app = Idle /\ unsent = Msgs /\ received = <<>>

-----------------------------------------------------------------------------
(* Channel::update and EPollPoller::updateChannel *)

UpdateChannel(k, events) ==
    [k EXCEPT !.events = events,
              !.index = IF @ = "kAdded" /\ events = {} THEN "kDeleted" ELSE "kAdded"]

EnableReading(k) == UpdateChannel(k, k.events \cup {"in"})
EnableWriting(k) == UpdateChannel(k, k.events \cup {"out"})
DisableWriting(k) == UpdateChannel(k, k.events \ {"out"})
DisableAll(k) == UpdateChannel(k, {})

(* Channel::remove and EPollPoller::removeChannel *)
RemoveChannel(k) == [k EXCEPT !.index = "kNew"]

-----------------------------------------------------------------------------
(* TcpConnection, on the thread of its loop: a call maps the connection to    *)
(* the set of connections it may leave, one for each thing the kernel may do. *)

(* write() fails with EPIPE or ECONNRESET. *)
Broken(k) == peer = "rst" \/ k.fin

Buffered(k, data) ==
    LET b == [k EXCEPT !.outputBuffer = AppendBytes(@, data)]
    IN  IF "out" \in b.events THEN b ELSE EnableWriting(b)

(* Faulty variant: a message is written directly though older bytes wait. *)
SendOvertakes(k, data) ==
    IF k.state = "kDisconnected" \/ Broken(k) THEN {k}
    ELSE {IF n = Len(data)
          THEN [k EXCEPT !.wire = @ \o data]
          ELSE Buffered([k EXCEPT !.wire = @ \o SubSeq(data, 1, n)],
                        SubSeq(data, n + 1, Len(data))) : n \in 0..Len(data)}

(* write() takes n bytes, none when it would block; a fault drops the data. *)
SendInLoop(k, data) ==
    IF k.state = "kDisconnected" THEN {k}
    ELSE IF "out" \in k.events \/ ReadableBytes(k.outputBuffer) # 0 THEN {Buffered(k, data)}
    ELSE IF Broken(k) THEN {k}
    ELSE {IF n = Len(data)
          THEN [k EXCEPT !.wire = @ \o data]
          ELSE Buffered([k EXCEPT !.wire = @ \o SubSeq(data, 1, n)],
                        SubSeq(data, n + 1, Len(data))) : n \in 0..Len(data)}

(* Faulty variant: the FIN does not wait for the output buffer. *)
ShutdownAtOnce(k) == [k EXCEPT !.fin = TRUE]

ShutdownInLoop(k) == IF "out" \in k.events THEN k ELSE [k EXCEPT !.fin = TRUE]

Shutdown(k) ==
    IF k.state = "kConnected"
    THEN ShutdownInLoop([k EXCEPT !.state = "kDisconnecting"])
    ELSE k

(* Faulty variant: the half close that waited for the buffer is forgotten. *)
WriteForgetsShutdown(k) ==
    IF "out" \notin k.events \/ Broken(k) THEN {k}
    ELSE {LET j == [k EXCEPT !.wire = @ \o SubSeq(Peek(k.outputBuffer), 1, n),
                             !.outputBuffer = Retrieve(@, n)]
          IN  IF ReadableBytes(j.outputBuffer) = 0 THEN DisableWriting(j) ELSE j
          : n \in 1..ReadableBytes(k.outputBuffer)}

WriteResults(k) ==
    IF "out" \notin k.events \/ Broken(k) THEN {k}
    ELSE {LET j == [k EXCEPT !.wire = @ \o SubSeq(Peek(k.outputBuffer), 1, n),
                             !.outputBuffer = Retrieve(@, n)]
          IN  IF ReadableBytes(j.outputBuffer) # 0 THEN j
              ELSE IF j.state = "kDisconnecting" THEN ShutdownInLoop(DisableWriting(j))
              ELSE DisableWriting(j)
          : n \in 1..ReadableBytes(k.outputBuffer)}

(* Faulty variant: the channel stays registered with the poller. *)
ClosedStillPolled(k) == [k EXCEPT !.state = "kDisconnected"]

Closed(k) == [DisableAll(k) EXCEPT !.state = "kDisconnected"]

-----------------------------------------------------------------------------
(* Poll: the acceptor's socket is readable when a peer has arrived, the       *)
(* connection's when there are bytes, an end or an error to read; whether the *)
(* socket takes more bytes is up to the peer, except that a broken one always *)
(* reports.                                                                  *)

Ready(l, writable) ==
    {e \in {"accept"} : l = BaseLoop /\ peer = "arrived"}
      \cup {e \in {"err"} : l = io /\ conn.events # {} /\ sockerr}
      \cup {e \in {"in"} : /\ l = io /\ "in" \in conn.events
                           /\ rcvq # <<>> \/ peer \in {"fin", "rst"}}
      \cup {e \in {"out"} : l = io /\ "out" \in conn.events /\ (writable \/ peer = "rst")}

PollLoop(l) ==
    /\ waking[l] = NoLoop
    /\ \E writable \in BOOLEAN : Poll(l, Ready(l, writable))
    /\ UNCHANGED <<connVars, peerVars, appVars>>

(* Acceptor::handleRead *)
AcceptPeer ==
    /\ Handling(BaseLoop, "accept")
    /\ Handled(BaseLoop, "accept")
    /\ peer' = "open"

(* getNextLoop is round robin; for one connection it is any loop of the pool. *)
NextLoops == IF pool = {} THEN {BaseLoop} ELSE pool

(* TcpServer::newConnection *)
HandleAccept ==
    /\ AcceptPeer
    /\ connections' = TRUE
    /\ \E l \in NextLoops :
          /\ io' = l
          /\ IF l = BaseLoop
             THEN /\ conn' = EnableReading([conn EXCEPT !.state = "kConnected"])
                  /\ UNCHANGED <<pending, wakefd, waking>>
             ELSE /\ conn' = [conn EXCEPT !.state = "kConnecting"]
                  /\ QueueInLoop(BaseLoop, l, Functor("connectEstablished"))
    /\ UNCHANGED <<at, batch, pool, closing, rcvq, sockerr, peer_sent, appVars>>

ConnectEstablished(l) ==
    /\ Running(l, "connectEstablished")
    /\ Ran(l)
    /\ conn' = EnableReading([conn EXCEPT !.state = "kConnected"])
    /\ UNCHANGED <<at, active, pending, wakefd, waking, pool, io, connections, closing,
                   peerVars, appVars>>

-----------------------------------------------------------------------------
(* Events of the connection.  Channel::handleEventWithGuard reads before it   *)
(* writes; a handler that closes leaves the rest of the events without effect. *)

HandlingConn(l, e) == l = io /\ Handling(l, e)

(* POLLERR: handleError reads SO_ERROR, which clears it, and logs. *)
HandleError(l) ==
    /\ HandlingConn(l, "err")
    /\ Handled(l, "err")
    /\ sockerr' = FALSE
    /\ UNCHANGED <<at, pending, batch, wakefd, waking, connVars, peer, rcvq, peer_sent, appVars>>

(* The channel reads from connectEstablished until it is disabled for good,   *)
(* and a hung-up socket is readable: POLLHUP never comes without POLLIN.      *)
Reading(l) == HandlingConn(l, "in") /\ "err" \notin active[l]

(* handleRead, n > 0: the callback gets everything in the input buffer, and   *)
(* makes at most one call that concerns the connection, or keeps it in or     *)
(* drops it from the application's map, under the mutex.  The state is        *)
(* kConnected or kDisconnecting here.                                         *)
HandleRead(l) ==
    /\ Reading(l)
    /\ Handled(l, "in")
    /\ rcvq # <<>>
    /\ LET n == Min({Len(rcvq), ReadLimit(conn.inputBuffer)})
           b == ReadFd(conn.inputBuffer, SubSeq(rcvq, 1, n))
           k == [conn EXCEPT !.inputBuffer = RetrieveAll(b)]
       IN  /\ rcvq' = SubSeq(rcvq, n + 1, Len(rcvq))
           /\ received' = received \o Peek(b)
           /\ \/ /\ conn' = k
                 /\ entry' \in (IF app.pc = "idle" THEN BOOLEAN ELSE {entry})
                 /\ UNCHANGED <<pending, wakefd, unsent>>
              \/ /\ "send" \in AppCalls
                 /\ \E m \in unsent : /\ k.state = "kConnected"
                                      /\ conn' \in SendInLoop(k, Bytes(m))
                                      /\ unsent' = unsent \ {m}
                 /\ UNCHANGED <<pending, wakefd, entry>>
              \/ /\ "shutdown" \in AppCalls
                 /\ conn' = Shutdown(k)
                 /\ UNCHANGED <<pending, wakefd, entry, unsent>>
              \/ /\ "forceClose" \in AppCalls
                 /\ conn' = [k EXCEPT !.state = "kDisconnecting"]
                 /\ QueueInLoop(l, l, Functor("forceCloseInLoop"))
                 /\ UNCHANGED <<entry, unsent>>
    /\ UNCHANGED <<at, batch, waking, pool, io, connections, closing,
                   peer, sockerr, peer_sent, app>>

(* handleRead, n = 0: handleClose up to the callbacks. *)
HandleReadEnd(l) ==
    /\ Reading(l)
    /\ Handled(l, "in")
    /\ rcvq = <<>> /\ ~sockerr
    /\ conn' = Closed(conn)
    /\ closing' = TRUE
    /\ UNCHANGED <<at, pending, batch, wakefd, waking, pool, io, connections, peerVars, appVars>>

(* handleRead, n < 0: the reset came after the poll; handleError. *)
HandleReadError(l) ==
    /\ Reading(l)
    /\ Handled(l, "in")
    /\ rcvq = <<>> /\ sockerr
    /\ sockerr' = FALSE
    /\ UNCHANGED <<at, pending, batch, wakefd, waking, connVars, peer, rcvq, peer_sent, appVars>>

HandleWrite(l) ==
    /\ HandlingConn(l, "out")
    /\ "in" \notin active[l]
    /\ Handled(l, "out")
    /\ conn' \in WriteResults(conn)
    /\ UNCHANGED <<at, pending, batch, wakefd, waking, pool, io, connections, closing,
                   peerVars, appVars>>

(* Faulty variant: the callback does not take the application's mutex. *)
CloseWithoutLock(l) ==
    /\ closing /\ l = io /\ waking[l] = NoLoop
    /\ closing' = FALSE
    /\ entry' = FALSE
    /\ IF l = BaseLoop
       THEN /\ connections' = FALSE
            /\ QueueInLoop(l, l, Functor("connectDestroyed"))
       ELSE /\ QueueInLoop(l, BaseLoop, Functor("removeConnectionInLoop"))
            /\ UNCHANGED connections
    /\ UNCHANGED <<at, active, batch, pool, io, conn, peerVars, app, unsent, received>>

(* The rest of handleClose: the connection callback drops the application's   *)
(* entry under its mutex (and calls shutdown(), which does nothing on a       *)
(* disconnected connection), the close callback is removeConnection.  In the  *)
(* base loop that runs at once.                                              *)
CloseCallbacks(l) ==
    /\ closing /\ l = io /\ waking[l] = NoLoop
    /\ app.pc = "idle"
    /\ closing' = FALSE
    /\ entry' = FALSE
    /\ IF l = BaseLoop
       THEN /\ connections' = FALSE
            /\ QueueInLoop(l, l, Functor("connectDestroyed"))
       ELSE /\ QueueInLoop(l, BaseLoop, Functor("removeConnectionInLoop"))
            /\ UNCHANGED connections
    /\ UNCHANGED <<at, active, batch, pool, io, conn, peerVars, app, unsent, received>>

-----------------------------------------------------------------------------
(* Functors *)

RunSendInLoop(l) ==
    /\ Running(l, "sendInLoop")
    /\ Ran(l)
    /\ conn' \in SendInLoop(conn, Bytes(Head(batch[l]).msg))
    /\ UNCHANGED <<at, active, pending, wakefd, waking, pool, io, connections, closing,
                   peerVars, appVars>>

ForceCloseInLoop(l) ==
    /\ Running(l, "forceCloseInLoop")
    /\ Ran(l)
    /\ IF conn.state \in {"kConnected", "kDisconnecting"}
       THEN conn' = Closed(conn) /\ closing' = TRUE
       ELSE UNCHANGED <<conn, closing>>
    /\ UNCHANGED <<at, active, pending, wakefd, waking, pool, io, connections, peerVars, appVars>>

(* Faulty variant: the connection is left in the server's map. *)
RemoveKeepsEntry(l) ==
    /\ Running(l, "removeConnectionInLoop")
    /\ Ran(l)
    /\ QueueInLoop(l, io, Functor("connectDestroyed"))
    /\ UNCHANGED <<at, active, connVars, peerVars, appVars>>

RemoveConnectionInLoop(l) ==
    /\ Running(l, "removeConnectionInLoop")
    /\ Ran(l)
    /\ connections' = FALSE
    /\ QueueInLoop(l, io, Functor("connectDestroyed"))
    /\ UNCHANGED <<at, active, pool, io, conn, closing, peerVars, appVars>>

(* The state is kDisconnected here: handleClose has run. *)
ConnectDestroyed(l) ==
    /\ Running(l, "connectDestroyed")
    /\ Ran(l)
    /\ conn' = RemoveChannel(conn)
    /\ UNCHANGED <<at, active, pending, wakefd, waking, pool, io, connections, closing,
                   peerVars, appVars>>

-----------------------------------------------------------------------------
(* The observer thread: send() holds the application's mutex throughout. *)

ObserverSend(m) ==
    /\ app.pc = "idle" /\ m \in unsent
    /\ entry /\ conn.state = "kConnected"
    /\ app' = [pc |-> "push", msg |-> m]
    /\ unsent' = unsent \ {m}
    /\ UNCHANGED <<loopVars, connVars, peerVars, entry, received>>

ObserverQueue ==
    /\ app.pc = "push"
    /\ QueueInLoop(Observer, io, [op |-> "sendInLoop", msg |-> app.msg])
    /\ app' = [app EXCEPT !.pc = "wake"]
    /\ UNCHANGED <<at, active, batch, connVars, peerVars, entry, unsent, received>>

ObserverWake ==
    /\ app.pc = "wake"
    /\ Wakeup(Observer)
    /\ app' = Idle
    /\ UNCHANGED <<connVars, peerVars, entry, unsent, received>>

-----------------------------------------------------------------------------
(* The peer *)

PeerConnect ==
    /\ peer = "none"
    /\ peer' = "arrived"
    /\ UNCHANGED <<loopVars, connVars, rcvq, sockerr, peer_sent, appVars>>

PeerSend ==
    /\ peer = "open" /\ peer_sent < MaxIn
    /\ peer_sent' = peer_sent + 1
    /\ rcvq' = Append(rcvq, peer_sent + 1)
    /\ UNCHANGED <<loopVars, connVars, peer, sockerr, appVars>>

PeerClose ==
    /\ peer = "open"
    /\ peer' = "fin"
    /\ UNCHANGED <<loopVars, connVars, rcvq, sockerr, peer_sent, appVars>>

(* A reset discards what was not read. *)
PeerReset ==
    /\ peer \in {"open", "fin"}
    /\ peer' = "rst" /\ sockerr' = TRUE /\ rcvq' = <<>>
    /\ UNCHANGED <<loopVars, connVars, peer_sent, appVars>>

-----------------------------------------------------------------------------
LoopOnly(A) == A /\ UNCHANGED <<connVars, peerVars, appVars>>

LoopStep(l) ==
    \/ CloseCallbacks(l)
    \/ /\ ~(closing /\ l = io)
       /\ \/ PollLoop(l)
          \/ LoopOnly(Wakeup(l))
          \/ LoopOnly(HandleWakeup(l))
          \/ LoopOnly(DoPendingFunctors(l))
          \/ LoopOnly(EndFunctors(l))
          \/ l = BaseLoop /\ HandleAccept
          \/ HandleError(l)
          \/ HandleRead(l)
          \/ HandleReadEnd(l)
          \/ HandleReadError(l)
          \/ HandleWrite(l)
          \/ ConnectEstablished(l)
          \/ RunSendInLoop(l)
          \/ ForceCloseInLoop(l)
          \/ RemoveConnectionInLoop(l)
          \/ ConnectDestroyed(l)

ObserverStep ==
    \/ \E m \in Msgs : ObserverSend(m)
    \/ ObserverQueue
    \/ ObserverWake

PeerStep == PeerConnect \/ PeerSend \/ PeerClose \/ PeerReset

Next ==
    \/ \E l \in Loops : LoopStep(l)
    \/ ObserverStep
    \/ PeerStep

Spec == Init /\ [][Next]_vars

(* Threads run; a call of send() that was begun is finished.  Nothing is      *)
(* assumed of the peer, nor of how soon it makes room.                        *)
Fairness ==
    /\ \A l \in Loops : WF_vars(LoopStep(l))
    /\ WF_vars(ObserverQueue \/ ObserverWake)

FairSpec == Spec /\ Fairness

-----------------------------------------------------------------------------
(* Functors queued or taken, in whichever loop. *)
Queued == UNION {Range(pending[l]) \cup Range(batch[l]) : l \in Loops}

(* Something keeps the connection alive: the server's map, the application's  *)
(* map, handleClose's guardThis, or a functor that is bound to a shared_ptr.  *)
(* send() and shutdown() bind a raw `this`; shutdown() is only called in the  *)
(* loop and runs at once.                                                     *)
Refs ==
    connections \/ entry \/ closing \/ \E f \in Queued : f.op # "sendInLoop"

(* What a connection promises of the bytes sent through it (module            *)
(* ByteStream), whoever sends and however little the socket takes at a time:  *)
(* sendInLoop, handleWrite, shutdownInLoop and the buffer's moving of bytes.  *)
Out == INSTANCE ByteStream WITH
    taken <- conn.wire \o Peek(conn.outputBuffer),
    passed <- conn.wire,
    fin <- conn.fin,
    closed <- conn.state = "kDisconnected",
    Messages <- {Bytes(m) : m \in Msgs}

OutStream == Out!Spec

(* The message callback gets what the peer sent, in order and without holes:  *)
(* readFd's two-part read puts the bytes together again.  Only a reset        *)
(* discards bytes, those not read yet.                                        *)
InputInOrder ==
    /\ \A i \in DOMAIN received : received[i] = i
    /\ peer # "rst" => received \o rcvq = [i \in 1..peer_sent |-> i]

(* A shutdown() that had to wait for the output buffer is not forgotten: a    *)
(* connection that is being disconnected has sent its FIN, still waits for    *)
(* the socket to take the rest, or is about to be closed by force.            *)
HalfCloseNotForgotten ==
    conn.state = "kDisconnecting" =>
        \/ conn.fin \/ "out" \in conn.events
        \/ \E f \in Queued : f.op = "forceCloseInLoop"

(* send() from another thread queues a raw `this` (TcpConnection.cc:104,      *)
(* marked FIXME): whenever such a functor is queued, something keeps the      *)
(* connection alive, so it never runs on a destroyed one.                     *)
PointersLive == (\E f \in Queued : f.op = "sendInLoop") => Refs

(* The asserts of connectEstablished, removeConnectionInLoop (n == 1),        *)
(* Channel::remove, handleClose and the destructors of TcpConnection and      *)
(* Channel: whatever closes first, each functor finds the connection as it    *)
(* asserts, and the last reference goes after it left the poller.             *)
AssertsHold ==
    /\ \A f \in Queued :
          /\ f.op = "connectEstablished" => conn.state = "kConnecting"
          /\ f.op = "removeConnectionInLoop" => connections
          /\ f.op = "connectDestroyed" => conn.events = {} /\ conn.index = "kDeleted"
    /\ io # NoLoop /\ "in" \in active[io] => conn.state \in {"kConnected", "kDisconnecting"}
    /\ io # NoLoop /\ ~Refs => conn.state = "kDisconnected" /\ conn.index = "kNew"

(* A connection whose peer has gone is destroyed: no order of events, sends   *)
(* and functors of the two loops leaks it, provided that the application      *)
(* drops its entry when the connection callback tells it of the close.        *)
ConnectionFreed == (io # NoLoop /\ peer \in {"fin", "rst"}) ~> (io # NoLoop /\ ~Refs)
=============================================================================
