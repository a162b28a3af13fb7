-------------------------- MODULE TcpStreamProofs --------------------------
(***************************************************************************)
(* Proofs about the bytes of a muduo connection, for every buffer size,    *)
(* every set of messages and every way the kernel splits reads and writes: *)
(* the message callback gets what the peer sent, in order and without      *)
(* holes, and what is sent implements the byte stream of ByteStream.       *)
(***************************************************************************)
EXTENDS TcpConnectionProofs

(* The callback takes everything, so nothing waits in the input buffer; and   *)
(* nothing arrives after a reset.                                             *)
InputInv ==
    /\ Peek(conn.inputBuffer) = <<>>
    /\ peer = "rst" => rcvq = <<>>
    /\ InputInOrder

(* The channel waits for the socket exactly while bytes wait, and none wait   *)
(* before the connection is up or after its FIN.                              *)
Waits(k) ==
    /\ k.state \in {"kConnected", "kDisconnecting"} =>
          ("out" \in k.events <=> ReadableBytes(k.outputBuffer) # 0)
    /\ k.state \in {"none", "kConnecting"} => ReadableBytes(k.outputBuffer) = 0
    /\ k.fin => ReadableBytes(k.outputBuffer) = 0

OutputInv == Waits(conn)

-----------------------------------------------------------------------------
(* The numbers of the first n bytes *)
FirstBytes(n) == [i \in 1..n |-> i]

LEMMA FirstBytesOf ==
  ASSUME NEW n \in Nat
  PROVE  FirstBytes(n) \in Seq(InBytes) /\ Len(FirstBytes(n)) = n
<1>1. FirstBytes(n) \in [1..n -> InBytes]
  BY DEF FirstBytes, InBytes
<1>2. FirstBytes(n) \in Seq(InBytes)
  BY <1>1, SeqDef
<1>3. DOMAIN FirstBytes(n) = 1..n /\ DOMAIN FirstBytes(n) = 1..Len(FirstBytes(n))
      /\ Len(FirstBytes(n)) \in Nat
  BY <1>2, LenProperties DEF FirstBytes
<1> QED BY <1>2, <1>3

LEMMA PrefixInOrder ==
  ASSUME NEW r \in Seq(InBytes), NEW q \in Seq(InBytes), NEW n \in Nat, r \o q = FirstBytes(n)
  PROVE  \A i \in DOMAIN r : r[i] = i
<1>1. /\ Len(r \o q) = Len(r) + Len(q)
      /\ \A i \in 1..(Len(r) + Len(q)) : (r \o q)[i] = IF i <= Len(r) THEN r[i] ELSE q[i - Len(r)]
  BY ConcatProperties
<1>2. Len(r) \in Nat /\ Len(q) \in Nat /\ DOMAIN r = 1..Len(r)
  BY LenProperties
<1>3. Len(FirstBytes(n)) = n
  BY FirstBytesOf
<1>4. Len(r) + Len(q) = n
  BY <1>1, <1>3
<1> SUFFICES ASSUME NEW i \in 1..Len(r) PROVE r[i] = i
  BY <1>2
<1>5. i \in 1..(Len(r) + Len(q)) /\ i <= Len(r)
  BY <1>2
<1>6. (r \o q)[i] = r[i]
  BY <1>1, <1>5
<1>7. FirstBytes(n)[i] = i
  BY <1>4, <1>5 DEF FirstBytes
<1> QED BY <1>6, <1>7

LEMMA OneMoreByte ==
  ASSUME NEW r \in Seq(InBytes), NEW q \in Seq(InBytes), NEW n \in Nat, r \o q = FirstBytes(n)
  PROVE  r \o Append(q, n + 1) = FirstBytes(n + 1)
<1>1. n + 1 \in InBytes /\ n + 1 \in Nat
  BY DEF InBytes
<1>2. PICK u : u = FirstBytes(n)
  OBVIOUS
<1>3. u \in Seq(InBytes) /\ Len(u) = n /\ \A i \in 1..n : u[i] = i
  BY <1>2, FirstBytesOf DEF FirstBytes
<1>4. r \o Append(q, n + 1) = Append(u, n + 1)
  <2>1. PICK e : e = n + 1
    OBVIOUS
  <2>2. e \in InBytes
    BY <1>1, <2>1
  <2>x. PICK x : x = <<e>>
    OBVIOUS
  <2>3. Append(q, e) = q \o x /\ Append(u, e) = u \o x /\ x \in Seq(InBytes)
    BY <1>3, <2>2, <2>x, AppendIsConcat
  <2>4. (r \o q) \o x = r \o (q \o x)
    BY ONLY r \in Seq(InBytes), q \in Seq(InBytes), <2>3, ConcatAssociative
  <2>5. r \o q = u
    BY <1>2
  <2> QED BY <2>1, <2>3, <2>4, <2>5
<1>5. PICK v : v = FirstBytes(n + 1)
  OBVIOUS
<1>6. v \in Seq(InBytes) /\ Len(v) = n + 1 /\ \A i \in 1..(n + 1) : v[i] = i
  BY <1>1, <1>5, FirstBytesOf DEF FirstBytes
<1>7. PICK w : w = Append(u, n + 1)
  OBVIOUS
<1>8. /\ w \in Seq(InBytes) /\ Len(w) = n + 1
      /\ \A i \in 1..n : w[i] = u[i]
      /\ w[n + 1] = n + 1
  BY <1>1, <1>3, <1>7, AppendProperties
<1>9. \A i \in 1..(n + 1) : w[i] = v[i]
  <2>1. \A i \in 1..(n + 1) : i \in 1..n \/ i = n + 1
    OBVIOUS
  <2> QED BY <1>3, <1>6, <1>8, <2>1
<1>10. w = v
  BY <1>6, <1>8, <1>9, SeqEqual
<1> QED BY <1>4, <1>5, <1>7, <1>10

LEMMA InOrderIs ==
  InputInOrder <=> /\ \A i \in DOMAIN received : received[i] = i
                   /\ peer # "rst" => received \o rcvq = FirstBytes(peer_sent)
  BY DEF InputInOrder, FirstBytes

(* Every step but a read leaves the input buffer alone. *)
LEMMA InputBufferKept ==
  ASSUME TypeInv, LifeInv, [Next]_vars, \A l \in Loops : ~HandleRead(l)
  PROVE  conn'.inputBuffer = conn.inputBuffer
<1>1. PICK k : k = conn
  OBVIOUS
<1>2. PICK j : j = conn'
  OBVIOUS
<1>3. k \in Conns
  BY <1>1 DEF TypeInv
<1>4. ASSUME NEW l \in Loops, LoopStep(l)
      PROVE  \/ j = k \/ j = [k EXCEPT !.state = "kConnecting"] \/ j = [k EXCEPT !.index = "kNew"]
             \/ j = EnableReading([k EXCEPT !.state = "kConnected"])
             \/ j = Closed(k) \/ j \in WriteResults(k)
             \/ \E f \in At(l) : f.op = "sendInLoop" /\ j \in SendInLoop(k, Bytes(f.msg))
  <2>1. CASE RunSendInLoop(l)
    <3>1. Head(batch[l]) \in At(l) /\ Head(batch[l]).op = "sendInLoop"
      BY <2>1, RunOf DEF RunSendInLoop
    <3>2. j \in SendInLoop(k, Bytes(Head(batch[l]).msg))
      BY <1>1, <1>2, <2>1 DEF RunSendInLoop
    <3> QED BY <3>1, <3>2
  <2>2. CASE CloseCallbacks(l) \/ RemoveConnectionInLoop(l) \/ HandleError(l) \/ HandleReadError(l)
    BY <1>1, <1>2, <2>2 DEF CloseCallbacks, RemoveConnectionInLoop, HandleError, HandleReadError, connVars
  <2>3. CASE \/ PollLoop(l) \/ LoopOnly(Wakeup(l)) \/ LoopOnly(HandleWakeup(l))
             \/ LoopOnly(DoPendingFunctors(l)) \/ LoopOnly(EndFunctors(l))
    BY <1>1, <1>2, <2>3 DEF PollLoop, LoopOnly, connVars
  <2>4. CASE HandleAccept
    BY <1>1, <1>2, <2>4 DEF HandleAccept
  <2>5. CASE \/ HandleReadEnd(l) \/ HandleWrite(l) \/ ConnectEstablished(l) \/ ForceCloseInLoop(l)
             \/ ConnectDestroyed(l)
    BY <1>1, <1>2, <2>5 DEF HandleReadEnd, HandleWrite, ConnectEstablished, ForceCloseInLoop,
                            ConnectDestroyed, RemoveChannel
  <2> QED BY <1>4, <2>1, <2>2, <2>3, <2>4, <2>5 DEF LoopStep
<1>5. CASE j = k
  BY <1>1, <1>2, <1>5
<1>6. CASE j = [k EXCEPT !.state = "kConnecting"] \/ j = [k EXCEPT !.index = "kNew"]
  BY <1>1, <1>2, <1>3, <1>6 DEF Conns
<1>7. CASE j = EnableReading([k EXCEPT !.state = "kConnected"])
  BY <1>1, <1>2, <1>3, <1>7, EnableReadingOf
<1>8. CASE j = Closed(k)
  BY <1>1, <1>2, <1>3, <1>8, ClosedOf
<1>9. CASE j \in WriteResults(k)
  <2>1. j.inputBuffer = k.inputBuffer
    BY <1>3, <1>9, WriteResultsOf
  <2> QED BY <1>1, <1>2, <2>1
<1>10. ASSUME NEW l \in Loops, NEW f \in At(l), f.op = "sendInLoop", j \in SendInLoop(k, Bytes(f.msg))
       PROVE  conn'.inputBuffer = conn.inputBuffer
  <2>1. PICK data : data = Bytes(f.msg)
    OBVIOUS
  <2>2. data \in Seq(OutBytes)
    BY <1>10, <2>1, BytesOf DEF LifeInv, FunctorsOK, FunctorOK
  <2>3. j.inputBuffer = k.inputBuffer
    BY <1>3, <1>10, <2>1, <2>2, SendInLoopOf
  <2> QED BY <1>1, <1>2, <2>3
<1>11. CASE ObserverStep \/ PeerStep \/ UNCHANGED vars
  BY <1>11 DEF ObserverStep, ObserverSend, ObserverQueue, ObserverWake, PeerStep, PeerConnect, PeerSend,
               PeerClose, PeerReset, vars, connVars
<1> QED BY <1>4, <1>5, <1>6, <1>7, <1>8, <1>9, <1>10, <1>11 DEF Next

(* One read takes the next bytes of q, and the callback all that waited. *)
ReadGives(c, q, n, b, k) ==
    /\ n \in 0..Len(q)
    /\ SubSeq(q, 1, n) \in Seq(InBytes) /\ SubSeq(q, n + 1, Len(q)) \in Seq(InBytes)
    /\ Peek(b) = Peek(c.inputBuffer) \o SubSeq(q, 1, n)
    /\ k \in Conns /\ Peek(k.inputBuffer) = <<>>

LEMMA OneReadGives ==
  ASSUME NEW c \in Conns, NEW q \in Seq(InBytes), NEW n, NEW b, NEW k, OneRead(c, q, n, b, k)
  PROVE  ReadGives(c, q, n, b, k)
  BY OneReadOf, SMTT(30) DEF ReadGives

LEMMA InputStep ==
  ASSUME TypeInv, LifeInv, InputInv, [Next]_vars
  PROVE  InputInv'
<1>i. /\ \A i \in DOMAIN received : received[i] = i
      /\ peer # "rst" => received \o rcvq = FirstBytes(peer_sent)
  BY InOrderIs DEF InputInv
<1>g. SUFFICES /\ Peek(conn'.inputBuffer) = <<>>
               /\ peer' = "rst" => rcvq' = <<>>
               /\ \A i \in DOMAIN received' : received'[i] = i
               /\ peer' # "rst" => received' \o rcvq' = FirstBytes(peer_sent')
  BY DEF InputInv, InputInOrder, FirstBytes
<1> DEFINE Goal == /\ Peek(conn'.inputBuffer) = <<>>
                   /\ peer' = "rst" => rcvq' = <<>>
                   /\ \A i \in DOMAIN received' : received'[i] = i
                   /\ peer' # "rst" => received' \o rcvq' = FirstBytes(peer_sent')
<1>t. received \in Seq(InBytes) /\ rcvq \in Seq(InBytes) /\ peer_sent \in Nat
  BY DEF TypeInv
<1>1. ASSUME NEW l \in Loops, HandleRead(l) PROVE Goal
  <2>1. PICK n, b, k : /\ OneRead(conn, rcvq, n, b, k)
                       /\ rcvq' = SubSeq(rcvq, n + 1, Len(rcvq))
                       /\ received' = received \o Peek(b)
                       /\ Callback(l, k)
    BY <1>1, ReadStep
  <2>2. rcvq # <<>> /\ peer' = peer /\ peer_sent' = peer_sent
    BY <1>1, ReadStep
  <2>3. peer # "rst"
    BY <2>2 DEF InputInv
  <2>4. PICK c : c = conn
    OBVIOUS
  <2>5. PICK q : q = rcvq
    OBVIOUS
  <2>6. PICK r : r = received
    OBVIOUS
  <2>7. c \in Conns /\ q \in Seq(InBytes) /\ r \in Seq(InBytes) /\ OneRead(c, q, n, b, k)
    BY <2>1, <2>4, <2>5, <2>6 DEF TypeInv
  <2>8. PICK h : h = SubSeq(q, 1, n)
    OBVIOUS
  <2>9. PICK t : t = SubSeq(q, n + 1, Len(q))
    OBVIOUS
  <2>10. /\ n \in 0..Len(q) /\ h \in Seq(InBytes) /\ t \in Seq(InBytes)
         /\ Peek(b) = Peek(c.inputBuffer) \o h
         /\ k \in Conns /\ Peek(k.inputBuffer) = <<>>
    <3>1. ReadGives(c, q, n, b, k)
      BY <2>7, OneReadGives
    <3> QED BY <2>8, <2>9, <3>1 DEF ReadGives
  <2>11. Peek(b) = h
    <3>1. Peek(c.inputBuffer) = <<>>
      BY <2>4 DEF InputInv
    <3> QED BY <2>10, <3>1, ConcatEmptySeq
  <2>12. h \o t = q
    BY <2>7, <2>8, <2>9, <2>10, JoinSubSeq
  <2>13. PICK s : s = r \o h
    OBVIOUS
  <2>14. s \in Seq(InBytes) /\ s \o t = r \o q
    <3>1. (r \o h) \o t = r \o (h \o t)
      BY <2>7, <2>10, ConcatAssociative
    <3>2. s \in Seq(InBytes)
      BY <2>7, <2>10, <2>13, ConcatProperties
    <3> QED BY <2>12, <2>13, <3>1, <3>2
  <2>15. received' = s /\ rcvq' = t
    BY <2>1, <2>5, <2>6, <2>9, <2>11, <2>13
  <2>16. PICK p : p = peer_sent
    OBVIOUS
  <2>17. p \in Nat /\ s \o t = FirstBytes(p)
    BY <1>i, <1>t, <2>3, <2>5, <2>6, <2>14, <2>16
  <2>18. \A i \in DOMAIN s : s[i] = i
    BY <2>10, <2>14, <2>17, PrefixInOrder
  <2>19. Peek(conn'.inputBuffer) = <<>>
    <3>1. CASE conn' = k
      BY <2>10, <3>1
    <3>2. ASSUME NEW m \in unsent, conn' \in SendInLoop(k, Bytes(m))
          PROVE  Peek(conn'.inputBuffer) = <<>>
      <4>1. PICK data : data = Bytes(m)
        OBVIOUS
      <4>2. data \in Seq(OutBytes)
        BY <4>1, BytesOf DEF TypeInv
      <4>3. PICK j : j = conn'
        OBVIOUS
      <4>4. j \in SendInLoop(k, data)
        BY <3>2, <4>1, <4>3
      <4>5. j.inputBuffer = k.inputBuffer
        BY <2>10, <4>2, <4>4, SendInLoopOf
      <4> QED BY <2>10, <4>3, <4>5
    <3>3. CASE conn' = Shutdown(k)
      <4>1. PICK j : j = conn'
        OBVIOUS
      <4>2. j.inputBuffer = k.inputBuffer
        BY <2>10, <3>3, <4>1, ShutdownOf
      <4> QED BY <2>10, <4>1, <4>2
    <3>4. CASE conn' = [k EXCEPT !.state = "kDisconnecting"]
      BY <2>10, <3>4 DEF Conns
    <3> QED BY <2>1, <3>1, <3>2, <3>3, <3>4 DEF Callback
  <2> QED BY <2>2, <2>3, <2>15, <2>16, <2>17, <2>18, <2>19
<1>2. ASSUME \A l \in Loops : ~HandleRead(l), UNCHANGED <<received, rcvq, peer_sent>>,
             peer' = peer \/ (peer # "rst" /\ peer' # "rst")
      PROVE  Goal
  <2>1. conn'.inputBuffer = conn.inputBuffer
    BY <1>2, InputBufferKept
  <2> QED BY <1>i, <1>2, <2>1 DEF InputInv
<1>3. ASSUME PeerSend PROVE Goal
  <2>1. peer = "open" /\ peer' = peer /\ peer_sent' = peer_sent + 1
        /\ rcvq' = Append(rcvq, peer_sent + 1) /\ received' = received /\ conn' = conn
    BY <1>3 DEF PeerSend, connVars, appVars
  <2>2. PICK q : q = rcvq
    OBVIOUS
  <2>3. PICK r : r = received
    OBVIOUS
  <2>4. PICK p : p = peer_sent
    OBVIOUS
  <2>5. r \in Seq(InBytes) /\ q \in Seq(InBytes) /\ p \in Nat /\ r \o q = FirstBytes(p)
    BY <1>i, <1>t, <2>1, <2>2, <2>3, <2>4
  <2>6. r \o Append(q, p + 1) = FirstBytes(p + 1)
    BY <2>5, OneMoreByte
  <2> QED BY <1>i, <2>1, <2>2, <2>3, <2>4, <2>6 DEF InputInv
<1>4. ASSUME PeerReset PROVE Goal
  BY <1>4, <1>i DEF PeerReset, connVars, appVars, InputInv
<1>5. CASE PeerConnect \/ PeerClose
  <2>1. UNCHANGED <<received, rcvq, peer_sent, conn>> /\ peer # "rst" /\ peer' # "rst"
    BY <1>5 DEF PeerConnect, PeerClose, connVars, appVars
  <2> QED BY <1>i, <2>1 DEF InputInv
<1>6. CASE ObserverStep \/ UNCHANGED vars
  <2>1. UNCHANGED <<received, rcvq, peer_sent, peer, conn>>
    BY <1>6 DEF ObserverStep, ObserverSend, ObserverQueue, ObserverWake, vars, connVars, peerVars, appVars
  <2> QED BY <1>i, <2>1 DEF InputInv
<1>7. ASSUME NEW l \in Loops, LoopStep(l), \A k \in Loops : ~HandleRead(k) PROVE Goal
  <2>1. UNCHANGED <<received, rcvq, peer_sent>> /\ (peer' = peer \/ (peer # "rst" /\ peer' # "rst"))
    <3>1. CASE HandleAccept
      <4>1. "accept" \in active[BaseLoop] /\ peer' = "open" /\ UNCHANGED <<received, rcvq, peer_sent>>
        BY <3>1 DEF HandleAccept, AcceptPeer, Handling, appVars
      <4>2. peer = "arrived"
        BY <4>1, ConnectionAssumption DEF LifeInv, Reported
      <4> QED BY <4>1, <4>2
    <3>2. CASE CloseCallbacks(l) \/ RemoveConnectionInLoop(l) \/ HandleError(l) \/ HandleReadError(l)
      BY <3>2 DEF CloseCallbacks, RemoveConnectionInLoop, HandleError, HandleReadError, peerVars, appVars
    <3>3. CASE \/ PollLoop(l) \/ LoopOnly(Wakeup(l)) \/ LoopOnly(HandleWakeup(l))
               \/ LoopOnly(DoPendingFunctors(l)) \/ LoopOnly(EndFunctors(l))
      BY <3>3 DEF PollLoop, LoopOnly, peerVars, appVars
    <3>4. CASE \/ HandleReadEnd(l) \/ HandleWrite(l) \/ ConnectEstablished(l) \/ ForceCloseInLoop(l)
               \/ ConnectDestroyed(l) \/ RunSendInLoop(l)
      BY <3>4 DEF HandleReadEnd, HandleWrite, ConnectEstablished, ForceCloseInLoop,
                  ConnectDestroyed, RunSendInLoop, peerVars, appVars
    <3> QED BY <1>7, <3>1, <3>2, <3>3, <3>4 DEF LoopStep
  <2> QED BY <1>2, <1>7, <2>1
<1>8. CASE PeerStep
  BY <1>3, <1>4, <1>5, <1>8 DEF PeerStep
<1> QED BY <1>1, <1>6, <1>7, <1>8 DEF Next

(* However the kernel cuts the input into reads and whichever part of a read  *)
(* goes through readFd's second buffer, the message callback gets the peer's  *)
(* bytes in order, none twice and none missing.                               *)
THEOREM InputAlwaysInOrder == Spec => []InputInOrder
<1>1. Init => InputInv
  <2> SUFFICES ASSUME Init PROVE InputInv
    OBVIOUS
  <2>1. /\ conn.inputBuffer = NewBuffer /\ peer = "none" /\ rcvq = <<>> /\ received = <<>>
        /\ peer_sent = 0
    BY DEF Init
  <2>2. Peek(NewBuffer) = <<>>
    BY NewBufferEmpty DEF InBytes
  <2>3. received \o rcvq = [i \in 1..peer_sent |-> i]
    <3>1. <<>> \o <<>> = <<>>
      BY EmptySeq, ConcatEmptySeq
    <3>2. FirstBytes(0) = <<>>
      BY FirstBytesOf, EmptySeq
    <3> QED BY <2>1, <3>1, <3>2 DEF FirstBytes
  <2> QED BY <2>1, <2>2, <2>3 DEF InputInv, InputInOrder
<1>2. (TypeInv /\ LifeInv) /\ InputInv /\ [Next]_vars => InputInv'
  BY InputStep
<1>3. InputInv => InputInOrder
  BY DEF InputInv
<1> QED BY <1>1, <1>2, <1>3, Invariant, PTL DEF Spec

-----------------------------------------------------------------------------
(* The bytes sent.  A step from k to j passes the bytes h on, and takes over  *)
(* the bytes d behind the ones that wait.                                     *)

Passes(k, j, h, d) ==
    /\ h \in Seq(OutBytes)
    /\ j.wire = k.wire \o h
    /\ h \o Peek(j.outputBuffer) = Peek(k.outputBuffer) \o d

Transfers(k, j) ==
    /\ ~k.fin /\ k.state # "kDisconnected" /\ j.state # "kDisconnected"
    /\ \E h : Passes(k, j, h, <<>>) \/ \E m \in Msgs : Passes(k, j, h, Bytes(m))
    /\ j.fin => ReadableBytes(j.outputBuffer) = 0

KeepsBytes(k, j) ==
    j.wire = k.wire /\ Peek(j.outputBuffer) = Peek(k.outputBuffer) /\ j.fin = k.fin

Moves(k, j) ==
    \/ KeepsBytes(k, j) /\ (j.state = "kDisconnected" <=> k.state = "kDisconnected")
    \/ KeepsBytes(k, j) /\ j.state = "kDisconnected"
    \/ Transfers(k, j)

LEMMA OutputOf ==
  ASSUME NEW k \in Conns
  PROVE  /\ k.wire \in Seq(OutBytes) /\ k.outputBuffer \in Buffers(OutBytes)
         /\ Peek(k.outputBuffer) \in Seq(OutBytes)
         /\ Len(Peek(k.outputBuffer)) = ReadableBytes(k.outputBuffer)
         /\ ReadableBytes(k.outputBuffer) \in Nat
         /\ ReadableBytes(k.outputBuffer) = 0 => Peek(k.outputBuffer) = <<>>
<1>1. k.wire \in Seq(OutBytes) /\ k.outputBuffer \in Buffers(OutBytes)
  BY DEF Conns
<1>2. PICK b : b = k.outputBuffer
  OBVIOUS
<1>3. b \in Buffers(OutBytes)
  BY <1>1, <1>2
<1>4. /\ Peek(b) \in Seq(OutBytes) /\ Len(Peek(b)) = ReadableBytes(b) /\ ReadableBytes(b) \in Nat
  BY <1>3, PeekOf
<1>5. ReadableBytes(b) = 0 => Peek(b) = <<>>
  BY <1>4, EmptySeq
<1> QED BY <1>1, <1>2, <1>4, <1>5

(* append() to the output buffer of data that is not empty. *)
LEMMA OutputAppended ==
  ASSUME NEW k \in Conns, NEW j \in Conns, NEW d \in Seq(OutBytes), d # <<>>,
         j.outputBuffer = AppendBytes(k.outputBuffer, d)
  PROVE  /\ Peek(j.outputBuffer) = Peek(k.outputBuffer) \o d
         /\ ReadableBytes(j.outputBuffer) # 0
<1>1. PICK b : b = k.outputBuffer
  OBVIOUS
<1>2. b \in Buffers(OutBytes) /\ Peek(b) \in Seq(OutBytes) /\ ZeroByte \in OutBytes
  BY <1>1, OutputOf DEF OutBytes
<1>3. Peek(AppendBytes(b, d)) = Peek(b) \o d
  BY <1>2, AppendIsConcatenation
<1>4. Len(d) \in Nat /\ Len(d) # 0
  BY LenProperties, EmptySeq
<1>5. PICK p : p = Peek(b)
  OBVIOUS
<1>6. Len(p \o d) = Len(p) + Len(d) /\ Len(p) \in Nat
  BY <1>2, <1>5, ConcatProperties, LenProperties
<1>7. Len(Peek(j.outputBuffer)) # 0
  BY <1>1, <1>3, <1>4, <1>5, <1>6
<1> QED BY <1>1, <1>3, <1>7, OutputOf

LEMMA SendMoves ==
  ASSUME NEW k \in Conns, Waits(k), k.state \in {"kConnected", "kDisconnecting", "kDisconnected"},
         NEW m \in Msgs, NEW j \in SendInLoop(k, Bytes(m))
  PROVE  j \in Conns /\ Waits(j) /\ Moves(k, j)
<1>1. PICK d : d = Bytes(m)
  OBVIOUS
<1>2. d \in Seq(OutBytes) /\ Len(d) \in Nat /\ Len(d) # 0 /\ d # <<>>
  BY <1>1, BytesOf, EmptySeq
<1>3. j \in SendInLoop(k, d)
  BY <1>1
<1>4. PICK p : p = Peek(k.outputBuffer)
  OBVIOUS
<1>5. p \in Seq(OutBytes) /\ k.wire \in Seq(OutBytes) /\ <<>> \in Seq(OutBytes)
  BY <1>4, OutputOf, EmptySeq
<1>6. CASE j = k
  BY <1>6 DEF Moves, KeepsBytes
<1>7. CASE /\ k.state # "kDisconnected" /\ j = Buffered(k, d)
           /\ "out" \in k.events \/ ReadableBytes(k.outputBuffer) # 0
  <2>1. /\ j \in Conns /\ j.state = k.state /\ j.fin = k.fin /\ j.wire = k.wire
        /\ j.outputBuffer = AppendBytes(k.outputBuffer, d)
        /\ j.events = k.events \cup {"out"}
    BY <1>2, <1>7, BufferedOf
  <2>2. Peek(j.outputBuffer) = p \o d /\ ReadableBytes(j.outputBuffer) # 0
    BY <1>2, <1>4, <2>1, OutputAppended
  <2>3. ~k.fin
    BY <1>7 DEF Waits
  <2>4. PICK h : h = <<>>
    OBVIOUS
  <2>5. j.wire = k.wire \o h /\ h \o (p \o d) = p \o d
    <3>1. p \o d \in Seq(OutBytes)
      BY <1>2, <1>5, ConcatProperties
    <3>2. PICK x : x = p \o d
      OBVIOUS
    <3>3. h \o x = x /\ k.wire \o h = k.wire
      BY <1>5, <2>4, <3>1, <3>2, ConcatEmptySeq
    <3> QED BY <2>1, <3>2, <3>3
  <2>6. Passes(k, j, h, d)
    BY <1>4, <1>5, <2>2, <2>4, <2>5 DEF Passes
  <2>7. Moves(k, j)
    BY <1>1, <1>7, <2>1, <2>3, <2>6 DEF Moves, Transfers
  <2>8. Waits(j)
    BY <1>7, <2>1, <2>2, <2>3 DEF Waits
  <2> QED BY <2>1, <2>7, <2>8
<1>8. CASE /\ k.state # "kDisconnected" /\ "out" \notin k.events
           /\ ReadableBytes(k.outputBuffer) = 0 /\ ~k.fin
           /\ \E n \in 0..Len(d) : j = SentDirectly(k, d, n)
  <2>1. PICK n \in 0..Len(d) : j = SentDirectly(k, d, n)
    BY <1>8
  <2>2. Sent(k, d, n, j)
    BY <1>2, <2>1, SentDirectlyOf
  <2>3. j \in Conns /\ j.state = k.state /\ j.fin = k.fin
    BY <2>2 DEF Sent
  <2>4. p = <<>>
    BY <1>4, <1>8, OutputOf
  <2>5. p \o d = d
    BY <1>2, <2>4, ConcatEmptySeq
  <2>6. CASE /\ n = Len(d) /\ j.events = k.events
             /\ j.wire = k.wire \o d /\ j.outputBuffer = k.outputBuffer
    <3>1. d \o p = d
      BY <1>2, <2>4, ConcatEmptySeq
    <3>2. Passes(k, j, d, d)
      BY <1>2, <1>4, <2>5, <2>6, <3>1 DEF Passes
    <3>3. Moves(k, j)
      BY <1>1, <1>8, <2>3, <3>2 DEF Moves, Transfers
    <3>4. Waits(j)
      BY <1>8, <2>3, <2>6 DEF Waits
    <3> QED BY <2>3, <3>3, <3>4
  <2>7. CASE /\ n # Len(d) /\ j.events = k.events \cup {"out"}
             /\ j.wire = k.wire \o SubSeq(d, 1, n)
             /\ j.outputBuffer = AppendBytes(k.outputBuffer, SubSeq(d, n + 1, Len(d)))
    <3>1. PICK h : h = SubSeq(d, 1, n)
      OBVIOUS
    <3>2. PICK t : t = SubSeq(d, n + 1, Len(d))
      OBVIOUS
    <3>3. h \in Seq(OutBytes)
      <4>1. 0 \in Nat /\ n \in Nat /\ 0 <= n /\ n <= Len(d) /\ 0 + 1 = 1
        BY <1>2
      <4>2. SubSeq(d, 0 + 1, n) \in Seq(OutBytes)
        BY <1>2, <4>1, Between
      <4> QED BY <3>1, <4>1, <4>2
    <3>4. t \in Seq(OutBytes) /\ Len(t) = Len(d) - n
      BY <1>2, <3>2, Between
    <3>5. t # <<>>
      BY <1>2, <2>7, <3>4, EmptySeq
    <3>6. h \o t = d
      BY <1>2, <3>1, <3>2, JoinSubSeq
    <3>7. Peek(j.outputBuffer) = p \o t /\ ReadableBytes(j.outputBuffer) # 0
      BY <1>4, <2>3, <2>7, <3>2, <3>4, <3>5, OutputAppended
    <3>8. p \o t = t
      BY <2>4, <3>4, ConcatEmptySeq
    <3>9. Passes(k, j, h, d)
      BY <1>4, <2>5, <2>7, <3>1, <3>3, <3>6, <3>7, <3>8 DEF Passes
    <3>10. Moves(k, j)
      BY <1>1, <1>8, <2>3, <3>9 DEF Moves, Transfers
    <3>11. Waits(j)
      BY <1>8, <2>3, <2>7, <3>7 DEF Waits
    <3> QED BY <2>3, <3>10, <3>11
  <2> QED BY <2>2, <2>6, <2>7 DEF Sent
<1> QED BY <1>3, <1>6, <1>7, <1>8, SendCases

LEMMA WriteMoves ==
  ASSUME NEW k \in Conns, Waits(k), "out" \in k.events => k.state \in {"kConnected", "kDisconnecting"},
         NEW j \in WriteResults(k)
  PROVE  Waits(j) /\ Moves(k, j)
<1>1. CASE j = k
  BY <1>1 DEF Moves, KeepsBytes
<1>2. ASSUME NEW n \in 1..ReadableBytes(k.outputBuffer),
             /\ j \in Conns /\ j.state = k.state
             /\ "out" \in k.events /\ ~k.fin
             /\ j.wire = k.wire \o SubSeq(Peek(k.outputBuffer), 1, n)
             /\ j.outputBuffer = Retrieve(k.outputBuffer, n)
             /\ \/ ReadableBytes(j.outputBuffer) # 0 /\ j.events = k.events /\ j.fin = k.fin
                \/ ReadableBytes(j.outputBuffer) = 0 /\ j.events = k.events \ {"out"}
      PROVE  Waits(j) /\ Moves(k, j)
  <2>1. PICK b : b = k.outputBuffer
    OBVIOUS
  <2>2. b \in Buffers(OutBytes) /\ Peek(b) \in Seq(OutBytes) /\ Len(Peek(b)) = ReadableBytes(b)
        /\ ReadableBytes(b) \in Nat
    BY <2>1, OutputOf
  <2>3. n \in 0..ReadableBytes(b) /\ n \in Nat
    BY <1>2, <2>1, <2>2
  <2>4. SubSeq(Peek(b), 1, n) \o Peek(Retrieve(b, n)) = Peek(b)
    BY <2>2, <2>3, RetrieveDrops
  <2>5. PICK h : h = SubSeq(Peek(b), 1, n)
    OBVIOUS
  <2>6. h \in Seq(OutBytes)
    <3>1. PICK p : p = Peek(b)
      OBVIOUS
    <3>2. p \in Seq(OutBytes) /\ 0 \in Nat /\ 0 <= n /\ n <= Len(p) /\ 0 + 1 = 1
      BY <2>2, <2>3, <3>1
    <3>3. SubSeq(p, 0 + 1, n) \in Seq(OutBytes)
      BY <2>3, <3>2, Between
    <3> QED BY <2>5, <3>1, <3>2, <3>3
  <2>7. Peek(b) \o <<>> = Peek(b)
    BY <2>2, ConcatEmptySeq
  <2>8. Passes(k, j, h, <<>>)
    BY <1>2, <2>1, <2>4, <2>5, <2>6, <2>7 DEF Passes
  <2>9. k.state # "kDisconnected"
    BY <1>2
  <2>10. Moves(k, j)
    BY <1>2, <2>8, <2>9 DEF Moves, Transfers
  <2>11. Waits(j)
    BY <1>2 DEF Waits
  <2> QED BY <2>10, <2>11
<1> QED BY <1>1, <1>2, WriteResultsOf

LEMMA ShutdownMoves ==
  ASSUME NEW k \in Conns, Waits(k), NEW j, j = Shutdown(k)
  PROVE  Waits(j) /\ Moves(k, j)
<1>1. /\ j \in Conns /\ j.wire = k.wire /\ j.events = k.events
      /\ j.outputBuffer = k.outputBuffer
      /\ \/ j = k /\ k.state # "kConnected"
         \/ /\ k.state = "kConnected" /\ j.state = "kDisconnecting"
            /\ j.fin = IF "out" \in k.events THEN k.fin ELSE TRUE
  BY ShutdownOf
<1>2. CASE j = k
  BY <1>2 DEF Moves, KeepsBytes
<1>3. CASE /\ k.state = "kConnected" /\ j.state = "kDisconnecting"
           /\ j.fin = IF "out" \in k.events THEN k.fin ELSE TRUE
  <2>1. Waits(j)
    BY <1>1, <1>3 DEF Waits
  <2>2. CASE k.fin
    <3>1. k.fin = TRUE /\ j.fin = TRUE
      BY <1>3, <2>2 DEF Conns
    <3> QED BY <1>1, <1>3, <2>1, <3>1 DEF Moves, KeepsBytes
  <2>3. CASE ~k.fin
    <3>1. k.wire \in Seq(OutBytes) /\ Peek(k.outputBuffer) \in Seq(OutBytes) /\ <<>> \in Seq(OutBytes)
      BY OutputOf, EmptySeq
    <3>2. PICK p : p = Peek(k.outputBuffer)
      OBVIOUS
    <3>3. k.wire \o <<>> = k.wire /\ <<>> \o p = p /\ p \o <<>> = p
      BY <3>1, <3>2, ConcatEmptySeq
    <3>4. Passes(k, j, <<>>, <<>>)
      BY <1>1, <3>1, <3>2, <3>3 DEF Passes
    <3> QED BY <1>3, <2>1, <2>3, <3>4 DEF Moves, Transfers, Waits
  <2> QED BY <2>2, <2>3
<1> QED BY <1>1, <1>2, <1>3

LEMMA OutputStep ==
  ASSUME TypeInv, LifeInv, OutputInv, [Next]_vars
  PROVE  OutputInv' /\ Moves(conn, conn')
<1>1. PICK k : k = conn
  OBVIOUS
<1>2. PICK j : j = conn'
  OBVIOUS
<1>3. /\ k \in Conns /\ Waits(k)
      /\ "out" \in k.events => k.state \in {"kConnected", "kDisconnecting"}
  <2>1. k \in Conns
    BY <1>1 DEF TypeInv
  <2>2. k.state \in States /\ (k.state \in {"none", "kConnecting", "kDisconnected"} => k.events = {})
    BY <1>1, <2>1 DEF LifeInv, Phases, Conns
  <2> QED BY <1>1, <2>1, <2>2 DEF OutputInv, States
<1> SUFFICES Waits(j) /\ Moves(k, j)
  BY <1>1, <1>2 DEF OutputInv, Waits
<1>4. CASE j = k
  BY <1>3, <1>4 DEF Moves, KeepsBytes
<1>5. ASSUME /\ j.wire = k.wire /\ j.outputBuffer = k.outputBuffer /\ j.fin = k.fin
             /\ j.events = k.events /\ j.state = k.state
      PROVE  Waits(j) /\ Moves(k, j)
  BY <1>3, <1>5 DEF Moves, KeepsBytes, Waits
<1>6. CASE j = Closed(k)
  <2>1. /\ j \in Conns /\ j.state = "kDisconnected" /\ j.fin = k.fin /\ j.wire = k.wire
        /\ j.outputBuffer = k.outputBuffer
    BY <1>3, <1>6, ClosedOf
  <2> QED BY <1>3, <2>1 DEF Moves, KeepsBytes, Waits
<1>7. ASSUME k.state \in {"none", "kConnecting"}, j = EnableReading([k EXCEPT !.state = "kConnected"])
      PROVE  Waits(j) /\ Moves(k, j)
  <2>1. /\ j \in Conns /\ j.state = "kConnected" /\ j.fin = k.fin /\ j.wire = k.wire
        /\ j.outputBuffer = k.outputBuffer /\ j.events = k.events \cup {"in"}
    BY <1>3, <1>7, EnableReadingOf
  <2>2. "out" \notin j.events
    BY <1>3, <1>7, <2>1
  <2> QED BY <1>3, <1>7, <2>1, <2>2 DEF Moves, KeepsBytes, Waits
<1>8. ASSUME NEW l \in Loops, LoopStep(l)
      PROVE  Waits(j) /\ Moves(k, j)
  <2>1. CASE HandleAccept
    <3>1. "accept" \in active[BaseLoop]
      BY <2>1 DEF HandleAccept, AcceptPeer, Handling
    <3>2. k.state = "none"
      BY <1>1, <3>1, ConnectionAssumption DEF LifeInv, Reported, Phases
    <3>3. CASE j = [k EXCEPT !.state = "kConnecting"]
      <4>1. /\ j.wire = k.wire /\ j.outputBuffer = k.outputBuffer /\ j.fin = k.fin
            /\ j.events = k.events /\ j.state = "kConnecting"
        BY <1>3, <3>3 DEF Conns
      <4> QED BY <1>3, <3>2, <4>1 DEF Moves, KeepsBytes, Waits
    <3>4. \/ j = [k EXCEPT !.state = "kConnecting"]
          \/ j = EnableReading([k EXCEPT !.state = "kConnected"])
      BY <1>1, <1>2, <2>1 DEF HandleAccept
    <3> QED BY <1>7, <3>2, <3>3, <3>4
  <2>2. CASE ConnectEstablished(l)
    <3>1. Head(batch[l]) \in At(l) /\ Head(batch[l]).op = "connectEstablished"
      BY <2>2, RunOf DEF ConnectEstablished
    <3>2. k.state = "kConnecting"
      BY <1>1, <3>1 DEF LifeInv, FunctorsOK, FunctorOK
    <3>3. j = EnableReading([k EXCEPT !.state = "kConnected"])
      BY <1>1, <1>2, <2>2 DEF ConnectEstablished
    <3> QED BY <1>7, <3>2, <3>3
  <2>3. CASE RunSendInLoop(l)
    <3>1. Head(batch[l]) \in At(l) /\ Head(batch[l]).op = "sendInLoop"
      BY <2>3, RunOf DEF RunSendInLoop
    <3>2. PICK m : m = Head(batch[l]).msg
      OBVIOUS
    <3>3. m \in Msgs /\ k.state \in {"kConnected", "kDisconnecting", "kDisconnected"}
      BY <1>1, <3>1, <3>2 DEF LifeInv, FunctorsOK, FunctorOK, Up
    <3>4. j \in SendInLoop(k, Bytes(m))
      BY <1>1, <1>2, <2>3, <3>2 DEF RunSendInLoop
    <3> QED BY <1>3, <3>3, <3>4, SendMoves
  <2>4. CASE HandleWrite(l)
    <3>1. j \in WriteResults(k)
      BY <1>1, <1>2, <2>4 DEF HandleWrite
    <3> QED BY <1>3, <3>1, WriteMoves
  <2>5. CASE HandleReadEnd(l) \/ ForceCloseInLoop(l)
    <3>1. j = Closed(k) \/ j = k
      BY <1>1, <1>2, <2>5 DEF HandleReadEnd, ForceCloseInLoop
    <3> QED BY <1>4, <1>6, <3>1
  <2>6. CASE ConnectDestroyed(l)
    <3>1. j = [k EXCEPT !.index = "kNew"]
      BY <1>1, <1>2, <2>6 DEF ConnectDestroyed, RemoveChannel
    <3>2. /\ j.wire = k.wire /\ j.outputBuffer = k.outputBuffer /\ j.fin = k.fin
          /\ j.events = k.events /\ j.state = k.state
      BY <1>3, <3>1 DEF Conns
    <3> QED BY <1>5, <3>2
  <2>7. CASE CloseCallbacks(l) \/ RemoveConnectionInLoop(l) \/ HandleError(l) \/ HandleReadError(l)
    <3>1. j = k
      BY <1>1, <1>2, <2>7 DEF CloseCallbacks, RemoveConnectionInLoop, HandleError, HandleReadError,
                              connVars
    <3> QED BY <1>4, <3>1
  <2>8. CASE \/ PollLoop(l) \/ LoopOnly(Wakeup(l)) \/ LoopOnly(HandleWakeup(l))
             \/ LoopOnly(DoPendingFunctors(l)) \/ LoopOnly(EndFunctors(l))
    <3>1. j = k
      BY <1>1, <1>2, <2>8 DEF PollLoop, LoopOnly, connVars
    <3> QED BY <1>4, <3>1
  <2>9. CASE HandleRead(l)
    <3>1. PICK n, b, c : OneRead(conn, rcvq, n, b, c) /\ Callback(l, c)
      BY <2>9, ReadStep
    <3>2. PICK q : q = rcvq
      OBVIOUS
    <3>3. q \in Seq(InBytes) /\ OneRead(k, q, n, b, c)
      BY <1>1, <3>1, <3>2 DEF TypeInv
    <3>4. /\ c \in Conns /\ c.state = k.state /\ c.events = k.events
          /\ c.fin = k.fin /\ c.wire = k.wire /\ c.outputBuffer = k.outputBuffer
      BY <1>3, <3>3, OneReadOf
    <3>5. Waits(c)
      BY <1>3, <3>4 DEF Waits
    <3>6. k.state \in {"kConnected", "kDisconnecting"}
      <4>1. "in" \in active[l]
        BY <2>9 DEF HandleRead, Reading, HandlingConn, Handling
      <4> QED BY <1>1, <4>1 DEF LifeInv, Reported, Up
    <3>7. ASSUME Waits(j), Moves(c, j) PROVE Waits(j) /\ Moves(k, j)
      BY <3>4, <3>7 DEF Moves, KeepsBytes, Transfers, Passes
    <3>8. CASE j = c
      BY <1>5, <3>4, <3>8
    <3>9. ASSUME NEW m \in unsent, j \in SendInLoop(c, Bytes(m))
          PROVE  Waits(j) /\ Moves(k, j)
      <4>1. m \in Msgs
        BY DEF TypeInv
      <4>2. c.state \in {"kConnected", "kDisconnecting", "kDisconnected"}
        BY <3>4, <3>6
      <4> QED BY <3>4, <3>5, <3>7, <3>9, <4>1, <4>2, SendMoves
    <3>10. CASE j = Shutdown(c)
      BY <3>4, <3>5, <3>7, <3>10, ShutdownMoves
    <3>11. CASE j = [c EXCEPT !.state = "kDisconnecting"]
      <4>1. /\ j.wire = c.wire /\ j.outputBuffer = c.outputBuffer /\ j.fin = c.fin
            /\ j.events = c.events /\ j.state = "kDisconnecting"
        BY <3>4, <3>11 DEF Conns
      <4> QED BY <1>3, <3>4, <3>6, <4>1 DEF Moves, KeepsBytes, Waits
    <3> QED BY <1>2, <3>1, <3>8, <3>9, <3>10, <3>11 DEF Callback
  <2> QED BY <1>8, <2>1, <2>2, <2>3, <2>4, <2>5, <2>6, <2>7, <2>8, <2>9 DEF LoopStep
<1>9. CASE ObserverStep \/ PeerStep \/ UNCHANGED vars
  <2>1. j = k
    BY <1>1, <1>2, <1>9 DEF ObserverStep, ObserverSend, ObserverQueue, ObserverWake, PeerStep,
         PeerConnect, PeerSend, PeerClose, PeerReset, vars, connVars
  <2> QED BY <1>4, <2>1
<1> QED BY <1>8, <1>9 DEF Next

-----------------------------------------------------------------------------
(* A sequence is a prefix of itself with more behind it. *)
LEMMA PrefixOfConcat ==
  ASSUME NEW S, NEW s \in Seq(S), NEW t \in Seq(S)
  PROVE  Len(s) <= Len(s \o t) /\ SubSeq(s, 1, Len(s)) = SubSeq(s \o t, 1, Len(s))
<1>1. PICK u : u = s \o t
  OBVIOUS
<1>2. /\ u \in Seq(S) /\ Len(u) = Len(s) + Len(t)
      /\ \A i \in 1..(Len(s) + Len(t)) : u[i] = IF i <= Len(s) THEN s[i] ELSE t[i - Len(s)]
  BY <1>1, ConcatProperties
<1>3. Len(s) \in Nat /\ Len(t) \in Nat
  BY LenProperties
<1>4. PICK n \in Nat : n = Len(s)
  BY <1>3
<1>5. n <= Len(u) /\ 0 \in Nat /\ 0 <= n /\ n <= Len(s) /\ 0 + 1 = 1 /\ n - 0 = n
      /\ \A i \in 1..n : 0 + i = i /\ s[i] = u[i]
  BY <1>2, <1>3, <1>4
<1>6. PICK a : a = SubSeq(s, 0 + 1, n)
  OBVIOUS
<1>7. PICK b : b = SubSeq(u, 0 + 1, n)
  OBVIOUS
<1>8. a \in Seq(S) /\ Len(a) = n - 0 /\ \A i \in 1..(n - 0) : a[i] = s[0 + i]
  BY <1>5, <1>6, Between
<1>9. b \in Seq(S) /\ Len(b) = n - 0 /\ \A i \in 1..(n - 0) : b[i] = u[0 + i]
  BY <1>2, <1>5, <1>7, Between
<1>10. a = b
  <2>1. Len(a) = Len(b) /\ \A i \in 1..Len(a) : a[i] = b[i]
    BY <1>5, <1>8, <1>9
  <2> QED BY <1>8, <1>9, <2>1, SeqEqual
<1> QED BY <1>1, <1>4, <1>5, <1>6, <1>7, <1>10

(* What a transfer shows of the bytes taken and passed on. *)
LEMMA PassesOf ==
  ASSUME NEW k \in Conns, NEW j \in Conns, NEW h \in Seq(OutBytes), NEW d \in Seq(OutBytes),
         Passes(k, j, h, d)
  PROVE  /\ j.wire \o Peek(j.outputBuffer) = (k.wire \o Peek(k.outputBuffer)) \o d
         /\ Out!IsPrefix(k.wire, j.wire)
         /\ Out!IsPrefix(j.wire, j.wire \o Peek(j.outputBuffer))
<1>1. PICK w \in Seq(OutBytes) : w = k.wire
  BY OutputOf
<1>2. PICK p \in Seq(OutBytes) : p = Peek(k.outputBuffer)
  BY OutputOf
<1>3. PICK q \in Seq(OutBytes) : q = Peek(j.outputBuffer)
  BY OutputOf
<1>4. j.wire \in Seq(OutBytes) /\ j.wire = w \o h /\ h \o q = p \o d
  BY <1>1, <1>2, <1>3, OutputOf DEF Passes
<1>5. (w \o h) \o q = (w \o p) \o d
  <2>1. w \o (h \o q) = (w \o h) \o q
    BY ONLY w \in Seq(OutBytes), h \in Seq(OutBytes), q \in Seq(OutBytes), ConcatAssociative, SMTT(40)
  <2>2. (w \o p) \o d = w \o (p \o d)
    BY ONLY w \in Seq(OutBytes), p \in Seq(OutBytes), d \in Seq(OutBytes), ConcatAssociative
  <2> QED BY <1>4, <2>1, <2>2
<1>6. Out!IsPrefix(w, w \o h)
  BY <1>4, PrefixOfConcat DEF Out!IsPrefix
<1>7. PICK v : v = j.wire
  OBVIOUS
<1>8. Out!IsPrefix(v, v \o q)
  BY <1>4, <1>7, PrefixOfConcat DEF Out!IsPrefix
<1> QED BY <1>1, <1>2, <1>3, <1>4, <1>5, <1>6, <1>7, <1>8

LEMMA MovesRefine ==
  ASSUME conn \in Conns, conn' \in Conns, Moves(conn, conn')
  PROVE  [Out!Transfer \/ Out!Close]_(Out!streamVars)
<1>1. CASE KeepsBytes(conn, conn') /\ (conn'.state = "kDisconnected" <=> conn.state = "kDisconnected")
  BY <1>1 DEF KeepsBytes, Out!streamVars
<1>2. CASE KeepsBytes(conn, conn') /\ conn'.state = "kDisconnected"
  BY <1>2 DEF KeepsBytes, Out!Close
<1>3. CASE Transfers(conn, conn')
  <2>1. PICK k : k = conn
    OBVIOUS
  <2>2. PICK j : j = conn'
    OBVIOUS
  <2>3. k \in Conns /\ j \in Conns /\ Transfers(k, j)
    BY <1>3, <2>1, <2>2
  <2>4. PICK h : Passes(k, j, h, <<>>) \/ \E m \in Msgs : Passes(k, j, h, Bytes(m))
    BY <2>3 DEF Transfers
  <2>5. PICK v : v = j.wire \o Peek(j.outputBuffer)
    OBVIOUS
  <2>6. PICK u : u = k.wire \o Peek(k.outputBuffer)
    OBVIOUS
  <2>7. /\ v = u \/ \E m \in Msgs : v = u \o Bytes(m)
        /\ Out!IsPrefix(k.wire, j.wire) /\ Out!IsPrefix(j.wire, v)
    <3>1. CASE Passes(k, j, h, <<>>)
      <4>1. <<>> \in Seq(OutBytes)
        BY EmptySeq
      <4>2. /\ v = u \o <<>>
            /\ Out!IsPrefix(k.wire, j.wire) /\ Out!IsPrefix(j.wire, v)
        BY <2>3, <2>5, <2>6, <3>1, <4>1, PassesOf DEF Passes
      <4>3. u \in Seq(OutBytes)
        BY <2>3, <2>6, OutputOf, ConcatProperties
      <4>4. u \o <<>> = u
        BY <4>3, ConcatEmptySeq
      <4> QED BY <4>2, <4>4
    <3>2. ASSUME NEW m \in Msgs, Passes(k, j, h, Bytes(m))
          PROVE  /\ v = u \o Bytes(m)
                 /\ Out!IsPrefix(k.wire, j.wire) /\ Out!IsPrefix(j.wire, v)
      <4>1. PICK d : d = Bytes(m)
        OBVIOUS
      <4>2. d \in Seq(OutBytes) /\ Passes(k, j, h, d)
        BY <3>2, <4>1, BytesOf
      <4>3. h \in Seq(OutBytes)
        BY <4>2 DEF Passes
      <4> QED BY <2>3, <2>5, <2>6, <4>1, <4>2, <4>3, PassesOf
    <3> QED BY <2>4, <3>1, <3>2
  <2>8. j.fin => j.wire = v
    <3>1. j.fin => Peek(j.outputBuffer) = <<>>
      BY <2>3, OutputOf DEF Transfers
    <3>2. j.wire \in Seq(OutBytes)
      BY <2>3, OutputOf
    <3> QED BY <2>5, <3>1, <3>2, ConcatEmptySeq
  <2>9. ~k.fin /\ k.state # "kDisconnected" /\ j.state # "kDisconnected"
    BY <2>3 DEF Transfers
  <2>10. (conn.wire \o Peek(conn.outputBuffer))' = v /\ conn.wire \o Peek(conn.outputBuffer) = u
    BY <2>1, <2>2, <2>5, <2>6
  <2>11. v = u \/ \E s \in {Bytes(m) : m \in Msgs} : v = u \o s
    BY <2>7
  <2>12. Out!Transfer
    BY <2>1, <2>2, <2>7, <2>8, <2>9, <2>10, <2>11 DEF Out!Transfer
  <2> QED BY <2>12
<1> QED BY <1>1, <1>2, <1>3 DEF Moves

LEMMA OutputInit ==
  ASSUME Init
  PROVE  OutputInv /\ Out!Init
<1>1. /\ conn.state = "none" /\ conn.fin = FALSE /\ conn.wire = <<>> /\ conn.outputBuffer = NewBuffer
  BY DEF Init
<1>2. PICK b : b = NewBuffer
  OBVIOUS
<1>3. Peek(b) = <<>> /\ b \in Buffers(OutBytes)
  BY <1>2, NewBufferEmpty DEF OutBytes
<1>4. ReadableBytes(b) = 0
  BY <1>3, PeekOf, EmptySeq
<1>5. <<>> \o <<>> = <<>>
  BY EmptySeq, ConcatEmptySeq
<1> QED BY <1>1, <1>2, <1>3, <1>4, <1>5 DEF OutputInv, Waits, Out!Init

(* What is sent through a connection is a byte stream (module ByteStream):    *)
(* whoever calls send(), however little write() takes at a time and however   *)
(* the output buffer moves its bytes, whole messages are taken over one after *)
(* the other, the peer gets a prefix of them, the FIN comes behind the last   *)
(* byte, and nothing moves after the FIN or the close.                        *)
THEOREM ConnectionIsByteStream == Spec => OutStream
<1>1. Init => OutputInv /\ Out!Init
  BY OutputInit
<1>2. (TypeInv /\ LifeInv) /\ OutputInv /\ [Next]_vars => OutputInv'
  BY OutputStep
<1>3. (TypeInv /\ LifeInv) /\ (TypeInv /\ LifeInv)' /\ OutputInv /\ [Next]_vars
        => [Out!Transfer \/ Out!Close]_(Out!streamVars)
  BY OutputStep, MovesRefine DEF TypeInv
<1> QED BY <1>1, <1>2, <1>3, Invariant, PTL DEF Spec, OutStream, Out!Spec
=============================================================================
