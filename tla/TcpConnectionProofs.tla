------------------------ MODULE TcpConnectionProofs ------------------------
(***************************************************************************)
(* Proofs about one muduo connection for every set of loops and threads,   *)
(* every pool, every set of messages and every buffer size: its type       *)
(* invariant, that no queued functor is left without a wakeup, that a half *)
(* close is not forgotten, that each functor finds the connection the way  *)
(* it asserts, and that a functor bound to a raw pointer never outlives    *)
(* the connection.                                                         *)
(***************************************************************************)
EXTENDS TcpConnection, BufferProofs

(* Bytes of the two directions; resize() fills either buffer with ZeroByte. *)
InBytes == Nat \cup {ZeroByte}
OutBytes == (Nat \X Nat) \cup {ZeroByte}

States == {"none", "kConnecting", "kConnected", "kDisconnecting", "kDisconnected"}

Conns == [state : States, events : SUBSET {"in", "out"}, index : {"kNew", "kAdded", "kDeleted"},
          fin : BOOLEAN, wire : Seq(OutBytes),
          inputBuffer : Buffers(InBytes), outputBuffer : Buffers(OutBytes)]

TypeInv ==
    /\ at \in [Loops -> {"poll", "events", "functors"}]
    /\ active \in [Loops -> SUBSET {"wakeup", "accept", "err", "in", "out"}]
    /\ pending \in [Loops -> Seq(Functors)]
    /\ batch \in [Loops -> Seq(Functors)]
    /\ wakefd \in [Loops -> BOOLEAN]
    /\ waking \in [Threads -> Loops \cup {NoLoop}]
    /\ pool \subseteq Loops
    /\ io \in Loops \cup {NoLoop}
    /\ conn \in Conns
    /\ connections \in BOOLEAN /\ closing \in BOOLEAN /\ sockerr \in BOOLEAN /\ entry \in BOOLEAN
    /\ peer \in {"none", "arrived", "open", "fin", "rst"}
    /\ rcvq \in Seq(InBytes) /\ received \in Seq(InBytes)
    /\ app \in [pc : {"idle", "push", "wake"}, msg : Msgs \cup {ZeroByte}]
    /\ unsent \subseteq Msgs
    /\ peer_sent \in 0..MaxIn

-----------------------------------------------------------------------------
(* The life of the connection, in the parts the actions disturb. *)

Up == conn.state \in {"kConnected", "kDisconnecting"}

(* The functors of loop l, taken or not. *)
At(l) == Range(pending[l]) \cup Range(batch[l])

(* Functors behind which nothing is queued any more. *)
FinalOps == {"connectEstablished", "removeConnectionInLoop", "connectDestroyed"}
Final(s) == \E f \in Range(s) : f.op \in FinalOps
LastOf(s) == \A i \in 1..Len(s) : s[i].op \in FinalOps => i = Len(s)

(* A round of a loop: events are reported in its first part, and functors are *)
(* taken in its last.                                                         *)
Rounds ==
    \A l \in Loops :
        /\ at[l] # "events" => active[l] = {}
        /\ at[l] # "functors" => batch[l] = <<>>

(* Whose events they are. *)
Reported ==
    \A l \in Loops :
        /\ "accept" \in active[l] => l = BaseLoop /\ peer = "arrived"
        /\ "in" \in active[l] => l = io /\ Up

(* What the state says of the channel, the server's map and the peer. *)
Phases ==
    /\ io = NoLoop <=> conn.state = "none"
    /\ io = NoLoop <=> peer \in {"none", "arrived"}
    /\ conn.state \in {"none", "kConnecting"} => conn.events = {} /\ conn.index = "kNew"
    /\ Up => "in" \in conn.events /\ conn.index = "kAdded"
    /\ conn.state = "kDisconnected" => conn.events = {} /\ conn.index # "kAdded"
    /\ conn.state = "none" => ~connections
    /\ Up \/ conn.state = "kConnecting" => connections
    /\ closing => /\ conn.state = "kDisconnected" /\ conn.index = "kDeleted"
                  /\ connections /\ at[io] # "poll"

(* The application's mutex: who has the connection, or is sending to it. *)
InUse ==
    /\ entry \/ app.pc # "idle" => Up \/ closing
    /\ app.pc = "push" => app.msg \in Msgs
    /\ waking[Observer] # NoLoop => app.pc = "wake"

(* Where a functor is queued and what holds as long as it is. *)
FunctorOK(l, f) ==
    /\ f.op = "connectEstablished" => l = io /\ conn.state = "kConnecting"
    /\ f.op = "removeConnectionInLoop" =>
          l = BaseLoop /\ io # BaseLoop /\ conn.state = "kDisconnected" /\ ~closing /\ connections
    /\ f.op = "connectDestroyed" =>
          l = io /\ conn.state = "kDisconnected" /\ ~closing /\ ~connections
    /\ f.op = "forceCloseInLoop" => l = io /\ (Up \/ conn.state = "kDisconnected")
    /\ f.op = "sendInLoop" => l = io /\ (Up \/ conn.state = "kDisconnected") /\ f.msg \in Msgs
    /\ ~(conn.state = "kDisconnected" /\ conn.index = "kNew")

FunctorsOK == \A l \in Loops : \A f \in At(l) : FunctorOK(l, f)

LastFunctors ==
    \A l \in Loops :
        /\ LastOf(pending[l]) /\ LastOf(batch[l])
        /\ Final(batch[l]) => pending[l] = <<>>

(* A connection that is closed and still known to the poller will be removed. *)
RemovalOps == {"removeConnectionInLoop", "connectDestroyed"}
ToRemove(l) == \E f \in At(l) : f.op \in RemovalOps
Removal ==
    /\ conn.state = "kDisconnected" /\ ~closing /\ conn.index # "kNew" => \E l \in Loops : ToRemove(l)
    /\ conn.state = "kDisconnected" /\ conn.index = "kNew" => ~connections

LifeInv ==
    Rounds /\ Reported /\ Phases /\ InUse /\ FunctorsOK /\ LastFunctors /\ Removal

-----------------------------------------------------------------------------
(* Sequences of functors *)

LEMMA EmptyQueue == Range(<<>>) = {} /\ LastOf(<<>>) /\ ~Final(<<>>)
<1>1. Range(<<>>) = {}
  BY DEF Range
<1>2. LastOf(<<>>)
  BY DEF LastOf
<1> QED BY <1>1, <1>2 DEF Final

LEMMA RangeOf ==
  ASSUME NEW S, NEW s \in Seq(S)
  PROVE  /\ Len(s) \in Nat /\ DOMAIN s = 1..Len(s)
         /\ \A i \in 1..Len(s) : s[i] \in Range(s) /\ s[i] \in S
         /\ \A f \in Range(s) : f \in S /\ \E i \in 1..Len(s) : f = s[i]
<1>1. Len(s) \in Nat /\ DOMAIN s = 1..Len(s)
  BY LenProperties
<1>2. \A i \in 1..Len(s) : s[i] \in S
  BY ElementOfSeq
<1> QED BY <1>1, <1>2 DEF Range

LEMMA AppendRange ==
  ASSUME NEW S, NEW s \in Seq(S), NEW e \in S
  PROVE  /\ Append(s, e) \in Seq(S) /\ Append(s, e) # <<>>
         /\ Range(Append(s, e)) = Range(s) \cup {e}
<1>1. /\ Append(s, e) \in Seq(S) /\ Len(Append(s, e)) = Len(s) + 1
      /\ \A i \in 1..Len(s) : Append(s, e)[i] = s[i]
      /\ Append(s, e)[Len(s) + 1] = e
  BY AppendProperties
<1>2. Len(s) \in Nat /\ DOMAIN s = 1..Len(s) /\ DOMAIN Append(s, e) = 1..(Len(s) + 1)
  BY <1>1, LenProperties
<1>3. Append(s, e) # <<>>
  <2>1. Len(Append(s, e)) # 0
    BY <1>1, <1>2
  <2> QED BY <2>1, EmptySeq
<1>4. ASSUME NEW f \in Range(Append(s, e)) PROVE f \in Range(s) \cup {e}
  <2>1. PICK i \in 1..(Len(s) + 1) : f = Append(s, e)[i]
    BY <1>2, <1>4 DEF Range
  <2>2. i = Len(s) + 1 \/ i \in 1..Len(s)
    BY <1>2
  <2> QED BY <1>1, <1>2, <2>1, <2>2 DEF Range
<1>5. ASSUME NEW f \in Range(s) \cup {e} PROVE f \in Range(Append(s, e))
  <2>1. \A i \in 1..(Len(s) + 1) : Append(s, e)[i] \in Range(Append(s, e))
    BY <1>2 DEF Range
  <2>2. Len(s) + 1 \in 1..(Len(s) + 1) /\ \A i \in 1..Len(s) : i \in 1..(Len(s) + 1)
    BY <1>2
  <2>3. CASE f \in Range(s)
    <3>1. PICK i \in 1..Len(s) : f = s[i]
      BY <1>2, <2>3 DEF Range
    <3> QED BY <1>1, <2>1, <2>2, <3>1
  <2> QED BY <1>1, <1>5, <2>1, <2>2, <2>3
<1> QED BY <1>1, <1>3, <1>4, <1>5

LEMMA TailRange ==
  ASSUME NEW S, NEW s \in Seq(S), s # <<>>
  PROVE  /\ Tail(s) \in Seq(S) /\ Head(s) \in S /\ Head(s) \in Range(s)
         /\ Range(s) = {Head(s)} \cup Range(Tail(s))
         /\ Len(s) \in Nat /\ Len(Tail(s)) = Len(s) - 1 /\ Len(Tail(s)) \in Nat /\ Head(s) = s[1]
         /\ \A i \in 1..Len(Tail(s)) : Tail(s)[i] = s[i + 1]
<1>1. /\ Head(s) \in S /\ Tail(s) \in Seq(S) /\ Len(Tail(s)) = Len(s) - 1
      /\ \A i \in 1..Len(Tail(s)) : Tail(s)[i] = s[i + 1]
  BY HeadTailProperties
<1>2. /\ Len(s) \in Nat /\ Len(s) # 0 /\ DOMAIN s = 1..Len(s) /\ Len(Tail(s)) \in Nat
      /\ DOMAIN Tail(s) = 1..Len(Tail(s)) /\ Head(s) = s[1]
  BY <1>1, LenProperties, EmptySeq
<1>3. ASSUME NEW f \in Range(s) PROVE f = Head(s) \/ f \in Range(Tail(s))
  <2>1. PICK i \in 1..Len(s) : f = s[i]
    BY <1>2, <1>3 DEF Range
  <2>2. CASE i # 1
    <3>1. i - 1 \in 1..Len(Tail(s)) /\ (i - 1) + 1 = i
      BY <1>1, <1>2, <2>2
    <3>2. Tail(s)[i - 1] = s[i]
      BY <1>1, <3>1
    <3> QED BY <1>2, <2>1, <3>1, <3>2 DEF Range
  <2> QED BY <1>2, <2>1, <2>2
<1>4. ASSUME NEW f \in Range(Tail(s)) PROVE f \in Range(s)
  <2>1. PICK i \in 1..Len(Tail(s)) : f = Tail(s)[i]
    BY <1>2, <1>4 DEF Range
  <2>2. i + 1 \in 1..Len(s)
    BY <1>1, <1>2
  <2> QED BY <1>1, <1>2, <2>1, <2>2 DEF Range
<1>5. Head(s) \in Range(s)
  <2>1. 1 \in 1..Len(s)
    BY <1>2
  <2> QED BY <1>2, <2>1 DEF Range
<1> QED BY <1>1, <1>2, <1>3, <1>4, <1>5

LEMMA LastAppend ==
  ASSUME NEW S, NEW s \in Seq(S), NEW e \in S, ~Final(s)
  PROVE  LastOf(Append(s, e))
<1>1. /\ Len(Append(s, e)) = Len(s) + 1
      /\ \A i \in 1..Len(s) : Append(s, e)[i] = s[i]
  BY AppendProperties
<1>2. Len(s) \in Nat /\ \A i \in 1..Len(s) : s[i] \in Range(s)
  BY RangeOf
<1> SUFFICES ASSUME NEW i \in 1..(Len(s) + 1), Append(s, e)[i].op \in FinalOps
             PROVE  i = Len(s) + 1
  BY <1>1 DEF LastOf
<1>3. i \notin 1..Len(s)
  BY <1>1, <1>2 DEF Final
<1> QED BY <1>2, <1>3

LEMMA LastTail ==
  ASSUME NEW S, NEW s \in Seq(S), s # <<>>, LastOf(s)
  PROVE  /\ LastOf(Tail(s))
         /\ Head(s).op \in FinalOps => Tail(s) = <<>>
         /\ Final(Tail(s)) => Final(s)
<1>1. /\ Tail(s) \in Seq(S) /\ Len(s) \in Nat /\ Len(Tail(s)) = Len(s) - 1 /\ Len(Tail(s)) \in Nat
      /\ Head(s) = s[1] /\ Range(s) = {Head(s)} \cup Range(Tail(s))
      /\ \A i \in 1..Len(Tail(s)) : Tail(s)[i] = s[i + 1]
  BY TailRange
<1>n. PICK n : n = Len(Tail(s))
  OBVIOUS
<1>m. PICK m : m = Len(s)
  OBVIOUS
<1>o. m \in Nat /\ n = m - 1
  BY <1>1, <1>n, <1>m
<1>2. ASSUME NEW i \in 1..Len(Tail(s)), Tail(s)[i].op \in FinalOps
      PROVE  i = Len(Tail(s))
  <2>1. i + 1 \in 1..Len(s)
    BY <1>1
  <2>2. i + 1 = Len(s)
    BY <1>1, <1>2, <2>1 DEF LastOf
  <2>3. i + 1 = m
    BY <1>m, <2>2
  <2>4. i = n
    BY ONLY <1>o, <2>3, i \in Nat
  <2> QED BY <1>n, <2>4
<1>3. ASSUME Head(s).op \in FinalOps PROVE Tail(s) = <<>>
  <2>1. 1 \in 1..Len(s)
    BY <1>1
  <2>2. 1 = Len(s)
    BY <1>1, <1>3, <2>1 DEF LastOf
  <2>3. n = 0
    <3>1. m = 1
      BY <1>m, <2>2
    <3> QED BY ONLY <1>o, <3>1
  <2>4. Len(Tail(s)) = 0
    BY <1>n, <2>3
  <2> QED BY <1>1, <2>4, EmptySeq
<1>4. LastOf(Tail(s))
  BY <1>2 DEF LastOf
<1>5. Final(Tail(s)) => Final(s)
  BY <1>1 DEF Final
<1> QED BY <1>3, <1>4, <1>5

-----------------------------------------------------------------------------
(* What the calls do to the fields of a connection *)

LEMMA UpdateChannelOf ==
  ASSUME NEW k \in Conns, NEW E \in SUBSET {"in", "out"}, NEW j, j = UpdateChannel(k, E)
  PROVE  /\ j \in Conns /\ j.state = k.state /\ j.fin = k.fin /\ j.wire = k.wire
         /\ j.inputBuffer = k.inputBuffer /\ j.outputBuffer = k.outputBuffer
         /\ j.events = E
         /\ j.index = IF k.index = "kAdded" /\ E = {} THEN "kDeleted" ELSE "kAdded"
  BY DEF UpdateChannel, Conns

LEMMA EnableReadingOf ==
  ASSUME NEW k \in Conns, NEW j, j = EnableReading([k EXCEPT !.state = "kConnected"])
  PROVE  /\ j \in Conns /\ j.state = "kConnected" /\ j.fin = k.fin /\ j.wire = k.wire
         /\ j.inputBuffer = k.inputBuffer /\ j.outputBuffer = k.outputBuffer
         /\ j.events = k.events \cup {"in"} /\ j.index = "kAdded"
<1>1. PICK c : c = [k EXCEPT !.state = "kConnected"]
  OBVIOUS
<1>2. /\ c \in Conns /\ c.state = "kConnected" /\ c.fin = k.fin /\ c.wire = k.wire
      /\ c.inputBuffer = k.inputBuffer /\ c.outputBuffer = k.outputBuffer
      /\ c.events = k.events /\ c.index = k.index
  BY <1>1 DEF Conns, States
<1>3. PICK E : E = k.events \cup {"in"}
  OBVIOUS
<1>4. E \in SUBSET {"in", "out"} /\ E # {}
  BY <1>3 DEF Conns
<1>5. j = UpdateChannel(c, E)
  BY <1>1, <1>2, <1>3 DEF EnableReading
<1>6. /\ j \in Conns /\ j.state = c.state /\ j.fin = c.fin /\ j.wire = c.wire
      /\ j.inputBuffer = c.inputBuffer /\ j.outputBuffer = c.outputBuffer
      /\ j.events = E
      /\ j.index = IF c.index = "kAdded" /\ E = {} THEN "kDeleted" ELSE "kAdded"
  BY <1>2, <1>4, <1>5, UpdateChannelOf
<1> QED BY <1>2, <1>3, <1>4, <1>6

LEMMA ClosedOf ==
  ASSUME NEW k \in Conns, NEW j, j = Closed(k)
  PROVE  /\ j \in Conns /\ j.state = "kDisconnected" /\ j.fin = k.fin /\ j.wire = k.wire
         /\ j.inputBuffer = k.inputBuffer /\ j.outputBuffer = k.outputBuffer
         /\ j.events = {} /\ j.index = IF k.index = "kAdded" THEN "kDeleted" ELSE "kAdded"
<1>1. PICK c : c = UpdateChannel(k, {})
  OBVIOUS
<1>2. /\ c \in Conns /\ c.fin = k.fin /\ c.wire = k.wire
      /\ c.inputBuffer = k.inputBuffer /\ c.outputBuffer = k.outputBuffer
      /\ c.events = {} /\ c.index = IF k.index = "kAdded" THEN "kDeleted" ELSE "kAdded"
  BY <1>1, UpdateChannelOf
<1>3. j = [c EXCEPT !.state = "kDisconnected"]
  BY <1>1 DEF Closed, DisableAll
<1> QED BY <1>2, <1>3 DEF Conns, States

LEMMA BufferedOf ==
  ASSUME NEW k \in Conns, NEW data \in Seq(OutBytes), NEW j, j = Buffered(k, data)
  PROVE  /\ j \in Conns /\ j.state = k.state /\ j.fin = k.fin /\ j.wire = k.wire
         /\ j.inputBuffer = k.inputBuffer
         /\ j.outputBuffer = AppendBytes(k.outputBuffer, data)
         /\ j.events = k.events \cup {"out"}
         /\ j.index = IF "out" \in k.events THEN k.index ELSE "kAdded"
<1>1. PICK a : a = AppendBytes(k.outputBuffer, data)
  OBVIOUS
<1>2. k.outputBuffer \in Buffers(OutBytes) /\ k.events \subseteq {"in", "out"}
  BY DEF Conns
<1>3. a \in Buffers(OutBytes)
  <2>1. ZeroByte \in OutBytes
    BY DEF OutBytes
  <2> QED BY <1>1, <1>2, <2>1, AppendIsConcatenation
<1>4. PICK c : c = [k EXCEPT !.outputBuffer = a]
  OBVIOUS
<1>5. /\ c \in Conns /\ c.state = k.state /\ c.fin = k.fin /\ c.wire = k.wire
      /\ c.inputBuffer = k.inputBuffer /\ c.outputBuffer = a
      /\ c.events = k.events /\ c.index = k.index
  BY <1>3, <1>4 DEF Conns
<1>6. j = IF "out" \in c.events THEN c ELSE UpdateChannel(c, c.events \cup {"out"})
  BY <1>1, <1>4 DEF Buffered, EnableWriting
<1>7. CASE "out" \in c.events
  BY <1>1, <1>2, <1>5, <1>6, <1>7
<1>8. CASE "out" \notin c.events
  <2>1. c.events \cup {"out"} \in SUBSET {"in", "out"} /\ c.events \cup {"out"} # {}
    BY <1>2, <1>5
  <2>2. j = UpdateChannel(c, c.events \cup {"out"})
    BY <1>6, <1>8
  <2> QED BY <1>1, <1>5, <1>8, <2>1, <2>2, UpdateChannelOf
<1> QED BY <1>7, <1>8

(* A part of the data is written at once, the rest goes through the buffer. *)
SentDirectly(k, data, n) ==
    IF n = Len(data)
    THEN [k EXCEPT !.wire = @ \o data]
    ELSE Buffered([k EXCEPT !.wire = @ \o SubSeq(data, 1, n)], SubSeq(data, n + 1, Len(data)))

Sent(k, data, n, j) ==
    /\ j \in Conns /\ j.state = k.state /\ j.fin = k.fin /\ j.inputBuffer = k.inputBuffer
    /\ \/ /\ n = Len(data) /\ j.events = k.events /\ j.index = k.index
          /\ j.wire = k.wire \o data /\ j.outputBuffer = k.outputBuffer
       \/ /\ n # Len(data) /\ j.events = k.events \cup {"out"}
          /\ j.index = IF "out" \in k.events THEN k.index ELSE "kAdded"
          /\ j.wire = k.wire \o SubSeq(data, 1, n)
          /\ j.outputBuffer = AppendBytes(k.outputBuffer, SubSeq(data, n + 1, Len(data)))

LEMMA SendCases ==
  ASSUME NEW k, NEW data, NEW j \in SendInLoop(k, data)
  PROVE  \/ j = k
         \/ /\ k.state # "kDisconnected" /\ j = Buffered(k, data)
            /\ "out" \in k.events \/ ReadableBytes(k.outputBuffer) # 0
         \/ /\ k.state # "kDisconnected" /\ "out" \notin k.events
            /\ ReadableBytes(k.outputBuffer) = 0 /\ ~k.fin
            /\ \E n \in 0..Len(data) : j = SentDirectly(k, data, n)
<1>1. CASE k.state = "kDisconnected"
  BY <1>1 DEF SendInLoop
<1>2. CASE k.state # "kDisconnected" /\ ("out" \in k.events \/ ReadableBytes(k.outputBuffer) # 0)
  BY <1>2 DEF SendInLoop
<1>3. CASE /\ k.state # "kDisconnected"
           /\ ~("out" \in k.events \/ ReadableBytes(k.outputBuffer) # 0)
  <2>1. CASE Broken(k)
    BY <1>3, <2>1 DEF SendInLoop
  <2>2. CASE ~Broken(k)
    <3>1. j \in {SentDirectly(k, data, n) : n \in 0..Len(data)}
      BY <1>3, <2>2, Zenon DEF SendInLoop, SentDirectly
    <3> QED BY <1>3, <2>2, <3>1 DEF Broken
  <2> QED BY <2>1, <2>2
<1> QED BY <1>1, <1>2, <1>3

LEMMA SentDirectlyOf ==
  ASSUME NEW k \in Conns, NEW data \in Seq(OutBytes), NEW n \in 0..Len(data),
         NEW j, j = SentDirectly(k, data, n)
  PROVE  Sent(k, data, n, j)
<1> USE DEF Sent
<1>1. k.wire \in Seq(OutBytes) /\ Len(data) \in Nat /\ n \in Nat /\ n <= Len(data)
  BY LenProperties DEF Conns
<1>2. CASE n = Len(data)
  <2>1. PICK v : v = k.wire \o data
    OBVIOUS
  <2>2. v \in Seq(OutBytes)
    BY <1>1, <2>1, ConcatProperties
  <2>3. j = [k EXCEPT !.wire = v]
    BY <1>2, <2>1 DEF SentDirectly
  <2>4. /\ j \in Conns /\ j.state = k.state /\ j.fin = k.fin /\ j.inputBuffer = k.inputBuffer
        /\ j.events = k.events /\ j.index = k.index /\ j.wire = v
        /\ j.outputBuffer = k.outputBuffer
    BY <2>2, <2>3 DEF Conns
  <2> QED BY <1>2, <2>1, <2>4
<1>3. CASE n # Len(data)
  <2>1. PICK h : h = SubSeq(data, 1, n)
    OBVIOUS
  <2>2. PICK t : t = SubSeq(data, n + 1, Len(data))
    OBVIOUS
  <2>3. h \in Seq(OutBytes)
    <3>1. SubSeq(data, 0 + 1, n) \in Seq(OutBytes)
      BY <1>1, Between
    <3> QED BY <2>1, <3>1
  <2>4. t \in Seq(OutBytes)
    BY <1>1, <2>2, Between
  <2>5. PICK v : v = k.wire \o h
    OBVIOUS
  <2>6. v \in Seq(OutBytes)
    BY <1>1, <2>3, <2>5, ConcatProperties
  <2>7. PICK c : c = [k EXCEPT !.wire = v]
    OBVIOUS
  <2>8. /\ c \in Conns /\ c.state = k.state /\ c.fin = k.fin /\ c.inputBuffer = k.inputBuffer
        /\ c.events = k.events /\ c.index = k.index /\ c.wire = v
        /\ c.outputBuffer = k.outputBuffer
    BY <2>6, <2>7 DEF Conns
  <2>9. j = Buffered(c, t)
    BY <1>3, <2>1, <2>2, <2>5, <2>7 DEF SentDirectly
  <2>10. /\ j \in Conns /\ j.state = c.state /\ j.fin = c.fin /\ j.wire = c.wire
         /\ j.inputBuffer = c.inputBuffer
         /\ j.outputBuffer = AppendBytes(c.outputBuffer, t)
         /\ j.events = c.events \cup {"out"}
         /\ j.index = IF "out" \in c.events THEN c.index ELSE "kAdded"
    BY <2>4, <2>8, <2>9, BufferedOf
  <2> QED BY <1>3, <2>1, <2>2, <2>5, <2>8, <2>10
<1> QED BY <1>2, <1>3

LEMMA SendInLoopOf ==
  ASSUME NEW k \in Conns, NEW data \in Seq(OutBytes), NEW j \in SendInLoop(k, data)
  PROVE  /\ j \in Conns /\ j.state = k.state /\ j.fin = k.fin
         /\ j.inputBuffer = k.inputBuffer
         /\ \/ j = k
            \/ /\ k.state # "kDisconnected"
               /\ j.events \in {k.events, k.events \cup {"out"}} /\ j.index \in {k.index, "kAdded"}
<1>1. CASE j = k
  BY <1>1
<1>2. CASE k.state # "kDisconnected" /\ j = Buffered(k, data)
  BY <1>2, BufferedOf
<1>3. CASE k.state # "kDisconnected" /\ \E n \in 0..Len(data) : j = SentDirectly(k, data, n)
  <2>1. PICK n \in 0..Len(data) : j = SentDirectly(k, data, n)
    BY <1>3
  <2>2. Sent(k, data, n, j)
    BY <2>1, SentDirectlyOf
  <2> QED BY <1>3, <2>2 DEF Sent
<1> QED BY <1>1, <1>2, <1>3, SendCases

LEMMA ShutdownOf ==
  ASSUME NEW k \in Conns, NEW j, j = Shutdown(k)
  PROVE  /\ j \in Conns /\ j.wire = k.wire /\ j.events = k.events /\ j.index = k.index
         /\ j.inputBuffer = k.inputBuffer /\ j.outputBuffer = k.outputBuffer
         /\ \/ j = k /\ k.state # "kConnected"
            \/ /\ k.state = "kConnected" /\ j.state = "kDisconnecting"
               /\ j.fin = IF "out" \in k.events THEN k.fin ELSE TRUE
<1>1. CASE k.state # "kConnected"
  BY <1>1 DEF Shutdown
<1>2. CASE k.state = "kConnected"
  <2>1. PICK c : c = [k EXCEPT !.state = "kDisconnecting"]
    OBVIOUS
  <2>2. /\ c \in Conns /\ c.state = "kDisconnecting" /\ c.fin = k.fin /\ c.wire = k.wire
        /\ c.inputBuffer = k.inputBuffer /\ c.outputBuffer = k.outputBuffer
        /\ c.events = k.events /\ c.index = k.index
    BY <2>1 DEF Conns, States
  <2>3. j = IF "out" \in c.events THEN c ELSE [c EXCEPT !.fin = TRUE]
    BY <1>2, <2>1 DEF Shutdown, ShutdownInLoop
  <2>4. CASE "out" \in c.events
    BY <1>2, <2>2, <2>3, <2>4
  <2>5. CASE "out" \notin c.events
    <3>1. /\ j \in Conns /\ j.state = c.state /\ j.fin = TRUE /\ j.wire = c.wire
          /\ j.inputBuffer = c.inputBuffer /\ j.outputBuffer = c.outputBuffer
          /\ j.events = c.events /\ j.index = c.index
      BY <2>2, <2>3, <2>5 DEF Conns
    <3> QED BY <1>2, <2>2, <2>5, <3>1
  <2> QED BY <2>4, <2>5
<1> QED BY <1>1, <1>2

LEMMA WriteResultsOf ==
  ASSUME NEW k \in Conns, NEW j \in WriteResults(k)
  PROVE  \/ j = k
         \/ \E n \in 1..ReadableBytes(k.outputBuffer) :
              /\ j \in Conns /\ j.state = k.state /\ j.inputBuffer = k.inputBuffer
              /\ "out" \in k.events /\ ~k.fin
              /\ j.wire = k.wire \o SubSeq(Peek(k.outputBuffer), 1, n)
              /\ j.outputBuffer = Retrieve(k.outputBuffer, n)
              /\ \/ /\ ReadableBytes(j.outputBuffer) # 0
                    /\ j.events = k.events /\ j.index = k.index /\ j.fin = k.fin
                 \/ /\ ReadableBytes(j.outputBuffer) = 0
                    /\ j.events = k.events \ {"out"}
                    /\ j.index = IF k.index = "kAdded" /\ k.events \ {"out"} = {}
                                 THEN "kDeleted" ELSE "kAdded"
                    /\ j.fin = IF k.state = "kDisconnecting" /\ "out" \notin j.events
                               THEN TRUE ELSE k.fin
<1>1. CASE "out" \notin k.events \/ Broken(k)
  BY <1>1 DEF WriteResults
<1>2. CASE ~("out" \notin k.events \/ Broken(k))
  <2> DEFINE W(n) == [k EXCEPT !.wire = @ \o SubSeq(Peek(k.outputBuffer), 1, n),
                               !.outputBuffer = Retrieve(@, n)]
             After(c) == IF ReadableBytes(c.outputBuffer) # 0 THEN c
                         ELSE IF c.state = "kDisconnecting" THEN ShutdownInLoop(DisableWriting(c))
                         ELSE DisableWriting(c)
  <2>1. j \in {After(W(n)) : n \in 1..ReadableBytes(k.outputBuffer)}
    BY <1>2, Zenon DEF WriteResults
  <2>2. PICK n \in 1..ReadableBytes(k.outputBuffer) : j = After(W(n))
    BY <2>1
  <2>3. k.outputBuffer \in Buffers(OutBytes) /\ k.wire \in Seq(OutBytes)
        /\ k.events \subseteq {"in", "out"}
    BY DEF Conns
  <2>4. PICK b : b = k.outputBuffer
    OBVIOUS
  <2>5. PICK h : h = SubSeq(Peek(b), 1, n)
    OBVIOUS
  <2>6. h \in Seq(OutBytes) /\ Retrieve(b, n) \in Buffers(OutBytes)
    <3>1. Peek(b) \in Seq(OutBytes) /\ Len(Peek(b)) = ReadableBytes(b) /\ ReadableBytes(b) \in Nat
      BY <2>3, <2>4, PeekOf
    <3>2. n \in Nat /\ n <= Len(Peek(b)) /\ n \in 0..ReadableBytes(b)
      BY <2>4, <3>1
    <3>3. SubSeq(Peek(b), 0 + 1, n) \in Seq(OutBytes)
      BY <3>1, <3>2, Between
    <3>4. Retrieve(b, n) \in Buffers(OutBytes)
      BY <2>3, <2>4, <3>2, RetrieveDrops
    <3> QED BY <2>5, <3>3, <3>4
  <2>7. PICK v : v = k.wire \o h
    OBVIOUS
  <2>8. v \in Seq(OutBytes)
    BY <2>3, <2>6, <2>7, ConcatProperties
  <2>9. PICK o : o = Retrieve(b, n)
    OBVIOUS
  <2>10. PICK c : c = [k EXCEPT !.wire = v, !.outputBuffer = o]
    OBVIOUS
  <2>11. /\ c \in Conns /\ c.state = k.state /\ c.inputBuffer = k.inputBuffer
         /\ c.wire = v /\ c.outputBuffer = o
         /\ c.events = k.events /\ c.index = k.index /\ c.fin = k.fin
    BY <2>6, <2>8, <2>9, <2>10 DEF Conns
  <2>12. c = W(n)
    BY <2>4, <2>5, <2>7, <2>9, <2>10
  <2>13. v = k.wire \o SubSeq(Peek(k.outputBuffer), 1, n) /\ o = Retrieve(k.outputBuffer, n)
    BY <2>4, <2>5, <2>7, <2>9
  <2>14. "out" \in k.events /\ ~k.fin
    BY <1>2 DEF Broken
  <2> HIDE DEF W
  <2>15. CASE ReadableBytes(o) # 0
    <3>1. j = c
      BY <2>2, <2>11, <2>12, <2>15
    <3> QED BY <2>11, <2>13, <2>14, <2>15, <3>1
  <2>16. CASE ReadableBytes(o) = 0
    <3>1. PICK E : E = k.events \ {"out"}
      OBVIOUS
    <3>2. E \in SUBSET {"in", "out"} /\ "out" \notin E
      BY <2>3, <3>1
    <3>3. PICK d : d = UpdateChannel(c, E)
      OBVIOUS
    <3>4. /\ d \in Conns /\ d.state = c.state /\ d.fin = c.fin /\ d.wire = c.wire
          /\ d.inputBuffer = c.inputBuffer /\ d.outputBuffer = c.outputBuffer
          /\ d.events = E
          /\ d.index = IF c.index = "kAdded" /\ E = {} THEN "kDeleted" ELSE "kAdded"
      BY <2>11, <3>2, <3>3, UpdateChannelOf
    <3>5. d = DisableWriting(c)
      BY <2>11, <3>1, <3>3 DEF DisableWriting
    <3>6. CASE c.state = "kDisconnecting"
      <4>1. j = [d EXCEPT !.fin = TRUE]
        BY <2>2, <2>11, <2>12, <2>16, <3>2, <3>4, <3>5, <3>6 DEF ShutdownInLoop
      <4>2. /\ j \in Conns /\ j.state = d.state /\ j.fin = TRUE /\ j.wire = d.wire
            /\ j.inputBuffer = d.inputBuffer /\ j.outputBuffer = d.outputBuffer
            /\ j.events = d.events /\ j.index = d.index
        BY <3>4, <4>1 DEF Conns
      <4>3. /\ j.state = k.state /\ j.wire = v /\ j.inputBuffer = k.inputBuffer
            /\ j.outputBuffer = o /\ j.events = k.events \ {"out"} /\ "out" \notin j.events
            /\ j.index = IF k.index = "kAdded" /\ k.events \ {"out"} = {}
                         THEN "kDeleted" ELSE "kAdded"
        BY <2>11, <3>1, <3>2, <3>4, <4>2
      <4>4. k.state = "kDisconnecting"
        BY <2>11, <3>6
      <4> QED BY <2>13, <2>14, <2>16, <4>2, <4>3, <4>4
    <3>7. CASE c.state # "kDisconnecting"
      <4>1. j = d
        BY <2>2, <2>11, <2>12, <2>16, <3>5, <3>7
      <4> QED BY <2>11, <2>13, <2>14, <2>16, <3>1, <3>2, <3>4, <3>7, <4>1
    <3> QED BY <3>6, <3>7
  <2> QED BY <2>15, <2>16
<1> QED BY <1>1, <1>2

-----------------------------------------------------------------------------
(* One read: the bytes of q that readFd takes, the buffer before the message  *)
(* callback and the connection after it has taken everything.                 *)
OneRead(c, q, n, b, k) ==
    /\ n = Min({Len(q), ReadLimit(c.inputBuffer)})
    /\ b = ReadFd(c.inputBuffer, SubSeq(q, 1, n))
    /\ k = [c EXCEPT !.inputBuffer = RetrieveAll(b)]

LEMMA OneReadOf ==
  ASSUME NEW c \in Conns, NEW q \in Seq(InBytes), NEW n, NEW b, NEW k, OneRead(c, q, n, b, k)
  PROVE  /\ n \in 0..Len(q)
         /\ SubSeq(q, 1, n) \in Seq(InBytes) /\ SubSeq(q, n + 1, Len(q)) \in Seq(InBytes)
         /\ b \in Buffers(InBytes) /\ Peek(b) \in Seq(InBytes)
         /\ Peek(b) = Peek(c.inputBuffer) \o SubSeq(q, 1, n)
         /\ k \in Conns /\ k.state = c.state /\ k.events = c.events /\ k.index = c.index
         /\ k.fin = c.fin /\ k.wire = c.wire /\ k.outputBuffer = c.outputBuffer
         /\ Peek(k.inputBuffer) = <<>>
<1>1. c.inputBuffer \in Buffers(InBytes) /\ Len(q) \in Nat /\ ZeroByte \in InBytes
  BY LenProperties DEF Conns, InBytes
<1>2. ReadLimit(c.inputBuffer) \in Nat
  BY <1>1, BufferTypes, BufferAssumption DEF ReadLimit, WritableBytes
<1>3. n \in 0..Len(q)
  <2>1. n = CHOOSE x \in {Len(q), ReadLimit(c.inputBuffer)} :
              \A y \in {Len(q), ReadLimit(c.inputBuffer)} : x =< y
    BY DEF OneRead, Min
  <2>2. \E x \in {Len(q), ReadLimit(c.inputBuffer)} :
              \A y \in {Len(q), ReadLimit(c.inputBuffer)} : x =< y
    BY <1>1, <1>2
  <2>3. n \in {Len(q), ReadLimit(c.inputBuffer)} /\ n <= Len(q)
    BY <2>1, <2>2
  <2> QED BY <1>1, <1>2, <2>3
<1>4. n \in Nat /\ n <= Len(q)
  BY <1>1, <1>3
<1>5. SubSeq(q, 1, n) \in Seq(InBytes)
  <2>1. SubSeq(q, 0 + 1, n) \in Seq(InBytes)
    BY <1>4, Between
  <2> QED BY <2>1
<1>6. SubSeq(q, n + 1, Len(q)) \in Seq(InBytes)
  BY <1>1, <1>4, Between
<1>7. b \in Buffers(InBytes) /\ Peek(b) = Peek(c.inputBuffer) \o SubSeq(q, 1, n)
  <2>1. PICK h : h = SubSeq(q, 1, n)
    OBVIOUS
  <2>2. PICK i : i = c.inputBuffer
    OBVIOUS
  <2>3. b = ReadFd(i, h)
    BY <2>1, <2>2 DEF OneRead
  <2>4. h \in Seq(InBytes) /\ i \in Buffers(InBytes) /\ ZeroByte \in InBytes
    BY <1>1, <1>5, <2>1, <2>2
  <2>5. ReadFd(i, h) \in Buffers(InBytes) /\ Peek(ReadFd(i, h)) = Peek(i) \o h
    BY ONLY <2>4, ReadFdIsConcatenation
  <2> QED BY <2>1, <2>2, <2>3, <2>5
<1>8. PICK r : r = RetrieveAll(b)
  OBVIOUS
<1>9. r \in Buffers(InBytes) /\ Peek(r) = <<>>
  BY <1>7, <1>8, RetrieveAllEmpties
<1>10. k = [c EXCEPT !.inputBuffer = r]
  BY <1>8 DEF OneRead
<1>11. /\ k \in Conns /\ k.state = c.state /\ k.events = c.events /\ k.index = c.index
       /\ k.fin = c.fin /\ k.wire = c.wire /\ k.outputBuffer = c.outputBuffer
       /\ k.inputBuffer = r
  BY <1>9, <1>10 DEF Conns
<1>12. Peek(b) \in Seq(InBytes)
  BY <1>7, PeekOf
<1> QED BY <1>3, <1>5, <1>6, <1>7, <1>9, <1>11, <1>12

(* What the message callback does with the connection it got. *)
Callback(l, k) ==
    \/ /\ conn' = k
       /\ entry' \in (IF app.pc = "idle" THEN BOOLEAN ELSE {entry})
       /\ UNCHANGED <<pending, wakefd, unsent>>
    \/ /\ \E m \in unsent : /\ k.state = "kConnected"
                            /\ conn' \in SendInLoop(k, Bytes(m))
                            /\ unsent' = unsent \ {m}
       /\ UNCHANGED <<pending, wakefd, entry>>
    \/ /\ conn' = Shutdown(k)
       /\ UNCHANGED <<pending, wakefd, entry, unsent>>
    \/ /\ conn' = [k EXCEPT !.state = "kDisconnecting"]
       /\ QueueInLoop(l, l, Functor("forceCloseInLoop"))
       /\ UNCHANGED <<entry, unsent>>

LEMMA ReadStep ==
  ASSUME NEW l, HandleRead(l)
  PROVE  /\ Reading(l) /\ Handled(l, "in") /\ rcvq # <<>>
         /\ \E n, b, k : /\ OneRead(conn, rcvq, n, b, k)
                         /\ rcvq' = SubSeq(rcvq, n + 1, Len(rcvq))
                         /\ received' = received \o Peek(b)
                         /\ Callback(l, k)
         /\ UNCHANGED <<at, batch, waking, pool, io, connections, closing,
                        peer, sockerr, peer_sent, app>>
<1> DEFINE n == Min({Len(rcvq), ReadLimit(conn.inputBuffer)})
           b == ReadFd(conn.inputBuffer, SubSeq(rcvq, 1, n))
           k == [conn EXCEPT !.inputBuffer = RetrieveAll(b)]
<1>1. OneRead(conn, rcvq, n, b, k)
  BY DEF OneRead
<1>2. rcvq' = SubSeq(rcvq, n + 1, Len(rcvq)) /\ received' = received \o Peek(b)
  BY DEF HandleRead
<1>3. Callback(l, k)
  BY Zenon DEF HandleRead, Callback
<1>4. Reading(l) /\ Handled(l, "in") /\ rcvq # <<>>
  BY DEF HandleRead
<1>5. UNCHANGED <<at, batch, waking, pool, io, connections, closing,
                  peer, sockerr, peer_sent, app>>
  BY DEF HandleRead
<1> HIDE DEF n, b, k
<1> QED BY <1>1, <1>2, <1>3, <1>4, <1>5

LEMMA BytesOf ==
  ASSUME NEW m \in Msgs
  PROVE  Bytes(m) \in Seq(OutBytes) /\ Len(Bytes(m)) = m /\ m \in Nat /\ m # 0
<1>1. m \in Nat /\ m # 0
  BY ConnectionAssumption
<1>2. Bytes(m) \in [1..m -> OutBytes]
  BY <1>1 DEF Bytes, OutBytes
<1>3. Bytes(m) \in Seq(OutBytes)
  BY <1>1, <1>2, SeqDef
<1>4. DOMAIN Bytes(m) = 1..m /\ DOMAIN Bytes(m) = 1..Len(Bytes(m)) /\ Len(Bytes(m)) \in Nat
  BY <1>3, LenProperties DEF Bytes
<1> QED BY <1>1, <1>3, <1>4

(* queueInLoop() of functor f to loop l. *)
LEMMA QueueOf ==
  ASSUME TypeInv, NEW t \in Threads, NEW l \in Loops, NEW f \in Functors, QueueInLoop(t, l, f)
  PROVE  /\ pending' \in [Loops -> Seq(Functors)] /\ wakefd' \in [Loops -> BOOLEAN]
         /\ waking' \in [Threads -> Loops \cup {NoLoop}]
         /\ pending'[l] = Append(pending[l], f)
         /\ \A k \in Loops : k # l => pending'[k] = pending[k]
         /\ \A k \in Loops : wakefd[k] => wakefd'[k]
         /\ \A u \in Threads : u # t => waking'[u] = waking[u]
         /\ \/ t # l /\ waking'[t] = l
            \/ t = l /\ waking'[t] = waking[t] /\ (at[l] = "functors" => wakefd'[l])
<1>1. Append(pending[l], f) \in Seq(Functors)
  BY AppendRange DEF TypeInv
<1>2. pending' = [pending EXCEPT ![l] = Append(pending[l], f)]
  BY DEF QueueInLoop
<1>3. /\ pending' \in [Loops -> Seq(Functors)] /\ pending'[l] = Append(pending[l], f)
      /\ \A k \in Loops : k # l => pending'[k] = pending[k]
  BY <1>1, <1>2 DEF TypeInv
<1>4. CASE t = l
  <2>1. wakefd' = [wakefd EXCEPT ![l] = wakefd[l] \/ at[l] = "functors"] /\ waking' = waking
    BY <1>4 DEF QueueInLoop
  <2>2. /\ wakefd' \in [Loops -> BOOLEAN] /\ (at[l] = "functors" => wakefd'[l])
        /\ \A k \in Loops : wakefd[k] => wakefd'[k]
    BY <2>1 DEF TypeInv
  <2> QED BY <1>3, <1>4, <2>1, <2>2 DEF TypeInv
<1>5. CASE t # l
  <2>1. waking' = [waking EXCEPT ![t] = l] /\ wakefd' = wakefd
    BY <1>5 DEF QueueInLoop
  <2> QED BY <1>3, <1>5, <2>1 DEF TypeInv
<1> QED BY <1>4, <1>5

(* A functor that runs is the first of its loop's batch, which then loses it. *)
LEMMA RunOf ==
  ASSUME TypeInv, NEW l \in Loops, NEW op, Running(l, op), Ran(l)
  PROVE  /\ at[l] = "functors" /\ waking[l] = NoLoop
         /\ Head(batch[l]) \in At(l) /\ Head(batch[l]) \in Functors /\ Head(batch[l]).op = op
         /\ batch[l] \in Seq(Functors) /\ batch[l] # <<>>
         /\ batch' \in [Loops -> Seq(Functors)] /\ batch'[l] = Tail(batch[l])
         /\ \A k \in Loops : k # l => batch'[k] = batch[k]
<1>1. at[l] = "functors" /\ waking[l] = NoLoop /\ batch[l] # <<>> /\ Head(batch[l]).op = op
  BY DEF Running
<1>2. batch[l] \in Seq(Functors)
  BY DEF TypeInv
<1>3. /\ Tail(batch[l]) \in Seq(Functors) /\ Head(batch[l]) \in Functors
      /\ Head(batch[l]) \in Range(batch[l])
  BY <1>1, <1>2, TailRange
<1>4. /\ batch' \in [Loops -> Seq(Functors)] /\ batch'[l] = Tail(batch[l])
      /\ \A k \in Loops : k # l => batch'[k] = batch[k]
  BY <1>3 DEF TypeInv, Ran
<1> QED BY <1>1, <1>2, <1>3, <1>4 DEF At

LEMMA QueuedTypes ==
  ASSUME TypeInv, NEW l \in Loops, NEW f \in At(l)
  PROVE  f \in Functors /\ f.op \in Ops
<1>1. PICK p : p = pending[l]
  OBVIOUS
<1>2. PICK b : b = batch[l]
  OBVIOUS
<1>3. p \in Seq(Functors) /\ b \in Seq(Functors)
  BY <1>1, <1>2 DEF TypeInv
<1>4. f \in Range(p) \/ f \in Range(b)
  BY <1>1, <1>2 DEF At
<1>5. f \in Functors
  BY <1>3, <1>4, RangeOf
<1> QED BY <1>5 DEF Functors

LEMMA FunctorTypes == \A op \in Ops : Functor(op) \in Functors
  BY DEF Functor, Functors

LEMMA IoKnown ==
  ASSUME TypeInv, LifeInv
  PROVE  /\ Observer \in Threads /\ Loops \subseteq Threads /\ Observer \notin Loops
         /\ BaseLoop \in Loops /\ NoLoop \notin Loops
         /\ app.pc # "idle" => io \in Loops
         /\ closing => io \in Loops
         /\ conn.state # "none" => io \in Loops
<1>1. conn.state # "none" => io \in Loops
  BY DEF TypeInv, LifeInv, Phases
<1>2. Up \/ closing => conn.state # "none"
  BY DEF LifeInv, Phases, Up
<1>3. app.pc # "idle" => Up \/ closing
  BY DEF LifeInv, InUse
<1> QED BY <1>1, <1>2, <1>3, ConnectionAssumption, ThreadAssumption DEF Threads

-----------------------------------------------------------------------------
LEMMA TypeInit == Init => TypeInv
<1> SUFFICES ASSUME Init PROVE TypeInv
  OBVIOUS
<1>1. NewBuffer \in Buffers(InBytes) /\ NewBuffer \in Buffers(OutBytes)
  BY NewBufferEmpty DEF InBytes, OutBytes
<1>2. conn \in Conns
  BY <1>1, EmptySeq DEF Init, Conns, States
<1>3. <<>> \in Seq(Functors) /\ <<>> \in Seq(InBytes)
  BY EmptySeq
<1>4. Idle \in [pc : {"idle", "push", "wake"}, msg : Msgs \cup {ZeroByte}]
  BY DEF Idle
<1>5. /\ at \in [Loops -> {"poll", "events", "functors"}]
      /\ active \in [Loops -> SUBSET {"wakeup", "accept", "err", "in", "out"}]
      /\ pending \in [Loops -> Seq(Functors)] /\ batch \in [Loops -> Seq(Functors)]
      /\ wakefd \in [Loops -> BOOLEAN] /\ waking \in [Threads -> Loops \cup {NoLoop}]
  BY <1>3 DEF Init, LoopInit
<1>6. peer_sent \in 0..MaxIn
  BY ConnectionAssumption DEF Init
<1> QED BY <1>2, <1>3, <1>4, <1>5, <1>6 DEF Init, TypeInv

LEMMA LoopTypes ==
  ASSUME TypeInv, NEW l \in Loops,
         \/ PollLoop(l) \/ LoopOnly(Wakeup(l)) \/ LoopOnly(HandleWakeup(l))
         \/ LoopOnly(DoPendingFunctors(l)) \/ LoopOnly(EndFunctors(l))
  PROVE  TypeInv'
<1> USE DEF connVars, peerVars, appVars
<1>1. CASE PollLoop(l)
  <2>1. PICK writable \in BOOLEAN : Poll(l, Ready(l, writable))
    BY <1>1 DEF PollLoop
  <2>2. Ready(l, writable) \subseteq {"wakeup", "accept", "err", "in", "out"}
    BY DEF Ready
  <2>3. UNCHANGED <<pending, batch, wakefd, waking, connVars, peerVars, appVars>>
    BY <1>1, <2>1 DEF PollLoop, Poll
  <2>4. at' = [at EXCEPT ![l] = "events"]
        /\ active' = [active EXCEPT ![l] = Ready(l, writable) \cup {e \in {"wakeup"} : wakefd[l]}]
    BY <2>1 DEF Poll
  <2>5. at' \in [Loops -> {"poll", "events", "functors"}]
    BY <2>4 DEF TypeInv
  <2>6. active' \in [Loops -> SUBSET {"wakeup", "accept", "err", "in", "out"}]
    BY <2>2, <2>4 DEF TypeInv
  <2> QED BY <2>3, <2>5, <2>6 DEF TypeInv
<1>2. CASE LoopOnly(Wakeup(l))
  <2>1. l \in Threads
    BY DEF Threads
  <2> QED BY <1>2, <2>1 DEF LoopOnly, Wakeup, TypeInv
<1>3. CASE LoopOnly(HandleWakeup(l))
  BY <1>3 DEF LoopOnly, HandleWakeup, Handled, TypeInv
<1>4. CASE LoopOnly(DoPendingFunctors(l))
  <2>1. <<>> \in Seq(Functors)
    BY EmptySeq
  <2> QED BY <1>4, <2>1 DEF LoopOnly, DoPendingFunctors, TypeInv
<1>5. CASE LoopOnly(EndFunctors(l))
  BY <1>5 DEF LoopOnly, EndFunctors, TypeInv
<1> QED BY <1>1, <1>2, <1>3, <1>4, <1>5

LEMMA ReadTypes ==
  ASSUME TypeInv, NEW l \in Loops, HandleRead(l)
  PROVE  TypeInv'
<1>1. PICK n, b, k : /\ OneRead(conn, rcvq, n, b, k)
                     /\ rcvq' = SubSeq(rcvq, n + 1, Len(rcvq))
                     /\ received' = received \o Peek(b)
                     /\ Callback(l, k)
  BY ReadStep
<1>2. /\ UNCHANGED <<at, batch, waking, pool, io, connections, closing,
                     peer, sockerr, peer_sent, app>>
      /\ Handled(l, "in")
  BY ReadStep
<1>3. PICK c : c = conn
  OBVIOUS
<1>4. PICK q : q = rcvq
  OBVIOUS
<1>5. c \in Conns /\ q \in Seq(InBytes) /\ received \in Seq(InBytes)
  BY <1>3, <1>4 DEF TypeInv
<1>6. k \in Conns /\ Peek(b) \in Seq(InBytes) /\ SubSeq(q, n + 1, Len(q)) \in Seq(InBytes)
  <2>1. OneRead(c, q, n, b, k)
    BY <1>1, <1>3, <1>4
  <2> QED BY <1>5, <2>1, OneReadOf
<1>7. rcvq' \in Seq(InBytes)
  BY <1>1, <1>4, <1>6
<1>8. received' \in Seq(InBytes)
  BY <1>1, <1>5, <1>6, ConcatProperties
<1>9. active' \in [Loops -> SUBSET {"wakeup", "accept", "err", "in", "out"}]
  BY <1>2 DEF Handled, TypeInv
<1>10. /\ conn' \in Conns /\ entry' \in BOOLEAN /\ unsent' \subseteq Msgs
       /\ pending' \in [Loops -> Seq(Functors)] /\ wakefd' \in [Loops -> BOOLEAN]
  <2>1. CASE /\ conn' = k /\ entry' \in (IF app.pc = "idle" THEN BOOLEAN ELSE {entry})
             /\ UNCHANGED <<pending, wakefd, unsent>>
    BY <1>6, <2>1 DEF TypeInv
  <2>2. CASE /\ \E m \in unsent : /\ k.state = "kConnected"
                                  /\ conn' \in SendInLoop(k, Bytes(m))
                                  /\ unsent' = unsent \ {m}
             /\ UNCHANGED <<pending, wakefd, entry>>
    <3>1. PICK m \in unsent : conn' \in SendInLoop(k, Bytes(m)) /\ unsent' = unsent \ {m}
      BY <2>2
    <3>2. m \in Msgs
      BY DEF TypeInv
    <3>3. PICK data : data = Bytes(m)
      OBVIOUS
    <3>4. data \in Seq(OutBytes)
      BY <3>2, <3>3, BytesOf
    <3>5. PICK j : j = conn'
      OBVIOUS
    <3>6. j \in SendInLoop(k, data)
      BY <3>1, <3>3, <3>5
    <3>7. j \in Conns
      BY <1>6, <3>4, <3>6, SendInLoopOf
    <3> QED BY <2>2, <3>1, <3>5, <3>7 DEF TypeInv
  <2>3. CASE conn' = Shutdown(k) /\ UNCHANGED <<pending, wakefd, entry, unsent>>
    <3>1. PICK j : j = conn'
      OBVIOUS
    <3>2. j \in Conns
      BY <1>6, <2>3, <3>1, ShutdownOf
    <3> QED BY <2>3, <3>1, <3>2 DEF TypeInv
  <2>4. CASE /\ conn' = [k EXCEPT !.state = "kDisconnecting"]
             /\ QueueInLoop(l, l, Functor("forceCloseInLoop"))
             /\ UNCHANGED <<entry, unsent>>
    <3>1. conn' \in Conns
      BY <1>6, <2>4 DEF Conns, States
    <3>2. l \in Threads /\ Functor("forceCloseInLoop") \in Functors
      BY FunctorTypes DEF Threads, Ops
    <3>3. pending' \in [Loops -> Seq(Functors)] /\ wakefd' \in [Loops -> BOOLEAN]
      BY <2>4, <3>2, QueueOf
    <3> QED BY <2>4, <3>1, <3>3 DEF TypeInv
  <2> QED BY <1>1, <2>1, <2>2, <2>3, <2>4 DEF Callback
<1> QED BY <1>2, <1>7, <1>8, <1>9, <1>10 DEF TypeInv

LEMMA TypeStep ==
  ASSUME TypeInv, LifeInv, Next
  PROVE  TypeInv'
<1> USE DEF connVars, peerVars, appVars
<1>k. /\ Observer \in Threads /\ Loops \subseteq Threads /\ BaseLoop \in Loops
      /\ (app.pc # "idle" => io \in Loops) /\ (closing => io \in Loops)
      /\ (conn.state # "none" => io \in Loops)
  BY IoKnown
<1>f. \A op \in Ops : Functor(op) \in Functors
  BY FunctorTypes
<1>1. ASSUME NEW l \in Loops, CloseCallbacks(l) PROVE TypeInv'
  <2>1. UNCHANGED <<at, active, batch, pool, io, conn, peerVars, app, unsent, received>>
        /\ closing' = FALSE /\ entry' = FALSE /\ connections' \in {FALSE, connections}
    BY <1>1, Zenon DEF CloseCallbacks
  <2>2. /\ pending' \in [Loops -> Seq(Functors)] /\ wakefd' \in [Loops -> BOOLEAN]
        /\ waking' \in [Threads -> Loops \cup {NoLoop}]
    <3>1. CASE l = BaseLoop
      <4>1. QueueInLoop(l, l, Functor("connectDestroyed"))
        BY <1>1, <3>1 DEF CloseCallbacks
      <4> QED BY <1>k, <1>f, <4>1, QueueOf DEF Ops
    <3>2. CASE l # BaseLoop
      <4>1. QueueInLoop(l, BaseLoop, Functor("removeConnectionInLoop"))
        BY <1>1, <3>2 DEF CloseCallbacks
      <4> QED BY <1>k, <1>f, <4>1, QueueOf DEF Ops
    <3> QED BY <3>1, <3>2
  <2> QED BY <2>1, <2>2 DEF TypeInv
<1>2. ASSUME HandleAccept PROVE TypeInv'
  <2>1. PICK l \in NextLoops :
          /\ io' = l
          /\ IF l = BaseLoop
             THEN /\ conn' = EnableReading([conn EXCEPT !.state = "kConnected"])
                  /\ UNCHANGED <<pending, wakefd, waking>>
             ELSE /\ conn' = [conn EXCEPT !.state = "kConnecting"]
                  /\ QueueInLoop(BaseLoop, l, Functor("connectEstablished"))
    BY <1>2 DEF HandleAccept
  <2>2. l \in Loops
    BY ConnectionAssumption DEF NextLoops, TypeInv
  <2>3. /\ UNCHANGED <<at, batch, pool, closing, rcvq, sockerr, peer_sent, appVars>>
        /\ connections' = TRUE /\ peer' = "open"
        /\ active' = [active EXCEPT ![BaseLoop] = @ \ {"accept"}]
    BY <1>2 DEF HandleAccept, AcceptPeer, Handled
  <2>4. active' \in [Loops -> SUBSET {"wakeup", "accept", "err", "in", "out"}]
    BY <1>k, <2>3 DEF TypeInv
  <2>5. CASE l = BaseLoop
    <3>1. PICK k : k = conn
      OBVIOUS
    <3>2. PICK j : j = conn'
      OBVIOUS
    <3>3. j = EnableReading([k EXCEPT !.state = "kConnected"]) /\ k \in Conns
      BY <2>1, <2>5, <3>1, <3>2 DEF TypeInv
    <3>4. j \in Conns
      BY <3>3, EnableReadingOf
    <3> QED BY <2>1, <2>2, <2>3, <2>4, <2>5, <3>2, <3>4 DEF TypeInv
  <2>6. CASE l # BaseLoop
    <3>1. conn' \in Conns
      BY <2>1, <2>6, ZenonT(60) DEF TypeInv, Conns, States
    <3>2. /\ pending' \in [Loops -> Seq(Functors)] /\ wakefd' \in [Loops -> BOOLEAN]
          /\ waking' \in [Threads -> Loops \cup {NoLoop}]
      BY <1>k, <1>f, <2>1, <2>2, <2>6, QueueOf DEF Ops
    <3> QED BY <2>1, <2>2, <2>3, <2>4, <3>1, <3>2 DEF TypeInv
  <2> QED BY <2>5, <2>6
<1>3. ASSUME NEW l \in Loops, HandleError(l) \/ HandleReadError(l) PROVE TypeInv'
  <2>1. /\ UNCHANGED <<at, pending, batch, wakefd, waking, connVars, peer, rcvq, peer_sent, appVars>>
        /\ sockerr' = FALSE /\ \E e \in {"err", "in"} : active' = [active EXCEPT ![l] = @ \ {e}]
    BY <1>3 DEF HandleError, HandleReadError, Handled
  <2>2. active' \in [Loops -> SUBSET {"wakeup", "accept", "err", "in", "out"}]
    BY <2>1 DEF TypeInv
  <2> QED BY <2>1, <2>2 DEF TypeInv
<1>4. ASSUME NEW l \in Loops, HandleReadEnd(l) PROVE TypeInv'
  <2>1. PICK k : k = conn
    OBVIOUS
  <2>2. PICK j : j = conn'
    OBVIOUS
  <2>3. j = Closed(k) /\ k \in Conns
    BY <1>4, <2>1, <2>2 DEF HandleReadEnd, TypeInv
  <2>4. conn' \in Conns
    BY <2>2, <2>3, ClosedOf
  <2>5. active' \in [Loops -> SUBSET {"wakeup", "accept", "err", "in", "out"}]
    BY <1>4 DEF HandleReadEnd, Handled, TypeInv
  <2>6. closing' = TRUE /\ UNCHANGED <<at, pending, batch, wakefd, waking, pool, io, connections,
                                       peerVars, appVars>>
    BY <1>4 DEF HandleReadEnd
  <2> QED BY <2>4, <2>5, <2>6 DEF TypeInv
<1>5. ASSUME NEW l \in Loops, HandleWrite(l) PROVE TypeInv'
  <2>1. PICK k : k = conn
    OBVIOUS
  <2>2. PICK j : j = conn'
    OBVIOUS
  <2>3. j \in WriteResults(k) /\ k \in Conns
    BY <1>5, <2>1, <2>2 DEF HandleWrite, TypeInv
  <2>4. conn' \in Conns
    BY <2>2, <2>3, WriteResultsOf
  <2>5. active' \in [Loops -> SUBSET {"wakeup", "accept", "err", "in", "out"}]
    BY <1>5 DEF HandleWrite, Handled, TypeInv
  <2>6. UNCHANGED <<at, pending, batch, wakefd, waking, pool, io, connections, closing,
                    peerVars, appVars>>
    BY <1>5 DEF HandleWrite
  <2> QED BY <2>4, <2>5, <2>6 DEF TypeInv
<1>6. ASSUME NEW l \in Loops, ConnectEstablished(l) PROVE TypeInv'
  <2>1. PICK k : k = conn
    OBVIOUS
  <2>2. PICK j : j = conn'
    OBVIOUS
  <2>3. j = EnableReading([k EXCEPT !.state = "kConnected"]) /\ k \in Conns
    BY <1>6, <2>1, <2>2 DEF ConnectEstablished, TypeInv
  <2>4. conn' \in Conns
    BY <2>2, <2>3, EnableReadingOf
  <2>5. batch' \in [Loops -> Seq(Functors)]
    BY <1>6, RunOf DEF ConnectEstablished
  <2>6. UNCHANGED <<at, active, pending, wakefd, waking, pool, io, connections, closing,
                    peerVars, appVars>>
    BY <1>6 DEF ConnectEstablished
  <2> QED BY <2>4, <2>5, <2>6 DEF TypeInv
<1>7. ASSUME NEW l \in Loops, RunSendInLoop(l) PROVE TypeInv'
  <2>1. PICK k : k = conn
    OBVIOUS
  <2>2. PICK j : j = conn'
    OBVIOUS
  <2>3. PICK data : data = Bytes(Head(batch[l]).msg)
    OBVIOUS
  <2>4. j \in SendInLoop(k, data) /\ k \in Conns
    BY <1>7, <2>1, <2>2, <2>3 DEF RunSendInLoop, TypeInv
  <2>5. /\ batch' \in [Loops -> Seq(Functors)]
        /\ Head(batch[l]) \in At(l) /\ Head(batch[l]).op = "sendInLoop"
    BY <1>7, RunOf DEF RunSendInLoop
  <2>6. Head(batch[l]).msg \in Msgs
    BY <2>5 DEF LifeInv, FunctorsOK, FunctorOK
  <2>7. data \in Seq(OutBytes)
    BY <2>3, <2>6, BytesOf
  <2>8. conn' \in Conns
    BY <2>2, <2>4, <2>7, SendInLoopOf
  <2>9. UNCHANGED <<at, active, pending, wakefd, waking, pool, io, connections, closing,
                    peerVars, appVars>>
    BY <1>7 DEF RunSendInLoop
  <2> QED BY <2>5, <2>8, <2>9 DEF TypeInv
<1>8. ASSUME NEW l \in Loops, ForceCloseInLoop(l) PROVE TypeInv'
  <2>1. PICK k : k = conn
    OBVIOUS
  <2>2. PICK j : j = conn'
    OBVIOUS
  <2>3. (j = Closed(k) /\ closing' = TRUE) \/ (j = k /\ closing' = closing)
    BY <1>8, <2>1, <2>2 DEF ForceCloseInLoop
  <2>4. conn' \in Conns /\ closing' \in BOOLEAN
    BY <2>1, <2>2, <2>3, ClosedOf DEF TypeInv
  <2>5. batch' \in [Loops -> Seq(Functors)]
    BY <1>8, RunOf DEF ForceCloseInLoop
  <2>6. UNCHANGED <<at, active, pending, wakefd, waking, pool, io, connections,
                    peerVars, appVars>>
    BY <1>8 DEF ForceCloseInLoop
  <2> QED BY <2>4, <2>5, <2>6 DEF TypeInv
<1>9. ASSUME NEW l \in Loops, RemoveConnectionInLoop(l) PROVE TypeInv'
  <2>1. /\ batch' \in [Loops -> Seq(Functors)]
        /\ Head(batch[l]) \in At(l) /\ Head(batch[l]).op = "removeConnectionInLoop"
    BY <1>9, RunOf DEF RemoveConnectionInLoop
  <2>2. io \in Loops
    BY <1>k, <2>1 DEF LifeInv, FunctorsOK, FunctorOK
  <2>3. QueueInLoop(l, io, Functor("connectDestroyed"))
    BY <1>9 DEF RemoveConnectionInLoop
  <2>4. PICK i : i = io
    OBVIOUS
  <2>5. /\ pending' \in [Loops -> Seq(Functors)] /\ wakefd' \in [Loops -> BOOLEAN]
        /\ waking' \in [Threads -> Loops \cup {NoLoop}]
    <3>1. i \in Loops /\ QueueInLoop(l, i, Functor("connectDestroyed"))
      BY <2>2, <2>3, <2>4
    <3> QED BY <1>k, <1>f, <3>1, QueueOf DEF Ops
  <2>6. connections' = FALSE /\ UNCHANGED <<at, active, pool, io, conn, closing, peerVars, appVars>>
    BY <1>9 DEF RemoveConnectionInLoop
  <2> QED BY <2>1, <2>5, <2>6 DEF TypeInv
<1>10. ASSUME NEW l \in Loops, ConnectDestroyed(l) PROVE TypeInv'
  <2>1. batch' \in [Loops -> Seq(Functors)]
    BY <1>10, RunOf DEF ConnectDestroyed
  <2>2. conn' \in Conns
    BY <1>10 DEF ConnectDestroyed, RemoveChannel, TypeInv, Conns
  <2>3. UNCHANGED <<at, active, pending, wakefd, waking, pool, io, connections, closing,
                    peerVars, appVars>>
    BY <1>10 DEF ConnectDestroyed
  <2> QED BY <2>1, <2>2, <2>3 DEF TypeInv
<1>11. ASSUME NEW m \in Msgs, ObserverSend(m) PROVE TypeInv'
  BY <1>11 DEF ObserverSend, loopVars, TypeInv
<1>12. ASSUME ObserverQueue PROVE TypeInv'
  <2>1. app.pc = "push" /\ QueueInLoop(Observer, io, [op |-> "sendInLoop", msg |-> app.msg])
        /\ app' = [app EXCEPT !.pc = "wake"]
        /\ UNCHANGED <<at, active, batch, connVars, peerVars, entry, unsent, received>>
    BY <1>12 DEF ObserverQueue
  <2>2. PICK f : f = [op |-> "sendInLoop", msg |-> app.msg]
    OBVIOUS
  <2>3. f \in Functors
    BY <2>2 DEF TypeInv, Functors, Ops
  <2>4. PICK i : i = io
    OBVIOUS
  <2>5. i \in Loops /\ QueueInLoop(Observer, i, f)
    BY <1>k, <2>1, <2>2, <2>4
  <2>6. /\ pending' \in [Loops -> Seq(Functors)] /\ wakefd' \in [Loops -> BOOLEAN]
        /\ waking' \in [Threads -> Loops \cup {NoLoop}]
    BY <1>k, <2>3, <2>5, QueueOf
  <2>7. app' \in [pc : {"idle", "push", "wake"}, msg : Msgs \cup {ZeroByte}]
    BY <2>1 DEF TypeInv
  <2> QED BY <2>1, <2>6, <2>7 DEF TypeInv
<1>13. ASSUME ObserverWake PROVE TypeInv'
  <2>1. wakefd' \in [Loops -> BOOLEAN] /\ waking' \in [Threads -> Loops \cup {NoLoop}]
    BY <1>k, <1>13 DEF ObserverWake, Wakeup, TypeInv
  <2>2. app' \in [pc : {"idle", "push", "wake"}, msg : Msgs \cup {ZeroByte}]
    BY <1>13 DEF ObserverWake, Idle
  <2>3. UNCHANGED <<at, active, pending, batch, connVars, peerVars, entry, unsent, received>>
    BY <1>13 DEF ObserverWake, Wakeup
  <2> QED BY <2>1, <2>2, <2>3 DEF TypeInv
<1>14. ASSUME PeerStep PROVE TypeInv'
  <2>1. CASE PeerSend
    <3>1. peer_sent + 1 \in InBytes /\ peer_sent' \in 0..MaxIn
      BY <2>1, ConnectionAssumption DEF PeerSend, InBytes, TypeInv
    <3>2. rcvq' \in Seq(InBytes)
      BY <2>1, <3>1, AppendProperties DEF PeerSend, TypeInv
    <3> QED BY <2>1, <3>1, <3>2 DEF PeerSend, loopVars, TypeInv
  <2>2. CASE PeerReset
    <3>1. <<>> \in Seq(InBytes)
      BY EmptySeq
    <3> QED BY <2>2, <3>1 DEF PeerReset, loopVars, TypeInv
  <2>3. CASE PeerConnect \/ PeerClose
    BY <2>3 DEF PeerConnect, PeerClose, loopVars, TypeInv
  <2> QED BY <1>14, <2>1, <2>2, <2>3 DEF PeerStep
<1>15. ASSUME NEW l \in Loops, LoopStep(l) PROVE TypeInv'
  BY <1>1, <1>2, <1>3, <1>4, <1>5, <1>6, <1>7, <1>8, <1>9, <1>10, <1>15, LoopTypes, ReadTypes
     DEF LoopStep
<1> QED BY <1>11, <1>12, <1>13, <1>14, <1>15 DEF Next, ObserverStep

-----------------------------------------------------------------------------
(* Steps within a phase of the connection's life: it stays up, or nothing the *)
(* life invariant speaks of changes.                                          *)
Steady ==
    /\ io' = io /\ closing' = closing /\ connections' = connections
    /\ closing => at'[io] # "poll"
    /\ peer' \in {"none", "arrived"} <=> peer \in {"none", "arrived"}
    /\ \/ conn'.state = conn.state /\ conn'.events = conn.events /\ conn'.index = conn.index
       \/ Up /\ Up' /\ "in" \in conn'.events /\ conn'.index = "kAdded"

(* A new functor is where it belongs and no removal is dropped. *)
QueuesKept ==
    \A l \in Loops :
        /\ \A f \in At(l)' : f \in At(l) \/ FunctorOK(l, f)'
        /\ \A f \in At(l) : f.op \in RemovalOps => f \in At(l)'

LEMMA SteadyLife ==
  ASSUME TypeInv, LifeInv, Steady, QueuesKept
  PROVE  Phases' /\ FunctorsOK' /\ Removal' /\ (Up' <=> Up)
<1>1. Up' <=> Up
  BY DEF Steady, Up
<1>2. Phases'
  <2>1. CASE conn'.state = conn.state /\ conn'.events = conn.events /\ conn'.index = conn.index
    BY <1>1, <2>1 DEF LifeInv, Phases, Steady
  <2>2. CASE Up /\ Up' /\ "in" \in conn'.events /\ conn'.index = "kAdded"
    BY <2>2 DEF LifeInv, Phases, Steady, Up
  <2> QED BY <2>1, <2>2 DEF Steady
<1>3. ASSUME NEW l \in Loops, NEW f \in At(l), FunctorOK(l, f)
      PROVE  FunctorOK(l, f)'
  <2>1. CASE conn'.state = conn.state /\ conn'.events = conn.events /\ conn'.index = conn.index
    BY <1>1, <1>3, <2>1 DEF FunctorOK, Steady
  <2>2. CASE Up /\ Up' /\ "in" \in conn'.events /\ conn'.index = "kAdded"
    BY <1>3, <2>2 DEF FunctorOK, Steady, Up
  <2> QED BY <2>1, <2>2 DEF Steady
<1>4. FunctorsOK'
  BY <1>3 DEF LifeInv, FunctorsOK, QueuesKept
<1>5. Removal'
  <2>1. CASE conn'.state = conn.state /\ conn'.events = conn.events /\ conn'.index = conn.index
    <3>1. \A l \in Loops : ToRemove(l) => ToRemove(l)'
      BY DEF ToRemove, QueuesKept
    <3> QED BY <2>1, <3>1 DEF LifeInv, Removal, Steady
  <2>2. CASE Up /\ Up'
    BY <2>2 DEF Removal, Up
  <2> QED BY <2>1, <2>2 DEF Steady
<1> QED BY <1>1, <1>2, <1>4, <1>5

(* One more functor behind a queue without a final one. *)
LEMMA QueueLast ==
  ASSUME TypeInv, LastFunctors, NEW t \in Threads, NEW l \in Loops, NEW f \in Functors,
         QueueInLoop(t, l, f), batch' = batch, \A g \in At(l) : g.op \notin FinalOps
  PROVE  /\ LastFunctors' /\ At(l)' = At(l) \cup {f}
         /\ \A k \in Loops : k # l => At(k)' = At(k)
<1>1. /\ pending'[l] = Append(pending[l], f)
      /\ \A k \in Loops : k # l => pending'[k] = pending[k]
  BY QueueOf
<1>2. PICK s : s = pending[l]
  OBVIOUS
<1>3. s \in Seq(Functors) /\ ~Final(s) /\ ~Final(batch[l])
  BY <1>2 DEF TypeInv, Final, At
<1>4. Range(Append(s, f)) = Range(s) \cup {f} /\ LastOf(Append(s, f))
  BY <1>3, AppendRange, LastAppend
<1>5. At(l)' = At(l) \cup {f}
  BY <1>1, <1>2, <1>4 DEF At
<1>6. \A k \in Loops : k # l => At(k)' = At(k)
  BY <1>1 DEF At
<1>7. LastFunctors'
  <2> SUFFICES ASSUME NEW k \in Loops
               PROVE  /\ LastOf(pending'[k]) /\ LastOf(batch'[k])
                      /\ Final(batch'[k]) => pending'[k] = <<>>
    BY DEF LastFunctors
  <2>1. CASE k = l
    BY <1>1, <1>2, <1>3, <1>4, <2>1 DEF LastFunctors
  <2>2. CASE k # l
    BY <1>1, <2>2 DEF LastFunctors
  <2> QED BY <2>1, <2>2
<1> QED BY <1>5, <1>6, <1>7

(* A functor runs; behind a final one nothing is left. *)
LEMMA RunLast ==
  ASSUME TypeInv, LastFunctors, NEW l \in Loops, NEW op, Running(l, op), Ran(l), pending' = pending
  PROVE  /\ LastFunctors'
         /\ At(l)' \subseteq At(l)
         /\ \A f \in At(l) : f \in At(l)' \/ f = Head(batch[l])
         /\ \A k \in Loops : k # l => At(k)' = At(k)
         /\ op \in FinalOps => At(l)' = {}
<1>1. /\ batch[l] \in Seq(Functors) /\ batch[l] # <<>> /\ batch'[l] = Tail(batch[l])
      /\ \A k \in Loops : k # l => batch'[k] = batch[k]
      /\ Head(batch[l]).op = op
  BY RunOf
<1>2. PICK s : s = batch[l]
  OBVIOUS
<1>3. s \in Seq(Functors) /\ s # <<>> /\ LastOf(s)
  BY <1>1, <1>2 DEF LastFunctors
<1>4. /\ LastOf(Tail(s)) /\ (Head(s).op \in FinalOps => Tail(s) = <<>>)
      /\ (Final(Tail(s)) => Final(s))
      /\ Head(s) \in Range(s) /\ Range(s) = {Head(s)} \cup Range(Tail(s))
  BY <1>3, LastTail, TailRange
<1>5. At(l)' \subseteq At(l) /\ \A f \in At(l) : f \in At(l)' \/ f = Head(batch[l])
  BY <1>1, <1>2, <1>4 DEF At
<1>6. \A k \in Loops : k # l => At(k)' = At(k)
  BY <1>1 DEF At
<1>7. LastFunctors'
  <2> SUFFICES ASSUME NEW k \in Loops
               PROVE  /\ LastOf(pending'[k]) /\ LastOf(batch'[k])
                      /\ Final(batch'[k]) => pending'[k] = <<>>
    BY DEF LastFunctors
  <2>1. CASE k = l
    BY <1>1, <1>2, <1>4, <2>1 DEF LastFunctors
  <2>2. CASE k # l
    BY <1>1, <2>2 DEF LastFunctors
  <2> QED BY <2>1, <2>2
<1>8. ASSUME op \in FinalOps PROVE At(l)' = {}
  <2>1. Tail(s) = <<>>
    BY <1>1, <1>2, <1>4, <1>8
  <2>2. Final(batch[l])
    BY <1>1, <1>2, <1>4, <1>8 DEF Final
  <2>3. pending[l] = <<>>
    BY <2>2 DEF LastFunctors
  <2> QED BY <1>1, <1>2, <2>1, <2>3, EmptyQueue DEF At
<1> QED BY <1>5, <1>6, <1>7, <1>8

-----------------------------------------------------------------------------
LEMMA LifeInit == Init => LifeInv
<1> SUFFICES ASSUME Init PROVE LifeInv
  OBVIOUS
<1>1. \A l \in Loops : /\ at[l] = "poll" /\ active[l] = {}
                       /\ pending[l] = <<>> /\ batch[l] = <<>> /\ At(l) = {}
  BY EmptyQueue DEF Init, LoopInit, At
<1>2. Rounds /\ Reported
  BY <1>1 DEF Rounds, Reported
<1>3. FunctorsOK /\ LastFunctors
  BY <1>1, EmptyQueue DEF FunctorsOK, LastFunctors
<1>4. /\ conn.state = "none" /\ conn.events = {} /\ conn.index = "kNew"
      /\ io = NoLoop /\ peer = "none" /\ connections = FALSE /\ closing = FALSE /\ entry = FALSE
      /\ app.pc = "idle"
  BY DEF Init, Idle
<1>5. Phases /\ Removal
  BY <1>4 DEF Phases, Removal, Up
<1>6. InUse
  BY <1>4, ConnectionAssumption DEF InUse, Init, LoopInit, Threads
<1> QED BY <1>2, <1>3, <1>5, <1>6 DEF LifeInv

(* A step of loop l that leaves the connection, the peer and the application  *)
(* alone.                                                                     *)
LEMMA LoopLife ==
  ASSUME TypeInv, LifeInv, NEW l \in Loops, ~(closing /\ l = io),
         \/ PollLoop(l) \/ LoopOnly(Wakeup(l)) \/ LoopOnly(HandleWakeup(l))
         \/ LoopOnly(DoPendingFunctors(l)) \/ LoopOnly(EndFunctors(l))
  PROVE  LifeInv'
<1>k. l \in Threads /\ l # Observer /\ (closing => io \in Loops) /\ Observer \in Threads
  BY IoKnown
<1>u. UNCHANGED <<connVars, peerVars, appVars>>
  BY DEF PollLoop, LoopOnly
<1>v. UNCHANGED <<pool, io, conn, connections, closing, peer, rcvq, sockerr, peer_sent,
                  entry, app, unsent, received>>
  BY <1>u DEF connVars, peerVars, appVars
<1>1. ASSUME \A k \in Loops : At(k)' = At(k), closing => at'[io] # "poll"
      PROVE  Phases' /\ FunctorsOK' /\ Removal' /\ (Up' <=> Up)
  <2>1. Steady
    BY <1>v, <1>1 DEF Steady
  <2>2. QueuesKept
    BY <1>1 DEF QueuesKept
  <2> QED BY <2>1, <2>2, SteadyLife
<1>2. CASE PollLoop(l)
  <2>1. PICK writable \in BOOLEAN : Poll(l, Ready(l, writable))
    BY <1>2 DEF PollLoop
  <2>2. /\ at' = [at EXCEPT ![l] = "events"] /\ at[l] = "poll"
        /\ active' = [active EXCEPT ![l] = Ready(l, writable) \cup {e \in {"wakeup"} : wakefd[l]}]
        /\ UNCHANGED <<pending, batch, wakefd, waking>>
    BY <2>1 DEF Poll
  <2>3. Phases' /\ FunctorsOK' /\ Removal' /\ (Up' <=> Up)
    <3>1. \A k \in Loops : At(k)' = At(k)
      BY <2>2 DEF At
    <3>2. closing => at'[io] # "poll"
      BY <1>k, <2>2 DEF LifeInv, Phases, TypeInv
    <3> QED BY <1>1, <3>1, <3>2
  <2>4. Rounds'
    <3>1. /\ at'[l] = "events" /\ batch' = batch /\ batch[l] = <<>>
          /\ \A k \in Loops : k # l => at'[k] = at[k] /\ active'[k] = active[k]
      BY <2>2 DEF TypeInv, LifeInv, Rounds
    <3> QED BY <3>1 DEF LifeInv, Rounds
  <2>5. Reported'
    <3>1. \A k \in Loops : k # l => active'[k] = active[k]
      BY <2>2 DEF TypeInv
    <3>2. active'[l] = Ready(l, writable) \cup {e \in {"wakeup"} : wakefd[l]}
      BY <2>2 DEF TypeInv
    <3>3. "accept" \in active'[l] => l = BaseLoop /\ peer = "arrived"
      BY <3>2 DEF Ready
    <3>4. "in" \in active'[l] => l = io /\ "in" \in conn.events
      BY <3>2 DEF Ready
    <3>5. "in" \in conn.events => Up
      BY DEF LifeInv, Phases, Up, TypeInv, Conns, States
    <3> QED BY <1>v, <2>3, <3>1, <3>3, <3>4, <3>5 DEF LifeInv, Reported
  <2>6. InUse' /\ LastFunctors'
    BY <1>v, <2>2, <2>3 DEF LifeInv, InUse, LastFunctors
  <2> QED BY <2>3, <2>4, <2>5, <2>6 DEF LifeInv
<1>3. CASE LoopOnly(Wakeup(l)) \/ LoopOnly(HandleWakeup(l))
  <2>1. /\ UNCHANGED <<at, pending, batch>>
        /\ \A k \in Loops : active'[k] \subseteq active[k]
        /\ waking'[Observer] = waking[Observer]
    <3>1. CASE LoopOnly(Wakeup(l))
      <4>1. waking' = [waking EXCEPT ![l] = NoLoop] /\ UNCHANGED <<at, active, pending, batch>>
        BY <3>1 DEF LoopOnly, Wakeup
      <4> QED BY <1>k, <4>1 DEF TypeInv
    <3>2. CASE LoopOnly(HandleWakeup(l))
      <4>1. active' = [active EXCEPT ![l] = @ \ {"wakeup"}] /\ UNCHANGED <<at, pending, batch, waking>>
        BY <3>2 DEF LoopOnly, HandleWakeup, Handled
      <4> QED BY <4>1 DEF TypeInv
    <3> QED BY <1>3, <3>1, <3>2
  <2>2. Phases' /\ FunctorsOK' /\ Removal' /\ (Up' <=> Up)
    <3>1. \A k \in Loops : At(k)' = At(k)
      BY <2>1 DEF At
    <3>2. closing => at'[io] # "poll"
      BY <2>1 DEF LifeInv, Phases
    <3> QED BY <1>1, <3>1, <3>2
  <2>3. Rounds' /\ LastFunctors'
    BY <2>1 DEF LifeInv, Rounds, LastFunctors
  <2>4. Reported'
    BY <1>v, <2>1, <2>2 DEF LifeInv, Reported
  <2>5. InUse'
    BY <1>v, <2>1, <2>2 DEF LifeInv, InUse
  <2> QED BY <2>2, <2>3, <2>4, <2>5 DEF LifeInv
<1>4. CASE LoopOnly(DoPendingFunctors(l))
  <2>1. /\ at[l] = "events" /\ active[l] = {} /\ batch[l] = <<>>
        /\ at' = [at EXCEPT ![l] = "functors"]
        /\ batch' = [batch EXCEPT ![l] = pending[l]]
        /\ pending' = [pending EXCEPT ![l] = <<>>]
        /\ UNCHANGED <<active, wakefd, waking>>
    BY <1>4 DEF LoopOnly, DoPendingFunctors, LifeInv, Rounds
  <2>2. /\ at'[l] = "functors" /\ batch'[l] = pending[l] /\ pending'[l] = <<>>
        /\ \A k \in Loops : k # l => at'[k] = at[k] /\ batch'[k] = batch[k] /\ pending'[k] = pending[k]
    BY <2>1 DEF TypeInv
  <2>3. Phases' /\ FunctorsOK' /\ Removal' /\ (Up' <=> Up)
    <3>1. ASSUME NEW k \in Loops PROVE At(k)' = At(k)
      <4>1. CASE k = l
        BY <2>1, <2>2, <4>1, EmptyQueue DEF At
      <4>2. CASE k # l
        BY <2>2, <4>2 DEF At
      <4> QED BY <4>1, <4>2
    <3>2. closing => at'[io] # "poll"
      BY <1>k, <2>2 DEF LifeInv, Phases
    <3> QED BY <1>1, <3>1, <3>2
  <2>4. Rounds'
    BY <2>1, <2>2 DEF LifeInv, Rounds
  <2>5. Reported' /\ InUse'
    BY <1>v, <2>1, <2>3 DEF LifeInv, Reported, InUse
  <2>6. LastFunctors'
    <3> SUFFICES ASSUME NEW k \in Loops
                 PROVE  /\ LastOf(pending'[k]) /\ LastOf(batch'[k])
                        /\ Final(batch'[k]) => pending'[k] = <<>>
      BY DEF LastFunctors
    <3>1. CASE k = l
      BY <2>2, <3>1, EmptyQueue DEF LifeInv, LastFunctors
    <3>2. CASE k # l
      BY <2>2, <3>2 DEF LifeInv, LastFunctors
    <3> QED BY <3>1, <3>2
  <2> QED BY <2>3, <2>4, <2>5, <2>6 DEF LifeInv
<1>5. CASE LoopOnly(EndFunctors(l))
  <2>1. /\ at[l] = "functors" /\ batch[l] = <<>> /\ active[l] = {}
        /\ at' = [at EXCEPT ![l] = "poll"] /\ UNCHANGED <<active, pending, batch, wakefd, waking>>
    BY <1>5 DEF LoopOnly, EndFunctors, LifeInv, Rounds
  <2>2. at'[l] = "poll" /\ \A k \in Loops : k # l => at'[k] = at[k]
    BY <2>1 DEF TypeInv
  <2>3. Phases' /\ FunctorsOK' /\ Removal' /\ (Up' <=> Up)
    <3>1. \A k \in Loops : At(k)' = At(k)
      BY <2>1 DEF At
    <3>2. closing => at'[io] # "poll"
      BY <1>k, <2>2 DEF LifeInv, Phases
    <3> QED BY <1>1, <3>1, <3>2
  <2>4. Rounds'
    BY <2>1, <2>2 DEF LifeInv, Rounds
  <2>5. Reported' /\ InUse' /\ LastFunctors'
    BY <1>v, <2>1, <2>3 DEF LifeInv, Reported, InUse, LastFunctors
  <2> QED BY <2>3, <2>4, <2>5 DEF LifeInv
<1> QED BY <1>2, <1>3, <1>4, <1>5

(* An event of the connection handled in loop l. *)
LEMMA HandledOf ==
  ASSUME TypeInv, LifeInv, NEW l \in Loops, NEW e, Handling(l, e), Handled(l, e), at' = at, batch' = batch
  PROVE  /\ at[l] = "events" /\ waking[l] = NoLoop /\ e \in active[l] /\ Rounds'
         /\ active'[l] = active[l] \ {e} /\ \A k \in Loops : k # l => active'[k] = active[k]
<1>1. at[l] = "events" /\ waking[l] = NoLoop /\ e \in active[l]
  BY DEF Handling
<1>2. active'[l] = active[l] \ {e} /\ \A k \in Loops : k # l => active'[k] = active[k]
  BY DEF Handled, TypeInv
<1>3. Rounds'
  BY <1>1, <1>2 DEF LifeInv, Rounds
<1> QED BY <1>1, <1>2, <1>3

LEMMA AcceptLife ==
  ASSUME TypeInv, LifeInv, HandleAccept
  PROVE  LifeInv'
<1>k. BaseLoop \in Loops /\ BaseLoop \in Threads /\ Observer # BaseLoop /\ NoLoop \notin Loops
      /\ Observer \in Threads
  BY IoKnown
<1>1. PICK l \in NextLoops :
        /\ io' = l
        /\ IF l = BaseLoop
           THEN /\ conn' = EnableReading([conn EXCEPT !.state = "kConnected"])
                /\ UNCHANGED <<pending, wakefd, waking>>
           ELSE /\ conn' = [conn EXCEPT !.state = "kConnecting"]
                /\ QueueInLoop(BaseLoop, l, Functor("connectEstablished"))
  BY DEF HandleAccept
<1>2. l \in Loops
  BY ConnectionAssumption DEF NextLoops, TypeInv
<1>3. /\ UNCHANGED <<at, batch, pool, closing, rcvq, sockerr, peer_sent, entry, app, unsent, received>>
      /\ connections' = TRUE /\ peer' = "open"
      /\ Handling(BaseLoop, "accept") /\ Handled(BaseLoop, "accept")
  BY DEF HandleAccept, AcceptPeer, appVars
<1>4. /\ Rounds' /\ active'[BaseLoop] = active[BaseLoop] \ {"accept"}
      /\ \A k \in Loops : k # BaseLoop => active'[k] = active[k]
      /\ "accept" \in active[BaseLoop]
  BY <1>k, <1>3, HandledOf
<1>5. peer = "arrived" /\ io = NoLoop /\ conn.state = "none"
      /\ conn.events = {} /\ conn.index = "kNew" /\ ~closing
  BY <1>k, <1>4 DEF LifeInv, Reported, Phases
<1>6. ~Up /\ ~entry /\ app.pc = "idle"
  BY <1>5 DEF LifeInv, InUse, Up
<1>7. \A k \in Loops : At(k) = {}
  <2> SUFFICES ASSUME NEW k \in Loops, NEW f \in At(k) PROVE FALSE
    OBVIOUS
  <2>1. FunctorOK(k, f) /\ f.op \in Ops
    BY QueuedTypes DEF LifeInv, FunctorsOK
  <2> QED BY <1>5, <1>6, <2>1 DEF FunctorOK, Ops
<1>8. \A k \in Loops : "accept" \notin active'[k] /\ "in" \notin active'[k]
  <2>1. ASSUME NEW k \in Loops PROVE "in" \notin active[k] /\ ("accept" \in active[k] => k = BaseLoop)
    BY <1>6 DEF LifeInv, Reported
  <2> QED BY <1>4, <2>1
<1>9. Reported'
  BY <1>8 DEF Reported
<1>10. CASE l = BaseLoop
  <2>1. PICK k : k = conn
    OBVIOUS
  <2>2. PICK j : j = conn'
    OBVIOUS
  <2>3. j = EnableReading([k EXCEPT !.state = "kConnected"]) /\ k \in Conns
    BY <1>1, <1>10, <2>1, <2>2 DEF TypeInv
  <2>4. j.state = "kConnected" /\ j.events = k.events \cup {"in"} /\ j.index = "kAdded"
    BY <2>3, EnableReadingOf
  <2>5. conn'.state = "kConnected" /\ "in" \in conn'.events /\ conn'.index = "kAdded"
    BY <2>2, <2>4
  <2>6. \A m \in Loops : At(m)' = {}
    BY <1>1, <1>3, <1>7, <1>10 DEF At
  <2>7. Phases' /\ Removal'
    BY <1>1, <1>2, <1>3, <1>5, <1>k, <2>5 DEF Phases, Removal, Up
  <2>8. FunctorsOK'
    BY <2>6 DEF FunctorsOK
  <2>9. LastFunctors' /\ InUse'
    BY <1>1, <1>3, <1>6, <1>10 DEF LifeInv, LastFunctors, InUse
  <2> QED BY <1>4, <1>9, <2>7, <2>8, <2>9 DEF LifeInv
<1>11. CASE l # BaseLoop
  <2>1. QueueInLoop(BaseLoop, l, Functor("connectEstablished")) /\ conn' = [conn EXCEPT !.state = "kConnecting"]
    BY <1>1, <1>11
  <2>2. Functor("connectEstablished") \in Functors /\ Functor("connectEstablished").op = "connectEstablished"
    BY FunctorTypes DEF Ops, Functor
  <2>3. /\ LastFunctors' /\ At(l)' = At(l) \cup {Functor("connectEstablished")}
        /\ \A k \in Loops : k # l => At(k)' = At(k)
    <3>1. \A g \in At(l) : g.op \notin FinalOps
      BY <1>2, <1>7
    <3> QED BY <1>k, <1>2, <1>3, <2>1, <2>2, <3>1, QueueLast DEF LifeInv
  <2>4. waking'[Observer] = waking[Observer]
    BY <1>k, <1>2, <2>1, <2>2, QueueOf
  <2>5. conn'.state = "kConnecting" /\ conn'.events = {} /\ conn'.index = "kNew"
    BY <1>5, <2>1 DEF TypeInv, Conns
  <2>6. Phases' /\ Removal'
    BY <1>1, <1>2, <1>3, <1>5, <1>k, <2>5 DEF Phases, Removal, Up
  <2>7. FunctorsOK'
    <3> SUFFICES ASSUME NEW k \in Loops, NEW f \in At(k)' PROVE FunctorOK(k, f)'
      BY DEF FunctorsOK
    <3>1. k = l /\ f.op = "connectEstablished"
      BY <1>2, <1>7, <2>2, <2>3
    <3> QED BY <1>1, <2>5, <3>1 DEF FunctorOK
  <2>8. InUse'
    BY <1>3, <1>6, <2>4 DEF LifeInv, InUse
  <2> QED BY <1>4, <1>9, <2>3, <2>6, <2>7, <2>8 DEF LifeInv
<1> QED BY <1>10, <1>11

(* Error, write, and the read that is not the end: the connection stays up. *)
LEMMA EventLife ==
  ASSUME TypeInv, LifeInv, NEW l \in Loops,
         HandleError(l) \/ HandleReadError(l) \/ HandleWrite(l)
  PROVE  LifeInv'
<1>1. PICK e \in {"err", "in", "out"} : HandlingConn(l, e) /\ Handled(l, e)
  BY DEF HandleError, HandleReadError, HandleWrite, Reading
<1>2. /\ UNCHANGED <<at, pending, batch, wakefd, waking, pool, io, connections, closing,
                     peer, entry, app, unsent, received>>
      /\ conn' = conn \/ conn' \in WriteResults(conn)
  BY DEF HandleError, HandleReadError, HandleWrite, connVars, peerVars, appVars
<1>3. /\ Rounds' /\ \A k \in Loops : active'[k] \subseteq active[k]
  <2>1. Handling(l, e)
    BY <1>1 DEF HandlingConn
  <2> QED BY <1>1, <1>2, <2>1, HandledOf
<1>4. Steady
  <2>1. PICK k : k = conn
    OBVIOUS
  <2>2. PICK j : j = conn'
    OBVIOUS
  <2>3. CASE j = k
    BY <1>2, <2>1, <2>2, <2>3 DEF Steady, LifeInv, Phases
  <2>4. CASE j # k
    <3>1. j \in WriteResults(k) /\ k \in Conns
      BY <1>2, <2>1, <2>2, <2>4 DEF TypeInv
    <3>2. /\ j.state = k.state /\ "out" \in k.events
          /\ \/ j.events = k.events /\ j.index = k.index
             \/ /\ j.events = k.events \ {"out"}
                /\ j.index = IF k.index = "kAdded" /\ k.events \ {"out"} = {}
                             THEN "kDeleted" ELSE "kAdded"
      BY <2>4, <3>1, WriteResultsOf
    <3>3. Up
      BY <2>1, <3>1, <3>2 DEF LifeInv, Phases, Up, Conns, States
    <3>4. "in" \in k.events /\ k.index = "kAdded"
      BY <2>1, <3>3 DEF LifeInv, Phases
    <3>5. "in" \in j.events /\ j.index = "kAdded"
      BY <3>2, <3>4
    <3>6. Up'
      BY <2>1, <2>2, <3>2, <3>3 DEF Up
    <3> QED BY <1>2, <2>2, <3>3, <3>5, <3>6 DEF Steady, LifeInv, Phases
  <2> QED BY <2>3, <2>4
<1>5. QueuesKept
  BY <1>2 DEF QueuesKept, At
<1>6. Phases' /\ FunctorsOK' /\ Removal' /\ (Up' <=> Up)
  BY <1>4, <1>5, SteadyLife
<1>7. Reported'
  BY <1>2, <1>3, <1>6 DEF LifeInv, Reported
<1>8. InUse' /\ LastFunctors'
  BY <1>2, <1>6 DEF LifeInv, InUse, LastFunctors
<1> QED BY <1>3, <1>6, <1>7, <1>8 DEF LifeInv

LEMMA ReadLife ==
  ASSUME TypeInv, LifeInv, NEW l \in Loops, HandleRead(l)
  PROVE  LifeInv'
<1>k. l \in Threads /\ Observer \in Threads /\ Observer # l
  BY IoKnown
<1>1. PICK n, b, k : OneRead(conn, rcvq, n, b, k) /\ Callback(l, k)
  BY ReadStep
<1>2. /\ UNCHANGED <<at, batch, waking, pool, io, connections, closing, peer, sockerr, peer_sent, app>>
      /\ Handled(l, "in") /\ Reading(l)
  BY ReadStep
<1>3. l = io /\ Rounds' /\ "in" \in active[l] /\ \A m \in Loops : active'[m] \subseteq active[m]
  <2>1. Handling(l, "in") /\ l = io
    BY <1>2 DEF Reading, HandlingConn
  <2> QED BY <1>2, <2>1, HandledOf
<1>4. Up /\ "in" \in conn.events /\ conn.index = "kAdded" /\ connections /\ ~closing
  BY <1>3 DEF LifeInv, Reported, Phases, Up
<1>5. k \in Conns /\ k.state = conn.state /\ k.events = conn.events /\ k.index = conn.index
  <2>1. PICK c : c = conn
    OBVIOUS
  <2>2. PICK q : q = rcvq
    OBVIOUS
  <2>3. c \in Conns /\ q \in Seq(InBytes) /\ OneRead(c, q, n, b, k)
    BY <1>1, <2>1, <2>2 DEF TypeInv
  <2>4. k \in Conns /\ k.state = c.state /\ k.events = c.events /\ k.index = c.index
    BY <2>3, OneReadOf
  <2> QED BY <2>1, <2>4
<1>6. Up' /\ "in" \in conn'.events /\ conn'.index = "kAdded"
  <2>1. CASE conn' = k
    BY <1>4, <1>5, <2>1 DEF Up
  <2>2. ASSUME NEW m \in unsent, conn' \in SendInLoop(k, Bytes(m))
        PROVE  Up' /\ "in" \in conn'.events /\ conn'.index = "kAdded"
    <3>1. PICK data : data = Bytes(m)
      OBVIOUS
    <3>2. data \in Seq(OutBytes)
      BY <3>1, BytesOf DEF TypeInv
    <3>3. PICK j : j = conn'
      OBVIOUS
    <3>4. j \in SendInLoop(k, data)
      BY <2>2, <3>1, <3>3
    <3>5. /\ j.state = k.state
          /\ \/ j = k
             \/ j.events \in {k.events, k.events \cup {"out"}} /\ j.index \in {k.index, "kAdded"}
      BY <1>5, <3>2, <3>4, SendInLoopOf
    <3> QED BY <1>4, <1>5, <3>3, <3>5 DEF Up
  <2>3. CASE conn' = Shutdown(k)
    <3>1. PICK j : j = conn'
      OBVIOUS
    <3>2. j.events = k.events /\ j.index = k.index /\ (j.state = k.state \/ j.state = "kDisconnecting")
      BY <1>5, <2>3, <3>1, ShutdownOf
    <3> QED BY <1>4, <1>5, <3>1, <3>2 DEF Up
  <2>4. CASE conn' = [k EXCEPT !.state = "kDisconnecting"]
    BY <1>4, <1>5, <2>4 DEF Up, Conns
  <2> QED BY <1>1, <2>1, <2>2, <2>3, <2>4 DEF Callback
<1>7. /\ QueuesKept /\ LastFunctors'
  <2>1. CASE pending' = pending
    <3>1. QueuesKept
      BY <1>2, <2>1 DEF QueuesKept, At
    <3>2. LastFunctors'
      BY <1>2, <2>1 DEF LifeInv, LastFunctors
    <3> QED BY <3>1, <3>2
  <2>2. CASE QueueInLoop(l, l, Functor("forceCloseInLoop"))
    <3>1. Functor("forceCloseInLoop") \in Functors /\ Functor("forceCloseInLoop").op = "forceCloseInLoop"
      BY FunctorTypes DEF Ops, Functor
    <3>2. \A g \in At(l) : g.op \notin FinalOps
      BY <1>4 DEF LifeInv, FunctorsOK, FunctorOK, FinalOps, Up
    <3>3. /\ LastFunctors' /\ At(l)' = At(l) \cup {Functor("forceCloseInLoop")}
          /\ \A m \in Loops : m # l => At(m)' = At(m)
      BY <1>k, <1>2, <2>2, <3>1, <3>2, QueueLast DEF LifeInv
    <3>4. FunctorOK(l, Functor("forceCloseInLoop"))'
      BY <1>2, <1>3, <1>6, <3>1 DEF FunctorOK, Up
    <3> QED BY <3>3, <3>4 DEF QueuesKept
  <2> QED BY <1>1, <2>1, <2>2 DEF Callback
<1>8. Steady
  BY <1>2, <1>4, <1>6 DEF Steady
<1>9. Phases' /\ FunctorsOK' /\ Removal' /\ (Up' <=> Up)
  BY <1>7, <1>8, SteadyLife
<1>10. Reported'
  BY <1>2, <1>3, <1>9 DEF LifeInv, Reported
<1>11. InUse'
  BY <1>2, <1>6 DEF LifeInv, InUse
<1> QED BY <1>3, <1>7, <1>9, <1>10, <1>11 DEF LifeInv

(* handleClose begins, after the end of the input or by force. *)
LEMMA CloseBegins ==
  ASSUME TypeInv, LifeInv, Up, conn' = Closed(conn), closing' = TRUE, io \in Loops, at'[io] # "poll",
         io' = io, connections' = connections, peer' = peer,
         entry' = entry, app' = app, waking' = waking,
         \A l \in Loops : At(l)' \subseteq At(l)
  PROVE  /\ Phases' /\ FunctorsOK' /\ Removal' /\ InUse'
         /\ conn'.state = "kDisconnected" /\ ~Up'
<1>1. PICK k : k = conn
  OBVIOUS
<1>2. PICK j : j = conn'
  OBVIOUS
<1>3. k \in Conns /\ j = Closed(k) /\ k.index = "kAdded"
  BY <1>1, <1>2 DEF TypeInv, LifeInv, Phases
<1>4. conn'.state = "kDisconnected" /\ conn'.events = {} /\ conn'.index = "kDeleted"
  BY <1>2, <1>3, ClosedOf
<1>5. connections /\ io # NoLoop
  BY DEF LifeInv, Phases, Up
<1>6. Phases' /\ Removal' /\ ~Up'
  BY <1>4, <1>5 DEF Phases, Removal, Up, LifeInv
<1>7. FunctorsOK'
  <2> SUFFICES ASSUME NEW l \in Loops, NEW f \in At(l)' PROVE FunctorOK(l, f)'
    BY DEF FunctorsOK
  <2>1. FunctorOK(l, f)
    BY DEF LifeInv, FunctorsOK
  <2> QED BY <1>4, <2>1 DEF FunctorOK, Up
<1>8. InUse'
  BY DEF LifeInv, InUse
<1> QED BY <1>4, <1>6, <1>7, <1>8

LEMMA EndLife ==
  ASSUME TypeInv, LifeInv, NEW l \in Loops, HandleReadEnd(l)
  PROVE  LifeInv'
<1>1. /\ Reading(l) /\ Handled(l, "in") /\ conn' = Closed(conn) /\ closing' = TRUE
      /\ UNCHANGED <<at, pending, batch, wakefd, waking, pool, io, connections,
                     peer, rcvq, sockerr, peer_sent, entry, app, unsent, received>>
  BY DEF HandleReadEnd, peerVars, appVars
<1>2. l = io /\ Handling(l, "in")
  BY <1>1 DEF Reading, HandlingConn
<1>3. /\ at[l] = "events" /\ "in" \in active[l] /\ Rounds' /\ active'[l] = active[l] \ {"in"}
      /\ \A k \in Loops : k # l => active'[k] = active[k]
  BY <1>1, <1>2, HandledOf
<1>4. Up
  BY <1>3 DEF LifeInv, Reported
<1>5. \A k \in Loops : At(k)' = At(k)
  BY <1>1 DEF At
<1>6. Phases' /\ FunctorsOK' /\ Removal' /\ InUse'
  BY <1>1, <1>2, <1>3, <1>4, <1>5, CloseBegins
<1>7. Reported'
  BY <1>1, <1>2, <1>3 DEF LifeInv, Reported
<1>8. LastFunctors'
  BY <1>1 DEF LifeInv, LastFunctors
<1> QED BY <1>3, <1>6, <1>7, <1>8 DEF LifeInv

LEMMA ForceCloseLife ==
  ASSUME TypeInv, LifeInv, NEW l \in Loops, ForceCloseInLoop(l)
  PROVE  LifeInv'
<1>1. /\ Running(l, "forceCloseInLoop") /\ Ran(l)
      /\ UNCHANGED <<at, active, pending, wakefd, waking, pool, io, connections,
                     peer, rcvq, sockerr, peer_sent, entry, app, unsent, received>>
      /\ \/ Up /\ conn' = Closed(conn) /\ closing' = TRUE
         \/ ~Up /\ UNCHANGED <<conn, closing>>
  BY DEF ForceCloseInLoop, peerVars, appVars, Up
<1>2. /\ at[l] = "functors" /\ Head(batch[l]) \in At(l) /\ Head(batch[l]).op = "forceCloseInLoop"
      /\ \A k \in Loops : k # l => batch'[k] = batch[k]
  BY <1>1, RunOf
<1>3. l = io
  BY <1>2 DEF LifeInv, FunctorsOK, FunctorOK
<1>4. /\ LastFunctors' /\ At(l)' \subseteq At(l)
      /\ \A f \in At(l) : f \in At(l)' \/ f = Head(batch[l])
      /\ \A k \in Loops : k # l => At(k)' = At(k)
  BY <1>1, RunLast DEF LifeInv
<1>5. Rounds'
  BY <1>1, <1>2 DEF LifeInv, Rounds
<1>6. active[l] = {}
  BY <1>2 DEF LifeInv, Rounds
<1>7. CASE Up /\ conn' = Closed(conn) /\ closing' = TRUE
  <2>1. Phases' /\ FunctorsOK' /\ Removal' /\ InUse'
    <3>1. \A k \in Loops : At(k)' \subseteq At(k)
      BY <1>4
    <3> QED BY <1>1, <1>2, <1>3, <1>7, <3>1, CloseBegins
  <2>2. Reported'
    BY <1>1, <1>3, <1>6 DEF LifeInv, Reported
  <2> QED BY <1>4, <1>5, <2>1, <2>2 DEF LifeInv
<1>8. CASE ~Up /\ UNCHANGED <<conn, closing>>
  <2>1. Steady
    BY <1>1, <1>8 DEF Steady, LifeInv, Phases
  <2>2. QueuesKept
    BY <1>2, <1>4 DEF QueuesKept, RemovalOps
  <2>3. Phases' /\ FunctorsOK' /\ Removal' /\ (Up' <=> Up)
    BY <2>1, <2>2, SteadyLife
  <2>4. Reported' /\ InUse'
    BY <1>1, <1>8, <2>3 DEF LifeInv, Reported, InUse
  <2> QED BY <1>4, <1>5, <2>3, <2>4 DEF LifeInv
<1> QED BY <1>1, <1>7, <1>8

(* The callbacks of handleClose: the application lets the connection go. *)
LEMMA CallbacksLife ==
  ASSUME TypeInv, LifeInv, NEW l \in Loops, CloseCallbacks(l)
  PROVE  LifeInv'
<1>k. l \in Threads /\ Observer \in Threads /\ Observer # l /\ BaseLoop \in Loops
  BY IoKnown
<1>1. /\ closing /\ l = io /\ waking[l] = NoLoop /\ app.pc = "idle"
      /\ closing' = FALSE /\ entry' = FALSE
      /\ UNCHANGED <<at, active, batch, pool, io, conn, peer, rcvq, sockerr, peer_sent,
                     app, unsent, received>>
      /\ \/ /\ l = BaseLoop /\ connections' = FALSE
            /\ QueueInLoop(l, BaseLoop, Functor("connectDestroyed"))
         \/ /\ l # BaseLoop /\ connections' = connections
            /\ QueueInLoop(l, BaseLoop, Functor("removeConnectionInLoop"))
  BY DEF CloseCallbacks, peerVars
<1>2. conn.state = "kDisconnected" /\ conn.index = "kDeleted" /\ conn.events = {} /\ connections /\ ~Up
  BY <1>1 DEF LifeInv, Phases, Up
<1>3. PICK f \in Functors :
        /\ f.op \in RemovalOps /\ QueueInLoop(l, BaseLoop, f)
        /\ \/ l = BaseLoop /\ connections' = FALSE /\ f.op = "connectDestroyed"
           \/ l # BaseLoop /\ connections' = connections /\ f.op = "removeConnectionInLoop"
  <2>1. \A op \in RemovalOps : Functor(op) \in Functors /\ Functor(op).op = op
    BY FunctorTypes DEF RemovalOps, Ops, Functor
  <2> QED BY <1>1, <2>1 DEF RemovalOps
<1>4. \A m \in Loops : \A g \in At(m) : g.op \notin FinalOps /\ m = io
  <2> SUFFICES ASSUME NEW m \in Loops, NEW g \in At(m) PROVE g.op \notin FinalOps /\ m = io
    OBVIOUS
  <2>1. FunctorOK(m, g) /\ g.op \in Ops
    BY QueuedTypes DEF LifeInv, FunctorsOK
  <2> QED BY <1>1, <1>2, <2>1 DEF FunctorOK, FinalOps, Ops
<1>5. /\ LastFunctors' /\ At(BaseLoop)' = At(BaseLoop) \cup {f}
      /\ \A m \in Loops : m # BaseLoop => At(m)' = At(m)
  BY <1>k, <1>1, <1>3, <1>4, QueueLast DEF LifeInv
<1>6. waking'[Observer] = waking[Observer]
  BY <1>k, <1>3, QueueOf
<1>7. Rounds'
  BY <1>1 DEF LifeInv, Rounds
<1>8. Reported'
  BY <1>1 DEF LifeInv, Reported, Up
<1>9. Phases'
  BY <1>1, <1>2 DEF LifeInv, Phases, Up
<1>10. InUse'
  BY <1>1, <1>6 DEF LifeInv, InUse
<1>11. FunctorsOK'
  <2> SUFFICES ASSUME NEW m \in Loops, NEW g \in At(m)' PROVE FunctorOK(m, g)'
    BY DEF FunctorsOK
  <2>1. CASE g \in At(m)
    <3>1. FunctorOK(m, g) /\ g.op \notin FinalOps /\ m = io
      BY <1>4, <2>1 DEF LifeInv, FunctorsOK
    <3> QED BY <1>1, <1>2, <3>1 DEF FunctorOK, FinalOps, Up
  <2>2. CASE g \notin At(m)
    <3>1. m = BaseLoop /\ g = f
      BY <1>5, <2>2
    <3> QED BY <1>1, <1>2, <1>3, <3>1 DEF FunctorOK
  <2> QED BY <2>1, <2>2
<1>12. Removal'
  <2>1. ToRemove(BaseLoop)'
    BY <1>3, <1>5 DEF ToRemove
  <2> QED BY <1>k, <1>1, <1>2, <2>1 DEF Removal
<1> QED BY <1>5, <1>7, <1>8, <1>9, <1>10, <1>11, <1>12 DEF LifeInv

LEMMA EstablishLife ==
  ASSUME TypeInv, LifeInv, NEW l \in Loops, ConnectEstablished(l)
  PROVE  LifeInv'
<1>1. /\ Running(l, "connectEstablished") /\ Ran(l)
      /\ conn' = EnableReading([conn EXCEPT !.state = "kConnected"])
      /\ UNCHANGED <<at, active, pending, wakefd, waking, pool, io, connections, closing,
                     peer, rcvq, sockerr, peer_sent, entry, app, unsent, received>>
  BY DEF ConnectEstablished, peerVars, appVars
<1>2. /\ at[l] = "functors" /\ Head(batch[l]) \in At(l) /\ Head(batch[l]).op = "connectEstablished"
      /\ \A k \in Loops : k # l => batch'[k] = batch[k]
  BY <1>1, RunOf
<1>3. l = io /\ conn.state = "kConnecting"
  BY <1>2 DEF LifeInv, FunctorsOK, FunctorOK
<1>4. /\ LastFunctors' /\ At(l)' = {} /\ \A k \in Loops : k # l => At(k)' = At(k)
  BY <1>1, RunLast DEF LifeInv, FinalOps
<1>5. conn'.state = "kConnected" /\ "in" \in conn'.events /\ conn'.index = "kAdded"
  <2>1. PICK k : k = conn
    OBVIOUS
  <2>2. PICK j : j = conn'
    OBVIOUS
  <2>3. j = EnableReading([k EXCEPT !.state = "kConnected"]) /\ k \in Conns
    BY <1>1, <2>1, <2>2 DEF TypeInv
  <2>4. j.state = "kConnected" /\ j.events = k.events \cup {"in"} /\ j.index = "kAdded"
    BY <2>3, EnableReadingOf
  <2> QED BY <2>2, <2>4
<1>6. Rounds'
  BY <1>1, <1>2 DEF LifeInv, Rounds
<1>7. Reported'
  BY <1>1, <1>3 DEF LifeInv, Reported, Up
<1>8. Phases' /\ Removal'
  BY <1>1, <1>3, <1>5 DEF LifeInv, Phases, Removal, Up
<1>9. InUse'
  BY <1>1, <1>3, <1>5 DEF LifeInv, InUse, Up
<1>10. FunctorsOK'
  <2> SUFFICES ASSUME NEW m \in Loops, NEW g \in At(m)' PROVE FALSE
    BY DEF FunctorsOK
  <2>1. m # l /\ g \in At(m)
    BY <1>4
  <2>2. FunctorOK(m, g) /\ g.op \in Ops
    BY <2>1, QueuedTypes DEF LifeInv, FunctorsOK
  <2> QED BY <1>3, <2>1, <2>2 DEF FunctorOK, Ops
<1> QED BY <1>4, <1>6, <1>7, <1>8, <1>9, <1>10 DEF LifeInv

LEMMA SendLife ==
  ASSUME TypeInv, LifeInv, NEW l \in Loops, RunSendInLoop(l)
  PROVE  LifeInv'
<1>1. /\ Running(l, "sendInLoop") /\ Ran(l)
      /\ conn' \in SendInLoop(conn, Bytes(Head(batch[l]).msg))
      /\ UNCHANGED <<at, active, pending, wakefd, waking, pool, io, connections, closing,
                     peer, rcvq, sockerr, peer_sent, entry, app, unsent, received>>
  BY DEF RunSendInLoop, peerVars, appVars
<1>2. /\ at[l] = "functors" /\ Head(batch[l]) \in At(l) /\ Head(batch[l]).op = "sendInLoop"
      /\ \A k \in Loops : k # l => batch'[k] = batch[k]
  BY <1>1, RunOf
<1>3. Head(batch[l]).msg \in Msgs /\ (Up \/ conn.state = "kDisconnected")
  BY <1>2 DEF LifeInv, FunctorsOK, FunctorOK
<1>4. /\ LastFunctors' /\ At(l)' \subseteq At(l)
      /\ \A f \in At(l) : f \in At(l)' \/ f = Head(batch[l])
      /\ \A k \in Loops : k # l => At(k)' = At(k)
  BY <1>1, RunLast DEF LifeInv
<1>5. Steady
  <2>1. PICK k : k = conn
    OBVIOUS
  <2>2. PICK j : j = conn'
    OBVIOUS
  <2>3. PICK data : data = Bytes(Head(batch[l]).msg)
    OBVIOUS
  <2>4. data \in Seq(OutBytes)
    BY <1>3, <2>3, BytesOf
  <2>5. k \in Conns /\ j \in SendInLoop(k, data)
    BY <1>1, <2>1, <2>2, <2>3 DEF TypeInv
  <2>6. /\ j.state = k.state
        /\ \/ j = k
           \/ /\ k.state # "kDisconnected"
              /\ j.events \in {k.events, k.events \cup {"out"}} /\ j.index \in {k.index, "kAdded"}
    BY <2>4, <2>5, SendInLoopOf
  <2>7. CASE j = k
    BY <1>1, <2>1, <2>2, <2>7 DEF Steady, LifeInv, Phases
  <2>8. CASE j # k
    <3>1. Up
      BY <1>3, <2>1, <2>6, <2>8
    <3>2. "in" \in k.events /\ k.index = "kAdded"
      BY <2>1, <3>1 DEF LifeInv, Phases
    <3>3. "in" \in j.events /\ j.index = "kAdded"
      BY <2>6, <2>8, <3>2
    <3>4. Up'
      BY <2>1, <2>2, <2>6, <3>1 DEF Up
    <3> QED BY <1>1, <2>2, <3>1, <3>3, <3>4 DEF Steady, LifeInv, Phases
  <2> QED BY <2>7, <2>8
<1>6. QueuesKept
  BY <1>2, <1>4 DEF QueuesKept, RemovalOps
<1>7. Phases' /\ FunctorsOK' /\ Removal' /\ (Up' <=> Up)
  BY <1>5, <1>6, SteadyLife
<1>8. Rounds'
  BY <1>1, <1>2 DEF LifeInv, Rounds
<1>9. Reported' /\ InUse'
  BY <1>1, <1>7 DEF LifeInv, Reported, InUse
<1> QED BY <1>4, <1>7, <1>8, <1>9 DEF LifeInv

(* removeConnectionInLoop() runs in the base loop and queues to the other. *)
LEMMA RemoveLife ==
  ASSUME TypeInv, LifeInv, NEW l \in Loops, RemoveConnectionInLoop(l)
  PROVE  LifeInv'
<1>1. /\ Running(l, "removeConnectionInLoop") /\ Ran(l) /\ connections' = FALSE
      /\ QueueInLoop(l, io, Functor("connectDestroyed"))
      /\ UNCHANGED <<at, active, pool, io, conn, closing,
                     peer, rcvq, sockerr, peer_sent, entry, app, unsent, received>>
  BY DEF RemoveConnectionInLoop, peerVars, appVars
<1>2. /\ at[l] = "functors" /\ Head(batch[l]) \in At(l) /\ Head(batch[l]).op = "removeConnectionInLoop"
      /\ batch[l] \in Seq(Functors) /\ batch[l] # <<>> /\ batch'[l] = Tail(batch[l])
      /\ \A k \in Loops : k # l => batch'[k] = batch[k]
  BY <1>1, RunOf
<1>3. /\ l = BaseLoop /\ io # BaseLoop /\ conn.state = "kDisconnected" /\ ~closing /\ connections
      /\ conn.index = "kDeleted" /\ conn.events = {} /\ ~Up
  BY <1>2 DEF LifeInv, FunctorsOK, FunctorOK, Phases, TypeInv, Conns, Up
<1>4. PICK i : i = io
  OBVIOUS
<1>5. i \in Loops /\ i # l /\ l \in Threads /\ Observer \in Threads /\ Observer # l
  BY <1>3, <1>4, IoKnown
<1>6. PICK f \in Functors : f.op = "connectDestroyed" /\ QueueInLoop(l, i, f)
  <2>1. Functor("connectDestroyed") \in Functors /\ Functor("connectDestroyed").op = "connectDestroyed"
    BY FunctorTypes DEF Ops, Functor
  <2> QED BY <1>1, <1>4, <2>1
<1>7. /\ pending'[i] = Append(pending[i], f) /\ \A k \in Loops : k # i => pending'[k] = pending[k]
      /\ waking'[Observer] = waking[Observer]
  BY <1>5, <1>6, QueueOf
<1>8. \A g \in At(i) : g.op \notin FinalOps
  BY <1>3, <1>4, <1>5 DEF LifeInv, FunctorsOK, FunctorOK, FinalOps
<1>9. PICK s : s = batch[l]
  OBVIOUS
<1>10. /\ Tail(s) = <<>> /\ pending[l] = <<>>
  <2>1. s \in Seq(Functors) /\ s # <<>> /\ LastOf(s) /\ Head(s).op \in FinalOps
    BY <1>2, <1>9 DEF LifeInv, LastFunctors, FinalOps
  <2>2. Tail(s) = <<>> /\ Head(s) \in Range(s)
    BY <2>1, LastTail, TailRange
  <2>3. Final(batch[l])
    BY <1>9, <2>1, <2>2 DEF Final
  <2> QED BY <2>2, <2>3 DEF LifeInv, LastFunctors
<1>11. PICK p : p = pending[i]
  OBVIOUS
<1>12. p \in Seq(Functors) /\ ~Final(p) /\ ~Final(batch[i])
  BY <1>5, <1>8, <1>11 DEF TypeInv, Final, At
<1>13. Range(Append(p, f)) = Range(p) \cup {f} /\ LastOf(Append(p, f))
  BY <1>12, AppendRange, LastAppend
<1>14. At(l)' = {} /\ At(i)' = At(i) \cup {f} /\ \A k \in Loops : k # l /\ k # i => At(k)' = At(k)
  <2>1. At(l)' = {}
    BY <1>2, <1>5, <1>7, <1>9, <1>10, EmptyQueue DEF At
  <2>2. At(i)' = At(i) \cup {f}
    BY <1>2, <1>5, <1>7, <1>11, <1>13 DEF At
  <2>3. \A k \in Loops : k # l /\ k # i => At(k)' = At(k)
    BY <1>2, <1>7 DEF At
  <2> QED BY <2>1, <2>2, <2>3
<1>15. LastFunctors'
  <2> SUFFICES ASSUME NEW k \in Loops
               PROVE  /\ LastOf(pending'[k]) /\ LastOf(batch'[k])
                      /\ Final(batch'[k]) => pending'[k] = <<>>
    BY DEF LastFunctors
  <2>1. CASE k = l
    BY <1>2, <1>5, <1>7, <1>9, <1>10, <2>1, EmptyQueue
  <2>2. CASE k = i
    BY <1>2, <1>5, <1>7, <1>11, <1>12, <1>13, <2>2 DEF LifeInv, LastFunctors
  <2>3. CASE k # l /\ k # i
    BY <1>2, <1>7, <2>3 DEF LifeInv, LastFunctors
  <2> QED BY <2>1, <2>2, <2>3
<1>16. FunctorsOK'
  <2> SUFFICES ASSUME NEW m \in Loops, NEW g \in At(m)' PROVE FunctorOK(m, g)'
    BY DEF FunctorsOK
  <2>1. CASE m = i /\ g = f
    BY <1>1, <1>3, <1>4, <1>6, <2>1 DEF FunctorOK
  <2>2. CASE ~(m = i /\ g = f)
    <3>1. m # l /\ g \in At(m)
      BY <1>14, <2>2
    <3>2. FunctorOK(m, g)
      BY <3>1 DEF LifeInv, FunctorsOK
    <3> QED BY <1>1, <1>3, <3>1, <3>2 DEF FunctorOK, Up
  <2> QED BY <2>1, <2>2
<1>17. Removal'
  <2>1. ToRemove(i)'
    BY <1>6, <1>14 DEF ToRemove, RemovalOps
  <2> QED BY <1>1, <1>3, <1>5, <2>1 DEF Removal
<1>18. Phases'
  BY <1>1, <1>3 DEF LifeInv, Phases, Up
<1>19. Rounds'
  BY <1>1, <1>2 DEF LifeInv, Rounds
<1>20. Reported' /\ InUse'
  BY <1>1, <1>3, <1>7 DEF LifeInv, Reported, InUse, Up
<1> QED BY <1>15, <1>16, <1>17, <1>18, <1>19, <1>20 DEF LifeInv

LEMMA DestroyLife ==
  ASSUME TypeInv, LifeInv, NEW l \in Loops, ConnectDestroyed(l)
  PROVE  LifeInv'
<1>1. /\ Running(l, "connectDestroyed") /\ Ran(l) /\ conn' = [conn EXCEPT !.index = "kNew"]
      /\ UNCHANGED <<at, active, pending, wakefd, waking, pool, io, connections, closing,
                     peer, rcvq, sockerr, peer_sent, entry, app, unsent, received>>
  BY DEF ConnectDestroyed, RemoveChannel, peerVars, appVars
<1>2. /\ at[l] = "functors" /\ Head(batch[l]) \in At(l) /\ Head(batch[l]).op = "connectDestroyed"
      /\ \A k \in Loops : k # l => batch'[k] = batch[k]
  BY <1>1, RunOf
<1>3. /\ l = io /\ conn.state = "kDisconnected" /\ ~closing /\ ~connections /\ conn.events = {} /\ ~Up
  BY <1>2 DEF LifeInv, FunctorsOK, FunctorOK, Phases, Up
<1>4. /\ LastFunctors' /\ At(l)' = {} /\ \A k \in Loops : k # l => At(k)' = At(k)
  BY <1>1, RunLast DEF LifeInv, FinalOps
<1>5. conn'.state = "kDisconnected" /\ conn'.events = {} /\ conn'.index = "kNew"
  BY <1>1, <1>3 DEF TypeInv, Conns
<1>6. FunctorsOK'
  <2> SUFFICES ASSUME NEW m \in Loops, NEW g \in At(m)' PROVE FALSE
    BY DEF FunctorsOK
  <2>1. m # l /\ g \in At(m)
    BY <1>4
  <2>2. FunctorOK(m, g) /\ g.op \in Ops
    BY <2>1, QueuedTypes DEF LifeInv, FunctorsOK
  <2> QED BY <1>3, <2>1, <2>2 DEF FunctorOK, Ops
<1>7. Phases' /\ Removal'
  BY <1>1, <1>3, <1>5 DEF LifeInv, Phases, Removal, Up
<1>8. Rounds'
  BY <1>1, <1>2 DEF LifeInv, Rounds
<1>9. Reported' /\ InUse'
  BY <1>1, <1>3, <1>5 DEF LifeInv, Reported, InUse, Up
<1> QED BY <1>4, <1>6, <1>7, <1>8, <1>9 DEF LifeInv

LEMMA ObserverLife ==
  ASSUME TypeInv, LifeInv, ObserverStep
  PROVE  LifeInv'
<1>k. Observer \in Threads /\ Observer \notin Loops /\ (app.pc # "idle" => io \in Loops)
  BY IoKnown
<1>c. /\ UNCHANGED <<at, active, batch, pool, io, conn, connections, closing,
                     peer, rcvq, sockerr, peer_sent, entry, received>>
  BY DEF ObserverStep, ObserverSend, ObserverQueue, ObserverWake, Wakeup,
         loopVars, connVars, peerVars, appVars
<1>1. Steady /\ Rounds' /\ Reported' /\ (Up' <=> Up)
  BY <1>c DEF LifeInv, Steady, Phases, Rounds, Reported, Up
<1>2. ASSUME NEW m \in Msgs, ObserverSend(m) PROVE LifeInv'
  <2>1. /\ entry /\ conn.state = "kConnected" /\ app' = [pc |-> "push", msg |-> m] /\ app.pc = "idle"
        /\ UNCHANGED <<pending, waking>>
    BY <1>2 DEF ObserverSend, loopVars
  <2>2. QueuesKept
    BY <1>c, <2>1 DEF QueuesKept, At
  <2>3. Phases' /\ FunctorsOK' /\ Removal'
    BY <1>1, <2>2, SteadyLife
  <2>4. InUse'
    BY <1>c, <2>1 DEF LifeInv, InUse, Up
  <2>5. LastFunctors'
    BY <1>c, <2>1 DEF LifeInv, LastFunctors
  <2> QED BY <1>1, <2>3, <2>4, <2>5 DEF LifeInv
<1>3. ASSUME ObserverQueue PROVE LifeInv'
  <2>1. /\ app.pc = "push" /\ app' = [app EXCEPT !.pc = "wake"]
        /\ QueueInLoop(Observer, io, [op |-> "sendInLoop", msg |-> app.msg])
    BY <1>3 DEF ObserverQueue
  <2>2. PICK f : f = [op |-> "sendInLoop", msg |-> app.msg]
    OBVIOUS
  <2>3. f \in Functors /\ f.op = "sendInLoop" /\ f.msg \in Msgs
    BY <2>1, <2>2 DEF TypeInv, Functors, Ops, LifeInv, InUse
  <2>4. PICK i : i = io
    OBVIOUS
  <2>5. i \in Loops /\ QueueInLoop(Observer, i, f)
    BY <1>k, <2>1, <2>2, <2>4
  <2>6. Up \/ closing
    BY <2>1 DEF LifeInv, InUse
  <2>7. \A g \in At(i) : g.op \notin FinalOps
    BY <2>5, <2>6 DEF LifeInv, FunctorsOK, FunctorOK, FinalOps, Up, Phases
  <2>8. /\ LastFunctors' /\ At(i)' = At(i) \cup {f} /\ \A k \in Loops : k # i => At(k)' = At(k)
    BY <1>k, <1>c, <2>3, <2>5, <2>7, QueueLast DEF LifeInv
  <2>9. FunctorOK(i, f)'
    <3>1. Up \/ (conn.state = "kDisconnected" /\ conn.index = "kDeleted")
      BY <2>6 DEF LifeInv, Phases
    <3> QED BY <1>c, <2>3, <2>4, <3>1 DEF FunctorOK, Up
  <2>10. QueuesKept
    BY <2>8, <2>9 DEF QueuesKept
  <2>11. Phases' /\ FunctorsOK' /\ Removal'
    BY <1>1, <2>10, SteadyLife
  <2>12. app'.pc = "wake"
    BY <2>1 DEF TypeInv
  <2>13. InUse'
    BY <1>c, <1>1, <2>6, <2>12 DEF InUse
  <2> QED BY <1>1, <2>8, <2>11, <2>13 DEF LifeInv
<1>4. ASSUME ObserverWake PROVE LifeInv'
  <2>1. app'.pc = "idle" /\ waking'[Observer] = NoLoop /\ pending' = pending
    BY <1>k, <1>4 DEF ObserverWake, Wakeup, Idle, TypeInv
  <2>2. QueuesKept
    BY <1>c, <2>1 DEF QueuesKept, At
  <2>3. Phases' /\ FunctorsOK' /\ Removal'
    BY <1>1, <2>2, SteadyLife
  <2>4. app.pc = "wake"
    BY <1>4 DEF ObserverWake
  <2>5. InUse'
    BY <1>c, <1>1, <2>1, <2>4 DEF LifeInv, InUse
  <2>6. LastFunctors'
    BY <1>c, <2>1 DEF LifeInv, LastFunctors
  <2> QED BY <1>1, <2>3, <2>5, <2>6 DEF LifeInv
<1> QED BY <1>2, <1>3, <1>4 DEF ObserverStep

LEMMA PeerLife ==
  ASSUME TypeInv, LifeInv, PeerStep
  PROVE  LifeInv'
<1>1. /\ UNCHANGED <<at, active, pending, batch, wakefd, waking, pool, io, conn, connections, closing,
                     entry, app, unsent, received>>
  BY DEF PeerStep, PeerConnect, PeerSend, PeerClose, PeerReset, loopVars, connVars, appVars
<1>2. peer' = peer \/ (peer = "none" /\ peer' = "arrived")
      \/ (peer \in {"open", "fin"} /\ peer' \in {"fin", "rst"})
  BY DEF PeerStep, PeerConnect, PeerSend, PeerClose, PeerReset
<1>3. Steady
  BY <1>1, <1>2 DEF Steady, LifeInv, Phases
<1>4. QueuesKept
  BY <1>1 DEF QueuesKept, At
<1>5. Phases' /\ FunctorsOK' /\ Removal' /\ (Up' <=> Up)
  BY <1>3, <1>4, SteadyLife
<1>6. Rounds' /\ InUse' /\ LastFunctors'
  BY <1>1, <1>5 DEF LifeInv, Rounds, InUse, LastFunctors
<1>7. Reported'
  BY <1>1, <1>2, <1>5 DEF LifeInv, Reported
<1> QED BY <1>5, <1>6, <1>7 DEF LifeInv

LEMMA LifeStep ==
  ASSUME TypeInv, LifeInv, Next
  PROVE  LifeInv'
<1>1. ASSUME NEW l \in Loops, LoopStep(l) PROVE LifeInv'
  BY <1>1, CallbacksLife, LoopLife, AcceptLife, EventLife, ReadLife, EndLife, EstablishLife,
     SendLife, ForceCloseLife, RemoveLife, DestroyLife DEF LoopStep
<1> QED BY <1>1, ObserverLife, PeerLife DEF Next

-----------------------------------------------------------------------------
LEMMA Stutter ==
  ASSUME TypeInv, LifeInv, UNCHANGED vars
  PROVE  TypeInv' /\ LifeInv'
<1>1. UNCHANGED <<at, active, pending, batch, wakefd, waking, pool, io, conn, connections, closing,
                  peer, rcvq, sockerr, peer_sent, entry, app, unsent, received>>
  BY DEF vars, loopVars, connVars, peerVars, appVars
<1>2. TypeInv'
  BY <1>1 DEF TypeInv
<1>3. QueuesKept /\ Steady
  BY <1>1 DEF QueuesKept, At, Steady, LifeInv, Phases
<1>4. Phases' /\ FunctorsOK' /\ Removal' /\ (Up' <=> Up)
  BY <1>3, SteadyLife
<1>5. Rounds' /\ Reported' /\ InUse' /\ LastFunctors'
  BY <1>1, <1>4 DEF LifeInv, Rounds, Reported, InUse, LastFunctors
<1> QED BY <1>2, <1>4, <1>5 DEF LifeInv

LEMMA Invariant == Spec => [](TypeInv /\ LifeInv)
<1>1. Init => TypeInv /\ LifeInv
  BY TypeInit, LifeInit
<1>2. (TypeInv /\ LifeInv) /\ [Next]_vars => (TypeInv /\ LifeInv)'
  BY TypeStep, LifeStep, Stutter
<1> QED BY <1>1, <1>2, PTL DEF Spec

(* Every variable of the connection, its loops and its peer keeps its type,   *)
(* and both buffers keep 0 <= readerIndex <= writerIndex <= size.             *)
THEOREM TypeCorrect == Spec => []TypeOK
<1>1. TypeInv => TypeOK
  <2> SUFFICES ASSUME TypeInv PROVE TypeOK
    OBVIOUS
  <2>1. /\ conn.state \in States /\ conn.events \subseteq {"in", "out"}
        /\ conn.index \in {"kNew", "kAdded", "kDeleted"} /\ conn.fin \in BOOLEAN
        /\ conn.inputBuffer \in Buffers(InBytes) /\ conn.outputBuffer \in Buffers(OutBytes)
    BY DEF TypeInv, Conns
  <2>2. ASSUME NEW S, NEW b \in Buffers(S) PROVE BufferOK(b)
    BY DEF Buffers, BufferOK
  <2>3. BufferOK(conn.inputBuffer) /\ BufferOK(conn.outputBuffer)
    BY <2>1, <2>2
  <2> QED BY <2>1, <2>3 DEF TypeInv, TypeOK, States
<1> QED BY <1>1, Invariant, PTL

LEMMA QueuedIs == \A f : f \in Queued <=> \E l \in Loops : f \in At(l)
  BY DEF Queued, At

(* A sendInLoop that was queued with a raw `this` always finds the connection *)
(* alive: the functors of its loop run in order, and the one that drops the   *)
(* last reference is queued behind every send.                                *)
THEOREM PointersAlwaysLive == Spec => []PointersLive
<1>1. TypeInv /\ LifeInv => PointersLive
  <2> SUFFICES ASSUME TypeInv, LifeInv, NEW f \in Queued, f.op = "sendInLoop" PROVE Refs
    BY DEF PointersLive
  <2>1. PICK l \in Loops : f \in At(l)
    BY QueuedIs
  <2>2. FunctorOK(l, f)
    BY <2>1 DEF LifeInv, FunctorsOK
  <2>3. CASE Up
    BY <2>3 DEF LifeInv, Phases, Refs
  <2>4. CASE closing
    BY <2>4 DEF Refs
  <2>5. CASE ~Up /\ ~closing
    <3>1. conn.state = "kDisconnected" /\ conn.index # "kNew"
      BY <2>2, <2>5 DEF FunctorOK
    <3>2. PICK k \in Loops : ToRemove(k)
      BY <2>5, <3>1 DEF LifeInv, Removal
    <3>3. PICK g \in At(k) : g.op \in RemovalOps
      BY <3>2 DEF ToRemove
    <3>4. g \in Queued /\ g.op # "sendInLoop"
      BY <3>3, QueuedIs DEF RemovalOps
    <3> QED BY <3>4 DEF Refs
  <2> QED BY <2>3, <2>4, <2>5
<1> QED BY <1>1, Invariant, PTL

(* Whatever closes the connection first and however the loops interleave,     *)
(* every functor and both destructors find it as the code asserts.            *)
THEOREM AssertsAlwaysHold == Spec => []AssertsHold
<1>1. TypeInv /\ LifeInv => AssertsHold
  <2> SUFFICES ASSUME TypeInv, LifeInv PROVE AssertsHold
    OBVIOUS
  <2>1. ASSUME NEW f \in Queued
        PROVE  /\ f.op = "connectEstablished" => conn.state = "kConnecting"
               /\ f.op = "removeConnectionInLoop" => connections
               /\ f.op = "connectDestroyed" => conn.events = {} /\ conn.index = "kDeleted"
    <3>1. PICK l \in Loops : f \in At(l)
      BY QueuedIs
    <3>2. FunctorOK(l, f)
      BY <3>1 DEF LifeInv, FunctorsOK
    <3>3. conn.index \in {"kNew", "kAdded", "kDeleted"}
      BY DEF TypeInv, Conns
    <3> QED BY <3>2, <3>3 DEF FunctorOK, LifeInv, Phases
  <2>2. io # NoLoop /\ "in" \in active[io] => conn.state \in {"kConnected", "kDisconnecting"}
    BY DEF TypeInv, LifeInv, Reported, Up
  <2>3. ASSUME io # NoLoop, ~Refs PROVE conn.state = "kDisconnected" /\ conn.index = "kNew"
    <3>1. ~connections /\ ~closing /\ \A f \in Queued : f.op = "sendInLoop"
      BY <2>3 DEF Refs
    <3>2. conn.state = "kDisconnected"
      BY <2>3, <3>1 DEF LifeInv, Phases, TypeInv, Conns, States, Up
    <3>3. \A l \in Loops : ~ToRemove(l)
      BY <3>1, QueuedIs DEF ToRemove, RemovalOps
    <3> QED BY <3>1, <3>2, <3>3 DEF LifeInv, Removal
  <2> QED BY <2>1, <2>2, <2>3 DEF AssertsHold
<1> QED BY <1>1, Invariant, PTL

-----------------------------------------------------------------------------
LEMMA QueueWakes ==
  ASSUME TypeInv, NoLostWakeup, NEW t \in Threads, NEW l \in Loops, NEW f \in Functors,
         QueueInLoop(t, l, f), waking[t] = NoLoop, at' = at, t = l => at[l] # "poll"
  PROVE  NoLostWakeup'
<1>1. /\ \A k \in Loops : k # l => pending'[k] = pending[k]
      /\ \A k \in Loops : wakefd[k] => wakefd'[k]
      /\ \A u \in Threads : u # t => waking'[u] = waking[u]
      /\ \/ t # l /\ waking'[t] = l
         \/ t = l /\ waking'[t] = waking[t] /\ (at[l] = "functors" => wakefd'[l])
  BY QueueOf
<1> SUFFICES ASSUME NEW k \in Loops, pending'[k] # <<>>, at'[k] \in {"poll", "functors"}
             PROVE  wakefd'[k] \/ \E u \in Threads : waking'[u] = k
  BY DEF NoLostWakeup
<1>2. CASE k = l
  BY <1>1, <1>2
<1>3. CASE k # l
  <2>1. wakefd[k] \/ \E u \in Threads : waking[u] = k
    BY <1>1, <1>3 DEF NoLostWakeup
  <2>2. k # NoLoop
    BY ThreadAssumption
  <2> QED BY <1>1, <2>1, <2>2
<1> QED BY <1>2, <1>3

LEMMA WakeStep ==
  ASSUME TypeInv, LifeInv, NoLostWakeup, [Next]_vars
  PROVE  NoLostWakeup'
<1>k. /\ Observer \in Threads /\ Loops \subseteq Threads /\ BaseLoop \in Loops /\ Observer \notin Loops
      /\ (app.pc # "idle" => io \in Loops) /\ (closing => io \in Loops)
      /\ (conn.state # "none" => io \in Loops)
  BY IoKnown
<1>f. \A op \in Ops : Functor(op) \in Functors
  BY FunctorTypes
<1>1. ASSUME UNCHANGED <<at, pending, wakefd, waking>> PROVE NoLostWakeup'
  BY <1>1 DEF NoLostWakeup
<1>2. ASSUME NEW l \in Loops, CloseCallbacks(l) PROVE NoLostWakeup'
  <2>1. l = io /\ closing /\ waking[l] = NoLoop /\ at' = at
    BY <1>2 DEF CloseCallbacks
  <2>2. at[l] # "poll"
    BY <2>1 DEF LifeInv, Phases
  <2>3. \E op \in Ops : QueueInLoop(l, BaseLoop, Functor(op))
    BY <1>2 DEF CloseCallbacks, Ops
  <2> QED BY <1>k, <1>f, <2>1, <2>2, <2>3, QueueWakes
<1>3. ASSUME NEW l \in Loops, PollLoop(l) PROVE NoLostWakeup'
  <2>1. at' = [at EXCEPT ![l] = "events"] /\ UNCHANGED <<pending, wakefd, waking>>
    BY <1>3 DEF PollLoop, Poll
  <2>2. \A k \in Loops : at'[k] = at[k] \/ at'[k] = "events"
    BY <2>1 DEF TypeInv
  <2> QED BY <2>1, <2>2 DEF NoLostWakeup
<1>4. ASSUME NEW t \in Threads, Wakeup(t) PROVE NoLostWakeup'
  <2>1. /\ waking[t] # NoLoop /\ wakefd' = [wakefd EXCEPT ![waking[t]] = TRUE]
        /\ waking' = [waking EXCEPT ![t] = NoLoop] /\ UNCHANGED <<at, pending>>
    BY <1>4 DEF Wakeup
  <2>2. /\ waking[t] \in Loops /\ wakefd'[waking[t]]
        /\ \A k \in Loops : wakefd[k] => wakefd'[k]
        /\ \A u \in Threads : u # t => waking'[u] = waking[u]
    BY <2>1 DEF TypeInv
  <2> QED BY <2>1, <2>2 DEF NoLostWakeup
<1>5. ASSUME NEW l \in Loops, HandleWakeup(l) PROVE NoLostWakeup'
  <2>1. /\ at[l] = "events" /\ wakefd' = [wakefd EXCEPT ![l] = FALSE]
        /\ UNCHANGED <<at, pending, waking>>
    BY <1>5 DEF HandleWakeup, Handling
  <2>2. \A k \in Loops : k # l => wakefd'[k] = wakefd[k]
    BY <2>1 DEF TypeInv
  <2> QED BY <2>1, <2>2 DEF NoLostWakeup
<1>6. ASSUME NEW l \in Loops, DoPendingFunctors(l) PROVE NoLostWakeup'
  <2>1. /\ at' = [at EXCEPT ![l] = "functors"] /\ pending' = [pending EXCEPT ![l] = <<>>]
        /\ UNCHANGED <<wakefd, waking>>
    BY <1>6 DEF DoPendingFunctors
  <2>2. pending'[l] = <<>> /\ \A k \in Loops : k # l => at'[k] = at[k] /\ pending'[k] = pending[k]
    BY <2>1 DEF TypeInv
  <2> QED BY <2>1, <2>2 DEF NoLostWakeup
<1>7. ASSUME NEW l \in Loops, EndFunctors(l) PROVE NoLostWakeup'
  <2>1. /\ at[l] = "functors" /\ at' = [at EXCEPT ![l] = "poll"] /\ UNCHANGED <<pending, wakefd, waking>>
    BY <1>7 DEF EndFunctors
  <2>2. \A k \in Loops : at'[k] = at[k] \/ k = l
    BY <2>1 DEF TypeInv
  <2> QED BY <2>1, <2>2 DEF NoLostWakeup
<1>8. ASSUME HandleAccept PROVE NoLostWakeup'
  <2>1. at' = at /\ waking[BaseLoop] = NoLoop
    BY <1>8 DEF HandleAccept, AcceptPeer, Handling
  <2>2. PICK l \in NextLoops :
          \/ UNCHANGED <<pending, wakefd, waking>>
          \/ l # BaseLoop /\ QueueInLoop(BaseLoop, l, Functor("connectEstablished"))
    BY <1>8 DEF HandleAccept
  <2>3. l \in Loops
    BY <1>k DEF NextLoops, TypeInv
  <2> QED BY <1>k, <1>f, <1>1, <2>1, <2>2, <2>3, QueueWakes DEF Ops
<1>9. ASSUME NEW l \in Loops, HandleRead(l) PROVE NoLostWakeup'
  <2>1. PICK k : Callback(l, k)
    BY <1>9, ReadStep
  <2>2. UNCHANGED <<at, waking>> /\ Reading(l)
    BY <1>9, ReadStep
  <2>3. at[l] = "events" /\ waking[l] = NoLoop
    BY <2>2 DEF Reading, HandlingConn, Handling
  <2>4. UNCHANGED <<pending, wakefd>> \/ QueueInLoop(l, l, Functor("forceCloseInLoop"))
    BY <2>1 DEF Callback
  <2> QED BY <1>k, <1>f, <1>1, <2>2, <2>3, <2>4, QueueWakes DEF Ops
<1>10. ASSUME NEW l \in Loops, RemoveConnectionInLoop(l) PROVE NoLostWakeup'
  <2>1. /\ waking[l] = NoLoop /\ Head(batch[l]) \in At(l) /\ Head(batch[l]).op = "removeConnectionInLoop"
    BY <1>10, RunOf DEF RemoveConnectionInLoop
  <2>2. PICK i : i = io
    OBVIOUS
  <2>3. i \in Loops /\ l # i
    BY <1>k, <2>1, <2>2 DEF LifeInv, FunctorsOK, FunctorOK
  <2>4. QueueInLoop(l, i, Functor("connectDestroyed")) /\ at' = at
    BY <1>10, <2>2 DEF RemoveConnectionInLoop
  <2> QED BY <1>k, <1>f, <2>1, <2>3, <2>4, QueueWakes DEF Ops
<1>11. ASSUME ObserverQueue PROVE NoLostWakeup'
  <2>1. app.pc = "push" /\ QueueInLoop(Observer, io, [op |-> "sendInLoop", msg |-> app.msg]) /\ at' = at
    BY <1>11 DEF ObserverQueue
  <2>2. PICK f : f = [op |-> "sendInLoop", msg |-> app.msg]
    OBVIOUS
  <2>3. f \in Functors
    BY <2>2 DEF TypeInv, Functors, Ops
  <2>4. PICK i : i = io
    OBVIOUS
  <2>5. i \in Loops /\ QueueInLoop(Observer, i, f)
    BY <1>k, <2>1, <2>2, <2>4
  <2>6. waking[Observer] = NoLoop
    BY <2>1 DEF LifeInv, InUse
  <2> QED BY <1>k, <2>1, <2>3, <2>5, <2>6, QueueWakes
<1>12. ASSUME NEW l \in Loops, LoopStep(l) PROVE NoLostWakeup'
  <2>1. CASE \/ HandleError(l) \/ HandleReadEnd(l) \/ HandleReadError(l) \/ HandleWrite(l)
             \/ ConnectEstablished(l) \/ RunSendInLoop(l) \/ ForceCloseInLoop(l) \/ ConnectDestroyed(l)
    BY <1>1, <2>1 DEF HandleError, HandleReadEnd, HandleReadError, HandleWrite,
                      ConnectEstablished, RunSendInLoop, ForceCloseInLoop, ConnectDestroyed
  <2> QED BY <1>k, <1>2, <1>3, <1>4, <1>5, <1>6, <1>7, <1>8, <1>9, <1>10, <1>12, <2>1
             DEF LoopStep, LoopOnly
<1>13. ASSUME ObserverStep \/ PeerStep PROVE NoLostWakeup'
  <2>1. CASE (\E m \in Msgs : ObserverSend(m)) \/ PeerStep
    BY <1>1, <2>1 DEF ObserverSend, PeerStep, PeerConnect, PeerSend, PeerClose, PeerReset, loopVars
  <2>2. CASE ObserverWake
    BY <1>k, <1>4, <2>2 DEF ObserverWake
  <2> QED BY <1>11, <1>13, <2>1, <2>2 DEF ObserverStep
<1>14. CASE UNCHANGED vars
  BY <1>1, <1>14 DEF vars, loopVars
<1> QED BY <1>12, <1>13, <1>14 DEF Next

(* No functor waits for a poll to time out: as long as one is pending where   *)
(* the loop will not come by it, the wakeup fd is readable or about to be,    *)
(* for every number of loops and of threads.                                  *)
THEOREM NoWakeupIsLost == Spec => []NoLostWakeup
<1>1. Init => NoLostWakeup
  BY DEF Init, LoopInit, NoLostWakeup
<1>2. (TypeInv /\ LifeInv) /\ NoLostWakeup /\ [Next]_vars => NoLostWakeup'
  BY WakeStep
<1> QED BY <1>1, <1>2, Invariant, PTL DEF Spec

-----------------------------------------------------------------------------
LEMMA QueueGrows ==
  ASSUME TypeInv, NEW t \in Threads, NEW l \in Loops, NEW f \in Functors,
         QueueInLoop(t, l, f), batch' = batch
  PROVE  f \in At(l)' /\ \A k \in Loops : At(k) \subseteq At(k)'
<1>1. /\ pending'[l] = Append(pending[l], f)
      /\ \A k \in Loops : k # l => pending'[k] = pending[k]
  BY QueueOf
<1>2. PICK s : s = pending[l]
  OBVIOUS
<1>3. s \in Seq(Functors)
  BY <1>2 DEF TypeInv
<1>4. Range(Append(s, f)) = Range(s) \cup {f}
  BY <1>3, AppendRange
<1>5. f \in At(l)' /\ At(l) \subseteq At(l)'
  BY <1>1, <1>2, <1>4 DEF At
<1>6. \A k \in Loops : k # l => At(k)' = At(k)
  BY <1>1 DEF At
<1> QED BY <1>5, <1>6

ForceQueued == \E l \in Loops : \E f \in At(l) : f.op = "forceCloseInLoop"

LEMMA HalfIs ==
  HalfCloseNotForgotten <=>
    (conn.state = "kDisconnecting" => conn.fin \/ "out" \in conn.events \/ ForceQueued)
  BY QueuedIs DEF HalfCloseNotForgotten, ForceQueued

LEMMA HalfStep ==
  ASSUME TypeInv, LifeInv, HalfCloseNotForgotten, [Next]_vars
  PROVE  HalfCloseNotForgotten'
<1>k. /\ Observer \in Threads /\ Loops \subseteq Threads /\ (app.pc # "idle" => io \in Loops)
  BY IoKnown
<1>i. conn.state = "kDisconnecting" => conn.fin \/ "out" \in conn.events \/ ForceQueued
  BY HalfIs
<1>q. \A f : f \in Queued' <=> \E l \in Loops : f \in At(l)'
  BY DEF Queued, At
<1>g. SUFFICES conn'.state = "kDisconnecting"
                 => conn'.fin \/ "out" \in conn'.events \/ ForceQueued'
  BY <1>q DEF HalfCloseNotForgotten, ForceQueued
<1> DEFINE Goal == conn'.state = "kDisconnecting"
                     => conn'.fin \/ "out" \in conn'.events \/ ForceQueued'
<1>1. ASSUME conn' = conn, \A l \in Loops : At(l) \subseteq At(l)' PROVE Goal
  <2>1. ForceQueued => ForceQueued'
    BY <1>1 DEF ForceQueued
  <2> QED BY <1>i, <1>1, <2>1
<1>2. ASSUME conn' = conn, UNCHANGED <<pending, batch>> PROVE Goal
  <2>1. \A l \in Loops : At(l) \subseteq At(l)'
    BY <1>2 DEF At
  <2> QED BY <1>1, <1>2, <2>1
<1>3. ASSUME NEW l \in Loops, CloseCallbacks(l) \/ RemoveConnectionInLoop(l) PROVE Goal
  <2>1. conn' = conn
    BY <1>3 DEF CloseCallbacks, RemoveConnectionInLoop
  <2>2. conn.state = "kDisconnected"
    <3>1. CASE CloseCallbacks(l)
      BY <3>1 DEF CloseCallbacks, LifeInv, Phases
    <3>2. CASE RemoveConnectionInLoop(l)
      <4>1. /\ Head(batch[l]) \in At(l) /\ Head(batch[l]).op = "removeConnectionInLoop"
        BY <3>2, RunOf DEF RemoveConnectionInLoop
      <4> QED BY <4>1 DEF LifeInv, FunctorsOK, FunctorOK
    <3> QED BY <1>3, <3>1, <3>2
  <2> QED BY <2>1, <2>2
<1>4. ASSUME NEW l \in Loops, LoopOnly(DoPendingFunctors(l)) PROVE Goal
  <2>1. /\ batch[l] = <<>> /\ conn' = conn
        /\ batch' = [batch EXCEPT ![l] = pending[l]] /\ pending' = [pending EXCEPT ![l] = <<>>]
    BY <1>4 DEF LoopOnly, DoPendingFunctors, LifeInv, Rounds, connVars
  <2>2. /\ batch'[l] = pending[l]
        /\ \A k \in Loops : k # l => batch'[k] = batch[k] /\ pending'[k] = pending[k]
    BY <2>1 DEF TypeInv
  <2>3. ASSUME NEW k \in Loops PROVE At(k) \subseteq At(k)'
    <3>1. CASE k = l
      BY <2>1, <2>2, <3>1, EmptyQueue DEF At
    <3>2. CASE k # l
      BY <2>2, <3>2 DEF At
    <3> QED BY <3>1, <3>2
  <2> QED BY <1>1, <2>1, <2>3
<1>5. ASSUME NEW l \in Loops, HandleRead(l) PROVE Goal
  <2>1. PICK n, b, k : OneRead(conn, rcvq, n, b, k) /\ Callback(l, k)
    BY <1>5, ReadStep
  <2>2. batch' = batch
    BY <1>5, ReadStep
  <2>3. /\ k \in Conns /\ k.state = conn.state /\ k.events = conn.events /\ k.fin = conn.fin
    <3>1. PICK c : c = conn
      OBVIOUS
    <3>2. PICK q : q = rcvq
      OBVIOUS
    <3>3. c \in Conns /\ q \in Seq(InBytes) /\ OneRead(c, q, n, b, k)
      BY <2>1, <3>1, <3>2 DEF TypeInv
    <3>4. k \in Conns /\ k.state = c.state /\ k.events = c.events /\ k.fin = c.fin
      BY <3>3, OneReadOf
    <3> QED BY <3>1, <3>4
  <2>4. CASE conn' = k /\ pending' = pending
    <3>1. ForceQueued => ForceQueued'
      BY <2>2, <2>4 DEF ForceQueued, At
    <3> QED BY <1>i, <2>3, <2>4, <3>1
  <2>5. ASSUME NEW m \in unsent, k.state = "kConnected", conn' \in SendInLoop(k, Bytes(m)) PROVE Goal
    <3>1. PICK data : data = Bytes(m)
      OBVIOUS
    <3>2. data \in Seq(OutBytes)
      BY <3>1, BytesOf DEF TypeInv
    <3>3. PICK j : j = conn'
      OBVIOUS
    <3>4. j \in SendInLoop(k, data)
      BY <2>5, <3>1, <3>3
    <3>5. j.state = k.state
      BY <2>3, <3>2, <3>4, SendInLoopOf
    <3> QED BY <2>5, <3>3, <3>5
  <2>6. CASE conn' = Shutdown(k) /\ pending' = pending
    <3>1. PICK j : j = conn'
      OBVIOUS
    <3>2. /\ j.events = k.events
          /\ \/ j = k /\ k.state # "kConnected"
             \/ j.fin = IF "out" \in k.events THEN k.fin ELSE TRUE
      BY <2>3, <2>6, <3>1, ShutdownOf
    <3>3. ForceQueued => ForceQueued'
      BY <2>2, <2>6 DEF ForceQueued, At
    <3> QED BY <1>i, <2>3, <3>1, <3>2, <3>3
  <2>7. CASE QueueInLoop(l, l, Functor("forceCloseInLoop"))
    <3>1. Functor("forceCloseInLoop") \in Functors /\ Functor("forceCloseInLoop").op = "forceCloseInLoop"
      BY FunctorTypes DEF Ops, Functor
    <3>2. Functor("forceCloseInLoop") \in At(l)'
      BY <1>k, <2>2, <2>7, <3>1, QueueGrows
    <3>3. ForceQueued'
      BY <3>1, <3>2 DEF ForceQueued
    <3> QED BY <3>3
  <2> QED BY <2>1, <2>4, <2>5, <2>6, <2>7 DEF Callback
<1>6. ASSUME NEW l \in Loops, HandleWrite(l) PROVE Goal
  <2>1. PICK k : k = conn
    OBVIOUS
  <2>2. PICK j : j = conn'
    OBVIOUS
  <2>3. k \in Conns /\ j \in WriteResults(k) /\ UNCHANGED <<pending, batch>>
    BY <1>6, <2>1, <2>2 DEF HandleWrite, TypeInv
  <2>4. CASE j = k
    BY <1>2, <2>1, <2>2, <2>3, <2>4
  <2>5. CASE j # k
    <3>1. /\ j.state = k.state /\ "out" \in k.events
          /\ \/ j.events = k.events
             \/ /\ j.events = k.events \ {"out"}
                /\ j.fin = IF k.state = "kDisconnecting" /\ "out" \notin j.events THEN TRUE ELSE k.fin
      BY <2>3, <2>5, WriteResultsOf
    <3> QED BY <2>2, <3>1
  <2> QED BY <2>4, <2>5
<1>7. ASSUME NEW l \in Loops, RunSendInLoop(l) PROVE Goal
  <2>1. PICK k : k = conn
    OBVIOUS
  <2>2. PICK j : j = conn'
    OBVIOUS
  <2>3. PICK data : data = Bytes(Head(batch[l]).msg)
    OBVIOUS
  <2>4. Running(l, "sendInLoop") /\ Ran(l) /\ pending' = pending
    BY <1>7 DEF RunSendInLoop
  <2>5. Head(batch[l]) \in At(l) /\ Head(batch[l]).op = "sendInLoop"
    BY <2>4, RunOf
  <2>6. data \in Seq(OutBytes)
    BY <2>3, <2>5, BytesOf DEF LifeInv, FunctorsOK, FunctorOK
  <2>7. k \in Conns /\ j \in SendInLoop(k, data)
    BY <1>7, <2>1, <2>2, <2>3 DEF RunSendInLoop, TypeInv
  <2>8. /\ j.state = k.state /\ j.fin = k.fin
        /\ j = k \/ j.events \in {k.events, k.events \cup {"out"}}
    BY <2>6, <2>7, SendInLoopOf
  <2>9. /\ \A f \in At(l) : f \in At(l)' \/ f = Head(batch[l])
        /\ \A m \in Loops : m # l => At(m)' = At(m)
    BY <2>4, RunLast DEF LifeInv
  <2>10. ForceQueued => ForceQueued'
    BY <2>5, <2>9 DEF ForceQueued
  <2> QED BY <1>i, <2>1, <2>2, <2>8, <2>10
<1>8. ASSUME NEW l \in Loops, ForceCloseInLoop(l) \/ HandleReadEnd(l) PROVE Goal
  <2>1. CASE conn' = Closed(conn)
    <3>1. PICK k : k = conn
      OBVIOUS
    <3>2. PICK j : j = conn'
      OBVIOUS
    <3>3. j.state = "kDisconnected"
      BY <2>1, <3>1, <3>2, ClosedOf DEF TypeInv
    <3> QED BY <3>2, <3>3
  <2>2. CASE conn.state # "kDisconnecting" /\ conn' = conn
    BY <2>2
  <2> QED BY <1>8, <2>1, <2>2 DEF ForceCloseInLoop, HandleReadEnd
<1>9. ASSUME NEW l \in Loops, ConnectEstablished(l) PROVE Goal
  <2>1. PICK k : k = conn
    OBVIOUS
  <2>2. PICK j : j = conn'
    OBVIOUS
  <2>3. j = EnableReading([k EXCEPT !.state = "kConnected"]) /\ k \in Conns
    BY <1>9, <2>1, <2>2 DEF ConnectEstablished, TypeInv
  <2>4. j.state = "kConnected"
    BY <2>3, EnableReadingOf
  <2> QED BY <2>2, <2>4
<1>10. ASSUME HandleAccept PROVE Goal
  <2>1. PICK k : k = conn
    OBVIOUS
  <2>2. PICK j : j = conn'
    OBVIOUS
  <2>3. k \in Conns /\ \/ j = EnableReading([k EXCEPT !.state = "kConnected"])
                       \/ j = [k EXCEPT !.state = "kConnecting"]
    BY <1>10, <2>1, <2>2 DEF HandleAccept, TypeInv
  <2>4. j.state = "kConnected" \/ j.state = "kConnecting"
    <3>1. CASE j = [k EXCEPT !.state = "kConnecting"]
      BY <2>3, <3>1 DEF Conns
    <3>2. CASE j = EnableReading([k EXCEPT !.state = "kConnected"])
      BY <2>3, <3>2, EnableReadingOf
    <3> QED BY <2>3, <3>1, <3>2
  <2> QED BY <2>2, <2>4
<1>11. ASSUME NEW l \in Loops, ConnectDestroyed(l) PROVE Goal
  <2>1. /\ Head(batch[l]) \in At(l) /\ Head(batch[l]).op = "connectDestroyed"
    BY <1>11, RunOf DEF ConnectDestroyed
  <2>2. conn.state = "kDisconnected"
    BY <2>1 DEF LifeInv, FunctorsOK, FunctorOK
  <2>3. conn'.state = conn.state
    BY <1>11 DEF ConnectDestroyed, RemoveChannel, TypeInv, Conns
  <2> QED BY <2>2, <2>3
<1>12. ASSUME ObserverQueue PROVE Goal
  <2>1. /\ app.pc = "push" /\ QueueInLoop(Observer, io, [op |-> "sendInLoop", msg |-> app.msg])
        /\ conn' = conn /\ batch' = batch
    BY <1>12 DEF ObserverQueue, connVars
  <2>2. PICK f : f = [op |-> "sendInLoop", msg |-> app.msg]
    OBVIOUS
  <2>3. f \in Functors
    BY <2>2 DEF TypeInv, Functors, Ops
  <2>4. PICK i : i = io
    OBVIOUS
  <2>5. i \in Loops /\ QueueInLoop(Observer, i, f)
    BY <1>k, <2>1, <2>2, <2>4
  <2>6. \A l \in Loops : At(l) \subseteq At(l)'
    BY <1>k, <2>1, <2>3, <2>5, QueueGrows
  <2> QED BY <1>1, <2>1, <2>6
<1>13. ASSUME NEW l \in Loops, LoopStep(l) PROVE Goal
  <2>1. CASE \/ PollLoop(l) \/ LoopOnly(Wakeup(l)) \/ LoopOnly(HandleWakeup(l)) \/ LoopOnly(EndFunctors(l))
             \/ HandleError(l) \/ HandleReadError(l)
    <3>1. conn' = conn /\ UNCHANGED <<pending, batch>>
      BY <2>1 DEF PollLoop, Poll, LoopOnly, Wakeup, HandleWakeup, EndFunctors, HandleError,
                  HandleReadError, connVars
    <3> QED BY <1>2, <3>1
  <2> QED BY <1>3, <1>4, <1>5, <1>6, <1>7, <1>8, <1>9, <1>10, <1>11, <1>13, <2>1 DEF LoopStep
<1>14. ASSUME PeerStep \/ UNCHANGED vars \/ ObserverWake \/ \E m \in Msgs : ObserverSend(m) PROVE Goal
  <2>1. conn' = conn /\ UNCHANGED <<pending, batch>>
    BY <1>14 DEF PeerStep, PeerConnect, PeerSend, PeerClose, PeerReset, vars, loopVars, connVars,
                 ObserverWake, Wakeup, ObserverSend
  <2> QED BY <1>2, <2>1
<1> QED BY <1>12, <1>13, <1>14 DEF Next, ObserverStep

(* A shutdown() is never forgotten: a connection that is being disconnected   *)
(* has sent its FIN, still waits for the socket, or is about to be closed.    *)
THEOREM HalfCloseIsKept == Spec => []HalfCloseNotForgotten
<1>1. Init => HalfCloseNotForgotten
  BY DEF Init, HalfCloseNotForgotten
<1>2. (TypeInv /\ LifeInv) /\ HalfCloseNotForgotten /\ [Next]_vars => HalfCloseNotForgotten'
  BY HalfStep
<1> QED BY <1>1, <1>2, Invariant, PTL DEF Spec
=============================================================================
