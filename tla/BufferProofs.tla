---------------------------- MODULE BufferProofs ----------------------------
(***************************************************************************)
(* Proofs that the index arithmetic of muduo::net::Buffer implements a     *)
(* queue of bytes: whatever the indices, the size of the vector and the    *)
(* number of bytes, append() and readFd() add behind the readable bytes,   *)
(* retrieve() takes from their front, and moving them or growing the       *)
(* vector changes none of them.                                            *)
(***************************************************************************)
EXTENDS Buffer, SequenceTheorems, TLAPS

(* The buffers a connection can have, with bytes of set S.  The prepend area  *)
(* is never given away, so retrieveAll() has room to go back to.              *)
Buffers(S) ==
    {b \in [data : Seq(S), r : Nat, w : Nat] :
        b.r <= b.w /\ b.w <= Len(b.data) /\ CheapPrepend <= Len(b.data)}

-----------------------------------------------------------------------------
LEMMA BufferTypes ==
  ASSUME NEW S, NEW b \in Buffers(S)
  PROVE  /\ b.data \in Seq(S) /\ Len(b.data) \in Nat /\ b.r \in Nat /\ b.w \in Nat
         /\ b.r <= b.w /\ b.w <= Len(b.data)
         /\ CheapPrepend \in Nat /\ CheapPrepend <= Len(b.data)
         /\ b = [data |-> b.data, r |-> b.r, w |-> b.w]
  BY BufferAssumption DEF Buffers

LEMMA BufferMade ==
  ASSUME NEW S, NEW d \in Seq(S), NEW r \in Nat, NEW w \in Nat,
         r <= w, w <= Len(d), CheapPrepend <= Len(d)
  PROVE  [data |-> d, r |-> r, w |-> w] \in Buffers(S)
  BY DEF Buffers

(* The readable bytes of a vector between two indices. *)
LEMMA Between ==
  ASSUME NEW S, NEW d \in Seq(S), NEW r \in Nat, NEW w \in Nat, r <= w, w <= Len(d)
  PROVE  /\ SubSeq(d, r + 1, w) \in Seq(S) /\ Len(SubSeq(d, r + 1, w)) = w - r
         /\ \A i \in 1..(w - r) : SubSeq(d, r + 1, w)[i] = d[r + i]
<1>1. \A i \in (r + 1)..w : d[i] \in S
  <2>1. \A i \in (r + 1)..w : i \in 1..Len(d)
    OBVIOUS
  <2> QED BY <2>1, ElementOfSeq
<1>2. /\ SubSeq(d, r + 1, w) \in Seq(S)
      /\ Len(SubSeq(d, r + 1, w)) = IF r + 1 <= w THEN w - (r + 1) + 1 ELSE 0
      /\ \A i \in 1..(w - (r + 1) + 1) : SubSeq(d, r + 1, w)[i] = d[(r + 1) + i - 1]
  <2>1. r + 1 \in Int /\ w \in Int
    OBVIOUS
  <2> QED BY <1>1, <2>1, SubSeqProperties
<1>3. w - (r + 1) + 1 = w - r /\ \A i \in 1..(w - r) : (r + 1) + i - 1 = r + i
  OBVIOUS
<1>4. (IF r + 1 <= w THEN w - (r + 1) + 1 ELSE 0) = w - r
  OBVIOUS
<1> QED BY <1>2, <1>3, <1>4

(* Cutting a sequence in two and putting it together again. *)
LEMMA JoinSubSeq ==
  ASSUME NEW S, NEW s \in Seq(S), NEW n \in 0..Len(s)
  PROVE  SubSeq(s, 1, n) \o SubSeq(s, n + 1, Len(s)) = s
<1> DEFINE h == SubSeq(s, 1, n)
           t == SubSeq(s, n + 1, Len(s))
<1>1. Len(s) \in Nat /\ n \in Nat /\ n <= Len(s)
  BY LenProperties
<1>2. /\ h \in Seq(S) /\ Len(h) = n /\ \A i \in 1..n : h[i] = s[i]
  <2>1. /\ SubSeq(s, 0 + 1, n) \in Seq(S) /\ Len(SubSeq(s, 0 + 1, n)) = n - 0
        /\ \A i \in 1..(n - 0) : SubSeq(s, 0 + 1, n)[i] = s[0 + i]
    BY <1>1, Between
  <2> QED BY <1>1, <2>1
<1>3. /\ t \in Seq(S) /\ Len(t) = Len(s) - n
      /\ \A i \in 1..(Len(s) - n) : t[i] = s[n + i]
  BY <1>1, Between
<1> HIDE DEF h, t
<1>4. /\ h \o t \in Seq(S) /\ Len(h \o t) = Len(s)
      /\ \A i \in 1..Len(s) : (h \o t)[i] = IF i <= n THEN h[i] ELSE t[i - n]
  <2>1. /\ h \o t \in Seq(S) /\ Len(h \o t) = Len(h) + Len(t)
        /\ \A i \in 1..(Len(h) + Len(t)) :
              (h \o t)[i] = IF i <= Len(h) THEN h[i] ELSE t[i - Len(h)]
    BY <1>2, <1>3, ConcatProperties
  <2>2. Len(h) + Len(t) = Len(s)
    BY <1>1, <1>2, <1>3
  <2>3. Len(h) = n
    BY <1>2
  <2> QED BY <2>1, <2>2, <2>3
<1>5. ASSUME NEW i \in 1..Len(s)
      PROVE  (h \o t)[i] = s[i]
  <2>1. CASE i <= n
    <3>1. i \in 1..n
      BY <1>1, <2>1
    <3> QED BY <1>2, <1>4, <2>1, <3>1
  <2>2. CASE ~(i <= n)
    <3>1. i - n \in 1..(Len(s) - n) /\ n + (i - n) = i
      BY <1>1, <2>2
    <3>2. t[i - n] = s[i]
      BY <1>3, <3>1
    <3> QED BY <1>4, <2>2, <3>2
  <2> QED BY <2>1, <2>2
<1>6. h \o t = s
  BY <1>4, <1>5, SeqEqual
<1> QED BY <1>6 DEF h, t

LEMMA PeekOf ==
  ASSUME NEW S, NEW b \in Buffers(S)
  PROVE  /\ Peek(b) \in Seq(S) /\ Len(Peek(b)) = ReadableBytes(b) /\ ReadableBytes(b) \in Nat
         /\ \A i \in 1..ReadableBytes(b) : Peek(b)[i] = b.data[b.r + i]
<1>1. b.w - b.r \in Nat
  BY BufferTypes
<1> QED BY <1>1, BufferTypes, Between DEF Peek, ReadableBytes

LEMMA OverwriteOf ==
  ASSUME NEW S, NEW d \in Seq(S), NEW s \in Seq(S), NEW at \in Nat, at + Len(s) <= Len(d)
  PROVE  /\ Overwrite(d, at, s) \in Seq(S) /\ Len(Overwrite(d, at, s)) = Len(d)
         /\ \A i \in 1..Len(d) : i <= at \/ i > at + Len(s) => Overwrite(d, at, s)[i] = d[i]
         /\ \A i \in 1..Len(s) : Overwrite(d, at, s)[at + i] = s[i]
<1> DEFINE o == Overwrite(d, at, s)
<1>1. /\ Len(d) \in Nat /\ Len(s) \in Nat /\ DOMAIN d = 1..Len(d)
      /\ \A i \in 1..Len(d) : d[i] \in S
      /\ \A i \in 1..Len(s) : s[i] \in S
  BY LenProperties, ElementOfSeq
<1>2. \A i \in 1..Len(d) : at < i /\ i <= at + Len(s) => i - at \in 1..Len(s)
  BY <1>1
<1>3. o = [i \in 1..Len(d) |-> IF at < i /\ i <= at + Len(s) THEN s[i - at] ELSE d[i]]
  BY <1>1 DEF Overwrite
<1>4. \A i \in 1..Len(d) : (IF at < i /\ i <= at + Len(s) THEN s[i - at] ELSE d[i]) \in S
  BY <1>1, <1>2
<1>5. o \in [1..Len(d) -> S]
  BY <1>3, <1>4
<1>6. o \in Seq(S)
  BY <1>1, <1>5, SeqDef
<1>7. Len(o) = Len(d)
  BY <1>1, <1>5, <1>6, LenProperties
<1>8. \A i \in 1..Len(d) : i <= at \/ i > at + Len(s) => o[i] = d[i]
  BY <1>1, <1>3
<1>9. ASSUME NEW i \in 1..Len(s)
      PROVE  o[at + i] = s[i]
  <2>1. at + i \in 1..Len(d) /\ at < at + i /\ at + i <= at + Len(s) /\ (at + i) - at = i
    BY <1>1
  <2> QED BY <1>3, <2>1
<1> QED BY <1>6, <1>7, <1>8, <1>9

LEMMA ZerosOf ==
  ASSUME NEW S, ZeroByte \in S, NEW n \in Nat
  PROVE  Zeros(n) \in Seq(S) /\ Len(Zeros(n)) = n
<1>1. Zeros(n) \in [1..n -> S]
  BY DEF Zeros
<1>2. Zeros(n) \in Seq(S)
  BY <1>1, SeqDef
<1>3. DOMAIN Zeros(n) = 1..n /\ DOMAIN Zeros(n) = 1..Len(Zeros(n)) /\ Len(Zeros(n)) \in Nat
  BY <1>2, LenProperties DEF Zeros
<1> QED BY <1>2, <1>3

-----------------------------------------------------------------------------
LEMMA NewBufferEmpty ==
  ASSUME NEW S, ZeroByte \in S
  PROVE  NewBuffer \in Buffers(S) /\ Peek(NewBuffer) = <<>>
<1>1. CheapPrepend \in Nat /\ CheapPrepend + InitialSize \in Nat
      /\ CheapPrepend <= CheapPrepend + InitialSize
  BY BufferAssumption
<1>2. Zeros(CheapPrepend + InitialSize) \in Seq(S)
      /\ Len(Zeros(CheapPrepend + InitialSize)) = CheapPrepend + InitialSize
  BY <1>1, ZerosOf
<1>3. NewBuffer \in Buffers(S)
  BY <1>1, <1>2, BufferMade DEF NewBuffer
<1>4. Len(Peek(NewBuffer)) = 0 /\ Peek(NewBuffer) \in Seq(S)
  BY <1>1, <1>3, PeekOf DEF NewBuffer, ReadableBytes
<1> QED BY <1>3, <1>4, EmptySeq

LEMMA RetrieveAllEmpties ==
  ASSUME NEW S, NEW b \in Buffers(S)
  PROVE  RetrieveAll(b) \in Buffers(S) /\ Peek(RetrieveAll(b)) = <<>>
         /\ ReadableBytes(RetrieveAll(b)) = 0
<1>1. RetrieveAll(b) = [data |-> b.data, r |-> CheapPrepend, w |-> CheapPrepend]
  <2>1. PICK e : e = [b EXCEPT !.r = CheapPrepend]
    OBVIOUS
  <2>2. e = [data |-> b.data, r |-> CheapPrepend, w |-> b.w]
    BY <2>1, BufferTypes
  <2>3. [e EXCEPT !.w = CheapPrepend] = [data |-> b.data, r |-> CheapPrepend, w |-> CheapPrepend]
    BY ONLY <2>2
  <2> QED BY <2>1, <2>3 DEF RetrieveAll
<1>2. RetrieveAll(b) \in Buffers(S)
  BY <1>1, BufferTypes, BufferMade
<1>3. ReadableBytes(RetrieveAll(b)) = 0
  BY <1>1, BufferTypes DEF ReadableBytes
<1>4. Len(Peek(RetrieveAll(b))) = 0 /\ Peek(RetrieveAll(b)) \in Seq(S)
  BY <1>2, <1>3, PeekOf
<1> QED BY <1>2, <1>3, <1>4, EmptySeq

(* retrieve(n) drops the first n readable bytes. *)
LEMMA RetrieveDrops ==
  ASSUME NEW S, NEW b \in Buffers(S), NEW n \in 0..ReadableBytes(b)
  PROVE  /\ Retrieve(b, n) \in Buffers(S)
         /\ ReadableBytes(Retrieve(b, n)) = ReadableBytes(b) - n
         /\ SubSeq(Peek(b), 1, n) \o Peek(Retrieve(b, n)) = Peek(b)
<1>p. /\ Peek(b) \in Seq(S) /\ Len(Peek(b)) = ReadableBytes(b) /\ ReadableBytes(b) \in Nat
      /\ n \in Nat /\ n <= ReadableBytes(b)
  BY PeekOf
<1>1. CASE n < ReadableBytes(b)
  <2> DEFINE c == Retrieve(b, n)
  <2>1. c = [data |-> b.data, r |-> b.r + n, w |-> b.w]
    BY <1>1, BufferTypes DEF Retrieve
  <2>2. b.r + n \in Nat /\ b.r + n <= b.w /\ b.w - (b.r + n) = (b.w - b.r) - n
    BY <1>p, <1>1, BufferTypes DEF ReadableBytes
  <2>3. c \in Buffers(S)
    BY <2>1, <2>2, BufferTypes, BufferMade
  <2>4. ReadableBytes(c) = ReadableBytes(b) - n
    BY <2>1, <2>2 DEF ReadableBytes
  <2>5. /\ SubSeq(Peek(b), 1, n) \in Seq(S) /\ Len(SubSeq(Peek(b), 1, n)) = n
        /\ \A i \in 1..n : SubSeq(Peek(b), 1, n)[i] = Peek(b)[i]
    <3>1. /\ SubSeq(Peek(b), 0 + 1, n) \in Seq(S) /\ Len(SubSeq(Peek(b), 0 + 1, n)) = n - 0
          /\ \A i \in 1..(n - 0) : SubSeq(Peek(b), 0 + 1, n)[i] = Peek(b)[0 + i]
      BY <1>p, Between
    <3> QED BY <1>p, <3>1
  <2>6. /\ Peek(c) \in Seq(S) /\ Len(Peek(c)) = ReadableBytes(b) - n
        /\ \A i \in 1..(ReadableBytes(b) - n) : Peek(c)[i] = b.data[(b.r + n) + i]
    BY <2>1, <2>3, <2>4, PeekOf
  <2>7. /\ SubSeq(Peek(b), 1, n) \o Peek(c) \in Seq(S)
        /\ Len(SubSeq(Peek(b), 1, n) \o Peek(c)) = ReadableBytes(b)
        /\ \A i \in 1..ReadableBytes(b) : (SubSeq(Peek(b), 1, n) \o Peek(c))[i] =
              IF i <= n THEN SubSeq(Peek(b), 1, n)[i] ELSE Peek(c)[i - n]
    <3>1. n + (ReadableBytes(b) - n) = ReadableBytes(b)
      BY <1>p
    <3> HIDE DEF c
    <3> QED BY <2>5, <2>6, <3>1, ConcatProperties
  <2>8. \A i \in 1..ReadableBytes(b) : (SubSeq(Peek(b), 1, n) \o Peek(c))[i] = Peek(b)[i]
    <3> SUFFICES ASSUME NEW i \in 1..ReadableBytes(b)
                 PROVE  (SubSeq(Peek(b), 1, n) \o Peek(c))[i] = Peek(b)[i]
      OBVIOUS
    <3>1. CASE i <= n
      <4>1. i \in 1..n
        BY <1>p, <3>1
      <4> QED BY <2>5, <2>7, <3>1, <4>1
    <3>2. CASE ~(i <= n)
      <4>1. i - n \in 1..(ReadableBytes(b) - n) /\ (b.r + n) + (i - n) = b.r + i
        BY <1>p, <3>2, BufferTypes
      <4>2. Peek(b)[i] = b.data[b.r + i]
        BY PeekOf
      <4> QED BY <2>6, <2>7, <3>2, <4>1, <4>2
    <3> QED BY <3>1, <3>2
  <2> HIDE DEF c
  <2>9. SubSeq(Peek(b), 1, n) \o Peek(c) = Peek(b)
    BY <1>p, <2>7, <2>8, SeqEqual
  <2> QED BY <2>3, <2>4, <2>9 DEF c
<1>2. CASE n = ReadableBytes(b)
  <2>1. Retrieve(b, n) = RetrieveAll(b)
    BY <1>p, <1>2 DEF Retrieve
  <2>2. SubSeq(Peek(b), 1, n) = Peek(b)
    BY <1>p, <1>2, SubSeqFull
  <2>3. ReadableBytes(b) - n = 0
    BY <1>p, <1>2
  <2> QED BY <1>p, <2>1, <2>2, <2>3, RetrieveAllEmpties, ConcatEmptySeq
<1> QED BY <1>p, <1>1, <1>2
(* makeSpace(len): the readable bytes survive both the resize and the move to *)
(* the front, and there is room for len bytes afterwards.                     *)
LEMMA MakeSpaceKeeps ==
  ASSUME NEW S, ZeroByte \in S, NEW b \in Buffers(S), NEW len \in Nat, WritableBytes(b) < len
  PROVE  /\ MakeSpace(b, len) \in Buffers(S)
         /\ WritableBytes(MakeSpace(b, len)) >= len
         /\ Peek(MakeSpace(b, len)) = Peek(b)
<1>t. /\ b.data \in Seq(S) /\ Len(b.data) \in Nat /\ b.r \in Nat /\ b.w \in Nat
      /\ b.r <= b.w /\ b.w <= Len(b.data)
      /\ CheapPrepend \in Nat /\ CheapPrepend <= Len(b.data)
  BY BufferTypes
<1>p. /\ Peek(b) \in Seq(S) /\ Len(Peek(b)) = b.w - b.r
      /\ \A i \in 1..(b.w - b.r) : Peek(b)[i] = b.data[b.r + i]
  BY PeekOf DEF ReadableBytes
<1>1. CASE WritableBytes(b) + PrependableBytes(b) < len + CheapPrepend
  <2> DEFINE z == Zeros(b.w + len - Len(b.data))
             d == b.data \o z
             c == MakeSpace(b, len)
  <2>1. b.w + len - Len(b.data) \in Nat
    BY <1>t DEF WritableBytes
  <2>2. z \in Seq(S) /\ Len(z) = b.w + len - Len(b.data)
    BY <2>1, ZerosOf
  <2>3. c = [data |-> d, r |-> b.r, w |-> b.w]
    BY <1>1 DEF MakeSpace, Buffers
  <2> HIDE DEF z, c
  <2>4. /\ d \in Seq(S) /\ Len(d) = Len(b.data) + (b.w + len - Len(b.data))
        /\ \A i \in 1..(Len(b.data) + Len(z)) :
              d[i] = IF i <= Len(b.data) THEN b.data[i] ELSE z[i - Len(b.data)]
    BY <1>t, <2>2, ConcatProperties
  <2>5. Len(d) = b.w + len /\ b.w <= Len(d) /\ CheapPrepend <= Len(d)
    BY <1>t, <2>1, <2>4 DEF WritableBytes
  <2>6. \A i \in 1..Len(b.data) : d[i] = b.data[i]
    BY <1>t, <2>2, <2>1, <2>4
  <2> HIDE DEF d
  <2>7. c \in Buffers(S)
    BY <1>t, <2>3, <2>4, <2>5, BufferMade
  <2>8. WritableBytes(c) >= len
    BY <1>t, <2>3, <2>5 DEF WritableBytes
  <2>9. /\ Peek(c) \in Seq(S) /\ Len(Peek(c)) = b.w - b.r
        /\ \A i \in 1..(b.w - b.r) : Peek(c)[i] = d[b.r + i]
    BY <2>3, <2>7, PeekOf DEF ReadableBytes
  <2>10. \A i \in 1..(b.w - b.r) : b.r + i \in 1..Len(b.data)
    BY <1>t
  <2>11. Peek(c) = Peek(b)
    BY <1>p, <2>6, <2>9, <2>10, SeqEqual
  <2> QED BY <2>7, <2>8, <2>11 DEF c
<1>2. CASE ~(WritableBytes(b) + PrependableBytes(b) < len + CheapPrepend)
  <2> DEFINE d == Overwrite(b.data, CheapPrepend, Peek(b))
             c == MakeSpace(b, len)
             w == CheapPrepend + (b.w - b.r)
  <2>1. c = [data |-> d, r |-> CheapPrepend, w |-> w]
    BY <1>2 DEF MakeSpace, ReadableBytes
  <2>2. w \in Nat /\ CheapPrepend <= w /\ w + len <= Len(b.data) /\ w - CheapPrepend = b.w - b.r
    BY <1>t, <1>2 DEF WritableBytes, PrependableBytes
  <2>3. /\ d \in Seq(S) /\ Len(d) = Len(b.data)
        /\ \A i \in 1..(b.w - b.r) : d[CheapPrepend + i] = Peek(b)[i]
    <3>1. CheapPrepend + Len(Peek(b)) <= Len(b.data)
      BY <1>t, <1>p, <2>2
    <3>2. /\ d \in Seq(S) /\ Len(d) = Len(b.data)
          /\ \A i \in 1..Len(Peek(b)) : d[CheapPrepend + i] = Peek(b)[i]
      BY <1>t, <1>p, <3>1, OverwriteOf
    <3> QED BY <1>p, <3>2
  <2> HIDE DEF d, c, w
  <2>4. c \in Buffers(S)
    <3>1. w <= Len(d)
      BY <1>t, <2>2, <2>3
    <3> QED BY <1>t, <2>1, <2>2, <2>3, <3>1, BufferMade
  <2>5. WritableBytes(c) >= len
    BY <1>t, <2>1, <2>2, <2>3 DEF WritableBytes
  <2>6. /\ Peek(c) \in Seq(S) /\ Len(Peek(c)) = b.w - b.r
        /\ \A i \in 1..(b.w - b.r) : Peek(c)[i] = d[CheapPrepend + i]
    BY <2>1, <2>2, <2>4, PeekOf DEF ReadableBytes
  <2>7. Peek(c) = Peek(b)
    BY <1>p, <2>3, <2>6, SeqEqual
  <2> QED BY <2>4, <2>5, <2>7 DEF c
<1> QED BY <1>1, <1>2

(* Bytes written behind the writer index, where there is room for them. *)
Written(b, s) ==
    [data |-> Overwrite(b.data, b.w, s), r |-> b.r, w |-> b.w + Len(s)]

LEMMA WrittenBehind ==
  ASSUME NEW S, NEW b \in Buffers(S), NEW s \in Seq(S), Len(s) <= WritableBytes(b)
  PROVE  Written(b, s) \in Buffers(S) /\ Peek(Written(b, s)) = Peek(b) \o s
<1>t. /\ b.data \in Seq(S) /\ Len(b.data) \in Nat /\ b.r \in Nat /\ b.w \in Nat
      /\ b.r <= b.w /\ b.w <= Len(b.data)
      /\ CheapPrepend \in Nat /\ CheapPrepend <= Len(b.data)
  BY BufferTypes
<1>p. /\ Peek(b) \in Seq(S) /\ Len(Peek(b)) = b.w - b.r
      /\ \A i \in 1..(b.w - b.r) : Peek(b)[i] = b.data[b.r + i]
  BY PeekOf DEF ReadableBytes
<1> DEFINE d == Overwrite(b.data, b.w, s)
           c == Written(b, s)
<1>1. c = [data |-> d, r |-> b.r, w |-> b.w + Len(s)]
  BY DEF Written
<1>2. Len(s) \in Nat /\ b.w + Len(s) <= Len(b.data) /\ b.w + Len(s) \in Nat
  BY <1>t, LenProperties DEF WritableBytes
<1>3. /\ d \in Seq(S) /\ Len(d) = Len(b.data)
      /\ \A i \in 1..Len(b.data) : i <= b.w \/ i > b.w + Len(s) => d[i] = b.data[i]
      /\ \A i \in 1..Len(s) : d[b.w + i] = s[i]
  <2>1. PICK v : v = b.data
    OBVIOUS
  <2>2. PICK at : at = b.w
    OBVIOUS
  <2>3. v \in Seq(S) /\ at \in Nat /\ at + Len(s) <= Len(v)
    BY <1>t, <1>2, <2>1, <2>2
  <2>4. /\ Overwrite(v, at, s) \in Seq(S) /\ Len(Overwrite(v, at, s)) = Len(v)
        /\ \A i \in 1..Len(v) : i <= at \/ i > at + Len(s) => Overwrite(v, at, s)[i] = v[i]
        /\ \A i \in 1..Len(s) : Overwrite(v, at, s)[at + i] = s[i]
    BY <2>3, OverwriteOf
  <2> QED BY <2>1, <2>2, <2>4
<1> HIDE DEF d, c
<1>4. c \in Buffers(S)
  <2>1. b.r <= b.w + Len(s) /\ b.w + Len(s) <= Len(d) /\ CheapPrepend <= Len(d)
    BY <1>t, <1>2, <1>3
  <2> QED BY <1>t, <1>1, <1>2, <1>3, <2>1, BufferMade
<1>5. /\ Peek(c) \in Seq(S) /\ Len(Peek(c)) = (b.w - b.r) + Len(s)
      /\ \A i \in 1..((b.w - b.r) + Len(s)) : Peek(c)[i] = d[b.r + i]
  <2>1. (b.w + Len(s)) - b.r = (b.w - b.r) + Len(s)
    BY <1>t, <1>2
  <2>2. c.w - c.r = (b.w - b.r) + Len(s) /\ c.r = b.r /\ c.data = d
    BY <1>1, <2>1
  <2> QED BY <1>4, <2>2, PeekOf DEF ReadableBytes
<1>6. /\ Peek(b) \o s \in Seq(S) /\ Len(Peek(b) \o s) = (b.w - b.r) + Len(s)
      /\ \A i \in 1..((b.w - b.r) + Len(s)) : (Peek(b) \o s)[i] =
            IF i <= b.w - b.r THEN Peek(b)[i] ELSE s[i - (b.w - b.r)]
  <2>1. PICK p : p = Peek(b)
    OBVIOUS
  <2>2. p \in Seq(S)
    BY <1>p, <2>1
  <2>3. /\ p \o s \in Seq(S) /\ Len(p \o s) = Len(p) + Len(s)
        /\ \A i \in 1..(Len(p) + Len(s)) :
              (p \o s)[i] = IF i <= Len(p) THEN p[i] ELSE s[i - Len(p)]
    BY <2>2, ConcatProperties
  <2>4. Len(p) = b.w - b.r
    BY <1>p, <2>1
  <2> QED BY <2>1, <2>3, <2>4
<1>7. ASSUME NEW i \in 1..((b.w - b.r) + Len(s))
      PROVE  Peek(c)[i] = (Peek(b) \o s)[i]
  <2>1. CASE i <= b.w - b.r
    <3>1. i \in 1..(b.w - b.r) /\ b.r + i \in 1..Len(b.data) /\ b.r + i <= b.w
      BY <1>t, <1>2, <2>1
    <3> QED BY <1>p, <1>3, <1>5, <1>6, <2>1, <3>1
  <2>2. CASE ~(i <= b.w - b.r)
    <3>1. /\ i - (b.w - b.r) \in 1..Len(s)
          /\ b.w + (i - (b.w - b.r)) = b.r + i
      BY <1>t, <1>2, <2>2
    <3>2. d[b.r + i] = s[i - (b.w - b.r)]
      BY <1>3, <3>1
    <3> QED BY <1>5, <1>6, <2>2, <3>2
  <2> QED BY <2>1, <2>2
<1>8. Peek(c) = Peek(b) \o s
  <2>1. PICK p : p = Peek(c)
    OBVIOUS
  <2>2. PICK q : q = Peek(b) \o s
    OBVIOUS
  <2>3. p \in Seq(S) /\ q \in Seq(S) /\ Len(p) = Len(q) /\ \A i \in 1..Len(p) : p[i] = q[i]
    BY <1>5, <1>6, <1>7, <2>1, <2>2
  <2>4. p = q
    BY <2>3, SeqEqual
  <2> QED BY <2>1, <2>2, <2>4
<1> QED BY <1>4, <1>8 DEF c

LEMMA WrittenIs ==
  ASSUME NEW S, NEW b \in Buffers(S), NEW s
  PROVE  Written(b, s) = [b EXCEPT !.data = Overwrite(@, b.w, s), !.w = @ + Len(s)]
<1>1. PICK x : x = Overwrite(b.data, b.w, s)
  OBVIOUS
<1>2. PICK y : y = b.w + Len(s)
  OBVIOUS
<1>3. [b EXCEPT !.data = x, !.w = y] = [data |-> x, r |-> b.r, w |-> y]
  <2>1. PICK e : e = [b EXCEPT !.data = x]
    OBVIOUS
  <2>2. e = [data |-> x, r |-> b.r, w |-> b.w]
    BY <2>1, BufferTypes
  <2>3. [e EXCEPT !.w = y] = [data |-> x, r |-> b.r, w |-> y]
    BY ONLY <2>2
  <2> QED BY <2>1, <2>3
<1> QED BY <1>1, <1>2, <1>3 DEF Written

(* append(): the new bytes come behind the ones that wait, none of which is   *)
(* lost or overwritten, however the vector had to be rearranged.              *)
THEOREM AppendIsConcatenation ==
  ASSUME NEW S, ZeroByte \in S, NEW b \in Buffers(S), NEW s \in Seq(S)
  PROVE  AppendBytes(b, s) \in Buffers(S) /\ Peek(AppendBytes(b, s)) = Peek(b) \o s
<1> DEFINE e == EnsureWritableBytes(b, Len(s))
<1>1. Len(s) \in Nat
  BY LenProperties
<1>2. e \in Buffers(S) /\ Len(s) <= WritableBytes(e) /\ Peek(e) = Peek(b)
  <2>1. CASE WritableBytes(b) < Len(s)
    <3>1. e = MakeSpace(b, Len(s))
      BY <2>1 DEF EnsureWritableBytes
    <3>2. e \in Buffers(S) /\ WritableBytes(e) >= Len(s) /\ Peek(e) = Peek(b)
      BY <1>1, <2>1, <3>1, MakeSpaceKeeps
    <3>3. WritableBytes(e) \in Int
      BY <3>2, BufferTypes DEF WritableBytes
    <3> QED BY <1>1, <3>2, <3>3
  <2>2. CASE ~(WritableBytes(b) < Len(s))
    <3>1. e = b
      BY <2>2 DEF EnsureWritableBytes
    <3>2. WritableBytes(b) \in Int
      BY BufferTypes DEF WritableBytes
    <3> QED BY <1>1, <2>2, <3>1, <3>2
  <2> QED BY <2>1, <2>2
<1>3. AppendBytes(b, s) = Written(e, s)
  BY <1>2, WrittenIs DEF AppendBytes
<1> HIDE DEF e
<1> QED BY <1>2, <1>3, WrittenBehind

(* readFd(): the part that fits behind the writer index and the part that     *)
(* went to the stack buffer come together again.                              *)
THEOREM ReadFdIsConcatenation ==
  ASSUME NEW S, ZeroByte \in S, NEW b \in Buffers(S), NEW s \in Seq(S)
  PROVE  ReadFd(b, s) \in Buffers(S) /\ Peek(ReadFd(b, s)) = Peek(b) \o s
<1> DEFINE n == WritableBytes(b)
<1>1. n \in Nat /\ Len(s) \in Nat /\ n = Len(b.data) - b.w
  BY BufferTypes, LenProperties DEF WritableBytes
<1>2. CASE Len(s) <= n
  <2>1. ReadFd(b, s) = Written(b, s)
    BY <1>2, WrittenIs DEF ReadFd
  <2> QED BY <1>2, <2>1, WrittenBehind
<1>3. CASE ~(Len(s) <= n)
  <2> DEFINE h == SubSeq(s, 1, n)
             t == SubSeq(s, n + 1, Len(s))
             c == [b EXCEPT !.data = Overwrite(@, b.w, h), !.w = Len(b.data)]
  <2>1. /\ h \in Seq(S) /\ Len(h) = n /\ t \in Seq(S) /\ h \o t = s
    <3>1. n \in 0..Len(s)
      BY <1>1, <1>3
    <3>2. /\ SubSeq(s, 0 + 1, n) \in Seq(S) /\ Len(SubSeq(s, 0 + 1, n)) = n - 0
      BY <1>1, <3>1, Between
    <3>3. SubSeq(s, n + 1, Len(s)) \in Seq(S)
      BY <1>1, <3>1, Between
    <3>4. SubSeq(s, 1, n) \o SubSeq(s, n + 1, Len(s)) = s
      BY <3>1, JoinSubSeq
    <3>5. SubSeq(s, 1, n) \in Seq(S) /\ Len(SubSeq(s, 1, n)) = n
      BY <1>1, <3>2
    <3> QED BY <3>3, <3>4, <3>5
  <2>2. ReadFd(b, s) = AppendBytes(c, t)
    BY <1>3 DEF ReadFd
  <2>3. c = Written(b, h)
    <3>1. b.w + Len(h) = Len(b.data)
      BY <1>1, <2>1, BufferTypes
    <3>2. PICK x : x = Overwrite(b.data, b.w, h)
      OBVIOUS
    <3>3. PICK y : y = Len(b.data)
      OBVIOUS
    <3>4. [b EXCEPT !.data = x, !.w = y] = [data |-> x, r |-> b.r, w |-> y]
      <4>1. PICK e : e = [b EXCEPT !.data = x]
        OBVIOUS
      <4>2. e = [data |-> x, r |-> b.r, w |-> b.w]
        BY <4>1, BufferTypes
      <4>3. [e EXCEPT !.w = y] = [data |-> x, r |-> b.r, w |-> y]
        BY ONLY <4>2
      <4> QED BY <4>1, <4>3
    <3> QED BY <3>1, <3>2, <3>3, <3>4 DEF Written
  <2>4. c \in Buffers(S) /\ Peek(c) = Peek(b) \o h
    <3>1. Len(h) <= WritableBytes(b)
      BY <1>1, <2>1
    <3> HIDE DEF h, c
    <3> QED BY <2>1, <2>3, <3>1, WrittenBehind
  <2> HIDE DEF h, t, c
  <2>5. AppendBytes(c, t) \in Buffers(S) /\ Peek(AppendBytes(c, t)) = (Peek(b) \o h) \o t
    BY <2>1, <2>4, AppendIsConcatenation
  <2>6. (Peek(b) \o h) \o t = Peek(b) \o s
    <3>1. PICK p : p = Peek(b)
      OBVIOUS
    <3>2. p \in Seq(S)
      BY <3>1, PeekOf
    <3>3. h \in Seq(S) /\ t \in Seq(S)
      BY <2>1
    <3>4. (p \o h) \o t = p \o (h \o t)
      BY ONLY <3>2, <3>3, ConcatAssociative
    <3> QED BY <2>1, <3>1, <3>4
  <2> QED BY <2>2, <2>5, <2>6
<1> QED BY <1>2, <1>3
=============================================================================
