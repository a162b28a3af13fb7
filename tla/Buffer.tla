------------------------------- MODULE Buffer -------------------------------
(***************************************************************************)
(* muduo::net::Buffer: a vector of bytes with a reader and a writer index  *)
(* (0 <= r <= w <= size, as in the code; data[i + 1] is byte i).  The      *)
(* readable bytes are the ones between the two.  Only the operations the   *)
(* connections of the chat server use.                                     *)
(***************************************************************************)
EXTENDS Naturals, Sequences

CONSTANTS
    CheapPrepend,   \* kCheapPrepend
    InitialSize,    \* kInitialSize
    ExtraSize,      \* size of readFd's extrabuf
    ZeroByte        \* what vector::resize fills with

ASSUME BufferAssumption == CheapPrepend \in Nat /\ InitialSize \in Nat /\ ExtraSize \in Nat

Zeros(n) == [i \in 1..n |-> ZeroByte]

NewBuffer == [data |-> Zeros(CheapPrepend + InitialSize), r |-> CheapPrepend, w |-> CheapPrepend]

ReadableBytes(b) == b.w - b.r
WritableBytes(b) == Len(b.data) - b.w
PrependableBytes(b) == b.r
Peek(b) == SubSeq(b.data, b.r + 1, b.w)

(* Faulty variant: the reader index stays where it was. *)
RetrieveAllWriterOnly(b) == [b EXCEPT !.w = CheapPrepend]

RetrieveAll(b) == [b EXCEPT !.r = CheapPrepend, !.w = CheapPrepend]
Retrieve(b, n) == IF n < ReadableBytes(b) THEN [b EXCEPT !.r = @ + n] ELSE RetrieveAll(b)

(* The bytes s written over data from index at on. *)
Overwrite(data, at, s) ==
    [i \in DOMAIN data |-> IF at < i /\ i <= at + Len(s) THEN s[i - at] ELSE data[i]]

(* Faulty variant: the readable bytes move to the front of the vector, over   *)
(* the prepend area, and the indices do not say so.                           *)
MakeSpaceMisplaced(b, len) ==
    IF WritableBytes(b) + PrependableBytes(b) < len + CheapPrepend
    THEN [b EXCEPT !.data = @ \o Zeros(b.w + len - Len(b.data))]
    ELSE [data |-> Overwrite(b.data, 0, Peek(b)), r |-> CheapPrepend,
          w |-> CheapPrepend + ReadableBytes(b)]

(* Grow, or move the readable bytes down to the front. *)
MakeSpace(b, len) ==
    IF WritableBytes(b) + PrependableBytes(b) < len + CheapPrepend
    THEN [b EXCEPT !.data = @ \o Zeros(b.w + len - Len(b.data))]
    ELSE [data |-> Overwrite(b.data, CheapPrepend, Peek(b)), r |-> CheapPrepend,
          w |-> CheapPrepend + ReadableBytes(b)]

EnsureWritableBytes(b, len) == IF WritableBytes(b) < len THEN MakeSpace(b, len) ELSE b

AppendBytes(b, s) ==
    LET e == EnsureWritableBytes(b, Len(s))
    IN  [e EXCEPT !.data = Overwrite(@, e.w, s), !.w = @ + Len(s)]

(* How much one readv() may return, and what readFd does with the bytes s it  *)
(* returned: as many as fit behind the writer index, the rest by append().    *)
ReadLimit(b) ==
    IF WritableBytes(b) < ExtraSize THEN WritableBytes(b) + ExtraSize ELSE WritableBytes(b)

(* Faulty variant: the bytes that went to extrabuf are forgotten. *)
ReadFdForgets(b, s) ==
    IF Len(s) <= WritableBytes(b)
    THEN [b EXCEPT !.data = Overwrite(@, b.w, s), !.w = @ + Len(s)]
    ELSE [b EXCEPT !.data = Overwrite(@, b.w, SubSeq(s, 1, WritableBytes(b))), !.w = Len(b.data)]

ReadFd(b, s) ==
    LET n == WritableBytes(b)
    IN  IF Len(s) <= n
        THEN [b EXCEPT !.data = Overwrite(@, b.w, s), !.w = @ + Len(s)]
        ELSE AppendBytes([b EXCEPT !.data = Overwrite(@, b.w, SubSeq(s, 1, n)),
                                   !.w = Len(b.data)],
                         SubSeq(s, n + 1, Len(s)))
=============================================================================
