----------------------------- MODULE ByteStream -----------------------------
(***************************************************************************)
(* What a connection promises of the bytes given to it: they are taken     *)
(* over one whole message at a time, the other side gets a prefix of them  *)
(* in order, a half close (FIN) comes after the last of them, and nothing  *)
(* moves after the FIN or once the connection is closed.                   *)
(***************************************************************************)
EXTENDS SequencesExt

CONSTANT Messages   \* byte sequences

VARIABLES
    taken,    \* the bytes taken over
    passed,   \* the bytes passed on
    fin,      \* no more will be passed on: FIN
    closed

streamVars == <<taken, passed, fin, closed>>

Init == taken = <<>> /\ passed = <<>> /\ ~fin /\ ~closed

(* Take over at most one message, pass some bytes on, perhaps finish. *)
Transfer ==
    /\ ~fin /\ ~closed
    /\ taken' = taken \/ \E m \in Messages : taken' = taken \o m
    /\ IsPrefix(passed, passed')
    /\ IsPrefix(passed', taken')
    /\ fin' => passed' = taken'
    /\ UNCHANGED closed

Close == closed' /\ UNCHANGED <<taken, passed, fin>>

Spec == Init /\ [][Transfer \/ Close]_streamVars
=============================================================================
