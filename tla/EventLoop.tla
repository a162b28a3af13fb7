----------------------------- MODULE EventLoop -----------------------------
(***************************************************************************)
(* muduo::net::EventLoop: each loop belongs to one thread, which polls,    *)
(* handles the events reported, then runs the functors queued for it.  Any *)
(* thread may queue: it appends under the loop's mutex and then, unless it *)
(* is the loop's own thread handling events, writes to the wakeup fd.      *)
(* Another thread can act between the append and the write.                *)
(*                                                                         *)
(* A poll that nothing interrupts ends after kPollTimeMs.  quit() and the  *)
(* timers are not used by the chat server.                                 *)
(***************************************************************************)
EXTENDS Naturals, Sequences

CONSTANTS
    Loops,     \* the event loops, each with its thread
    Others,    \* threads without a loop
    NoLoop

Threads == Loops \cup Others

ASSUME ThreadAssumption == Loops \cap Others = {} /\ NoLoop \notin Loops

VARIABLES
    at,        \* at[l]: "poll", "events" or "functors" (callingPendingFunctors_)
    active,    \* active[l]: what the poll reported and is not handled yet
    pending,   \* pending[l]: pendingFunctors_
    batch,     \* batch[l]: the functors doPendingFunctors took and has not run
    wakefd,    \* wakefd[l]: the eventfd is readable
    waking     \* waking[t]: the loop t has queued to and not yet woken up

loopVars == <<at, active, pending, batch, wakefd, waking>>

LoopInit ==
    /\ at = [l \in Loops |-> "poll"]
    /\ active = [l \in Loops |-> {}]
    /\ pending = [l \in Loops |-> <<>>]
    /\ batch = [l \in Loops |-> <<>>]
    /\ wakefd = [l \in Loops |-> FALSE]
    /\ waking = [t \in Threads |-> NoLoop]

-----------------------------------------------------------------------------
(* Faulty variant of QueueInLoop: a loop never wakes itself up. *)
QueueInLoopNoSelfWake(t, l, f) ==
    /\ pending' = [pending EXCEPT ![l] = Append(@, f)]
    /\ IF t = l THEN UNCHANGED <<waking, wakefd>>
                ELSE waking' = [waking EXCEPT ![t] = l] /\ UNCHANGED wakefd

(* The loop's own thread wakes it up in the same step (nobody can tell), and  *)
(* only from a functor: the events of this round are followed by the functors. *)
QueueInLoop(t, l, f) ==
    /\ pending' = [pending EXCEPT ![l] = Append(@, f)]
    /\ IF t = l
       THEN /\ wakefd' = [wakefd EXCEPT ![l] = @ \/ at[l] = "functors"]
            /\ UNCHANGED waking
       ELSE waking' = [waking EXCEPT ![t] = l] /\ UNCHANGED wakefd

Wakeup(t) ==
    /\ waking[t] # NoLoop
    /\ wakefd' = [wakefd EXCEPT ![waking[t]] = TRUE]
    /\ waking' = [waking EXCEPT ![t] = NoLoop]
    /\ UNCHANGED <<at, active, pending, batch>>

(* EPollPoller::poll returns with the ready channels; the wakeup channel is    *)
(* one of them.                                                              *)
Poll(l, ready) ==
    /\ at[l] = "poll"
    /\ at' = [at EXCEPT ![l] = "events"]
    /\ active' = [active EXCEPT ![l] = ready \cup {e \in {"wakeup"} : wakefd[l]}]
    /\ UNCHANGED <<pending, batch, wakefd, waking>>

(* The loop's thread is free to handle event e, and is then done with it. *)
Handling(l, e) == at[l] = "events" /\ e \in active[l] /\ waking[l] = NoLoop
Handled(l, e) == active' = [active EXCEPT ![l] = @ \ {e}]

HandleWakeup(l) ==
    /\ Handling(l, "wakeup")
    /\ Handled(l, "wakeup")
    /\ wakefd' = [wakefd EXCEPT ![l] = FALSE]
    /\ UNCHANGED <<at, pending, batch, waking>>

DoPendingFunctors(l) ==
    /\ at[l] = "events" /\ active[l] = {} /\ waking[l] = NoLoop
    /\ at' = [at EXCEPT ![l] = "functors"]
    /\ batch' = [batch EXCEPT ![l] = pending[l]]
    /\ pending' = [pending EXCEPT ![l] = <<>>]
    /\ UNCHANGED <<active, wakefd, waking>>

(* The next functor of the batch; the caller says what it does. *)
Running(l, op) ==
    at[l] = "functors" /\ waking[l] = NoLoop /\ batch[l] # <<>> /\ Head(batch[l]).op = op
Ran(l) == batch' = [batch EXCEPT ![l] = Tail(@)]

EndFunctors(l) ==
    /\ at[l] = "functors" /\ batch[l] = <<>> /\ waking[l] = NoLoop
    /\ at' = [at EXCEPT ![l] = "poll"]
    /\ UNCHANGED <<active, pending, batch, wakefd, waking>>

-----------------------------------------------------------------------------
(* No functor waits for the 10 seconds of a poll: when functors are pending   *)
(* and the loop is in its poll, or has left it without them and will not come  *)
(* by them before the next one, the wakeup fd is readable or the thread that   *)
(* queued is about to write to it.                                           *)
NoLostWakeup ==
    \A l \in Loops :
        pending[l] # <<>> /\ at[l] \in {"poll", "functors"}
            => wakefd[l] \/ \E t \in Threads : waking[t] = l
=============================================================================
