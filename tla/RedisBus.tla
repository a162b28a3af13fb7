------------------------------ MODULE RedisBus ------------------------------
(***************************************************************************)
(* Redis publish/subscribe, used as the bus between the chat servers, seen *)
(* through RedisConn.  A server writes SUBSCRIBE and UNSUBSCRIBE commands  *)
(* to its subscribe_context_ and does not wait for the reply               *)
(* (redisAppendCommand + redisBufferWrite), so Redis executes them later,  *)
(* in order.  PUBLISH goes over publish_context_ with redisCommand, which  *)
(* waits for the reply: Redis executes it before the call returns, and     *)
(* pushes the message to every server subscribed at that moment.           *)
(*                                                                         *)
(* Channels are user ids; NoUser stands for -1, the id of a default        *)
(* UserEntity.  The replies to SUBSCRIBE and UNSUBSCRIBE carry no string   *)
(* in element[2] and are skipped by the observer, so they are left out.    *)
(* Both contexts are connected and stay so while the process lives.        *)
(***************************************************************************)
EXTENDS ChatTypes

VARIABLES
    sub_cmds,     \* sub_cmds[s]: commands on s's subscribe socket, unread by Redis
    subscribed,   \* subscribed[s]: channels Redis has s subscribed to
    pushed        \* pushed[s]: messages Redis pushed to s, unread by the observer

busVars == <<sub_cmds, subscribed, pushed>>

Commands == [op : {"SUBSCRIBE"}, user : Users]
              \cup [op : {"UNSUBSCRIBE"}, user : Users \cup {NoUser}]
Pushes == [user : Users, msg : Msgs]

BusTypeOK ==
    /\ sub_cmds \in [Servers -> Seq(Commands)]
    /\ subscribed \in [Servers -> SUBSET Users]
    /\ pushed \in [Servers -> Seq(Pushes)]

BusInit ==
    /\ sub_cmds = [s \in Servers |-> <<>>]
    /\ subscribed = [s \in Servers |-> {}]
    /\ pushed = [s \in Servers |-> <<>>]

-----------------------------------------------------------------------------
Subscribe(s, u) ==
    /\ sub_cmds' = [sub_cmds EXCEPT
                      ![s] = Append(@, [op |-> "SUBSCRIBE", user |-> u])]
    /\ UNCHANGED <<subscribed, pushed>>

Unsubscribe(s, u) ==
    /\ sub_cmds' = [sub_cmds EXCEPT
                      ![s] = Append(@, [op |-> "UNSUBSCRIBE", user |-> u])]
    /\ UNCHANGED <<subscribed, pushed>>

(* Redis executes the next command of server s; nobody is subscribed to -1. *)
RedisExecute(s) ==
    /\ sub_cmds[s] # <<>>
    /\ LET cmd == Head(sub_cmds[s])
       IN  subscribed' = [subscribed EXCEPT
             ![s] = IF cmd.op = "SUBSCRIBE" THEN @ \cup {cmd.user}
                                            ELSE @ \ {cmd.user}]
    /\ sub_cmds' = [sub_cmds EXCEPT ![s] = Tail(@)]
    /\ UNCHANGED pushed

(* One copy for every subscriber, and none at all when there is no subscriber. *)
Publish(u, m) ==
    /\ pushed' = [s \in Servers |->
                    IF u \in subscribed[s]
                    THEN Append(pushed[s], [user |-> u, msg |-> m])
                    ELSE pushed[s]]
    /\ UNCHANGED <<sub_cmds, subscribed>>

(* redisGetReply: the observer of s takes the next pushed message. *)
GetReply(s) ==
    /\ pushed[s] # <<>>
    /\ pushed' = [pushed EXCEPT ![s] = Tail(@)]
    /\ UNCHANGED <<sub_cmds, subscribed>>

(* Redis drops a client whose process is gone, with what it had queued for it. *)
DropClient(s) ==
    /\ sub_cmds' = [sub_cmds EXCEPT ![s] = <<>>]
    /\ subscribed' = [subscribed EXCEPT ![s] = {}]
    /\ pushed' = [pushed EXCEPT ![s] = <<>>]

-----------------------------------------------------------------------------
(* Server s is subscribed to u once Redis has executed every command that is  *)
(* still on its way: the last command about u decides, the current            *)
(* subscription when there is none.                                          *)
EventuallySubscribed(s, u) ==
    LET q == sub_cmds[s]
    IN  \/ /\ u \in subscribed[s]
           /\ \A i \in DOMAIN q : q[i].user # u
        \/ \E i \in DOMAIN q :
              /\ q[i] = [op |-> "SUBSCRIBE", user |-> u]
              /\ \A j \in DOMAIN q : j > i => q[j].user # u
=============================================================================
