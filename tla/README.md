# A TLA+ model of the muduo chat cluster

The repository is a chat service: several `chatserver` processes built on the muduo network
library share one MySQL database and use Redis publish/subscribe as the bus between them; a
terminal client talks to one of them. This directory holds TLA+ modules translated from that
code, the configurations TLC checks them with, and proofs checked by TLAPS. Paths below are
relative to the repository root.

## 1. Inventory

| Component | State | Operations | Talks to |
|---|---|---|---|
| `ChatServer` (`src/server/chat_server.cpp`, `main.cpp`) | none of its own | `OnConnection`, `OnMessage` | muduo callbacks; `MsgIDHandler` |
| `MsgIDHandler` (`src/server/message_handler.cpp`) | `user_conn_map_` under `conn_mtx_` | one handler per request type, `HandlerRedisSubscribeMessage`, `ClientCloseException`, `Reset` | DAOs, `RedisConn`, connections |
| `RedisConn` (`src/server/redis/redis.cpp`) | two hiredis contexts, a detached observer thread | `Publish`, `Subscribe`, `Unsubscribe`, `StartObserving` | Redis; calls back into `MsgIDHandler` |
| `UserDAO`, `OfflineMessageDAO`, `FriendDAO`, `GroupDAO` | the tables, shared by all servers | one SQL statement per call, each over a fresh `MySQLConn` | MySQL |
| `SignalHandler` | handler table, `signal_mutex_` | `RegisterSignal`, `HandlerReset` | `MsgIDHandler::Reset`, `exit` |
| Client (`src/client/main.cpp`) | menu flags, a semaphore, the current user | menus on the main thread, replies on a reader thread | one server |
| muduo (`thirdparty/muduo-master`) | connection state, pending functors | `send`, `handleClose`, `queueInLoop`, `doPendingFunctors` | the kernel |

What is hard here:

* **Two threads per server.** `setThreadNum` is never called, so all handlers run on the loop
  thread; the Redis observer is a second thread that reads the map and sends to connections.
* **Several servers, no transactions.** A handler makes up to five DAO and Redis calls; other
  servers act between any two of them.
* **A bus without acknowledgement.** `SUBSCRIBE` is written and not waited for; `PUBLISH`
  reaches whoever is subscribed at that moment.
* **A byte stream without framing.** Requests end in a NUL byte that `OnMessage` never looks for.
* **Failures that are ignored.** A failing statement yields a default value; a process that
  ends leaves its users' rows behind.

What makes it correct: an account has one session; the three records of a session (map entry,
subscription, row) agree; a chat message is delivered once or kept; the observer never reaches
a connection that is gone; every login is answered and every lock released. `PROJECT.json`
lists the hazards with their lines and the property aimed at each.

## 2. Modules

The system is modelled at three scales. `ChatCluster` is the whole cluster with the client reduced to what it
sends. `ClientServer` and `ServerProcess` look inside the two programs, at what `ChatCluster` abstracts.
`TcpConnection` is the library underneath, used as the chat server uses it.

| Module | Models |
|---|---|
| `ChatTypes` | the identities: servers, users, connections, messages |
| `ChatStore` | tables `user` (column `state`) and `offline_message` through the DAOs; a call is one atomic step and may fail (`DbFault`) |
| `RedisBus` | commands on their way to Redis, subscriptions, pushed messages |
| `ChatCluster` | the servers (loop thread, observer thread, process), the clients, and the cluster's properties |
| `ChatService` | abstract: sessions and mailboxes, what the service promises |
| `ServiceRefinement` | the refinement mapping from `ChatCluster` to `ChatService` |
| `MCChatCluster` | values of constants, symmetry and the single-fault constraint for `ChatCluster` |
| `Directory` | tables `user`, `friend`, `chat_group`, `group_member` through `UserDAO`, `FriendDAO`, `GroupDAO` |
| `ClientServer` | both threads of the client program, every request with its fields, every handler, both byte streams |
| `ServerProcess` | start-up, `SignalHandler`, the `MsgIDHandler` singleton, `RedisConn`'s shared context, SIGINT |
| `Buffer` | `muduo::net::Buffer`: indices, `makeSpace`, `readFd` |
| `EventLoop` | poll, events, pending functors and the wakeup fd of several loops |
| `TcpConnection` | one connection from accept to its destruction: `Acceptor`, `TcpServer`, `TcpConnection`, `Channel`, `EPollPoller` |
| `ByteStream` | abstract: what a connection promises of the bytes sent through it |
| `ChatClusterProofs` | type correctness; locality of a server's steps; map and subscriptions agree; online rows have an owner |
| `ChatDeliveryProofs` | no send to a destroyed connection; the answer to a login before its chats |
| `ChatServiceProofs` | a server that is alone: one session, no message lost or doubled, no dead entries, and it implements `ChatService` |
| `ServerProcessProofs` | start-up, the shared Redis context and SIGINT |
| `BufferProofs` | the index arithmetic of `Buffer` implements a queue of bytes |
| `TcpConnectionProofs` | the life of a connection: pointers, assertions, wakeups, half close |
| `TcpStreamProofs` | the bytes of a connection: input in order, output implements `ByteStream` |
| `ClientServerProofs` | client and server agree on sessions; registrations; groups |

### State and actions of `ChatCluster`

`user_conn_map`, `conn_mtx` are the members of `MsgIDHandler`; `conn[c].state` is
`TcpConnection::state_` (plus "none" before the connection exists, and "destroyed"); `functors` is
`EventLoop::pendingFunctors_`. `loop[s]` and `observer[s]` say where each thread is and hold the
locals of its handler. `inbox[c]` and `outbox[c]` are what travelled over the socket. `proc[s]` is
the process. `abandoned` and `lost` are history: users whose online row a dead process or a failing
update left behind, and messages that went with the client that sent them.

A handler is one action up to its first call that another thread or process can observe, then
one action per such call: `HandlerLogin` (read the row, refuse or go on), `LoginInsert`,
`LoginSubscribe`, `LoginOnline`, `LoginQueryOffline`, `LoginDeleteOffline`, `LoginAck`. Likewise
for logout, direct chat, and the end of a connection (`HandleClose`, `CloseErase`,
`CloseUnsubscribe`, `CloseOffline`, which hold `conn_mtx_` as `ClientCloseException` does).
The observer's `StartObserving`, `HandlerRedisSubscribeMessage` and `QueueInLoop` interleave with
all of it. `DoPendingFunctors` and `RunFunctor` are the loop's other half. `Crash`, `SigInt`,
`Exit` and `Restart` end and start processes. The client actions send what
`src/client/main.cpp` sends in the order its menus allow.

Abstractions to know:

* The text, sender and time of a message carry no control; a message is a model value.
* `OnMessage` takes 1 to `MaxRead` pending requests and dispatches the first: the JSON parser takes
  the NUL byte after it for the end of the input. A request cut in two ends the process; that is a `Crash`.
* Events of one poll may be served in any order before the pending functors run; this allows
  at least what muduo does.
* The functor queue is one sequence with a count of those due. A connection counts as destroyed
  when `connectDestroyed` has run, the earliest moment a bare pointer to it could be stale.
* The observer's look-up and its store for an unbound user are one step: the map cannot change
  under `conn_mtx_`.
* A client handles an answer as soon as it is written; its two threads are not told apart.
* A client that ends may leave answers unread, and then the kernel resets the connection and the requests not yet
  read are lost from some point on: `ClientClose` keeps any first part of them. What the server reads it handles, then it closes.
* Both Redis connections stay up, and commands reach Redis whole and in order.
* SIGINT is taken by the loop thread (the main thread, which the kernel prefers), at any point.
* The definitions headed "Faulty variants" are slips used to check that each property can fail;
  no specification uses them.

### `ChatService` and `ServiceRefinement`

The abstract state is `session[u]`, `mail[u]` and `given[c]`; a message that was sent is given to the session of its
addressee, or kept; mail is given before newer messages and before the session ends. The mapping takes the
session from `user_conn_map_`, the mail from the table *and* from the rows a login has read and not yet answered with,
and what was given from what was written to the connection. It is stated for one server; with two the violation
runs show why it cannot hold.

### State and actions of `ClientServer`

`main[c]` is where the menu of client `c` is, `reader[c]` the answer its reader thread holds; `is_login_success`,
`current_user` and `sem` are the globals the two threads share. The flag is cleared (`Login`) before the request is
sent (`LoginSend`); `HandleResponse` sets flag and user before `SemPost`; `SemWait` reads the flag. A request is a
record with the fields the client, or a connection typed by hand, gives it. What is typed are the samples at the end of
`message_handler.cpp` (`Samples`) and objects with their fields under the `msgid` of their caption (`TypedRequests`): the samples
number the messages otherwise than the enum of `utils.hpp` does, so the literal ones find no handler or one that reads other fields.
`Reads` says which fields a handler takes; one that is missing throws and ends the server (`Throws`, `Abort`); a `msgid` without
handler is logged (`NoHandler`). `open` holds the connections whose end the server has not seen; `ClientCloseException` comes once
for each and drops at most one entry. `OnMessage` reads
several requests at once and drops all but the first; `OnMessageCut` reads a part and ends the server. `Recv` does the
same to the client: two answers together, a part of one, or a forwarded chat without `time`, `name` or `msg`, end it. `End`
loses the connection's unread input or not. `HandlerCreateGroup` and `CreatorJoins` are its two statements.

A handler is one step here, because one server and one loop thread are modelled; `ChatCluster` has the splits.
`Commands` are the `msgid`s clients use. Failing statements are modelled where a handler goes on differently
(registration, friends, groups); failing state updates are in `ChatCluster`.

What the translation showed without needing a run: the server sends the friend list as `friendinfo` and the client
reads `friends`, so the list stays empty; `GetOtherGroupMembers` has `selcet` in its statement (and is called
with its arguments swapped), so a group chat reaches nobody; the samples in the comments of `message_handler.cpp` carry the
`msgid`s of an older numbering, and the sample chat, renumbered, would lack fields the client reads; `GetUserGroups` is called by nobody.

### State and actions of `ServerProcess`

`main` is a program counter through `main()`, the singleton's constructor, a request and the signal handler;
`interrupted` is where SIGINT found it. `instance` is the guard of the function-local static. `obuf` is the output buffer of
`subscribe_context_`, `sock` what Redis has not read. `AppendCommand` and `BufferWrite` are the main thread's
`redisAppendCommand` and `redisBufferWrite`; `ObserverFlush` is the write inside the observer's `redisGetReply`. When both threads
are in there the outcome of a step is any of: as intended, commands lost, commands written twice, a crash (`Output`, `Crash`).
`MaxRaces` bounds how many races go wrong, and `harmed` is history: the
users whose last command a race lost. `HandleSignal` and `GetInstance` block for good when the interrupted code holds
what they want; `HandlerReset` does when the signal found the thread inside a library call that holds a lock (`inlib`): in hiredis,
the MySQL client and malloc while a request runs, and in muduo's and the json library's allocations and logging between requests.

### State and actions of `TcpConnection`, `EventLoop`, `Buffer`

A loop is in its poll, among the events of a round (`active`), or among the functors (`batch`); `pending` is
`pendingFunctors_`, `wakefd` the eventfd, and `waking` says that a thread has appended a functor and not yet written to the
eventfd. `conn` is the `TcpConnection` with the interest and index of its `Channel`, both buffers and, as `wire` and `fin`,
what its socket passed on. Init chooses whether the connection lives in the acceptor's loop (as in the chat server, which has
no pool) or in a loop of the pool, so the two ways through `runInLoop` and `queueInLoop` are both explored. A `write()` takes
any number of bytes; the peer sends, closes or resets at any moment. The message callback keeps or drops the connection
in the application's map and may call `send`, `shutdown` or `forceClose`; the observer's `send` is three steps under the
application's mutex, as in `HandlerRedisSubscribeMessage`. `send` binds a raw `this`: `PointersLive` is why that is safe here.

`Reading` has no case for `POLLHUP` without `POLLIN` (`Channel.cc:87-94`): a hung-up socket is readable, and a channel reads from
`connectEstablished` until it is disabled for good. The application here has one entry for the connection and drops it in the
connection callback. The chat server's `ClientCloseException` drops one entry too, but its map can hold a second one for the same
connection after a dropped request (`dead_entry`), and that entry keeps the closed connection alive; `ConnectionFreed` is about
an application that drops what it holds.

`Buffer` keeps the vector and its two indices, so that `makeSpace` moves or grows and `readFd` splits a read over the buffer and
the stack buffer. A message of `m` bytes is the sequence of its numbered bytes, so a lost, doubled or overtaken byte shows.

## 3. Runs

`CHECK_DEADLOCK FALSE` is set where the system may really stop: clients close for good, and idle servers do
nothing. A muduo loop never stops polling, so `connection` checks deadlock.

| Run | Instance | Checks | Result |
|---|---|---|---|
| `sessions` | 2 servers, 2 users, 2 connections, 1 message, reads of up to 2 requests, one process end or one failing statement | `TypeOK`, `SubscriptionsFollowMap`, `OnlineRowsOwned`, `AckBeforeChat`, `NoSendAfterDestroy` | hold; 0.9 million states |
| `single_server` | 1 server, 2 users, 2 connections of which one logs in twice, 1 message, right passwords only, whole requests, no fault | `OneSession`, `MessageKept`, `AtMostOnce`, `EntriesAreOpen`, `ImplementsService` | hold; 0.4 million states |
| `progress` | 2 servers, 1 user, 2 connections, fairness | `LoginAnswered`, `ConnectionReclaimed`, `RowSettles` | hold |
| `message_progress` | 2 servers, 2 users, 2 connections, right passwords only, fairness | `MessageSettles` | holds |
| `connection` | 2 loops, 1 observer, messages of 1 and 2 bytes, 2 bytes of input, fairness | `TypeOK`, `NoLostWakeup`, `InputInOrder`, `HalfCloseNotForgotten`, `PointersLive`, `AssertsHold`, `OutStream`, `ConnectionFreed` | hold |
| `client_server` | 1 client program, 1 hand-typed connection, 4 and 1 requests, cuts, 1 failing statement, fairness | `TypeOK`, `SessionAgreement`, `RegisteredAsAsked`, `GroupHasCreator`, `WaitEnds`, `ClientsEnd` | hold |
| `server_process` | 2 channels, 3 requests, 1 pushed message, 1 race gone wrong, 1 SIGINT, the link may break, fairness | `TypeOK`, `NotifyIsSet`, `SubscriptionsCarriedOut`, `MessageTaken`, `SigIntEnds` | hold |
| `two_sessions` | 2 servers, 1 user, 2 connections | `OneSession` | violated |
| `message_lost` | 2 servers, 2 users, 2 connections, 1 message | `MessageKept` | violated |
| `login_dropped` | 1 server, 1 connection, reads of up to 2, fairness | `LoginAnswered` | violated |
| `dead_entry` | 1 server, 2 users, 1 connection, reads of up to 2 | `EntriesAreOpen` | violated |
| `server_ended` | 2 client programs, whole requests only, no fault | `ServerSurvives` | violated |

Where a run passes, read it with its instance: `single_server` shows what one server that
reads requests one at a time gives, and the violation runs show which of these promises the
cluster, or coalesced requests, take away.

**Bounds.** `MaxRead` 2 is the smallest read that drops a request. `MaxOutbox[c]` bounds how often
client `c` logs in again: 1 gives its connection one answered login (and chats on top of it), 2
lets it serve two users in turn (`single_server`; `EntriesAreOpen` is about that), 3 does so
with chats in between. Two servers and two connections, whose servers are chosen freely in `Init`,
give the races between servers and the ones within a server; in `single_server` three logins, one connection making two of them, are the least that can be given the same mail twice, and a connection that has ended
one session competes with the other for the next. One message suffices
because no handler compares messages; it travels over every path. `MaxCrashes` and `MaxDbFaults` bound the
faults; `sessions` has at most one in a behaviour, a process end or a failing statement at any moment (`OneFault`; the theorems
of section 5 cover any number of both). The liveness runs of `ChatCluster` cannot use symmetry sets; `PlacedFairSpec` uses that servers are
interchangeable and puts one connection on one server.

In `connection`, `CheapPrepend` 1 and `InitialSize` 1 make a buffer that two bytes overflow: the 2-byte message
makes `makeSpace` grow, a partly written one makes it move, and 2 bytes of input reach the stack buffer (`ExtraSize` 2) of
`readFd`. Two messages are the least that one can overtake the other, and one of them can be the observer's while
the other is the loop's. In `client_server`, one client suffices for its two threads; four requests are register, login, one
command and logout, or two whole sessions; the second connection forwards a hand-typed chat to it. In `server_process` three
requests are subscribe, unsubscribe and subscribe again, of one channel or of two, so that a race (`MaxRaces` 1) can have
commands before, with and after it; with two races the run takes minutes and says the same, and the theorem of section 5 has any number.

**Fairness** (`Fairness` in `ChatCluster`). The loop thread and the observer thread of a process
keep running (weak fairness of their steps), Redis executes what it received, and epoll, which is
level-triggered, reports a readable connection until it was served. Nothing is assumed of clients,
of faults or of restarts. In
`TcpConnection` the threads of the loops run and a begun `send` is finished; nothing is assumed of the peer, so a
slow one may never take a byte. In `ClientServer` the reader, a begun login, a posted `sem_wait` and the server run; users type
what and when they like. In `ServerProcess` both threads and Redis run; requests, messages, signals and breaks need not come.

**Exceptions the properties state.** `SessionAgreement` and `WaitEnds` except a client one of whose requests was dropped
(read together with the one before): `login_dropped` shows that this really hangs it. `SessionAgreement` also
excepts clients that have ended: the server keeps their session until it sees the connection close. `SigIntEnds` names the three places where
SIGINT blocks the process: inside `RegisterSignal`, inside the first `GetInstance`, and inside a library lock that
`ResetState` needs. `SubscriptionsCarriedOut` excepts the users whose command a race in the output buffer lost, until a later
login or logout of the same user, and a broken link, after which nothing reconnects; a race harms nobody else and leaves nothing
behind in the buffer. `MessageKept` excepts messages whose client ended before a server had read them, and `OnlineRowsOwned` the
users a dead process or a failed update left online (`abandoned`), whom nothing in the code sets back.

## 4. What the violation runs show

* `two_sessions`: both servers read the row as offline before either updates it.
* `message_lost`: the addressee's server wrote SUBSCRIBE and set the row; Redis has not executed the
  command when the sender's server publishes.
* `login_dropped`: logout and the next login are read together; the login vanishes and the client
  stays in `sem_wait`.
* `dead_entry`: the same coalescing drops a logout; the connection then holds two entries, and
  `ClientCloseException` erases one of them.
* `server_ended`: the client's `addfriend` carries `id` where the handler reads `userid`; `get<int>()` of the missing field
  throws, nobody catches it, and the process ends. `joingroup` does the same with `groupid` and `group_id`.

`PROJECT.json` quotes the lines that promise otherwise.

A message is lost in three more ways by a server, which are not runs of their own because the code promises nothing about them; TLC finds each in
the instance of `single_server` with the constant named. `MaxCrashes` 1: the process ends with the request. `MaxDbFaults` 1: the
insert into `offline_message` fails and `HandlerDirectChat` does not look at the result. `MaxRead` 2 (and two messages): the second of
two chats read together is dropped. So every hypothesis of `MessageKeptAlone` (section 5) is needed.

## 5. Proofs

All theorems but those of `ChatServiceProofs`, which state their own hypotheses, hold for every choice of the constants that
satisfies the named assumptions, so for any number of servers,
users, connections, clients, loops, messages, requests and faults. The assumptions are the ones a value of the constants
needs to make sense: bounds are natural numbers, sentinels (`NoConn`, `NoId`, `NoLoop`, ...) are none of the values they stand
beside, the base loop is a loop, names are numbered from 1. TLC evaluates all of them in the runs.

Each theorem `Spec => []P` is proved from an inductive invariant that is stronger than `P`. TLC checked the invariants on
small instances before they were proved.

### `ChatCluster`

* `ChatClusterProofs!TypeCorrect` (`TypeOK`). Not inductive as it stands: `HandlerLogin`'s continuation uses the user and the
  connection stored in `loop[s]`, `RunFunctor` takes the head of a queue. `TypeInv` adds what each thread knows of its
  locals at each point and that `due` never exceeds the queue. `Locality`: a step of one server leaves the map,
  threads, lock, functors and subscriptions of every other server alone; the theorems below reduce to one server with it.
* `SubscriptionsCorrect` (`SubscriptionsFollowMap`). `InStep` adds what the map holds at the points between a change of
  the map and the Redis call. Two lemmas about the command queue carry the argument: an appended command decides its own
  channel and no other (`AppendedCommand`), and executing the oldest command changes nothing that was not already
  decided (`ExecutedCommand`).
* `RowsCorrect` (`OnlineRowsOwned`). `OwnInv` adds that a login has its map entry before it sets the row. Each step of a
  server is shown to account for the rows it leaves online (`Accounts`).
* `SendsAreSafe` (`NoSendAfterDestroy`). `LifeInv` says of each server: what its map, threads and functors name are its own
  connections (`Home`); a connection goes through its close steps, its destroy functor and its end in that order
  (`Stages`); the lock is held where the code holds it (`Locked`); what the observer is about to queue, and every queued
  send, has no destroy ahead of it (`QueueLive`, `SendLive`). The observer queues under `conn_mtx_`, which
  `ClientCloseException` holds, so the destroy always comes behind.
* `AcksComeFirst` (`AckBeforeChat`). A connection that can be the target of a chat for `u`, through the map, the observer's
  local or a queued send, was acknowledged as `u`, or its login is still on the loop thread (`Told`), and then no
  functor of that loop runs.

### A server that is alone (`ChatServiceProofs`)

What section 4 shows to fail in a cluster is proved for one server, with any number of users, connections and messages. The
hypotheses are constant formulas: `OneServer`, `NoDbFaults` (no statement fails), `NoProcessEnds`, `WholeRequests` (`OnMessage` gets one
request at a time). Each theorem has only the ones its proof uses:

| Theorem | Property | Hypotheses |
|---|---|---|
| `OneSessionAlone` | `OneSession` | `OneServer`, `NoDbFaults` |
| `AtMostOnceAlone` | `AtMostOnce` | `OneServer`, `NoDbFaults` |
| `EntriesOpenAlone` | `EntriesAreOpen` | `OneServer`, `NoDbFaults`, `WholeRequests` |
| `MessageKeptAlone` | `MessageKept` | all four |
| `ServiceImplemented` | `ImplementsService` | `OneServer`, `NoDbFaults`, `NoProcessEnds`, at least one server |

* `OneSessionAlone`. `SessionInv` relates the four records of a session: the client's menu, a logout on its way, the map entry and the
  row. A client in its main menu, or whose logout is on its way, has the entry of its user; an entry's row says online, or the
  loop thread is in the handler that changes it. A login that is admitted saw an offline row, so it found no entry, so nobody else
  is in the main menu as that user. Process ends and dropped requests are allowed.
* `AtMostOnceAlone`. `IdleInv`: a publish reaches nobody (a row left online by an ended process and a subscription not yet undone are never
  of the same user), so the observer and the send functors never carry a message. With that, `PlaceInv` says that a message is in at most one place: a request, the handler's local, a row of the
  table, the rows a login read, or an outbox, and once in it. Between a login's query and its delete the rows read
  are the rows of the table, so the delete takes away what the login will answer with and nothing else.
* `EntriesOpenAlone`. `WholeInv`: a connection has one entry (`OneEntry`), and its logout is ahead of any later login from it
  (`LogoutFirst`); `ClientCloseException`, which erases the first entry that names the connection, therefore erases all of them.
* `MessageKeptAlone`. `KeptInv` says that the places of `PlaceInv` are all the places there are, but for messages that were lost
  with the end of their client (`CutRequests`). The step that could lose a
  message is the publish of `HandlerDirectChat`; `NeverPublishes` shows that it is not reached: a row that says online belongs
  to a user with an entry (`OnlineRowsOwned`, nobody abandoned), and that is where the handler looked first.
* `ServiceImplemented`, the refinement. `MailInv` adds that a user with an entry has no rows in the table, except while its
  login is at work, so that a message handed to a session overtakes no mail. `ServiceClient`, `ServiceServe`, `ServiceLoop` and
  `ServiceOther` show each action of `ChatCluster` to be the step of `ChatService` it stands for, or to leave the mapped state alone.

### `ServerProcess`

* `TypeCorrect`; `NotifyIsSetAlways` (before `notify_set` nothing has been appended, sent or answered, so there is nothing the
  observer could be called for).
* `SubscriptionsAlwaysCarriedOut` (`SubscriptionsCarriedOut`). `CarriedInv` follows the commands: subscribed, after what is in
  the socket, in the buffer and in the main thread's hands has been executed in that order, is what is wanted, for every user that
  is not harmed (`Decided`), and what is in the buffer will be written by the thread that is about to. A race that writes a buffer twice
  repeats commands in their order, which decides the same; a race that loses it harms exactly the users it names.

### `Buffer`, `EventLoop`, `TcpConnection`

* `AppendIsConcatenation`, `ReadFdIsConcatenation`: for every buffer with `0 <= r <= w <= size` and every data, `append` and `readFd`
  put the new bytes behind the readable ones, whether `makeSpace` moves, grows or does nothing and however `readFd` splits
  the read, and the indices stay in bounds. The connection's proofs use `Buffer` through these two and the lemmas on `retrieve` only.
* `TypeCorrect`, `PointersAlwaysLive`, `AssertsAlwaysHold`. `LifeInv` has seven parts: which events and functors a round of a
  loop can hold (`Rounds`, `Reported`), what the state says of channel, map and peer (`Phases`), what the application's
  entry and its `send` in progress imply (`InUse`), where each functor is queued and what holds while it is (`FunctorsOK`),
  that nothing is queued behind the functor that ends the connection (`LastFunctors`), and that a closed connection
  will be removed (`Removal`). That a raw `this` never dangles needs all seven.
* `NoWakeupIsLost` (`NoLostWakeup`), `HalfCloseIsKept` (`HalfCloseNotForgotten`).
* `InputAlwaysInOrder` (`InputInOrder`).
* `ConnectionIsByteStream` (`Spec => OutStream`): the refinement. Every step of the connection is shown to be one of three
  moves of its bytes (`Moves`): it keeps them, it closes, or it transfers a message to the buffer or the wire. With `OutputInv`, that the
  channel waits for the socket exactly while bytes wait, each move is a step of `ByteStream` or leaves its variables alone
  (`MovesRefine`). `OutputInv` is what excludes that a `send()` that writes directly overtakes buffered bytes.

### `ClientServer`

`TypeInv` gives every request, answer and row its record type; `SessionInv` is the inductive invariant. Per client:

* `RequestsOK`, `AnswersOK`: one exchange at a time. A login or registration is the last request on its way and the client
  waits for exactly that one; there is at most one answer, in the socket, in the reader or in the semaphore; and once there is, no
  request is left. This is the protocol that the flag, the semaphore and the two threads implement without stating it.
* `AnswersTrue`: what an answer on its way says is still so: the entry of an admission exists, the row of a registration has
  the name. `Learnt`, `LoggedIn`: the reader sets user and flag before it posts, and the flag is clear unless it did.
* `KnownEntries`: why a client has an entry, unless a request of it was dropped.
* `EntriesOK`: a user has one entry, and its row says online. With it a logout removes its own sender's entry and nobody else's,
  and a login the server admits finds the user without an entry.

From it follow `TypeCorrect`, `SessionsAgree` (`SessionAgreement`) and `RegistrationsAnswered` (`RegisteredAsAsked`).
`GroupsHaveCreators` (`GroupHasCreator`) has an invariant of its own, `GroupInv`: a group whose second statement is outstanding is the last
one and has no creator, every other group has one, and ids not given out yet have none, although people may have joined them.

### Only model-checked

Every safety property of a passing run, and both refinements, are proved. What stays with TLC is liveness: `LoginAnswered`,
`ConnectionReclaimed`, `RowSettles`, `MessageSettles`, `ConnectionFreed`, `WaitEnds`, `ClientsEnd`, `MessageTaken`, `SigIntEnds`. Liveness under fairness, `ENABLED` and induction over data are beyond the prover used.

## 6. Plan

Every component of section 1 is modelled, every safety property the passing runs check is proved, and so are the two refinements.
What could follow:

1. *Liveness*, with a prover that handles fairness and `ENABLED`. The safety invariants above are what such proofs would start from.
2. *Weaker hypotheses than one server.* `two_sessions` and `message_lost` need a login that overlaps with a login or a chat on
   another server; a condition on the clients that excludes the overlap would let `OneSession` and `MessageKept` be stated for the cluster.

## 7. Not modelled

* The json library (`include/common/json.hpp` and its second copy under `thirdparty/`): a third-party header of 21 000
  lines. What the program relies on, that parsing stops at a NUL and throws on anything that is not one object, is in
  `OnMessage`, `OnMessageCut` and `Recv`. The two copies are more than half of the repository's implementation lines, and
  most of the rest are muduo's examples, HTTP, inspection, RPC, logging and time zones, which no chat process runs; so the share of
  lines the model covers is small although the program's own files are modelled nearly whole.
* Of muduo, what the chat server does not use or cannot cause: timers, `quit()`, the start of loop threads, write-complete
  and high-water-mark callbacks, `stopRead`, `accept` failing for lack of descriptors, the `poll(2)` poller, `Connector` and `TcpClient`.
* hiredis, the MySQL client and Redis themselves are external, modelled from how the code uses them.
* A second SIGINT while the first is handled is blocked by the kernel; a second process end in one behaviour is beyond the bound.
* What is displayed: menus, lists, texts and logs. The entities are plain data. `test/` holds samples of library APIs.
