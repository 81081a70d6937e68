# Verification of the RabbitMQ client library and the API gateway

TLA+ specifications of the two programs of this repository, kept beside the
code: the RabbitMQ client library `libs/rabbitmq-client-ts` and the NestJS API
gateway in `src/` that uses it. Paths below are relative to the repository
root; `client.ts`, `channel-manager.ts` and `connection-manager.ts` are in
`libs/rabbitmq-client-ts/src/client/`.

## The system

A client of the gateway posts an order; the gateway sends it through RabbitMQ
to another service (the CRM) as a remote procedure call and stores it when the
reply says that it was accepted. Everything runs on Node.js: one thread, with
interleaving only at `await`s and callbacks.

| Component | State | Operations | Uses |
|---|---|---|---|
| `ChannelManager` (`channel-manager.ts`) | `pool`, an array of channels | `borrowChannel`, `initializePool`, `returnChannel`, `closeAllChannels`; the `'error'` listener and `recreateAndPushChannel` | `ConnectionManager.getConnection`, amqplib |
| `ConnectionManager` (`connection-manager.ts`) | `connection`, `reconnectAttempts`, `currentHostIndex`, `reconnectTimeout` | `createConnection` (a loop), `reconnect`, `tryReconnect`; the `'error'` and `'close'` listeners | amqplib `connect`; emits `connected` |
| `RabbitMQClient.rpcProducer`, `waitForResponse` (`client.ts` 304-533) | one promise, timer, channel and reply consumer per call | call, publish, reply callback, timeout | a channel of the pool; the validator; the client's `state` |
| `RabbitMQClient.rpcConsumer`, `processIncomingMessage` (`client.ts` 167-302, 535-633) | a consumer per service, the messages it holds | consume, validate, run the handler, reply, ack or nack; retry when the channel fails | a channel of the pool |
| `RabbitMQClient` lifecycle (`client.ts` 60-165, 406-434, 646-692) | `state`, `channelManager` | `initialize`, `setupQueue`, `createDeadLetter`, `setupConnectionListener`, `onConnectionReady` | both managers; emits `ready`, `closed`, `reconnect` |
| `OrdersService`, `HealthcheckService` | the health record of each service, the orders table | `onModuleInit`, `syncSalesOrderFromOperation`, `initializeRabbitMQClient`, `setServiceHealth` | the client |
| `AuthService` (`auth.service.ts`) | the users table | sign-up, login | the database's unique index |
| `DatabaseSeederService` (`database-seeder.service.ts`) | users and orders tables | seeding at start-up | the database |
| configuration (`configuration.ts`) | none | parses the environment once, at start-up | |
| error handling, validation, serialisation (`generic-error*.ts`, `validator.ts`, `buffer.ts`, `error.handler.service.ts`, `exception.filter.ts`) | none | pure functions, called at every layer between the handler of a service and the HTTP answer | |
| HTTP surface and wiring | none | declarations, delegation | |

They interact by calls (gateway to client, client to managers), by events
(`connected`, `ready`, `closed` and the errors of amqplib objects), and by
shared state: the pool's array, the fields of `ConnectionManager` that several
loops read and write, the client's `state`, the health records.

### What is hard, and what makes each part correct

- *Channel pool.* Borrows, returns, replacements and channel errors interleave
  on one array at every `createChannel`. Correct: a channel is in one hand at a
  time, a closing channel is out of reach, no open channel is lost, the pool is
  bounded, a borrow ends.
- *Connection.* Several `createConnection` loops share four fields, and
  `'error'` and `'close'` of one connection both start a reconnection. Correct:
  connections do not multiply, the current one is up, the client never waits
  for nothing, and it gives up only after trying every host.
- *RPC calls.* A reply, a timeout, a cancel in flight, a dying channel and the
  replies of other calls race for one promise. Correct: one end per call, with
  a result of that very request, never a hang, no consumer left behind for good.
- *RPC consumer.* Redelivery, messages that cannot be answered, retries by two
  listeners of one channel, acknowledgement on a channel that may be gone or
  lent to somebody else. Correct: no request is settled before its answer is
  with the broker, none is stuck, and a lost consumer is replaced.
- *Gateway.* Initialisation repeated, skipped or raced; orders saved only after
  a reply; a health record written by listeners and by continuations that may
  be late. Correct: the record says what the client can do, there is one
  connection, no order is stored that was not executed, none is executed that
  was refused, and every task ends.
- *Accounts.* Sign-ups look a name up and insert it later, while others do the
  same; seeding is a chain of awaits that an end of the process may cut
  anywhere, before or after the database has committed. Correct: an answer
  tells the truth about the table, a gateway that serves is seeded once, and
  an interrupted start never stands in the way of the next.
- *Errors.* A failure passes up to six layers that test it by structure or by
  class and rewrite it, and is serialised once in a callback that nobody
  awaits. Correct: the caller is told what its cause calls for, may repeat what
  was refused, and is told of success only when there was one.

## Modules

| Module | Models | Runs | Proofs |
|---|---|---|---|
| `ChannelManager` | the channel pool and its callers | `MCChannelManager*.cfg` | `ChannelManagerProofs` |
| `ConnectionManager` | connecting, failover, reconnection | `MCConnectionManager*.cfg` | `ConnectionManagerProofs` |
| `RpcProducer` | concurrent calls of `rpcProducer` | `MCRpcProducer*.cfg` | `RpcProducerProofs` |
| `RpcConsumer` | a service that answers with `rpcConsumer` | `MCRpcConsumer*.cfg` | `RpcConsumerProofs` |
| `Gateway` | start-up, health record and order syncs, over `ConnectionManager` | `MCGateway*.cfg` | `GatewayProofs` |
| `Configuration` | what `config()` makes of the environment (operators) | with `Accounts` | `AccountsProofs` |
| `Accounts` | start-up, seeding, sign-ups and logins, ends of the process | `MCAccounts.cfg` | `AccountsProofs` |
| `ErrorPath` | a failure on its way from its cause to the HTTP answer | `MCErrorPath.cfg` | `ErrorPathProofs` |
| `ChannelLeases` | what a user of the channel pool may rely on | as a property of `ChannelManager` | `ChannelManagerProofs` |
| `RequestDelivery` | what the sender of a request may rely on | as a property of `RpcConsumer` | `RpcConsumerProofs` |
| `RpcContract` | what a caller of `rpcProducer` may rely on | as a property of `RpcProducer` | `RpcProducerProofs` |
| `OrderForwarding` | what a caller of `POST /orders/operation/sync` may rely on | as a property of `Gateway` | `GatewayProofs` |
| `AccountStore` | what a caller of the auth endpoints may rely on | as a property of `Accounts` | `AccountsProofs` |
| `SumTheorems` | facts on sums over functions, used by `ChannelManagerProofs` | | itself |

How the modules stand to each other: `ConnectionManager` promises what
`ChannelManager` takes from `getConnection` (a live connection or none:
`CurrentIsLive`), which appears there as the variable `connected`.
`ChannelManager` implements `ChannelLeases`: a channel belongs to one caller
until that caller ends it, which is why `RpcProducer` may write the channel of call `r`
as `chan[r]`; that a borrowed channel may nevertheless be closed, or missing,
is what `ClosedNeverPooled` and `BorrowReturnsChannel` show there and what
`Borrowed` and `SetupFails` allow for here. `RpcProducer` implements
`RpcContract`, which is what the syncs of `Gateway` rely on: a call ends once,
with a reply to that very request (`Reply`) or not (`Fail`), and the request
may be executed in either case. `Gateway` instantiates `ConnectionManager` and
conjoins its actions with what the client and `OrdersService` do at the same
moment, so every step of it is a step of the connection manager or leaves the
connection alone. `RpcConsumer` takes the pool as `ChannelManager` shows it to
be: a borrow yields an open channel, a dead one, or nothing. It implements
`RequestDelivery`, delivery at least once, which is why a request of `RpcProducer`
may be executed again. `Gateway` in turn implements `OrderForwarding`, and `Accounts` implements `AccountStore`.
`ErrorPath` follows the same orders as `Gateway` with the connection left out
and the errors put in: it takes from `RpcProducer` that a call may end by its
timeout or by the reply of another call (`Timeout`, `Mismatch`), and from
`RpcConsumer` that a message is redelivered when the process that held it ends.
`Accounts` applies the operators of `Configuration` when the process starts; an
environment that yields no host never gets as far as a `ConnectionManager`,
since the constructor of the client refuses it.

An action is the code between two `await`s, or one callback. Definitions that
are not in the code's control flow (broker, peers, the event loop) say so, and
are marked external in `PROJECT.json`, which also maps every other definition
to its lines. A definition whose comment begins with *Mutant* is not part of
the specification: it is a wrong variant of the definition that follows it,
kept to show which property would notice.

### ChannelManager

`pool` is the array as a bag, `status` the state of each channel object, `loan`
what each caller holds; `pc` and `made` say where a borrow stands in
`initializePool`'s loop. `Borrow`, `StartInit`, `ChannelCreated`,
`CreateFailed` and `FinishBorrow` are the segments of `borrowChannel`; `Return`
is `returnChannel` with either value of `isProducer`; `Drop` is the error path
of `setupQueue`, which forgets its channel. `ChannelErrored`, `Recreated` and
`RecreateFailed` are the `'error'` listener and `recreateAndPushChannel`;
`CloseAll` and `CloseAllResumes` are the turns of `closeAllChannels`;
`CloseConfirmed` and `ConnectionLost` are what amqplib reports.

`ChannelLeases` is the pool as its users see it: channels that are made for the
pool, lent, given back, closed by their holder or swept out, and that the server
may close at any time without ending a lease. It knows no loop, no size and no
connection. `KeepsLeases` says that the segments of the code, each acting on an
array that others have changed since the segment before, amount to these moves.

Two statements about this code are shown not to hold. `returnChannel` logs
'Discarding closed or invalid channel.' but its test `channel?.connection` is
true of closed channels too, so a channel the server has closed goes back into
the pool (`ClosedNeverPooled`). And `this.pool.pop()!` asserts that the pool
that `initializePool` has just filled is not empty, while other continuations
may have emptied it (`BorrowReturnsChannel`).

### ConnectionManager

Every `initialize` and every firing of the reconnect timer runs
`createConnection`; a slot of `Loops` is one run of it, `pc` says whether it
awaits `connect` or the delay. `LoopTop` is the head of the loop, `ConnectOk`
and `ConnectFail` its two continuations, `ConnectionEnds` the `'error'` and
`'close'` listeners with `reconnect`, `TimerFires` is `tryReconnect`.

### RpcProducer

`pc` follows a call through `rpcProducer`; `chan`, `consumer`, `timer` and
`cancelling` are what `waitForResponse` has in flight; `outcome` is how the call
ended. The reply queue is either shared by all calls (`opts.replyTo` names it)
or left out, the broker's direct reply-to. `Finish` is the end of the call with
the `finally` block that returns the channel, which sends a close
(`channel-manager.ts:54`): `chan` is the client's view of the channel and
`consumer` the broker's view of its consumer, and the two part here. Until the
broker takes the close (`BrokerCloses`), the reply consumer of a call that has
ended is live and noAck, and on a shared queue it may be sent the reply to
another call, which is lost (`Swallowed`). A cancel that is answered ends the
consumer before that (`CancelAnswered`). Replies at the broker are a set: a
duplicate of one that is still there is as good as one sent after the first has
been taken.

`OrphanTimeout` is a defect of the code that is modelled as it is: when the
payload cannot be serialised or `publish` throws, `waitForResponse` has started
(`PublishThrows`), the response promise is awaited by nobody, and its timeout is
an unhandled rejection, which ends a Node.js process.

The comment at `client.ts:362`, 'Await for response setup to avoid losing
messages', stands above a call that is not awaited: `Publish` sends the request
while the consumer has only been asked for, and `ConsumeRefused` is what the
broker may answer. The properties are checked with that order of events. The
run takes a shared reply queue, where each consumer may be given any reply; with
direct reply-to fewer deliveries are possible and nothing else changes, and the
proofs are for both.

The client as shipped never reaches `connected`, because the call of
`setupConnectionListener` is commented out (`client.ts:86`), and `rpcProducer`
then answers 503 at once. `RpcProducer` models the library with its listener;
the behaviour without it is the one step of `Call` for `state` not connected.

### RpcConsumer

A call of `rpcConsumer` is its `retry` argument and whether a listener made it;
calls and listeners that agree in this are interchangeable and are counted.
`Serve`, `Borrowed`, `Rejects`, `BorrowsNothing` and `ConsumeOk` are the
segments of a call; `Deliver` and `Finish` are the message callback with
`processIncomingMessage`; the frames it writes are in `wire` until the broker
takes them (`BrokerTakes`) or their channel ends. `ChannelErrored`,
`CloseConfirmed`, `ConnectionLost` and `ConsumersCancelled` are what the broker
does to the channels, `TakenByProducer` is an `rpcProducer` of the same client
that borrows the consumer's channel, which `finally` has put back into the
pool, and closes it.

What the callback's validation does to a message is not told apart: every
outcome is a reply and an ack or an error reply and a nack, because a handler
that returns nothing fails the validation of its response. A message without
`replyTo` is different: the callback throws into amqplib, which ends the
connection (`DeliverUnanswerable`). The one other way a callback may fail, a
value that cannot be serialised, is the subject of `ErrorPath`.

`RequestDelivery` has no channels, consumers or process: a request is queued, held
by somebody or settled; it is answered only while it is held, settled only
when it has been answered, and put back otherwise. `KeepsDelivery` is the
refinement: the ends of a channel, a connection or a process with several
messages in its hands are each one `PutBack`.

A rejection that nobody handles ends the process (`Crash`). Two statements
about this code do not hold. `retry--` hands on the value before the decrement,
and both events of a channel retry, so the budget of three is not kept
(`RetriesAreBounded`). And on the loss of the connection the listeners' calls
reject without a handler, so a service with a consumer ends instead of
reconnecting (`SurvivesLoss`).

### Gateway

A task is the start-up (`Boot`) or one sync. `Initialize` is
`initializeRabbitMQClient` up to its await; it continues in `ConnectOk`,
`ConnectFail` or `DelayOver` of the loop it waits for, which add the listeners
(`Resolved`) or record the failure (`Rejected`) and go on. `PoolReady` is
`onConnectionReady` after the pool is filled, with the 'ready' listeners, each
of which runs `setupQueue` (`QueueReady`, `QueueFails`); `ConnectionEnds` is the
client's 'closed' with the listeners of `OrdersService`. `Sync`, `Produce`,
`Reply`, `Fail` and `Save` follow `syncSalesOrderFromOperation`; `Execute` is the
CRM, which may act on a request the gateway has given up.

`ListenersAttached` says whether the client's constructor calls
`setupConnectionListener`. As shipped it does not (`client.ts:86`), and a run
shows what this means: every order is refused although the connection is up
(`ForwardsOrders`). For the same reason the health check never learns of a lost
connection, and each sync during an outage starts a loop of its own. The other
properties are about the client the rest of the code is written for.

`getServiceHealth` returns a record or nothing, and any record is truthy: a
sync initializes only before the first record is made. Though it reads like an
oversight, `OneConnection` depends on it: the variant that initializes whenever
the record is not healthy (`InitializeUnhealthy`) opens a second connection next
to the one the reconnect timer opens.

`OrderForwarding` is the gateway without client, connection and health record: a
request ends once, *synced* with its order executed and stored, *refused* with
an order that has not been executed and never will be, or *failed* with nothing
said about either. `KeepsForwarding` is the refinement; its hard part is the
refusal, because the state that `Produce` reads is written by listeners, and
because the CRM may act on a request after the gateway has given it up
(`Execute` of a *failed* sync), which must not happen to a refused one.

### Configuration and Accounts

`Configuration` tells an environment apart by how the code parses it. Its two
`JSON.parse` calls share one catch, so malformed scopes also cost the hosts, and
`JSON.parse(hosts) || hosts` yields the raw text for JSON that is falsy. The
schema accepts the empty lists that the catch falls back to, but with no host
the constructor of `RabbitMQClient` throws (`client.ts:52-67`, called in
`rabbitmq.module.ts:17`), so `Starts` asks for both (`Accepted`, `Connectable`).

In `Accounts`, `proc` is where the process is in its start or that it serves.
`Start` is the bootstrap with an environment that configuration and client
accept, `StartFails` one with an environment that either refuses, which ends
before any `onModuleInit`; `CountUsers` to
`SaveOrders` are the segments of the two seeding functions; Nest listens only
when they are done (`Serving`). `Ends` ends the process in any of these states,
with the save it awaited committed or not; a rejection in `onModuleInit` ends
it, too (`SaveUsers`). A call is a sign-up or a login: `LookupSignUp` and
`LookupLogin` follow its `findOne`, `Insert` is what the database does with the
insert, also when the process is gone, and `Saved` is `signUp` after its `save`.
A password hash is the pair of salt and password, which is what the code
compares.

`AccountStore` has no lookup and no process: a name belongs to whoever took it
first, "created" is told only to its owner and "conflict" only to another.
`KeepsAccounts` says that lookup and insert under the unique index amount to
this. It would not hold if an error of the index were reported as a conflict
(`SavedConflict`), as one may be tempted to do, because `save` also rejects
after the row has been committed.

Taken for granted: one process at a time, and what an ended process had sent
to the database is settled when the next one starts. Without the second a late
commit could insert the demo orders twice.

### ErrorPath

A value that travels is a kind (what the layers' tests make of it), a status
and whether it has details. `IsGenericError`, `ValidateAndTransform`,
`GenerateBuffer`, `ParseBuffer`, `CheckContent`, `CheckResult`, `Response` and
`HandleError` are the functions of the same or similar names, composed as the
code composes them; `Throw` and `Return` are how a function ends, `Wrapped` is
the catch block that rethrows a generic error and replaces any other.

`Refuse` stands for all that may answer before the controller (body parser,
throttler, guards, pipe); `ProduceFails` to `SaveFails` follow an order through
`rpcProducer` and `OrdersService`; `Deliver` and `HandlerEnds` are the message
callback of `rpcConsumer` around the handler, which may return or throw
anything (`Results`). If what is to be sent back cannot be serialised the process
ends (`Crash`), since the promise of the callback has no handler, and the
broker redelivers; `Restart` is bounded by `MaxRestarts`.

`CallerIsToldWhy` compares the composition with `Told`, which states the answer
without the layers. One line of it is a surprise worth knowing: a handler that
returns nothing at all is answered 400 and not 424, because `isGenericError`
throws on it; such a 400 has no details, and is not among the answers after
which an order may be repeated (`RefusedIsUnhandled`).

Channels stay open in this module. DTOs are two sets of values, what the
service accepts and what the gateway accepts, since the two programs validate
against classes of their own.

## Runs

| Run | Instance | Shows |
|---|---|---|
| `channel_pool` | 4 channels, 2 callers, pool of 2, 2 channel errors, with fairness | `ExclusiveUse`, `NoLeakedChannel`, `PopulationBound` and the refinement `KeepsLeases` under every interleaving of borrows, returns, errors and lost connections; a borrow that fills the pool ends (`BorrowSettles`) |
| `channel_closed_pooled`, `channel_borrow_nothing` | 4 channels; pool of 2 and of 1 | the two violations above |
| `connection` | 3 loops, 3 connections, 3 hosts, 2 attempts per host, 3 initialize calls, with fairness | `ConnectionBudget`, `CurrentIsLive`, `NeverStranded`, `GiveUpIsFinal`, `Recovers` with loops that overwrite each other's connection; `GiveUpTriesEveryHost` in the behaviours with one call |
| `rpc_calls` | 2 calls that share one reply queue, 2 replies each, with fairness | `NeverHangs`, `TimeoutMeansUnanswered`, the refinement `KeepsContract`, `CallsEnd`, and that the broker is left no live consumer (`ConsumersEnd`) |
| `rpc_consumer` | 2 messages (one without `replyTo`), 3 channels, `retry` 1, 2 calls, 3 retries, 1 restart | `HeldIsWorkedOn`, `DeafOnlyWhenAbandoned`, and the refinement `KeepsDelivery` |
| `rpc_consumer_retries`, `rpc_consumer_loss` | `retry` 3; with a connection loss | the two violations above |
| `gateway` | start-up and 2 syncs, 2 loops, 2 connections, 2 hosts, 3 initialize calls, listeners attached, with fairness | `HealthReportsConnection`, `HealthIsAccurate`, `OneConnection`, the refinement `KeepsForwarding`; `TasksEnd` and `LastingConnectionIsReported` |
| `gateway_shipped_forwards` | 1 sync, 2 loops, listeners not attached | the violation of `ForwardsOrders` |
| `accounts` | 2 calls, 3 names (two of them seeded), 2 passwords, 2 salts, 5 environments, 2 ends of the process, with fairness | `ServesSeeded`, `AnswersAreTrue`, the refinement `KeepsAccounts`, and `ComesBack`, with environments that are refused in between |
| `error_path` | 2 orders, 2 services, 1 restart, every kind of value | `CallerIsToldWhy`, `RefusedIsUnhandled`, `SuccessIsStored`, `CrashesAreUnserialisable` |

Bounds. Two callers and a pool of two are the least that let one caller empty
the pool while another fills it, that overfill it, and that leave it one short
of its limit on a return; four channels are a full pool and one loan of each
caller, and two channel errors hit a pooled and a lent channel or a replacement.
In `connection`, three loops let two of them overwrite the connection of a third;
three hosts make the index wrap and keep a skipped host from being tried by accident. Two
calls are the least that can receive each other's replies, two replies per
request give a late duplicate. For a consumer, three channels let one die while
a retry takes the second and the pool lends the third; three retries are more
than one channel error starts, with a `retry` of one the second of them is a
call without retries left, and one restart brings a message back to a process
that has lost it.

In `gateway`, two syncs and the start-up are three callers of `initialize`, who
may all find no record; one loop is in use at a time (`OneConnection`), and the
second is free for whoever would start another. Two connections are one that
ends and the one that follows it, and further ones reuse their names; two hosts
with one attempt each let an initialization fail over once and then give up.
In `accounts`, two calls race for a name, the third name is the one that
is not seeded, and the two salts let a restart change the salt between a
sign-up and a login; two ends of the process interrupt a start and the start
after it; the five environments are one for each outcome of `Configuration`: two
the process starts with (hosts as given, raw text for a host), two the client's
constructor refuses (scopes or hosts that cannot be parsed), and one that the
schema refuses. In `error_path`, two services let a message end one
and be redelivered to the other, two orders let a service end with another
order in its hands, and the restart makes room for a third victim.

The proofs, where there are any, do not depend on these values. Deadlock checking
is off only where the system may really stop: a connection manager that has
given up, a process that has ended, and calls that have all ended.

Fairness. `createChannel`, `connect`, `cancel` and the other requests of amqplib
are answered or rejected (by the broker, or when the connection ends); a
continuation that is ready runs; timers fire. In `gateway` this makes a call of
`rpcProducer` end, as `CallsEnd` shows of `RpcProducer`, and the database answers a
save. In `rpc_calls` the broker also takes a close that it has been sent. In
`accounts` the database answers, and a process that has ended is started again,
with whatever environment: `ComesBack` says what follows unless from some time
on it is only started with environments that it refuses. Nothing is assumed of
the service that should answer a request,
of channels or connections failing or not, or of callers.

## Theorems

`ChannelManagerProofs` proves `TypeOK`, `ExclusiveUse`, `CloseIsFinal` and
`NoLeakedChannel` as invariants of `Spec` for every pool size and all finite sets
of channels and callers. The last three are proved together with a fourth part,
that exactly the callers in `holding` have a loan: only with it does a push
never repeat a channel. The same invariant carries the refinement `KeepsLeases`
(`PoolKeepsLeases`), one abstract move for each segment that moves a channel;
conversely `LeasesSuffice` shows that the moves of `ChannelLeases` are enough:
they alone imply that a channel is in one hand, that nobody has a closing one
and that somebody has every open one.

`PopulationIsBounded` is the bound on the channels pooled, on order and asked for
(`PopulationBound`). It is not inductive: a borrow that finds the pool empty adds
`maxPoolSize` at once. What is missing is that replacements on order never
outnumber the channel errors (`Budget`); then, with an empty pool, what is left are
those replacements and at most one pool per caller. Every step is a statement
about two sums, over the pool and over the callers' demand, which `SumTheorems`
provides: a sum splits at a member, changes by what one member changes, and is
monotone and bounded. Its one induction, that a sum is added up member by
member, is made by a smallest counterexample among the finite sets.
`OpenChannelsAreBounded` concludes that no more channels are open at the broker
than `maxPoolSize` per concurrent caller and one per channel error.

`ConnectionManagerProofs` proves `TypeOK`, `CurrentIsLive`, `NeverStranded`,
`ConnectionBudget`, `GiveUpIsFinal` and `GiveUpTriesEveryHost` for any number of
loops, hosts, attempts and initialize calls. `NeverStranded` is inductive together with type
correctness; the budget needs the theorems on finite cardinalities; giving up
is an action property, proved from type correctness. That a client initialized
once gives up only after trying every host (`EveryHostIsTried`) rests on the
budget: with one call there is one loop, connection or timer, so nothing
moves the shared index out of turn (`Alone`), and the failed attempts are always some full
rounds over the hosts and the hosts just behind the index; the limit is reached
by full rounds only.

`RpcProducerProofs` proves `TypeOK`, `NeverHangs`, `TimeoutMeansUnanswered`,
`EndedCallsClose` (the safe half of `ConsumersEnd`, which no run repeats: however
a call ends, no channel of it is left open, so no reply callback runs for a call
that has ended), and that `Spec` implements `RpcContract` (`KeepsContract`).
The inductive invariant has two halves: what each stage of a call holds (no
timer, consumer or cancel before the publish, no open channel after the end),
and where replies come from (each reply at the broker, and each intent of a
callback, stems from an execution of that request, which is counted in
`executed`). The second is what the refinement's `End` step needs.

`RpcConsumerProofs` proves `TypeOK`, `SettledMeansAnswered` (which the refinement
includes and no run repeats), `HeldIsWorkedOn`, `DeafOnlyWhenAbandoned` and the
refinement `KeepsDelivery`. Its invariant has four parts: what is on a message's
wire is a tail of a reply and one settlement; a channel on which a consume is
awaited is open and not in the pool; something on the wire means the message is
held, and a settlement alone on it that the message is answered; and work on a
channel that is not closed is for a message held there with an empty wire. A
request is settled after its answer because frames are taken in order; in the
refinement this is what makes a settlement the abstract `Settle`, which asks for
the answer. Whatever else ends (a channel, the connection, the process) is a
`PutBack` of the messages held there (`StopPutsBack`, `LossPutsBack`,
`CrashPutsBack`).

`GatewayProofs` first shows that a behaviour of the gateway is one of the
connection manager (`GatewayRunsClient`): start-up and syncs use the client only in
ways that `ConnectionManager` allows, so what is proved of it alone holds of the
client inside the gateway, with and without the listeners (`ClientGuarantees`). With the listeners attached it proves
`HealthReportsConnection`, `HealthIsAccurate` and `OneConnection`, together, from
one invariant: there is at most one of open connection, loop and timer; every
one that is not the start-up's own belongs to a client whose listeners are in
place; and state, record and connection agree while the process runs. None of
them is inductive alone: a second connection would make the record of the
first wrong, and a wrong record would let a sync open the second. From the same
invariant and the turns of `ConnectionManagerProofs` follows that the gateway gives
up only after every host has failed as often as configured (`EveryHostWasTried`);
`GiveUpTriesEveryHost` needs a single call of `initialize` for that, the gateway may
make one for every sync.
`StoredMeansExecuted`, which the refinement includes and no run repeats, is proved
with and without the listeners, and so is `KeepsForwarding`: what the refinement
needs is that a sync which has not reached the call has not been executed, so that a refusal is never late.

`AccountsProofs` proves `TypeOK`, `ServesSeeded`, `AnswersAreTrue` and
`KeepsAccounts`.
`ServesSeeded` follows from what each state of `proc` implies of the two tables
(`UsersSeeded`, `OrdersSeeded`): the users are all there or none is, and nobody
can ask before they are. For `AnswersAreTrue` the invariant says which stage of a
call owns its row (`Progress`) and that no row stems from a call that has not
inserted (`RowsStem`), and that rows, once there, never change. Both make
`KeepsAccounts` a step by step argument: the insert is the abstract `Register`,
the lookup of a taken name and the end of a save are its `Answer`, and a restart
and all the rest are stutters. A small addition for any set of
environments is `NeverOnFallback`: no process seeds or serves on the empty lists
of the catch in `config()`, so one malformed variable, if only the scopes, keeps
the gateway from starting.

`ErrorPathProofs` proves `TypeOK` and the four invariants of `error_path`. First
come the pure functions: an error keeps status and details through buffer, wire,
producer and filter (`ErrorWritten`, `ErrorHeard`, `ErrorShown`), the service's
refusal reaches the caller (`RefusalShown`), and every result of a handler is told
as `Told` says (`ResultTold`, `ResultHeard`). The invariant has three parts for each
request: what its stage implies (`Progress`), where the reply it got stems from
(`Explained`), and what an answer that has been given rests on (`Justified`).

The assumptions are those of the modules (`PoolAssumption`,
`ConnectionAssumption`, `ProducerAssumption`, `ConsumerAssumption`,
`GatewayAssumption`, `AccountsAssumption`, `ErrorPathAssumption`), and TLC evaluates
them on every run. That channels and callers are finite sets is all that
`PoolAssumption` asks of them: at any time a process has finitely many of both.

Every safety property of the passing runs is proved. Model-checked only are the
liveness properties `BorrowSettles`, `Recovers`, `CallsEnd`, `ConsumersEnd`, `TasksEnd`,
`LastingConnectionIsReported` and `ComesBack`: liveness under fairness and `ENABLED`
are out of the reach of the prover used here. So are the library's induction
theorems, which take an operator as a parameter; the one induction this project
needs avoids them, as told above.

## Where documents and code differ

Five runs end in a violation, and `PROJECT.json` quotes for each what the
repository says. Three further differences need no run, because reading both
places is enough: `README.md:63` documents `RABBITMQ_HOST`, but the code reads
`RABBITMQ_HOSTS` (`configuration.ts:96`), and a gateway configured as documented
does not start, because the parsing falls back to an empty list, which the client
refuses (`NeverOnFallback`); `auth.controller.ts:83` documents 400 for a name
that is taken, but the answer is 409, or 500 when it is the unique index that
refuses it; `orders.controller.ts:60-84` lists 400, 401, 403 and 500, but 408,
424, 429 and 503 occur as well (`ErrorPath`).

## Not modelled

- HTTP controllers, guards, strategies and middleware decide from one request
  and keep no state: that they may refuse is `Refuse` and `Ask`, which request
  they refuse is left out. The endpoints that only read (order queries, user
  profile, debug) change nothing.
- Wiring, DTOs, entities, OpenAPI: declarations. The order of the start-up is
  that of `Accounts` and `Gateway`.
- The contents of TLS and connect options, which are inputs of the external
  `connect`, and of tokens.
- Base64 text and malformed JSON on the wire, which only publishers outside
  this repository could send.

## Plan

All parts that keep state or react to failures are modelled, in the order of
the modules above. What could be added:

1. `ErrorPath` over the channels of `RpcConsumer`, to see a failing serialisation
   and a lost channel in one behaviour; each is modelled alone today.
2. A start-up of `Gateway` that shares its process with `Accounts`, so that an end
   of the process also restarts the client.
