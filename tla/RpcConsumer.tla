---------------------------- MODULE RpcConsumer -----------------------------
(***************************************************************************)
(* A service that answers requests with RabbitMQClient.rpcConsumer:        *)
(* libs/rabbitmq-client-ts/src/client/client.ts.                           *)
(*                                                                         *)
(* A call of rpcConsumer borrows a channel, listens to its 'error' and     *)
(* 'close' events while it has retries left, starts a consumer and gives   *)
(* the channel back to the pool, consumer and all: the pool may lend it    *)
(* again, to another rpcConsumer or to an rpcProducer, which closes it.    *)
(* Each event calls rpcConsumer again.  Nobody awaits such a retry, so its *)
(* rejection is unhandled and ends the process; so is the rejection of a   *)
(* message callback whose channel is gone when it wants to reply.          *)
(*                                                                         *)
(* Calls with the same retries left are interchangeable, so calls and      *)
(* listeners are counted.  A message stays at the broker until it is       *)
(* settled; what a callback writes (a reply, then ack or nack) is on the   *)
(* wire until the broker takes it, frame by frame, or the channel ends.    *)
(***************************************************************************)
EXTENDS Integers, Sequences, Functions

CONSTANTS Messages,     \* requests in the service's queue
          NoReplyTo,    \* those of them without the replyTo property
          Channels,     \* channel objects alive at one time
          None,         \* no call
          Retry,        \* argument retry of the service's own calls
          MaxCalls,     \* bound: calls of rpcConsumer by the service
          MaxRetried,   \* bound: calls by its channel listeners
          MaxRestarts   \* bound: restarts of the process

(* A call of rpcConsumer: its argument, and whether a listener made it.    *)
Call == [retry : 0 .. Retry, retried : BOOLEAN]

ASSUME ConsumerAssumption ==
    /\ NoReplyTo \subseteq Messages
    /\ None \notin Call
    /\ {Retry, MaxCalls, MaxRetried, MaxRestarts} \subseteq Nat

VARIABLES
    state,      \* this.state: "connected", "closed", or "down" without process
    chan,       \* of each channel: "open", "closing", "closed"
    pooled,     \* the pool's channels among Channels
    starting,   \* calls that await borrowChannel
    asking,     \* the call that awaits the consume on each channel, or None
    attached,   \* callbacks on each channel's events, by retries left
    consumers,  \* consumers on each channel
    work,       \* <<m, k>>: a callback of k is processing m
    msg,        \* of each message: "queued", "held", "acked", "dead"
    at,         \* the channel a held message was delivered on
    wire,       \* of each message: frames written and not yet at the broker
    answered,   \* history: a reply to this message has reached the broker
    heard,      \* history: this process has had a consumer
    abandoned,  \* history: it lost one in a way that triggers no retry
    counts      \* history: calls, retried, restarts (bounded)

vars == <<state, chan, pooled, starting, asking, attached, consumers, work,
          msg, at, wire, answered, heard, abandoned, counts>>

setup == <<starting, asking, attached, consumers, heard, abandoned, counts>>
messages == <<work, msg, at, wire, answered>>

NoCalls == [c \in Call |-> 0]
NoListeners == [r \in 1 .. Retry |-> 0]
Own == [retry |-> Retry, retried |-> FALSE]

Init ==
    /\ state = "connected"
    /\ chan = [k \in Channels |-> "closed"]
    /\ pooled = {}
    /\ starting = NoCalls
    /\ asking = [k \in Channels |-> None]
    /\ attached = [k \in Channels |-> NoListeners]
    /\ consumers = [k \in Channels |-> 0]
    /\ work = {}
    /\ msg = [m \in Messages |-> "queued"]
    /\ at \in [Messages -> Channels]
    /\ wire = [m \in Messages |-> <<>>]
    /\ answered = [m \in Messages |-> FALSE]
    /\ heard = FALSE
    /\ abandoned = FALSE
    /\ counts = [calls |-> 0, retried |-> 0, restarts |-> 0]

-----------------------------------------------------------------------------
Listened(k) == \E r \in 1 .. Retry : attached[k][r] > 0

(* The broker puts back what the channels in K hold; what was written on   *)
(* them and not taken is lost.                                             *)
Requeue(K) ==
    /\ msg' = [m \in Messages |-> IF msg[m] = "held" /\ at[m] \in K
                                    THEN "queued" ELSE msg[m]]
    /\ wire' = [m \in Messages |-> IF at[m] \in K THEN <<>> ELSE wire[m]]
    /\ UNCHANGED <<at, answered>>

(* Channels that stop: their consumers and listeners go with them.         *)
Stop(K) ==
    /\ chan' = [k \in Channels |-> IF k \in K THEN "closed" ELSE chan[k]]
    /\ attached' = [k \in Channels |-> IF k \in K THEN NoListeners ELSE attached[k]]
    /\ consumers' = [k \in Channels |-> IF k \in K THEN 0 ELSE consumers[k]]
    /\ Requeue(K)

(* An unhandled rejection: Node.js ends the process.                       *)
Crash ==
    /\ state' = "down"
    /\ Stop(Channels)
    /\ pooled' = {}
    /\ starting' = NoCalls
    /\ asking' = [k \in Channels |-> None]
    /\ work' = {}
    /\ heard' = FALSE
    /\ abandoned' = FALSE
    /\ UNCHANGED counts

(* The process is started again and its client connects.                   *)
Restart ==
    /\ state = "down"
    /\ counts.restarts < MaxRestarts
    /\ counts' = [counts EXCEPT !.restarts = @ + 1]
    /\ state' = "connected"
    /\ UNCHANGED <<chan, pooled, starting, asking, attached, consumers, heard,
                   abandoned, messages>>

-----------------------------------------------------------------------------
(* rpcConsumer.                                                            *)

(* The service calls it.  Without a connection it rejects at once.         *)
Serve ==
    /\ state = "connected"
    /\ counts.calls < MaxCalls
    /\ counts' = [counts EXCEPT !.calls = @ + 1]
    /\ starting' = [starting EXCEPT ![Own] = @ + 1]
    /\ UNCHANGED <<state, chan, pooled, asking, attached, consumers, heard,
                   abandoned, messages>>

(* A channel object nobody refers to, for the pool to create.              *)
Fresh == {k \in Channels : chan[k] = "closed" /\ k \notin pooled
                              /\ \A m \in Messages : <<m, k>> \notin work}

(* borrowChannel resolves with an open channel, the listeners are attached *)
(* if there are retries left, and the consume is sent.                     *)
Borrowed(c, k) ==
    /\ starting[c] > 0
    /\ \/ k \in Fresh /\ state = "connected"
       \/ k \in pooled /\ chan[k] = "open"
    /\ starting' = [starting EXCEPT ![c] = @ - 1]
    /\ chan' = [chan EXCEPT ![k] = "open"]
    /\ pooled' = pooled \ {k}
    /\ asking' = [asking EXCEPT ![k] = c]
    /\ attached' = IF c.retry > 0 THEN [attached EXCEPT ![k][c.retry] = @ + 1]
                                  ELSE attached
    /\ UNCHANGED <<state, consumers, heard, abandoned, counts, messages>>

(* The call rejects: borrowChannel did, or it returned undefined (to       *)
(* which no listener can be attached) or a closed channel, whose consume   *)
(* is rejected.  The service handles this, nobody does for a retry.        *)
Rejects(c) ==
    /\ starting[c] > 0
    /\ \/ /\ c.retried
          /\ Crash
       \/ /\ ~c.retried
          /\ starting' = [starting EXCEPT ![c] = @ - 1]
          /\ UNCHANGED <<state, chan, pooled, asking, attached, consumers,
                         heard, abandoned, counts, messages>>

(* Without retries left, an undefined channel is passed over in silence.   *)
BorrowsNothing(c) ==
    /\ starting[c] > 0
    /\ c.retry = 0
    /\ starting' = [starting EXCEPT ![c] = @ - 1]
    /\ abandoned' = TRUE
    /\ UNCHANGED <<state, chan, pooled, asking, attached, consumers, heard,
                   counts, messages>>

(* The consumer is on, and the finally block gives the channel back to the *)
(* pool, which closes it if it has no room.                                *)
ConsumeOk(k) ==
    /\ asking[k] # None
    /\ asking' = [asking EXCEPT ![k] = None]
    /\ consumers' = [consumers EXCEPT ![k] = @ + 1]
    /\ heard' = TRUE
    /\ \/ pooled' = pooled \cup {k} /\ UNCHANGED chan
       \/ chan' = [chan EXCEPT ![k] = "closing"] /\ UNCHANGED pooled
    /\ UNCHANGED <<state, starting, attached, abandoned, counts, messages>>

-----------------------------------------------------------------------------
(* The message callback.                                                   *)

(* A message with a replyTo is processed; only its own channel may settle  *)
(* it.                                                                     *)
Deliver(m, k) ==
    /\ msg[m] = "queued"
    /\ m \notin NoReplyTo
    /\ chan[k] = "open" /\ consumers[k] > 0
    /\ msg' = [msg EXCEPT ![m] = "held"]
    /\ at' = [at EXCEPT ![m] = k]
    /\ work' = work \cup {<<m, k>>}
    /\ UNCHANGED <<state, chan, pooled, wire, answered, setup>>

(* Mutants: settling before replying; an error path without nack.          *)
FinishSettlesFirst(m, k) ==
    /\ <<m, k>> \in work
    /\ chan[k] = "open"
    /\ work' = work \ {<<m, k>>}
    /\ wire' = [wire EXCEPT ![m] = <<"ack", "reply">>]
    /\ UNCHANGED <<state, chan, pooled, msg, at, answered, setup>>

FinishUnsettled(m, k) ==
    /\ <<m, k>> \in work
    /\ chan[k] = "open"
    /\ work' = work \ {<<m, k>>}
    /\ wire' = [wire EXCEPT ![m] = <<"reply">>]
    /\ UNCHANGED <<state, chan, pooled, msg, at, answered, setup>>

(* Processing ends.  On an open channel the reply and the ack are written, *)
(* or the error reply and the nack without requeue.  On any other channel  *)
(* sendToQueue throws and the rejection of the callback is unhandled.      *)
Finish(m, k) ==
    /\ <<m, k>> \in work
    /\ \/ /\ chan[k] = "open"
          /\ work' = work \ {<<m, k>>}
          /\ \E settle \in {"ack", "nack"} :
               wire' = [wire EXCEPT ![m] = <<"reply", settle>>]
          /\ UNCHANGED <<state, chan, pooled, msg, at, answered, setup>>
       \/ /\ chan[k] # "open"
          /\ Crash

(* The broker takes the next frame.  A nack dead-letters the message.      *)
BrokerTakes(m) ==
    /\ wire[m] # <<>>
    /\ wire' = [wire EXCEPT ![m] = Tail(@)]
    /\ \/ /\ Head(wire[m]) = "reply"
          /\ answered' = [answered EXCEPT ![m] = TRUE]
          /\ UNCHANGED msg
       \/ /\ Head(wire[m]) # "reply"
          /\ msg' = [msg EXCEPT ![m] = IF Head(wire[m]) = "ack" THEN "acked"
                                                                ELSE "dead"]
          /\ UNCHANGED answered
    /\ UNCHANGED <<state, chan, pooled, work, at, setup>>

-----------------------------------------------------------------------------
(* Channel and connection events.                                          *)

(* Retries that n callbacks per listener start: the argument is retry--,   *)
(* so the first passes on what the call had, and the second one less.      *)
Retries(k) == SumFunction(attached[k])

RetryOnce(k) ==
    [c \in Call |-> IF c.retried /\ c.retry > 0
                      THEN starting[c] + attached[k][c.retry] ELSE starting[c]]

(* Mutant: the argument is --retry, so the second event of a channel goes  *)
(* below zero.                                                             *)
RetryTwiceFirst(k) ==
    LET Retrying(r, n) == [retry |-> r - n, retried |-> TRUE]
        made == {Retrying(r, n) : r \in {q \in 1 .. Retry : attached[k][q] > 0}, n \in {1, 2}}
        From(c, n) == IF c.retried /\ c.retry + n \in 1 .. Retry
                       THEN attached[k][c.retry + n] ELSE 0
    IN [c \in Call \cup made |->
           (IF c \in Call THEN starting[c] ELSE 0) + From(c, 1) + From(c, 2)]

RetryTwice(k) ==
    [c \in Call |->
        IF c.retried
          THEN starting[c] + (IF c.retry > 0 THEN attached[k][c.retry] ELSE 0)
                           + (IF c.retry < Retry THEN attached[k][c.retry + 1] ELSE 0)
          ELSE starting[c]]

Retried(n) == /\ n \in 0 .. MaxRetried - counts.retried
              /\ counts' = [counts EXCEPT !.retried = @ + n]

(* Lost consumers nobody listens for are not replaced.                     *)
Abandons(k) == abandoned' = (abandoned \/ (consumers[k] > 0 /\ ~Listened(k)))

(* The server closes the channel with an error (a refused consume is one): *)
(* 'error' takes it out of the pool, 'error' and 'close' each call the     *)
(* listeners.  A consume in flight is rejected; its call gives the closed  *)
(* channel back to the pool, and if it was a retry the process ends.       *)
ChannelErrored(k) ==
    /\ chan[k] = "open"
    /\ \/ /\ asking[k] # None /\ asking[k].retried
          /\ Crash
       \/ /\ asking[k] # None => ~asking[k].retried
          /\ Stop({k})
          /\ pooled' = IF asking[k] # None THEN pooled \cup {k} ELSE pooled \ {k}
          /\ asking' = [asking EXCEPT ![k] = None]
          /\ starting' = RetryTwice(k)
          /\ Retried(2 * Retries(k))
          /\ Abandons(k)
          /\ UNCHANGED <<state, work, heard>>

(* An rpcProducer borrows the channel and closes it when it is done.       *)
TakenByProducer(k) ==
    /\ k \in pooled
    /\ chan[k] = "open"
    /\ pooled' = pooled \ {k}
    /\ chan' = [chan EXCEPT ![k] = "closing"]
    /\ UNCHANGED <<state, setup, messages>>

(* Mutant: 'close' has no listener.                                        *)
CloseUnheard(k) ==
    /\ chan[k] = "closing"
    /\ \A m \in Messages : at[m] = k => wire[m] = <<>>
    /\ Stop({k})
    /\ Abandons(k)
    /\ UNCHANGED <<state, pooled, starting, asking, work, heard, counts>>

(* The broker has taken what was written before the close, and confirms.   *)
CloseConfirmed(k) ==
    /\ chan[k] = "closing"
    /\ \A m \in Messages : at[m] = k => wire[m] = <<>>
    /\ Stop({k})
    /\ starting' = RetryOnce(k)
    /\ Retried(Retries(k))
    /\ Abandons(k)
    /\ UNCHANGED <<state, pooled, asking, work, heard>>

(* The queue is deleted: the broker cancels its consumers and calls them   *)
(* with null, which the callback ignores.                                  *)
ConsumersCancelled ==
    /\ \E k \in Channels : consumers[k] > 0
    /\ consumers' = [k \in Channels |-> 0]
    /\ abandoned' = TRUE
    /\ UNCHANGED <<state, chan, pooled, starting, asking, attached, heard,
                   counts, messages>>

(* The connection ends and every channel emits 'close'.  The retries this  *)
(* starts are rejected, because the state is 'closed' already or because   *)
(* no channel can be had; so are the retries that are waiting for one.     *)
LoseConnection ==
    \/ /\ \/ \E k \in Channels : Listened(k)
          \/ \E k \in Channels : asking[k] # None /\ asking[k].retried
          \/ \E c \in Call : c.retried /\ starting[c] > 0
       /\ Crash
    \/ /\ \A k \in Channels : /\ ~Listened(k)
                              /\ asking[k] # None => ~asking[k].retried
       /\ \A c \in Call : c.retried => starting[c] = 0
       /\ state' = "closed"
       /\ Stop(Channels)
       /\ pooled' = pooled \cup {k \in Channels : asking[k] # None}
       /\ starting' = NoCalls
       /\ asking' = [k \in Channels |-> None]
       /\ abandoned' = (abandoned \/ \E k \in Channels : consumers[k] > 0)
       /\ UNCHANGED <<work, heard, counts>>

ConnectionLost ==
    /\ state = "connected"
    /\ LoseConnection

(* A message without replyTo: the callback throws into amqplib, which ends *)
(* the connection; the message was not settled.                            *)
DeliverUnanswerable(m, k) ==
    /\ msg[m] = "queued"
    /\ m \in NoReplyTo
    /\ chan[k] = "open" /\ consumers[k] > 0
    /\ LoseConnection

(* onConnectionReady: a new channel manager, with a pool of its own.       *)
Reconnected ==
    /\ state = "closed"
    /\ state' = "connected"
    /\ pooled' = {}
    /\ UNCHANGED <<chan, setup, messages>>

-----------------------------------------------------------------------------
CallStep ==
    \/ Serve
    \/ \E c \in Call : Rejects(c) \/ BorrowsNothing(c)
    \/ \E c \in Call, k \in Channels : Borrowed(c, k)
    \/ \E k \in Channels : ConsumeOk(k)

MessageStep ==
    \/ \E m \in Messages, k \in Channels :
         Deliver(m, k) \/ Finish(m, k) \/ DeliverUnanswerable(m, k)
    \/ \E m \in Messages : BrokerTakes(m)

EventStep ==
    \/ \E k \in Channels : ChannelErrored(k) \/ TakenByProducer(k) \/ CloseConfirmed(k)
    \/ ConsumersCancelled
    \/ ConnectionLost
    \/ Reconnected
    \/ Restart

Next == CallStep \/ MessageStep \/ EventStep

Spec == Init /\ [][Next]_vars
-----------------------------------------------------------------------------
TypeOK ==
    /\ state \in {"connected", "closed", "down"}
    /\ chan \in [Channels -> {"open", "closing", "closed"}]
    /\ pooled \subseteq Channels
    /\ starting \in [Call -> Nat]
    /\ asking \in [Channels -> Call \cup {None}]
    /\ attached \in [Channels -> [1 .. Retry -> Nat]]
    /\ consumers \in [Channels -> Nat]
    /\ work \subseteq Messages \X Channels
    /\ msg \in [Messages -> {"queued", "held", "acked", "dead"}]
    /\ at \in [Messages -> Channels]
    /\ wire \in [Messages -> Seq({"reply", "ack", "nack"})]
    /\ answered \in [Messages -> BOOLEAN]
    /\ heard \in BOOLEAN /\ abandoned \in BOOLEAN
    /\ counts \in [calls : Nat, retried : Nat, restarts : Nat]

(* A message that is off the queue was answered: whatever crash or close   *)
(* comes between two frames, the broker never settles a request, by ack or *)
(* by dead-lettering, whose reply it has not received before.              *)
SettledMeansAnswered ==
    \A m \in Messages : msg[m] \in {"acked", "dead"} => answered[m]

(* No message gets stuck: one that the broker has handed out is with a     *)
(* channel that is not closed, and is being processed there or has its ack *)
(* or nack under way, so it is settled or goes back to the queue.          *)
HeldIsWorkedOn ==
    \A m \in Messages : msg[m] = "held" =>
        /\ chan[at[m]] # "closed"
        /\ <<m, at[m]>> \in work \/ wire[m] # <<>>

(* A consumer, or a retry on its way to one.                               *)
Hearing ==
    \/ \E c \in Call : c.retried /\ starting[c] > 0
    \/ \E k \in Channels : chan[k] # "closed" /\
            (consumers[k] > 0 \/ (asking[k] # None /\ asking[k].retried))

(* The retries leave no gap: a process that has had a consumer, and lost   *)
(* none in a way the code does not listen for, has a consumer or a retry   *)
(* on its way to one, whichever events, borrows and closes intervene.      *)
DeafOnlyWhenAbandoned == heard /\ ~abandoned => Hearing

(* Whatever crash, close or retry comes between two frames, the service    *)
(* delivers at least once: it answers only what it was handed, a request   *)
(* leaves the queue only after the reply to it has reached the broker, and *)
(* never comes back then.                                                  *)
Delivery == INSTANCE RequestDelivery WITH place <- msg

KeepsDelivery == Delivery!Spec

(* 'Error in rpcConsumer setup after retries' and the argument retry = 3:  *)
(* a call is retried at most that often.                                   *)
RetriesAreBounded == counts.calls <= 1 => counts.retried <= Retry

(* 'RabbitMQ connection closed. Attempting to reconnect...': the process   *)
(* survives the end of its connection.                                     *)
SurvivesLoss == [][state = "connected" /\ state' # "connected" => state' = "closed"]_vars
=============================================================================
