---------------------------- MODULE RpcProducer -----------------------------
(***************************************************************************)
(* Concurrent calls of RabbitMQClient.rpcProducer and the waitForResponse  *)
(* they make: libs/rabbitmq-client-ts/src/client/client.ts.                *)
(*                                                                         *)
(* Each call works on a channel of its own, which ChannelManager proves,   *)
(* so the channel of request r is written chan[r].  The broker and the     *)
(* service that answers are external: a published request is answered at   *)
(* any time, up to MaxReplies times (redelivery), with a result, an error  *)
(* or a malformed payload, or never.                                       *)
(*                                                                         *)
(* Shared says whether opts.replyTo names one queue that all requests      *)
(* share (any of their consumers may be given a message of it) or is left  *)
(* out, so that the broker's direct reply-to sends a reply to the channel  *)
(* that published its request.                                             *)
(*                                                                         *)
(* chan[r] is the client's view of a channel, and consumer[r] the broker's *)
(* view of its consumer: until the broker has taken the close of a channel *)
(* it goes on sending replies to a consumer that nobody listens to.        *)
(***************************************************************************)
EXTENDS Naturals

CONSTANTS Requests,    \* calls of rpcProducer
          Shared,      \* BOOLEAN: the requests share one reply queue
          MaxReplies   \* bound: replies the service sends to one request

ASSUME ProducerAssumption == Shared \in BOOLEAN /\ MaxReplies \in Nat

Kinds == {"result", "error", "malformed"}

(* How a call ends: with a reply, or with an error of the client's own:    *)
(* 503, 424 before publishing, 400 payload, 424 response, 400 correlation, *)
(* 408.                                                                    *)
Outcomes == {"result", "error", "not connected", "failed", "bad payload",
             "bad response", "mismatch", "timeout"}

(* A duplicate of a reply that is still at the broker is as good as one    *)
(* sent when the first has been taken, so replies are a set.               *)
Replies == [of : Requests, kind : Kinds]

(* How a reply callback settles the call when its cancel of the consumer   *)
(* is answered; several may be waiting, and any of them may be first.      *)
Intents == {"result", "bad response", "mismatch"}

VARIABLES
    state,       \* this.state: "connected" or "closed"
    pc,          \* of each call: see TypeOK
    chan,        \* the call's channel: "none", "open", "closing", "closed"
    consumer,    \* its reply consumer: "none", "requested", "on", "off", "refused"
    timer,       \* its response timer is armed
    published,   \* its request has been written to the channel
    cancelling,  \* intents of its reply callbacks that await their cancel
    outcome,     \* how it ended, "none" while it has not
    sent,        \* number of replies the service has sent to it
    replies,     \* reply messages at the broker
    executed,    \* history: the kinds of reply the service sent to it
    answered     \* history: a reply to this request reached its callback

vars == <<state, pc, chan, consumer, timer, published, cancelling, outcome,
          sent, replies, executed, answered>>

service == <<sent, replies, executed>>

Init ==
    /\ state = "connected"
    /\ pc = [r \in Requests |-> "idle"]
    /\ chan = [r \in Requests |-> "none"]
    /\ consumer = [r \in Requests |-> "none"]
    /\ timer = [r \in Requests |-> FALSE]
    /\ published = [r \in Requests |-> FALSE]
    /\ cancelling = [r \in Requests |-> {}]
    /\ outcome = [r \in Requests |-> "none"]
    /\ sent = [r \in Requests |-> 0]
    /\ replies = {}
    /\ executed = [r \in Requests |-> {}]
    /\ answered = [r \in Requests |-> FALSE]

-----------------------------------------------------------------------------
(* Consumers that the broker has, or has been asked for.                   *)
Live == {"requested", "on"}

(* What becomes of a consumer that is cancelled or whose channel closes: a *)
(* consume in flight may have reached the broker, and the publish behind   *)
(* it too.                                                                 *)
Severed(c) == IF c \in Live THEN "off" ELSE c

(* Mutant: the channel is given back as if it were not a producer's, so it *)
(* stays open with its consumer.                                           *)
FinishPooled(r, o) ==
    /\ outcome' = [outcome EXCEPT ![r] = o]
    /\ pc' = [pc EXCEPT ![r] = "done"]
    /\ UNCHANGED chan

(* The end of a call.  The finally block gives the channel back as a       *)
(* producer's: a close is sent, if there is an open channel.  The broker's *)
(* consumer lives until that close is taken.                               *)
Finish(r, o) ==
    /\ outcome' = [outcome EXCEPT ![r] = o]
    /\ pc' = [pc EXCEPT ![r] = "done"]
    /\ chan' = [chan EXCEPT ![r] = IF @ = "open" THEN "closing" ELSE @]

(* Settling the response promise: only the first resolve or reject counts, *)
(* and rpcProducer, which awaits it, ends.                                 *)
Settle(r, o) ==
    IF pc[r] = "waiting"
      THEN Finish(r, o)
      ELSE UNCHANGED <<outcome, pc, chan>>

-----------------------------------------------------------------------------
(* rpcProducer up to the publish.                                          *)

Call(r) ==
    /\ pc[r] = "idle"
    /\ IF state = "connected"
         THEN /\ pc' = [pc EXCEPT ![r] = "borrowing"]
              /\ UNCHANGED outcome
         ELSE /\ pc' = [pc EXCEPT ![r] = "done"]
              /\ outcome' = [outcome EXCEPT ![r] = "not connected"]
    /\ UNCHANGED <<state, chan, consumer, timer, published, cancelling,
                   answered, service>>

(* borrowChannel resolves, perhaps with a channel that is closed, and the  *)
(* prefetch is sent.                                                       *)
Borrowed(r) ==
    /\ pc[r] = "borrowing"
    /\ pc' = [pc EXCEPT ![r] = "prefetching"]
    /\ \E s \in IF state = "connected" THEN {"open", "closed"} ELSE {"closed"} :
         chan' = [chan EXCEPT ![r] = s]
    /\ UNCHANGED <<state, consumer, timer, published, cancelling, outcome,
                   answered, service>>

PrefetchOk(r) ==
    /\ pc[r] = "prefetching"
    /\ chan[r] = "open"
    /\ pc' = [pc EXCEPT ![r] = "validating"]
    /\ UNCHANGED <<state, chan, consumer, timer, published, cancelling,
                   outcome, answered, service>>

(* The borrow rejects or resolves with undefined, or the prefetch is       *)
(* rejected because the channel is closed.                                 *)
SetupFails(r) ==
    /\ \/ pc[r] = "borrowing"
       \/ pc[r] = "prefetching" /\ chan[r] = "closed"
    /\ Finish(r, "failed")
    /\ UNCHANGED <<state, consumer, timer, published, cancelling, answered, service>>

(* validateAndTransform rejects the payload.                               *)
PayloadInvalid(r) ==
    /\ pc[r] = "validating"
    /\ Finish(r, "bad payload")
    /\ UNCHANGED <<state, consumer, timer, published, cancelling, answered, service>>

(* The payload is valid.  waitForResponse arms the timer and sends the     *)
(* consume, whose answer nobody awaits; then the request is published.     *)
Publish(r) ==
    /\ pc[r] = "validating"
    /\ chan[r] = "open"
    /\ timer' = [timer EXCEPT ![r] = TRUE]
    /\ consumer' = [consumer EXCEPT ![r] = "requested"]
    /\ published' = [published EXCEPT ![r] = TRUE]
    /\ pc' = [pc EXCEPT ![r] = "waiting"]
    /\ UNCHANGED <<state, chan, cancelling, outcome, answered, service>>

(* The payload cannot be serialised, after the consume has been sent; or   *)
(* the channel has closed meanwhile, so that the consume is rejected and   *)
(* logged and publish throws.  Either way the call ends without ever       *)
(* awaiting the response promise, whose timer stays armed.                 *)
PublishThrows(r) ==
    /\ pc[r] = "validating"
    /\ timer' = [timer EXCEPT ![r] = TRUE]
    /\ consumer' = [consumer EXCEPT ![r] = IF chan[r] = "open" THEN "requested" ELSE @]
    /\ Finish(r, "failed")
    /\ UNCHANGED <<state, published, cancelling, answered, service>>

-----------------------------------------------------------------------------
(* waitForResponse: consume, the reply callback, the timer.                *)

(* The broker takes the consume, though the client may have gone on.       *)
ConsumeOk(r) ==
    /\ consumer[r] = "requested"
    /\ chan[r] \in {"open", "closing"}
    /\ consumer' = [consumer EXCEPT ![r] = "on"]
    /\ UNCHANGED <<state, pc, chan, timer, published, cancelling, outcome,
                   answered, service>>

(* The broker refuses the consume and closes the channel, so the publish   *)
(* behind it is ignored; the rejection is only logged.                     *)
ConsumeRefused(r) ==
    /\ consumer[r] = "requested"
    /\ chan[r] \in {"open", "closing"}
    /\ consumer' = [consumer EXCEPT ![r] = "refused"]
    /\ chan' = [chan EXCEPT ![r] = "closed"]
    /\ UNCHANGED <<state, pc, timer, published, cancelling, outcome,
                   answered, service>>

(* Messages the broker may give to the consumer of r.                      *)
Deliverable(r) == {m \in replies : consumer[r] = "on" /\ (Shared \/ m.of = r)}

(* Those that reach its callback: a channel that is not open drops them.   *)
Receivable(r) == {m \in Deliverable(r) : chan[r] = "open"}

(* The reply consumer is noAck: a message given to it is gone.             *)
Take(m) == /\ replies' = replies \ {m}
           /\ UNCHANGED <<sent, executed>>

(* Mutant: the payload is not validated.                                   *)
VerdictUnchecked(m) == m.kind

(* What the validation of a payload decides: an error is no response.      *)
Verdict(m) == IF m.kind = "result" THEN "result" ELSE "bad response"

(* Mutants: the timer is not cleared; a payload that fails validation is   *)
(* dropped with the timer cleared.                                         *)
DeliverOwnTimed(r) ==
    \E m \in Receivable(r) :
        /\ m.of = r
        /\ Take(m)
        /\ answered' = [answered EXCEPT ![r] = TRUE]
        /\ cancelling' = [cancelling EXCEPT ![r] = @ \cup {Verdict(m)}]
        /\ UNCHANGED <<state, pc, chan, consumer, timer, published, outcome>>

DeliverOwnDrops(r) ==
    \E m \in Receivable(r) :
        /\ m.of = r
        /\ Take(m)
        /\ timer' = [timer EXCEPT ![r] = FALSE]
        /\ answered' = [answered EXCEPT ![r] = TRUE]
        /\ cancelling' = [cancelling EXCEPT ![r] =
                            IF m.kind = "malformed" THEN @ ELSE @ \cup {Verdict(m)}]
        /\ UNCHANGED <<state, pc, chan, consumer, published, outcome>>

(* The callback gets the reply to its own request: the timer is cleared,   *)
(* and a result resolves (a payload that fails validation rejects) when    *)
(* the consumer has been cancelled.  An error reply rejects at once, but   *)
(* the callback goes on all the same.                                      *)
DeliverOwn(r) ==
    \E m \in Receivable(r) :
        /\ m.of = r
        /\ Take(m)
        /\ timer' = [timer EXCEPT ![r] = FALSE]
        /\ answered' = [answered EXCEPT ![r] = TRUE]
        /\ cancelling' = [cancelling EXCEPT ![r] = @ \cup {Verdict(m)}]
        /\ \/ m.kind = "error" /\ Settle(r, "error")
           \/ m.kind # "error" /\ UNCHANGED <<outcome, pc, chan>>
        /\ UNCHANGED <<state, consumer, published>>

(* Mutant: the correlation id is not compared.                             *)
DeliverOtherAccepted(r) ==
    \E m \in Receivable(r) :
        /\ m.of # r
        /\ Take(m)
        /\ cancelling' = [cancelling EXCEPT ![r] = @ \cup {Verdict(m)}]
        /\ UNCHANGED <<state, pc, chan, consumer, timer, published, outcome,
                       answered>>

(* The callback gets another request's reply: it cancels, then rejects.    *)
DeliverOther(r) ==
    \E m \in Receivable(r) :
        /\ m.of # r
        /\ Take(m)
        /\ cancelling' = [cancelling EXCEPT ![r] = @ \cup {"mismatch"}]
        /\ UNCHANGED <<state, pc, chan, consumer, timer, published, outcome,
                       answered>>

(* The broker sends a reply to a consumer whose channel is being closed:   *)
(* nobody hears of it, whosever reply it is.                               *)
Swallowed(r) ==
    /\ chan[r] = "closing"
    /\ \E m \in Deliverable(r) : Take(m)
    /\ UNCHANGED <<state, pc, chan, consumer, timer, published, cancelling,
                   outcome, answered>>

(* The broker cancels the consumer of a named queue (the queue is deleted) *)
(* and the callback gets null: no correlation id, no consumer to cancel.   *)
DeliverNull(r) ==
    /\ Shared
    /\ consumer[r] = "on"
    /\ consumer' = [consumer EXCEPT ![r] = "off"]
    /\ Settle(r, "mismatch")
    /\ UNCHANGED <<state, timer, published, cancelling, answered, service>>

(* Mutant: a cancel rejected because the channel has closed is not caught. *)
CancelAnsweredOnly(r) ==
    \E intent \in cancelling[r] :
        /\ chan[r] = "open"
        /\ cancelling' = [cancelling EXCEPT ![r] = @ \ {intent}]
        /\ consumer' = [consumer EXCEPT ![r] = Severed(@)]
        /\ Settle(r, intent)
        /\ UNCHANGED <<state, timer, published, answered, service>>

(* The broker drops the consumer and answers the cancel, or the cancel is  *)
(* rejected because the channel is closed or being closed, which           *)
(* invalidateChannelConsumer logs: the callback goes on either way.        *)
CancelAnswered(r) ==
    \E intent \in cancelling[r] :
        /\ cancelling' = [cancelling EXCEPT ![r] = @ \ {intent}]
        /\ consumer' = [consumer EXCEPT ![r] = IF chan[r] = "open" THEN Severed(@) ELSE @]
        /\ Settle(r, intent)
        /\ UNCHANGED <<state, timer, published, answered, service>>

(* The timer of a call whose response promise somebody awaits or has       *)
(* awaited: a rejection, unless the promise is settled already.            *)
Timeout(r) ==
    /\ timer[r]
    /\ published[r]
    /\ timer' = [timer EXCEPT ![r] = FALSE]
    /\ Settle(r, "timeout")
    /\ UNCHANGED <<state, consumer, published, cancelling, answered, service>>

(* Nobody awaits the promise of a call whose publish threw: its rejection  *)
(* is unhandled and ends the process, with every call still in progress.   *)
OrphanTimeout(r) ==
    /\ timer[r]
    /\ ~published[r]
    /\ pc' = [q \in Requests |-> "dead"]
    /\ chan' = [q \in Requests |-> "closed"]
    /\ consumer' = [q \in Requests |-> Severed(consumer[q])]
    /\ timer' = [q \in Requests |-> FALSE]
    /\ cancelling' = [q \in Requests |-> {}]
    /\ UNCHANGED <<state, published, outcome, answered, service>>

-----------------------------------------------------------------------------
(* The environment.                                                        *)

(* The service handles a request that reached its queue and replies.       *)
Reply(r) ==
    /\ published[r]
    /\ consumer[r] \in {"on", "off"}
    /\ sent[r] < MaxReplies
    /\ sent' = [sent EXCEPT ![r] = @ + 1]
    /\ \E kind \in Kinds :
         /\ replies' = replies \cup {[of |-> r, kind |-> kind]}
         /\ executed' = [executed EXCEPT ![r] = @ \cup {kind}]
    /\ UNCHANGED <<state, pc, chan, consumer, timer, published, cancelling,
                   outcome, answered>>

(* The broker closes the channel.                                          *)
ChannelDies(r) ==
    /\ chan[r] \in {"open", "closing"}
    /\ chan' = [chan EXCEPT ![r] = "closed"]
    /\ consumer' = [consumer EXCEPT ![r] = Severed(@)]
    /\ UNCHANGED <<state, pc, timer, published, cancelling, outcome,
                   answered, service>>

(* The broker takes the close of a channel and drops its consumer.         *)
BrokerCloses(r) ==
    /\ chan[r] = "closing"
    /\ chan' = [chan EXCEPT ![r] = "closed"]
    /\ consumer' = [consumer EXCEPT ![r] = Severed(@)]
    /\ UNCHANGED <<state, pc, timer, published, cancelling, outcome,
                   answered, service>>

ConnectionLost ==
    /\ state = "connected"
    /\ state' = "closed"
    /\ chan' = [r \in Requests |-> IF chan[r] = "none" THEN "none" ELSE "closed"]
    /\ consumer' = [r \in Requests |-> Severed(consumer[r])]
    /\ UNCHANGED <<pc, timer, published, cancelling, outcome, answered,
                   service>>

Reconnected ==
    /\ state = "closed"
    /\ \A r \in Requests : pc[r] # "dead"
    /\ state' = "connected"
    /\ UNCHANGED <<pc, chan, consumer, timer, published, cancelling, outcome,
                   answered, service>>

-----------------------------------------------------------------------------
CallStep(r) ==
    \/ Call(r)          \/ Borrowed(r)       \/ PrefetchOk(r)   \/ SetupFails(r)
    \/ PayloadInvalid(r) \/ Publish(r)       \/ PublishThrows(r)

ResponseStep(r) ==
    \/ DeliverOwn(r)    \/ DeliverOther(r)   \/ DeliverNull(r)  \/ CancelAnswered(r)
    \/ Timeout(r)       \/ OrphanTimeout(r)

BrokerStep(r) ==
    \/ ConsumeOk(r)     \/ ConsumeRefused(r) \/ Swallowed(r)
    \/ ChannelDies(r)   \/ BrokerCloses(r)

Next ==
    \/ \E r \in Requests : CallStep(r) \/ ResponseStep(r) \/ BrokerStep(r) \/ Reply(r)
    \/ ConnectionLost
    \/ Reconnected

Spec == Init /\ [][Next]_vars

(* The client library answers every request it is asked, timers fire, and  *)
(* the broker takes a close that it is sent.                               *)
(* Nothing is assumed of the service.                                      *)
Fairness ==
    \A r \in Requests :
        /\ WF_vars(Borrowed(r) \/ PrefetchOk(r) \/ SetupFails(r))
        /\ WF_vars(PayloadInvalid(r) \/ Publish(r) \/ PublishThrows(r))
        /\ WF_vars(CancelAnswered(r))
        /\ WF_vars(Timeout(r) \/ OrphanTimeout(r))
        /\ WF_vars(BrokerCloses(r))

FairSpec == Spec /\ Fairness
-----------------------------------------------------------------------------
TypeOK ==
    /\ state \in {"connected", "closed"}
    /\ pc \in [Requests -> {"idle", "borrowing", "prefetching", "validating",
                            "waiting", "done", "dead"}]
    /\ chan \in [Requests -> {"none", "open", "closing", "closed"}]
    /\ consumer \in [Requests -> {"none", "requested", "on", "off", "refused"}]
    /\ timer \in [Requests -> BOOLEAN]
    /\ published \in [Requests -> BOOLEAN]
    /\ cancelling \in [Requests -> SUBSET Intents]
    /\ outcome \in [Requests -> Outcomes \cup {"none"}]
    /\ sent \in [Requests -> 0 .. MaxReplies]
    /\ replies \subseteq Replies
    /\ executed \in [Requests -> SUBSET Kinds]
    /\ answered \in [Requests -> BOOLEAN]

(* A call that waits for its response has an armed timer or a callback     *)
(* that will settle it: clearing the timer on a reply and settling only    *)
(* after the cancel leave no gap in which it would wait for ever.          *)
NeverHangs ==
    \A r \in Requests : pc[r] = "waiting" => timer[r] \/ cancelling[r] # {}

(* A call that ends with 408 was not answered before: once its own reply   *)
(* has reached it, the timer cannot win the race with the cancel.          *)
TimeoutMeansUnanswered ==
    \A r \in Requests : outcome[r] = "timeout" => ~answered[r]

(* However a call ends, it leaves no channel open: a close has been sent   *)
(* or the channel was gone.  So an open channel with a consumer is that of *)
(* a call that waits, and no callback runs for any other.                  *)
EndedCallsClose ==
    \A r \in Requests :
        /\ pc[r] \in {"done", "dead"} => chan[r] # "open"
        /\ consumer[r] \in Live /\ chan[r] = "open" => pc[r] = "waiting"

(* The contract of RpcContract: one end per call, and a result or error    *)
(* that the service produced for that very request.                        *)
Contract == INSTANCE RpcContract
            WITH Requests <- Requests, Outcomes <- Outcomes,
                 outcome <- outcome, executed <- executed
KeepsContract == Contract!Spec

(* The reply consumer of a call that has ended may swallow replies meant   *)
(* for others, but not for ever: the broker drops it, however the call     *)
(* ended and even if its consume was still on the way.                     *)
ConsumersEnd ==
    \A r \in Requests : pc[r] \in {"done", "dead"} ~> consumer[r] \notin Live

(* A call ends whatever the service and the broker do, unless the process  *)
(* itself ends.                                                            *)
CallsEnd == \A r \in Requests : pc[r] = "borrowing" ~> pc[r] \in {"done", "dead"}
=============================================================================
