-------------------------- MODULE RpcProducerProofs -------------------------
(***************************************************************************)
(* The safety of rpcProducer and its contract, proved for any number of    *)
(* concurrent requests and replies, with and without a shared reply queue. *)
(***************************************************************************)
EXTENDS RpcProducer, TLAPS

LEMMA InitType == Init => TypeOK
BY ProducerAssumption DEF Init, TypeOK, Intents, Replies

LEMMA SettleType ==
  ASSUME TypeOK, NEW r \in Requests, NEW o \in Outcomes, Settle(r, o)
  PROVE  /\ outcome' \in [Requests -> Outcomes \cup {"none"}]
         /\ pc' \in [Requests -> {"idle", "borrowing", "prefetching", "validating",
                                   "waiting", "done", "dead"}]
         /\ chan' \in [Requests -> {"none", "open", "closing", "closed"}]
<1>1. CASE pc[r] = "waiting"
  BY <1>1 DEF Settle, Finish, TypeOK
<1>2. CASE pc[r] # "waiting"
  BY <1>2 DEF Settle, TypeOK
<1> QED
  BY <1>1, <1>2

LEMMA NextType == TypeOK /\ [Next]_vars => TypeOK'
<1> SUFFICES ASSUME TypeOK, [Next]_vars
             PROVE  TypeOK'
  OBVIOUS
<1> USE ProducerAssumption DEF TypeOK, service, Take, Outcomes
<1>1. ASSUME NEW r \in Requests, CallStep(r)
      PROVE  TypeOK'
  <2>1. CASE Call(r)
    <3>1. /\ pc' = [pc EXCEPT ![r] = "borrowing"] \/ pc' = [pc EXCEPT ![r] = "done"]
          /\ UNCHANGED outcome \/ outcome' = [outcome EXCEPT ![r] = "not connected"]
      BY <2>1 DEF Call
    <3> QED
      BY <2>1, <3>1 DEF Call
  <2>2. CASE Borrowed(r)
    <3>1. chan' \in [Requests -> {"none", "open", "closing", "closed"}]
      BY <2>2 DEF Borrowed
    <3> QED
      BY <2>2, <3>1 DEF Borrowed
  <2>3. CASE PrefetchOk(r)
    BY <2>3 DEF PrefetchOk
  <2>4. CASE SetupFails(r)
    BY <2>4 DEF SetupFails, Finish
  <2>5. CASE PayloadInvalid(r)
    BY <2>5 DEF PayloadInvalid, Finish
  <2>6. CASE Publish(r)
    BY <2>6 DEF Publish
  <2>7. CASE PublishThrows(r)
    BY <2>7 DEF PublishThrows, Finish
  <2> QED
    BY <1>1, <2>1, <2>2, <2>3, <2>4, <2>5, <2>6, <2>7 DEF CallStep
<1>2. ASSUME NEW r \in Requests, ResponseStep(r)
      PROVE  TypeOK'
  <2>1. CASE DeliverOwn(r)
    <3>1. PICK m \in Receivable(r) : DeliverOwn(r)!(m)
      BY <2>1 DEF DeliverOwn
    <3>2. /\ replies' \subseteq Replies
          /\ timer' \in [Requests -> BOOLEAN]
          /\ answered' \in [Requests -> BOOLEAN]
      BY <3>1 DEF Receivable, Deliverable
    <3>3. cancelling' \in [Requests -> SUBSET Intents]
      <4>1. Verdict(m) \in Intents
        BY DEF Verdict, Intents
      <4>2. cancelling[r] \cup {Verdict(m)} \in SUBSET Intents
        BY <4>1
      <4> QED
        BY <3>1, <4>2
    <3>4. /\ outcome' \in [Requests -> Outcomes \cup {"none"}]
          /\ pc' \in [Requests -> {"idle", "borrowing", "prefetching", "validating",
                                    "waiting", "done", "dead"}]
          /\ chan' \in [Requests -> {"none", "open", "closing", "closed"}]
      <4>1. "error" \in Outcomes
        BY DEF Outcomes
      <4>2. CASE Settle(r, "error")
        BY <4>1, <4>2, SettleType
      <4>3. CASE UNCHANGED <<outcome, pc, chan>>
        BY <4>3
      <4> QED
        BY <3>1, <4>2, <4>3
    <3>5. UNCHANGED <<state, consumer, published, sent, executed>>
      BY <3>1
    <3> QED
      BY <3>2, <3>3, <3>4, <3>5
  <2>2. CASE DeliverOther(r)
    <3>1. PICK m \in Receivable(r) : DeliverOther(r)!(m)
      BY <2>2 DEF DeliverOther
    <3>2. replies' \subseteq Replies
      BY <3>1
    <3>3. cancelling' \in [Requests -> SUBSET Intents]
      BY <3>1 DEF Intents
    <3> QED
      BY <3>1, <3>2, <3>3
  <2>3. CASE DeliverNull(r)
    BY <2>3, SettleType DEF DeliverNull
  <2>4. CASE CancelAnswered(r)
    <3>1. PICK intent \in cancelling[r] : CancelAnswered(r)!(intent)
      BY <2>4 DEF CancelAnswered
    <3>2. intent \in Outcomes /\ intent \in Intents
      BY DEF Intents
    <3>3. cancelling' \in [Requests -> SUBSET Intents]
      BY <3>1
    <3>4. consumer' \in [Requests -> {"none", "requested", "on", "off", "refused"}]
      BY <3>1 DEF Severed, Live
    <3>5. Settle(r, intent) /\ UNCHANGED <<state, timer, published, answered, service>>
      BY <3>1
    <3> QED
      BY <3>2, <3>3, <3>4, <3>5, SettleType
  <2>5. CASE Timeout(r)
    BY <2>5, SettleType DEF Timeout
  <2>6. CASE OrphanTimeout(r)
    BY <2>6 DEF OrphanTimeout, Severed, Live
  <2> QED
    BY <1>2, <2>1, <2>2, <2>3, <2>4, <2>5, <2>6 DEF ResponseStep
<1>3. ASSUME NEW r \in Requests, Reply(r)
      PROVE  TypeOK'
  <2>1. PICK kind \in Kinds :
          /\ replies' = replies \cup {[of |-> r, kind |-> kind]}
          /\ executed' = [executed EXCEPT ![r] = @ \cup {kind}]
    BY <1>3 DEF Reply
  <2>2. sent' \in [Requests -> 0 .. MaxReplies]
    <3>1. sent[r] \in 0 .. MaxReplies
      OBVIOUS
    <3>2. sent[r] < MaxReplies /\ sent' = [sent EXCEPT ![r] = sent[r] + 1]
      BY <1>3 DEF Reply
    <3>3. sent[r] + 1 \in 0 .. MaxReplies
      BY ONLY <3>1, <3>2, ProducerAssumption
    <3> QED
      BY <3>2, <3>3
  <2>3. replies' \subseteq Replies
    <3>1. [of |-> r, kind |-> kind] \in Replies
      BY DEF Replies
    <3> QED
      BY <2>1, <3>1
  <2>4. executed' \in [Requests -> SUBSET Kinds]
    BY <2>1
  <2> QED
    BY <1>3, <2>2, <2>3, <2>4 DEF Reply
<1>4. ASSUME NEW r \in Requests, BrokerStep(r)
      PROVE  TypeOK'
  <2>1. CASE ConsumeOk(r)
    BY <2>1 DEF ConsumeOk
  <2>2. CASE ConsumeRefused(r)
    BY <2>2 DEF ConsumeRefused
  <2>3. CASE Swallowed(r)
    BY <2>3 DEF Swallowed, Deliverable
  <2>4. CASE ChannelDies(r)
    BY <2>4 DEF ChannelDies, Severed, Live
  <2>5. CASE BrokerCloses(r)
    BY <2>5 DEF BrokerCloses, Severed, Live
  <2> QED
    BY <1>4, <2>1, <2>2, <2>3, <2>4, <2>5 DEF BrokerStep
<1>5. CASE ConnectionLost
  BY <1>5 DEF ConnectionLost, Severed, Live
<1>6. CASE Reconnected
  BY <1>6 DEF Reconnected
<1>7. CASE UNCHANGED vars
  BY <1>7 DEF vars
<1> QED
  BY <1>1, <1>2, <1>3, <1>4, <1>5, <1>6, <1>7 DEF Next

(* Every variable keeps its type: a call ends with one of the outcomes     *)
(* listed, and a reply callback settles it in one of three ways.           *)
THEOREM TypeCorrect == Spec => []TypeOK
BY InitType, NextType, PTL DEF Spec

-----------------------------------------------------------------------------
(* What the stage of a call says of its channel, consumer, timer and       *)
(* promise.  Only a call that waits has a consumer on an open channel, so  *)
(* a reply can reach it only before it ends; a timer that is armed has not *)
(* been cleared by the call's own reply.                                   *)
Stage(r) ==
        /\ consumer[r] # "none" => pc[r] \in {"waiting", "done", "dead"}
        /\ chan[r] = "open" => pc[r] \in {"prefetching", "validating", "waiting"}
        /\ pc[r] \notin {"done", "dead"} => outcome[r] = "none"
        /\ timer[r] \/ answered[r] => pc[r] \in {"waiting", "done", "dead"}
        /\ answered[r] => ~timer[r]
        /\ pc[r] = "waiting" => published[r] /\ (timer[r] \/ cancelling[r] # {})
        /\ outcome[r] = "timeout" => ~answered[r]

StageFacts == \A r \in Requests : Stage(r)

LEMMA InitStage == Init => StageFacts
BY DEF Init, StageFacts, Stage

LEMMA NextStage == TypeOK /\ StageFacts /\ [Next]_vars => StageFacts'
<1> SUFFICES ASSUME TypeOK, StageFacts, [Next]_vars,
                    NEW q \in Requests
             PROVE  Stage(q)'
  BY DEF StageFacts
<1>0. \A r \in Requests : Stage(r)
  BY DEF StageFacts
<1> USE <1>0 DEF TypeOK, Stage, service, Take
<1>1. ASSUME NEW r \in Requests, CallStep(r)
      PROVE  Stage(q)'
  <2>1. CASE Call(r)
    <3>1. CASE state = "connected"
      BY <2>1, <3>1 DEF Call
    <3>2. CASE state # "connected"
      <4>1. /\ pc[r] = "idle"
            /\ pc' = [pc EXCEPT ![r] = "done"]
            /\ outcome' = [outcome EXCEPT ![r] = "not connected"]
            /\ UNCHANGED <<chan, consumer, timer, published, cancelling, answered>>
        BY <2>1, <3>2 DEF Call
      <4> QED
        BY <4>1
    <3> QED
      BY <3>1, <3>2
  <2>2. CASE Borrowed(r)
    BY <2>2 DEF Borrowed
  <2>3. CASE PrefetchOk(r)
    BY <2>3 DEF PrefetchOk
  <2>4. CASE SetupFails(r)
    BY <2>4 DEF SetupFails, Finish
  <2>5. CASE PayloadInvalid(r)
    BY <2>5 DEF PayloadInvalid, Finish
  <2>6. CASE Publish(r)
    BY <2>6 DEF Publish
  <2>7. CASE PublishThrows(r)
    BY <2>7 DEF PublishThrows, Finish
  <2> QED
    BY <1>1, <2>1, <2>2, <2>3, <2>4, <2>5, <2>6, <2>7 DEF CallStep
<1>2. ASSUME NEW r \in Requests, ResponseStep(r)
      PROVE  Stage(q)'
  <2>1. CASE DeliverOwn(r)
    <3>1. PICK m \in Receivable(r) : DeliverOwn(r)!(m)
      BY <2>1 DEF DeliverOwn
    <3>2. pc[r] = "waiting"
      BY <3>1 DEF Receivable, Deliverable
    <3>3. /\ timer' = [timer EXCEPT ![r] = FALSE]
          /\ answered' = [answered EXCEPT ![r] = TRUE]
          /\ cancelling' = [cancelling EXCEPT ![r] = cancelling[r] \cup {Verdict(m)}]
          /\ UNCHANGED <<consumer, published>>
      BY <3>1
    <3>4. CASE Settle(r, "error")
      BY <3>2, <3>3, <3>4 DEF Settle, Finish
    <3>5. CASE UNCHANGED <<outcome, pc, chan>>
      BY <3>2, <3>3, <3>5
    <3> QED
      BY <3>1, <3>4, <3>5
  <2>2. CASE DeliverOther(r)
    <3>1. PICK m \in Receivable(r) : DeliverOther(r)!(m)
      BY <2>2 DEF DeliverOther
    <3> QED
      BY <3>1
  <2>3. CASE DeliverNull(r)
    <3>1. CASE pc[r] = "waiting"
      BY <2>3, <3>1 DEF DeliverNull, Settle, Finish
    <3>2. CASE pc[r] # "waiting"
      BY <2>3, <3>2 DEF DeliverNull, Settle
    <3> QED
      BY <3>1, <3>2
  <2>4. CASE CancelAnswered(r)
    <3>1. PICK intent \in cancelling[r] : CancelAnswered(r)!(intent)
      BY <2>4 DEF CancelAnswered
    <3>2. intent # "timeout"
      BY DEF Intents
    <3>3. consumer'[q] # "none" => consumer[q] # "none"
      BY <3>1 DEF Severed, Live
    <3>4. CASE pc[r] = "waiting"
      BY <3>1, <3>2, <3>3, <3>4 DEF Settle, Finish
    <3>5. CASE pc[r] # "waiting"
      BY <3>1, <3>3, <3>5 DEF Settle
    <3> QED
      BY <3>4, <3>5
  <2>5. CASE Timeout(r)
    <3>1. CASE pc[r] = "waiting"
      BY <2>5, <3>1 DEF Timeout, Settle, Finish
    <3>2. CASE pc[r] # "waiting"
      BY <2>5, <3>2 DEF Timeout, Settle
    <3> QED
      BY <3>1, <3>2
  <2>6. CASE OrphanTimeout(r)
    BY <2>6 DEF OrphanTimeout, Severed, Live
  <2> QED
    BY <1>2, <2>1, <2>2, <2>3, <2>4, <2>5, <2>6 DEF ResponseStep
<1>3. ASSUME NEW r \in Requests, Reply(r)
      PROVE  Stage(q)'
  BY <1>3 DEF Reply
<1>4. ASSUME NEW r \in Requests, BrokerStep(r)
      PROVE  Stage(q)'
  <2>1. CASE ConsumeOk(r)
    BY <2>1 DEF ConsumeOk
  <2>2. CASE ConsumeRefused(r)
    BY <2>2 DEF ConsumeRefused
  <2>3. CASE Swallowed(r)
    BY <2>3 DEF Swallowed, Deliverable
  <2>4. CASE ChannelDies(r)
    BY <2>4 DEF ChannelDies, Severed, Live
  <2>5. CASE BrokerCloses(r)
    BY <2>5 DEF BrokerCloses, Severed, Live
  <2> QED
    BY <1>4, <2>1, <2>2, <2>3, <2>4, <2>5 DEF BrokerStep
<1>5. CASE ConnectionLost
  BY <1>5 DEF ConnectionLost, Severed, Live
<1>6. CASE Reconnected
  BY <1>6 DEF Reconnected
<1>7. CASE UNCHANGED vars
  BY <1>7 DEF vars
<1> QED
  BY <1>1, <1>2, <1>3, <1>4, <1>5, <1>6, <1>7 DEF Next

LEMMA StageHolds == Spec => []StageFacts
BY InitType, InitStage, NextType, NextStage, PTL DEF Spec

(* A waiting call always has a timer or a callback that will settle it.    *)
THEOREM NoCallHangs == Spec => []NeverHangs
<1>1. StageFacts => NeverHangs
  BY DEF StageFacts, Stage, NeverHangs
<1> QED
  BY StageHolds, <1>1, PTL

(* A call answered by its own reply never ends with 408.                   *)
THEOREM AnsweredCallsDoNotTimeOut == Spec => []TimeoutMeansUnanswered
<1>1. StageFacts => TimeoutMeansUnanswered
  BY DEF StageFacts, Stage, TimeoutMeansUnanswered
<1> QED
  BY StageHolds, <1>1, PTL

(* A call that has ended has sent the close of its channel, if the channel *)
(* was open: an open channel with a consumer is that of a waiting call.    *)
THEOREM EndedCallsHaveClosed == Spec => []EndedCallsClose
<1>1. StageFacts => EndedCallsClose
  BY DEF StageFacts, Stage, EndedCallsClose, Live
<1> QED
  BY StageHolds, <1>1, PTL

-----------------------------------------------------------------------------
(* Why a result or an error the caller sees was produced for its request:  *)
(* the messages at the broker and the callbacks about to settle a call     *)
(* carry only what the service produced.                                   *)
ReplyFacts ==
    /\ \A m \in replies : m.kind \in executed[m.of]
    /\ \A r \in Requests : "result" \in cancelling[r] => "result" \in executed[r]

LEMMA InitReplies == Init => ReplyFacts
BY DEF Init, ReplyFacts

LEMMA NextReplies == TypeOK /\ ReplyFacts /\ [Next]_vars => ReplyFacts'
<1> SUFFICES ASSUME TypeOK, ReplyFacts, [Next]_vars
             PROVE  ReplyFacts'
  OBVIOUS
<1> USE DEF TypeOK, ReplyFacts, service, Take
<1>1. ASSUME NEW r \in Requests, CallStep(r)
      PROVE  ReplyFacts'
  <2>1. CASE Call(r)
    BY <2>1 DEF Call
  <2>2. CASE Borrowed(r)
    BY <2>2 DEF Borrowed
  <2>3. CASE PrefetchOk(r)
    BY <2>3 DEF PrefetchOk
  <2>4. CASE SetupFails(r)
    BY <2>4 DEF SetupFails
  <2>5. CASE PayloadInvalid(r)
    BY <2>5 DEF PayloadInvalid
  <2>6. CASE Publish(r)
    BY <2>6 DEF Publish
  <2>7. CASE PublishThrows(r)
    BY <2>7 DEF PublishThrows
  <2> QED
    BY <1>1, <2>1, <2>2, <2>3, <2>4, <2>5, <2>6, <2>7 DEF CallStep
<1>2. ASSUME NEW r \in Requests, ResponseStep(r)
      PROVE  ReplyFacts'
  <2>1. CASE DeliverOwn(r)
    <3>1. PICK m \in Receivable(r) : DeliverOwn(r)!(m)
      BY <2>1 DEF DeliverOwn
    <3>2. m \in replies /\ m.of = r /\ replies' \subseteq replies /\ executed' = executed
      BY <3>1 DEF Receivable, Deliverable
    <3>3. cancelling' = [cancelling EXCEPT ![r] = cancelling[r] \cup {Verdict(m)}]
      BY <3>1
    <3>4. Verdict(m) = "result" => "result" \in executed[r]
      BY <3>2 DEF Verdict
    <3> QED
      BY <3>2, <3>3, <3>4
  <2>2. CASE DeliverOther(r)
    <3>1. PICK m \in Receivable(r) : DeliverOther(r)!(m)
      BY <2>2 DEF DeliverOther
    <3>2. replies' \subseteq replies /\ executed' = executed
      BY <3>1
    <3>3. cancelling' = [cancelling EXCEPT ![r] = cancelling[r] \cup {"mismatch"}]
      BY <3>1
    <3> QED
      BY <3>2, <3>3
  <2>3. CASE DeliverNull(r)
    BY <2>3 DEF DeliverNull
  <2>4. CASE CancelAnswered(r)
    <3>1. PICK intent \in cancelling[r] : CancelAnswered(r)!(intent)
      BY <2>4 DEF CancelAnswered
    <3> QED
      BY <3>1
  <2>5. CASE Timeout(r)
    BY <2>5 DEF Timeout
  <2>6. CASE OrphanTimeout(r)
    BY <2>6 DEF OrphanTimeout
  <2> QED
    BY <1>2, <2>1, <2>2, <2>3, <2>4, <2>5, <2>6 DEF ResponseStep
<1>3. ASSUME NEW r \in Requests, Reply(r)
      PROVE  ReplyFacts'
  <2>1. PICK kind \in Kinds :
          /\ replies' = replies \cup {[of |-> r, kind |-> kind]}
          /\ executed' = [executed EXCEPT ![r] = executed[r] \cup {kind}]
    BY <1>3 DEF Reply
  <2>2. \A q \in Requests : executed[q] \subseteq executed'[q]
    BY <2>1
  <2>3. \A m \in replies : m.of \in Requests
    BY DEF Replies
  <2>4. cancelling' = cancelling
    BY <1>3 DEF Reply
  <2>5. kind \in executed'[r]
    BY <2>1
  <2> QED
    BY <2>1, <2>2, <2>3, <2>4, <2>5
<1>4. ASSUME NEW r \in Requests, BrokerStep(r)
      PROVE  ReplyFacts'
  <2>1. CASE ConsumeOk(r)
    BY <2>1 DEF ConsumeOk
  <2>2. CASE ConsumeRefused(r)
    BY <2>2 DEF ConsumeRefused
  <2>3. CASE Swallowed(r)
    BY <2>3 DEF Swallowed, Deliverable
  <2>4. CASE ChannelDies(r)
    BY <2>4 DEF ChannelDies
  <2>5. CASE BrokerCloses(r)
    BY <2>5 DEF BrokerCloses
  <2> QED
    BY <1>4, <2>1, <2>2, <2>3, <2>4, <2>5 DEF BrokerStep
<1>5. CASE ConnectionLost
  BY <1>5 DEF ConnectionLost
<1>6. CASE Reconnected
  BY <1>6 DEF Reconnected
<1>7. CASE UNCHANGED vars
  BY <1>7 DEF vars
<1> QED
  BY <1>1, <1>2, <1>3, <1>4, <1>5, <1>6, <1>7 DEF Next

-----------------------------------------------------------------------------
(* Each step is a step of the contract or leaves its variables alone.      *)
LEMMA FinishEnds ==
  ASSUME TypeOK, NEW r \in Requests, NEW o \in Outcomes, outcome[r] = "none",
         o \in Contract!Replied => o \in executed[r],
         outcome' = [outcome EXCEPT ![r] = o], executed' = executed
  PROVE  Contract!Next
BY DEF Contract!Next, Contract!End

LEMMA NextContract ==
  TypeOK /\ StageFacts /\ ReplyFacts /\ [Next]_vars => [Contract!Next]_(Contract!vars)
<1> SUFFICES ASSUME TypeOK, StageFacts, ReplyFacts, [Next]_vars
             PROVE  Contract!Next \/ UNCHANGED <<outcome, executed>>
  BY DEF Contract!vars
<1> DEFINE Goal == Contract!Next \/ UNCHANGED <<outcome, executed>>
<1>0. \A r \in Requests : pc[r] \notin {"done", "dead"} => outcome[r] = "none"
  BY DEF StageFacts, Stage
<1>1. ASSUME NEW r \in Requests, NEW o \in Outcomes, Finish(r, o),
             pc[r] \notin {"done", "dead"}, executed' = executed,
             o \in Contract!Replied => o \in executed[r]
      PROVE  Goal
  BY <1>0, <1>1, FinishEnds DEF Finish
<1>2. ASSUME NEW r \in Requests, NEW o \in Outcomes, Settle(r, o),
             executed' = executed, o \in Contract!Replied => o \in executed[r]
      PROVE  Goal
  <2>1. CASE pc[r] = "waiting"
    BY <1>1, <1>2, <2>1 DEF Settle
  <2>2. CASE pc[r] # "waiting"
    BY <1>2, <2>2 DEF Settle
  <2> QED
    BY <2>1, <2>2
<1>3. ASSUME NEW r \in Requests, CallStep(r)
      PROVE  Goal
  <2>1. CASE Call(r)
    <3>1. CASE state = "connected"
      BY <2>1, <3>1 DEF Call, service
    <3>2. CASE state # "connected"
      <4>1. "not connected" \in Outcomes /\ "not connected" \notin Contract!Replied
        BY DEF Outcomes, Contract!Replied
      <4>2. outcome' = [outcome EXCEPT ![r] = "not connected"] /\ executed' = executed
        BY <2>1, <3>2 DEF Call, service
      <4>3. outcome[r] = "none"
        BY <1>0, <2>1 DEF Call
      <4> QED
        BY <4>1, <4>2, <4>3, FinishEnds
    <3> QED
      BY <3>1, <3>2
  <2>2. CASE Borrowed(r) \/ PrefetchOk(r) \/ Publish(r)
    BY <2>2 DEF Borrowed, PrefetchOk, Publish, service
  <2>3. CASE SetupFails(r) \/ PublishThrows(r)
    <3>1. "failed" \in Outcomes /\ "failed" \notin Contract!Replied
      BY DEF Outcomes, Contract!Replied
    <3> QED
      BY <1>1, <2>3, <3>1 DEF SetupFails, PublishThrows, service
  <2>4. CASE PayloadInvalid(r)
    <3>1. "bad payload" \in Outcomes /\ "bad payload" \notin Contract!Replied
      BY DEF Outcomes, Contract!Replied
    <3> QED
      BY <1>1, <2>4, <3>1 DEF PayloadInvalid, service
  <2> QED
    BY <1>3, <2>1, <2>2, <2>3, <2>4 DEF CallStep
<1>4. ASSUME NEW r \in Requests, ResponseStep(r)
      PROVE  Goal
  <2>1. CASE OrphanTimeout(r)
    BY <2>1 DEF OrphanTimeout, service
  <2>2. CASE DeliverOwn(r)
    <3>1. PICK m \in Receivable(r) : DeliverOwn(r)!(m)
      BY <2>2 DEF DeliverOwn
    <3>2. m.kind \in executed[r] /\ executed' = executed
      BY <3>1 DEF Receivable, Deliverable, Take, ReplyFacts
    <3>3. CASE m.kind = "error"
      <4>1. "error" \in Outcomes
        BY DEF Outcomes
      <4>2. Settle(r, "error")
        BY <3>1, <3>3
      <4> QED
        BY <1>2, <3>2, <3>3, <4>1, <4>2
    <3>4. CASE m.kind # "error"
      <4>1. UNCHANGED outcome
        BY <3>1, <3>4
      <4> QED
        BY <3>2, <4>1
    <3> QED
      BY <3>3, <3>4
  <2>3. CASE DeliverOther(r)
    BY <2>3 DEF DeliverOther, Take
  <2>4. CASE DeliverNull(r)
    <3>1. "mismatch" \in Outcomes /\ "mismatch" \notin Contract!Replied
      BY DEF Outcomes, Contract!Replied
    <3> QED
      BY <1>2, <2>4, <3>1 DEF DeliverNull, service
  <2>5. CASE CancelAnswered(r)
    <3>1. PICK intent \in cancelling[r] : Settle(r, intent) /\ executed' = executed
      BY <2>5 DEF CancelAnswered, service
    <3>2. intent \in Outcomes /\ (intent \in Contract!Replied => intent = "result")
      BY DEF TypeOK, Intents, Outcomes, Contract!Replied
    <3>3. intent \in Contract!Replied => intent \in executed[r]
      BY <3>2 DEF ReplyFacts
    <3> QED
      BY <1>2, <3>1, <3>2, <3>3
  <2>6. CASE Timeout(r)
    <3>1. "timeout" \in Outcomes /\ "timeout" \notin Contract!Replied
      BY DEF Outcomes, Contract!Replied
    <3> QED
      BY <1>2, <2>6, <3>1 DEF Timeout, service
  <2> QED
    BY <1>4, <2>1, <2>2, <2>3, <2>4, <2>5, <2>6 DEF ResponseStep
<1>5. ASSUME NEW r \in Requests, Reply(r)
      PROVE  Goal
  <2>1. Contract!Execute(r)
    BY <1>5 DEF Reply, Contract!Execute, Kinds
  <2> QED
    BY <2>1 DEF Contract!Next
<1>6. CASE (\E r \in Requests : BrokerStep(r)) \/ ConnectionLost \/ Reconnected
  BY <1>6 DEF BrokerStep, ConsumeOk, ConsumeRefused, Swallowed, Take, ChannelDies, BrokerCloses,
              ConnectionLost, Reconnected, service
<1>7. CASE UNCHANGED vars
  BY <1>7 DEF vars
<1> QED
  BY <1>3, <1>4, <1>5, <1>6, <1>7 DEF Next

(* rpcProducer implements the contract of RpcContract: it ends each call   *)
(* once, and a result or an error reply was produced for that request.     *)
THEOREM ProducerKeepsContract == Spec => KeepsContract
<1>1. Init => Contract!Init
  BY DEF Init, Contract!Init
<1>2. Spec => [](TypeOK /\ StageFacts /\ ReplyFacts)
  BY InitType, InitStage, InitReplies, NextType, NextStage, NextReplies, PTL DEF Spec
<1> QED
  BY <1>1, <1>2, NextContract, PTL DEF Spec, Contract!Spec, KeepsContract
=============================================================================
