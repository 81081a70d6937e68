------------------------- MODULE RpcConsumerProofs --------------------------
(***************************************************************************)
(* What rpcConsumer does with the messages it is handed, and with its      *)
(* consumers, proved for every number of messages, channels, calls,        *)
(* retries and restarts.                                                   *)
(***************************************************************************)
EXTENDS RpcConsumer, TLAPS

-----------------------------------------------------------------------------
(* Type correctness.  What the wire may hold is part of it: frames leave   *)
(* from the front, so only these five remainders exist.                    *)
Frames == {<<>>, <<"ack">>, <<"nack">>, <<"reply", "ack">>, <<"reply", "nack">>}

TypeInv == TypeOK /\ wire \in [Messages -> Frames]

LEMMA FramesAreSequences == Frames \subseteq Seq({"reply", "ack", "nack"})
BY DEF Frames

LEMMA FrameTails ==
    ASSUME NEW f \in Frames, f # <<>>
    PROVE  \/ Head(f) = "reply" /\ Tail(f) \in {<<"ack">>, <<"nack">>}
           \/ f \in {<<"ack">>, <<"nack">>} /\ Head(f) # "reply" /\ Tail(f) = <<>>
<1>1. CASE f = <<"ack">>
  BY <1>1
<1>2. CASE f = <<"nack">>
  BY <1>2
<1>3. CASE f = <<"reply", "ack">>
  BY <1>3
<1>4. CASE f = <<"reply", "nack">>
  BY <1>4
<1> QED
  BY <1>1, <1>2, <1>3, <1>4 DEF Frames

LEMMA FramesDiffer ==
    /\ \A f \in {<<"ack">>, <<"nack">>} : f # <<>>
    /\ \A f \in {<<"reply", "ack">>, <<"reply", "nack">>} :
          f # <<>> /\ f \notin {<<"ack">>, <<"nack">>}
OBVIOUS

Counts == [calls : Nat, retried : Nat, restarts : Nat]

LEMMA CountsType ==
    ASSUME counts \in Counts
    PROVE  /\ [counts EXCEPT !.calls = @ + 1] \in Counts
           /\ [counts EXCEPT !.restarts = @ + 1] \in Counts
           /\ \A n : Retried(n) => counts' \in Counts
<1>1. ASSUME NEW n, Retried(n)
      PROVE  counts' \in Counts
  <2>1. n \in Nat
    BY <1>1, ConsumerAssumption DEF Retried, Counts
  <2> QED
    BY <1>1, <2>1 DEF Retried, Counts
<1> QED
  BY <1>1 DEF Counts

(* The calls that the callbacks of a channel start.                        *)
LEMMA RetriesType ==
    ASSUME TypeOK, NEW k \in Channels
    PROVE  RetryOnce(k) \in [Call -> Nat] /\ RetryTwice(k) \in [Call -> Nat]
<1>1. /\ starting \in [Call -> Nat]
      /\ attached[k] \in [1 .. Retry -> Nat]
  BY DEF TypeOK
<1>2. ASSUME NEW c \in Call
      PROVE  /\ c.retry > 0 => attached[k][c.retry] \in Nat
             /\ c.retry < Retry => attached[k][c.retry + 1] \in Nat
  <2>1. c.retry \in 0 .. Retry /\ Retry \in Nat
    BY ConsumerAssumption DEF Call
  <2>2. /\ c.retry > 0 => c.retry \in 1 .. Retry
        /\ c.retry < Retry => c.retry + 1 \in 1 .. Retry
    BY <2>1
  <2> QED
    BY <1>1, <2>2
<1>3. ASSUME NEW c \in Call
      PROVE  starting[c] \in Nat
  BY <1>1
<1>4. RetryOnce(k) \in [Call -> Nat]
  BY <1>2, <1>3 DEF RetryOnce
<1>5. RetryTwice(k) \in [Call -> Nat]
  <2>1. ASSUME NEW c \in Call, c.retried
        PROVE  starting[c] + (IF c.retry > 0 THEN attached[k][c.retry] ELSE 0)
                 + (IF c.retry < Retry THEN attached[k][c.retry + 1] ELSE 0) \in Nat
    BY <1>2, <1>3
  <2> QED
    BY <2>1, <1>3 DEF RetryTwice
<1> QED
  BY <1>4, <1>5

LEMMA StopType ==
    ASSUME TypeInv, NEW K, Stop(K)
    PROVE  /\ chan' \in [Channels -> {"open", "closing", "closed"}]
           /\ attached' \in [Channels -> [1 .. Retry -> Nat]]
           /\ consumers' \in [Channels -> Nat]
           /\ msg' \in [Messages -> {"queued", "held", "acked", "dead"}]
           /\ at' \in [Messages -> Channels]
           /\ wire' \in [Messages -> Frames]
           /\ wire' \in [Messages -> Seq({"reply", "ack", "nack"})]
           /\ answered' \in [Messages -> BOOLEAN]
<1>1. <<>> \in Frames
  BY DEF Frames
<1>2. NoListeners \in [1 .. Retry -> Nat]
  BY DEF NoListeners
<1>3. wire' \in [Messages -> Frames]
  BY <1>1 DEF Stop, Requeue, TypeInv
<1>4. wire' \in [Messages -> Seq({"reply", "ack", "nack"})]
  BY <1>3, FramesAreSequences
<1> QED
  BY <1>2, <1>3, <1>4 DEF Stop, Requeue, TypeInv, TypeOK

(* A call that goes on leaves the calls that await a channel.              *)
LEMMA OneLess ==
    ASSUME starting \in [Call -> Nat], NEW c \in Call, starting[c] > 0,
           starting' = [starting EXCEPT ![c] = @ - 1]
    PROVE  starting' \in [Call -> Nat]
<1>1. starting[c] - 1 \in Nat
  <2>1. starting[c] \in Nat
    OBVIOUS
  <2> QED
    BY <2>1
<1> QED
  BY <1>1

LEMMA CrashType == TypeInv /\ Crash => TypeInv'
<1> SUFFICES ASSUME TypeInv, Crash
             PROVE  TypeInv'
  OBVIOUS
<1>1. NoCalls \in [Call -> Nat]
  BY DEF NoCalls
<1> QED
  BY <1>1, StopType DEF Crash, TypeInv, TypeOK

LEMMA LossType == TypeInv /\ LoseConnection => TypeInv'
<1> SUFFICES ASSUME TypeInv, LoseConnection, ~Crash
             PROVE  TypeInv'
  BY CrashType
<1>1. NoCalls \in [Call -> Nat]
  BY DEF NoCalls
<1>2. Stop(Channels)
  BY DEF LoseConnection
<1>3. /\ state' = "closed" /\ starting' = NoCalls
      /\ pooled' = pooled \cup {k \in Channels : asking[k] # None}
      /\ asking' = [k \in Channels |-> None]
      /\ abandoned' = (abandoned \/ \E k \in Channels : consumers[k] > 0)
      /\ UNCHANGED <<work, heard, counts>>
  BY DEF LoseConnection
<1> QED
  BY <1>1, <1>2, <1>3, StopType DEF TypeInv, TypeOK

LEMMA InitType == Init => TypeInv
<1> SUFFICES ASSUME Init
             PROVE  TypeInv
  OBVIOUS
<1>1. wire \in [Messages -> Frames]
  BY DEF Init, Frames
<1> QED
  BY <1>1, FramesAreSequences, ConsumerAssumption
  DEF Init, TypeInv, TypeOK, NoCalls, NoListeners

LEMMA NextType == TypeInv /\ [Next]_vars => TypeInv'
<1> SUFFICES ASSUME TypeInv, [Next]_vars
             PROVE  TypeInv'
  OBVIOUS
<1> USE DEF TypeInv, TypeOK, setup, messages
<1>1. CASE Serve
  <2>1. Own \in Call
    BY ConsumerAssumption DEF Own, Call
  <2>2. starting' \in [Call -> Nat]
    BY <1>1, <2>1 DEF Serve
  <2>3. counts' \in [calls : Nat, retried : Nat, restarts : Nat]
    BY <1>1, CountsType DEF Serve, Counts
  <2> QED
    BY <1>1, <2>2, <2>3 DEF Serve
<1>2. ASSUME NEW c \in Call, Rejects(c)
      PROVE  TypeInv'
  <2>1. SUFFICES ASSUME ~Crash
                 PROVE  TypeInv'
    BY CrashType
  <2> QED
    BY <1>2, <2>1, OneLess DEF Rejects
<1>3. ASSUME NEW c \in Call, BorrowsNothing(c)
      PROVE  TypeInv'
  BY <1>3, OneLess DEF BorrowsNothing
<1>4. ASSUME NEW c \in Call, NEW k \in Channels, Borrowed(c, k)
      PROVE  TypeInv'
  <2>1. attached' \in [Channels -> [1 .. Retry -> Nat]]
    <3>1. CASE c.retry > 0
      <4>1. c.retry \in 1 .. Retry
        BY <3>1, ConsumerAssumption DEF Call
      <4>2. attached[k] \in [1 .. Retry -> Nat]
        OBVIOUS
      <4>3. [attached[k] EXCEPT ![c.retry] = @ + 1] \in [1 .. Retry -> Nat]
        BY <4>1, <4>2
      <4>4. attached' = [attached EXCEPT ![k] = [attached[k] EXCEPT ![c.retry] = @ + 1]]
        BY <1>4, <3>1 DEF Borrowed
      <4> QED
        BY <4>3, <4>4
    <3>2. CASE ~(c.retry > 0)
      BY <1>4, <3>2 DEF Borrowed
    <3> QED
      BY <3>1, <3>2
  <2>2. starting' \in [Call -> Nat]
    BY <1>4, OneLess DEF Borrowed
  <2> QED
    BY <1>4, <2>1, <2>2 DEF Borrowed
<1>5. ASSUME NEW k \in Channels, ConsumeOk(k)
      PROVE  TypeInv'
  BY <1>5 DEF ConsumeOk
<1>6. ASSUME NEW m \in Messages, NEW k \in Channels, Deliver(m, k)
      PROVE  TypeInv'
  BY <1>6 DEF Deliver
<1>7. ASSUME NEW m \in Messages, NEW k \in Channels, Finish(m, k)
      PROVE  TypeInv'
  <2>1. SUFFICES ASSUME ~Crash
                 PROVE  TypeInv'
    BY CrashType
  <2>2. wire' \in [Messages -> Frames]
    BY <1>7, <2>1 DEF Finish, Frames
  <2> QED
    BY <1>7, <2>1, <2>2, FramesAreSequences DEF Finish
<1>8. ASSUME NEW m \in Messages, NEW k \in Channels, DeliverUnanswerable(m, k)
      PROVE  TypeInv'
  BY <1>8, LossType DEF DeliverUnanswerable
<1>9. ASSUME NEW m \in Messages, BrokerTakes(m)
      PROVE  TypeInv'
  <2>1. wire[m] \in Frames /\ wire[m] # <<>>
    BY <1>9 DEF BrokerTakes
  <2>2. Tail(wire[m]) \in Frames
    BY <2>1, FrameTails DEF Frames
  <2>3. wire' \in [Messages -> Frames]
    BY <1>9, <2>2 DEF BrokerTakes
  <2> QED
    BY <1>9, <2>3, FramesAreSequences DEF BrokerTakes
<1>10. ASSUME NEW k \in Channels, ChannelErrored(k)
       PROVE  TypeInv'
  <2>1. SUFFICES ASSUME ~Crash
                 PROVE  TypeInv'
    BY CrashType
  <2> QED
    <3>1. counts' \in [calls : Nat, retried : Nat, restarts : Nat]
      BY <1>10, <2>1, CountsType DEF ChannelErrored, Counts
    <3>2. starting' \in [Call -> Nat]
      BY <1>10, <2>1, RetriesType DEF ChannelErrored
    <3>3. abandoned' \in BOOLEAN
      BY <1>10, <2>1 DEF ChannelErrored, Abandons
    <3> QED
      BY <1>10, <2>1, <3>1, <3>2, <3>3, StopType DEF ChannelErrored
<1>11. ASSUME NEW k \in Channels, TakenByProducer(k)
       PROVE  TypeInv'
  BY <1>11 DEF TakenByProducer
<1>12. ASSUME NEW k \in Channels, CloseConfirmed(k)
       PROVE  TypeInv'
  <2>1. counts' \in [calls : Nat, retried : Nat, restarts : Nat]
    BY <1>12, CountsType DEF CloseConfirmed, Counts
  <2>2. starting' \in [Call -> Nat]
    BY <1>12, RetriesType DEF CloseConfirmed
  <2>3. abandoned' \in BOOLEAN
    BY <1>12 DEF CloseConfirmed, Abandons
  <2> QED
    BY <1>12, <2>1, <2>2, <2>3, StopType DEF CloseConfirmed
<1>13. CASE ConsumersCancelled
  BY <1>13 DEF ConsumersCancelled
<1>14. CASE ConnectionLost
  BY <1>14, LossType DEF ConnectionLost
<1>15. CASE Reconnected
  BY <1>15 DEF Reconnected
<1>16. CASE Restart
  <2>1. counts' \in [calls : Nat, retried : Nat, restarts : Nat]
    BY <1>16, CountsType DEF Restart, Counts
  <2> QED
    BY <1>16, <2>1 DEF Restart
<1>17. CASE UNCHANGED vars
  BY <1>17 DEF vars
<1> QED
  BY <1>1, <1>2, <1>3, <1>4, <1>5, <1>6, <1>7, <1>8, <1>9, <1>10, <1>11, <1>12,
     <1>13, <1>14, <1>15, <1>16, <1>17
  DEF Next, CallStep, MessageStep, EventStep

(* The variables of rpcConsumer stay in their types.                       *)
THEOREM TypeCorrect == Spec => []TypeOK
<1>1. Spec => []TypeInv
  BY InitType, NextType, PTL DEF Spec
<1>2. TypeInv => TypeOK
  BY DEF TypeInv
<1> QED
  BY <1>1, <1>2, PTL

-----------------------------------------------------------------------------
(* Channels.  A channel on which a consume is in flight is open and not in *)
(* the pool.                                                               *)
ChannelFacts ==
    \A k \in Channels : asking[k] # None => chan[k] = "open" /\ k \notin pooled

LEMMA InitChannels == Init => ChannelFacts
BY DEF Init, ChannelFacts

LEMMA NextChannels == TypeInv /\ ChannelFacts /\ [Next]_vars => ChannelFacts'
<1> SUFFICES ASSUME TypeInv, ChannelFacts, [Next]_vars
             PROVE  ChannelFacts'
  OBVIOUS
<1> USE DEF TypeInv, TypeOK, ChannelFacts, setup
<1>1. CASE Crash
  BY <1>1 DEF Crash
<1>2. CASE LoseConnection
  BY <1>1, <1>2 DEF LoseConnection
<1>3. CASE CallStep
  <2>1. CASE Serve
    BY <2>1 DEF Serve
  <2>2. ASSUME NEW c \in Call, Rejects(c) \/ BorrowsNothing(c)
        PROVE  ChannelFacts'
    BY <1>1, <2>2 DEF Rejects, BorrowsNothing
  <2>3. ASSUME NEW c \in Call, NEW k \in Channels, Borrowed(c, k)
        PROVE  ChannelFacts'
    BY <2>3 DEF Borrowed
  <2>4. ASSUME NEW k \in Channels, ConsumeOk(k)
        PROVE  ChannelFacts'
    BY <2>4 DEF ConsumeOk
  <2> QED
    BY <1>3, <2>1, <2>2, <2>3, <2>4 DEF CallStep
<1>4. CASE MessageStep
  BY <1>1, <1>2, <1>4 DEF MessageStep, Deliver, Finish, DeliverUnanswerable, BrokerTakes
<1>5. CASE EventStep
  <2>1. ASSUME NEW k \in Channels, ChannelErrored(k)
        PROVE  ChannelFacts'
    <3>1. CASE Crash
      BY <1>1, <3>1
    <3>2. CASE ~Crash
      <4>1. /\ chan' = [j \in Channels |-> IF j = k THEN "closed" ELSE chan[j]]
            /\ asking' = [asking EXCEPT ![k] = None]
            /\ pooled' \subseteq pooled \cup {k}
        BY <2>1, <3>2 DEF ChannelErrored, Stop
      <4> QED
        BY <4>1
    <3> QED
      BY <3>1, <3>2
  <2>2. ASSUME NEW k \in Channels, TakenByProducer(k)
        PROVE  ChannelFacts'
    BY <2>2 DEF TakenByProducer
  <2>3. ASSUME NEW k \in Channels, CloseConfirmed(k)
        PROVE  ChannelFacts'
    BY <2>3 DEF CloseConfirmed, Stop
  <2>4. CASE ConsumersCancelled \/ Reconnected \/ Restart
    BY <2>4 DEF ConsumersCancelled, Reconnected, Restart
  <2> QED
    BY <1>2, <1>5, <2>1, <2>2, <2>3, <2>4 DEF EventStep, ConnectionLost
<1>6. CASE UNCHANGED vars
  BY <1>6 DEF vars
<1> QED
  BY <1>3, <1>4, <1>5, <1>6 DEF Next

-----------------------------------------------------------------------------
(* Messages.  The invariant needs to know what the frames on the wire      *)
(* promise, and that only the latest delivery of a message is on a channel *)
(* that is not closed.                                                     *)
WireFacts ==
    \A m \in Messages :
        /\ wire[m] # <<>> => msg[m] = "held"
        /\ wire[m] \in {<<"ack">>, <<"nack">>} => answered[m]

WorkFacts ==
    \A m \in Messages, k \in Channels :
        <<m, k>> \in work /\ chan[k] # "closed" =>
            msg[m] = "held" /\ at[m] = k /\ wire[m] = <<>>

MessageInv == WireFacts /\ WorkFacts /\ SettledMeansAnswered /\ HeldIsWorkedOn

LEMMA InitMessages == Init => MessageInv
BY DEF Init, MessageInv, WireFacts, WorkFacts, SettledMeansAnswered, HeldIsWorkedOn

(* Channels that stop give back what they hold.                            *)
LEMMA StopKeepsMessages ==
    ASSUME TypeInv, MessageInv, NEW K, Stop(K),
           work' = work \/ (work' = {} /\ K = Channels)
    PROVE  MessageInv'
<1> USE DEF TypeInv, TypeOK, MessageInv, Stop, Requeue
<1>1. WireFacts'
  BY DEF WireFacts
<1>2. WorkFacts'
  BY DEF WorkFacts, WireFacts
<1>3. SettledMeansAnswered'
  BY DEF SettledMeansAnswered
<1>4. HeldIsWorkedOn'
  BY DEF HeldIsWorkedOn
<1> QED
  BY <1>1, <1>2, <1>3, <1>4

LEMMA CrashKeepsMessages == TypeInv /\ MessageInv /\ Crash => MessageInv'
BY StopKeepsMessages DEF Crash

LEMMA LossKeepsMessages == TypeInv /\ MessageInv /\ LoseConnection => MessageInv'
BY StopKeepsMessages, CrashKeepsMessages DEF LoseConnection

(* Steps that write nothing and stop no channel.                           *)
LEMMA SetupKeepsMessages ==
    ASSUME TypeInv, MessageInv, UNCHANGED messages,
           chan' \in [Channels -> {"open", "closing", "closed"}],
           \A k \in Channels : /\ chan[k] # "closed" => chan'[k] # "closed"
                               /\ chan[k] = "closed" /\ chan'[k] # "closed" => k \in Fresh
    PROVE  MessageInv'
<1> USE DEF TypeInv, TypeOK, MessageInv, messages
<1>1. WireFacts' /\ SettledMeansAnswered'
  BY DEF WireFacts, SettledMeansAnswered
<1>2. WorkFacts'
  BY DEF WorkFacts, Fresh
<1>3. HeldIsWorkedOn'
  BY DEF HeldIsWorkedOn
<1> QED
  BY <1>1, <1>2, <1>3

LEMMA NextMessages ==
    TypeInv /\ ChannelFacts /\ MessageInv /\ [Next]_vars => MessageInv'
<1> SUFFICES ASSUME TypeInv, ChannelFacts, MessageInv, [Next]_vars
             PROVE  MessageInv'
  OBVIOUS
<1> USE DEF TypeInv, TypeOK
<1>1. CASE Serve
  BY <1>1, SetupKeepsMessages DEF Serve
<1>2. ASSUME NEW c \in Call, Rejects(c)
      PROVE  MessageInv'
  BY <1>2, SetupKeepsMessages, CrashKeepsMessages DEF Rejects
<1>3. ASSUME NEW c \in Call, BorrowsNothing(c)
      PROVE  MessageInv'
  BY <1>3, SetupKeepsMessages DEF BorrowsNothing
<1>4. ASSUME NEW c \in Call, NEW k \in Channels, Borrowed(c, k)
      PROVE  MessageInv'
  <2>1. chan' = [chan EXCEPT ![k] = "open"] /\ (k \in Fresh \/ chan[k] = "open")
    BY <1>4 DEF Borrowed
  <2>2. UNCHANGED messages
    BY <1>4 DEF Borrowed
  <2> QED
    BY <2>1, <2>2, SetupKeepsMessages
<1>5. ASSUME NEW k \in Channels, ConsumeOk(k)
      PROVE  MessageInv'
  <2>1. CASE UNCHANGED chan
    BY <1>5, <2>1, SetupKeepsMessages DEF ConsumeOk
  <2>2. CASE chan' = [chan EXCEPT ![k] = "closing"]
    <3>1. chan[k] = "open"
      BY <1>5 DEF ConsumeOk, ChannelFacts
    <3> QED
      BY <1>5, <2>2, <3>1, SetupKeepsMessages DEF ConsumeOk
  <2> QED
    BY <1>5, <2>1, <2>2 DEF ConsumeOk
<1>6. ASSUME NEW m \in Messages, NEW k \in Channels, Deliver(m, k)
      PROVE  MessageInv'
  <2> USE <1>6 DEF Deliver, MessageInv, setup
  <2>1. WireFacts'
    BY DEF WireFacts
  <2>2. WorkFacts'
    BY DEF WorkFacts, WireFacts
  <2>3. SettledMeansAnswered'
    BY DEF SettledMeansAnswered
  <2>4. HeldIsWorkedOn'
    BY DEF HeldIsWorkedOn
  <2> QED
    BY <2>1, <2>2, <2>3, <2>4
<1>7. ASSUME NEW m \in Messages, NEW k \in Channels, Finish(m, k), ~Crash
      PROVE  MessageInv'
  <2> USE <1>7 DEF Finish, MessageInv, setup
  <2>1. msg[m] = "held" /\ at[m] = k
    BY DEF WorkFacts
  <2>2. wire'[m] # <<>> /\ wire'[m] \notin {<<"ack">>, <<"nack">>}
    <3>1. wire'[m] \in {<<"reply", "ack">>, <<"reply", "nack">>}
      OBVIOUS
    <3> QED
      BY <3>1, FramesDiffer
  <2>3. WireFacts'
    BY <2>1, <2>2 DEF WireFacts
  <2>4. WorkFacts'
    BY <2>1 DEF WorkFacts
  <2>5. SettledMeansAnswered'
    BY DEF SettledMeansAnswered
  <2>6. HeldIsWorkedOn'
    BY <2>1, <2>2 DEF HeldIsWorkedOn
  <2> QED
    BY <2>3, <2>4, <2>5, <2>6
<1>8. ASSUME NEW m \in Messages, NEW k \in Channels, DeliverUnanswerable(m, k)
      PROVE  MessageInv'
  BY <1>8, LossKeepsMessages DEF DeliverUnanswerable
<1>9. ASSUME NEW m \in Messages, BrokerTakes(m)
      PROVE  MessageInv'
  <2> DEFINE f == wire[m]
  <2>1. f \in Frames /\ f # <<>> /\ msg[m] = "held" /\ wire' = [wire EXCEPT ![m] = Tail(f)]
    BY <1>9 DEF BrokerTakes, MessageInv, WireFacts
  <2>2. /\ \A k \in Channels : <<m, k>> \in work => chan[k] = "closed"
        /\ UNCHANGED <<chan, work, at>>
    BY <1>9, <2>1 DEF BrokerTakes, MessageInv, WorkFacts, setup
  <2>3. CASE Head(f) = "reply"
    <3>1. /\ Tail(f) # <<>>
          /\ UNCHANGED msg
          /\ answered' = [answered EXCEPT ![m] = TRUE]
      <4>1. Tail(f) \in {<<"ack">>, <<"nack">>}
        BY <2>1, <2>3, FrameTails
      <4>2. Tail(f) # <<>>
        BY <4>1, FramesDiffer
      <4> QED
        BY <1>9, <2>3, <4>2 DEF BrokerTakes
    <3> USE DEF MessageInv
    <3>2. WireFacts'
      BY <2>1, <3>1 DEF WireFacts
    <3>3. WorkFacts'
      BY <2>1, <2>2, <3>1 DEF WorkFacts
    <3>4. SettledMeansAnswered'
      BY <3>1 DEF SettledMeansAnswered
    <3>5. HeldIsWorkedOn'
      BY <2>1, <2>2, <3>1 DEF HeldIsWorkedOn
    <3> QED
      BY <3>2, <3>3, <3>4, <3>5
  <2>4. CASE Head(f) # "reply"
    <3>1. /\ Tail(f) = <<>>
          /\ answered[m]
          /\ UNCHANGED answered
          /\ \E s \in {"acked", "dead"} : msg' = [msg EXCEPT ![m] = s]
      <4>1. f \in {<<"ack">>, <<"nack">>} /\ Tail(f) = <<>>
        BY <2>1, <2>4, FrameTails
      <4> QED
        BY <1>9, <2>4, <4>1 DEF BrokerTakes, MessageInv, WireFacts
    <3> USE DEF MessageInv
    <3>2. WireFacts'
      BY <2>1, <3>1 DEF WireFacts
    <3>3. WorkFacts'
      BY <2>1, <2>2, <3>1 DEF WorkFacts
    <3>4. SettledMeansAnswered'
      BY <3>1 DEF SettledMeansAnswered
    <3>5. HeldIsWorkedOn'
      BY <2>1, <2>2, <3>1 DEF HeldIsWorkedOn
    <3> QED
      BY <3>2, <3>3, <3>4, <3>5
  <2> QED
    BY <2>3, <2>4
<1>10. ASSUME NEW k \in Channels, ChannelErrored(k)
       PROVE  MessageInv'
  BY <1>10, StopKeepsMessages, CrashKeepsMessages DEF ChannelErrored
<1>11. ASSUME NEW k \in Channels, TakenByProducer(k)
       PROVE  MessageInv'
  BY <1>11, SetupKeepsMessages DEF TakenByProducer
<1>12. ASSUME NEW k \in Channels, CloseConfirmed(k)
       PROVE  MessageInv'
  BY <1>12, StopKeepsMessages DEF CloseConfirmed
<1>13. CASE ConsumersCancelled
  BY <1>13, SetupKeepsMessages DEF ConsumersCancelled
<1>14. CASE ConnectionLost
  BY <1>14, LossKeepsMessages DEF ConnectionLost
<1>15. CASE Reconnected
  BY <1>15, SetupKeepsMessages DEF Reconnected
<1>16. CASE Restart
  BY <1>16, SetupKeepsMessages DEF Restart
<1>17. CASE UNCHANGED vars
  BY <1>17, SetupKeepsMessages DEF vars, messages
<1> QED
  BY <1>1, <1>2, <1>3, <1>4, <1>5, <1>6, <1>7, <1>8, <1>9, <1>10, <1>11, <1>12,
     <1>13, <1>14, <1>15, <1>16, <1>17, CrashKeepsMessages
  DEF Next, CallStep, MessageStep, EventStep

LEMMA MessagesInvariant == Spec => []MessageInv
BY InitType, NextType, InitChannels, NextChannels, InitMessages, NextMessages, PTL
DEF Spec

(* The broker settles no request whose reply it has not received.          *)
THEOREM SettledRequestsAreAnswered == Spec => []SettledMeansAnswered
<1>1. MessageInv => SettledMeansAnswered
  BY DEF MessageInv
<1> QED
  BY <1>1, MessagesInvariant, PTL

(* A message that is handed out is being processed or about to be settled. *)
THEOREM NoMessageIsStuck == Spec => []HeldIsWorkedOn
<1>1. MessageInv => HeldIsWorkedOn
  BY DEF MessageInv
<1> QED
  BY <1>1, MessagesInvariant, PTL

-----------------------------------------------------------------------------
(* Refinement of RequestDelivery.  place is msg and answered is itself, so *)
(* a step maps by what it does to these two: a stop of channels puts back, *)
(* and the frame that the broker takes is an answer or a settlement.       *)
Delivers == Delivery!Next \/ UNCHANGED <<msg, answered>>

LEMMA StopPutsBack == ASSUME TypeInv, NEW K, Stop(K) PROVE Delivers
<1> DEFINE M == {m \in Messages : msg[m] = "held" /\ at[m] \in K}
<1>1. Delivery!PutBack(M)
  BY DEF Stop, Requeue, Delivery!PutBack
<1>2. M \in SUBSET Messages
  OBVIOUS
<1> QED
  BY <1>1, <1>2 DEF Delivers, Delivery!Next

LEMMA CrashPutsBack == TypeInv /\ Crash => Delivers
BY StopPutsBack DEF Crash

LEMMA LossPutsBack == TypeInv /\ LoseConnection => Delivers
BY StopPutsBack, CrashPutsBack DEF LoseConnection

LEMMA NextDelivers == TypeInv /\ MessageInv /\ [Next]_vars => Delivers
<1> SUFFICES ASSUME TypeInv, MessageInv, [Next]_vars
             PROVE  Delivers
  OBVIOUS
<1>1. CASE CallStep
  BY <1>1, CrashPutsBack
  DEF CallStep, Serve, Rejects, BorrowsNothing, Borrowed, ConsumeOk, messages, Delivers
<1>2. CASE MessageStep
  <2>1. ASSUME NEW m \in Messages, NEW k \in Channels, Deliver(m, k)
        PROVE  Delivers
    BY <2>1 DEF Deliver, Delivers, Delivery!Next, Delivery!HandOut
  <2>2. ASSUME NEW m \in Messages, NEW k \in Channels,
               Finish(m, k) \/ DeliverUnanswerable(m, k)
        PROVE  Delivers
    BY <2>2, CrashPutsBack, LossPutsBack DEF Finish, DeliverUnanswerable, Delivers
  <2>3. ASSUME NEW m \in Messages, BrokerTakes(m)
        PROVE  Delivers
    <3>1. wire[m] \in Frames /\ wire[m] # <<>> /\ msg[m] = "held"
      BY <2>3 DEF BrokerTakes, MessageInv, WireFacts, TypeInv
    <3>2. CASE Head(wire[m]) = "reply"
      BY <2>3, <3>1, <3>2 DEF BrokerTakes, Delivers, Delivery!Next, Delivery!Answer
    <3>3. CASE Head(wire[m]) # "reply"
      <4>1. answered[m]
        BY <3>1, <3>3, FrameTails DEF MessageInv, WireFacts
      <4> QED
        BY <2>3, <3>1, <3>3, <4>1
        DEF BrokerTakes, Delivers, Delivery!Next, Delivery!Settle
    <3> QED
      BY <3>2, <3>3
  <2> QED
    BY <1>2, <2>1, <2>2, <2>3 DEF MessageStep
<1>3. CASE EventStep
  <2>1. ASSUME NEW k \in Channels, ChannelErrored(k) \/ CloseConfirmed(k)
        PROVE  Delivers
    BY <2>1, CrashPutsBack, StopPutsBack DEF ChannelErrored, CloseConfirmed
  <2>2. ASSUME NEW k \in Channels, TakenByProducer(k)
        PROVE  Delivers
    BY <2>2 DEF TakenByProducer, messages, Delivers
  <2>3. CASE ConsumersCancelled \/ Reconnected \/ Restart
    BY <2>3 DEF ConsumersCancelled, Reconnected, Restart, messages, Delivers
  <2> QED
    BY <1>3, <2>1, <2>2, <2>3, LossPutsBack DEF EventStep, ConnectionLost
<1>4. CASE UNCHANGED vars
  BY <1>4 DEF vars, Delivers
<1> QED
  BY <1>1, <1>2, <1>3, <1>4 DEF Next

(* rpcConsumer delivers at least once: for all messages, channels, retries *)
(* and restarts, it implements RequestDelivery.                            *)
THEOREM ConsumerKeepsDelivery == Spec => KeepsDelivery
<1>1. Init => Delivery!Init
  BY DEF Init, Delivery!Init
<1>2. Spec => [](TypeInv /\ MessageInv)
  BY InitType, NextType, InitChannels, NextChannels, InitMessages, NextMessages, PTL
  DEF Spec
<1>3. Delivers => [Delivery!Next]_Delivery!vars
  BY DEF Delivers, Delivery!vars
<1> QED
  BY <1>1, <1>2, <1>3, NextDelivers, PTL DEF Spec, Delivery!Spec, KeepsDelivery

-----------------------------------------------------------------------------
(* Consumers.  When a channel stops, each of its listeners has started a   *)
(* retry, and the retries already on their way are still there.            *)
LEMMA RetriesGrow ==
    ASSUME TypeOK, NEW k \in Channels,
           \/ starting' = RetryOnce(k)
           \/ starting' = RetryTwice(k)
    PROVE  /\ \A c \in Call : starting'[c] >= starting[c]
           /\ Listened(k) => \E c \in Call : c.retried /\ starting'[c] > 0
<1>1. /\ starting \in [Call -> Nat]
      /\ attached[k] \in [1 .. Retry -> Nat]
  BY DEF TypeOK
<1>2. ASSUME NEW c \in Call
      PROVE  /\ c.retry > 0 => attached[k][c.retry] \in Nat
             /\ c.retry < Retry => attached[k][c.retry + 1] \in Nat
             /\ starting[c] \in Nat
  <2>1. /\ c.retry > 0 => attached[k][c.retry] \in Nat
        /\ c.retry < Retry => attached[k][c.retry + 1] \in Nat
    BY <1>1, ConsumerAssumption DEF Call
  <2> QED
    BY <1>1, <2>1
<1>3. ASSUME NEW c \in Call
      PROVE  starting'[c] >= starting[c]
  BY <1>2 DEF RetryOnce, RetryTwice
<1>4. ASSUME NEW r \in 1 .. Retry, attached[k][r] > 0
      PROVE  \E c \in Call : c.retried /\ starting'[c] > 0
  <2> DEFINE c == [retry |-> r, retried |-> TRUE]
  <2>1. c \in Call /\ c.retry = r /\ c.retry > 0 /\ c.retried
    BY ConsumerAssumption DEF Call
  <2> HIDE DEF c
  <2>2. starting'[c] >= starting[c] + attached[k][r]
    BY <2>1, <1>2 DEF RetryOnce, RetryTwice
  <2>3. starting[c] \in Nat /\ attached[k][r] \in Nat
    BY <2>1, <1>2
  <2>4. starting'[c] > 0
    <3>1. starting'[c] \in Nat
      BY <2>1, RetriesType
    <3> QED
      BY <3>1, <2>2, <2>3, <1>4
  <2> QED
    BY <2>1, <2>4
<1> QED
  BY <1>3, <1>4 DEF Listened

(* A channel that stops is replaced by its listeners' retries, or marked.  *)
LEMMA StopIsHeard ==
    ASSUME TypeOK, DeafOnlyWhenAbandoned, NEW k \in Channels, Stop({k}), Abandons(k),
           starting' = RetryOnce(k) \/ starting' = RetryTwice(k),
           asking[k] # None => ~asking[k].retried,
           \A j \in Channels \ {k} : asking'[j] = asking[j],
           UNCHANGED heard
    PROVE  DeafOnlyWhenAbandoned'
<1> SUFFICES ASSUME heard', ~abandoned'
             PROVE  Hearing'
  BY DEF DeafOnlyWhenAbandoned
<1>1. Hearing /\ (consumers[k] > 0 => Listened(k))
  BY DEF DeafOnlyWhenAbandoned, Abandons
<1>2. CASE \E c \in Call : c.retried /\ starting[c] > 0
  <2>1. PICK c \in Call : c.retried /\ starting[c] > 0
    BY <1>2
  <2>2. starting'[c] >= starting[c] /\ starting[c] \in Nat /\ starting'[c] \in Nat
    BY RetriesGrow, RetriesType DEF TypeOK
  <2> QED
    BY <2>1, <2>2 DEF Hearing
<1>3. CASE consumers[k] > 0
  BY <1>1, <1>3, RetriesGrow DEF Hearing
<1>4. ASSUME NEW j \in Channels, j # k, chan[j] # "closed",
             consumers[j] > 0 \/ (asking[j] # None /\ asking[j].retried)
      PROVE  Hearing'
  <2>1. chan'[j] = chan[j] /\ consumers'[j] = consumers[j] /\ asking'[j] = asking[j]
    BY <1>4 DEF Stop, TypeOK
  <2> QED
    BY <1>4, <2>1 DEF Hearing
<1> QED
  BY <1>1, <1>2, <1>3, <1>4 DEF Hearing

LEMMA InitHeard == Init => DeafOnlyWhenAbandoned
BY DEF Init, DeafOnlyWhenAbandoned

LEMMA NextHeard ==
    TypeInv /\ ChannelFacts /\ DeafOnlyWhenAbandoned /\ [Next]_vars
        => DeafOnlyWhenAbandoned'
<1> SUFFICES ASSUME TypeInv, ChannelFacts, DeafOnlyWhenAbandoned, [Next]_vars
             PROVE  DeafOnlyWhenAbandoned'
  OBVIOUS
<1> USE DEF TypeInv, setup
<1>1. CASE Crash
  BY <1>1 DEF Crash, DeafOnlyWhenAbandoned
<1>2. CASE LoseConnection
  <2>1. SUFFICES ASSUME ~Crash, heard', ~abandoned'
                 PROVE  FALSE
    BY <1>1 DEF DeafOnlyWhenAbandoned
  <2>2. /\ \A k \in Channels : asking[k] # None => ~asking[k].retried
        /\ \A c \in Call : c.retried => starting[c] = 0
        /\ abandoned' = (abandoned \/ \E k \in Channels : consumers[k] > 0)
        /\ heard
    BY <1>2, <2>1 DEF LoseConnection
  <2>3. ~abandoned /\ \A k \in Channels : ~(consumers[k] > 0)
    BY <2>1, <2>2, Zenon
  <2>4. Hearing
    BY <2>2, <2>3 DEF DeafOnlyWhenAbandoned
  <2>5. \A c \in Call : ~(c.retried /\ starting[c] > 0)
    BY <2>2
  <2> QED
    BY <2>2, <2>3, <2>4, <2>5, Zenon DEF Hearing
<1>3. CASE CallStep
  <2>1. CASE Serve
    <3>1. \A c \in Call : c.retried => starting'[c] = starting[c]
      BY <2>1 DEF Serve, Own, TypeOK
    <3> QED
      BY <2>1, <3>1 DEF Serve, DeafOnlyWhenAbandoned, Hearing
  <2>2. ASSUME NEW c \in Call, Rejects(c), ~Crash
        PROVE  DeafOnlyWhenAbandoned'
    <3>1. \A d \in Call : d.retried => starting'[d] = starting[d]
      BY <2>2 DEF Rejects, TypeOK
    <3> QED
      <4>1. UNCHANGED <<chan, asking, consumers, heard, abandoned>>
        BY <2>2 DEF Rejects
      <4> QED
        BY <3>1, <4>1 DEF DeafOnlyWhenAbandoned, Hearing
  <2>3. ASSUME NEW c \in Call, BorrowsNothing(c)
        PROVE  DeafOnlyWhenAbandoned'
    BY <2>3 DEF BorrowsNothing, DeafOnlyWhenAbandoned
  <2>4. ASSUME NEW c \in Call, NEW k \in Channels, Borrowed(c, k), Hearing
        PROVE  Hearing'
    <3>1. /\ \A d \in Call : d # c => starting'[d] = starting[d]
          /\ \A j \in Channels : chan[j] # "closed" => chan'[j] # "closed"
          /\ chan'[k] # "closed"
          /\ asking'[k] = c
          /\ \A j \in Channels : j # k => asking'[j] = asking[j]
          /\ UNCHANGED consumers
      BY <2>4 DEF Borrowed, TypeOK
    <3>2. asking[k] = None
      BY <2>4 DEF Borrowed, ChannelFacts, Fresh
    <3>3. c # None
      BY ConsumerAssumption
    <3>4. CASE c.retried
      BY <3>1, <3>3, <3>4 DEF Hearing
    <3>5. CASE ~c.retried
      BY <2>4, <3>1, <3>2, <3>5 DEF Hearing
    <3> QED
      BY <3>4, <3>5
  <2>5. ASSUME NEW k \in Channels, ConsumeOk(k)
        PROVE  Hearing'
    <3>1. chan'[k] # "closed"
      BY <2>5 DEF ConsumeOk, ChannelFacts, TypeOK
    <3>2. consumers'[k] > 0
      BY <2>5 DEF ConsumeOk, TypeOK
    <3> QED
      BY <3>1, <3>2 DEF Hearing
  <2> QED
    BY <1>1, <1>3, <2>1, <2>2, <2>3, <2>4, <2>5
    DEF CallStep, DeafOnlyWhenAbandoned, Borrowed
<1>4. CASE MessageStep
  BY <1>1, <1>2, <1>4
  DEF MessageStep, Deliver, Finish, DeliverUnanswerable, BrokerTakes,
      DeafOnlyWhenAbandoned, Hearing
<1>5. CASE EventStep
  <2>1. ASSUME NEW k \in Channels, ChannelErrored(k), ~Crash
        PROVE  DeafOnlyWhenAbandoned'
    <3>1. \A j \in Channels \ {k} : asking'[j] = asking[j]
      BY <2>1 DEF ChannelErrored, TypeOK
    <3> QED
      BY <2>1, <3>1, StopIsHeard DEF ChannelErrored
  <2>2. ASSUME NEW k \in Channels, TakenByProducer(k)
        PROVE  DeafOnlyWhenAbandoned'
    BY <2>2 DEF TakenByProducer, DeafOnlyWhenAbandoned, Hearing, TypeOK
  <2>3. ASSUME NEW k \in Channels, CloseConfirmed(k)
        PROVE  DeafOnlyWhenAbandoned'
    <3>1. asking[k] = None
      BY <2>3 DEF CloseConfirmed, ChannelFacts
    <3> QED
      BY <2>3, <3>1, StopIsHeard DEF CloseConfirmed
  <2>4. CASE ConsumersCancelled
    BY <2>4 DEF ConsumersCancelled, DeafOnlyWhenAbandoned
  <2>5. CASE Reconnected \/ Restart
    BY <2>5 DEF Reconnected, Restart, DeafOnlyWhenAbandoned, Hearing, messages
  <2> QED
    BY <1>1, <1>2, <1>5, <2>1, <2>2, <2>3, <2>4, <2>5 DEF EventStep, ConnectionLost
<1>6. CASE UNCHANGED vars
  BY <1>6 DEF vars, DeafOnlyWhenAbandoned, Hearing
<1> QED
  BY <1>3, <1>4, <1>5, <1>6 DEF Next

(* Whatever happens to its channels, a service goes on hearing requests,   *)
(* or its process ends, as long as the code listens for what happens.      *)
THEOREM ConsumersAreReplaced == Spec => []DeafOnlyWhenAbandoned
BY InitType, NextType, InitChannels, NextChannels, InitHeard, NextHeard, PTL
DEF Spec
=============================================================================
