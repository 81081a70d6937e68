--------------------------- MODULE ChannelManager ---------------------------
(***************************************************************************)
(* The channel pool of the RabbitMQ client library: class ChannelManager   *)
(* of libs/rabbitmq-client-ts/src/client/channel-manager.ts.               *)
(*                                                                         *)
(* JavaScript runs one segment of code between two awaits without          *)
(* interruption, so an action is such a segment: a borrow that finds the   *)
(* pool empty is StartInit, one ChannelCreated per answered createChannel, *)
(* and FinishBorrow after the last of them, and any other call or callback *)
(* may run between two of these.  Only FinishBorrow is a continuation that *)
(* is already queued when the action before it ends: until it has run the  *)
(* event loop takes no event from the network (NothingQueued), but other   *)
(* continuations may run first.                                            *)
(*                                                                         *)
(* pool is a bag of channels: how often each one is in the array.  The     *)
(* array's order is left out and a pop takes any channel, so the last one, *)
(* which the code takes, is among those explored.                          *)
(*                                                                         *)
(* A member of Channels stands for a channel object as long as somebody    *)
(* refers to it; a closed one that nobody refers to is free to stand for   *)
(* the next object that createChannel makes.                               *)
(***************************************************************************)
EXTENDS Integers, FiniteSets, Functions

CONSTANTS Channels,      \* channel objects alive at one time
          Callers,       \* asynchronous calls that use the pool
          MaxPoolSize,   \* constructor argument maxPoolSize
          NoChannel,     \* the absence of a channel (undefined)
          MaxErrors      \* bound: channel errors in a behaviour

ASSUME PoolAssumption ==
    /\ IsFiniteSet(Channels) /\ IsFiniteSet(Callers)
    /\ MaxPoolSize \in Nat \ {0}
    /\ MaxErrors \in Nat
    /\ NoChannel \notin Channels

VARIABLES
    pool,        \* this.pool: how often each channel is in the array
    status,      \* of each channel: "open", "closing" (close sent), "closed"
    pc,          \* where each caller's borrow stands
    made,        \* channels a caller's initializePool has created so far
    loan,        \* the channel a caller has borrowed and not given back
    recreating,  \* calls of recreateAndPushChannel awaiting createChannel
    closer,      \* the channel whose close closeAllChannels is awaiting
    connected,   \* connectionManager.getConnection() returns a live connection
    errors       \* history: channel errors so far (bounded by MaxErrors)

vars == <<pool, status, pc, made, loan, recreating, closer, connected, errors>>

Init ==
    /\ pool = [ch \in Channels |-> 0]
    /\ status = [ch \in Channels |-> "closed"]
    /\ pc = [c \in Callers |-> "idle"]
    /\ made = [c \in Callers |-> 0]
    /\ loan = [c \in Callers |-> NoChannel]
    /\ recreating = 0
    /\ closer = NoChannel
    /\ connected = TRUE
    /\ errors = 0

-----------------------------------------------------------------------------
(* The array.                                                              *)

Pooled == {ch \in Channels : pool[ch] > 0}

PoolSize == SumFunction(pool)

Push(ch) == pool' = [pool EXCEPT ![ch] = @ + 1]

(* Mutant: the channel is read but stays in the array.                     *)
PopPeeks(ch) == ch \in Pooled /\ UNCHANGED pool

Pop(ch) == /\ ch \in Pooled
           /\ pool' = [pool EXCEPT ![ch] = @ - 1]

(* A channel object nobody refers to: what createChannel may return.       *)
Fresh == {ch \in Channels : /\ status[ch] = "closed"
                            /\ pool[ch] = 0
                            /\ closer # ch
                            /\ \A c \in Callers : loan[c] # ch}

-----------------------------------------------------------------------------
(* borrowChannel and initializePool.                                       *)

(* The pool is not empty: pop and return without an await.                 *)
Borrow(c) ==
    /\ pc[c] = "idle"
    /\ \E ch \in Channels : /\ Pop(ch)
                            /\ loan' = [loan EXCEPT ![c] = ch]
    /\ pc' = [pc EXCEPT ![c] = "holding"]
    /\ UNCHANGED <<status, made, recreating, closer, connected, errors>>

(* Mutant: the pool is topped up whenever it is below its limit.           *)
StartInitEarly(c) ==
    /\ pc[c] = "idle"
    /\ PoolSize < MaxPoolSize
    /\ connected
    /\ pc' = [pc EXCEPT ![c] = "creating"]
    /\ made' = [made EXCEPT ![c] = 0]
    /\ UNCHANGED <<pool, status, loan, recreating, closer, connected, errors>>

(* The pool is empty: initializePool takes the connection and asks for its *)
(* first channel.  Without a connection getConnection throws, the borrow   *)
(* rejects and nothing changes.                                            *)
StartInit(c) ==
    /\ pc[c] = "idle"
    /\ Pooled = {}
    /\ connected
    /\ pc' = [pc EXCEPT ![c] = "creating"]
    /\ made' = [made EXCEPT ![c] = 0]
    /\ UNCHANGED <<pool, status, loan, recreating, closer, connected, errors>>

(* Mutants: one turn too many; a loop index that never advances.           *)
ChannelCreatedOneMore(c) ==
    /\ pc[c] = "creating"
    /\ \E ch \in Fresh : status' = [status EXCEPT ![ch] = "open"] /\ Push(ch)
    /\ made' = [made EXCEPT ![c] = @ + 1]
    /\ pc' = [pc EXCEPT ![c] = IF made[c] < MaxPoolSize THEN "creating" ELSE "popping"]
    /\ UNCHANGED <<loan, recreating, closer, connected, errors>>

ChannelCreatedForever(c) ==
    /\ pc[c] = "creating"
    /\ \E ch \in Fresh : status' = [status EXCEPT ![ch] = "open"] /\ Push(ch)
    /\ UNCHANGED <<pc, made, loan, recreating, closer, connected, errors>>

(* createChannel answered: push, and go round the loop.                    *)
ChannelCreated(c) ==
    /\ pc[c] = "creating"
    /\ \E ch \in Fresh : /\ status' = [status EXCEPT ![ch] = "open"]
                         /\ Push(ch)
    /\ made' = [made EXCEPT ![c] = @ + 1]
    /\ pc' = [pc EXCEPT ![c] =
                IF made[c] + 1 < MaxPoolSize THEN "creating" ELSE "popping"]
    /\ UNCHANGED <<loan, recreating, closer, connected, errors>>

(* createChannel rejected: initializePool and the borrow reject; the       *)
(* channels pushed so far stay in the pool.                                *)
CreateFailed(c) ==
    /\ pc[c] = "creating"
    /\ pc' = [pc EXCEPT ![c] = "idle"]
    /\ UNCHANGED <<pool, status, made, loan, recreating, closer, connected,
                   errors>>

(* The continuation of borrowChannel after initializePool: the second pop. *)
(* If others have emptied the pool meanwhile it returns undefined.         *)
FinishBorrow(c) ==
    /\ pc[c] = "popping"
    /\ \/ /\ \E ch \in Channels : /\ Pop(ch)
                                  /\ loan' = [loan EXCEPT ![c] = ch]
          /\ pc' = [pc EXCEPT ![c] = "holding"]
       \/ /\ Pooled = {}
          /\ pc' = [pc EXCEPT ![c] = "idle"]
          /\ UNCHANGED <<pool, loan>>
    /\ UNCHANGED <<status, made, recreating, closer, connected, errors>>

-----------------------------------------------------------------------------
(* returnChannel, and the caller that never calls it.                      *)

(* channel.close(): on an open channel the close is sent; on a closed one  *)
(* the promise rejects and the rejection is logged.                        *)
Close(ch) ==
    status' = [status EXCEPT ![ch] = IF @ = "open" THEN "closing" ELSE @]

(* Mutant: a producer's channel is closed, and pushed all the same.        *)
ReturnBoth(c, producer) ==
    /\ pc[c] = "holding"
    /\ IF PoolSize < MaxPoolSize THEN Push(loan[c]) ELSE UNCHANGED pool
    /\ IF producer THEN Close(loan[c]) ELSE UNCHANGED status
    /\ pc' = [pc EXCEPT ![c] = "idle"]
    /\ loan' = [loan EXCEPT ![c] = NoChannel]
    /\ UNCHANGED <<made, recreating, closer, connected, errors>>

(* The test channel?.connection is true of every channel object, closed    *)
(* ones included, so only the size and the producer flag decide.           *)
Return(c, producer) ==
    /\ pc[c] = "holding"
    /\ IF PoolSize < MaxPoolSize /\ ~producer
         THEN Push(loan[c]) /\ UNCHANGED status
         ELSE Close(loan[c]) /\ UNCHANGED pool
    /\ pc' = [pc EXCEPT ![c] = "idle"]
    /\ loan' = [loan EXCEPT ![c] = NoChannel]
    /\ UNCHANGED <<made, recreating, closer, connected, errors>>

(* setupQueue throws when one of its requests on the channel is rejected,  *)
(* without giving the channel back.  A request is rejected only on a       *)
(* channel that is closed.                                                 *)
Drop(c) ==
    /\ pc[c] = "holding"
    /\ status[loan[c]] = "closed"
    /\ pc' = [pc EXCEPT ![c] = "idle"]
    /\ loan' = [loan EXCEPT ![c] = NoChannel]
    /\ UNCHANGED <<pool, status, made, recreating, closer, connected, errors>>

-----------------------------------------------------------------------------
(* Channel and connection events.                                          *)

NothingQueued == \A c \in Callers : pc[c] # "popping"

(* The server closes a channel with an error: the 'error' listener filters *)
(* it out of the pool and asks for another one.                            *)
ChannelErrored(ch) ==
    /\ NothingQueued
    /\ status[ch] = "open"
    /\ errors < MaxErrors
    /\ errors' = errors + 1
    /\ status' = [status EXCEPT ![ch] = "closed"]
    /\ pool' = [pool EXCEPT ![ch] = 0]
    /\ recreating' = recreating + 1
    /\ UNCHANGED <<pc, made, loan, closer, connected>>

(* Mutant: the replacement is created but never pushed.                    *)
RecreatedLost ==
    /\ recreating > 0
    /\ recreating' = recreating - 1
    /\ \E ch \in Fresh : status' = [status EXCEPT ![ch] = "open"]
    /\ UNCHANGED <<pool, pc, made, loan, closer, connected, errors>>

(* recreateAndPushChannel pushes whatever the pool's size is by then.      *)
Recreated ==
    /\ recreating > 0
    /\ recreating' = recreating - 1
    /\ \E ch \in Fresh : /\ status' = [status EXCEPT ![ch] = "open"]
                         /\ Push(ch)
    /\ UNCHANGED <<pc, made, loan, closer, connected, errors>>

RecreateFailed ==
    /\ recreating > 0
    /\ recreating' = recreating - 1
    /\ UNCHANGED <<pool, status, pc, made, loan, closer, connected, errors>>

(* The server confirms a close.                                            *)
CloseConfirmed(ch) ==
    /\ NothingQueued
    /\ status[ch] = "closing"
    /\ status' = [status EXCEPT ![ch] = "closed"]
    /\ UNCHANGED <<pool, pc, made, loan, recreating, closer, connected, errors>>

(* The connection ends: its channels emit 'close', not 'error', so nothing *)
(* leaves the pool; requests for channels are rejected; a close that was   *)
(* being awaited never settles, which ends closeAllChannels.               *)
ConnectionLost ==
    /\ NothingQueued
    /\ connected
    /\ connected' = FALSE
    /\ status' = [ch \in Channels |-> "closed"]
    /\ pc' = [c \in Callers |-> IF pc[c] = "creating" THEN "idle" ELSE pc[c]]
    /\ recreating' = 0
    /\ closer' = NoChannel
    /\ UNCHANGED <<pool, made, loan, errors>>

Reconnected ==
    /\ NothingQueued
    /\ ~connected
    /\ connected' = TRUE
    /\ UNCHANGED <<pool, status, pc, made, loan, recreating, closer, errors>>

-----------------------------------------------------------------------------
(* closeAllChannels.                                                       *)

(* One turn of its loop.  Closing a closed channel rejects and ends it.    *)
CloseTurn ==
    \E ch \in Channels :
        /\ Pop(ch)
        /\ Close(ch)
        /\ closer' = IF status[ch] = "open" THEN ch ELSE NoChannel

CloseAll ==
    /\ closer = NoChannel
    /\ CloseTurn
    /\ UNCHANGED <<pc, made, loan, recreating, connected, errors>>

(* The awaited close has settled: another turn, or the pool is empty.      *)
CloseAllResumes ==
    /\ closer \in Channels
    /\ status[closer] = "closed"
    /\ \/ CloseTurn
       \/ /\ Pooled = {}
          /\ closer' = NoChannel
          /\ UNCHANGED <<pool, status>>
    /\ UNCHANGED <<pc, made, loan, recreating, connected, errors>>

-----------------------------------------------------------------------------
CallerStep(c) ==
    \/ Borrow(c)
    \/ StartInit(c)
    \/ ChannelCreated(c)
    \/ CreateFailed(c)
    \/ FinishBorrow(c)
    \/ \E producer \in BOOLEAN : Return(c, producer)
    \/ Drop(c)

ChannelStep(ch) == ChannelErrored(ch) \/ CloseConfirmed(ch)

Next ==
    \/ \E c \in Callers : CallerStep(c)
    \/ \E ch \in Channels : ChannelStep(ch)
    \/ Recreated
    \/ RecreateFailed
    \/ ConnectionLost
    \/ Reconnected
    \/ CloseAll
    \/ CloseAllResumes

Spec == Init /\ [][Next]_vars

(* The server answers every request for a channel, and the event loop runs *)
(* every continuation that is ready.                                       *)
Fairness ==
    \A c \in Callers : WF_vars(ChannelCreated(c) \/ CreateFailed(c) \/ FinishBorrow(c))

FairSpec == Spec /\ Fairness
-----------------------------------------------------------------------------
TypeOK ==
    /\ pool \in [Channels -> Nat]
    /\ status \in [Channels -> {"open", "closing", "closed"}]
    /\ pc \in [Callers -> {"idle", "creating", "popping", "holding"}]
    /\ made \in [Callers -> 0..MaxPoolSize]
    /\ loan \in [Callers -> Channels \cup {NoChannel}]
    /\ recreating \in Nat
    /\ closer \in Channels \cup {NoChannel}
    /\ connected \in BOOLEAN
    /\ errors \in 0..MaxErrors

Lent == {ch \in Channels : \E c \in Callers : loan[c] = ch}

(* A channel is in the pool at most once, never in the pool and lent at    *)
(* once, and never lent to two callers: two calls that share a channel     *)
(* would consume, cancel and close under each other's feet.                *)
ExclusiveUse ==
    /\ \A ch \in Channels : pool[ch] <= 1
    /\ Pooled \cap Lent = {}
    /\ \A c, d \in Callers : loan[c] = loan[d] /\ loan[c] # NoChannel => c = d

(* A channel whose close has been sent (a producer's on return, a surplus  *)
(* one, one swept by closeAllChannels) is out of everybody's reach: it is  *)
(* neither in the pool nor lent, so no later borrow can hand it out.       *)
CloseIsFinal ==
    \A ch \in Channels : status[ch] = "closing" => ch \notin Pooled \cup Lent

(* No channel leaks: every open channel is in the pool or lent to a caller *)
(* that will give it back, whatever failed on the way.                     *)
NoLeakedChannel ==
    \A ch \in Channels : status[ch] = "open" => ch \in Pooled \cup Lent

(* Channels that exist or are on order, each counted where it is.          *)
InProgress(c) == CASE pc[c] = "creating" -> MaxPoolSize - made[c]
                   [] pc[c] = "holding" -> 1
                   [] OTHER -> 0

Population == PoolSize + recreating + SumFunction([c \in Callers |-> InProgress(c)])

(* maxPoolSize does not bound the pool: concurrent calls may each fill it, *)
(* and every replacement is pushed without a test.  What does bound it is  *)
(* one full pool per concurrent caller and one channel per channel error.  *)
PopulationBound ==
    Population <= MaxPoolSize * Cardinality(Callers) + errors

Leases == INSTANCE ChannelLeases WITH pooled <- Pooled

(* Whatever interleaves, a channel changes hands only as ChannelLeases     *)
(* says: a caller gets it from the pool, keeps it until the caller itself  *)
(* gives it back or closes it, and what was closed is seen again only as a *)
(* new channel, made for the pool when nobody has a hold of it.            *)
KeepsLeases == Leases!Spec

(* A borrow that must fill the pool first ends: with a channel, with       *)
(* nothing, or rejected; concurrent borrows that pop what it creates       *)
(* cannot keep it going round the loop.                                    *)
BorrowSettles ==
    \A c \in Callers : pc[c] \in {"creating", "popping"} ~>
                           pc[c] \in {"idle", "holding"}

(* returnChannel logs 'Discarding closed or invalid channel.': a closed    *)
(* channel that is given back does not go into the pool.                   *)
ClosedNeverPooled ==
    [][\A ch \in Channels : status[ch] = "closed" /\ ch \in Lent
                                => pool'[ch] <= pool[ch]]_vars

(* The pop after initializePool is written this.pool.pop()!: there is a    *)
(* channel to pop, and the borrow returns it.                              *)
BorrowReturnsChannel ==
    [][\A c \in Callers : pc[c] = "popping" /\ pc'[c] # "popping"
                                => loan'[c] # NoChannel]_vars
=============================================================================
