------------------------ MODULE ChannelManagerProofs ------------------------
(***************************************************************************)
(* Who may touch a channel, proved for every set of channels and callers   *)
(* and every pool size.                                                    *)
(***************************************************************************)
EXTENDS ChannelManager, SumTheorems, TLAPS

(* Between two requests of its loop a caller has channels left to make:    *)
(* what keeps made within 0..MaxPoolSize.                                  *)
LoopGoesOn == \A c \in Callers : pc[c] = "creating" => made[c] < MaxPoolSize

TypeInv == TypeOK /\ LoopGoesOn

LEMMA InitType == Init => TypeInv
BY PoolAssumption DEF Init, TypeInv, TypeOK, LoopGoesOn

LEMMA NextType == TypeInv /\ [Next]_vars => TypeInv'
<1> SUFFICES ASSUME TypeInv, [Next]_vars
             PROVE  TypeInv'
  OBVIOUS
<1> USE PoolAssumption DEF TypeInv, TypeOK, LoopGoesOn, Pop, Push, Close, Pooled,
                           Fresh
<1>1. ASSUME NEW c \in Callers, CallerStep(c)
      PROVE  TypeInv'
  <2>1. CASE Borrow(c)
    BY <2>1 DEF Borrow
  <2>2. CASE StartInit(c)
    BY <2>2 DEF StartInit
  <2>3. CASE ChannelCreated(c)
    BY <2>3 DEF ChannelCreated
  <2>4. CASE CreateFailed(c)
    BY <2>4 DEF CreateFailed
  <2>5. CASE FinishBorrow(c)
    BY <2>5 DEF FinishBorrow
  <2>6. ASSUME NEW producer \in BOOLEAN, Return(c, producer)
        PROVE  TypeInv'
    <3>1. CASE PoolSize < MaxPoolSize /\ ~producer
      BY <2>6, <3>1 DEF Return
    <3>2. CASE ~(PoolSize < MaxPoolSize /\ ~producer)
      BY <2>6, <3>2 DEF Return
    <3> QED
      BY <3>1, <3>2
  <2>7. CASE Drop(c)
    BY <2>7 DEF Drop
  <2> QED
    BY <1>1, <2>1, <2>2, <2>3, <2>4, <2>5, <2>6, <2>7 DEF CallerStep
<1>2. ASSUME NEW ch \in Channels, ChannelStep(ch)
      PROVE  TypeInv'
  BY <1>2 DEF ChannelStep, ChannelErrored, CloseConfirmed
<1>3. CASE Recreated
  BY <1>3 DEF Recreated
<1>4. CASE RecreateFailed
  BY <1>4 DEF RecreateFailed
<1>5. CASE ConnectionLost
  BY <1>5 DEF ConnectionLost
<1>6. CASE Reconnected
  BY <1>6 DEF Reconnected
<1>7. CASE CloseAll
  BY <1>7 DEF CloseAll, CloseTurn
<1>8. CASE CloseAllResumes
  BY <1>8 DEF CloseAllResumes, CloseTurn
<1>9. CASE UNCHANGED vars
  BY <1>9 DEF vars
<1> QED
  BY <1>1, <1>2, <1>3, <1>4, <1>5, <1>6, <1>7, <1>8, <1>9 DEF Next

(* Every variable keeps its type in every reachable state; in particular   *)
(* no caller's initializePool makes more than maxPoolSize channels.        *)
THEOREM TypeCorrect == Spec => []TypeOK
<1>1. TypeInv => TypeOK
  BY DEF TypeInv
<1> QED
  BY InitType, NextType, <1>1, PTL DEF Spec

-----------------------------------------------------------------------------
(* A caller holds a channel exactly while its pc says so, which ties the   *)
(* guards of Return and Drop to loan; the three properties support each    *)
(* other.  CloseIsFinal makes a channel that becomes closed and is reused  *)
(* fresh; ExclusiveUse makes a returned channel absent from the pool.      *)
HolderHasLoan == \A c \in Callers : pc[c] = "holding" <=> loan[c] # NoChannel

Ownership == HolderHasLoan /\ ExclusiveUse /\ CloseIsFinal /\ NoLeakedChannel

LEMMA InitOwnership == Init => Ownership
BY PoolAssumption DEF Init, Ownership, HolderHasLoan, ExclusiveUse, CloseIsFinal,
                      NoLeakedChannel, Pooled, Lent

LEMMA NextOwnership == TypeInv /\ Ownership /\ [Next]_vars => Ownership'
<1> SUFFICES ASSUME TypeInv, Ownership, [Next]_vars
             PROVE  Ownership'
  OBVIOUS
<1> USE PoolAssumption DEF TypeInv, TypeOK, Ownership, HolderHasLoan, ExclusiveUse,
        CloseIsFinal, NoLeakedChannel, Pooled, Lent, Pop, Push, Close, Fresh
<1>1. ASSUME NEW c \in Callers, CallerStep(c)
      PROVE  Ownership'
  <2>1. CASE Borrow(c)
    BY <2>1 DEF Borrow
  <2>2. CASE StartInit(c)
    BY <2>2 DEF StartInit
  <2>3. CASE ChannelCreated(c)
    BY <2>3 DEF ChannelCreated
  <2>4. CASE CreateFailed(c)
    BY <2>4 DEF CreateFailed
  <2>5. CASE FinishBorrow(c)
    BY <2>5 DEF FinishBorrow
  <2>6. ASSUME NEW producer \in BOOLEAN, Return(c, producer)
        PROVE  Ownership'
    <3>1. CASE PoolSize < MaxPoolSize /\ ~producer
      BY <2>6, <3>1 DEF Return
    <3>2. CASE ~(PoolSize < MaxPoolSize /\ ~producer)
      BY <2>6, <3>2 DEF Return
    <3> QED
      BY <3>1, <3>2
  <2>7. CASE Drop(c)
    BY <2>7 DEF Drop
  <2> QED
    BY <1>1, <2>1, <2>2, <2>3, <2>4, <2>5, <2>6, <2>7 DEF CallerStep
<1>2. ASSUME NEW ch \in Channels, ChannelStep(ch)
      PROVE  Ownership'
  BY <1>2 DEF ChannelStep, ChannelErrored, CloseConfirmed
<1>3. CASE Recreated
  BY <1>3 DEF Recreated
<1>4. CASE RecreateFailed
  BY <1>4 DEF RecreateFailed
<1>5. CASE ConnectionLost
  BY <1>5 DEF ConnectionLost
<1>6. CASE Reconnected
  BY <1>6 DEF Reconnected
<1>7. CASE CloseAll
  BY <1>7 DEF CloseAll, CloseTurn
<1>8. CASE CloseAllResumes
  BY <1>8 DEF CloseAllResumes, CloseTurn
<1>9. CASE UNCHANGED vars
  BY <1>9 DEF vars
<1> QED
  BY <1>1, <1>2, <1>3, <1>4, <1>5, <1>6, <1>7, <1>8, <1>9 DEF Next

LEMMA OwnershipHolds == Spec => []Ownership
BY InitType, InitOwnership, NextType, NextOwnership, PTL DEF Spec

(* No two parties ever share a channel: not two callers, not a caller and  *)
(* the pool, and the pool never lists one twice.                           *)
THEOREM ChannelsAreExclusive == Spec => []ExclusiveUse
<1>1. Ownership => ExclusiveUse
  BY DEF Ownership
<1> QED
  BY OwnershipHolds, <1>1, PTL

(* A channel that is being closed is never pooled or lent again.           *)
THEOREM ClosedChannelsStayOut == Spec => []CloseIsFinal
<1>1. Ownership => CloseIsFinal
  BY DEF Ownership
<1> QED
  BY OwnershipHolds, <1>1, PTL

(* Every open channel is in the pool or lent: none is lost to a failed     *)
(* call, a replacement or a surplus return.                                *)
THEOREM ChannelsDoNotLeak == Spec => []NoLeakedChannel
<1>1. Ownership => NoLeakedChannel
  BY DEF Ownership
<1> QED
  BY OwnershipHolds, <1>1, PTL

-----------------------------------------------------------------------------
(* The array as a set of channels on loan.  Ownership is what the guards   *)
(* of ChannelLeases ask for: a borrower has nothing yet, and a returned    *)
(* channel is not in the array, so that taking it out removes it.          *)

LEMMA PopTakes ==
    ASSUME TypeInv, Ownership, NEW ch \in Channels, Pop(ch)
    PROVE  ch \in Pooled /\ Pooled' = Pooled \ {ch}
BY DEF TypeInv, TypeOK, Ownership, ExclusiveUse, Pop, Pooled

LEMMA PushAdds ==
    ASSUME TypeInv, NEW ch \in Channels, Push(ch)
    PROVE  Pooled' = Pooled \cup {ch}
BY DEF TypeInv, TypeOK, Push, Pooled

(* A fresh channel object may be made.                                     *)
LEMMA FreshIsMade ==
    ASSUME TypeInv, NEW ch \in Fresh, Push(ch),
           status' = [status EXCEPT ![ch] = "open"], UNCHANGED loan
    PROVE  Leases!Make(ch)
BY PushAdds DEF Fresh, Pooled, Leases!Make, Leases!Lent

LEMMA PopLends ==
    ASSUME TypeInv, Ownership, NEW c \in Callers, pc[c] # "holding",
           NEW ch \in Channels, Pop(ch), loan' = [loan EXCEPT ![c] = ch],
           UNCHANGED status
    PROVE  Leases!Lend(ch, c)
BY PopTakes DEF Ownership, HolderHasLoan, Leases!Lend

LEMMA TurnSweeps ==
    ASSUME TypeInv, Ownership, CloseTurn, UNCHANGED loan
    PROVE  \E ch \in Channels : Leases!Sweep(ch)
BY PopTakes DEF CloseTurn, Close, Leases!Sweep, Leases!Closes

LEMMA NextLeases ==
    TypeInv /\ Ownership /\ [Next]_vars => [Leases!Next]_Leases!vars
<1> SUFFICES ASSUME TypeInv, Ownership, [Next]_vars
             PROVE  Leases!Next \/ UNCHANGED Leases!vars
  OBVIOUS
<1> USE DEF Leases!Next, Leases!vars
<1>1. ASSUME NEW c \in Callers, CallerStep(c)
      PROVE  Leases!Next \/ UNCHANGED Leases!vars
  <2>1. CASE Borrow(c)
    BY <2>1, PopLends DEF Borrow
  <2>2. CASE StartInit(c)
    BY <2>2 DEF StartInit, Pooled
  <2>3. CASE ChannelCreated(c)
    BY <2>3, FreshIsMade DEF ChannelCreated, Fresh
  <2>4. CASE CreateFailed(c)
    BY <2>4 DEF CreateFailed, Pooled
  <2>5. CASE FinishBorrow(c)
    BY <2>5, PopLends DEF FinishBorrow, Pooled
  <2>6. ASSUME NEW producer \in BOOLEAN, Return(c, producer)
        PROVE  Leases!Next
    <3>1. loan[c] \in Channels
      BY <2>6 DEF Return, TypeInv, TypeOK, Ownership, HolderHasLoan
    <3>2. CASE PoolSize < MaxPoolSize /\ ~producer
      <4>1. Leases!GiveBack(c)
        BY <2>6, <3>1, <3>2, PushAdds DEF Return, Leases!GiveBack
      <4> QED
        BY <4>1
    <3>3. CASE ~(PoolSize < MaxPoolSize /\ ~producer)
      <4>1. Leases!Retire(c)
        BY <2>6, <3>1, <3>3 DEF Return, Close, Pooled, Leases!Retire, Leases!Closes
      <4> QED
        BY <4>1
    <3> QED
      BY <3>2, <3>3
  <2>7. CASE Drop(c)
    <3>1. loan[c] \in Channels
      BY <2>7 DEF Drop, TypeInv, TypeOK, Ownership, HolderHasLoan
    <3>2. Leases!Retire(c)
      BY <2>7, <3>1 DEF Drop, TypeInv, TypeOK, Pooled, Leases!Retire, Leases!Closes
    <3> QED
      BY <3>2
  <2> QED
    BY <1>1, <2>1, <2>2, <2>3, <2>4, <2>5, <2>6, <2>7 DEF CallerStep
<1>2. ASSUME NEW ch \in Channels, ChannelStep(ch)
      PROVE  Leases!Next
  <2>1. Leases!Close({ch})
    <3>1. status' = [i \in Channels |-> IF i \in {ch} THEN "closed" ELSE status[i]]
      BY <1>2 DEF ChannelStep, ChannelErrored, CloseConfirmed, TypeInv, TypeOK
    <3>2. \E T \in SUBSET {ch} : Pooled' = Pooled \ T
      <4>1. CASE ChannelErrored(ch)
        <5>1. Pooled' = Pooled \ {ch}
          BY <4>1 DEF ChannelErrored, TypeInv, TypeOK, Pooled
        <5> QED
          BY <5>1
      <4>2. CASE CloseConfirmed(ch)
        <5>1. Pooled' = Pooled \ {}
          BY <4>2 DEF CloseConfirmed, Pooled
        <5> QED
          BY <5>1
      <4> QED
        BY <1>2, <4>1, <4>2 DEF ChannelStep
    <3> QED
      BY <1>2, <3>1, <3>2 DEF ChannelStep, ChannelErrored, CloseConfirmed, Leases!Close
  <2> QED
    BY <2>1
<1>3. CASE Recreated
  BY <1>3, FreshIsMade DEF Recreated, Fresh
<1>4. CASE RecreateFailed
  BY <1>4 DEF RecreateFailed, Pooled
<1>5. CASE ConnectionLost
  <2>1. Leases!Close(Channels)
    <3>1. Pooled' = Pooled \ {}
      BY <1>5 DEF ConnectionLost, Pooled
    <3> QED
      BY <1>5, <3>1 DEF ConnectionLost, Leases!Close
  <2> QED
    BY <2>1
<1>6. CASE Reconnected
  BY <1>6 DEF Reconnected, Pooled
<1>7. CASE CloseAll
  BY <1>7, TurnSweeps DEF CloseAll
<1>8. CASE CloseAllResumes
  BY <1>8, TurnSweeps DEF CloseAllResumes, Pooled
<1>9. CASE UNCHANGED vars
  BY <1>9 DEF vars, Pooled
<1> QED
  BY <1>1, <1>2, <1>3, <1>4, <1>5, <1>6, <1>7, <1>8, <1>9 DEF Next

(* The pool implements ChannelLeases: a channel reaches a caller only      *)
(* through the pool, no step of anybody else ends a lease, and a channel   *)
(* in use or on its way out is never made anew.                            *)
THEOREM PoolKeepsLeases == Spec => KeepsLeases
<1>1. Init => Leases!Init
  BY DEF Init, Pooled, Leases!Init
<1> QED
  BY <1>1, InitType, NextType, OwnershipHolds, NextLeases, PTL
     DEF Spec, KeepsLeases, Leases!Spec

(* What a user of the pool wants of it.                                    *)
Leased ==
    /\ loan \in [Callers -> Channels \cup {NoChannel}]
    /\ status \in [Channels -> {"open", "closing", "closed"}]
    /\ Pooled \cap Lent = {}
    /\ \A c, d \in Callers : loan[c] = loan[d] /\ loan[c] # NoChannel => c = d
    /\ CloseIsFinal
    /\ NoLeakedChannel

LEMMA LeasesLast == Leased /\ [Leases!Next]_Leases!vars => Leased'
<1> SUFFICES ASSUME Leased, [Leases!Next]_Leases!vars
             PROVE  Leased'
  OBVIOUS
<1>0. Pooled \subseteq Channels
  BY DEF Pooled
<1> USE <1>0, PoolAssumption DEF Leased, Lent, CloseIsFinal, NoLeakedChannel, Leases!Closes
<1>1. ASSUME NEW ch \in Channels, Leases!Make(ch)
      PROVE  Leased'
  BY <1>1 DEF Leases!Make, Leases!Lent
<1>2. ASSUME NEW ch \in Channels, Leases!Sweep(ch)
      PROVE  Leased'
  BY <1>2 DEF Leases!Sweep
<1>3. ASSUME NEW ch \in Channels, NEW c \in Callers, Leases!Lend(ch, c)
      PROVE  Leased'
  BY <1>3 DEF Leases!Lend
<1>4. ASSUME NEW c \in Callers, Leases!GiveBack(c)
      PROVE  Leased'
  BY <1>4 DEF Leases!GiveBack
<1>5. ASSUME NEW c \in Callers, Leases!Retire(c)
      PROVE  Leased'
  BY <1>5 DEF Leases!Retire
<1>6. ASSUME NEW S \in SUBSET Channels, Leases!Close(S)
      PROVE  Leased'
  BY <1>6 DEF Leases!Close
<1>7. CASE UNCHANGED Leases!vars
  BY <1>7 DEF Leases!vars
<1> QED
  BY <1>1, <1>2, <1>3, <1>4, <1>5, <1>6, <1>7 DEF Leases!Next

(* ChannelLeases is enough for the users of the pool: from its moves alone *)
(* it follows that a channel is in the pool or with one caller, that       *)
(* nobody has one that is being closed, and somebody has every open one.   *)
THEOREM LeasesSuffice == KeepsLeases => []Leased
<1>1. Leases!Init => Leased
  BY PoolAssumption DEF Leases!Init, Leased, Lent, CloseIsFinal, NoLeakedChannel
<1> QED
  BY <1>1, LeasesLast, PTL DEF KeepsLeases, Leases!Spec

-----------------------------------------------------------------------------
(* How many channels there are.  PopulationBound alone is not inductive: a *)
(* borrow that starts to fill the empty pool adds maxPoolSize at once, and *)
(* what keeps it in bounds then is that the replacements on order never    *)
(* outnumber the channel errors.                                           *)
Budget == recreating <= errors /\ PopulationBound

Demand == [c \in Callers |-> InProgress(c)]

Limit == MaxPoolSize * Cardinality(Callers)

LEMMA LimitType == Limit \in Nat
BY PoolAssumption, FS_CardinalityType DEF Limit

(* Facts about functions, to be used of a state and of the next.           *)
LEMMA PoolSum == \A p \in [Channels -> Nat] : SumFunction(p) \in Nat
BY PoolAssumption, SumNatural DEF SumFunction

LEMMA DemandSum ==
    \A d \in [Callers -> 0 .. MaxPoolSize] : SumFunction(d) \in 0 .. Limit
<1> TAKE d \in [Callers -> 0 .. MaxPoolSize]
<1>1. MaxPoolSize \in Nat /\ \A c \in Callers : d[c] \in Nat /\ d[c] <= MaxPoolSize
  BY PoolAssumption
<1>2. SumFunctionOnSet(d, Callers) \in Nat
  BY <1>1, PoolAssumption, SumNatural
<1>3. SumFunctionOnSet(d, Callers) <= Limit
  BY <1>1, PoolAssumption, SumBounded DEF Limit
<1> QED
  BY <1>2, <1>3, LimitType DEF SumFunction

LEMMA DemandType ==
    /\ TypeInv => Demand \in [Callers -> 0 .. MaxPoolSize]
    /\ TypeInv' => Demand' \in [Callers -> 0 .. MaxPoolSize]
BY PoolAssumption DEF TypeInv, TypeOK, Demand, InProgress

LEMMA PopulationIs ==
    /\ Population = SumFunction(pool) + recreating + SumFunction(Demand)
    /\ Population' = SumFunction(pool)' + recreating' + SumFunction(Demand)'
BY DEF Population, PoolSize, Demand

LEMMA SumsAreNatural ==
    /\ TypeInv => SumFunction(pool) \in Nat /\ SumFunction(Demand) \in 0 .. Limit
    /\ TypeInv' => SumFunction(pool)' \in Nat /\ SumFunction(Demand)' \in 0 .. Limit
BY PoolSum, DemandSum, DemandType DEF TypeInv, TypeOK

LEMMA InitBudget == Init => Budget
<1> SUFFICES ASSUME Init
             PROVE  Budget
  OBVIOUS
<1>1. SumFunction(pool) = 0
  BY PoolAssumption, SumOfNone DEF Init
<1>2. SumFunction(Demand) = 0
  BY PoolAssumption, SumOfNone DEF Init, Demand, InProgress
<1> QED
  BY <1>1, <1>2, PopulationIs, LimitType DEF Init, Budget, PopulationBound, Limit

(* What a step does to the pool, and to one caller, shows in the sums.     *)
LEMMA PoolChanges ==
    ASSUME TypeInv, NEW ch \in Channels, NEW v \in Nat,
           pool' = [pool EXCEPT ![ch] = v]
    PROVE  SumFunction(pool)' = SumFunction(pool) - pool[ch] + v
<1>1. \A p \in [Channels -> Int] : \A w \in Int :
          SumFunction([p EXCEPT ![ch] = w]) = SumFunction(p) - p[ch] + w
  <2> TAKE p \in [Channels -> Int]
  <2> TAKE w \in Int
  <2>1. IsFiniteSet(Channels)
    BY PoolAssumption
  <2> QED
    BY <2>1, SumExcept
<1>2. pool \in [Channels -> Int] /\ v \in Int
  BY DEF TypeInv, TypeOK
<1>3. SumFunction([pool EXCEPT ![ch] = v]) = SumFunction(pool) - pool[ch] + v
  BY <1>1, <1>2
<1> QED
  BY <1>3

LEMMA DemandChanges ==
    ASSUME TypeInv, TypeInv', NEW c \in Callers,
           \A d \in Callers \ {c} : pc'[d] = pc[d] /\ made'[d] = made[d]
    PROVE  SumFunction(Demand)' = SumFunction(Demand) - InProgress(c) + InProgress(c)'
<1>1. Demand \in [Callers -> Int] /\ Demand' \in [Callers -> Int]
  BY DemandType DEF Demand
<1>2. \A d \in Callers \ {c} : Demand'[d] = Demand[d]
  BY DEF Demand, InProgress
<1>3. Demand[c] = InProgress(c) /\ Demand'[c] = InProgress(c)'
  BY DEF Demand
<1> QED
  BY <1>1, <1>2, <1>3, PoolAssumption, SumUpdate

LEMMA DemandShrinks ==
    ASSUME TypeInv, TypeInv', \A c \in Callers : InProgress(c)' <= InProgress(c)
    PROVE  SumFunction(Demand)' <= SumFunction(Demand)
<1>1. /\ \A c \in Callers : Demand[c] \in Int /\ Demand'[c] \in Int
                             /\ Demand'[c] <= Demand[c]
      /\ DOMAIN Demand = Callers /\ DOMAIN Demand' = Callers
  BY DemandType DEF Demand
<1> QED
  BY <1>1, PoolAssumption, SumMonotone DEF SumFunction

(* A step that keeps the sum of pool, orders and demand within what the    *)
(* errors allow keeps the budget.                                          *)
LEMMA BudgetKept ==
    ASSUME TypeInv, TypeInv', Budget, recreating' <= errors',
           \/ SumFunction(pool)' + recreating' + SumFunction(Demand)' - errors'
                <= SumFunction(pool) + recreating + SumFunction(Demand) - errors
           \/ SumFunction(pool)' = 0
    PROVE  Budget'
<1>1. /\ SumFunction(pool) \in Nat /\ SumFunction(Demand) \in 0 .. Limit
      /\ SumFunction(pool)' \in Nat /\ SumFunction(Demand)' \in 0 .. Limit
  BY SumsAreNatural
<1>2. recreating \in Nat /\ errors \in Nat /\ recreating' \in Nat /\ errors' \in Nat
  BY PoolAssumption DEF TypeInv, TypeOK
<1>3. SumFunction(pool) + recreating + SumFunction(Demand) <= Limit + errors
  BY PopulationIs DEF Budget, PopulationBound, Limit
<1>4. SumFunction(pool)' + recreating' + SumFunction(Demand)' <= Limit + errors'
  BY <1>1, <1>2, <1>3, LimitType
<1> QED
  BY <1>4, PopulationIs DEF Budget, PopulationBound, Limit

LEMMA NextBudget == TypeInv /\ TypeInv' /\ Budget /\ [Next]_vars => Budget'
<1> SUFFICES ASSUME TypeInv, TypeInv', Budget, [Next]_vars
             PROVE  Budget'
  OBVIOUS
<1> DEFINE P == SumFunction(pool)
           D == SumFunction(Demand)
<1>0. /\ P \in Nat /\ D \in Nat /\ P' \in Nat /\ D' \in Nat
      /\ recreating \in Nat /\ errors \in Nat /\ recreating <= errors
      /\ recreating' \in Nat /\ errors' \in Nat
  BY SumsAreNatural, LimitType, PoolAssumption DEF TypeInv, TypeOK, Budget
(* A push adds one, a pop takes one, and a caller's demand changes alone.  *)
<1>a. \A ch \in Channels : /\ Push(ch) => P' = P + 1
                           /\ Pop(ch) => P' = P - 1
  <2> SUFFICES ASSUME NEW ch \in Channels
               PROVE  (Push(ch) => P' = P + 1) /\ (Pop(ch) => P' = P - 1)
    OBVIOUS
  <2>1. pool[ch] \in Nat
    BY DEF TypeInv, TypeOK
  <2>a. pool[ch] + 1 \in Nat
    BY <2>1
  <2>2. Push(ch) => P' = P - pool[ch] + (pool[ch] + 1)
    BY <2>a, PoolChanges DEF Push
  <2>3. Pop(ch) => pool[ch] - 1 \in Nat
    BY <2>1 DEF Pop, Pooled
  <2>4. Pop(ch) => P' = P - pool[ch] + (pool[ch] - 1)
    BY <2>3, PoolChanges DEF Pop
  <2> HIDE DEF P
  <2> QED
    BY <1>0, <2>1, <2>2, <2>4
<1>b. UNCHANGED pool => P' = P
  OBVIOUS
<1>c. UNCHANGED <<pc, made>> => D' = D
  BY DEF Demand, InProgress
<1>d. \A c \in Callers : /\ InProgress(c) \in Nat /\ InProgress(c)' \in Nat
                         /\ (\A d \in Callers \ {c} : pc'[d] = pc[d] /\ made'[d] = made[d])
                              => D' = D - InProgress(c) + InProgress(c)'
  BY DemandType, DemandChanges, PoolAssumption DEF Demand
<1>e. /\ recreating' <= errors'
      /\ \/ P' + recreating' + D' - errors' <= P + recreating + D - errors
         \/ P' = 0
      => Budget'
  BY BudgetKept
<1> HIDE DEF P, D
<1>1. ASSUME NEW c \in Callers, CallerStep(c)
      PROVE  Budget'
  <2>0. UNCHANGED recreating /\ UNCHANGED errors
    BY <1>1 DEF CallerStep, Borrow, StartInit, ChannelCreated, CreateFailed,
                FinishBorrow, Return, Drop
  <2>a. /\ InProgress(c) \in Nat /\ InProgress(c)' \in Nat
        /\ D' = D - InProgress(c) + InProgress(c)'
    <3>1. \A d \in Callers \ {c} : pc'[d] = pc[d] /\ made'[d] = made[d]
      BY <1>1 DEF CallerStep, Borrow, StartInit, ChannelCreated, CreateFailed,
                  FinishBorrow, Return, Drop, TypeInv, TypeOK
    <3> QED
      BY <3>1, <1>d
  <2>b. P' + InProgress(c)' <= P + InProgress(c) => Budget'
    BY <1>0, <1>e, <2>0, <2>a
  <2>c. pc[c] \in {"idle", "popping"} => InProgress(c) = 0
    BY DEF InProgress
  <2>d. pc[c] = "holding" => InProgress(c) = 1
    BY DEF InProgress
  <2>e. pc \in [Callers -> {"idle", "creating", "popping", "holding"}]
    BY DEF TypeInv, TypeOK
  <2>f. /\ pc'[c] \in {"idle", "popping"} => InProgress(c)' = 0
        /\ pc'[c] = "holding" => InProgress(c)' = 1
    BY DEF InProgress
  <2>1. CASE Borrow(c)
    <3>1. pc[c] = "idle" /\ pc'[c] = "holding" /\ \E ch \in Channels : Pop(ch)
      BY <2>1, <2>e DEF Borrow
    <3>2. P' = P - 1
      BY <3>1, <1>a
    <3> QED
      BY <3>1, <3>2, <1>0, <2>b, <2>c, <2>f
  <2>2. CASE StartInit(c)
    <3>1. P' = 0
      BY <2>2, PoolAssumption, SumOfNone DEF StartInit, Pooled, P, TypeInv, TypeOK
    <3> QED
      BY <3>1, <1>0, <1>e, <2>0
  <2>3. CASE ChannelCreated(c)
    <3>1. /\ pc[c] = "creating" /\ \E ch \in Channels : Push(ch)
          /\ made'[c] = made[c] + 1
          /\ pc'[c] = IF made[c] + 1 < MaxPoolSize THEN "creating" ELSE "popping"
      BY <2>3, <2>e DEF ChannelCreated, Fresh, TypeInv, TypeOK
    <3>2. made[c] \in Nat /\ MaxPoolSize \in Nat /\ made[c] < MaxPoolSize
      BY <3>1, PoolAssumption DEF TypeInv, TypeOK, LoopGoesOn
    <3>3. InProgress(c) = MaxPoolSize - made[c]
      BY <3>1 DEF InProgress
    <3>4. InProgress(c)' = MaxPoolSize - (made[c] + 1)
      <4>1. CASE made[c] + 1 < MaxPoolSize
        BY <4>1, <3>1 DEF InProgress
      <4>2. CASE ~(made[c] + 1 < MaxPoolSize)
        BY <4>2, <3>1, <3>2, <2>f
      <4> QED
        BY <4>1, <4>2
    <3>5. P' = P + 1
      BY <3>1, <1>a
    <3> QED
      BY <3>2, <3>3, <3>4, <3>5, <1>0, <2>b
  <2>4. CASE CreateFailed(c)
    <3>1. pc'[c] = "idle" /\ P' = P
      BY <2>4, <2>e, <1>b DEF CreateFailed
    <3> QED
      BY <3>1, <1>0, <2>a, <2>b, <2>f
  <2>5. CASE FinishBorrow(c)
    <3>1. pc[c] = "popping"
      BY <2>5 DEF FinishBorrow
    <3>2. CASE pc'[c] = "holding" /\ \E ch \in Channels : Pop(ch)
      <4>1. P' = P - 1
        BY <3>2, <1>a
      <4> QED
        BY <3>1, <3>2, <4>1, <1>0, <2>b, <2>c, <2>f
    <3>3. CASE pc'[c] = "idle" /\ UNCHANGED pool
      BY <3>1, <3>3, <1>0, <1>b, <2>b, <2>c, <2>f
    <3> QED
      BY <2>5, <2>e, <3>2, <3>3 DEF FinishBorrow
  <2>6. ASSUME NEW producer \in BOOLEAN, Return(c, producer)
        PROVE  Budget'
    <3>1. pc[c] = "holding" /\ pc'[c] = "idle"
      BY <2>6, <2>e DEF Return
    <3>2. \/ UNCHANGED pool
          \/ \E ch \in Channels : Push(ch)
      <4>1. pc[c] = "holding" /\ PoolSize < MaxPoolSize /\ ~producer => Push(loan[c])
        BY <2>6 DEF Return
      <4>2. ~(PoolSize < MaxPoolSize /\ ~producer) => UNCHANGED pool
        BY <2>6 DEF Return
      <4>3. Push(loan[c]) => UNCHANGED pool \/ loan[c] \in Channels
        BY DEF Push, TypeInv, TypeOK
      <4> QED
        BY <3>1, <4>1, <4>2, <4>3
    <3>3. P' <= P + 1
      BY <3>2, <1>0, <1>a, <1>b
    <3>4. InProgress(c) = 1 /\ InProgress(c)' = 0
      BY <3>1, <2>d, <2>f
    <3>5. P' + InProgress(c)' <= P + InProgress(c)
      <4>1. \A p, q \in Nat : q <= p + 1 => q + 0 <= p + 1
        OBVIOUS
      <4>2. P' + 0 <= P + 1
        BY <4>1, <3>3, <1>0
      <4> QED
        BY <4>2, <3>4
    <3> QED
      BY <3>5, <2>b
  <2>7. CASE Drop(c)
    <3>1. pc'[c] = "idle" /\ P' = P
      BY <2>7, <2>e, <1>b DEF Drop
    <3> QED
      BY <3>1, <1>0, <2>a, <2>b, <2>f
  <2> QED
    BY <1>1, <2>1, <2>2, <2>3, <2>4, <2>5, <2>6, <2>7 DEF CallerStep
<1>2. ASSUME NEW ch \in Channels, ChannelStep(ch)
      PROVE  Budget'
  <2>1. D' = D
    BY <1>2, <1>c DEF ChannelStep, ChannelErrored, CloseConfirmed
  <2>2. CASE ChannelErrored(ch)
    <3>1. pool[ch] \in Nat
      BY DEF TypeInv, TypeOK
    <3>2. P' = P - pool[ch] + 0
      BY <2>2, PoolChanges DEF ChannelErrored, P
    <3>3. recreating' = recreating + 1 /\ errors' = errors + 1
      BY <2>2 DEF ChannelErrored
    <3> QED
      BY <2>1, <3>1, <3>2, <3>3, <1>0, <1>e
  <2>3. CASE CloseConfirmed(ch)
    BY <2>1, <2>3, <1>0, <1>b, <1>e DEF CloseConfirmed
  <2> QED
    BY <1>2, <2>2, <2>3 DEF ChannelStep
<1>3. CASE Recreated
  <2>1. D' = D /\ recreating' = recreating - 1 /\ UNCHANGED errors
    BY <1>3, <1>c DEF Recreated
  <2>2. P' = P + 1
    BY <1>3, <1>a DEF Recreated, Fresh
  <2> QED
    BY <2>1, <2>2, <1>0, <1>e
<1>4. CASE RecreateFailed
  <2>1. D' = D /\ P' = P /\ recreating' = recreating - 1 /\ UNCHANGED errors
    BY <1>4, <1>b, <1>c DEF RecreateFailed
  <2> QED
    BY <2>1, <1>0, <1>e
<1>5. CASE ConnectionLost
  <2>1. P' = P /\ recreating' = 0 /\ UNCHANGED errors
    BY <1>5, <1>b DEF ConnectionLost
  <2>2. \A c \in Callers : InProgress(c)' <= InProgress(c)
    <3> SUFFICES ASSUME NEW c \in Callers
                 PROVE  InProgress(c)' <= InProgress(c)
      OBVIOUS
    <3>1. InProgress(c) \in Nat
      BY <1>d
    <3>2. CASE pc[c] = "creating"
      <4>1. pc'[c] = "idle"
        BY <1>5, <3>2 DEF ConnectionLost
      <4>2. InProgress(c)' = 0
        BY <4>1 DEF InProgress
      <4> QED
        BY <4>2, <3>1
    <3>3. CASE pc[c] # "creating"
      <4>1. pc'[c] = pc[c] /\ UNCHANGED made
        BY <1>5, <3>3 DEF ConnectionLost
      <4>2. InProgress(c)' = InProgress(c)
        BY <4>1 DEF InProgress
      <4> QED
        BY <4>2, <3>1
    <3> QED
      BY <3>2, <3>3
  <2>3. D' <= D
    BY <2>2, DemandShrinks DEF D
  <2>4. /\ recreating' <= errors'
        /\ P' + recreating' + D' - errors' <= P + recreating + D - errors
    <3>1. \A p, d, e, r, q \in Nat : q <= d => p + 0 + q - e <= p + r + d - e
      OBVIOUS
    <3>2. P + 0 + D' - errors <= P + recreating + D - errors
      BY <3>1, <2>3, <1>0
    <3>3. P' = P /\ recreating' = 0 /\ errors' = errors
      BY <2>1
    <3>4. recreating' <= errors'
      BY <3>3, <1>0
    <3>5. P' + recreating' + D' - errors' <= P + recreating + D - errors
      BY <3>2, <3>3, Zenon
    <3> QED
      BY <3>4, <3>5
  <2> QED
    BY <2>4, <1>e
<1>6. CASE Reconnected
  BY <1>6, <1>0, <1>b, <1>c, <1>e DEF Reconnected
<1>7. CASE CloseAll
  <2>1. D' = D /\ UNCHANGED <<recreating, errors>>
    BY <1>7, <1>c DEF CloseAll
  <2>2. P' = P - 1
    BY <1>7, <1>a DEF CloseAll, CloseTurn
  <2>3. /\ recreating' <= errors'
        /\ P' + recreating' + D' - errors' <= P + recreating + D - errors
    BY <2>1, <2>2, <1>0
  <2> QED
    BY <2>3, <1>e
<1>8. CASE CloseAllResumes
  <2>1. D' = D /\ UNCHANGED <<recreating, errors>>
    BY <1>8, <1>c DEF CloseAllResumes
  <2>2. P' = P - 1 \/ P' = P
    BY <1>8, <1>a, <1>b DEF CloseAllResumes, CloseTurn
  <2>3. CASE P' = P - 1
    BY <2>1, <2>3, <1>0, <1>e
  <2>4. CASE P' = P
    BY <2>1, <2>4, <1>0, <1>e
  <2> QED
    BY <2>2, <2>3, <2>4
<1>9. CASE UNCHANGED vars
  BY <1>9, <1>0, <1>b, <1>c, <1>e DEF vars
<1> QED
  BY <1>1, <1>2, <1>3, <1>4, <1>5, <1>6, <1>7, <1>8, <1>9 DEF Next

(* Channels pooled, lent and on order never outnumber one full pool per    *)
(* concurrent caller and one channel per channel error.                    *)
THEOREM PopulationIsBounded == Spec => []PopulationBound
<1>1. Budget => PopulationBound
  BY DEF Budget
<1> QED
  BY InitType, NextType, InitBudget, NextBudget, <1>1, PTL DEF Spec

(* What the broker sees of it: a client never has more channels open than  *)
(* one pool per concurrent caller and one per channel error, because each  *)
(* open channel is in the pool, where it counts, or lent to a caller of    *)
(* its own.                                                                *)
THEOREM OpenChannelsAreBounded ==
    Spec => [](Cardinality({ch \in Channels : status[ch] = "open"})
                 <= MaxPoolSize * Cardinality(Callers) + errors)
<1> DEFINE Open == {ch \in Channels : status[ch] = "open"}
           Holders == {c \in Callers : pc[c] = "holding"}
<1>1. ASSUME TypeInv, Ownership, Budget
      PROVE  Cardinality(Open) <= MaxPoolSize * Cardinality(Callers) + errors
  <2>1. /\ IsFiniteSet(Pooled) /\ IsFiniteSet(Lent) /\ IsFiniteSet(Holders)
        /\ IsFiniteSet(Open) /\ Open \subseteq Pooled \cup Lent
    BY <1>1, PoolAssumption, FS_Subset
    DEF Pooled, Lent, Ownership, NoLeakedChannel
  <2>2. Cardinality(Pooled) <= SumFunction(pool)
    <3>1. /\ DOMAIN pool = Channels
          /\ \A ch \in Channels : pool[ch] \in Nat /\ (ch \in Pooled => pool[ch] # 0)
      BY <1>1 DEF TypeInv, TypeOK, Pooled
    <3>2. Channels \cap Pooled = Pooled
      BY DEF Pooled
    <3>3. Cardinality(Channels \cap Pooled) <= SumFunctionOnSet(pool, Channels)
      BY <3>1, PoolAssumption, SumCounts
    <3> QED
      BY <3>1, <3>2, <3>3 DEF SumFunction
  <2>3. Cardinality(Holders) <= SumFunction(Demand)
    <3>1. /\ DOMAIN Demand = Callers
          /\ \A c \in Callers : Demand[c] \in Nat /\ (c \in Holders => Demand[c] # 0)
      <4>1. \A c \in Holders : Demand[c] = 1
        BY DEF Demand, InProgress
      <4>2. Demand \in [Callers -> 0 .. MaxPoolSize]
        BY <1>1, DemandType
      <4> QED
        BY <4>1, <4>2, PoolAssumption
    <3>2. Callers \cap Holders = Holders
      OBVIOUS
    <3> HIDE DEF Holders
    <3>3. Cardinality(Callers \cap Holders) <= SumFunctionOnSet(Demand, Callers)
      BY <3>1, PoolAssumption, SumCounts
    <3> QED
      BY <3>1, <3>2, <3>3 DEF SumFunction
  <2>4. Cardinality(Lent) <= Cardinality(Holders)
    <3> DEFINE f == [c \in Holders |-> loan[c]]
    <3>1. f \in Surjection(Holders, Lent)
      <4>1. \A c \in Holders : loan[c] \in Lent
        BY <1>1 DEF TypeInv, TypeOK, Ownership, HolderHasLoan, Lent
      <4>2. \A ch \in Lent : \E c \in Holders : loan[c] = ch
        BY <1>1, PoolAssumption DEF TypeInv, TypeOK, Ownership, HolderHasLoan, Lent
      <4> QED
        BY <4>1, <4>2 DEF Surjection
    <3> HIDE DEF f
    <3> QED
      BY <2>1, <3>1, FS_Surjection
  <2>5. Cardinality(Open) <= Cardinality(Pooled) + Cardinality(Lent)
    <3>1. IsFiniteSet(Pooled \cup Lent) /\ IsFiniteSet(Pooled \cap Lent)
      BY <2>1, FS_Union, FS_Intersection
    <3>2. Cardinality(Open) <= Cardinality(Pooled \cup Lent)
      BY <2>1, <3>1, FS_Subset
    <3>3. Cardinality(Pooled \cup Lent)
            = Cardinality(Pooled) + Cardinality(Lent) - Cardinality(Pooled \cap Lent)
      BY <2>1, FS_Union
    <3>4. /\ Cardinality(Open) \in Nat /\ Cardinality(Pooled) \in Nat
          /\ Cardinality(Lent) \in Nat /\ Cardinality(Pooled \cap Lent) \in Nat
      BY <2>1, <3>1, FS_CardinalityType
    <3> HIDE DEF Open
    <3> QED
      BY <3>2, <3>3, <3>4
  <2>6. SumFunction(pool) + recreating + SumFunction(Demand) <= Limit + errors
    BY <1>1, PopulationIs DEF Budget, PopulationBound, Limit
  <2>7. /\ SumFunction(pool) \in Nat /\ SumFunction(Demand) \in Nat
        /\ Limit \in Nat /\ recreating \in Nat /\ errors \in Nat
    BY <1>1, SumsAreNatural, LimitType, PoolAssumption DEF TypeInv, TypeOK
  <2>8. /\ Cardinality(Open) \in Nat /\ Cardinality(Pooled) \in Nat
        /\ Cardinality(Lent) \in Nat /\ Cardinality(Holders) \in Nat
    BY <2>1, FS_CardinalityType
  <2> HIDE DEF Open, Holders
  <2>9. Cardinality(Open) <= Limit + errors
    BY <2>2, <2>3, <2>4, <2>5, <2>6, <2>7, <2>8
  <2> QED
    BY <2>9 DEF Limit
<1> QED
  BY InitType, NextType, InitBudget, NextBudget, OwnershipHolds, <1>1, PTL DEF Spec
=============================================================================
