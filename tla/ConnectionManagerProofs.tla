----------------------- MODULE ConnectionManagerProofs ----------------------
(***************************************************************************)
(* The safety of the connection manager, proved for any number of hosts,   *)
(* attempts, concurrent loops and initialize calls.                        *)
(***************************************************************************)
EXTENDS ConnectionManager, FiniteSetTheorems, TLAPS

LEMMA MaxAttemptsType == MaxAttempts \in Nat \ {0}
BY ConnectionAssumption DEF MaxAttempts

LEMMA InitType == Init => TypeOK
BY ConnectionAssumption DEF Init, TypeOK, Untried, Hosts

(* The rotation stays within the list of hosts.                            *)
LEMMA RotationInHosts == \A i \in Nat : (i + 1) % NumHosts \in Hosts
BY ConnectionAssumption DEF Hosts

LEMMA NextType == TypeOK /\ [Next]_vars => TypeOK'
<1> SUFFICES ASSUME TypeOK, [Next]_vars
             PROVE  TypeOK'
  OBVIOUS
<1> USE ConnectionAssumption DEF TypeOK
<1>0. Untried \in [Hosts -> Nat]
  BY DEF Untried
<1>1. ASSUME NEW l \in Loops, LoopStep(l)
      PROVE  TypeOK'
  <2>1. CASE Initialize(l)
    BY <2>1 DEF Initialize, LoopTop
  <2>2. CASE ConnectOk(l)
    BY <1>0, <2>2 DEF ConnectOk
  <2>3. CASE ConnectFail(l)
    <3>1. hostIndex' \in Hosts
      BY <2>3, RotationInHosts DEF ConnectFail, Hosts
    <3>2. tried' \in [Hosts -> Nat]
      BY <2>3 DEF ConnectFail
    <3> QED
      BY <2>3, <3>1, <3>2 DEF ConnectFail
  <2>4. CASE DelayOver(l)
    BY <2>4 DEF DelayOver, LoopTop
  <2>5. CASE TimerFires(l)
    BY <2>5 DEF TimerFires, LoopTop
  <2> QED
    BY <1>1, <2>1, <2>2, <2>3, <2>4, <2>5 DEF LoopStep
<1>2. ASSUME NEW k \in Conns, ConnectionEnds(k)
      PROVE  TypeOK'
  BY <1>0, <1>2 DEF ConnectionEnds, Rearm
<1>3. CASE UNCHANGED vars
  BY <1>3 DEF vars
<1> QED
  BY <1>1, <1>2, <1>3 DEF Next

(* Every variable keeps its type; currentHostIndex indexes the host list.  *)
THEOREM TypeCorrect == Spec => []TypeOK
BY InitType, NextType, PTL DEF Spec

-----------------------------------------------------------------------------
LEMMA NextLive == TypeOK /\ CurrentIsLive /\ [Next]_vars => CurrentIsLive'
<1> SUFFICES ASSUME TypeOK, CurrentIsLive, [Next]_vars
             PROVE  CurrentIsLive'
  OBVIOUS
<1> USE DEF CurrentIsLive
<1>1. ASSUME NEW l \in Loops, LoopStep(l)
      PROVE  CurrentIsLive'
  BY <1>1 DEF LoopStep, Initialize, ConnectOk, ConnectFail, DelayOver, TimerFires
<1>2. ASSUME NEW k \in Conns, ConnectionEnds(k)
      PROVE  CurrentIsLive'
  BY <1>2 DEF ConnectionEnds
<1>3. CASE UNCHANGED vars
  BY <1>3 DEF vars
<1> QED
  BY <1>1, <1>2, <1>3 DEF Next

(* getConnection never hands out a connection that has ended.              *)
THEOREM CurrentConnectionIsLive == Spec => []CurrentIsLive
<1>1. Init => CurrentIsLive
  BY DEF Init, CurrentIsLive
<1> QED
  BY <1>1, InitType, NextType, NextLive, PTL DEF Spec

-----------------------------------------------------------------------------
LEMMA NextStranded == TypeOK /\ NeverStranded /\ [Next]_vars => NeverStranded'
<1> SUFFICES ASSUME TypeOK, NeverStranded, [Next]_vars
             PROVE  NeverStranded'
  OBVIOUS
<1> USE ConnectionAssumption, MaxAttemptsType DEF TypeOK, NeverStranded, Active
<1>1. ASSUME NEW l \in Loops, LoopStep(l)
      PROVE  NeverStranded'
  <2>1. CASE Initialize(l)
    BY <2>1 DEF Initialize, LoopTop
  <2>2. CASE ConnectOk(l)
    BY <2>2 DEF ConnectOk
  <2>3. CASE ConnectFail(l)
    BY <2>3 DEF ConnectFail
  <2>4. CASE DelayOver(l)
    BY <2>4 DEF DelayOver, LoopTop
  <2>5. CASE TimerFires(l)
    BY <2>5 DEF TimerFires, LoopTop
  <2> QED
    BY <1>1, <2>1, <2>2, <2>3, <2>4, <2>5 DEF LoopStep
<1>2. ASSUME NEW k \in Conns, ConnectionEnds(k)
      PROVE  NeverStranded'
  BY <1>2 DEF ConnectionEnds, Rearm
<1>3. CASE UNCHANGED vars
  BY <1>3 DEF vars
<1> QED
  BY <1>1, <1>2, <1>3 DEF Next

(* A started client without a connection is trying or has used up its      *)
(* attempts, whatever its loops, timers and connections did before.        *)
THEOREM ClientIsNeverStranded == Spec => []NeverStranded
<1>1. Init => NeverStranded
  BY DEF Init, NeverStranded
<1> QED
  BY <1>1, InitType, NextType, NextStranded, PTL DEF Spec

-----------------------------------------------------------------------------
(* How the set of running loops changes size when one slot changes.        *)
LEMMA ActiveIsFinite == IsFiniteSet(Active) /\ Cardinality(Active) \in Nat
BY ConnectionAssumption, FS_Subset, FS_CardinalityType DEF Active

LEMMA LoopStarts ==
  ASSUME NEW l \in Loops, l \notin Active, Active' \subseteq Active \cup {l}
  PROVE  /\ Cardinality(Active') \in Nat
         /\ Cardinality(Active') <= Cardinality(Active) + 1
<1>1. /\ IsFiniteSet(Active \cup {l})
      /\ Cardinality(Active \cup {l}) = Cardinality(Active) + 1
  BY ActiveIsFinite, FS_AddElement
<1>2. /\ IsFiniteSet(Active')
      /\ Cardinality(Active') <= Cardinality(Active \cup {l})
  BY <1>1, FS_Subset
<1> QED
  BY <1>1, <1>2, FS_CardinalityType

LEMMA LoopRuns ==
  ASSUME Active' \subseteq Active
  PROVE  /\ Cardinality(Active') \in Nat
         /\ Cardinality(Active') <= Cardinality(Active)
BY ActiveIsFinite, FS_Subset, FS_CardinalityType

LEMMA LoopEnds ==
  ASSUME NEW l \in Active, Active' = Active \ {l}
  PROVE  /\ Cardinality(Active') \in Nat
         /\ Cardinality(Active') = Cardinality(Active) - 1
BY ActiveIsFinite, FS_RemoveElement, FS_Subset, FS_CardinalityType

LEMMA NextBudget == TypeOK /\ ConnectionBudget /\ [Next]_vars => ConnectionBudget'
<1> SUFFICES ASSUME TypeOK, ConnectionBudget, [Next]_vars
             PROVE  ConnectionBudget'
  OBVIOUS
<1>0. /\ IsFiniteSet(open) /\ Cardinality(open) \in Nat
      /\ Cardinality(Active) \in Nat
      /\ timers \in Nat /\ calls \in Nat
  BY ConnectionAssumption, FS_Subset, FS_CardinalityType, ActiveIsFinite DEF TypeOK
<1>1. ASSUME NEW l \in Loops, LoopStep(l)
      PROVE  ConnectionBudget'
  <2>1. CASE Initialize(l)
    <3>1. l \notin Active /\ Active' \subseteq Active \cup {l}
      BY <2>1 DEF Initialize, LoopTop, Active, TypeOK
    <3> QED
      BY <1>0, <2>1, <3>1, LoopStarts DEF Initialize, ConnectionBudget
  <2>2. CASE ConnectOk(l)
    <3>1. l \in Active /\ Active' = Active \ {l}
      BY <2>2 DEF ConnectOk, Active, TypeOK
    <3>2. PICK k \in Conns \ open : open' = open \cup {k}
      BY <2>2 DEF ConnectOk
    <3>3. Cardinality(open') = Cardinality(open) + 1
      BY <1>0, <3>2, FS_AddElement
    <3>4. Cardinality(Active') = Cardinality(Active) - 1
      BY <3>1, LoopEnds
    <3>5. timers' = timers /\ calls' = calls
      BY <2>2 DEF ConnectOk
    <3> QED
      BY <1>0, <3>3, <3>4, <3>5 DEF ConnectionBudget
  <2>3. CASE ConnectFail(l)
    <3>1. Active' \subseteq Active
      BY <2>3 DEF ConnectFail, Active, TypeOK
    <3> QED
      BY <1>0, <2>3, <3>1, LoopRuns DEF ConnectFail, ConnectionBudget
  <2>4. CASE DelayOver(l)
    <3>1. Active' \subseteq Active
      BY <2>4 DEF DelayOver, LoopTop, Active, TypeOK
    <3> QED
      BY <1>0, <2>4, <3>1, LoopRuns DEF DelayOver, ConnectionBudget
  <2>5. CASE TimerFires(l)
    <3>1. l \notin Active /\ Active' \subseteq Active \cup {l}
      BY <2>5 DEF TimerFires, LoopTop, Active, TypeOK
    <3> QED
      BY <1>0, <2>5, <3>1, LoopStarts DEF TimerFires, ConnectionBudget
  <2> QED
    BY <1>1, <2>1, <2>2, <2>3, <2>4, <2>5 DEF LoopStep
<1>2. ASSUME NEW k \in Conns, ConnectionEnds(k)
      PROVE  ConnectionBudget'
  <2>1. Cardinality(open') = Cardinality(open) - 1
    BY <1>0, <1>2, FS_RemoveElement DEF ConnectionEnds
  <2>2. Active' = Active
    BY <1>2 DEF ConnectionEnds, Active
  <2>3. timers' <= timers + 1 /\ timers' \in Nat
    BY <1>0, <1>2 DEF ConnectionEnds, Rearm
  <2> QED
    BY <1>0, <1>2, <2>1, <2>2, <2>3 DEF ConnectionEnds, ConnectionBudget
<1>3. CASE UNCHANGED vars
  BY <1>3 DEF vars, ConnectionBudget, Active
<1> QED
  BY <1>1, <1>2, <1>3 DEF Next

(* Connections, running loops and armed timers never outnumber the calls   *)
(* of initialize: reconnecting cannot multiply connections.                *)
THEOREM ReconnectingStaysInBudget == Spec => []ConnectionBudget
<1>1. Init => ConnectionBudget
  <2>1. ASSUME Init PROVE Active = {}
    BY <2>1 DEF Init, Active
  <2> QED
    BY <2>1, FS_EmptySet DEF Init, ConnectionBudget
<1> QED
  BY <1>1, InitType, NextType, NextBudget, PTL DEF Spec

-----------------------------------------------------------------------------
(* Once a client has given up no step brings it back.                      *)
THEOREM GivingUpIsFinal == Spec => GiveUpIsFinal
<1>1. TypeOK /\ [Next]_vars => (GivenUp => GivenUp')
  <2> SUFFICES ASSUME TypeOK, [Next]_vars, GivenUp
               PROVE  GivenUp'
    OBVIOUS
  <2> USE MaxAttemptsType DEF TypeOK, GivenUp, Active
  <2>1. ASSUME NEW l \in Loops, LoopStep(l)
        PROVE  GivenUp'
    <3>1. CASE Initialize(l)
      BY <3>1 DEF Initialize, LoopTop
    <3>2. CASE ConnectOk(l) \/ ConnectFail(l) \/ DelayOver(l) \/ TimerFires(l)
      BY <3>2 DEF ConnectOk, ConnectFail, DelayOver, TimerFires
    <3> QED
      BY <2>1, <3>1, <3>2 DEF LoopStep
  <2>2. ASSUME NEW k \in Conns, ConnectionEnds(k)
        PROVE  GivenUp'
    BY <2>2 DEF ConnectionEnds
  <2>3. CASE UNCHANGED vars
    BY <2>3 DEF vars
  <2> QED
    BY <2>1, <2>2, <2>3 DEF Next
<1> QED
  BY <1>1, InitType, NextType, PTL DEF Spec, GiveUpIsFinal
-----------------------------------------------------------------------------
(* While there is one loop, one connection or one timer at most, nobody    *)
(* else moves the index: the hosts take turns.                             *)

(* h is among the last r hosts that the index has left behind.             *)
Behind(h, r) == hostIndex - h \in 1 .. r \/ hostIndex + NumHosts - h \in 1 .. r

(* q full rounds over the hosts, and r hosts of the next one, have failed. *)
Round(q, r) == /\ attempts = q * NumHosts + r
               /\ \A h \in Hosts : tried[h] = IF Behind(h, r) THEN q + 1 ELSE q

InTurn == \E q \in Nat : \E r \in 0 .. NumHosts - 1 : Round(q, r)

(* The loop is trying the host whose turn it is, with attempts left.       *)
OnTarget ==
    /\ attempts <= MaxAttempts
    /\ \A l \in Active : attempts < MaxAttempts
    /\ \A l \in Loops : pc[l] = "connecting" => target[l] = hostIndex

Turns == InTurn /\ OnTarget

(* A loop is the only one, and there is neither connection nor timer.      *)
Alone == /\ \A l \in Active : Active = {l}
         /\ timers > 0 => Active = {}
         /\ \A k \in open : Active = {}

(* So it is with a client that was initialized once.                       *)
LEMMA OneCallIsAlone ==
  ASSUME TypeOK, ConnectionBudget, calls <= 1
  PROVE  Alone
<1>1. /\ IsFiniteSet(open) /\ Cardinality(open) \in Nat
      /\ IsFiniteSet(Active) /\ Cardinality(Active) \in Nat
      /\ timers \in Nat /\ calls \in Nat
  BY ConnectionAssumption, FS_Subset, FS_CardinalityType, ActiveIsFinite DEF TypeOK
<1>2. ASSUME NEW l \in Active
      PROVE  Cardinality(Active \ {l}) = Cardinality(Active) - 1 /\ IsFiniteSet(Active \ {l})
  BY <1>1, FS_RemoveElement
<1>3. ASSUME NEW k \in open
      PROVE  Cardinality(open) > 0
  <2>1. Cardinality(open) # 0
    BY <1>1, <1>3, FS_EmptySet
  <2> QED
    BY <1>1, <2>1
<1>4. Cardinality(Active) = 0 => Active = {}
  BY <1>1, FS_EmptySet
<1>5. ASSUME NEW l \in Active
      PROVE  Active = {l}
  <2>1. Cardinality(Active \ {l}) = 0
    <3>1. Cardinality(Active) <= 1
      BY <1>1 DEF ConnectionBudget
    <3>2. Cardinality(Active \ {l}) \in Nat
      BY <1>2, FS_CardinalityType
    <3> QED
      BY <1>1, <1>2, <3>1, <3>2
  <2>2. Active \ {l} = {}
    BY <1>2, <2>1, FS_EmptySet
  <2> QED
    BY <2>2
<1> QED
  BY <1>1, <1>3, <1>4, <1>5 DEF ConnectionBudget, Alone

(* A fresh count starts a round at whatever host the index is.             *)
LEMMA FreshRound ==
  ASSUME TypeOK, attempts' = 0, tried' = Untried, hostIndex' = hostIndex
  PROVE  InTurn'
<1>1. \A h \in Hosts : ~Behind(h, 0)'
  BY DEF Behind
<1>2. Round(0, 0)'
  BY <1>1, ConnectionAssumption DEF Round, Untried
<1> QED
  BY <1>2, ConnectionAssumption DEF InTurn

(* The next round begins where the last one began.                         *)
LEMMA NextRound == \A q \in Nat : (q + 1) * NumHosts = q * NumHosts + NumHosts
BY ConnectionAssumption

LEMMA Rotation ==
  ASSUME NEW i \in Hosts
  PROVE  (i + 1) % NumHosts = IF i + 1 = NumHosts THEN 0 ELSE i + 1
<1> USE ConnectionAssumption DEF Hosts
<1>1. CASE i + 1 = NumHosts
  <2>1. NumHosts % NumHosts = 0
    OBVIOUS
  <2> QED
    BY <1>1, <2>1
<1>2. CASE i + 1 < NumHosts
  <2>1. \A j \in 0 .. NumHosts - 1 : j % NumHosts = j
    OBVIOUS
  <2> QED
    BY <1>2, <2>1
<1> QED
  BY <1>1, <1>2

(* The index moves on and leaves its host behind.                          *)
LEMMA IndexMoves ==
  ASSUME hostIndex \in Hosts, NEW h \in Hosts, NEW r \in Nat, r + 1 < NumHosts,
         hostIndex' = IF hostIndex + 1 = NumHosts THEN 0 ELSE hostIndex + 1
  PROVE  Behind(h, r + 1)' <=> (h = hostIndex \/ Behind(h, r))
<1> USE ConnectionAssumption DEF Hosts, Behind
<1>1. CASE hostIndex + 1 = NumHosts
  BY <1>1
<1>2. CASE hostIndex + 1 # NumHosts
  BY <1>2
<1> QED
  BY <1>1, <1>2

LEMMA TurnGoesOn ==
  ASSUME TypeOK, InTurn, attempts' = attempts + 1,
         hostIndex' = (hostIndex + 1) % NumHosts,
         tried' = [tried EXCEPT ![hostIndex] = @ + 1]
  PROVE  InTurn'
<1> USE ConnectionAssumption DEF TypeOK
<1>1. PICK q \in Nat, r \in 0 .. NumHosts - 1 : Round(q, r)
  BY DEF InTurn
<1>2. hostIndex' = IF hostIndex + 1 = NumHosts THEN 0 ELSE hostIndex + 1
  BY Rotation
<1>3. ~Behind(hostIndex, r) /\ tried[hostIndex] = q
  BY <1>1 DEF Behind, Round, Hosts
<1>4. CASE r + 1 < NumHosts
  <2>1. ASSUME NEW h \in Hosts
        PROVE  Behind(h, r + 1)' <=> (h = hostIndex \/ Behind(h, r))
    BY <1>2, <1>4, <2>1, IndexMoves
  <2>2. Round(q, r + 1)'
    BY <1>1, <1>3, <2>1 DEF Round
  <2> QED
    BY <1>4, <2>2 DEF InTurn
<1>5. CASE r + 1 = NumHosts
  <2>1. ASSUME NEW h \in Hosts
        PROVE  ~Behind(h, 0)' /\ (h = hostIndex \/ Behind(h, r))
    BY <1>5, <2>1 DEF Behind, Hosts
  <2>2. attempts' = (q + 1) * NumHosts + 0
    BY <1>1, <1>5, NextRound DEF Round
  <2>3. Round(q + 1, 0)'
    BY <1>1, <1>3, <2>1, <2>2 DEF Round
  <2> QED
    BY <2>3 DEF InTurn
<1> QED
  BY <1>4, <1>5

LEMMA NextTurns == TypeOK /\ Alone /\ Turns /\ [Next]_vars => Turns'
<1> SUFFICES ASSUME TypeOK, Alone, InTurn, OnTarget, [Next]_vars
             PROVE  InTurn' /\ OnTarget'
  BY DEF Turns
<1>1. ASSUME UNCHANGED <<attempts, hostIndex, tried>>
      PROVE  InTurn'
  BY <1>1 DEF InTurn, Round, Behind
<1>2. ASSUME NEW l \in Loops, LoopTop(l), UNCHANGED <<attempts, hostIndex>>
      PROVE  OnTarget'
  BY <1>2 DEF LoopTop, OnTarget, Active, TypeOK
<1>3. ASSUME NEW l \in Loops, LoopStep(l)
      PROVE  InTurn' /\ OnTarget'
  <2>1. CASE Initialize(l) \/ DelayOver(l) \/ TimerFires(l)
    BY <1>1, <1>2, <2>1 DEF Initialize, DelayOver, TimerFires
  <2>2. CASE ConnectOk(l)
    <3>1. l \in Active
      BY <2>2 DEF ConnectOk, Active
    <3>2. Active = {l}
      BY <3>1 DEF Alone
    <3>3. InTurn'
      BY <2>2, FreshRound DEF ConnectOk
    <3>4. \A m \in Loops : pc'[m] = "idle"
      BY <2>2, <3>2 DEF ConnectOk, Active, TypeOK
    <3> QED
      BY <2>2, <3>3, <3>4, MaxAttemptsType DEF ConnectOk, OnTarget, Active
  <2>3. CASE ConnectFail(l)
    <3>1. l \in Active
      BY <2>3 DEF ConnectFail, Active
    <3>2. Active = {l} /\ target[l] = hostIndex /\ attempts < MaxAttempts
      BY <2>3, <3>1 DEF ConnectFail, OnTarget, Alone
    <3>3. InTurn'
      BY <2>3, <3>2, TurnGoesOn DEF ConnectFail
    <3>4. \A m \in Loops : /\ pc'[m] # "connecting"
                           /\ pc'[m] # "idle" => attempts' < MaxAttempts
      BY <2>3, <3>2, MaxAttemptsType DEF ConnectFail, Active, TypeOK
    <3>5. attempts' <= MaxAttempts
      BY <2>3, <3>2, MaxAttemptsType DEF ConnectFail, TypeOK
    <3> QED
      BY <3>3, <3>4, <3>5 DEF OnTarget, Active
  <2> QED
    BY <1>3, <2>1, <2>2, <2>3 DEF LoopStep
<1>4. ASSUME NEW k \in Conns, ConnectionEnds(k)
      PROVE  InTurn' /\ OnTarget'
  <2>1. Active = {}
    BY <1>4 DEF ConnectionEnds, Alone
  <2>2. InTurn'
    BY <1>4, FreshRound DEF ConnectionEnds
  <2> QED
    BY <1>4, <2>1, <2>2, MaxAttemptsType DEF ConnectionEnds, OnTarget, Active
<1>5. CASE UNCHANGED vars
  BY <1>1, <1>5 DEF vars, OnTarget, Active
<1> QED
  BY <1>3, <1>4, <1>5 DEF Next

(* When the limit is reached, it was by full rounds only.                  *)
LEMMA FullRounds ==
  ASSUME NEW q \in Nat, NEW r \in 0 .. NumHosts - 1, q * NumHosts + r = MaxAttempts
  PROVE  q = AttemptsPerHost /\ r = 0
<1> USE ConnectionAssumption DEF MaxAttempts
<1>1. ASSUME q < AttemptsPerHost
      PROVE  (q + 1) * NumHosts <= AttemptsPerHost * NumHosts
  BY <1>1
<1>2. ASSUME q > AttemptsPerHost
      PROVE  (AttemptsPerHost + 1) * NumHosts <= q * NumHosts
  BY <1>2
<1>3. q = AttemptsPerHost
  BY <1>1, <1>2, NextRound
<1> QED
  BY <1>3

LEMMA InitTurns == Init => Turns
<1> SUFFICES ASSUME Init
             PROVE  InTurn /\ OnTarget
  BY DEF Turns
<1>1. \A h \in Hosts : ~Behind(h, 0)
  BY DEF Behind
<1>2. Round(0, 0)
  BY <1>1, ConnectionAssumption DEF Init, Round, Untried
<1>3. InTurn
  BY <1>2, ConnectionAssumption DEF InTurn
<1> QED
  BY <1>3, MaxAttemptsType DEF Init, OnTarget, Active

LEMMA TurnsTryAll ==
  ASSUME TypeOK, Turns, attempts >= MaxAttempts, NEW h \in Hosts
  PROVE  tried[h] = AttemptsPerHost
<1>1. PICK q \in Nat, r \in 0 .. NumHosts - 1 : Round(q, r)
  BY DEF Turns, InTurn
<1>2. attempts = MaxAttempts
  BY MaxAttemptsType DEF Turns, OnTarget, TypeOK
<1>3. q = AttemptsPerHost /\ r = 0
  BY <1>1, <1>2, FullRounds DEF Round
<1>4. ~Behind(h, r)
  BY <1>3 DEF Behind
<1> QED
  BY <1>1, <1>3, <1>4 DEF Round

(* A client initialized once gives up only after every host has failed as  *)
(* often as maxReconnectAttempts says, for any number of hosts.            *)
THEOREM EveryHostIsTried == Spec => []GiveUpTriesEveryHost
<1> DEFINE OneCallTurns == calls <= 1 => Turns
<1>1. TypeOK /\ ConnectionBudget /\ OneCallTurns /\ [Next]_vars => OneCallTurns'
  <2> SUFFICES ASSUME TypeOK, ConnectionBudget, OneCallTurns, [Next]_vars, calls' <= 1
               PROVE  Turns'
    OBVIOUS
  <2>1. calls <= calls' /\ calls \in Nat /\ calls' \in Nat
    BY ConnectionAssumption
       DEF TypeOK, Next, LoopStep, Initialize, ConnectOk, ConnectFail, DelayOver,
           TimerFires, ConnectionEnds, vars
  <2>2. calls <= 1
    BY <2>1
  <2> QED
    BY <2>2, OneCallIsAlone, NextTurns
<1>2. TypeOK /\ OneCallTurns => GiveUpTriesEveryHost
  BY TurnsTryAll DEF GiveUpTriesEveryHost
<1>3. Init => OneCallTurns
  BY InitTurns
<1> HIDE DEF OneCallTurns
<1> QED
  BY <1>1, <1>2, <1>3, TypeCorrect, ReconnectingStaysInBudget, PTL DEF Spec
=============================================================================
