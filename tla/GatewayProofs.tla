---------------------------- MODULE GatewayProofs ----------------------------
(***************************************************************************)
(* The gateway over the client, proved for any number of syncs, hosts,     *)
(* attempts and initialize calls.  The facts about the connection itself   *)
(* are those of ConnectionManagerProofs: a step of the gateway is a step   *)
(* of the connection manager or leaves its variables alone.                *)
(***************************************************************************)
EXTENDS Gateway, FiniteSetTheorems, TLAPS

CP == INSTANCE ConnectionManagerProofs

USE DEF Recorded

LEMMA FinitenessCarries == \A S : CP!IsFiniteSet(S) <=> IsFiniteSet(S)
BY DEF CP!IsFiniteSet, IsFiniteSet

LEMMA ConnectionInit == Init => CP!Init
BY DEF Init, CM!Init, CP!Init, CM!Untried, CP!Untried, CM!Hosts, CP!Hosts

(* A step of the gateway is one of the connection manager, or a stutter.   *)
LEMMA ConnectionStep == [Next]_vars => [CP!Next]_CP!vars
<1> SUFFICES ASSUME [Next]_vars
             PROVE  [CP!Next]_CP!vars
  OBVIOUS
<1> USE DEF CM!LoopTop, CP!LoopTop, CM!MaxAttempts, CP!MaxAttempts,
            CM!Untried, CP!Untried, CM!Hosts, CP!Hosts
<1>1. ASSUME NEW l \in Loops, \E t \in Tasks : Initialize(t, l)
      PROVE  CP!Initialize(l)
  BY <1>1 DEF Initialize, CM!Initialize, CP!Initialize
<1>2. ASSUME NEW l \in Loops, ConnectOk(l)
      PROVE  CP!ConnectOk(l)
  BY <1>2 DEF ConnectOk, CM!ConnectOk, CP!ConnectOk
<1>3. ASSUME NEW l \in Loops, ConnectFail(l)
      PROVE  CP!ConnectFail(l)
  BY <1>3 DEF ConnectFail, CM!ConnectFail, CP!ConnectFail
<1>4. ASSUME NEW l \in Loops, DelayOver(l)
      PROVE  CP!DelayOver(l)
  BY <1>4 DEF DelayOver, CM!DelayOver, CP!DelayOver
<1>5. ASSUME NEW l \in Loops, TimerFires(l)
      PROVE  CP!TimerFires(l)
  BY <1>5 DEF TimerFires, CM!TimerFires, CP!TimerFires
<1>6. ASSUME NEW k \in Conns, ConnectionEnds(k)
      PROVE  CP!ConnectionEnds(k)
  BY <1>6 DEF ConnectionEnds, CM!ConnectionEnds, CP!ConnectionEnds, CM!Rearm, CP!Rearm
<1>7. ASSUME \/ \E k \in Conns : PoolReady(k) \/ PoolFails(k)
             \/ QueueReady \/ QueueFails
             \/ \E s \in Syncs : SyncStep(s)
             \/ UNCHANGED vars
      PROVE  UNCHANGED CP!vars
  BY <1>7 DEF PoolReady, PoolFails, QueueReady, QueueFails, SyncStep, Sync, Produce,
              Execute, Reply, Fail, Save, sync, vars, connectionVars, CP!vars
<1> QED
  BY <1>1, <1>2, <1>3, <1>4, <1>5, <1>6, <1>7
     DEF Next, ClientStep, CP!Next, CP!LoopStep

(* What is proved of the connection manager holds under the gateway.       *)
LEMMA ConnectionSpec == Spec => CP!Spec
BY ConnectionInit, ConnectionStep, PTL DEF Spec, CP!Spec

(* The gateway implements ConnectionManager: its tasks use the client only *)
(* in ways that module allows, so that what is checked and proved of the   *)
(* client alone is true of the client inside the gateway.                  *)
THEOREM GatewayRunsClient == Spec => CM!Spec
<1> USE DEF CM!LoopTop, CP!LoopTop, CM!MaxAttempts, CP!MaxAttempts,
            CM!Untried, CP!Untried, CM!Hosts, CP!Hosts, CM!Rearm, CP!Rearm
<1>1. Init => CM!Init
  BY DEF Init
<1>2. CP!vars = CM!vars
  BY DEF CP!vars, CM!vars
<1>3. ASSUME NEW l \in Loops, CP!LoopStep(l)
      PROVE  CM!LoopStep(l)
  <2>1. CP!Initialize(l) => CM!Initialize(l)
    BY DEF CP!Initialize, CM!Initialize
  <2>2. CP!ConnectOk(l) => CM!ConnectOk(l)
    BY DEF CP!ConnectOk, CM!ConnectOk
  <2>3. CP!ConnectFail(l) => CM!ConnectFail(l)
    BY DEF CP!ConnectFail, CM!ConnectFail
  <2>4. CP!DelayOver(l) => CM!DelayOver(l)
    BY DEF CP!DelayOver, CM!DelayOver
  <2>5. CP!TimerFires(l) => CM!TimerFires(l)
    BY DEF CP!TimerFires, CM!TimerFires
  <2> QED
    BY <1>3, <2>1, <2>2, <2>3, <2>4, <2>5 DEF CP!LoopStep, CM!LoopStep
<1>4. ASSUME NEW k \in Conns, CP!ConnectionEnds(k)
      PROVE  CM!ConnectionEnds(k)
  BY <1>4 DEF CP!ConnectionEnds, CM!ConnectionEnds
<1>5. CP!Next => CM!Next
  BY <1>3, <1>4 DEF CP!Next, CM!Next
<1>6. [Next]_vars => [CM!Next]_CM!vars
  BY <1>2, <1>5, ConnectionStep DEF CP!vars, CM!vars
<1> QED
  BY <1>1, <1>6, PTL DEF Spec, CM!Spec

(* Whatever the start-up and the syncs do, and whether or not the client's *)
(* listeners are attached: what the client uses as its connection is up,   *)
(* it is trying, connected or out of attempts once it was started, its     *)
(* connections, loops and timers are within its calls, and it gives up     *)
(* for good and, started once, only after trying every host.               *)
THEOREM ClientGuarantees ==
    Spec => /\ [](CM!CurrentIsLive /\ CM!NeverStranded /\ CM!ConnectionBudget
                    /\ CM!GiveUpTriesEveryHost)
            /\ CM!GiveUpIsFinal
<1> USE DEF CM!Active, CP!Active, CM!MaxAttempts, CP!MaxAttempts, CM!Hosts, CP!Hosts
<1>1. CP!CurrentIsLive => CM!CurrentIsLive
  BY DEF CP!CurrentIsLive, CM!CurrentIsLive
<1>2. CP!NeverStranded => CM!NeverStranded
  BY DEF CP!NeverStranded, CM!NeverStranded
<1>3. CP!ConnectionBudget => CM!ConnectionBudget
  BY DEF CP!ConnectionBudget, CM!ConnectionBudget, CP!Cardinality, Cardinality,
         CP!IsFiniteSet, IsFiniteSet, CM!Cardinality
<1>4. CP!GiveUpTriesEveryHost => CM!GiveUpTriesEveryHost
  BY DEF CP!GiveUpTriesEveryHost, CM!GiveUpTriesEveryHost
<1>5. [CP!GivenUp => CP!GivenUp']_CP!vars => [CM!GivenUp => CM!GivenUp']_CM!vars
  BY DEF CP!GivenUp, CM!GivenUp, CP!vars, CM!vars
<1>6. CP!Spec => []CP!CurrentIsLive
  BY FinitenessCarries, GatewayAssumption, CP!CurrentConnectionIsLive
<1>7. CP!Spec => []CP!NeverStranded
  BY FinitenessCarries, GatewayAssumption, CP!ClientIsNeverStranded
<1>8. CP!Spec => []CP!ConnectionBudget
  BY FinitenessCarries, GatewayAssumption, CP!ReconnectingStaysInBudget
<1>9. CP!Spec => []CP!GiveUpTriesEveryHost
  BY FinitenessCarries, GatewayAssumption, CP!EveryHostIsTried
<1>10. CP!Spec => CP!GiveUpIsFinal
  BY FinitenessCarries, GatewayAssumption, CP!GivingUpIsFinal
<1> QED
  BY <1>1, <1>2, <1>3, <1>4, <1>5, <1>6, <1>7, <1>8, <1>9, <1>10, ConnectionSpec, PTL
     DEF CP!GiveUpIsFinal, CM!GiveUpIsFinal

LEMMA ConnectionTypes == CM!TypeOK <=> CP!TypeOK
BY DEF CM!TypeOK, CP!TypeOK, CM!Hosts, CP!Hosts

LEMMA TasksFinite == \A T \in SUBSET Tasks : IsFiniteSet(T) /\ Cardinality(T) \in Nat
<1>1. IsFiniteSet(Tasks)
  BY GatewayAssumption, FS_AddElement DEF Tasks
<1> QED
  BY <1>1, FS_Subset, FS_CardinalityType

LEMMA CountsListeners == \A T \in SUBSET Tasks : TypeOK => pairs + Cardinality(T) \in Nat
BY TasksFinite DEF TypeOK

LEMMA WaitingAreTasks == \A l : Waiting(l) \in SUBSET Tasks
BY DEF Waiting

-----------------------------------------------------------------------------
(* Types.                                                                  *)

LEMMA InitType == Init => TypeOK
<1> SUFFICES ASSUME Init
             PROVE  TypeOK
  OBVIOUS
<1>1. CM!TypeOK
  BY FinitenessCarries, GatewayAssumption, ConnectionInit, CP!InitType, ConnectionTypes
<1> QED
  BY <1>1 DEF Init, TypeOK

(* The types of what the tasks share.                                      *)
TaskTypes ==
    /\ pairs \in Nat
    /\ health \in {"none", "healthy", "unhealthy"}
    /\ task \in [Tasks -> {"idle", "initializing", "serving", "producing", "refused",
                           "calling", "saving", "failed", "synced"}]

LEMMA SettledTypes ==
  ASSUME NEW T \in SUBSET Tasks, TypeOK, Resolved(T) \/ Rejected(T)
  PROVE  TaskTypes'
<1> USE DEF TypeOK, TaskTypes, GoOn
<1>1. CASE Resolved(T)
  BY <1>1, CountsListeners DEF Resolved
<1>2. CASE Rejected(T)
  BY <1>2 DEF Rejected
<1> QED
  BY <1>1, <1>2

LEMMA NextType == TypeOK /\ [Next]_vars => TypeOK'
<1> SUFFICES ASSUME TypeOK, [Next]_vars
             PROVE  TypeOK'
  OBVIOUS
<1>1. CM!TypeOK'
  <2>1. CP!TypeOK'
    BY FinitenessCarries, GatewayAssumption, ConnectionStep, ConnectionTypes, CP!NextType
       DEF TypeOK
  <2> QED
    BY <2>1 DEF CM!TypeOK, CP!TypeOK, CM!Hosts, CP!Hosts
<1>2. connection' \in Conns \cup {None}
  BY <1>1 DEF CM!TypeOK
<1>3. ASSUME NEW l \in Loops, NEW t \in Tasks, Initialize(t, l)
      PROVE  TypeOK'
  <2>1. TaskTypes'
    <3>1. CASE pc'[l] # "idle"
      BY <1>3, <3>1 DEF Initialize, TaskTypes, TypeOK
    <3>2. CASE pc'[l] = "idle"
      BY <1>3, <3>2, SettledTypes DEF Initialize
    <3> QED
      BY <3>1, <3>2
  <2> QED
    BY <1>1, <1>3, <2>1 DEF Initialize, client, orders, TypeOK, TaskTypes
<1>4. ASSUME NEW l \in Loops, ConnectOk(l)
      PROVE  TypeOK'
  <2>1. TaskTypes'
    BY <1>4, WaitingAreTasks, SettledTypes DEF ConnectOk
  <2>2. connection' \in Conns
    BY <1>4 DEF ConnectOk, CM!ConnectOk
  <2> QED
    BY <1>1, <1>4, <2>1, <2>2 DEF ConnectOk, orders, TypeOK, TaskTypes
<1>5. ASSUME NEW l \in Loops, ConnectFail(l) \/ DelayOver(l)
      PROVE  TypeOK'
  <2>1. TaskTypes'
    BY <1>5, WaitingAreTasks, SettledTypes DEF ConnectFail, DelayOver
  <2> QED
    BY <1>1, <1>5, <2>1 DEF ConnectFail, DelayOver, client, orders, TypeOK, TaskTypes
<1>6. ASSUME NEW l \in Loops, TimerFires(l)
      PROVE  TypeOK'
  BY <1>1, <1>6 DEF TimerFires, client, orders, TypeOK
<1>7. ASSUME NEW k \in Conns, ConnectionEnds(k) \/ PoolReady(k) \/ PoolFails(k)
      PROVE  TypeOK'
  <2>1. up' \in BOOLEAN
    BY <1>7 DEF ConnectionEnds, PoolReady, PoolFails, TypeOK
  <2>2. /\ queueing' \in Nat
        /\ health' \in {"none", "healthy", "unhealthy"}
    BY <1>7 DEF ConnectionEnds, PoolReady, PoolFails, TypeOK
  <2>3. state' \in {"connected", "closed"} /\ preparing' \subseteq Conns
    BY <1>7 DEF ConnectionEnds, PoolReady, PoolFails, TypeOK
  <2>4. UNCHANGED <<pairs, task, slot, executed, saved>>
    BY <1>7 DEF ConnectionEnds, PoolReady, PoolFails, orders
  <2> QED
    BY <1>1, <2>1, <2>2, <2>3, <2>4 DEF TypeOK
<1>8. CASE QueueReady \/ QueueFails
  <2>1. up' \in BOOLEAN
    BY <1>8 DEF QueueReady, QueueFails, TypeOK
  <2>2. /\ queueing' \in Nat
        /\ health' \in {"none", "healthy", "unhealthy"}
    BY <1>8 DEF QueueReady, QueueFails, TypeOK
  <2>3. UNCHANGED <<state, preparing, pairs, task, slot, executed, saved>>
    BY <1>8 DEF QueueReady, QueueFails, orders
  <2> QED
    BY <1>1, <2>1, <2>2, <2>3 DEF TypeOK
<1>9. ASSUME NEW s \in Syncs, SyncStep(s)
      PROVE  TypeOK'
  BY <1>1, <1>9 DEF SyncStep, Sync, Produce, Execute, Reply, Fail, Save, Goes, sync,
                    client, orders, Tasks, TypeOK
<1>10. CASE UNCHANGED vars
  BY <1>1, <1>10 DEF vars, client, orders, TypeOK
<1> QED
  BY <1>3, <1>4, <1>5, <1>6, <1>7, <1>8, <1>9, <1>10 DEF Next, ClientStep

(* Every variable keeps its type, the connection manager's included.       *)
THEOREM TypeCorrect == Spec => []TypeOK
BY InitType, NextType, PTL DEF Spec

-----------------------------------------------------------------------------
(* The invariant.                                                          *)

(* At most one of: an open connection, a loop that may open one, a timer.  *)
One ==
    /\ \A k1, k2 \in open : k1 = k2
    /\ \A l1, l2 \in Loops : pc[l1] # "idle" /\ pc[l2] # "idle" => l1 = l2
    /\ open # {} => timers = 0 /\ \A l \in Loops : pc[l] = "idle"
    /\ timers # 0 => timers = 1 /\ \A l \in Loops : pc[l] = "idle"

(* Before the start-up calls initialize there is nothing.                  *)
Fresh == task[Boot] = "idle" =>
            open = {} /\ timers = 0 /\ \A l \in Loops : pc[l] = "idle"

(* An open connection is the current one, and the attempts are reset.      *)
Current == /\ connection # None => connection \in open
           /\ open # {} => connection # None /\ attempts = 0

(* Only the start-up awaits a loop; every connection, loop and timer that  *)
(* is not its own belongs to a client whose listeners are in place.        *)
Listening ==
    /\ \A s \in Syncs : task[s] # "initializing"
    /\ open # {} \/ timers # 0 \/ queueing > 0 \/ health = "healthy" => pairs > 0
    /\ \A l \in Loops : pc[l] # "idle" => Boot \in Waiting(l) \/ pairs > 0
    /\ Serving /\ health # "unhealthy" => pairs > 0 /\ connection # None

(* The client's state against the connection and the record.               *)
Informed ==
    /\ preparing \subseteq open
    /\ queueing > 0 => state = "connected"
    /\ state = "connected" => open # {} /\ (health = "healthy" \/ queueing > 0)
    /\ health = "healthy" => state = "connected"

GInv == One /\ (up => Fresh /\ Current /\ Listening /\ Informed)

-----------------------------------------------------------------------------
(* What the steps do to the tasks.                                         *)

LEMMA GoingOn ==
  ASSUME NEW T \in SUBSET Tasks, TypeOK, GoOn(T)
  PROVE  /\ \A t \in Tasks \ T : task'[t] = task[t]
         /\ Boot \in T => task'[Boot] = "serving"
         /\ \A s \in Syncs \cap T : task'[s] = "producing"
BY GatewayAssumption DEF GoOn, TypeOK, Tasks

(* Only the start-up awaits a loop.                                        *)
LEMMA Waiters ==
  ASSUME TypeOK, Listening, NEW l
  PROVE  Waiting(l) = {} \/ Waiting(l) = {Boot}
BY DEF Listening, Waiting, Tasks

LEMMA NobodyGoesOn ==
  ASSUME TypeOK, Rejected({})
  PROVE  UNCHANGED <<task, health, pairs>>
BY DEF Rejected, GoOn, TypeOK

LEMMA StartUpRejected ==
  ASSUME TypeOK, Rejected({Boot})
  PROVE  /\ task'[Boot] = "serving" /\ health' = "unhealthy" /\ pairs' = pairs
         /\ \A s \in Syncs : task'[s] = task[s]
BY GatewayAssumption, GoingOn DEF Rejected, Tasks

-----------------------------------------------------------------------------
(* The invariant is kept.                                                  *)

LEMMA InitGInv == Init => GInv
BY GatewayAssumption
   DEF Init, CM!Init, GInv, One, Fresh, Current, Listening, Informed, Serving, Waiting, Tasks

LEMMA InitializeGInv ==
  ASSUME TypeOK, GInv, NEW t \in Tasks, NEW l \in Loops, Initialize(t, l)
  PROVE  GInv'
<1>0. /\ up /\ up' /\ One /\ Fresh /\ Current /\ Listening /\ Informed
      /\ task[t] = "idle"
      /\ t = Boot \/ (Serving /\ health = "none")
  BY DEF Initialize, GInv
<1>1. /\ UNCHANGED <<connection, open, attempts, timers, state, preparing, queueing>>
      /\ pc[l] = "idle"
      /\ slot' = [slot EXCEPT ![t] = l]
  BY DEF Initialize, CM!Initialize, client
<1>2. pc \in [Loops -> {"idle", "connecting", "delaying"}] /\ attempts \in Nat
  BY DEF TypeOK, CM!TypeOK
<1>3. CASE pc'[l] # "idle"
  <2>1. connection = None /\ pc' = [pc EXCEPT ![l] = "connecting"]
    BY <1>2, <1>3 DEF Initialize, CM!Initialize, CM!LoopTop
  <2>2. t = Boot
    BY <1>0, <2>1 DEF Listening
  <2>3. open = {} /\ timers = 0 /\ \A i \in Loops : pc[i] = "idle"
    BY <1>0, <2>2 DEF Fresh
  <2>4. task' = [task EXCEPT ![Boot] = "initializing"] /\ UNCHANGED <<pairs, health>>
    BY <1>3, <2>2 DEF Initialize
  <2>5. /\ task'[Boot] = "initializing" /\ slot'[Boot] = l
        /\ \A s \in Syncs : task'[s] = task[s]
    BY <1>1, <2>2, <2>4, GatewayAssumption DEF TypeOK, Tasks
  <2>6. One' /\ Current'
    BY <1>0, <1>1, <1>2, <2>1, <2>3 DEF One, Current
  <2>7. Fresh' /\ Informed'
    BY <1>0, <1>1, <2>4, <2>5 DEF Fresh, Informed
  <2>8. Listening'
    BY <1>0, <1>1, <1>2, <2>1, <2>2, <2>3, <2>4, <2>5
       DEF Listening, Serving, Waiting, Tasks
  <2> QED
    BY <2>6, <2>7, <2>8 DEF GInv
<1>4. CASE pc'[l] = "idle"
  <2>1. UNCHANGED pc /\ ~(attempts < CM!MaxAttempts /\ connection = None)
    BY <1>1, <1>2, <1>4 DEF Initialize, CM!Initialize, CM!LoopTop
  <2>2. One' /\ Current'
    BY <1>0, <1>1, <2>1 DEF One, Current
  <2>3. GoOn({t})
    BY <1>4 DEF Initialize, Resolved, Rejected
  <2>4. /\ \A u \in Tasks \ {t} : task'[u] = task[u] /\ slot'[u] = slot[u]
        /\ task'[Boot] = "serving"
        /\ \A s \in Syncs : task'[s] # "initializing"
    BY <1>0, <1>1, <2>3, GoingOn, GatewayAssumption DEF TypeOK, Tasks, Listening, Serving
  <2>5. Fresh'
    BY <2>4 DEF Fresh
  <2>6. \A i \in Loops : pc'[i] # "idle" => pairs > 0
    BY <1>0, <2>1 DEF Listening, Waiting, Fresh, Serving
  <2>7. CASE attempts < CM!MaxAttempts
    <3>1. pairs' = pairs + 1 /\ pairs \in Nat /\ health' = health
      BY <1>4, <2>7, FS_Singleton DEF Initialize, Resolved, TypeOK
    <3>2. Listening'
      BY <1>0, <1>1, <2>1, <2>4, <2>6, <2>7, <3>1 DEF Listening
    <3>3. Informed'
      BY <1>0, <1>1, <3>1 DEF Informed
    <3> QED
      BY <2>2, <2>5, <3>2, <3>3 DEF GInv
  <2>8. CASE ~(attempts < CM!MaxAttempts)
    <3>1. pairs' = pairs /\ health' = "unhealthy"
      BY <1>4, <2>8 DEF Initialize, Rejected
    <3>2. attempts # 0
      BY <2>8, <1>2, GatewayAssumption DEF CM!MaxAttempts
    <3>3. state # "connected"
      BY <1>0, <3>2 DEF Current, Informed
    <3>4. Listening'
      BY <1>0, <1>1, <2>1, <2>4, <2>6, <3>1 DEF Listening
    <3>5. Informed'
      BY <1>0, <1>1, <3>1, <3>3 DEF Informed
    <3> QED
      BY <2>2, <2>5, <3>4, <3>5 DEF GInv
  <2> QED
    BY <2>7, <2>8
<1> QED
  BY <1>3, <1>4

LEMMA ConnectOkGInv ==
  ASSUME ListenersAttached, TypeOK, GInv, NEW l \in Loops, ConnectOk(l)
  PROVE  GInv'
<1>0. up /\ up' /\ One /\ Fresh /\ Current /\ Listening /\ Informed
  BY DEF ConnectOk, GInv
<1>1. PICK k \in Conns : connection' = k /\ open' = open \cup {k}
  BY DEF ConnectOk, CM!ConnectOk
<1>2. /\ pc \in [Loops -> {"idle", "connecting", "delaying"}]
      /\ pc[l] = "connecting" /\ pc' = [pc EXCEPT ![l] = "idle"]
      /\ attempts' = 0 /\ timers' = timers
      /\ preparing' = preparing \cup {k}
      /\ UNCHANGED <<state, queueing, slot, health>>
  BY <1>1 DEF ConnectOk, CM!ConnectOk, TypeOK, CM!TypeOK, Resolved
<1>3. open = {} /\ timers = 0
  BY <1>0, <1>2 DEF One
<1>4. task[Boot] # "idle"
  BY <1>0, <1>2 DEF Fresh
<1>5. \A i \in Loops : pc'[i] = "idle"
  BY <1>0, <1>2 DEF One
<1>6. Resolved(Waiting(l))
  BY DEF ConnectOk
<1>7. /\ pairs' > 0
      /\ \A s \in Syncs : task'[s] # "initializing"
      /\ task'[Boot] # "idle"
  <2>1. CASE Waiting(l) = {Boot}
    <3>1. pairs' = pairs + 1 /\ pairs \in Nat /\ GoOn({Boot})
      BY <1>6, <2>1, FS_Singleton DEF Resolved, TypeOK
    <3> QED
      BY <1>0, <3>1, GoingOn, GatewayAssumption DEF Listening, Tasks
  <2>2. CASE Waiting(l) = {}
    <3>1. pairs' = pairs /\ pairs \in Nat /\ GoOn({})
      BY <1>6, <2>2, FS_EmptySet DEF Resolved, TypeOK
    <3>2. \A u \in Tasks : task'[u] = task[u]
      BY <3>1, GoingOn
    <3>3. pairs > 0
      BY <1>0, <1>2, <2>2 DEF Listening
    <3> QED
      BY <1>0, <1>4, <3>1, <3>2, <3>3 DEF Listening, Tasks
  <2> QED
    BY <1>0, <2>1, <2>2, Waiters
<1>8. One' /\ Fresh' /\ Current'
  BY <1>1, <1>2, <1>3, <1>5, <1>7, GatewayAssumption DEF One, Fresh, Current
<1>9. Listening'
  BY <1>1, <1>5, <1>7, GatewayAssumption DEF Listening
<1>10. Informed'
  BY <1>0, <1>1, <1>2, <1>3 DEF Informed
<1> QED
  BY <1>8, <1>9, <1>10 DEF GInv

LEMMA LoopEndsGInv ==
  ASSUME TypeOK, GInv, NEW l \in Loops, ConnectFail(l) \/ DelayOver(l)
  PROVE  GInv'
<1>0. up /\ up' /\ One /\ Fresh /\ Current /\ Listening /\ Informed
  BY DEF ConnectFail, DelayOver, GInv
<1>1. /\ pc \in [Loops -> {"idle", "connecting", "delaying"}]
      /\ pc[l] # "idle"
      /\ pc' \in [Loops -> {"idle", "connecting", "delaying"}]
      /\ \A i \in Loops \ {l} : pc'[i] = pc[i]
      /\ UNCHANGED <<connection, open, timers, state, preparing, queueing, slot>>
  BY DEF ConnectFail, DelayOver, CM!ConnectFail, CM!DelayOver, CM!LoopTop, client,
         TypeOK, CM!TypeOK
<1>2. open = {} /\ timers = 0 /\ \A i \in Loops \ {l} : pc'[i] = "idle"
  BY <1>0, <1>1 DEF One
<1>3. connection = None
  BY <1>0, <1>2 DEF Current
<1>4. task[Boot] # "idle"
  BY <1>0, <1>1 DEF Fresh
<1>5. state # "connected" /\ queueing = 0 /\ health # "healthy"
  BY <1>0, <1>2 DEF Informed, TypeOK
<1>6. Rejected(IF pc'[l] = "idle" THEN Waiting(l) ELSE {})
  BY <1>3 DEF ConnectFail, DelayOver, CM!DelayOver, CM!LoopTop, TypeOK, CM!TypeOK
<1>7. One' /\ Current'
  BY <1>1, <1>2, <1>3 DEF One, Current
<1>8. CASE pc'[l] = "idle" /\ Waiting(l) = {Boot}
  <2>1. /\ task'[Boot] = "serving" /\ health' = "unhealthy" /\ pairs' = pairs
        /\ \A s \in Syncs : task'[s] = task[s]
    BY <1>6, <1>8, StartUpRejected
  <2>2. Fresh' /\ Informed' /\ Listening'
    BY <1>0, <1>1, <1>2, <1>5, <1>8, <2>1 DEF Fresh, Informed, Listening
  <2> QED
    BY <1>7, <2>2 DEF GInv
<1>9. CASE pc'[l] # "idle" \/ Waiting(l) = {}
  <2>1. UNCHANGED <<task, health, pairs>>
    BY <1>6, <1>9, NobodyGoesOn
  <2>2. Fresh' /\ Informed'
    BY <1>0, <1>1, <1>4, <2>1 DEF Fresh, Informed
  <2>3. Listening'
    BY <1>0, <1>1, <1>2, <1>9, <2>1 DEF Listening, Waiting, Serving
  <2> QED
    BY <1>7, <2>2, <2>3 DEF GInv
<1> QED
  BY <1>0, <1>8, <1>9, Waiters

LEMMA TimerFiresGInv ==
  ASSUME TypeOK, GInv, NEW l \in Loops, TimerFires(l)
  PROVE  GInv'
<1>0. up /\ up' /\ One /\ Fresh /\ Current /\ Listening /\ Informed
  BY DEF TimerFires, GInv
<1>1. /\ pc \in [Loops -> {"idle", "connecting", "delaying"}]
      /\ timers > 0 /\ timers \in Nat /\ timers' = timers - 1
      /\ \A i \in Loops \ {l} : pc'[i] = pc[i]
      /\ UNCHANGED <<connection, open, attempts, state, preparing, queueing, slot,
                     pairs, health, task>>
  BY DEF TimerFires, CM!TimerFires, CM!LoopTop, client, TypeOK, CM!TypeOK
<1>2. open = {} /\ timers' = 0 /\ pairs > 0 /\ \A i \in Loops \ {l} : pc'[i] = "idle"
  BY <1>0, <1>1 DEF One, Listening
<1>3. task[Boot] # "idle"
  BY <1>0, <1>1 DEF Fresh
<1>4. One' /\ Fresh' /\ Current'
  BY <1>0, <1>1, <1>2, <1>3 DEF One, Fresh, Current
<1>5. Listening' /\ Informed'
  BY <1>0, <1>1, <1>2 DEF Listening, Informed, Serving
<1> QED
  BY <1>4, <1>5 DEF GInv

LEMMA ConnectionEndsGInv ==
  ASSUME ListenersAttached, TypeOK, GInv, NEW k \in Conns, ConnectionEnds(k)
  PROVE  GInv'
<1>0. up /\ One /\ Fresh /\ Current /\ Listening /\ Informed
  BY DEF ConnectionEnds, GInv
<1>1. /\ k \in open /\ open' = open \ {k}
      /\ connection' = None /\ timers' = 1
      /\ state' = "closed" /\ queueing' = 0
      /\ preparing' = preparing \ {k}
      /\ UNCHANGED <<pc, pairs, task, slot>>
  BY DEF ConnectionEnds, CM!ConnectionEnds, CM!Rearm
<1>2. open' = {} /\ pairs > 0 /\ \A i \in Loops : pc'[i] = "idle"
  BY <1>0, <1>1 DEF One, Listening
<1>3. health' = "unhealthy" /\ task[Boot] # "idle"
  BY <1>0, <1>1, <1>2 DEF ConnectionEnds, Fresh
<1>4. One' /\ Fresh' /\ Current'
  BY <1>1, <1>2, <1>3 DEF One, Fresh, Current
<1>5. Listening' /\ Informed'
  BY <1>0, <1>1, <1>2, <1>3 DEF Listening, Informed
<1> QED
  BY <1>4, <1>5 DEF GInv

LEMMA PoolGInv ==
  ASSUME TypeOK, GInv, NEW k \in Conns, PoolReady(k) \/ PoolFails(k)
  PROVE  GInv'
<1>0. /\ up /\ up' /\ One /\ Fresh /\ Current /\ Listening /\ Informed
      /\ k \in preparing /\ preparing' = preparing \ {k}
      /\ UNCHANGED <<connection, open, attempts, timers, pc, pairs, health, task, slot>>
  BY DEF PoolReady, PoolFails, connectionVars, GInv
<1>1. One' /\ Fresh' /\ Current'
  BY <1>0 DEF One, Fresh, Current
<1>2. pairs > 0 /\ pairs \in Nat /\ queueing \in Nat /\ open # {}
  BY <1>0 DEF Listening, Informed, TypeOK
<1>3. /\ queueing' \in Nat
      /\ \/ state' = "connected" /\ queueing' > 0
         \/ UNCHANGED <<state, queueing>>
  BY <1>2 DEF PoolReady, PoolFails
<1>4. Listening' /\ Informed'
  BY <1>0, <1>2, <1>3 DEF Listening, Informed, Serving, Waiting
<1> QED
  BY <1>0, <1>1, <1>4 DEF GInv

LEMMA QueueGInv ==
  ASSUME TypeOK, GInv, QueueReady \/ QueueFails
  PROVE  GInv'
<1>0. /\ up /\ One /\ Fresh /\ Current /\ Listening /\ Informed
      /\ queueing > 0
      /\ UNCHANGED <<connection, open, attempts, timers, pc, pairs, state, preparing,
                     task, slot>>
  BY DEF QueueReady, QueueFails, connectionVars, GInv
<1>1. One' /\ Fresh' /\ Current'
  BY <1>0 DEF One, Fresh, Current
<1>2. CASE QueueReady
  <2>1. pairs > 0 /\ connection # None /\ state = "connected" /\ open # {}
    BY <1>0 DEF Listening, Informed, Current
  <2>2. health' = "healthy" /\ queueing' \in Nat
    BY <1>0, <1>2 DEF QueueReady, TypeOK
  <2>3. Listening' /\ Informed'
    BY <1>0, <2>1, <2>2 DEF Listening, Informed, Serving, Waiting
  <2> QED
    BY <1>1, <2>3 DEF GInv
<1>3. CASE QueueFails
  BY <1>1, <1>3 DEF QueueFails, GInv
<1> QED
  BY <1>2, <1>3

LEMMA SyncGInv ==
  ASSUME TypeOK, GInv, NEW s \in Syncs, SyncStep(s)
  PROVE  GInv'
<1>1. /\ UNCHANGED <<connection, open, attempts, timers, pc, up, pairs, state, preparing,
                     queueing, health, slot>>
      /\ task'[Boot] = task[Boot]
      /\ \A u \in Syncs : task'[u] = task[u] \/ task'[u] # "initializing"
  BY GatewayAssumption
     DEF SyncStep, Sync, Produce, Execute, Reply, Fail, Save, Goes, sync, connectionVars,
         client, TypeOK, Tasks
<1> QED
  BY <1>1 DEF GInv, One, Fresh, Current, Listening, Informed, Serving, Waiting, Tasks

LEMMA NextGInv == ListenersAttached /\ TypeOK /\ GInv /\ [Next]_vars => GInv'
<1> SUFFICES ASSUME ListenersAttached, TypeOK, GInv, [Next]_vars
             PROVE  GInv'
  OBVIOUS
<1>1. ASSUME NEW l \in Loops,
             \/ \E t \in Tasks : Initialize(t, l)
             \/ ConnectOk(l) \/ ConnectFail(l) \/ DelayOver(l) \/ TimerFires(l)
      PROVE  GInv'
  BY <1>1, InitializeGInv, ConnectOkGInv, LoopEndsGInv, TimerFiresGInv
<1>2. ASSUME NEW k \in Conns, ConnectionEnds(k) \/ PoolReady(k) \/ PoolFails(k)
      PROVE  GInv'
  BY <1>2, ConnectionEndsGInv, PoolGInv
<1>3. CASE UNCHANGED vars
  BY <1>3 DEF vars, connectionVars, client, GInv, One, Fresh, Current, Listening,
              Informed, Serving, Waiting
<1> QED
  BY <1>1, <1>2, <1>3, QueueGInv, SyncGInv DEF Next, ClientStep

LEMMA GInvHolds == ListenersAttached /\ Spec => []GInv
<1> SUFFICES ASSUME ListenersAttached
             PROVE  Spec => []GInv
  OBVIOUS
<1>1. TypeOK /\ GInv /\ [Next]_vars => GInv'
  BY NextGInv
<1> QED
  BY <1>1, InitType, InitGInv, NextType, PTL DEF Spec

-----------------------------------------------------------------------------
(* With the client's listeners attached, a gateway that serves requests    *)
(* and does not report RabbitMQ unhealthy has a connection.                *)
THEOREM HealthReports == ListenersAttached /\ Spec => []HealthReportsConnection
<1>1. GInv => HealthReportsConnection
  BY DEF GInv, Listening, HealthReportsConnection, ReportsHealthy
<1> QED
  BY <1>1, GInvHolds, PTL

(* The record says healthy only while the client can send, through every   *)
(* loss, reconnection and repeated initialization.                         *)
THEOREM RecordIsAccurate == ListenersAttached /\ Spec => []HealthIsAccurate
<1>1. GInv => HealthIsAccurate
  BY DEF GInv, Informed, HealthIsAccurate
<1> QED
  BY <1>1, GInvHolds, PTL

(* A set whose members are all the same has at most one.                   *)
LEMMA AtMostOne ==
  ASSUME NEW S, \A x, y \in S : x = y
  PROVE  Cardinality(S) = IF S = {} THEN 0 ELSE 1
<1>1. CASE S = {}
  BY <1>1, FS_EmptySet
<1>2. ASSUME NEW x \in S
      PROVE  Cardinality(S) = 1
  <2>1. S = {x}
    BY <1>2
  <2> QED
    BY <2>1, FS_Singleton
<1> QED
  BY <1>1, <1>2

(* The gateway never has two connections, or one and something that may    *)
(* open another, however many syncs initialize the client again.           *)
THEOREM ThereIsOneConnection == ListenersAttached /\ Spec => []OneConnection
<1>1. TypeOK /\ GInv => OneConnection
  <2> SUFFICES ASSUME TypeOK, One
               PROVE  OneConnection
    BY DEF GInv
  <2>1. Cardinality(open) = IF open = {} THEN 0 ELSE 1
    BY AtMostOne DEF One
  <2>2. Cardinality(CM!Active) = IF CM!Active = {} THEN 0 ELSE 1
    BY AtMostOne DEF One, CM!Active
  <2>3. timers \in Nat
    BY DEF TypeOK, CM!TypeOK
  <2> QED
    BY <2>1, <2>2, <2>3 DEF One, OneConnection, CM!Active
<1> QED
  BY <1>1, GInvHolds, TypeCorrect, PTL

(* With one connection, loop or timer the turns of the hosts are kept, so  *)
(* the gateway gives up only after it has tried every host as often as     *)
(* configured; unlike EveryHostIsTried this needs no bound on the calls of *)
(* initialize, of which there may be one for every sync.                   *)
THEOREM GatewayTriesEveryHost == ListenersAttached /\ Spec => []EveryHostWasTried
<1>1. One => CP!Alone
  BY DEF One, CP!Alone, CP!Active
<1>2. Init => CP!Turns
  BY FinitenessCarries, GatewayAssumption, ConnectionInit, CP!InitTurns
<1>3. TypeOK /\ GInv /\ CP!Turns /\ [Next]_vars => CP!Turns'
  <2> SUFFICES ASSUME TypeOK, GInv, CP!Turns, [Next]_vars
               PROVE  CP!Turns'
    OBVIOUS
  <2>1. CP!TypeOK /\ CP!Alone
    BY <1>1, ConnectionTypes DEF TypeOK, GInv
  <2> QED
    BY <2>1, ConnectionStep, FinitenessCarries, GatewayAssumption, CP!NextTurns
<1>4. TypeOK /\ CP!Turns => EveryHostWasTried
  <2> SUFFICES ASSUME TypeOK, CP!Turns, attempts >= CM!MaxAttempts, NEW h \in CM!Hosts
               PROVE  tried[h] = AttemptsPerHost
    BY DEF EveryHostWasTried
  <2>1. CP!TypeOK /\ attempts >= CP!MaxAttempts /\ h \in CP!Hosts
    BY ConnectionTypes DEF TypeOK, CM!MaxAttempts, CP!MaxAttempts, CM!Hosts, CP!Hosts
  <2> QED
    BY <2>1, FinitenessCarries, GatewayAssumption, CP!TurnsTryAll
<1> QED
  BY <1>2, <1>3, <1>4, GInvHolds, TypeCorrect, PTL DEF Spec

-----------------------------------------------------------------------------
(* What a sync has reached says what has happened to its order: above all, *)
(* nothing before rpcProducer has been called, and nothing if it refused.  *)
Unsent == {"idle", "initializing", "producing", "refused"}

SyncFacts ==
    /\ saved \subseteq executed
    /\ \A s \in Syncs : /\ task[s] = "saving" => s \in executed
                        /\ task[s] = "synced" => s \in saved
                        /\ task[s] \in Unsent => s \notin executed

Ended == {"synced", "failed", "refused"}

(* How the steps of the client move the syncs: none that was sent moves,   *)
(* and none is sent.                                                       *)
ClientMoves == UNCHANGED orders /\ \A s \in Syncs : \/ task'[s] = task[s]
                                                    \/ /\ task[s] \in Unsent \ Ended
                                                       /\ task'[s] \in Unsent \ Ended

LEMMA GoingOnMoves ==
  ASSUME TypeOK, UNCHANGED orders, NEW T \in SUBSET Tasks, GoOn(T),
         \A s \in Syncs \cap T : task[s] \in {"idle", "initializing"}
  PROVE  ClientMoves
BY GoingOn DEF ClientMoves, Tasks, Unsent, Ended

LEMMA ClientStepMoves == TypeOK /\ (ClientStep \/ UNCHANGED vars) => ClientMoves
<1> SUFFICES ASSUME TypeOK, ClientStep \/ UNCHANGED vars
             PROVE  ClientMoves
  OBVIOUS
<1>1. ASSUME NEW l \in Loops, NEW t \in Tasks, Initialize(t, l)
      PROVE  ClientMoves
  <2>1. UNCHANGED orders /\ task[t] = "idle"
    BY <1>1 DEF Initialize
  <2>2. CASE task' = [task EXCEPT ![t] = "initializing"]
    BY <2>1, <2>2 DEF ClientMoves, TypeOK, Tasks, Unsent, Ended
  <2>3. CASE GoOn({t})
    BY <2>1, <2>3, GoingOnMoves
  <2> QED
    BY <1>1, <2>2, <2>3 DEF Initialize, Resolved, Rejected
<1>2. ASSUME NEW l \in Loops, ConnectOk(l) \/ ConnectFail(l) \/ DelayOver(l)
      PROVE  ClientMoves
  <2>1. UNCHANGED orders /\ (GoOn(Waiting(l)) \/ GoOn({}))
    BY <1>2 DEF ConnectOk, ConnectFail, DelayOver, Resolved, Rejected
  <2>2. \A s \in Waiting(l) : task[s] = "initializing"
    BY DEF Waiting
  <2> QED
    BY <2>1, <2>2, WaitingAreTasks, GoingOnMoves
<1>3. CASE UNCHANGED <<task, executed, saved>>
  BY <1>3 DEF ClientMoves, orders
<1>4. CASE \/ \E l \in Loops : TimerFires(l)
           \/ \E k \in Conns : ConnectionEnds(k) \/ PoolReady(k) \/ PoolFails(k)
           \/ QueueReady \/ QueueFails \/ UNCHANGED vars
  BY <1>3, <1>4 DEF TimerFires, ConnectionEnds, PoolReady, PoolFails, QueueReady,
                    QueueFails, orders, vars
<1> QED
  BY <1>1, <1>2, <1>4 DEF ClientStep

LEMMA NextSyncFacts == TypeOK /\ SyncFacts /\ [Next]_vars => SyncFacts'
<1> SUFFICES ASSUME TypeOK, SyncFacts, [Next]_vars
             PROVE  SyncFacts'
  OBVIOUS
<1>1. CASE ClientMoves
  BY <1>1 DEF ClientMoves, SyncFacts, orders, Unsent, Ended
<1>2. ASSUME NEW s \in Syncs, SyncStep(s)
      PROVE  SyncFacts'
  BY <1>2 DEF SyncStep, Sync, Produce, Execute, Reply, Fail, Save, Goes, sync, orders,
              SyncFacts, Unsent, TypeOK, Tasks
<1> QED
  BY <1>1, <1>2, ClientStepMoves DEF Next

LEMMA InitSyncFacts == Init => SyncFacts
BY GatewayAssumption DEF Init, SyncFacts, Unsent, Tasks

LEMMA SyncFactsHold == Spec => []SyncFacts
BY InitSyncFacts, InitType, NextType, NextSyncFacts, PTL DEF Spec

(* An order is stored, and a sync succeeds, only after the CRM executed    *)
(* it; this holds of the client with and without its listeners.            *)
THEOREM OrdersAreExecutedFirst == Spec => []StoredMeansExecuted
<1>1. SyncFacts => StoredMeansExecuted
  BY DEF SyncFacts, StoredMeansExecuted
<1> QED
  BY <1>1, SyncFactsHold, PTL

-----------------------------------------------------------------------------
(* The refinement of OrderForwarding.                                      *)

(* A request ends when its sync goes to one of the three ends, and the     *)
(* outcome of every other request is left as it is.                        *)
LEMMA OutcomeOfMove ==
  ASSUME TypeOK, NEW s \in Syncs, NEW to \in Ended, Goes(s, to), task[s] \notin Ended
  PROVE  /\ Outcome(s) = "none"
         /\ [r \in Syncs |-> Outcome(r)]' = [[r \in Syncs |-> Outcome(r)] EXCEPT ![s] = to]
<1>1. \A r \in Syncs : task'[r] = IF r = s THEN to ELSE task[r]
  BY DEF Goes, TypeOK, Tasks
<1>2. \A r \in Syncs : Outcome(r)' = IF r = s THEN to ELSE Outcome(r)
  BY <1>1 DEF Outcome, Ended
<1> QED
  BY <1>2 DEF Outcome, Ended

LEMMA OutcomeKept ==
  ASSUME \A s \in Syncs : \/ task'[s] = task[s]
                          \/ task[s] \notin Ended /\ task'[s] \notin Ended
  PROVE  [r \in Syncs |-> Outcome(r)]' = [r \in Syncs |-> Outcome(r)]
<1>1. \A r \in Syncs : Outcome(r)' = Outcome(r)
  BY DEF Outcome, Ended
<1> QED
  BY <1>1

LEMMA ForwardingInit == Init => Forwarding!Init
BY GatewayAssumption DEF Init, Forwarding!Init, Outcome, Tasks

LEMMA ForwardingStep ==
  TypeOK /\ SyncFacts /\ [Next]_vars => [Forwarding!Next]_Forwarding!vars
<1> SUFFICES ASSUME TypeOK, SyncFacts, [Next]_vars
             PROVE  [Forwarding!Next]_Forwarding!vars
  OBVIOUS
<1>1. CASE ClientMoves
  BY <1>1, OutcomeKept DEF ClientMoves, Forwarding!vars, orders
<1>2. ASSUME NEW s \in Syncs, Sync(s) \/ Reply(s)
      PROVE  UNCHANGED Forwarding!vars
  <2>1. UNCHANGED orders
    BY <1>2 DEF Sync, Reply
  <2>2. \A r \in Syncs : \/ task'[r] = task[r]
                         \/ task[r] \notin Ended /\ task'[r] \notin Ended
    BY <1>2 DEF Sync, Reply, Goes, TypeOK, Tasks, Ended
  <2> QED
    BY <2>1, <2>2, OutcomeKept DEF Forwarding!vars, orders
<1>3. ASSUME NEW s \in Syncs, Produce(s)
      PROVE  [Forwarding!Next]_Forwarding!vars
  <2>1. UNCHANGED orders /\ task[s] = "producing" /\ s \notin executed
    BY <1>3 DEF Produce, SyncFacts, Unsent
  <2>2. CASE Goes(s, "refused")
    BY <2>1, <2>2, OutcomeOfMove
       DEF Forwarding!Next, Forwarding!Refuse, Forwarding!Ends, orders, Ended
  <2>3. CASE Goes(s, "calling")
    <3>1. \A r \in Syncs : \/ task'[r] = task[r]
                           \/ task[r] \notin Ended /\ task'[r] \notin Ended
      BY <2>1, <2>3 DEF Goes, TypeOK, Tasks, Ended
    <3> QED
      BY <2>1, <3>1, OutcomeKept DEF Forwarding!vars, orders
  <2> QED
    BY <1>3, <2>2, <2>3 DEF Produce
<1>4. ASSUME NEW s \in Syncs, Execute(s)
      PROVE  Forwarding!Next
  <2>1. Outcome(s) # "refused"
    BY <1>4 DEF Execute, Outcome
  <2>2. [r \in Syncs |-> Outcome(r)]' = [r \in Syncs |-> Outcome(r)]
    BY <1>4, OutcomeKept DEF Execute
  <2> QED
    BY <1>4, <2>1, <2>2 DEF Execute, Forwarding!Next, Forwarding!Execute
<1>5. ASSUME NEW s \in Syncs, Fail(s)
      PROVE  Forwarding!Next
  <2>1. /\ task[s] \in {"calling", "saving"} /\ Goes(s, "failed") /\ UNCHANGED executed
        /\ UNCHANGED saved \/ (s \in executed /\ saved' = saved \cup {s})
    BY <1>5 DEF Fail, SyncFacts
  <2> QED
    BY <2>1, OutcomeOfMove DEF Forwarding!Next, Forwarding!Fail, Forwarding!Ends, Ended
<1>6. ASSUME NEW s \in Syncs, Save(s)
      PROVE  Forwarding!Next
  <2>1. /\ task[s] = "saving" /\ Goes(s, "synced") /\ UNCHANGED executed
        /\ saved' = saved \cup {s} /\ s \in executed
    BY <1>6 DEF Save, SyncFacts
  <2> QED
    BY <2>1, OutcomeOfMove DEF Forwarding!Next, Forwarding!Store, Forwarding!Ends, Ended
<1> QED
  BY <1>1, <1>2, <1>3, <1>4, <1>5, <1>6, ClientStepMoves DEF Next, SyncStep

(* The gateway implements OrderForwarding, with and without the client's   *)
(* listeners: a refused order is never executed, a synced one is executed  *)
(* and stored, and every request has at most one outcome.                  *)
THEOREM GatewayForwards == Spec => KeepsForwarding
BY ForwardingInit, ForwardingStep, TypeCorrect, SyncFactsHold, PTL
   DEF Spec, KeepsForwarding, Forwarding!Spec
=============================================================================
