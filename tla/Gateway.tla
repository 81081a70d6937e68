------------------------------ MODULE Gateway -------------------------------
(***************************************************************************)
(* The API gateway on top of the client: how OrdersService initializes     *)
(* RabbitMQClient (at start-up, and again before a sync as long as there   *)
(* is no health record), the client's connection listener, the health      *)
(* record, and the order syncs; src/modules/orders/orders.service.ts,      *)
(* src/modules/healthcheck/healthcheck.service.ts, and the lifecycle part  *)
(* of client.ts.  The connection itself is ConnectionManager's, whose      *)
(* variables are part of this module's; a task (the start-up or a sync)    *)
(* that awaits initialize owns a loop of it.                               *)
(*                                                                         *)
(* ListenersAttached says whether the constructor of the client calls      *)
(* setupConnectionListener.  The call is commented out at client.ts:86, so *)
(* FALSE is the client as it is, and TRUE the one the rest of the code     *)
(* (the 'ready' and 'closed' listeners, the state) is written for.         *)
(*                                                                         *)
(* What follows an await without a network event in between (an initialize *)
(* that resolves, and the listeners added after it) is one action.         *)
(***************************************************************************)
EXTENDS Integers, FiniteSets

CONSTANTS Syncs,              \* requests to sync an order
          Boot,               \* the task of onModuleInit
          ListenersAttached,  \* BOOLEAN: see above
          Loops, Conns, None, NumHosts, AttemptsPerHost, MaxInitCalls

VARIABLES
    connection, open, attempts, hostIndex, timers, pc, target, tried, calls,
    up,         \* the process runs
    state,      \* the client's this.state: "connected" or "closed"
    preparing,  \* connections whose channel pool onConnectionReady is filling
    pairs,      \* how often OrdersService has added its two listeners
    queueing,   \* setupQueue calls of 'ready' listeners in progress
    health,     \* the record of RabbitMQClient: "none", "healthy", "unhealthy"
    task,       \* where each task is
    slot,       \* the loop a task awaits
    executed,   \* orders that the CRM has executed
    saved       \* orders stored in the gateway's database

connectionVars == <<connection, open, attempts, hostIndex, timers, pc, target,
                    tried, calls>>
client == <<state, preparing, queueing>>
orders == <<executed, saved>>
vars == <<connectionVars, up, client, pairs, health, task, slot, orders>>

Tasks == Syncs \cup {Boot}

ASSUME GatewayAssumption ==
    /\ Boot \notin Syncs
    /\ IsFiniteSet(Syncs)
    /\ ListenersAttached \in BOOLEAN
    /\ IsFiniteSet(Loops)
    /\ IsFiniteSet(Conns)
    /\ None \notin Conns
    /\ NumHosts \in Nat \ {0}
    /\ AttemptsPerHost \in Nat \ {0}
    /\ MaxInitCalls \in Nat

CM == INSTANCE ConnectionManager

Init ==
    /\ CM!Init
    /\ up = TRUE
    /\ state = "closed"
    /\ preparing = {}
    /\ pairs = 0
    /\ queueing = 0
    /\ health = "none"
    /\ task = [t \in Tasks |-> "idle"]
    /\ slot \in [Tasks -> Loops]
    /\ executed = {}
    /\ saved = {}

Serving == task[Boot] = "serving"

-----------------------------------------------------------------------------
(* HealthcheckService: what setServiceHealth records, and what the health  *)
(* check says, which takes a service without a record for a healthy one.   *)
Recorded(isHealthy) == IF isHealthy THEN "healthy" ELSE "unhealthy"

ReportsHealthy == health # "unhealthy"

-----------------------------------------------------------------------------
(* initializeRabbitMQClient.                                               *)

(* What a task goes on to do: the start-up lets Nest listen for requests,  *)
(* a sync calls rpcProducer, whether initialize resolved or rejected.      *)
GoOn(T) == task' = [t \in Tasks |-> IF t \notin T THEN task[t]
                                    ELSE IF t = Boot THEN "serving" ELSE "producing"]

(* initialize resolves for the tasks T: the listeners are added.           *)
Resolved(T) == pairs' = pairs + Cardinality(T) /\ GoOn(T) /\ UNCHANGED health

(* Mutant: the rejection is not recorded.                                  *)
RejectedUnrecorded(T) == GoOn(T) /\ UNCHANGED <<health, pairs>>

(* It rejects: the error is logged and recorded.                           *)
Rejected(T) == /\ health' = IF T = {} THEN health ELSE Recorded(FALSE)
               /\ GoOn(T)
               /\ UNCHANGED pairs

Waiting(l) == {t \in Tasks : task[t] = "initializing" /\ slot[t] = l}

(* Mutant: a sync initializes whenever the record does not say healthy.    *)
InitializeUnhealthy(t, l) ==
    /\ up
    /\ task[t] = "idle"
    /\ t = Boot \/ (Serving /\ health # "healthy")
    /\ CM!Initialize(l)
    /\ slot' = [slot EXCEPT ![t] = l]
    /\ \/ /\ pc'[l] # "idle"
          /\ task' = [task EXCEPT ![t] = "initializing"]
          /\ UNCHANGED <<pairs, health>>
       \/ /\ pc'[l] = "idle"
          /\ IF attempts < CM!MaxAttempts THEN Resolved({t}) ELSE Rejected({t})
    /\ UNCHANGED <<up, client, orders>>

(* The start-up, or a sync that finds no health record, calls initialize.  *)
(* If that needs a new connection its loop starts; otherwise it settles.   *)
Initialize(t, l) ==
    /\ up
    /\ task[t] = "idle"
    /\ t = Boot \/ (Serving /\ health = "none")
    /\ CM!Initialize(l)
    /\ slot' = [slot EXCEPT ![t] = l]
    /\ \/ /\ pc'[l] # "idle"
          /\ task' = [task EXCEPT ![t] = "initializing"]
          /\ UNCHANGED <<pairs, health>>
       \/ /\ pc'[l] = "idle"
          /\ IF attempts < CM!MaxAttempts THEN Resolved({t}) ELSE Rejected({t})
    /\ UNCHANGED <<up, client, orders>>

(* A connection is there.  If the client listens, 'connected' makes a new  *)
(* channel manager, whose pool is filled while initialize resolves.        *)
ConnectOk(l) ==
    /\ up
    /\ CM!ConnectOk(l)
    /\ preparing' = IF ListenersAttached THEN preparing \cup {connection'} ELSE preparing
    /\ Resolved(Waiting(l))
    /\ UNCHANGED <<up, state, queueing, slot, orders>>

(* Mutant: giving up is not told to the task that waits.                   *)
ConnectFailUntold(l) ==
    /\ up
    /\ CM!ConnectFail(l)
    /\ Rejected({})
    /\ UNCHANGED <<up, client, slot, orders>>

ConnectFail(l) ==
    /\ up
    /\ CM!ConnectFail(l)
    /\ Rejected(IF pc'[l] = "idle" THEN Waiting(l) ELSE {})
    /\ UNCHANGED <<up, client, slot, orders>>

DelayOver(l) ==
    /\ up
    /\ CM!DelayOver(l)
    /\ IF pc'[l] = "idle" /\ attempts < CM!MaxAttempts
         THEN Resolved(Waiting(l))
         ELSE Rejected(IF pc'[l] = "idle" THEN Waiting(l) ELSE {})
    /\ UNCHANGED <<up, client, slot, orders>>

TimerFires(l) ==
    /\ up
    /\ CM!TimerFires(l)
    /\ Waiting(l) = {}
    /\ UNCHANGED <<up, client, pairs, health, task, slot, orders>>

-----------------------------------------------------------------------------
(* The client's lifecycle and the listeners of OrdersService.              *)

(* Mutant: only the calls in progress are told, not the health record.     *)
ConnectionEndsUnrecorded(k) ==
    /\ up
    /\ CM!ConnectionEnds(k)
    /\ state' = "closed"
    /\ preparing' = preparing \ {k}
    /\ up' = (queueing = 0)
    /\ queueing' = 0
    /\ UNCHANGED <<health, pairs, task, slot, orders>>

(* The connection ends.  'closed' reaches the client only if it listens,   *)
(* and then the listeners that OrdersService has added.  A setupQueue in   *)
(* progress is rejected; nobody handles that, and the process ends.        *)
ConnectionEnds(k) ==
    /\ up
    /\ CM!ConnectionEnds(k)
    /\ state' = "closed"
    /\ preparing' = preparing \ {k}
    /\ health' = IF ListenersAttached /\ pairs > 0 THEN Recorded(FALSE) ELSE health
    /\ up' = (queueing = 0)
    /\ queueing' = 0
    /\ UNCHANGED <<pairs, task, slot, orders>>

(* Mutant: 'ready' is emitted before the state is set, to nobody.          *)
PoolReadyUnheard(k) ==
    /\ up
    /\ k \in preparing
    /\ preparing' = preparing \ {k}
    /\ state' = "connected"
    /\ UNCHANGED <<connectionVars, up, queueing, pairs, health, task, slot, orders>>

(* onConnectionReady: the pool is filled, 'ready' is emitted, and each     *)
(* listener of OrdersService starts a setupQueue.                          *)
PoolReady(k) ==
    /\ up
    /\ k \in preparing
    /\ preparing' = preparing \ {k}
    /\ state' = "connected"
    /\ queueing' = queueing + pairs
    /\ UNCHANGED <<connectionVars, up, pairs, health, task, slot, orders>>

(* A channel is refused: the error is logged, and that was it.             *)
PoolFails(k) ==
    /\ up
    /\ k \in preparing
    /\ preparing' = preparing \ {k}
    /\ UNCHANGED <<connectionVars, up, state, queueing, pairs, health, task,
                   slot, orders>>

(* A setupQueue is done: the client is recorded as healthy.                *)
QueueReady ==
    /\ up
    /\ queueing > 0
    /\ queueing' = queueing - 1
    /\ health' = Recorded(TRUE)
    /\ UNCHANGED <<connectionVars, up, state, preparing, pairs, task, slot, orders>>

(* The broker refuses to declare something.                                *)
QueueFails ==
    /\ up
    /\ queueing > 0
    /\ up' = FALSE
    /\ queueing' = 0
    /\ UNCHANGED <<connectionVars, state, preparing, pairs, health, task, slot,
                   orders>>

-----------------------------------------------------------------------------
(* syncSalesOrderFromOperation.                                            *)

Goes(s, to) == task' = [task EXCEPT ![s] = to]
sync == <<connectionVars, up, client, pairs, health, slot>>

(* There is a health record, good or bad: no initialize.                   *)
Sync(s) ==
    /\ up /\ Serving
    /\ task[s] = "idle"
    /\ health # "none"
    /\ Goes(s, "producing")
    /\ UNCHANGED <<sync, orders>>

(* Mutant: the request is published before the state is looked at.         *)
ProduceAnyway(s) ==
    /\ up
    /\ task[s] = "producing"
    /\ Goes(s, IF state = "connected" THEN "calling" ELSE "refused")
    /\ executed' = executed \cup {s}
    /\ UNCHANGED <<sync, saved>>

(* rpcProducer answers 503 unless the state is 'connected'.                *)
Produce(s) ==
    /\ up
    /\ task[s] = "producing"
    /\ Goes(s, IF state = "connected" THEN "calling" ELSE "refused")
    /\ UNCHANGED <<sync, orders>>

(* The CRM executes the request, perhaps after the gateway has given up.   *)
Execute(s) ==
    /\ task[s] \in {"calling", "failed"}
    /\ executed' = executed \cup {s}
    /\ UNCHANGED <<sync, task, saved>>

(* rpcProducer resolves (RpcContract: with a reply to this very request).  *)
Reply(s) ==
    /\ up
    /\ task[s] = "calling"
    /\ s \in executed
    /\ Goes(s, "saving")
    /\ UNCHANGED <<sync, orders>>

(* rpcProducer rejects, or save does: the order may have been stored all   *)
(* the same, if the database's answer is what was lost.                    *)
Fail(s) ==
    /\ up
    /\ task[s] \in {"calling", "saving"}
    /\ Goes(s, "failed")
    /\ \/ UNCHANGED saved
       \/ task[s] = "saving" /\ saved' = saved \cup {s}
    /\ UNCHANGED <<sync, executed>>

Save(s) ==
    /\ up
    /\ task[s] = "saving"
    /\ saved' = saved \cup {s}
    /\ Goes(s, "synced")
    /\ UNCHANGED <<sync, executed>>

-----------------------------------------------------------------------------
ClientStep ==
    \/ \E l \in Loops : \/ \E t \in Tasks : Initialize(t, l)
                        \/ ConnectOk(l) \/ ConnectFail(l) \/ DelayOver(l) \/ TimerFires(l)
    \/ \E k \in Conns : ConnectionEnds(k) \/ PoolReady(k) \/ PoolFails(k)
    \/ QueueReady
    \/ QueueFails

SyncStep(s) ==
    Sync(s) \/ Produce(s) \/ Execute(s) \/ Reply(s) \/ Fail(s) \/ Save(s)

Next == ClientStep \/ \E s \in Syncs : SyncStep(s)

Spec == Init /\ [][Next]_vars

(* A connection attempt is answered one way or the other, timers fire, a   *)
(* pool is filled or refused, and the broker answers setupQueue.  A call   *)
(* of rpcProducer ends, if only by its timeout (RpcProducer's CallsEnd),   *)
(* and so does a save.                                                     *)
Fairness ==
    /\ \A l \in Loops : /\ WF_vars(ConnectOk(l) \/ ConnectFail(l))
                        /\ WF_vars(DelayOver(l))
    /\ \A k \in Conns : WF_vars(PoolReady(k) \/ PoolFails(k))
    /\ WF_vars(QueueReady \/ QueueFails)
    /\ \A s \in Syncs : WF_vars(Produce(s) \/ Reply(s) \/ Fail(s) \/ Save(s))

FairSpec == Spec /\ Fairness
-----------------------------------------------------------------------------
TypeOK ==
    /\ CM!TypeOK
    /\ up \in BOOLEAN
    /\ state \in {"connected", "closed"}
    /\ preparing \subseteq Conns
    /\ pairs \in Nat
    /\ queueing \in Nat
    /\ health \in {"none", "healthy", "unhealthy"}
    /\ task \in [Tasks -> {"idle", "initializing", "serving", "producing", "refused",
                           "calling", "saving", "failed", "synced"}]
    /\ slot \in [Tasks -> Loops]
    /\ executed \subseteq Syncs
    /\ saved \subseteq Syncs

(* 'All services are healthy': while the gateway serves requests and does  *)
(* not report RabbitMQ unhealthy, the client has a connection.             *)
HealthReportsConnection == up /\ Serving /\ ReportsHealthy => connection # None

(* The health record follows the client through every loss, reconnection   *)
(* and repeated initialization: it says healthy only while the client can  *)
(* send, and no 'ready' of the client goes unheard.                        *)
HealthIsAccurate ==
    up => /\ health = "healthy" => state = "connected"
          /\ state = "connected" => health = "healthy" \/ queueing > 0

(* The gateway never has two connections, or one and a loop about to open  *)
(* another, although every sync before the first record calls initialize.  *)
OneConnection == Cardinality(open) + Cardinality(CM!Active) + timers <= 1

(* The gateway gives up only after every host has failed as often as       *)
(* configured since the last success, whoever called initialize by then.   *)
EveryHostWasTried ==
    attempts >= CM!MaxAttempts => \A h \in CM!Hosts : tried[h] = AttemptsPerHost

(* An order is stored, and a sync succeeds, only after the CRM executed    *)
(* it, whatever the connection did in between.                             *)
StoredMeansExecuted ==
    /\ saved \subseteq executed
    /\ \A s \in Syncs : task[s] = "synced" => s \in saved

(* A request's outcome, once it has one.                                   *)
Outcome(s) == IF task[s] \in {"synced", "failed", "refused"} THEN task[s] ELSE "none"

Forwarding == INSTANCE OrderForwarding
              WITH outcome <- [s \in Syncs |-> Outcome(s)]

(* The gateway, with its racing initializations, stale health record and   *)
(* late executions, forwards orders as OrderForwarding promises: above     *)
(* all, the order of a request that was refused is never executed.         *)
KeepsForwarding == Forwarding!Spec

(* No task waits for ever: the start-up serves and a request is answered,  *)
(* whichever loop it awaits and whatever happens to the connection.        *)
TasksEnd ==
    \A t \in Tasks : task[t] \in {"initializing", "producing", "calling", "saving"}
                        ~> task[t] \in {"serving", "synced", "failed", "refused"} \/ ~up

(* A connection that lasts is reported healthy in the end, unless a        *)
(* channel of its pool was refused, which the code never tries again.      *)
LastingConnectionIsReported ==
    \A k \in Conns :
        up /\ connection = k ~> \/ ~up
                                \/ connection # k
                                \/ health = "healthy"
                                \/ state = "closed" /\ k \notin preparing

(* 'forwards it over RabbitMQ': a sync is not refused while the client has *)
(* a connection.                                                           *)
ForwardsOrders ==
    [][\A s \in Syncs : task[s] = "producing" /\ connection # None
                            => task'[s] # "refused"]_vars
=============================================================================
