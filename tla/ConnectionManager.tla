------------------------- MODULE ConnectionManager --------------------------
(***************************************************************************)
(* Connecting, failing over and reconnecting: class ConnectionManager of   *)
(* libs/rabbitmq-client-ts/src/client/connection-manager.ts.               *)
(*                                                                         *)
(* Every initialize call and every reconnect timer runs createConnection,  *)
(* an asynchronous loop; the loops in progress share this.connection,      *)
(* reconnectAttempts, currentHostIndex and reconnectTimeout.  A slot of    *)
(* Loops stands for one loop, and an action is the code between two of its *)
(* awaits (connect, delay) or the handler of one connection event.         *)
(*                                                                         *)
(* createConnection throws only when the attempts are used up, so the      *)
(* branch of tryReconnect's catch that would call reconnect is never taken *)
(* and a loop that throws simply ends, whoever started it.  Missing        *)
(* credentials throw inside the loop's try and count as a failed attempt.  *)
(***************************************************************************)
EXTENDS Integers, FiniteSets

CONSTANTS Loops,            \* slots for calls of createConnection
          Conns,            \* connection objects alive at one time
          None,             \* null
          NumHosts,         \* hosts.length, 1 when hosts is a string
          AttemptsPerHost,  \* constructor argument maxReconnectAttempts
          MaxInitCalls      \* bound: calls of initialize in a behaviour

ASSUME ConnectionAssumption ==
    /\ IsFiniteSet(Loops)
    /\ IsFiniteSet(Conns)
    /\ None \notin Conns
    /\ NumHosts \in Nat \ {0}
    /\ AttemptsPerHost \in Nat \ {0}
    /\ MaxInitCalls \in Nat

Hosts == 0 .. NumHosts - 1

VARIABLES
    connection,  \* this.connection
    open,        \* connections that are up; all have the manager's listeners
    attempts,    \* this.reconnectAttempts
    hostIndex,   \* this.currentHostIndex
    timers,      \* armed reconnect timers
    pc,          \* of each loop: "idle", "connecting", "delaying"
    target,      \* the host a loop is connecting to
    tried,       \* history: failures per host since attempts was last reset
    calls        \* history: initialize calls (bounded by MaxInitCalls)

vars == <<connection, open, attempts, hostIndex, timers, pc, target, tried, calls>>

(* The constructor multiplies the limit by the number of hosts.            *)
MaxAttempts == AttemptsPerHost * NumHosts

Untried == [h \in Hosts |-> 0]

Init ==
    /\ connection = None
    /\ open = {}
    /\ attempts = 0
    /\ hostIndex = 0
    /\ timers = 0
    /\ pc = [l \in Loops |-> "idle"]
    /\ target = [l \in Loops |-> 0]
    /\ tried = Untried
    /\ calls = 0

Active == {l \in Loops : pc[l] # "idle"}

-----------------------------------------------------------------------------
(* createConnection.                                                       *)

(* Mutant: one attempt more than the limit.                                *)
LoopTopOneMore(l) ==
    IF attempts <= MaxAttempts /\ connection = None
      THEN /\ pc' = [pc EXCEPT ![l] = "connecting"]
           /\ target' = [target EXCEPT ![l] = hostIndex]
      ELSE /\ pc' = [pc EXCEPT ![l] = "idle"]
           /\ UNCHANGED target

(* The top of the loop: throw if the attempts are used up, return if there *)
(* is a connection, else start connecting to the current host.             *)
LoopTop(l) ==
    IF attempts < MaxAttempts /\ connection = None
      THEN /\ pc' = [pc EXCEPT ![l] = "connecting"]
           /\ target' = [target EXCEPT ![l] = hostIndex]
      ELSE /\ pc' = [pc EXCEPT ![l] = "idle"]
           /\ UNCHANGED target

Initialize(l) ==
    /\ pc[l] = "idle"
    /\ calls < MaxInitCalls
    /\ calls' = calls + 1
    /\ LoopTop(l)
    /\ UNCHANGED <<connection, open, attempts, hostIndex, timers, tried>>

(* connect resolved: this.connection is overwritten even if another loop   *)
(* has set it in the meantime.                                             *)
ConnectOk(l) ==
    /\ pc[l] = "connecting"
    /\ \E k \in Conns \ open : /\ connection' = k
                               /\ open' = open \cup {k}
    /\ attempts' = 0
    /\ tried' = Untried
    /\ pc' = [pc EXCEPT ![l] = "idle"]
    /\ UNCHANGED <<hostIndex, timers, target, calls>>

(* Mutants: the index is not wrapped, the host is not changed, the failure *)
(* ends the loop, the failure is not counted.                              *)
ConnectFailUnwrapped(l) ==
    /\ pc[l] = "connecting"
    /\ attempts' = attempts + 1
    /\ hostIndex' = hostIndex + 1
    /\ tried' = [tried EXCEPT ![target[l]] = @ + 1]
    /\ pc' = [pc EXCEPT ![l] = IF attempts + 1 >= MaxAttempts THEN "idle" ELSE "delaying"]
    /\ UNCHANGED <<connection, open, timers, target, calls>>

ConnectFailSameHost(l) ==
    /\ pc[l] = "connecting"
    /\ attempts' = attempts + 1
    /\ tried' = [tried EXCEPT ![target[l]] = @ + 1]
    /\ pc' = [pc EXCEPT ![l] = IF attempts + 1 >= MaxAttempts THEN "idle" ELSE "delaying"]
    /\ UNCHANGED <<connection, open, hostIndex, timers, target, calls>>

ConnectFailEnds(l) ==
    /\ pc[l] = "connecting"
    /\ attempts' = attempts + 1
    /\ hostIndex' = (hostIndex + 1) % NumHosts
    /\ tried' = [tried EXCEPT ![target[l]] = @ + 1]
    /\ pc' = [pc EXCEPT ![l] = "idle"]
    /\ UNCHANGED <<connection, open, timers, target, calls>>

ConnectFailUncounted(l) ==
    /\ pc[l] = "connecting"
    /\ hostIndex' = (hostIndex + 1) % NumHosts
    /\ pc' = [pc EXCEPT ![l] = "delaying"]
    /\ UNCHANGED <<connection, open, attempts, timers, target, tried, calls>>

(* connect rejected: count, go to the next host, then throw or wait.       *)
ConnectFail(l) ==
    /\ pc[l] = "connecting"
    /\ attempts' = attempts + 1
    /\ hostIndex' = (hostIndex + 1) % NumHosts
    /\ tried' = [tried EXCEPT ![target[l]] = @ + 1]
    /\ pc' = [pc EXCEPT ![l] = IF attempts + 1 >= MaxAttempts THEN "idle"
                                                             ELSE "delaying"]
    /\ UNCHANGED <<connection, open, timers, target, calls>>

DelayOver(l) ==
    /\ pc[l] = "delaying"
    /\ LoopTop(l)
    /\ UNCHANGED <<connection, open, attempts, hostIndex, timers, tried, calls>>

-----------------------------------------------------------------------------
(* Connection events and the reconnect timer.                              *)

(* Mutant: the pending timer is not cleared.                               *)
RearmAdds(n) == n + 1

(* reconnect: clear the pending timer, if any, and set another.            *)
Rearm(n) == 1

(* Mutant: this.connection is not forgotten.                               *)
ConnectionEndsKept(k) ==
    /\ k \in open
    /\ open' = open \ {k}
    /\ attempts' = 0
    /\ tried' = Untried
    /\ timers' = Rearm(timers)
    /\ UNCHANGED <<connection, hostIndex, pc, target, calls>>

(* A connection ends.  Its 'close' handler, and before it the 'error'      *)
(* handler unless the end was orderly, forgets this.connection, whichever  *)
(* connection that is by now, resets the attempts and calls reconnect.     *)
ConnectionEnds(k) ==
    /\ k \in open
    /\ open' = open \ {k}
    /\ connection' = None
    /\ attempts' = 0
    /\ tried' = Untried
    /\ \/ timers' = Rearm(timers)             \* 'close' alone
       \/ timers' = Rearm(Rearm(timers))      \* 'error', then 'close'
    /\ UNCHANGED <<hostIndex, pc, target, calls>>

(* The timer runs tryReconnect, which runs createConnection.               *)
TimerFires(l) ==
    /\ timers > 0
    /\ pc[l] = "idle"
    /\ timers' = timers - 1
    /\ LoopTop(l)
    /\ UNCHANGED <<connection, open, attempts, hostIndex, tried, calls>>

-----------------------------------------------------------------------------
LoopStep(l) ==
    \/ Initialize(l)
    \/ ConnectOk(l)
    \/ ConnectFail(l)
    \/ DelayOver(l)
    \/ TimerFires(l)

Next ==
    \/ \E l \in Loops : LoopStep(l)
    \/ \E k \in Conns : ConnectionEnds(k)

Spec == Init /\ [][Next]_vars

(* A connection attempt is answered one way or the other, and timers fire. *)
Fairness ==
    /\ \A l \in Loops : /\ WF_vars(ConnectOk(l) \/ ConnectFail(l))
                        /\ WF_vars(DelayOver(l))
    /\ WF_vars(\E l \in Loops : TimerFires(l))

FairSpec == Spec /\ Fairness
-----------------------------------------------------------------------------
TypeOK ==
    /\ connection \in Conns \cup {None}
    /\ open \subseteq Conns
    /\ attempts \in Nat
    /\ hostIndex \in Hosts
    /\ timers \in Nat
    /\ pc \in [Loops -> {"idle", "connecting", "delaying"}]
    /\ target \in [Loops -> Hosts]
    /\ tried \in [Hosts -> Nat]
    /\ calls \in 0 .. MaxInitCalls

(* Each initialize call is worth one connection: the connections that are  *)
(* up, the loops that may open one and the timers that may start a loop    *)
(* are never more than the calls made.  In particular a client initialized *)
(* once never has two connections, however its connections end and however *)
(* often 'error' and 'close' both start a reconnection.                    *)
ConnectionBudget ==
    Cardinality(open) + Cardinality(Active) + timers <= calls

(* What getConnection hands to the channel pool is up, even when loops     *)
(* overwrite each other's connections and forgotten ones end late.         *)
CurrentIsLive == connection # None => connection \in open

(* A client that was started and has no connection is still trying (a loop *)
(* runs or a timer is armed) or has used up its attempts: no order of      *)
(* failures, ends and concurrent loops leaves it waiting for nothing.      *)
NeverStranded ==
    calls > 0 /\ connection = None =>
        Active # {} \/ timers > 0 \/ attempts >= MaxAttempts

(* A client initialized once gives up only after every host has failed     *)
(* maxReconnectAttempts times since the last success: the limit scaled by  *)
(* the number of hosts and the rotation on failure agree.                  *)
GiveUpTriesEveryHost ==
    calls = 1 /\ attempts >= MaxAttempts => \A h \in Hosts : tried[h] = AttemptsPerHost

(* The end of the road: nothing is up, nothing runs, attempts used up.     *)
GivenUp == /\ open = {} /\ Active = {} /\ timers = 0
           /\ attempts >= MaxAttempts

(* Giving up is final: nothing resets the attempts any more, so a later    *)
(* initialize throws at once and the client never connects again.          *)
GiveUpIsFinal == [][GivenUp => GivenUp']_vars

(* A client that has lost its connection gets another or gives up.         *)
Recovers == (calls > 0 /\ connection = None)
                ~> (connection # None \/ attempts >= MaxAttempts)
=============================================================================
