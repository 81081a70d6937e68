--------------------------- MODULE OrderForwarding ---------------------------
(***************************************************************************)
(* What the gateway promises of the orders it is asked to forward, without *)
(* a client, a connection or a health record.  A request ends once.  It    *)
(* ends "synced" with the order executed by the CRM and stored; "refused"  *)
(* only if the CRM has not executed the order and never will, so that the  *)
(* caller may safely try again; and "failed" without a word about either.  *)
(***************************************************************************)
CONSTANTS Syncs

VARIABLES outcome,   \* how each request ended, "none" while it has not
          executed,  \* orders that the CRM has executed
          saved      \* orders stored by the gateway

vars == <<outcome, executed, saved>>

Init == /\ outcome = [s \in Syncs |-> "none"]
        /\ executed = {}
        /\ saved = {}

Ends(s, how) == outcome[s] = "none" /\ outcome' = [outcome EXCEPT ![s] = how]

(* A refused order is executed neither before nor after the refusal.       *)
Execute(s) == /\ outcome[s] # "refused"
              /\ executed' = executed \cup {s}
              /\ UNCHANGED <<outcome, saved>>

Refuse(s) == /\ s \notin executed
             /\ Ends(s, "refused")
             /\ UNCHANGED <<executed, saved>>

Store(s) == /\ s \in executed
            /\ Ends(s, "synced")
            /\ saved' = saved \cup {s}
            /\ UNCHANGED executed

(* An executed order may have been stored although its request failed.     *)
Fail(s) == /\ Ends(s, "failed")
           /\ \/ UNCHANGED saved
              \/ s \in executed /\ saved' = saved \cup {s}
           /\ UNCHANGED executed

Next == \E s \in Syncs : Execute(s) \/ Refuse(s) \/ Store(s) \/ Fail(s)

Spec == Init /\ [][Next]_vars
=============================================================================
