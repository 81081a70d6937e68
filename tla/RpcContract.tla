----------------------------- MODULE RpcContract ----------------------------
(***************************************************************************)
(* What a caller of rpcProducer may rely on, without channels, queues or   *)
(* timers.  A call ends once; a result or an error reply it ends with was  *)
(* produced by an execution of that very request; any other end says       *)
(* nothing about whether the request was executed, before or after it.     *)
(***************************************************************************)
EXTENDS Naturals

CONSTANTS Requests, Outcomes

(* Outcomes that carry a reply of the consuming service.                   *)
Replied == {"result", "error"}

VARIABLES outcome,   \* how each call ended, "none" while it has not
          executed   \* the kinds of reply the service produced for a request

vars == <<outcome, executed>>

Init == /\ outcome = [r \in Requests |-> "none"]
        /\ executed = [r \in Requests |-> {}]

(* The service executes a request, perhaps again and with another reply.   *)
Execute(r) ==
    /\ \E kind \in {"result", "error", "malformed"} :
         executed' = [executed EXCEPT ![r] = @ \cup {kind}]
    /\ UNCHANGED outcome

(* One call ends.                                                          *)
End(r) ==
    /\ outcome[r] = "none"
    /\ \E o \in Outcomes : /\ o \in Replied => o \in executed[r]
                           /\ outcome' = [outcome EXCEPT ![r] = o]
    /\ UNCHANGED executed

Next == \E r \in Requests : Execute(r) \/ End(r)

Spec == Init /\ [][Next]_vars
=============================================================================
