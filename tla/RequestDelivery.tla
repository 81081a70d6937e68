--------------------------- MODULE RequestDelivery ---------------------------
(***************************************************************************)
(* What the sender of a request may rely on, without channels, consumers,  *)
(* retries or a process: delivery at least once.  A request is answered    *)
(* only while it is handed out; it leaves the queue for good only after an *)
(* answer to it has arrived; and until then it is put back, by whatever    *)
(* fails, as if it had never been handed out.  An answer does not keep it  *)
(* from being put back, so it may be executed and answered again.          *)
(***************************************************************************)
CONSTANTS Messages

VARIABLES place,     \* where each request is: "queued", "held", "acked", "dead"
          answered   \* whether an answer to it has arrived

vars == <<place, answered>>

Init == /\ place = [m \in Messages |-> "queued"]
        /\ answered = [m \in Messages |-> FALSE]

HandOut(m) == /\ place[m] = "queued"
              /\ place' = [place EXCEPT ![m] = "held"]
              /\ UNCHANGED answered

Answer(m) == /\ place[m] = "held"
             /\ answered' = [answered EXCEPT ![m] = TRUE]
             /\ UNCHANGED place

(* The service accepts the request, or rejects it for good.                *)
Settle(m) == /\ place[m] = "held" /\ answered[m]
             /\ \E how \in {"acked", "dead"} : place' = [place EXCEPT ![m] = how]
             /\ UNCHANGED answered

(* Any number of requests come back at once.                               *)
PutBack(M) == /\ \A m \in M : place[m] = "held"
              /\ place' = [m \in Messages |-> IF m \in M THEN "queued" ELSE place[m]]
              /\ UNCHANGED answered

Next == \/ \E m \in Messages : HandOut(m) \/ Answer(m) \/ Settle(m)
        \/ \E M \in SUBSET Messages : PutBack(M)

Spec == Init /\ [][Next]_vars
=============================================================================
