---------------------------- MODULE ChannelLeases ----------------------------
(***************************************************************************)
(* What the users of the channel pool may rely on, without the loops of    *)
(* initializePool and closeAllChannels, replacements on order, sizes and   *)
(* the connection.  A channel is made for the pool, goes from there to one *)
(* caller, and from a caller only back to the pool or out of use; what is  *)
(* out of use is closed or about to be, and comes back only as a new one.  *)
(* The server may close any channel; that ends no lease.                   *)
(***************************************************************************)

CONSTANTS Channels, Callers, NoChannel

VARIABLES pooled,    \* the channels in the pool
          loan,      \* the channel that each caller has, or NoChannel
          status     \* of each channel: "open", "closing", "closed"

vars == <<pooled, loan, status>>

Lent == {ch \in Channels : \E c \in Callers : loan[c] = ch}

Init == /\ pooled = {}
        /\ loan = [c \in Callers |-> NoChannel]
        /\ status = [ch \in Channels |-> "closed"]

Closes(ch) == status' = [status EXCEPT ![ch] = IF @ = "open" THEN "closing" ELSE @]

Make(ch) == /\ ch \notin pooled \cup Lent
            /\ status[ch] = "closed"
            /\ pooled' = pooled \cup {ch}
            /\ status' = [status EXCEPT ![ch] = "open"]
            /\ UNCHANGED loan

Lend(ch, c) == /\ ch \in pooled
               /\ loan[c] = NoChannel
               /\ pooled' = pooled \ {ch}
               /\ loan' = [loan EXCEPT ![c] = ch]
               /\ UNCHANGED status

GiveBack(c) == /\ loan[c] \in Channels
               /\ pooled' = pooled \cup {loan[c]}
               /\ loan' = [loan EXCEPT ![c] = NoChannel]
               /\ UNCHANGED status

(* A lease that ends in a close instead, and a pooled channel swept out.   *)
Retire(c) == /\ loan[c] \in Channels
             /\ Closes(loan[c])
             /\ loan' = [loan EXCEPT ![c] = NoChannel]
             /\ UNCHANGED pooled

Sweep(ch) == /\ ch \in pooled
             /\ Closes(ch)
             /\ pooled' = pooled \ {ch}
             /\ UNCHANGED loan

(* The server closes some channels; some of these leave the pool.          *)
Close(S) == /\ status' = [ch \in Channels |-> IF ch \in S THEN "closed" ELSE status[ch]]
            /\ \E T \in SUBSET S : pooled' = pooled \ T
            /\ UNCHANGED loan

Next == \/ \E ch \in Channels : \/ Make(ch) \/ Sweep(ch)
                                \/ \E c \in Callers : Lend(ch, c)
        \/ \E c \in Callers : GiveBack(c) \/ Retire(c)
        \/ \E S \in SUBSET Channels : Close(S)

Spec == Init /\ [][Next]_vars
=============================================================================
