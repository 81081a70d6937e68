----------------------------- MODULE AccountStore ----------------------------
(***************************************************************************)
(* What the gateway promises of its accounts, without a lookup, an insert, *)
(* a process or a restart: a name belongs for ever to whoever registered   *)
(* it first; a sign-up is told "created" only if that was this sign-up,    *)
(* and "conflict" only if it was not; an error says nothing.  The seeded   *)
(* names are taken together, before anyone can sign up.                    *)
(***************************************************************************)
CONSTANTS Calls, Names, Seeded, Seeder, Nobody

VARIABLES owner,   \* who has registered a name
          wants,   \* the name a sign-up asks for, Nobody while it has not
          answer   \* what it was told, "none" while nothing

vars == <<owner, wants, answer>>

Init == /\ owner = [n \in Names |-> Nobody]
        /\ wants = [c \in Calls |-> Nobody]
        /\ answer = [c \in Calls |-> "none"]

Seed == /\ \A n \in Names : owner[n] = Nobody
        /\ owner' = [n \in Names |-> IF n \in Seeded THEN Seeder ELSE Nobody]
        /\ UNCHANGED <<wants, answer>>

SignUp(c) == /\ wants[c] = Nobody
             /\ \A n \in Seeded : owner[n] # Nobody
             /\ \E n \in Names : wants' = [wants EXCEPT ![c] = n]
             /\ UNCHANGED <<owner, answer>>

Register(c) == /\ wants[c] # Nobody
               /\ owner[wants[c]] = Nobody
               /\ answer[c] = "none"
               /\ owner' = [owner EXCEPT ![wants[c]] = c]
               /\ UNCHANGED <<wants, answer>>

Answer(c) == /\ wants[c] # Nobody
             /\ answer[c] = "none"
             /\ \E a \in {"created", "conflict", "error"} :
                  /\ a = "created" => owner[wants[c]] = c
                  /\ a = "conflict" => owner[wants[c]] \notin {c, Nobody}
                  /\ answer' = [answer EXCEPT ![c] = a]
             /\ UNCHANGED <<owner, wants>>

Next == Seed \/ \E c \in Calls : SignUp(c) \/ Register(c) \/ Answer(c)

Spec == Init /\ [][Next]_vars
=============================================================================
