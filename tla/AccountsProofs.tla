--------------------------- MODULE AccountsProofs ----------------------------
(***************************************************************************)
(* The accounts, proved for any number of requests, names, passwords,      *)
(* salts, environments and ends of the process.                            *)
(***************************************************************************)
EXTENDS Accounts, TLAPS

LEMMA Constants ==
  /\ Student \in Seeds /\ Student \in Names /\ Admin \in Names /\ Student # Admin
  /\ \A n \in Seeds : n \in Names
  /\ StudentPassword \in Passwords /\ AdminPassword \in Passwords
  /\ DefaultSalt \in Salts /\ Seeder \notin Calls /\ NoRow \notin Rows
  /\ MaxFaults \in Nat
BY AccountsAssumption DEF Seeds

LEMMA NewRowType ==
  ASSUME TypeOK, NEW c \in Calls, request[c] \in Requests
  PROVE  NewRow(c) \in Rows /\ NewRow(c) # NoRow
<1>1. Hash(request[c].password) \in Salts \X Passwords
  BY DEF TypeOK, Hash, Requests
<1>2. NewRow(c) \in Rows
  BY <1>1 DEF NewRow, Rows
<1> QED
  BY <1>2, Constants

LEMMA SeededUsersType ==
  ASSUME TypeOK
  PROVE  /\ SeededUsers \in [Names -> Rows \cup {NoRow}]
         /\ \A n \in Seeds : SeededUsers[n] \in Rows /\ SeededUsers[n].by = Seeder
         /\ \A n \in Names \ Seeds : SeededUsers[n] = users[n]
<1>1. /\ [by |-> Seeder, hash |-> Hash(StudentPassword)] \in Rows
      /\ [by |-> Seeder, hash |-> <<DefaultSalt, AdminPassword>>] \in Rows
  BY Constants DEF TypeOK, Hash, Rows
<1> QED
  BY <1>1, Constants DEF SeededUsers, Seeds, TypeOK

-----------------------------------------------------------------------------
(* Types.                                                                  *)

(* A request in progress is a request, and one that is not is not there.   *)
Asked == \A c \in Calls : IF pc[c] = "idle"
                            THEN request[c] = Absent /\ answer[c] = "none"
                            ELSE request[c] \in Requests

LEMMA InitType == Init => TypeOK /\ Asked
BY Constants DEF Init, TypeOK, Asked

LEMMA NextType == TypeOK /\ Asked /\ [Next]_vars => TypeOK' /\ Asked'
<1> SUFFICES ASSUME TypeOK, Asked, [Next]_vars
             PROVE  TypeOK' /\ Asked'
  OBVIOUS
<1>1. CASE Start \/ StartFails
  BY <1>1 DEF Start, StartFails, calls, TypeOK, Asked
<1>2. CASE CountUsers \/ CountOrders \/ FindStudent \/ SaveOrders
  BY <1>2 DEF CountUsers, CountOrders, FindStudent, SaveOrders, calls, TypeOK, Asked
<1>3. CASE SaveUsers
  BY <1>3, SeededUsersType DEF SaveUsers, calls, TypeOK, Asked
<1>4. CASE Ends
  <2>1. users' \in [Names -> Rows \cup {NoRow}] /\ demos' \in Nat
    BY <1>4, SeededUsersType DEF Ends, TypeOK
  <2>2. faults' \in 0 .. MaxFaults /\ proc' = "down" /\ UNCHANGED <<env, salt, calls>>
    BY <1>4, Constants DEF Ends, TypeOK
  <2> QED
    BY <2>1, <2>2 DEF calls, TypeOK, Asked
<1>5. ASSUME NEW c \in Calls, Ask(c)
      PROVE  TypeOK' /\ Asked'
  BY <1>5 DEF Ask, Goes, start, database, TypeOK, Asked
<1>6. ASSUME NEW c \in Calls, LookupSignUp(c) \/ LookupLogin(c) \/ LookupFails(c) \/ Saved(c)
      PROVE  TypeOK' /\ Asked'
  <2>1. UNCHANGED <<start, database, request>> /\ pc[c] # "idle"
    BY <1>6 DEF LookupSignUp, LookupLogin, LookupFails, Saved
  <2>2. \/ Goes(c, "inserting") /\ UNCHANGED answer
        \/ \E a \in {"created", "conflict", "unauthorized", "token", "error"} : Told(c, a)
    BY <1>6 DEF LookupSignUp, LookupLogin, LookupFails, Saved
  <2> QED
    BY <2>1, <2>2 DEF Told, Goes, start, database, TypeOK, Asked
<1>7. ASSUME NEW c \in Calls, Insert(c)
      PROVE  TypeOK' /\ Asked'
  <2>1. pc[c] = "inserting" /\ request[c] \in Requests
    BY <1>7 DEF Insert, Asked
  <2>2. users' \in [Names -> Rows \cup {NoRow}]
    BY <1>7, <2>1, NewRowType DEF Insert, TypeOK
  <2>3. Goes(c, "inserted") \/ Goes(c, "failed")
    BY <1>7 DEF Insert
  <2> QED
    BY <1>7, <2>1, <2>2, <2>3 DEF Insert, Goes, start, TypeOK, Asked
<1>8. CASE UNCHANGED vars
  BY <1>8 DEF vars, start, calls, TypeOK, Asked
<1> QED
  BY <1>1, <1>2, <1>3, <1>4, <1>5, <1>6, <1>7, <1>8 DEF Next, Starting, CallStep

(* Every variable keeps its type: rows are rows, hashes are salted.        *)
THEOREM TypeCorrect == Spec => []TypeOK
BY InitType, NextType, PTL DEF Spec

(* A process runs on the environment it has started with.                  *)
UpMeansStarted == proc # "down" => Starts(env)

(* Between the schema and the client's constructor nothing of the fallback *)
(* in config() gets through, in any set of environments.                   *)
THEOREM FallbackIsNeverUsed == Spec => []NeverOnFallback
<1>1. Init => UpMeansStarted
  BY DEF Init, UpMeansStarted
<1>2. UpMeansStarted /\ [Next]_vars => UpMeansStarted'
  <2> SUFFICES ASSUME UpMeansStarted, [Next]_vars
               PROVE  UpMeansStarted'
    OBVIOUS
  <2>1. CASE Start \/ StartFails
    BY <2>1 DEF Start, StartFails, UpMeansStarted
  <2>2. CASE CountUsers \/ SaveUsers \/ CountOrders \/ FindStudent \/ SaveOrders \/ Ends
    BY <2>2 DEF CountUsers, SaveUsers, CountOrders, FindStudent, SaveOrders, Ends,
                UpMeansStarted
  <2>3. ASSUME NEW c \in Calls, Ask(c) \/ CallStep(c)
        PROVE  UpMeansStarted'
    BY <2>3 DEF Ask, CallStep, LookupSignUp, LookupLogin, LookupFails, Insert, Saved, start,
                UpMeansStarted
  <2>4. CASE UNCHANGED vars
    BY <2>4 DEF vars, start, UpMeansStarted
  <2> QED
    BY <2>1, <2>2, <2>3, <2>4 DEF Next, Starting
<1>3. TypeOK /\ UpMeansStarted => NeverOnFallback
  <2> SUFFICES ASSUME env \in Environment, Starts(env)
               PROVE  /\ env.scopes \in {"unset", "list"}
                      /\ env.hosts \in {"list", "string", "falsy"}
    BY AccountsAssumption DEF TypeOK, UpMeansStarted, NeverOnFallback
  <2>1. Parses(env)
    BY DEF Starts, Connectable, Hosts
  <2>2. Scopes(env) \in {"list", "emptyList"} /\ Hosts(env) \in {"list", "string"}
    BY DEF Starts, Accepted, Connectable
  <2> QED
    BY <2>1, <2>2 DEF Parses, Scopes, Hosts, Environment
<1> QED
  BY <1>1, <1>2, <1>3, TypeCorrect, PTL DEF Spec

-----------------------------------------------------------------------------
(* The invariant of the start.                                             *)

Seeded == \A n \in Seeds : Taken(n) /\ users[n].by = Seeder

Unseeded == \A n \in Names : ~Taken(n)

(* There are no users, or the seeded ones are among them; there are the    *)
(* seeded ones once their save is over, and before anybody asks anything.  *)
UsersSeeded ==
    /\ Unseeded \/ Seeded
    /\ proc = "savingUsers" => Unseeded
    /\ proc \in {"countingOrders", "findingStudent", "savingOrders", "serving"} => Seeded
    /\ \A c \in Calls : pc[c] # "idle" => Seeded

OrdersSeeded ==
    /\ demos <= 1
    /\ proc \in {"findingStudent", "savingOrders"} => demos = 0
    /\ proc = "serving" => demos = 1

(* Rows are only added, and only for names that are free.                  *)
Grows == \A n \in Names : Taken(n) => users'[n] = users[n]

LEMMA SeededStays ==
  ASSUME Grows, Seeded, NEW n \in Seeds
  PROVE  users'[n] = users[n]
BY Constants DEF Grows, Seeded

LEMMA SeedingSeeds ==
  ASSUME TypeOK, Unseeded, users' = SeededUsers
  PROVE  Seeded' /\ Grows
BY SeededUsersType, Constants DEF Seeded, Unseeded, Grows, Taken

LEMMA InsertingGrows ==
  ASSUME TypeOK, Asked, NEW c \in Calls, Insert(c)
  PROVE  Grows
BY DEF Insert, Grows, Taken, TypeOK

LEMMA NextSeeded == TypeOK /\ Asked /\ UsersSeeded /\ OrdersSeeded /\ [Next]_vars
                        => UsersSeeded' /\ OrdersSeeded'
<1> SUFFICES ASSUME TypeOK, Asked, UsersSeeded, OrdersSeeded, [Next]_vars
             PROVE  UsersSeeded' /\ OrdersSeeded'
  OBVIOUS
<1>0. UNCHANGED users => (Seeded' <=> Seeded) /\ (Unseeded' <=> Unseeded)
  BY DEF Seeded, Unseeded, Taken
<1>1. CASE Start \/ StartFails
  BY <1>0, <1>1 DEF Start, StartFails, calls, UsersSeeded, OrdersSeeded, TypeOK
<1>2. CASE CountUsers
  <2>1. UNCHANGED <<users, demos, pc>> /\ proc' \in {"savingUsers", "countingOrders"}
    BY <1>2 DEF CountUsers, calls
  <2>2. proc' = "savingUsers" <=> Unseeded
    BY <1>2 DEF CountUsers, Unseeded
  <2> QED
    BY <1>0, <2>1, <2>2 DEF UsersSeeded, OrdersSeeded
<1>3. CASE CountOrders \/ FindStudent
  <2>1. UNCHANGED <<users, demos, pc>> /\ Seeded
    BY <1>3 DEF CountOrders, FindStudent, UsersSeeded, calls
  <2>2. Taken(Student)
    BY <2>1, Constants DEF Seeded
  <2>3. \/ proc' = "findingStudent" /\ demos = 0
        \/ proc' = "savingOrders" /\ demos = 0
        \/ proc' = "serving" /\ demos = 1
    BY <1>3, <2>2 DEF CountOrders, FindStudent, OrdersSeeded, TypeOK
  <2> QED
    BY <1>0, <2>1, <2>3 DEF UsersSeeded, OrdersSeeded
<1>4. CASE SaveOrders
  BY <1>0, <1>4 DEF SaveOrders, calls, UsersSeeded, OrdersSeeded
<1>5. CASE SaveUsers
  <2>1. Unseeded /\ UNCHANGED <<demos, pc>>
    BY <1>5 DEF SaveUsers, UsersSeeded, calls
  <2>2. users' = SeededUsers /\ proc' = "countingOrders"
    BY <1>5, <2>1, Constants DEF SaveUsers, Unseeded
  <2>3. Seeded'
    BY <2>1, <2>2, SeedingSeeds
  <2> QED
    BY <2>1, <2>2, <2>3 DEF UsersSeeded, OrdersSeeded
<1>6. CASE Ends
  <2>1. proc' = "down" /\ UNCHANGED pc /\ (UNCHANGED demos \/ demos' = 1)
    BY <1>6 DEF Ends, OrdersSeeded, calls
  <2>2. UNCHANGED users \/ (Unseeded /\ users' = SeededUsers)
    BY <1>6 DEF Ends, UsersSeeded
  <2>3. OrdersSeeded'
    BY <2>1 DEF OrdersSeeded
  <2> QED
    BY <1>0, <2>1, <2>2, <2>3, SeedingSeeds DEF UsersSeeded
<1>7. ASSUME NEW c \in Calls, Ask(c) \/ CallStep(c)
      PROVE  UsersSeeded' /\ OrdersSeeded'
  <2>1. /\ UNCHANGED <<proc, demos>> /\ Seeded
        /\ \A d \in Calls \ {c} : pc'[d] = pc[d]
    BY <1>7 DEF Ask, CallStep, LookupSignUp, LookupLogin, LookupFails, Insert, Saved, Told,
                Goes, Serving, start, database, UsersSeeded, TypeOK
  <2>2. Grows
    BY <1>7, InsertingGrows
       DEF Ask, CallStep, LookupSignUp, LookupLogin, LookupFails, Saved, database, Grows
  <2>3. Seeded'
    BY <2>1, <2>2, SeededStays DEF Seeded, Taken
  <2>4. proc # "savingUsers"
    BY <2>1, Constants DEF UsersSeeded, Unseeded, Seeded
  <2> QED
    BY <2>1, <2>3, <2>4 DEF UsersSeeded, OrdersSeeded
<1>8. CASE UNCHANGED vars
  BY <1>0, <1>8 DEF vars, start, calls, UsersSeeded, OrdersSeeded
<1> QED
  BY <1>1, <1>2, <1>3, <1>4, <1>5, <1>6, <1>7, <1>8 DEF Next, Starting

LEMMA InitSeeded == Init => UsersSeeded /\ OrdersSeeded
BY DEF Init, UsersSeeded, OrdersSeeded, Unseeded, Taken

LEMMA SeededHolds == Spec => [](TypeOK /\ Asked /\ UsersSeeded /\ OrdersSeeded)
BY InitType, NextType, InitSeeded, NextSeeded, PTL DEF Spec

(* A gateway that serves has its users and its demo orders, once each,     *)
(* however often and wherever earlier starts were interrupted.             *)
THEOREM ServingIsSeeded == Spec => []ServesSeeded
<1>1. UsersSeeded /\ OrdersSeeded => ServesSeeded
  BY Constants DEF UsersSeeded, OrdersSeeded, ServesSeeded, Serving, Seeded
<1> QED
  BY <1>1, SeededHolds, PTL

-----------------------------------------------------------------------------
(* The invariant of the requests.                                          *)

(* The row of a sign-up that was inserted.                                 *)
Owns(c) == /\ Taken(request[c].name) /\ Row(c).by = c
           /\ Row(c).hash[2] = request[c].password

Progress ==
    \A c \in Calls :
        /\ pc[c] # "ended" => answer[c] = "none"
        /\ pc[c] \in {"inserting", "inserted", "failed"} => request[c].kind = "signUp"
        /\ pc[c] = "inserted" => Owns(c)
        /\ answer[c] = "created" => Owns(c)
        /\ answer[c] = "token" => /\ request[c].kind = "login"
                                  /\ Taken(request[c].name)
                                  /\ Row(c).hash[2] = request[c].password

(* A call has a row only after its insert.                                 *)
RowsStem == \A c \in Calls : pc[c] \in {"idle", "looking", "inserting"} =>
                                \A n \in Names : Taken(n) => users[n].by # c

Answered == Progress /\ RowsStem

(* What is known of a request that is unchanged outlives growth.           *)
LEMMA GrowthKeeps ==
  ASSUME Grows, NEW c \in Calls, request[c] \in Requests, UNCHANGED <<request[c], pc[c], answer[c]>>,
         Progress
  PROVE  /\ Owns(c) => Owns(c)'
         /\ Taken(request[c].name) => Taken(request[c].name)' /\ Row(c)' = Row(c)
<1>1. request[c].name \in Names /\ request'[c] = request[c]
  BY DEF Requests
<1>2. Taken(request[c].name) => users'[request[c].name] = users[request[c].name]
  BY <1>1 DEF Grows
<1> QED
  BY <1>1, <1>2 DEF Owns, Taken, Row

LEMMA StartingAnswered ==
  ASSUME TypeOK, Asked, UsersSeeded, Answered, Starting \/ Ends \/ UNCHANGED vars
  PROVE  Answered'
<1>1. /\ UNCHANGED <<request, answer>>
      /\ pc' \in [Calls -> {"idle", "looking", "inserting", "inserted", "failed", "ended"}]
      /\ \A c \in Calls : pc'[c] = pc[c] \/ (pc'[c] = "ended" /\ pc[c] # "idle")
  BY DEF Starting, Start, StartFails, CountUsers, SaveUsers, CountOrders, FindStudent,
         SaveOrders, Ends, calls, vars, TypeOK
<1>2. UNCHANGED users \/ (Unseeded /\ users' = SeededUsers)
  BY Constants DEF Starting, Start, StartFails, CountUsers, SaveUsers, CountOrders,
         FindStudent, SaveOrders, Ends, vars, UsersSeeded, Unseeded
<1>3. CASE UNCHANGED users
  <2>1. Progress'
    BY <1>1, <1>3 DEF Answered, Progress, Owns, Taken, Row
  <2>2. RowsStem'
    BY <1>1, <1>3 DEF Answered, RowsStem, Taken
  <2> QED
    BY <2>1, <2>2 DEF Answered
<1>4. CASE Unseeded /\ users' = SeededUsers
  <2>1. \A c \in Calls : pc[c] = "idle" /\ request[c] = Absent /\ answer[c] = "none"
    BY <1>4, Constants DEF UsersSeeded, Unseeded, Seeded, Asked
  <2>2. \A c \in Calls : pc'[c] = "idle" /\ answer'[c] = "none"
    BY <1>1, <2>1
  <2>3. Progress'
    BY <2>2 DEF Progress
  <2>4. \A n \in Names : Taken(n)' => users'[n].by = Seeder
    BY <1>4, SeededUsersType DEF Unseeded, Taken
  <2>5. RowsStem'
    BY <2>4, Constants DEF RowsStem
  <2> QED
    BY <2>3, <2>5 DEF Answered
<1> QED
  BY <1>2, <1>3, <1>4

(* A step of one request leaves what is known of the others.               *)
LEMMA OthersAnswered ==
  ASSUME TypeOK, Asked, Answered, Grows, NEW c \in Calls,
         NEW d \in Calls \ {c},
         UNCHANGED <<request[d], pc[d], answer[d]>>
  PROVE  /\ pc'[d] # "ended" => answer'[d] = "none"
         /\ pc'[d] \in {"inserting", "inserted", "failed"} => request'[d].kind = "signUp"
         /\ pc'[d] = "inserted" => Owns(d)'
         /\ answer'[d] = "created" => Owns(d)'
         /\ answer'[d] = "token" => /\ request'[d].kind = "login"
                                    /\ Taken(request[d].name)'
                                    /\ Row(d)'.hash[2] = request'[d].password
<1>1. request'[d] = request[d] /\ pc'[d] = pc[d] /\ answer'[d] = answer[d]
  OBVIOUS
<1>2. CASE pc[d] = "idle"
  BY <1>1, <1>2 DEF Asked
<1>3. CASE pc[d] # "idle"
  <2>1. request[d] \in Requests
    BY <1>3 DEF Asked
  <2> QED
    BY <1>1, <2>1, GrowthKeeps DEF Answered, Progress
<1> QED
  BY <1>2, <1>3

LEMMA CallAnswered ==
  ASSUME TypeOK, Asked, Answered, NEW c \in Calls, Ask(c) \/ CallStep(c)
  PROVE  Answered'
<1>1. /\ Grows
      /\ \A d \in Calls \ {c} : UNCHANGED <<request[d], pc[d], answer[d]>>
  <2>1. Grows
    BY InsertingGrows
       DEF Ask, CallStep, LookupSignUp, LookupLogin, LookupFails, Saved, database, Grows
  <2>2. \A d \in Calls \ {c} : UNCHANGED <<request[d], pc[d], answer[d]>>
    BY DEF Ask, CallStep, LookupSignUp, LookupLogin, LookupFails, Insert, Saved, Told, Goes,
           TypeOK
  <2> QED
    BY <2>1, <2>2
<1>2. /\ pc'[c] # "ended" => answer'[c] = "none"
      /\ pc'[c] \in {"inserting", "inserted", "failed"} => request'[c].kind = "signUp"
  BY DEF Ask, CallStep, LookupSignUp, LookupLogin, LookupFails, Insert, Saved, Told, Goes,
         Answered, Progress, TypeOK
<1>3. /\ pc'[c] = "inserted" => Owns(c)'
      /\ answer'[c] = "created" => Owns(c)'
      /\ answer'[c] = "token" => /\ request'[c].kind = "login"
                                 /\ Taken(request[c].name)'
                                 /\ Row(c)'.hash[2] = request'[c].password
  <2>1. CASE Ask(c) \/ LookupSignUp(c) \/ LookupFails(c)
    BY <2>1 DEF Ask, LookupSignUp, LookupFails, Told, Goes, Answered, Progress, TypeOK
  <2>2. CASE LookupLogin(c)
    <3>1. UNCHANGED <<users, request>> /\ pc'[c] = "ended" /\ answer'[c] # "created"
      BY <2>2 DEF LookupLogin, Told, Goes, database, TypeOK
    <3>2. answer'[c] = "token" => /\ request[c].kind = "login" /\ Taken(request[c].name)
                                  /\ Row(c).hash = Hash(request[c].password)
      BY <2>2 DEF LookupLogin, Told, TypeOK
    <3> QED
      BY <3>1, <3>2 DEF Taken, Row, Hash
  <2>3. CASE Insert(c)
    <3>1. answer'[c] = "none" /\ UNCHANGED request /\ request[c] \in Requests
      BY <2>3 DEF Insert, Answered, Progress, Asked
    <3>2. pc'[c] = "inserted" => /\ users' = [users EXCEPT ![request[c].name] = NewRow(c)]
                                 /\ request[c].name \in Names
      BY <2>3, <3>1 DEF Insert, Goes, TypeOK, Requests
    <3>3. pc'[c] = "inserted" => users'[request[c].name] = NewRow(c)
      BY <3>2 DEF TypeOK
    <3>4. NewRow(c) # NoRow /\ NewRow(c).by = c /\ NewRow(c).hash[2] = request[c].password
      BY <3>1, NewRowType DEF NewRow, Hash
    <3> QED
      BY <3>1, <3>3, <3>4 DEF Owns, Taken, Row
  <2>4. CASE Saved(c)
    <3>1. UNCHANGED <<users, request>> /\ pc'[c] = "ended" /\ answer'[c] # "token"
      BY <2>4 DEF Saved, Told, Goes, database, TypeOK
    <3>2. answer'[c] = "created" => Owns(c)
      BY <2>4 DEF Saved, Told, TypeOK, Answered, Progress
    <3> QED
      BY <3>1, <3>2 DEF Owns, Taken, Row
  <2> QED
    BY <2>1, <2>2, <2>3, <2>4 DEF CallStep
<1>4. RowsStem'
  <2>1. CASE UNCHANGED users
    <3>1. \A d \in Calls : pc'[d] \in {"idle", "looking", "inserting"} =>
                               pc[d] \in {"idle", "looking", "inserting"}
      BY <1>1 DEF Ask, CallStep, LookupSignUp, LookupLogin, LookupFails, Insert, Saved, Told,
                  Goes, TypeOK
    <3> QED
      BY <2>1, <3>1 DEF Answered, RowsStem, Taken
  <2>2. CASE ~UNCHANGED users
    <3>1. /\ users' = [users EXCEPT ![request[c].name] = NewRow(c)]
          /\ pc'[c] \in {"inserted", "failed"}
      BY <2>2 DEF Ask, CallStep, LookupSignUp, LookupLogin, LookupFails, Insert, Saved,
                  database, Goes, TypeOK
    <3>2. NewRow(c).by = c
      BY DEF NewRow
    <3>3. \A n \in Names : users'[n] = users[n] \/ users'[n].by = c
      BY <3>1, <3>2 DEF TypeOK
    <3> QED
      BY <1>1, <3>1, <3>3 DEF Answered, RowsStem, Taken
  <2> QED
    BY <2>1, <2>2
<1> QED
  BY <1>1, <1>2, <1>3, <1>4, OthersAnswered DEF Answered, Progress

LEMMA InitAnswered == Init => Answered
BY DEF Init, Answered, Progress, RowsStem, Taken

LEMMA NextAnswered == TypeOK /\ Asked /\ UsersSeeded /\ Answered /\ [Next]_vars => Answered'
BY StartingAnswered, CallAnswered DEF Next

LEMMA AnsweredHolds == Spec => []Answered
BY InitAnswered, NextAnswered, SeededHolds, PTL DEF Spec

(* Who was told "created" owns the account with that password, and who was *)
(* given a token knew its password, across database errors and restarts.   *)
THEOREM AnswersHold == Spec => []AnswersAreTrue
<1>1. Answered => AnswersAreTrue
  BY DEF Answered, Progress, Owns, AnswersAreTrue
<1> QED
  BY <1>1, AnsweredHolds, PTL

-----------------------------------------------------------------------------
(* The refinement of AccountStore.                                         *)

Owners == [n \in Names |-> Owner(n)]
Wants == [c \in Calls |-> Wanted(c)]
Answers == [c \in Calls |-> Heard(c)]

LEMMA KeptUsers == UNCHANGED users => Owners' = Owners
BY DEF Owners, Owner, Taken

LEMMA KeptCalls == UNCHANGED <<request, answer>> => Wants' = Wants /\ Answers' = Answers
BY DEF Wants, Wanted, Answers, Heard

LEMMA NobodyElse == Nobody \notin Calls /\ Nobody \notin Names /\ Nobody # Seeder
BY AccountsAssumption

LEMMA StoreInit == Init => Store!Init
<1> SUFFICES ASSUME Init
             PROVE  Store!Init
  OBVIOUS
<1>1. \A n \in Names : Owner(n) = Nobody
  BY DEF Init, Owner, Taken
<1>2. \A c \in Calls : Wanted(c) = Nobody /\ Heard(c) = "none"
  BY DEF Init, Absent, Wanted, Heard
<1> QED
  BY <1>1, <1>2 DEF Store!Init

LEMMA StoreSeeds ==
  ASSUME TypeOK, Unseeded, users' = SeededUsers, UNCHANGED <<request, answer>>
  PROVE  Store!Next
<1>1. \A n \in Names : Owner(n) = Nobody
  BY DEF Owner, Unseeded
<1>2. \A n \in Names : Owner(n)' = IF n \in Seeds THEN Seeder ELSE Nobody
  BY SeededUsersType, Constants DEF Owner, Unseeded, Taken
<1>3. Wants' = Wants /\ Answers' = Answers
  BY KeptCalls
<1> QED
  BY <1>1, <1>2, <1>3 DEF Store!Next, Store!Seed, Wants, Answers

LEMMA StoreAnswers ==
  ASSUME TypeOK, NEW c \in Calls, request[c] \in Requests, request[c].kind = "signUp",
         NEW a \in {"created", "conflict", "error"},
         a = "created" => Owner(request[c].name) = c,
         a = "conflict" => Owner(request[c].name) \notin {c, Nobody},
         answer[c] = "none", answer' = [answer EXCEPT ![c] = a], UNCHANGED <<users, request>>
  PROVE  Store!Next
<1>1. Wanted(c) = request[c].name /\ request[c].name \in Names /\ Heard(c) = "none"
  BY DEF Wanted, Heard, Requests
<1>2. Owners[request[c].name] = Owner(request[c].name)
  BY <1>1 DEF Owners
<1>3. \A d \in Calls : Heard(d)' = IF d = c THEN a ELSE Heard(d)
  BY DEF Heard, TypeOK
<1>4. Answers' = [Answers EXCEPT ![c] = a]
  BY <1>3 DEF Answers
<1>5. Owners' = Owners /\ Wants' = Wants
  BY KeptUsers DEF Wants, Wanted
<1>6. /\ Wants[c] = request[c].name /\ Wants[c] # Nobody /\ Answers[c] = "none"
      /\ a = "created" => Owners[Wants[c]] = c
      /\ a = "conflict" => Owners[Wants[c]] \notin {c, Nobody}
  BY <1>1, <1>2, NobodyElse DEF Wants, Answers
<1>7. Store!Answer(c)
  BY <1>4, <1>5, <1>6 DEF Store!Answer, Owners, Wants, Answers
<1> QED
  BY <1>7 DEF Store!Next

LEMMA StoreAsks ==
  ASSUME TypeOK, Asked, UsersSeeded, NEW c \in Calls, Ask(c)
  PROVE  [Store!Next]_Store!vars
<1>1. PICK r \in Requests : request' = [request EXCEPT ![c] = r]
  BY DEF Ask
<1>2. /\ Seeded /\ UNCHANGED <<users, answer>>
      /\ request[c] = Absent /\ answer[c] = "none"
  BY DEF Ask, Serving, UsersSeeded, Asked, database
<1>3. \A d \in Calls : request'[d] = IF d = c THEN r ELSE request[d]
  BY <1>1 DEF TypeOK
<1>4. /\ Owners' = Owners
      /\ \A n \in Seeds : Owners[n] # Nobody
  BY <1>2, KeptUsers, Constants, NobodyElse DEF Seeded, Owners, Owner
<1>5. \A d \in Calls : Heard(d)' = Heard(d)
  BY <1>2, <1>3 DEF Heard, Absent
<1>6. Wanted(c) = Nobody
  BY <1>2 DEF Wanted, Absent
<1>7. CASE r.kind = "signUp"
  <2>1. \A d \in Calls : Wanted(d)' = IF d = c THEN r.name ELSE Wanted(d)
    BY <1>3, <1>7 DEF Wanted
  <2>2. r.name \in Names
    BY DEF Requests
  <2>3. Wants' = [Wants EXCEPT ![c] = r.name] /\ Wants[c] = Nobody /\ Answers' = Answers
    BY <1>5, <1>6, <2>1 DEF Wants, Answers
  <2>4. Store!SignUp(c)
    BY <1>4, <2>2, <2>3 DEF Store!SignUp, Owners, Wants, Answers
  <2> QED
    BY <2>4 DEF Store!Next
<1>8. CASE r.kind = "login"
  <2>1. \A d \in Calls : Wanted(d)' = Wanted(d)
    BY <1>3, <1>6, <1>8 DEF Wanted
  <2>2. Wants' = Wants /\ Answers' = Answers
    BY <1>5, <2>1 DEF Wants, Answers
  <2> QED
    BY <1>4, <2>2 DEF Store!vars, Owners, Wants, Answers
<1> QED
  BY <1>7, <1>8 DEF Requests

LEMMA StoreInserts ==
  ASSUME TypeOK, Asked, Answered, NEW c \in Calls, Insert(c)
  PROVE  [Store!Next]_Store!vars
<1>1. /\ request[c] \in Requests /\ request[c].kind = "signUp" /\ answer[c] = "none"
      /\ UNCHANGED <<request, answer>>
  BY DEF Insert, Asked, Answered, Progress
<1>2. /\ Wants' = Wants /\ Answers' = Answers
      /\ Wants[c] = request[c].name /\ request[c].name \in Names /\ Answers[c] = "none"
  BY <1>1, KeptCalls DEF Wants, Wanted, Answers, Heard, Requests
<1>3. CASE UNCHANGED users
  BY <1>2, <1>3, KeptUsers DEF Store!vars, Owners, Wants, Answers
<1>4. CASE ~Taken(request[c].name) /\ users' = [users EXCEPT ![request[c].name] = NewRow(c)]
  <2>1. NewRow(c) # NoRow /\ NewRow(c).by = c
    BY <1>1, NewRowType DEF NewRow
  <2>2. \A n \in Names : Owner(n)' = IF n = request[c].name THEN c ELSE Owner(n)
    BY <1>2, <1>4, <2>1 DEF Owner, Taken, TypeOK
  <2>3. Owners' = [Owners EXCEPT ![Wants[c]] = c] /\ Owners[Wants[c]] = Nobody
    BY <1>2, <1>4, <2>2 DEF Owners, Owner
  <2>4. Wants[c] # Nobody
    BY <1>2, NobodyElse
  <2>5. Store!Register(c)
    BY <1>2, <2>3, <2>4 DEF Store!Register, Owners, Wants, Answers
  <2> QED
    BY <2>5 DEF Store!Next
<1> QED
  BY <1>3, <1>4 DEF Insert

LEMMA StoreStep ==
  TypeOK /\ Asked /\ UsersSeeded /\ Answered /\ [Next]_vars => [Store!Next]_Store!vars
<1> SUFFICES ASSUME TypeOK, Asked, UsersSeeded, Answered, [Next]_vars
             PROVE  [Store!Next]_Store!vars
  OBVIOUS
<1>1. CASE Starting \/ Ends \/ UNCHANGED vars
  <2>1. UNCHANGED <<request, answer>>
    BY <1>1 DEF Starting, Start, StartFails, CountUsers, SaveUsers, CountOrders, FindStudent,
                SaveOrders, Ends, calls, vars
  <2>2. UNCHANGED users \/ (Unseeded /\ users' = SeededUsers)
    BY <1>1, Constants DEF Starting, Start, StartFails, CountUsers, SaveUsers, CountOrders,
           FindStudent, SaveOrders, Ends, vars, UsersSeeded, Unseeded
  <2>3. UNCHANGED users => UNCHANGED Store!vars
    BY <2>1, KeptUsers, KeptCalls DEF Store!vars, Owners, Wants, Answers
  <2> QED
    BY <2>1, <2>2, <2>3, StoreSeeds
<1>2. ASSUME NEW c \in Calls, LookupSignUp(c)
      PROVE  [Store!Next]_Store!vars
  <2>1. /\ request[c] \in Requests /\ request[c].kind = "signUp" /\ answer[c] = "none"
        /\ UNCHANGED <<users, request>> /\ pc[c] = "looking" /\ request[c].name \in Names
    BY <1>2 DEF LookupSignUp, database, Asked, Answered, Progress, Requests
  <2>2. CASE UNCHANGED answer
    BY <2>1, <2>2, KeptUsers, KeptCalls DEF Store!vars, Owners, Wants, Answers
  <2>3. CASE Taken(request[c].name) /\ Told(c, "conflict")
    <3>1. Owner(request[c].name) # c
      BY <2>1, <2>3 DEF Answered, RowsStem, Owner
    <3>2. users[request[c].name] \in Rows
      BY <2>1, <2>3 DEF TypeOK, Taken
    <3>3. users[request[c].name].by \in Calls \cup {Seeder}
      BY <3>2 DEF Rows
    <3>4. Owner(request[c].name) # Nobody
      BY <2>3, <3>3, NobodyElse DEF Owner
    <3> QED
      BY <2>1, <2>3, <3>1, <3>4, StoreAnswers DEF Told
  <2> QED
    BY <1>2, <2>2, <2>3 DEF LookupSignUp
<1>3. ASSUME NEW c \in Calls, LookupLogin(c)
      PROVE  [Store!Next]_Store!vars
  <2>1. request[c].kind = "login" /\ UNCHANGED <<users, request>>
    BY <1>3 DEF LookupLogin, database
  <2>2. \A d \in Calls : Heard(d)' = Heard(d)
    BY <1>3, <2>1 DEF LookupLogin, Told, Heard, TypeOK
  <2>3. Owners' = Owners /\ Wants' = Wants /\ Answers' = Answers
    BY <2>1, <2>2, KeptUsers DEF Wants, Wanted, Answers
  <2> QED
    BY <2>3 DEF Store!vars, Owners, Wants, Answers
<1>4. ASSUME NEW c \in Calls, LookupFails(c)
      PROVE  [Store!Next]_Store!vars
  <2>1. /\ request[c] \in Requests /\ answer[c] = "none"
        /\ UNCHANGED <<users, request>> /\ answer' = [answer EXCEPT ![c] = "error"]
    BY <1>4 DEF LookupFails, Told, database, Asked, Answered, Progress
  <2>2. CASE request[c].kind = "signUp"
    BY <2>1, <2>2, StoreAnswers
  <2>3. CASE request[c].kind # "signUp"
    <3>1. \A d \in Calls : Heard(d)' = Heard(d)
      BY <2>1, <2>3 DEF Heard, TypeOK
    <3>2. Owners' = Owners /\ Wants' = Wants /\ Answers' = Answers
      BY <2>1, <3>1, KeptUsers DEF Wants, Wanted, Answers
    <3> QED
      BY <3>2 DEF Store!vars, Owners, Wants, Answers
  <2> QED
    BY <2>2, <2>3
<1>5. ASSUME NEW c \in Calls, Saved(c)
      PROVE  [Store!Next]_Store!vars
  <2>1. /\ request[c] \in Requests /\ request[c].kind = "signUp" /\ answer[c] = "none"
        /\ UNCHANGED <<users, request>>
        /\ \/ pc[c] = "inserted" /\ answer' = [answer EXCEPT ![c] = "created"]
           \/ answer' = [answer EXCEPT ![c] = "error"]
    BY <1>5 DEF Saved, Told, database, Asked, Answered, Progress
  <2>2. pc[c] = "inserted" => Owner(request[c].name) = c
    BY DEF Answered, Progress, Owns, Owner, Row
  <2> QED
    BY <2>1, <2>2, StoreAnswers
<1> QED
  BY <1>1, <1>2, <1>3, <1>4, <1>5, StoreAsks, StoreInserts DEF Next, CallStep

(* The accounts implement AccountStore: a name stays with whoever took it  *)
(* first, and a sign-up is told "created" or "conflict" only if it is so.  *)
THEOREM AccountsAreKept == Spec => KeepsAccounts
BY StoreInit, StoreStep, SeededHolds, AnsweredHolds, PTL DEF Spec, KeepsAccounts, Store!Spec
=============================================================================
