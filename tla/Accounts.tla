------------------------------ MODULE Accounts -------------------------------
(***************************************************************************)
(* The gateway's start-up and its accounts: the configuration, the seeding *)
(* of the database (database-seeder.service.ts), sign-ups and logins       *)
(* (auth.service.ts), and what is left of them when the process ends.      *)
(*                                                                         *)
(* The code between two awaits of the database is one action, and what the *)
(* database does with an insert is another: it may do it although the      *)
(* process has ended.  A new process finds what the old one sent settled.  *)
(* Nest listens for requests only after every onModuleInit has resolved,   *)
(* and a rejection of one ends the process; there is one process at a      *)
(* time, which an operator starts again.                                   *)
(*                                                                         *)
(* A password hash is the pair of salt and password.                       *)
(***************************************************************************)
EXTENDS Configuration, Integers

CONSTANTS Calls,              \* sign-up and login requests
          Names, Passwords,
          Student, Admin,     \* the seeded names
          StudentPassword, AdminPassword,
          Salts,              \* values of PASSWORD_SALT
          DefaultSalt,
          Seeder, Nobody, NoRow,
          Environments,       \* environments the process is started with
          MaxFaults           \* bound: ends of the process in a behaviour

Seeds == {Student, Admin}
Requests == [kind : {"signUp", "login"}, name : Names, password : Passwords]
Rows == [by : Calls \cup {Seeder}, hash : Salts \X Passwords]

ASSUME AccountsAssumption ==
    /\ Seeds \subseteq Names /\ Student # Admin
    /\ {StudentPassword, AdminPassword} \subseteq Passwords
    /\ DefaultSalt \in Salts
    /\ Seeder \notin Calls
    /\ Nobody \notin Calls \cup Names \cup {Seeder}
    /\ NoRow \notin Rows
    /\ Environments \subseteq Environment
    /\ MaxFaults \in Nat

VARIABLES
    env,      \* the environment of the last start
    salt,     \* what getGlobalSalt returns
    proc,     \* where the process is: "down", a step of its start, "serving"
    users,    \* the users table; its unique index makes it a function
    demos,    \* how often the four demo orders were inserted
    request,  \* what a call asks
    pc,       \* where a call is
    answer,   \* what it was told
    faults    \* history: ends of the process, bounded by MaxFaults

start == <<env, salt, proc>>
calls == <<request, pc, answer>>
vars == <<start, users, demos, calls, faults>>

Absent == [kind |-> "none", name |-> Nobody, password |-> Nobody]

Init ==
    /\ env \in Environments
    /\ salt = DefaultSalt
    /\ proc = "down"
    /\ users = [n \in Names |-> NoRow]
    /\ demos = 0
    /\ request = [c \in Calls |-> Absent]
    /\ pc = [c \in Calls |-> "idle"]
    /\ answer = [c \in Calls |-> "none"]
    /\ faults = 0

Taken(n) == users[n] # NoRow
Hash(password) == <<salt, password>>

-----------------------------------------------------------------------------
(* The process.                                                            *)

(* It is started with an environment that configuration and client accept. *)
(* Without PASSWORD_SALT the salt is the default one.                      *)
Start ==
    /\ proc = "down"
    /\ \A c \in Calls : pc[c] # "inserting"
    /\ env' \in Environments /\ Starts(env')
    /\ salt' \in Salts
    /\ proc' = "countingUsers"
    /\ pc' = [c \in Calls |-> IF pc[c] = "idle" THEN "idle" ELSE "ended"]
    /\ UNCHANGED <<users, demos, request, answer, faults>>

(* It is started with one they refuse, and ends before it looks at the     *)
(* database.                                                               *)
StartFails ==
    /\ proc = "down"
    /\ env' \in Environments /\ ~Starts(env')
    /\ UNCHANGED <<salt, proc, users, demos, calls, faults>>

(* Mutant: users that are there mean that everything has been seeded.      *)
CountUsersOnly ==
    /\ proc = "countingUsers"
    /\ proc' = IF \A n \in Names : ~Taken(n) THEN "savingUsers" ELSE "serving"
    /\ UNCHANGED <<env, salt, users, demos, calls, faults>>

(* Mutant: the users are seeded whatever the count.                        *)
CountUsersNever ==
    /\ proc = "countingUsers"
    /\ proc' = "savingUsers"
    /\ UNCHANGED <<env, salt, users, demos, calls, faults>>

(* seedInitialUsersIfNeeded.                                               *)
CountUsers ==
    /\ proc = "countingUsers"
    /\ proc' = IF \A n \in Names : ~Taken(n) THEN "savingUsers" ELSE "countingOrders"
    /\ UNCHANGED <<env, salt, users, demos, calls, faults>>

(* What save([student, admin]) inserts, in one transaction; the admin's    *)
(* hash is precomputed with the default salt.                              *)
SeededUsers == [n \in Names |->
    CASE n = Student -> [by |-> Seeder, hash |-> Hash(StudentPassword)]
      [] n = Admin -> [by |-> Seeder, hash |-> <<DefaultSalt, AdminPassword>>]
      [] OTHER -> users[n]]

(* A name that is taken makes it reject, which ends the process.           *)
SaveUsers ==
    /\ proc = "savingUsers"
    /\ IF \A n \in Seeds : ~Taken(n)
         THEN users' = SeededUsers /\ proc' = "countingOrders"
         ELSE UNCHANGED users /\ proc' = "down"
    /\ UNCHANGED <<env, salt, demos, calls, faults>>

(* seedDemoOrdersIfNeeded: synced orders count too, but none is stored     *)
(* before the demo orders are.                                             *)
CountOrders ==
    /\ proc = "countingOrders"
    /\ proc' = IF demos > 0 THEN "serving" ELSE "findingStudent"
    /\ UNCHANGED <<env, salt, users, demos, calls, faults>>

FindStudent ==
    /\ proc = "findingStudent"
    /\ proc' = IF Taken(Student) THEN "savingOrders" ELSE "serving"
    /\ UNCHANGED <<env, salt, users, demos, calls, faults>>

SaveOrders ==
    /\ proc = "savingOrders"
    /\ demos' = demos + 1
    /\ proc' = "serving"
    /\ UNCHANGED <<env, salt, users, calls, faults>>

(* The process ends: it is killed, or the database fails it during the     *)
(* start.  A save it was waiting for may have been committed.              *)
Ends ==
    /\ proc # "down"
    /\ faults < MaxFaults
    /\ faults' = faults + 1
    /\ proc' = "down"
    /\ \/ UNCHANGED <<users, demos>>
       \/ /\ proc = "savingUsers"
          /\ \A n \in Seeds : ~Taken(n)
          /\ users' = SeededUsers
          /\ UNCHANGED demos
       \/ /\ proc = "savingOrders"
          /\ demos' = demos + 1
          /\ UNCHANGED users
    /\ UNCHANGED <<env, salt, calls>>

-----------------------------------------------------------------------------
(* Requests.                                                               *)

Serving == proc = "serving"

Goes(c, to) == pc' = [pc EXCEPT ![c] = to]

Told(c, what) == /\ Goes(c, "ended")
                 /\ answer' = [answer EXCEPT ![c] = what]

database == <<users, demos, faults>>

Ask(c) ==
    /\ Serving
    /\ pc[c] = "idle"
    /\ \E r \in Requests : request' = [request EXCEPT ![c] = r]
    /\ Goes(c, "looking")
    /\ UNCHANGED <<start, database, answer>>

Row(c) == users[request[c].name]

(* signUp after its findOne: a conflict, or the insert is sent.            *)
LookupSignUp(c) ==
    /\ Serving
    /\ pc[c] = "looking" /\ request[c].kind = "signUp"
    /\ IF Taken(request[c].name)
         THEN Told(c, "conflict")
         ELSE Goes(c, "inserting") /\ UNCHANGED answer
    /\ UNCHANGED <<start, database, request>>

(* validateUser after its findOne.                                         *)
LookupLogin(c) ==
    /\ Serving
    /\ pc[c] = "looking" /\ request[c].kind = "login"
    /\ IF Taken(request[c].name) /\ Row(c).hash = Hash(request[c].password)
         THEN Told(c, "token")
         ELSE Told(c, "unauthorized")
    /\ UNCHANGED <<start, database, request>>

LookupFails(c) ==
    /\ Serving
    /\ pc[c] = "looking"
    /\ Told(c, "error")
    /\ UNCHANGED <<start, database, request>>

NewRow(c) == [by |-> c, hash |-> Hash(request[c].password)]

(* Mutants: the insert overwrites a row with the same name; the row keeps  *)
(* the password itself.                                                    *)
InsertUpserts(c) ==
    /\ pc[c] = "inserting"
    /\ users' = [users EXCEPT ![request[c].name] = NewRow(c)]
    /\ Goes(c, "inserted")
    /\ UNCHANGED <<start, demos, faults, request, answer>>

InsertPlain(c) ==
    /\ pc[c] = "inserting"
    /\ users' = [users EXCEPT ![request[c].name] = [by |-> c, hash |-> request[c].password]]
    /\ Goes(c, "inserted")
    /\ UNCHANGED <<start, demos, faults, request, answer>>

(* The database inserts the row, unless another call has taken the name in *)
(* the meantime; it may fail before that, or before it can say so.         *)
Insert(c) ==
    /\ pc[c] = "inserting"
    /\ \/ /\ ~Taken(request[c].name)
          /\ users' = [users EXCEPT ![request[c].name] = NewRow(c)]
          /\ Goes(c, "inserted") \/ Goes(c, "failed")
       \/ /\ UNCHANGED users
          /\ Goes(c, "failed")
    /\ UNCHANGED <<start, demos, faults, request, answer>>

(* Mutant: a save that rejects is reported as a name that is taken.        *)
SavedConflict(c) ==
    /\ Serving
    /\ pc[c] \in {"inserted", "failed"}
    /\ Told(c, IF pc[c] = "inserted" THEN "created" ELSE "conflict")
    /\ UNCHANGED <<start, database, request>>

(* signUp after its save: a token, or the error of the database (500),     *)
(* also when it is the unique index that has refused the name.             *)
Saved(c) ==
    /\ Serving
    /\ pc[c] \in {"inserted", "failed"}
    /\ Told(c, IF pc[c] = "inserted" THEN "created" ELSE "error")
    /\ UNCHANGED <<start, database, request>>

-----------------------------------------------------------------------------
Starting == \/ Start        \/ StartFails
            \/ CountUsers   \/ SaveUsers
            \/ CountOrders  \/ FindStudent  \/ SaveOrders

CallStep(c) == \/ LookupSignUp(c) \/ LookupLogin(c) \/ LookupFails(c)
               \/ Insert(c) \/ Saved(c)

Next == \/ Starting
        \/ Ends
        \/ \E c \in Calls : Ask(c) \/ CallStep(c)

Spec == Init /\ [][Next]_vars

(* A process that is down is started again, with whatever environment, and *)
(* the database answers.                                                   *)
Fairness == WF_vars(Starting) /\ \A c \in Calls : WF_vars(CallStep(c))

FairSpec == Spec /\ Fairness
-----------------------------------------------------------------------------
TypeOK ==
    /\ env \in Environments
    /\ salt \in Salts
    /\ proc \in {"down", "countingUsers", "savingUsers", "countingOrders",
                 "findingStudent", "savingOrders", "serving"}
    /\ users \in [Names -> Rows \cup {NoRow}]
    /\ demos \in Nat
    /\ request \in [Calls -> Requests \cup {Absent}]
    /\ pc \in [Calls -> {"idle", "looking", "inserting", "inserted", "failed", "ended"}]
    /\ answer \in [Calls -> {"none", "created", "conflict", "unauthorized", "token", "error"}]
    /\ faults \in 0 .. MaxFaults

(* A gateway that serves has its two users and its demo orders, once each, *)
(* wherever earlier starts were interrupted: the branch of the seeder for  *)
(* a missing student is never taken.                                       *)
ServesSeeded ==
    /\ demos <= 1
    /\ Serving => /\ demos = 1
                  /\ \A n \in Seeds : Taken(n) /\ users[n].by = Seeder
    /\ proc = "findingStudent" => Taken(Student)

(* Who was told "created" owns the account, with the password of that      *)
(* sign-up, and who was given a token knew its password, whatever other    *)
(* sign-ups, database errors and restarts came in between.                 *)
AnswersAreTrue ==
    \A c \in Calls :
        /\ answer[c] = "created" => Taken(request[c].name) /\ Row(c).by = c
        /\ answer[c] \in {"created", "token"} =>
               Taken(request[c].name) /\ Row(c).hash[2] = request[c].password

(* No process seeds or serves on the lists that the catch of config()      *)
(* falls back to: one malformed variable, if only the scopes, keeps it     *)
(* from starting, because the same catch takes its hosts away.             *)
NeverOnFallback ==
    proc # "down" => /\ env.scopes \in {"unset", "list"}
                     /\ env.hosts \in {"list", "string", "falsy"}

(* The accounts without processes and restarts.                            *)
Owner(n) == IF Taken(n) THEN users[n].by ELSE Nobody
Wanted(c) == IF request[c].kind = "signUp" THEN request[c].name ELSE Nobody
Heard(c) == IF request[c].kind = "signUp" THEN answer[c] ELSE "none"

Store == INSTANCE AccountStore
         WITH Seeded <- Seeds,
              owner  <- [n \in Names |-> Owner(n)],
              wants  <- [c \in Calls |-> Wanted(c)],
              answer <- [c \in Calls |-> Heard(c)]

(* Lookup and insert together are as good as one step that takes a name:   *)
(* no name changes hands and no sign-up is told what is not so.            *)
KeepsAccounts == Store!Spec

(* An interrupted start never stands in the way of a later one: a process  *)
(* that is started again as often as it ends serves in the end, unless     *)
(* from some time on it is only given environments that it refuses.        *)
ComesBack == []<>Starts(env) => []<>Serving
=============================================================================
