------------------------------ MODULE ErrorPath ------------------------------
(***************************************************************************)
(* How a failure travels from where it happens to the caller of            *)
(* POST /orders/operation/sync: the guards and the pipe, rpcProducer, the  *)
(* service that answers with rpcConsumer, the wire, OrdersService and the  *)
(* exception filter each throw, catch and rewrite errors.  A value is told *)
(* apart by what these layers make of it:                                  *)
(*   valid           fits the DTO it is checked against on both sides      *)
(*   foreign         a response that fits the service's DTO only           *)
(*   unserialisable  as foreign, and JSON.stringify throws (a BigInt)      *)
(*   invalid         an object or a primitive that fits no DTO             *)
(*   nullish, falsy  null or undefined; 0, "" or false                     *)
(*   generic         a GenericError                                        *)
(*   lookalike       a plain object with a numeric statusCode              *)
(*   http, error     an HttpException; any other Error                     *)
(* Errors have a status and may have details, one per failed constraint.   *)
(* Channels stay open here; what happens to a callback whose channel is    *)
(* gone is RpcConsumer's, and to the connections RpcProducer's.            *)
(***************************************************************************)
EXTENDS Integers

CONSTANTS Requests,     \* calls of the endpoint
          Services,     \* processes that consume the orders queue
          None,         \* no reply, no answer yet
          MaxRestarts   \* bound: restarts of services

Kinds == {"valid", "foreign", "unserialisable", "invalid", "nullish", "falsy",
          "generic", "lookalike", "http", "error"}
Statuses == {0, 201, 400, 401, 403, 408, 424, 429, 500, 503}
Details == {"without", "with"}
Values == [kind : Kinds, status : Statuses, details : Details]
Answers == [status : Statuses \ {0}, details : Details]
Stages == {"none", "queued", "settled", "expired"}

ASSUME ErrorPathAssumption ==
    /\ MaxRestarts \in Nat
    /\ None \notin Values \cup Answers
    /\ Services \cap Stages = {}

Of(k, s, d) == [kind |-> k, status |-> s, details |-> d]
Value(k) == Of(k, 0, "without")
Generic(s, d) == Of("generic", s, d)
Answer(s, d) == [status |-> s, details |-> d]

Return(v) == [threw |-> FALSE, value |-> v]
Throw(e) == [threw |-> TRUE, value |-> e]

-----------------------------------------------------------------------------
(* The pure functions of the layers.                                       *)

(* Decided by structure; on null or undefined it throws a TypeError.       *)
IsGenericError(v) == v.kind \in {"generic", "lookalike"}

(* catch (error) { if (!isGenericError(error)) throw e; throw error }      *)
Wrapped(o, e) == IF o.threw /\ ~IsGenericError(o.value) THEN Throw(e) ELSE o

(* validateAndTransform against a class that the kinds of fitting pass.    *)
ValidateAndTransform(fitting, v) ==
    IF v.kind = "nullish" THEN Throw(Value("error"))
    ELSE IF IsGenericError(v) THEN Throw(v)
    ELSE IF v.kind \in fitting THEN Return(v)
    ELSE Throw(Generic(400, IF v.kind = "falsy" THEN "without" ELSE "with"))

(* generateBuffer: a GenericError is written by its toJSON, which a        *)
(* lookalike does not have.  On the wire it is a plain object.             *)
GenerateBuffer(v) ==
    IF v.kind \in {"nullish", "lookalike", "unserialisable"}
      THEN Throw(Generic(500, "without"))
      ELSE Return(IF v.kind = "generic" THEN Of("lookalike", v.status, v.details) ELSE v)

(* parseBufferOrString gives such an object the prototype GenericError.    *)
ParseBuffer(w) == IF IsGenericError(w) THEN Generic(w.status, w.details) ELSE w

(* processIncomingMessage up to the handler: what the message contains.    *)
CheckContent(w) ==
    LET v == ParseBuffer(w)
    IN  Wrapped(IF IsGenericError(v) THEN Throw(v) ELSE ValidateAndTransform({"valid"}, v),
                Generic(400, "without"))

(* And after it: an error the handler returned, or its invalid response,   *)
(* is thrown with status 424; so is, without details, what it threw.       *)
CheckResult(res) ==
    LET o == ValidateAndTransform({"valid", "foreign", "unserialisable"}, res.value)
    IN  IF res.threw THEN Throw(Generic(424, "without"))
        ELSE IF ~o.threw THEN o
        ELSE IF IsGenericError(o.value) THEN Throw(Of(o.value.kind, 424, o.value.details))
        ELSE Throw(Generic(400, "without"))

(* Mutant: the response is not validated.                                  *)
ResponseUnchecked(w) ==
    LET v == ParseBuffer(w) IN IF IsGenericError(v) THEN Throw(v) ELSE Return(v)

(* waitForResponse: an error reply rejects as it is, a response that does  *)
(* not fit the gateway's DTO with 424; rpcProducer rethrows either.        *)
Response(w) ==
    LET v == ParseBuffer(w)
        o == ValidateAndTransform({"valid"}, v)
    IN  Wrapped(IF IsGenericError(v) THEN Throw(v)
                ELSE IF o.threw THEN Throw(Generic(424, "without"))
                ELSE o, Generic(424, "without"))

(* Mutants: an error that the handler does not know is passed on as it is; *)
(* a GenericError, which is an Error, is taken for one.                    *)
HandleErrorBare(e) ==
    IF e.kind = "http" THEN Generic(e.status, e.details) ELSE e

HandleErrorFirst(e) ==
    IF e.kind = "http" THEN Generic(e.status, e.details) ELSE Generic(500, "with")

(* ErrorHandlerService.handleError.                                        *)
HandleError(e) ==
    IF IsGenericError(e) THEN e
    ELSE IF e.kind = "http" THEN Generic(e.status, e.details)
    ELSE Generic(500, IF e.kind = "error" THEN "with" ELSE "without")

-----------------------------------------------------------------------------
VARIABLES
    pc,        \* of each request: "arriving", "waiting" for a reply, "saving"
               \* the order, "answered"
    fits,      \* whether the service's DTO accepts the order
    message,   \* of each request: "none", "queued", the service that handles
               \* it, "settled" or "expired"
    reply,     \* what the service wrote to the reply queue
    http,      \* the answer to the caller
    stored,    \* the order is in the database
    up,        \* the services that run
    restarts,  \* bounded
    handled,   \* history: the handler has been called
    results,   \* history: how the handler ended
    heard      \* history: the reply reached the caller's channel in time

vars == <<pc, fits, message, reply, http, stored, up, restarts, handled,
          results, heard>>
service == <<message, reply, up, restarts, handled, results>>

(* How a handler may end: it throws, or returns anything.                  *)
Results == {Throw(Value("error"))}
             \cup {Return(Value(k)) : k \in Kinds \ {"generic", "lookalike", "http", "error"}}
             \cup {Return(Generic(500, d)) : d \in Details}
             \cup {Return(Of("lookalike", 500, "without"))}

Init ==
    /\ pc = [r \in Requests |-> "arriving"]
    /\ fits \in [Requests -> BOOLEAN]
    /\ message = [r \in Requests |-> "none"]
    /\ reply = [r \in Requests |-> None]
    /\ http = [r \in Requests |-> None]
    /\ stored = [r \in Requests |-> FALSE]
    /\ up = Services
    /\ restarts = 0
    /\ handled = [r \in Requests |-> FALSE]
    /\ results = [r \in Requests |-> {}]
    /\ heard = [r \in Requests |-> FALSE]

-----------------------------------------------------------------------------
(* The gateway.                                                            *)

Respond(r, s, d) ==
    /\ pc' = [pc EXCEPT ![r] = "answered"]
    /\ http' = [http EXCEPT ![r] = Answer(s, d)]

(* OrdersService rethrows: none of these errors has a response.data.  The  *)
(* exception filter answers with what handleError makes of it.             *)
Fail(r, e) == Respond(r, HandleError(e).status, HandleError(e).details)

(* The body parser, the throttler, the guards and the validation pipe, in  *)
(* front of the controller; only the pipe gives a list of messages.        *)
Refuse(r) ==
    /\ pc[r] = "arriving"
    /\ \E s \in {400, 401, 403, 429}, d \in Details :
          (d = "with" => s = 400) /\ Fail(r, Of("http", s, d))
    /\ UNCHANGED <<service, fits, stored, heard>>

(* rpcProducer rejects before it publishes: without connection, or because *)
(* no channel can be created or prepared.                                  *)
ProduceFails(r) ==
    /\ pc[r] = "arriving"
    /\ \E o \in {Throw(Generic(503, "without")), Wrapped(Throw(Value("error")), Generic(424, "without"))} :
          Fail(r, o.value)
    /\ UNCHANGED <<service, fits, stored, heard>>

(* The payload has passed the pipe, against the same DTO.                  *)
Publish(r) ==
    /\ pc[r] = "arriving"
    /\ pc' = [pc EXCEPT ![r] = "waiting"]
    /\ message' = [message EXCEPT ![r] = "queued"]
    /\ UNCHANGED <<fits, reply, http, stored, up, restarts, handled, results, heard>>

(* The timer of waitForResponse.                                           *)
Timeout(r) ==
    /\ pc[r] = "waiting"
    /\ Fail(r, Generic(408, "without"))
    /\ UNCHANGED <<service, fits, stored, heard>>

(* The channel delivers the late reply of an earlier request.              *)
Mismatch(r) ==
    /\ pc[r] = "waiting"
    /\ Fail(r, Generic(400, "without"))
    /\ UNCHANGED <<service, fits, stored, heard>>

ReceiveReply(r) ==
    /\ pc[r] = "waiting"
    /\ reply[r] # None
    /\ heard' = [heard EXCEPT ![r] = TRUE]
    /\ LET o == Response(reply[r])
       IN  \/ o.threw /\ Fail(r, o.value)
           \/ ~o.threw /\ pc' = [pc EXCEPT ![r] = "saving"] /\ UNCHANGED http
    /\ UNCHANGED <<service, fits, stored>>

Save(r) ==
    /\ pc[r] = "saving"
    /\ stored' = [stored EXCEPT ![r] = TRUE]
    /\ Respond(r, 201, "without")
    /\ UNCHANGED <<service, fits, heard>>

(* save() rejects; the row may be there all the same.                      *)
SaveFails(r) ==
    /\ pc[r] = "saving"
    /\ \E b \in BOOLEAN : stored' = [stored EXCEPT ![r] = b]
    /\ Fail(r, Value("error"))
    /\ UNCHANGED <<service, fits, heard>>

-----------------------------------------------------------------------------
(* The services.                                                           *)

(* Reply and settle.                                                       *)
Send(r, w) ==
    /\ reply' = [reply EXCEPT ![r] = w]
    /\ message' = [message EXCEPT ![r] = "settled"]
    /\ UNCHANGED up

(* An unhandled rejection ends the process; the broker puts back all that  *)
(* it had not settled.                                                     *)
Crash(s) ==
    /\ up' = up \ {s}
    /\ message' = [r \in Requests |-> IF message[r] = s THEN "queued" ELSE message[r]]
    /\ UNCHANGED reply

(* Mutant: the handler is called before the content is checked.            *)
DeliverUnchecked(r, s) ==
    /\ message[r] = "queued"
    /\ s \in up
    /\ handled' = [handled EXCEPT ![r] = TRUE]
    /\ IF fits[r] THEN message' = [message EXCEPT ![r] = s] /\ UNCHANGED <<reply, up>>
                  ELSE Send(r, GenerateBuffer(Generic(400, "with")).value)
    /\ UNCHANGED <<pc, fits, http, stored, restarts, results, heard>>

(* The broker delivers the order; if the service accepts it, its handler   *)
(* starts.                                                                 *)
Deliver(r, s) ==
    LET o == CheckContent(Value(IF fits[r] THEN "valid" ELSE "invalid"))
        b == GenerateBuffer(o.value)
    IN  /\ message[r] = "queued"
        /\ s \in up
        /\ \/ o.threw /\ Send(r, b.value) /\ UNCHANGED handled
           \/ /\ ~o.threw
              /\ handled' = [handled EXCEPT ![r] = TRUE]
              /\ message' = [message EXCEPT ![r] = s]
              /\ UNCHANGED <<reply, up>>
        /\ UNCHANGED <<pc, fits, http, stored, restarts, results, heard>>

(* Mutant: an error that the handler throws escapes.                       *)
HandlerEndsUncaught(r, s) ==
    /\ message[r] = s
    /\ \E res \in Results :
          LET b == GenerateBuffer(CheckResult(res).value)
          IN  /\ results' = [results EXCEPT ![r] = @ \cup {res}]
              /\ IF b.threw \/ res.threw THEN Crash(s) ELSE Send(r, b.value)
    /\ UNCHANGED <<pc, fits, http, stored, restarts, handled, heard>>

(* The handler ends with res; what is to be sent back, a response or an    *)
(* error, is serialised in the message callback, which nobody awaits.      *)
HandlerEnds(r, s) ==
    /\ message[r] = s
    /\ \E res \in Results :
          LET b == GenerateBuffer(CheckResult(res).value)
          IN  /\ results' = [results EXCEPT ![r] = @ \cup {res}]
              /\ \/ b.threw /\ Crash(s)
                 \/ ~b.threw /\ Send(r, b.value)
    /\ UNCHANGED <<pc, fits, http, stored, restarts, handled, heard>>

Restart(s) ==
    /\ s \notin up
    /\ restarts < MaxRestarts
    /\ restarts' = restarts + 1
    /\ up' = up \cup {s}
    /\ UNCHANGED <<pc, fits, message, reply, http, stored, handled, results, heard>>

(* The message's expiration, which a redelivery does not extend.           *)
Expire(r) ==
    /\ message[r] = "queued"
    /\ message' = [message EXCEPT ![r] = "expired"]
    /\ UNCHANGED <<pc, fits, reply, http, stored, up, restarts, handled, results, heard>>

-----------------------------------------------------------------------------
Gateway(r) == Refuse(r) \/ ProduceFails(r) \/ Publish(r) \/ Timeout(r)
                \/ Mismatch(r) \/ ReceiveReply(r) \/ Save(r) \/ SaveFails(r)

Next == \/ \E r \in Requests : Gateway(r) \/ Expire(r)
        \/ \E r \in Requests, s \in Services : Deliver(r, s) \/ HandlerEnds(r, s)
        \/ \E s \in Services : Restart(s)

Spec == Init /\ [][Next]_vars

-----------------------------------------------------------------------------
(* Properties.                                                             *)

TypeOK ==
    /\ pc \in [Requests -> {"arriving", "waiting", "saving", "answered"}]
    /\ fits \in [Requests -> BOOLEAN]
    /\ message \in [Requests -> Stages \cup Services]
    /\ reply \in [Requests -> Values \cup {None}]
    /\ http \in [Requests -> Answers \cup {None}]
    /\ stored \in [Requests -> BOOLEAN]
    /\ up \subseteq Services
    /\ restarts \in 0 .. MaxRestarts
    /\ handled \in [Requests -> BOOLEAN]
    /\ results \in [Requests -> SUBSET Results]
    /\ heard \in [Requests -> BOOLEAN]

(* The answer an order gets whose handler ended with res, stated without   *)
(* the layers in between: 424, with the details of the invalid response or *)
(* the returned error; but 400 if the handler returned nothing at all.     *)
Told(res) ==
    IF res.threw THEN Answer(424, "without")
    ELSE Answer(IF res.value.kind = "nullish" THEN 400 ELSE 424,
                IF res.value.kind = "invalid" THEN "with" ELSE res.value.details)

(* Through all its layers, a failure is answered as where it arose says:   *)
(* a caller that was answered from a reply is told that the service's DTO  *)
(* refuses the order, with details, or how its handler failed; otherwise   *)
(* the handler returned a valid response and only the save may still fail. *)
CallerIsToldWhy ==
    \A r \in Requests : heard[r] =>
       \/ ~fits[r] /\ http[r] = Answer(400, "with")
       \/ \E res \in results[r] : http[r] = Told(res)
       \/ /\ Return(Value("valid")) \in results[r]
          /\ pc[r] = "saving" \/ http[r] \in {Answer(201, "without"),
                                              Answer(500, "with")}

(* A caller may repeat an order that was refused (401, 403, 429), that was *)
(* not sent (503) or that is at fault itself (400 with details): the       *)
(* handler has never seen it, whatever was redelivered in between.         *)
RefusedIsUnhandled ==
    \A r \in Requests :
       http[r] \in {Answer(s, "without") : s \in {401, 403, 429, 503}}
                     \cup {Answer(400, "with")}
         => ~handled[r] /\ results[r] = {}

(* Success is answered for stored orders only, and no order is stored that *)
(* its handler did not accept with a response valid on both sides.         *)
SuccessIsStored ==
    \A r \in Requests :
       /\ http[r] = Answer(201, "without") => stored[r]
       /\ stored[r] => Return(Value("valid")) \in results[r]

(* A service's process ends only when a handler returns what the callback  *)
(* cannot serialise: a plain object that passes for a GenericError, or a   *)
(* valid response that is no JSON.  What a handler throws does not end it. *)
CrashesAreUnserialisable ==
    up # Services \/ restarts > 0 =>
       \E r \in Requests : \E res \in results[r] :
          ~res.threw /\ res.value.kind \in {"lookalike", "unserialisable"}
=============================================================================
