-------------------------- MODULE ErrorPathProofs ----------------------------
(***************************************************************************)
(* Proofs about ErrorPath.  Two facts about the pure functions, what the   *)
(* two ends of the wire make of the service's refusal and of every result  *)
(* of the handler, carry an inductive invariant that relates each reply to *)
(* what happened to its message; the properties follow from it.            *)
(***************************************************************************)
EXTENDS ErrorPath, TLAPS

(* The answer that the exception filter makes of an error.                 *)
Shown(e) == Answer(HandleError(e).status, HandleError(e).details)

(* What the service writes when its handler ends with res, or refuses.     *)
Written(res) == GenerateBuffer(CheckResult(res).value)
Refusal == GenerateBuffer(Generic(400, "with")).value
Serialisable(res) == res.threw \/ res.value.kind \notin {"lookalike", "unserialisable"}

-----------------------------------------------------------------------------
(* The pure functions.                                                     *)

LEMMA Constants ==
    /\ MaxRestarts \in Nat
    /\ None \notin Values
    /\ None \notin Answers
    /\ \A s \in Services : s \notin Stages
  BY ErrorPathAssumption

(* Fields of values and of outcomes.                                       *)
LEMMA ValueFields ==
    ASSUME NEW k, NEW s, NEW d
    PROVE  Of(k, s, d).kind = k /\ Of(k, s, d).status = s /\ Of(k, s, d).details = d
  BY DEF Of

LEMMA Fields ==
    \A k, s, d : Of(k, s, d).kind = k /\ Of(k, s, d).status = s /\ Of(k, s, d).details = d
  BY ValueFields

LEMMA Outcomes ==
    \A v : /\ Throw(v).threw /\ Throw(v).value = v
           /\ ~Return(v).threw /\ Return(v).value = v
  BY DEF Throw, Return

LEMMA ValueType ==
    ASSUME NEW k \in Kinds, NEW s \in Statuses, NEW d \in Details
    PROVE  Of(k, s, d) \in Values
  BY DEF Values, Of

(* How a handler may end.                                                  *)
LEMMA ResultShape ==
    ASSUME NEW res \in Results
    PROVE  \/ res = Throw(Value("error"))
           \/ res = Return(Value("valid"))
           \/ res = Return(Value("foreign"))
           \/ res = Return(Value("unserialisable"))
           \/ res = Return(Value("invalid"))
           \/ res = Return(Value("nullish"))
           \/ res = Return(Value("falsy"))
           \/ res = Return(Generic(500, "with"))
           \/ res = Return(Generic(500, "without"))
           \/ res = Return(Of("lookalike", 500, "without"))
  <1>1. Kinds \ {"generic", "lookalike", "http", "error"}
          = {"valid", "foreign", "unserialisable", "invalid", "nullish", "falsy"}
    BY DEF Kinds
  <1> QED
    BY <1>1 DEF Results, Details

(* What the service checks before it calls its handler.                    *)
LEMMA ContentChecked ==
    /\ ~CheckContent(Value("valid")).threw
    /\ CheckContent(Value("invalid")).threw
    /\ CheckContent(Value("invalid")).value = Generic(400, "with")
  BY Fields, Outcomes
     DEF CheckContent, ParseBuffer, ValidateAndTransform, Wrapped, IsGenericError,
         Value, Generic

(* An error keeps its status and its details through the buffer, the wire, *)
(* the waiting producer and the exception filter.                          *)
LEMMA ErrorWritten ==
    ASSUME NEW s, NEW d
    PROVE  GenerateBuffer(Generic(s, d)) = Return(Of("lookalike", s, d))
  BY ValueFields DEF GenerateBuffer, Generic

LEMMA ErrorHeard ==
    ASSUME NEW s, NEW d
    PROVE  Response(Of("lookalike", s, d)) = Throw(Generic(s, d))
  <1>1. ParseBuffer(Of("lookalike", s, d)) = Generic(s, d)
    BY ValueFields DEF ParseBuffer, IsGenericError
  <1>2. IsGenericError(Generic(s, d))
    BY ValueFields DEF IsGenericError, Generic
  <1>3. \A e : Wrapped(Throw(Generic(s, d)), e) = Throw(Generic(s, d))
    BY <1>2, Outcomes DEF Wrapped
  <1> QED
    BY <1>1, <1>2, <1>3 DEF Response

LEMMA ErrorShown ==
    ASSUME NEW s, NEW d
    PROVE  Shown(Generic(s, d)) = Answer(s, d)
  <1>1. IsGenericError(Generic(s, d))
    BY ValueFields DEF IsGenericError, Generic
  <1>2. HandleError(Generic(s, d)) = Generic(s, d)
    BY <1>1 DEF HandleError
  <1>3. Generic(s, d).status = s /\ Generic(s, d).details = d
    BY ValueFields DEF Generic
  <1> QED
    BY <1>2, <1>3 DEF Shown

(* So the service's refusal reaches the caller.                            *)
LEMMA RefusalShown ==
    /\ Refusal = Of("lookalike", 400, "with")
    /\ Refusal \in Values
    /\ Response(Refusal) = Throw(Generic(400, "with"))
    /\ Shown(Generic(400, "with")) = Answer(400, "with")
  <1>1. Refusal = Of("lookalike", 400, "with")
    BY ErrorWritten, Outcomes DEF Refusal
  <1>2. Of("lookalike", 400, "with") \in Values
    BY ValueType DEF Kinds, Statuses, Details
  <1> QED
    BY <1>1, <1>2, ErrorHeard, ErrorShown

(* And so does every error the service makes of a result: the composition  *)
(* of all layers agrees with the table Told.                               *)
LEMMA ErrorTold ==
    ASSUME NEW res, NEW s \in {400, 424}, NEW d \in Details,
           CheckResult(res).value = Generic(s, d),
           Told(res) = Answer(s, d)
    PROVE  /\ ~Written(res).threw
           /\ Written(res).value \in Values
           /\ Response(Written(res).value).threw
           /\ Shown(Response(Written(res).value).value) = Told(res)
  <1>1. Written(res) = Return(Of("lookalike", s, d))
    BY ErrorWritten DEF Written
  <1>2. Of("lookalike", s, d) \in Values
    BY ValueType DEF Kinds, Statuses, Details
  <1>3. Response(Written(res).value) = Throw(Generic(s, d))
    BY <1>1, Outcomes, ErrorHeard
  <1> QED
    BY <1>1, <1>2, <1>3, Outcomes, ErrorShown

LEMMA ResultTold ==
    ASSUME NEW res \in Results, Serialisable(res), res # Return(Value("valid"))
    PROVE  /\ ~Written(res).threw
           /\ Written(res).value \in Values
           /\ Response(Written(res).value).threw
           /\ Shown(Response(Written(res).value).value) = Told(res)
  <1> USE Fields, Outcomes DEF Value, Generic
  <1>1. ASSUME res = Throw(Value("error"))
        PROVE  CheckResult(res).value = Generic(424, "without")
                 /\ Told(res) = Answer(424, "without")
    BY <1>1 DEF CheckResult, Told
  <1>2. ASSUME res = Return(Value("foreign"))
        PROVE  /\ ~Written(res).threw
               /\ Written(res).value \in Values
               /\ Response(Written(res).value) = Throw(Generic(424, "without"))
               /\ Told(res) = Answer(424, "without")
    <2>1. CheckResult(res) = res
      BY <1>2 DEF CheckResult, ValidateAndTransform, IsGenericError
    <2>2. Written(res) = res
      BY <1>2, <2>1 DEF Written, GenerateBuffer
    <2>3. Response(Value("foreign")) = Throw(Generic(424, "without"))
      BY DEF Response, ParseBuffer, ValidateAndTransform, IsGenericError, Wrapped
    <2>4. Told(res) = Answer(424, "without")
      BY <1>2 DEF Told
    <2>5. Value("foreign") \in Values
      BY ValueType DEF Kinds, Statuses, Details
    <2> QED
      BY <1>2, <2>2, <2>3, <2>4, <2>5
  <1>3. ASSUME res = Return(Value("invalid"))
        PROVE  CheckResult(res).value = Generic(424, "with")
                 /\ Told(res) = Answer(424, "with")
    BY <1>3 DEF CheckResult, ValidateAndTransform, IsGenericError, Told
  <1>4. ASSUME res = Return(Value("nullish"))
        PROVE  CheckResult(res).value = Generic(400, "without")
                 /\ Told(res) = Answer(400, "without")
    BY <1>4 DEF CheckResult, ValidateAndTransform, IsGenericError, Told
  <1>5. ASSUME res = Return(Value("falsy"))
        PROVE  CheckResult(res).value = Generic(424, "without")
                 /\ Told(res) = Answer(424, "without")
    BY <1>5 DEF CheckResult, ValidateAndTransform, IsGenericError, Told
  <1>6. ASSUME NEW d \in Details, res = Return(Generic(500, d))
        PROVE  CheckResult(res).value = Generic(424, d) /\ Told(res) = Answer(424, d)
    BY <1>6 DEF CheckResult, ValidateAndTransform, IsGenericError, Told
  <1>7. res # Return(Value("unserialisable"))
    BY DEF Serialisable
  <1>8. res # Return(Of("lookalike", 500, "without"))
    BY DEF Serialisable
  <1>9. CASE res = Return(Value("foreign"))
    BY <1>2, <1>9, ErrorShown
  <1>10. CASE \/ res = Return(Generic(500, "with"))
              \/ res = Return(Generic(500, "without"))
    BY <1>6, <1>10, ErrorTold DEF Details
  <1>11. CASE \/ res = Throw(Value("error"))
              \/ res = Return(Value("invalid"))
              \/ res = Return(Value("nullish"))
              \/ res = Return(Value("falsy"))
    BY <1>1, <1>3, <1>4, <1>5, <1>11, ErrorTold DEF Details
  <1> QED
    BY <1>7, <1>8, <1>9, <1>10, <1>11, ResultShape

(* A valid response arrives as one.                                        *)
LEMMA ValidHeard ==
    /\ ~Written(Return(Value("valid"))).threw
    /\ Written(Return(Value("valid"))).value \in Values
    /\ ~Response(Written(Return(Value("valid"))).value).threw
  <1> USE Fields, Outcomes DEF Value
  <1>1. CheckResult(Return(Value("valid"))) = Return(Value("valid"))
    BY DEF CheckResult, ValidateAndTransform, IsGenericError
  <1>2. Written(Return(Value("valid"))) = Return(Value("valid"))
    BY <1>1 DEF Written, GenerateBuffer
  <1>3. ~Response(Value("valid")).threw
    BY DEF Response, ParseBuffer, ValidateAndTransform, IsGenericError, Wrapped
  <1>4. Value("valid") \in Values
    BY ValueType DEF Kinds, Statuses, Details
  <1> QED
    BY <1>2, <1>3, <1>4

(* Only the results that cannot be serialised throw in the callback.       *)
LEMMA UnserialisableThrows ==
    ASSUME NEW res \in Results, Written(res).threw
    PROVE  ~res.threw /\ res.value.kind \in {"lookalike", "unserialisable"}
  BY ResultTold, ValidHeard DEF Serialisable

LEMMA ResultHeard ==
    ASSUME NEW res \in Results, ~Written(res).threw
    PROVE  /\ Written(res).value \in Values
           /\ \/ /\ res = Return(Value("valid"))
                 /\ ~Response(Written(res).value).threw
              \/ /\ Response(Written(res).value).threw
                 /\ Shown(Response(Written(res).value).value) = Told(res)
  <1>1. Written(Return(Value("unserialisable"))).threw
    <2>1. CheckResult(Return(Value("unserialisable"))) = Return(Value("unserialisable"))
      BY Fields, Outcomes DEF CheckResult, ValidateAndTransform, IsGenericError, Value
    <2> QED
      BY <2>1, Fields, Outcomes DEF Written, GenerateBuffer, Value
  <1>2. Written(Return(Of("lookalike", 500, "without"))).threw
    <2>1. CheckResult(Return(Of("lookalike", 500, "without")))
            = Throw(Of("lookalike", 424, "without"))
      BY Fields, Outcomes DEF CheckResult, ValidateAndTransform, IsGenericError
    <2> QED
      BY <2>1, Fields, Outcomes DEF Written, GenerateBuffer
  <1>3. Serialisable(res)
    BY <1>1, <1>2, ResultShape, Fields, Outcomes DEF Serialisable, Value, Generic
  <1> QED
    BY <1>3, ResultTold, ValidHeard

(* Answers differ where their fields do; none of them is None.             *)
LEMMA AnswerFields ==
    \A s, d : Answer(s, d).status = s /\ Answer(s, d).details = d
  BY DEF Answer

LEMMA AnswerType ==
    ASSUME NEW s \in Statuses \ {0}, NEW d \in Details
    PROVE  Answer(s, d) \in Answers
  BY DEF Answer, Answers

Success == Answer(201, "without")
Refusals == {Answer(s, "without") : s \in {401, 403, 429, 503}} \cup {Answer(400, "with")}

LEMMA AnswersDiffer ==
    /\ Success \in Answers
    /\ \A d \in Details : Answer(408, d) \in Answers \ (Refusals \cup {Success})
    /\ \A d \in Details : Answer(424, d) \in Answers \ (Refusals \cup {Success})
    /\ \A d \in Details : Answer(500, d) \in Answers \ (Refusals \cup {Success})
    /\ Answer(400, "without") \in Answers \ (Refusals \cup {Success})
    /\ \A s \in {400, 401, 403, 424, 429, 503}, d \in Details :
          Answer(s, d) \in Answers \ {Success}
  <1>1. \A s \in {201, 400, 401, 403, 408, 424, 429, 500, 503}, d \in Details :
           Answer(s, d) \in Answers
    BY AnswerType DEF Statuses
  <1>2. \A s, d, t, e : Answer(s, d) = Answer(t, e) => s = t /\ d = e
    BY AnswerFields
  <1> QED
    BY <1>1, <1>2 DEF Success, Refusals, Details

LEMMA ToldType ==
    ASSUME NEW res \in Results
    PROVE  Told(res) \in Answers \ (Refusals \cup {Success})
  <1>1. \/ \E d \in Details : Told(res) = Answer(424, d)
        \/ Told(res) = Answer(400, "without")
    BY ResultShape, Fields, Outcomes DEF Told, Value, Generic, Details
  <1> QED
    BY <1>1, AnswersDiffer

-----------------------------------------------------------------------------
(* The invariant.                                                          *)

Valid == Return(Value("valid"))

(* How far a request is, and what its handler can have seen.               *)
Progress(r) ==
    /\ pc[r] = "arriving" => message[r] = "none"
    /\ message[r] = "none" => ~handled[r] /\ reply[r] = None
    /\ results[r] # {} => handled[r]
    /\ handled[r] => fits[r]
    /\ message[r] \in Services => handled[r]
    /\ http[r] # None => pc[r] = "answered"
    /\ pc[r] \in {"arriving", "waiting"} => ~heard[r]
    /\ pc[r] = "saving" => heard[r] /\ Valid \in results[r]

(* Why there is a reply, and why an answer made from one is what it is.    *)
Explained(r) ==
    /\ reply[r] # None => \/ ~fits[r] /\ reply[r] = Refusal
                          \/ \E res \in results[r] : ~Written(res).threw
                                                       /\ reply[r] = Written(res).value
    /\ heard[r] => \/ ~fits[r] /\ http[r] = Answer(400, "with")
                   \/ \E res \in results[r] : http[r] = Told(res)
                   \/ /\ Valid \in results[r]
                      /\ pc[r] = "saving" \/ http[r] \in {Success, Answer(500, "with")}

(* What an answer says of the handler and of the database.                 *)
Justified(r) ==
    /\ http[r] \in Refusals => message[r] = "none" \/ ~fits[r]
    /\ http[r] = Success => stored[r]
    /\ stored[r] => Valid \in results[r]

Consistent(r) == Progress(r) /\ Explained(r) /\ Justified(r)

Inv == TypeOK /\ (\A r \in Requests : Consistent(r)) /\ CrashesAreUnserialisable

LEMMA InvImplies ==
    Inv => CallerIsToldWhy /\ RefusedIsUnhandled /\ SuccessIsStored
  <1> SUFFICES ASSUME Inv
               PROVE  CallerIsToldWhy /\ RefusedIsUnhandled /\ SuccessIsStored
    OBVIOUS
  <1>1. CallerIsToldWhy
    BY DEF CallerIsToldWhy, Inv, Consistent, Explained, Valid, Success
  <1>2. RefusedIsUnhandled
    BY DEF RefusedIsUnhandled, Inv, Consistent, Progress, Justified, Refusals
  <1>3. SuccessIsStored
    BY DEF SuccessIsStored, Inv, Consistent, Justified, Valid, Success
  <1> QED
    BY <1>1, <1>2, <1>3

LEMMA InitInv == Init => Inv
  <1> SUFFICES ASSUME Init PROVE Inv
    OBVIOUS
  <1>1. TypeOK
    BY Constants DEF Init, TypeOK, Stages
  <1>2. \A r \in Requests : Consistent(r)
    <2> SUFFICES ASSUME NEW r \in Requests PROVE Consistent(r)
      OBVIOUS
    <2>1. None \notin Refusals \cup {Success}
      BY Constants, AnswersDiffer, AnswerType DEF Refusals, Statuses, Details
    <2>2. "none" \notin Services
      BY Constants DEF Stages
    <2> QED
      BY <2>1, <2>2 DEF Init, Consistent, Progress, Explained, Justified
  <1>3. CrashesAreUnserialisable
    BY DEF Init, CrashesAreUnserialisable
  <1> QED
    BY <1>1, <1>2, <1>3 DEF Inv

-----------------------------------------------------------------------------
(* The steps of the gateway.                                               *)

Answered(r, a) ==
    /\ pc' = [pc EXCEPT ![r] = "answered"]
    /\ http' = [http EXCEPT ![r] = a]

LEMMA FailShows ==
    ASSUME NEW r, NEW e, Fail(r, e)
    PROVE  Answered(r, Shown(e))
  BY DEF Fail, Respond, Answered, Shown

LEMMA OthersShown ==
    /\ \A s, d : Shown(Of("http", s, d)) = Answer(s, d)
    /\ Shown(Value("error")) = Answer(500, "with")
  <1>1. ASSUME NEW s, NEW d
        PROVE  HandleError(Of("http", s, d)) = Generic(s, d)
    BY ValueFields DEF HandleError, IsGenericError
  <1>2. HandleError(Value("error")) = Generic(500, "with")
    BY ValueFields DEF HandleError, IsGenericError, Value
  <1> QED
    BY <1>1, <1>2, ValueFields DEF Shown, Generic

(* A step leaves the other requests consistent.                            *)
LEMMA Unmoved ==
    ASSUME NEW q \in Requests, Consistent(q),
           pc'[q] = pc[q], fits'[q] = fits[q], message'[q] = message[q],
           reply'[q] = reply[q], http'[q] = http[q], stored'[q] = stored[q],
           handled'[q] = handled[q], results'[q] = results[q], heard'[q] = heard[q]
    PROVE  Consistent(q)'
  BY DEF Consistent, Progress, Explained, Justified

(* A request is answered before its reply was heard.                       *)
LEMMA AnswerStep ==
    ASSUME Inv, NEW r \in Requests, NEW a \in Answers \ {Success},
           pc[r] \in {"arriving", "waiting"},
           a \in Refusals => pc[r] = "arriving",
           Answered(r, a), UNCHANGED <<service, fits, stored, heard>>
    PROVE  Inv'
  <1> USE DEF Inv
  <1>1. TypeOK'
    BY DEF TypeOK, Answered, service
  <1>2. ASSUME NEW q \in Requests PROVE Consistent(q)'
    <2>1. CASE q # r
      BY <2>1, Unmoved DEF Answered, service, TypeOK
    <2>2. CASE q = r
      <3>1. pc'[r] = "answered" /\ http'[r] = a
        BY DEF Answered, TypeOK
      <3>2. Progress(r)'
        BY <3>1 DEF Consistent, Progress, service
      <3>3. Explained(r)'
        BY <3>1 DEF Consistent, Progress, Explained, service
      <3>4. Justified(r)'
        BY <3>1 DEF Consistent, Progress, Justified, service
      <3> QED
        BY <2>2, <3>2, <3>3, <3>4 DEF Consistent
    <2> QED
      BY <2>1, <2>2
  <1>3. CrashesAreUnserialisable'
    BY DEF CrashesAreUnserialisable, service
  <1> QED
    BY <1>1, <1>2, <1>3

LEMMA RefuseStep ==
    ASSUME Inv, NEW r \in Requests, Refuse(r) PROVE Inv'
  <1>1. PICK s \in {400, 401, 403, 429}, d \in Details : Fail(r, Of("http", s, d))
    BY DEF Refuse
  <1>2. Answered(r, Answer(s, d))
    BY <1>1, FailShows, OthersShown
  <1>3. Answer(s, d) \in Answers \ {Success}
    BY AnswersDiffer
  <1>4. /\ pc[r] \in {"arriving", "waiting"}
        /\ pc[r] = "arriving"
        /\ UNCHANGED <<service, fits, stored, heard>>
    BY DEF Refuse
  <1> QED
    BY <1>2, <1>3, <1>4, AnswerStep

LEMMA ProduceFailsStep ==
    ASSUME Inv, NEW r \in Requests, ProduceFails(r) PROVE Inv'
  <1>1. Wrapped(Throw(Value("error")), Generic(424, "without")) = Throw(Generic(424, "without"))
    BY Fields, Outcomes DEF Wrapped, IsGenericError, Value
  <1>2. PICK s \in {503, 424} : Fail(r, Generic(s, "without"))
    BY <1>1, Outcomes DEF ProduceFails
  <1>3. Answered(r, Answer(s, "without"))
    BY <1>2, FailShows, ErrorShown
  <1>4. Answer(s, "without") \in Answers \ {Success}
    BY AnswersDiffer DEF Details
  <1>5. /\ pc[r] \in {"arriving", "waiting"}
        /\ pc[r] = "arriving"
        /\ UNCHANGED <<service, fits, stored, heard>>
    BY DEF ProduceFails
  <1> QED
    BY <1>3, <1>4, <1>5, AnswerStep

LEMMA WaitFailsStep ==
    ASSUME Inv, NEW r \in Requests, Timeout(r) \/ Mismatch(r) PROVE Inv'
  <1>1. PICK s \in {408, 400} : Fail(r, Generic(s, "without"))
    BY DEF Timeout, Mismatch
  <1>2. Answered(r, Answer(s, "without"))
    BY <1>1, FailShows, ErrorShown
  <1>3. Answer(s, "without") \in Answers \ (Refusals \cup {Success})
    BY AnswersDiffer DEF Details
  <1> QED
    BY <1>2, <1>3, AnswerStep DEF Timeout, Mismatch

LEMMA PublishStep ==
    ASSUME Inv, NEW r \in Requests, Publish(r) PROVE Inv'
  <1> USE DEF Inv, Publish
  <1>1. TypeOK'
    BY DEF TypeOK, Stages
  <1>2. ASSUME NEW q \in Requests PROVE Consistent(q)'
    <2>1. CASE q # r
      BY <2>1, Unmoved DEF TypeOK
    <2>2. CASE q = r
      <3>1. pc'[r] = "waiting" /\ message'[r] = "queued"
        BY DEF TypeOK
      <3>2. "queued" \notin Services
        BY Constants DEF Stages
      <3>3. Consistent(r) /\ pc[r] = "arriving" /\ message[r] = "none"
        BY DEF Consistent, Progress
      <3>4. http[r] = None
        BY <3>3 DEF Consistent, Progress
      <3>5. None \notin Refusals
        BY Constants, AnswersDiffer, AnswerType DEF Refusals, Statuses, Details
      <3>6. Progress(r)'
        BY <3>1, <3>2, <3>3, <3>4 DEF Consistent, Progress
      <3>7. Explained(r)'
        BY <3>1, <3>3 DEF Consistent, Progress, Explained
      <3>8. Justified(r)'
        BY <3>3, <3>4, <3>5 DEF Consistent, Justified
      <3> QED
        BY <2>2, <3>6, <3>7, <3>8 DEF Consistent
    <2> QED
      BY <2>1, <2>2
  <1>3. CrashesAreUnserialisable'
    BY DEF CrashesAreUnserialisable
  <1> QED
    BY <1>1, <1>2, <1>3

(* What a reply in time does: the request is answered with the refusal or  *)
(* as the table says of a result, or goes on with a valid response.        *)
LEMMA ReplyOutcome ==
    ASSUME Inv, NEW r \in Requests, ReceiveReply(r)
    PROVE  \/ ~fits[r] /\ Answered(r, Answer(400, "with"))
           \/ \E res \in results[r] : Answered(r, Told(res))
           \/ /\ Valid \in results[r]
              /\ pc' = [pc EXCEPT ![r] = "saving"]
              /\ UNCHANGED http
  <1> DEFINE o == Response(reply[r])
  <1>1. \/ o.threw /\ Fail(r, o.value)
        \/ ~o.threw /\ pc' = [pc EXCEPT ![r] = "saving"] /\ UNCHANGED http
    BY DEF ReceiveReply
  <1>2. \/ ~o.threw /\ pc' = [pc EXCEPT ![r] = "saving"] /\ UNCHANGED http
        \/ o.threw /\ Answered(r, Shown(o.value))
    BY <1>1, FailShows
  <1>3. \/ ~fits[r] /\ reply[r] = Refusal
        \/ \E res \in results[r] : ~Written(res).threw /\ reply[r] = Written(res).value
    BY DEF Inv, Consistent, Explained, ReceiveReply
  <1>4. CASE ~fits[r] /\ reply[r] = Refusal
    BY <1>2, <1>4, RefusalShown, Outcomes
  <1>5. ASSUME NEW res \in results[r], ~Written(res).threw, reply[r] = Written(res).value
        PROVE  \/ Answered(r, Told(res))
               \/ /\ res = Valid
                  /\ pc' = [pc EXCEPT ![r] = "saving"]
                  /\ UNCHANGED http
    <2>1. res \in Results
      BY DEF Inv, TypeOK
    <2>2. \/ res = Valid /\ ~o.threw
          \/ o.threw /\ Shown(o.value) = Told(res)
      BY <1>5, <2>1, ResultHeard DEF Valid
    <2> QED
      BY <1>2, <2>2
  <1> QED
    BY <1>3, <1>4, <1>5

LEMMA ReceiveReplyStep ==
    ASSUME Inv, NEW r \in Requests, ReceiveReply(r) PROVE Inv'
  <1> DEFINE rest == <<service, fits, stored>>
  <1>1. /\ pc[r] = "waiting"
        /\ heard' = [heard EXCEPT ![r] = TRUE]
        /\ UNCHANGED rest
    BY DEF ReceiveReply
  <1>2. results[r] \subseteq Results
    BY DEF Inv, TypeOK
  <1>3. \A res \in results[r] : Told(res) \in Answers \ (Refusals \cup {Success})
    BY <1>2, ToldType
  <1>4. Answer(400, "with") \in Answers \ {Success}
    BY AnswersDiffer DEF Details
  <1>5. CASE \E a \in Answers \ {Success} :
                /\ Answered(r, a)
                /\ a \in Refusals => ~fits[r]
                /\ \/ ~fits[r] /\ a = Answer(400, "with")
                   \/ \E res \in results[r] : a = Told(res)
    <2>1. PICK a \in Answers \ {Success} :
                /\ Answered(r, a)
                /\ a \in Refusals => ~fits[r]
                /\ \/ ~fits[r] /\ a = Answer(400, "with")
                   \/ \E res \in results[r] : a = Told(res)
      BY <1>5
    <2>2. TypeOK'
      BY <1>1, <2>1 DEF Inv, TypeOK, Answered, service
    <2>3. ASSUME NEW q \in Requests PROVE Consistent(q)'
      <3>1. CASE q # r
        BY <1>1, <2>1, <3>1, Unmoved DEF Inv, Answered, service, TypeOK
      <3>2. CASE q = r
        <4>1. pc'[r] = "answered" /\ http'[r] = a /\ heard'[r]
          BY <1>1, <2>1 DEF Answered, Inv, TypeOK
        <4>2. Progress(r)'
          BY <1>1, <4>1 DEF Inv, Consistent, Progress, service
        <4>3. Explained(r)'
          BY <1>1, <2>1, <4>1 DEF Inv, Consistent, Explained, service
        <4>4. Justified(r)'
          BY <1>1, <2>1, <4>1 DEF Inv, Consistent, Justified, service
        <4> QED
          BY <3>2, <4>2, <4>3, <4>4 DEF Consistent
      <3> QED
        BY <3>1, <3>2
    <2>4. CrashesAreUnserialisable'
      BY <1>1 DEF Inv, CrashesAreUnserialisable, service
    <2> QED
      BY <2>2, <2>3, <2>4 DEF Inv
  <1>6. CASE /\ Valid \in results[r]
             /\ pc' = [pc EXCEPT ![r] = "saving"]
             /\ UNCHANGED http
    <2>1. TypeOK'
      BY <1>1, <1>6 DEF Inv, TypeOK, service
    <2>2. ASSUME NEW q \in Requests PROVE Consistent(q)'
      <3>1. CASE q # r
        BY <1>1, <1>6, <3>1, Unmoved DEF Inv, service, TypeOK
      <3>2. CASE q = r
        <4>1. pc'[r] = "saving" /\ heard'[r]
          BY <1>1, <1>6 DEF Inv, TypeOK
        <4>2. http[r] = None /\ http'[r] = None
          BY <1>1, <1>6 DEF Inv, Consistent, Progress
        <4>3. Progress(r)'
          BY <1>1, <1>6, <4>1, <4>2 DEF Inv, Consistent, Progress, service
        <4>4. Explained(r)'
          BY <1>1, <1>6, <4>1 DEF Inv, Consistent, Explained, service
        <4>5. Justified(r)'
          BY <1>1, <1>6 DEF Inv, Consistent, Justified, service
        <4> QED
          BY <3>2, <4>3, <4>4, <4>5 DEF Consistent
      <3> QED
        BY <3>1, <3>2
    <2>3. CrashesAreUnserialisable'
      BY <1>1 DEF Inv, CrashesAreUnserialisable, service
    <2> QED
      BY <2>1, <2>2, <2>3 DEF Inv
  <1> QED
    BY <1>3, <1>4, <1>5, <1>6, ReplyOutcome

(* The save, whatever becomes of the row.                                  *)
LEMMA SaveStep ==
    ASSUME Inv, NEW r \in Requests, Save(r) \/ SaveFails(r) PROVE Inv'
  <1>1. PICK b \in BOOLEAN, a \in {Success, Answer(500, "with")} :
            /\ stored' = [stored EXCEPT ![r] = b]
            /\ Answered(r, a)
            /\ a = Success => b = TRUE
    <2>1. CASE Save(r)
      BY <2>1 DEF Save, Respond, Answered, Success
    <2>2. CASE SaveFails(r)
      <3>1. Answered(r, Answer(500, "with"))
        BY <2>2, FailShows, OthersShown DEF SaveFails
      <3>2. Answer(500, "with") # Success
        BY AnswersDiffer DEF Details
      <3> QED
        BY <2>2, <3>1, <3>2 DEF SaveFails
    <2> QED
      BY <2>1, <2>2
  <1>2. pc[r] = "saving" /\ UNCHANGED <<service, fits, heard>>
    BY DEF Save, SaveFails
  <1>3. a \in Answers /\ a \notin Refusals
    <2>1. Success \notin Refusals
      BY AnswerFields DEF Success, Refusals
    <2> QED
      BY <2>1, AnswersDiffer DEF Details
  <1>4. TypeOK'
    BY <1>1, <1>2, <1>3 DEF Inv, TypeOK, Answered, service
  <1>5. ASSUME NEW q \in Requests PROVE Consistent(q)'
    <2>1. CASE q # r
      BY <1>1, <1>2, <2>1, Unmoved DEF Inv, Answered, service, TypeOK
    <2>2. CASE q = r
      <3>1. pc'[r] = "answered" /\ http'[r] = a /\ stored'[r] = b
        BY <1>1 DEF Answered, Inv, TypeOK
      <3>2. heard[r] /\ Valid \in results[r]
        BY <1>2 DEF Inv, Consistent, Progress
      <3>3. Progress(r)'
        BY <1>2, <3>1 DEF Inv, Consistent, Progress, service
      <3>4. Explained(r)'
        BY <1>2, <3>1, <3>2 DEF Inv, Consistent, Explained, service
      <3>5. Justified(r)'
        BY <1>1, <1>2, <1>3, <3>1, <3>2 DEF Justified, service
      <3> QED
        BY <2>2, <3>3, <3>4, <3>5 DEF Consistent
    <2> QED
      BY <2>1, <2>2
  <1>6. CrashesAreUnserialisable'
    BY <1>2 DEF Inv, CrashesAreUnserialisable, service
  <1> QED
    BY <1>4, <1>5, <1>6 DEF Inv

-----------------------------------------------------------------------------
(* The steps of the services and of the broker.                            *)

(* A message that goes anywhere but to a service that has not called its   *)
(* handler leaves its request consistent.                                  *)
LEMMA MessageMoved ==
    ASSUME Inv, NEW q \in Requests, message[q] # "none", message'[q] # "none",
           message'[q] \in Services => handled[q],
           pc'[q] = pc[q], fits'[q] = fits[q], reply'[q] = reply[q],
           http'[q] = http[q], stored'[q] = stored[q], handled'[q] = handled[q],
           heard'[q] = heard[q],
           results[q] \subseteq results'[q], results'[q] # {} => handled[q]
    PROVE  Consistent(q)'
  <1>1. Consistent(q)
    BY DEF Inv
  <1>2. Progress(q)'
    BY <1>1 DEF Consistent, Progress
  <1>3. Explained(q)'
    BY <1>1 DEF Consistent, Explained
  <1>4. Justified(q)'
    BY <1>1 DEF Consistent, Justified
  <1> QED
    BY <1>2, <1>3, <1>4 DEF Consistent

LEMMA ServicesAreNoStages ==
    ASSUME NEW s \in Services
    PROVE  s \notin {"none", "queued", "settled", "expired"}
  BY Constants DEF Stages

LEMMA StagesAreNoServices ==
    "none" \notin Services /\ "queued" \notin Services
      /\ "settled" \notin Services /\ "expired" \notin Services
  BY Constants DEF Stages

(* The service's reply, with what it has recorded of its handler.          *)
LEMMA Replied ==
    ASSUME Inv, NEW r \in Requests, NEW w, Send(r, w),
           message[r] # "none",
           pc' = pc, fits' = fits, http' = http, stored' = stored, heard' = heard,
           handled' = handled,
           results[r] \subseteq results'[r], results'[r] # {} => handled[r],
           \/ ~fits[r] /\ w = Refusal
           \/ \E res \in results'[r] : ~Written(res).threw /\ w = Written(res).value
    PROVE  Consistent(r)'
  <1>1. Consistent(r)
    BY DEF Inv
  <1>2. message'[r] = "settled" /\ reply'[r] = w
    BY DEF Inv, TypeOK, Send
  <1>3. Progress(r)'
    BY <1>1, <1>2, StagesAreNoServices DEF Consistent, Progress
  <1>4. Explained(r)'
    BY <1>1, <1>2 DEF Consistent, Explained
  <1>5. Justified(r)'
    BY <1>1, <1>2 DEF Consistent, Justified
  <1> QED
    BY <1>3, <1>4, <1>5 DEF Consistent

LEMMA DeliverStep ==
    ASSUME Inv, NEW r \in Requests, NEW s \in Services, Deliver(r, s) PROVE Inv'
  <1>1. /\ message[r] = "queued"
        /\ UNCHANGED <<pc, fits, http, stored, restarts, results, heard>>
    BY DEF Deliver
  <1>2. \/ ~fits[r] /\ Send(r, Refusal) /\ UNCHANGED handled
        \/ /\ fits[r]
           /\ handled' = [handled EXCEPT ![r] = TRUE]
           /\ message' = [message EXCEPT ![r] = s]
           /\ UNCHANGED <<reply, up>>
    BY ContentChecked DEF Deliver, Refusal
  <1>3. results[r] # {} => handled[r]
    BY DEF Inv, Consistent, Progress
  <1>4. CASE ~fits[r] /\ Send(r, Refusal) /\ UNCHANGED handled
    <2>1. TypeOK'
      BY <1>1, <1>4, RefusalShown DEF Inv, TypeOK, Send, Stages
    <2>2. ASSUME NEW q \in Requests PROVE Consistent(q)'
      <3>1. CASE q # r
        BY <1>1, <1>4, <3>1, Unmoved DEF Inv, Send, TypeOK
      <3>2. CASE q = r
        BY <1>1, <1>3, <1>4, <3>2, Replied
      <3> QED
        BY <3>1, <3>2
    <2>3. CrashesAreUnserialisable'
      BY <1>1, <1>4 DEF Inv, CrashesAreUnserialisable, Send
    <2> QED
      BY <2>1, <2>2, <2>3 DEF Inv
  <1>5. CASE /\ fits[r]
             /\ handled' = [handled EXCEPT ![r] = TRUE]
             /\ message' = [message EXCEPT ![r] = s]
             /\ UNCHANGED <<reply, up>>
    <2>1. TypeOK'
      BY <1>1, <1>5 DEF Inv, TypeOK
    <2>2. ASSUME NEW q \in Requests PROVE Consistent(q)'
      <3>1. CASE q # r
        BY <1>1, <1>5, <3>1, Unmoved DEF Inv, TypeOK
      <3>2. CASE q = r
        <4>1. Consistent(r)
          BY DEF Inv
        <4>2. message'[r] = s /\ handled'[r]
          BY <1>5 DEF Inv, TypeOK
        <4>3. pc[r] # "arriving"
          BY <1>1, <4>1 DEF Consistent, Progress
        <4>4. Progress(r)'
          BY <1>1, <1>5, <4>1, <4>2, <4>3, ServicesAreNoStages DEF Consistent, Progress
        <4>5. Explained(r)'
          BY <1>1, <1>5, <4>1 DEF Consistent, Explained
        <4>6. Justified(r)'
          BY <1>1, <1>5, <4>1 DEF Consistent, Justified
        <4> QED
          BY <3>2, <4>4, <4>5, <4>6 DEF Consistent
      <3> QED
        BY <3>1, <3>2
    <2>3. CrashesAreUnserialisable'
      BY <1>1, <1>5 DEF Inv, CrashesAreUnserialisable
    <2> QED
      BY <2>1, <2>2, <2>3 DEF Inv
  <1> QED
    BY <1>2, <1>4, <1>5

LEMMA HandlerEndsStep ==
    ASSUME Inv, NEW r \in Requests, NEW s \in Services, HandlerEnds(r, s) PROVE Inv'
  <1>1. /\ message[r] = s
        /\ UNCHANGED <<pc, fits, http, stored, restarts, handled, heard>>
    BY DEF HandlerEnds
  <1>2. PICK res \in Results :
            /\ results' = [results EXCEPT ![r] = @ \cup {res}]
            /\ \/ Written(res).threw /\ Crash(s)
               \/ ~Written(res).threw /\ Send(r, Written(res).value)
    BY DEF HandlerEnds, Written
  <1>3. handled[r]
    BY <1>1 DEF Inv, Consistent, Progress
  <1>4. /\ results'[r] = results[r] \cup {res}
        /\ \A q \in Requests : results[q] \subseteq results'[q]
                                 /\ (q # r => results'[q] = results[q])
        /\ results' \in [Requests -> SUBSET Results]
    BY <1>2 DEF Inv, TypeOK
  <1>5. s \notin {"none", "queued", "settled", "expired"}
    BY ServicesAreNoStages
  <1>6. CASE Written(res).threw /\ Crash(s)
    <2>1. TypeOK'
      BY <1>1, <1>4, <1>6 DEF Inv, TypeOK, Crash, Stages
    <2>2. ASSUME NEW q \in Requests PROVE Consistent(q)'
      <3>1. message'[q] = IF message[q] = s THEN "queued" ELSE message[q]
        BY <1>6 DEF Crash
      <3>2. results'[q] # {} => handled[q]
        BY <1>3, <1>4 DEF Inv, Consistent, Progress
      <3>3. CASE message[q] = s
        BY <1>1, <1>4, <1>5, <1>6, <3>1, <3>2, <3>3, StagesAreNoServices, MessageMoved
           DEF Crash
      <3>4. CASE message[q] # s
        <4>1. Consistent(q)
          BY DEF Inv
        <4>2. q # r /\ message'[q] = message[q] /\ results'[q] = results[q]
          BY <1>1, <1>4, <3>1, <3>4
        <4> QED
          BY <1>1, <1>6, <4>1, <4>2, Unmoved DEF Crash
      <3> QED
        BY <3>3, <3>4
    <2>3. CrashesAreUnserialisable'
      BY <1>4, <1>6, UnserialisableThrows DEF CrashesAreUnserialisable
    <2> QED
      BY <2>1, <2>2, <2>3 DEF Inv
  <1>7. CASE ~Written(res).threw /\ Send(r, Written(res).value)
    <2>1. Written(res).value \in Values
      BY <1>7, ResultHeard
    <2>2. TypeOK'
      BY <1>1, <1>4, <1>7, <2>1 DEF Inv, TypeOK, Send, Stages
    <2>3. ASSUME NEW q \in Requests PROVE Consistent(q)'
      <3>1. CASE q # r
        BY <1>1, <1>4, <1>7, <3>1, Unmoved DEF Inv, Send, TypeOK
      <3>2. CASE q = r
        BY <1>1, <1>3, <1>4, <1>5, <1>7, <3>2, Replied
      <3> QED
        BY <3>1, <3>2
    <2>4. CrashesAreUnserialisable'
      BY <1>1, <1>4, <1>7 DEF Inv, CrashesAreUnserialisable, Send
    <2> QED
      BY <2>2, <2>3, <2>4 DEF Inv
  <1> QED
    BY <1>2, <1>6, <1>7

LEMMA RestartStep ==
    ASSUME Inv, NEW s \in Services, Restart(s) PROVE Inv'
  <1> USE DEF Inv, Restart
  <1>1. TypeOK'
    BY Constants DEF TypeOK
  <1>2. ASSUME NEW q \in Requests PROVE Consistent(q)'
    BY Unmoved
  <1>3. CrashesAreUnserialisable'
    BY DEF CrashesAreUnserialisable
  <1> QED
    BY <1>1, <1>2, <1>3

LEMMA ExpireStep ==
    ASSUME Inv, NEW r \in Requests, Expire(r) PROVE Inv'
  <1>1. TypeOK'
    BY DEF Inv, Expire, TypeOK, Stages
  <1>2. ASSUME NEW q \in Requests PROVE Consistent(q)'
    <2>1. CASE q # r
      BY <2>1, Unmoved DEF Inv, Expire, TypeOK
    <2>2. CASE q = r
      <3>1. message[r] = "queued" /\ message'[r] = "expired"
        BY DEF Inv, Expire, TypeOK
      <3>2. results[r] # {} => handled[r]
        BY DEF Inv, Consistent, Progress
      <3> QED
        BY <2>2, <3>1, <3>2, StagesAreNoServices, MessageMoved DEF Expire
    <2> QED
      BY <2>1, <2>2
  <1>3. CrashesAreUnserialisable'
    BY DEF Inv, Expire, CrashesAreUnserialisable
  <1> QED
    BY <1>1, <1>2, <1>3 DEF Inv

-----------------------------------------------------------------------------
(* The theorems.                                                           *)

LEMMA StepInv == Inv /\ [Next]_vars => Inv'
  <1> SUFFICES ASSUME Inv, [Next]_vars PROVE Inv'
    OBVIOUS
  <1>1. ASSUME NEW r \in Requests, Gateway(r) PROVE Inv'
    BY <1>1, RefuseStep, ProduceFailsStep, WaitFailsStep, PublishStep,
       ReceiveReplyStep, SaveStep DEF Gateway
  <1>2. ASSUME NEW r \in Requests, NEW s \in Services, Deliver(r, s) \/ HandlerEnds(r, s)
        PROVE  Inv'
    BY <1>2, DeliverStep, HandlerEndsStep
  <1>3. CASE UNCHANGED vars
    <2>1. ASSUME NEW q \in Requests PROVE Consistent(q)'
      BY <1>3, Unmoved DEF Inv, vars
    <2>2. TypeOK' /\ CrashesAreUnserialisable'
      BY <1>3 DEF Inv, vars, TypeOK, CrashesAreUnserialisable
    <2> QED
      BY <2>1, <2>2 DEF Inv
  <1> QED
    BY <1>1, <1>2, <1>3, ExpireStep, RestartStep DEF Next

LEMMA Invariance == Spec => []Inv
  BY InitInv, StepInv, PTL DEF Spec

(* Statuses, details and message stages stay in their ranges.              *)
THEOREM TypeCorrect == Spec => []TypeOK
  <1>1. Inv => TypeOK
    BY DEF Inv
  <1> QED
    BY <1>1, Invariance, PTL

(* Every answer made from a reply is the one the table states for what     *)
(* happened at the service: the error survives five rewrites on its way.   *)
THEOREM WhyIsTold == Spec => []CallerIsToldWhy
  BY InvImplies, Invariance, PTL

(* An answer that blames the caller, or says that nothing was sent, means  *)
(* that no handler has seen the order.                                     *)
THEOREM RefusalIsSafe == Spec => []RefusedIsUnhandled
  BY InvImplies, Invariance, PTL

(* Success means stored, and stored means accepted.                        *)
THEOREM SuccessIsBacked == Spec => []SuccessIsStored
  BY InvImplies, Invariance, PTL

(* Only a result that cannot be serialised ends a service's process.       *)
THEOREM CrashCause == Spec => []CrashesAreUnserialisable
  <1>1. Inv => CrashesAreUnserialisable
    BY DEF Inv
  <1> QED
    BY <1>1, Invariance, PTL
=============================================================================
