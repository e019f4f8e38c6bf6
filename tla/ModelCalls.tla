----------------------------- MODULE ModelCalls -----------------------------
(***************************************************************************)
(* The model gateway: one logical call of a role, as the budget claims it, *)
(* and the requests it becomes.                                            *)
(*                                                                         *)
(* A Retrier repeats an attempt while the failure is worth repeating.  An  *)
(* attempt of a structured role is a request, and a verification of its    *)
(* answer that may ask for a repair; the summarizer's verification counts  *)
(* the text with the token counter, whose own requests run under a retrier *)
(* of its own, inside the attempt.  Counts and embeddings are cached by    *)
(* text.                                                                   *)
(*                                                                         *)
(* Calls are made one after another, as the engine's sequential phases     *)
(* make them; every role has a retrier of its own and only the counter and *)
(* the embedding provider keep anything between calls.  Prompts and the    *)
(* answers' wording are abstracted to which checks an answer would fail    *)
(* and what its text costs.                                                *)
(***************************************************************************)
EXTENDS Integers, Sequences, FiniteSetsExt, SequencesExt

CONSTANTS
  Text,          \* texts that are counted, embedded or answered
  Tokens,        \* what each text costs
  Limit,         \* summary_target_token_limit of the plan
  MaxAttempts,   \* RetryPolicy.max_attempts
  MaxCalls,      \* how many calls are made
  Roles,         \* the roles that make them
  Provider,      \* the exceptions the provider is assumed to raise
  None           \* nothing

VARIABLES
  pc,            \* where the current call is
  role,          \* its role
  index,         \* the retrier's attempt, from zero
  hint,          \* the repair the attempt was told of
  answer,        \* what the provider answered last
  counting,      \* the nested count: why it is made, and its own attempt
  cache,         \* the texts the counter, and the embedder, have cached
  outcome,       \* how the last call ended
  calls,         \* calls made so far
  trail,         \* history: the exceptions of this call's attempts
  requests,      \* history: requests of this call
  counts         \* history: requests of this call's nested counts

vars == <<pc, role, index, hint, answer, counting, cache, outcome, calls,
          trail, requests, counts>>

Structured == {"writer", "summarizer", "interviewer", "evaluator"}
Cached     == {"token_counter", "embedding"}

-----------------------------------------------------------------------------
(* What a failure was, and whether asking again could help.                *)

\* The exceptions filed under each code; any other is not this package's.
Filed ==
  [access_denied   |-> {"AccessDenied", "ExpiredToken", "UnrecognizedClient"},
   unsupported     |-> {"ResourceNotFound"},
   validation      |-> {"ValidationException", "OtherClientError"},
   throttling      |-> {"Throttling", "TooManyRequests", "QuotaExceeded", "ModelThrottled"},
   timeout         |-> {"ModelTimeout", "ReadTimeout"},
   transient       |-> {"InternalServer", "ModelError", "ModelNotReady", "StreamError",
                        "ServiceUnavailable", "OtherServerError", "ConnectionLost"},
   malformed       |-> {"NoStructure", "SchemaInvalid", "RepairLabels", "RepairShape"},
   token_limit     |-> {"ContextOverflow", "MaxTokensReached", "RepairLength"}]

\* The response parsed, and what is wrong with it can be described.
Repairs == {"RepairLabels", "RepairShape", "RepairLength"}

Unfiled == {"Unrecognised", "CounterFailed"}
Exception == Unfiled \cup UNION {Filed[c] : c \in DOMAIN Filed}

Classify(e) ==
  IF \E c \in DOMAIN Filed : e \in Filed[c]
  THEN CHOOSE c \in DOMAIN Filed : e \in Filed[c]
  ELSE None

RetryableCodes == {"throttling", "timeout", "transient", "malformed"}

\* A slip: whatever is not the deployment's fault is repeated.
RetryableUnlessDenied(e) == Classify(e) \notin {"access_denied", "unsupported", "validation"}

IsRetryable(e) == e \in Repairs \/ Classify(e) \in RetryableCodes

\* The attempts a policy permits; how long it waits between them is left out.
Attempts == 0 .. MaxAttempts - 1

LastAttempt(i) == i = Max(Attempts)

ASSUME ConstantsAssumption ==
  /\ Tokens \in [Text -> Nat] /\ Limit \in Nat
  /\ {MaxAttempts, MaxCalls} \subseteq Nat \ {0}
  /\ Roles \subseteq Structured \cup Cached
  /\ Provider \subseteq Exception \ (Repairs \cup {"CounterFailed"})

Flaws == {"labels", "shape"}

\* What a provider's answer amounts to: its text and the checks it would fail.
Answer == [text : Text, flaws : SUBSET Flaws]

\* The nested count: what waits for it, its attempt, how long it took.
Counting == [why : {"fits", "charge"}, index : Nat]

Outcome == [kind : {"result", "error", "raised"}, role : Roles, retries : Nat,
            text : Text \cup {None}, flaws : SUBSET Flaws, code : DOMAIN Filed \cup {None}]

TypeOK ==
  /\ pc \in {"idle", "request", "verify", "count"}
  /\ role \in Roles
  /\ index \in Attempts
  /\ hint \in Repairs \cup {None}
  /\ answer \in Answer \cup {None}
  /\ counting \in Counting \cup {None}
  /\ cache \in [Cached -> SUBSET Text]
  /\ outcome \in Outcome \cup {None}
  /\ calls \in 0 .. MaxCalls
  /\ trail \in BoundedSeq(Exception, MaxAttempts)
  /\ {requests, counts} \subseteq Nat

Init ==
  /\ pc = "idle"
  /\ role \in Roles
  /\ index = 0
  /\ hint = None
  /\ answer = None
  /\ counting = None
  /\ cache = [k \in Cached |-> {}]
  /\ outcome = None
  /\ calls = 0
  /\ trail = <<>>
  /\ requests = 0 /\ counts = 0

-----------------------------------------------------------------------------
(* Ends of a call.                                                         *)

Finish(o) ==
  /\ pc' = "idle"
  /\ outcome' = o
  /\ index' = 0 /\ hint' = None
  /\ answer' = None /\ counting' = None

\* What there is to say of a call that ends now.
Ends(kind, t, flaws, code) ==
  [kind |-> kind, role |-> role, retries |-> index, text |-> t, flaws |-> flaws, code |-> code]

\* The result is returned with its metadata, the retries among them.
Succeed(t) == Finish(Ends("result", t, answer.flaws, None))

\* An exception leaves the call.
Fails(kind, code) == Finish(Ends(kind, None, {}, code))

\* RetriesExhausted becomes a ModelInvocationError; an exception the package
\* does not recognise is re-raised as it is.
Exhaust(c) == Fails("error", c)
Reraise == Fails("raised", None)

\* A slip: the failure itself is handed on, whether or not it has a hint.
HintIsTheFailure(e) == e

\* What the next attempt is told.
HintFrom(e) == IF e \in Repairs THEN e ELSE None

\* The retrier's except clause: an attempt ended with e.
Handle(e) ==
  /\ trail' = Append(trail, e)
  /\ UNCHANGED <<role, calls>>
  /\ IF Classify(e) = None
     THEN Reraise
     ELSE IF LastAttempt(index) \/ ~IsRetryable(e)
     THEN Exhaust(Classify(e))
     ELSE /\ index' = index + 1
          /\ hint' = HintFrom(e)
          /\ pc' = "request"
          /\ answer' = IF role \in Cached THEN answer ELSE None
          /\ counting' = None
          /\ UNCHANGED outcome

-----------------------------------------------------------------------------
(* One call.                                                               *)

Begin(r) ==
  /\ pc = "idle" /\ calls < MaxCalls
  /\ role' = r
  /\ calls' = calls + 1
  /\ trail' = <<>> /\ requests' = 0 /\ counts' = 0
  /\ outcome' = None
  /\ pc' = "request"
  /\ \E t \in Text :
       answer' = IF r \in Cached THEN [text |-> t, flaws |-> {}] ELSE None
  /\ UNCHANGED <<index, hint, counting, cache>>

RequestFails(e) ==
  /\ pc = "request" /\ role \in Structured
  /\ requests' = requests + 1
  /\ UNCHANGED <<cache, counts>>
  /\ Handle(e)

\* A structured answer, to be verified.
Respond(a) ==
  /\ pc = "request" /\ role \in Structured
  /\ requests' = requests + 1
  /\ answer' = a
  /\ pc' = "verify"
  /\ UNCHANGED <<role, index, hint, counting, cache, outcome, calls, trail, counts>>

\* The checks of each role's answer, in the order they are made.
Checks ==
  [writer      |-> <<"labels">>,
   summarizer  |-> <<"labels", "shape">>,
   interviewer |-> <<"labels", "shape">>,
   evaluator   |-> <<"shape", "labels">>]

Failed == {n \in DOMAIN Checks[role] : Checks[role][n] \in answer.flaws}
Repair == [labels |-> "RepairLabels", shape |-> "RepairShape"]

Verify ==
  /\ pc = "verify"
  /\ UNCHANGED <<cache, requests, counts>>
  /\ IF Failed # {}
     THEN Handle(Repair[Checks[role][Min(Failed)]])
     ELSE /\ UNCHANGED <<role, calls, trail>>
          /\ IF role = "summarizer"
             THEN /\ pc' = "count"
                  /\ counting' = [why |-> "fits", index |-> 0]
                  /\ UNCHANGED <<index, hint, answer, outcome>>
             ELSE Succeed(answer.text)

\* A slip: a summary may cost one token more than the plan allowed it.
FitsAlmost(t) == Tokens[t] <= Limit + 1

\* The count of a summary is known, t: it is repaired when it is too long,
\* and charged to the result when it fits.
Fits(t) == Tokens[t] <= Limit

Counted ==
  IF counting.why = "fits"
  THEN IF Fits(answer.text)
       THEN /\ counting' = [why |-> "charge", index |-> 0]
            /\ UNCHANGED <<pc, role, index, hint, answer, outcome, calls, trail>>
       ELSE Handle("RepairLength")
  ELSE /\ Succeed(answer.text)
       /\ UNCHANGED <<role, calls, trail>>

\* A slip: a blank text is answered without a request, and no other.
BlankOnly(k, t) == Tokens[t] = 0

\* A text counted before, like a blank one, is answered without a request.
Known(k, t) == t \in cache[k] \/ Tokens[t] = 0

CountFromCache ==
  /\ pc = "count" /\ Known("token_counter", answer.text)
  /\ UNCHANGED <<cache, requests, counts>>
  /\ Counted

CountByRequest ==
  /\ pc = "count" /\ ~Known("token_counter", answer.text)
  /\ counts' = counts + 1
  /\ cache' = [cache EXCEPT !["token_counter"] = @ \cup {answer.text}]
  /\ UNCHANGED requests
  /\ Counted

\* The nested retrier; what it gives up on is a ModelInvocationError, which
\* the outer retrier does not recognise.
CountFails(e) ==
  /\ pc = "count" /\ ~Known("token_counter", answer.text)
  /\ counts' = counts + 1
  /\ UNCHANGED <<cache, requests>>
  /\ IF IsRetryable(e) /\ ~LastAttempt(counting.index)
     THEN /\ counting' = [counting EXCEPT !.index = @ + 1]
          /\ UNCHANGED <<pc, role, index, hint, answer, outcome, calls, trail>>
     ELSE IF counting.why = "fits"
     THEN Handle(IF Classify(e) = None THEN e ELSE "CounterFailed")
     ELSE /\ Reraise
          /\ UNCHANGED <<role, calls, trail>>

\* A count or an embedding of its own.  Blank and known texts cost nothing to
\* count; embedding nothing is refused.
Ask ==
  /\ pc = "request" /\ role \in Cached
  /\ UNCHANGED <<role, calls, counts, trail>>
  /\ LET t == answer.text IN
     \/ /\ Known(role, t)
        /\ IF role = "embedding" /\ Tokens[t] = 0 THEN Reraise ELSE Succeed(t)
        /\ UNCHANGED <<cache, requests>>
     \/ /\ ~Known(role, t)
        /\ requests' = requests + 1
        /\ cache' = [cache EXCEPT ![role] = @ \cup {t}]
        /\ Succeed(t)

AskFails(e) ==
  /\ pc = "request" /\ role \in Cached
  /\ ~Known(role, answer.text)
  /\ requests' = requests + 1
  /\ UNCHANGED <<cache, counts>>
  /\ Handle(e)

Request ==
  \/ \E e \in Provider : RequestFails(e)
  \/ \E a \in Answer : Respond(a)
  \/ Ask
  \/ \E e \in Provider : AskFails(e)

Count == CountFromCache \/ CountByRequest \/ \E e \in Provider : CountFails(e)

Next == (\E r \in Roles : Begin(r)) \/ Request \/ Verify \/ Count

-----------------------------------------------------------------------------
(* What must hold.                                                         *)

\* Failures no second request could change.
Permanent == {"AccessDenied", "ExpiredToken", "UnrecognizedClient", "ResourceNotFound",
              "ValidationException", "OtherClientError", "ContextOverflow",
              "MaxTokensReached", "Unrecognised", "CounterFailed"}

Ended(kinds) == outcome # None /\ outcome.kind \in kinds

\* A call is repeated after a passing failure or a repair, and only after
\* those; it is given up for a reason or when its attempts are used up; a
\* repair is told to the attempt right after the answer it repairs
\* (failures.is_retryable, Retrier.run).  What is paid is bounded by that: a
\* call becomes at most MaxAttempts requests, each answer of a summarizer at
\* most MaxAttempts counts, and "the recorded retry count is the real one"
\* (docs/model-gateway.md).
RepeatedForAReason ==
  /\ \A n \in DOMAIN trail :
       trail[n] \in Permanent => n = Len(trail) /\ pc = "idle"
  /\ Ended({"error"}) => Last(trail) \in Permanent \/ Len(trail) = MaxAttempts
  /\ pc = "request" /\ hint # None => trail # <<>> /\ Last(trail) = hint
  /\ pc = "request" /\ trail # <<>> /\ Last(trail) \in Repairs => hint = Last(trail)
  /\ requests <= MaxAttempts /\ counts <= MaxAttempts * requests
  /\ Ended({"result", "error"}) /\ requests > 0 => outcome.retries = requests - 1

\* What a role returns passed every check of the role, and the summary whose
\* count was verified is charged that count: it fits the plan's ceiling.
AcceptedIsVerified ==
  /\ Ended({"result"}) /\ outcome.role = "summarizer" => Tokens[outcome.text] <= Limit
  /\ Ended({"result"}) /\ outcome.role \in Structured =>
       ToSet(Checks[outcome.role]) \cap outcome.flaws = {}

\* A text is paid for once: a summary that was verified is charged from the
\* cache, and the second of two equal counts or embeddings makes no request.
PaidForOnce ==
  [][/\ pc = "count" /\ counting.why = "charge" => counts' = counts
     /\ \A k \in Cached : role = k /\ pc = "request" /\ answer.text \in cache[k]
          => requests' = requests]_vars

Spec == Init /\ [][Next]_vars

=============================================================================
