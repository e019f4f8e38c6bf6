-------------------------- MODULE ModelCallsProofs --------------------------
(***************************************************************************)
(* Proofs about ModelCalls, for any texts and costs, any ceiling, any      *)
(* number of attempts and calls, and any roles.                            *)
(***************************************************************************)
EXTENDS ModelCalls, FiniteSums

-----------------------------------------------------------------------------
(* Failures.                                                               *)

\* No failure that is permanent is worth repeating, and every other one that
\* has a code is.
LEMMA PermanentIsGivenUp ==
  ASSUME NEW e \in Exception, Classify(e) # None
  PROVE  e \in Permanent <=> ~ IsRetryable(e)
<1> DEFINE codes == {"access_denied", "unsupported", "validation", "throttling", "timeout",
                     "transient", "malformed", "token_limit"}
<1>1. DOMAIN Filed = codes
  BY DEF Filed
<1>2. PICK c \in codes : c = Classify(e) /\ e \in Filed[c]
  BY <1>1 DEF Classify
<1>3. CASE c = "access_denied"
  BY <1>2, <1>3 DEF Filed, Permanent, IsRetryable, Repairs, RetryableCodes
<1>4. CASE c = "unsupported"
  BY <1>2, <1>4 DEF Filed, Permanent, IsRetryable, Repairs, RetryableCodes
<1>5. CASE c = "validation"
  BY <1>2, <1>5 DEF Filed, Permanent, IsRetryable, Repairs, RetryableCodes
<1>6. CASE c = "throttling"
  BY <1>2, <1>6 DEF Filed, Permanent, IsRetryable, Repairs, RetryableCodes
<1>7. CASE c = "timeout"
  BY <1>2, <1>7 DEF Filed, Permanent, IsRetryable, Repairs, RetryableCodes
<1>8. CASE c = "transient"
  BY <1>2, <1>8 DEF Filed, Permanent, IsRetryable, Repairs, RetryableCodes
<1>9. CASE c = "malformed"
  BY <1>2, <1>9 DEF Filed, Permanent, IsRetryable, Repairs, RetryableCodes
<1>10. CASE c = "token_limit"
  BY <1>2, <1>10 DEF Filed, Permanent, IsRetryable, Repairs, RetryableCodes
<1> QED
  BY <1>3, <1>4, <1>5, <1>6, <1>7, <1>8, <1>9, <1>10

LEMMA ExceptionsAre ==
  /\ Repairs \subseteq Exception /\ "CounterFailed" \in Exception
  /\ Repairs \cap Permanent = {}
<1> DEFINE codes == {"malformed", "token_limit"}
<1>1. /\ codes \subseteq DOMAIN Filed
      /\ \A e \in Repairs : \E c \in codes : e \in Filed[c]
  BY DEF Filed, Repairs
<1>2. Repairs \subseteq Exception
  BY <1>1 DEF Exception
<1>3. "CounterFailed" \in Exception
  BY DEF Exception, Unfiled
<1>4. Repairs \cap Permanent = {}
  BY DEF Repairs, Permanent
<1> QED
  BY <1>2, <1>3, <1>4

LEMMA AttemptsAre ==
  /\ MaxAttempts \in Nat /\ MaxAttempts > 0
  /\ \A i \in Attempts : i \in Nat /\ i < MaxAttempts
  /\ 0 \in Attempts
  /\ \A i \in Attempts : LastAttempt(i) <=> i = MaxAttempts - 1
  /\ \A i \in Attempts : ~ LastAttempt(i) => i + 1 \in Attempts
<1>1. MaxAttempts \in Nat /\ MaxAttempts > 0
  BY ConstantsAssumption
<1>2. Max(Attempts) = MaxAttempts - 1
  BY <1>1 DEF Max, Attempts
<1>3. \A i \in Attempts : LastAttempt(i) <=> i = MaxAttempts - 1
  BY <1>2 DEF LastAttempt
<1> QED
  BY <1>1, <1>3 DEF Attempts

\* The first check an answer fails names the repair it is asked for.
LEMMA RepairOfFirst ==
  ASSUME role \in Structured, Failed # {}
  PROVE  Repair[Checks[role][Min(Failed)]] \in Repairs
<1>1. /\ role \in {"writer", "summarizer", "interviewer", "evaluator"}
      /\ DOMAIN Checks[role] \subseteq 0 .. 2
      /\ \A n \in DOMAIN Checks[role] : Checks[role][n] \in {"labels", "shape"}
  BY DEF Structured, Checks
<1>2. Failed \in SUBSET (0 .. 2) /\ Failed \subseteq DOMAIN Checks[role]
  BY <1>1 DEF Failed
<1>3. Min(Failed) \in Failed
  BY <1>2, MinIsLeast
<1>4. Checks[role][Min(Failed)] \in {"labels", "shape"}
  BY <1>1, <1>2, <1>3
<1> QED
  BY <1>4 DEF Repair, Repairs

-----------------------------------------------------------------------------
(* The invariant.                                                          *)

\* What n requests may cost in counts.
Cap(n) == MaxAttempts * n

LEMMA CapGrows ==
  /\ Cap(0) = 0
  /\ \A n \in Nat : Cap(n) \in Nat /\ Cap(n + 1) = Cap(n) + MaxAttempts
BY AttemptsAre DEF Cap

\* A call under way was told of its last failure, and had no permanent one.
UnderWay ==
  /\ outcome = None
  /\ Len(trail) = index
  /\ \A n \in DOMAIN trail : trail[n] \notin Permanent
  /\ hint = IF trail = <<>> THEN None ELSE HintFrom(trail[Len(trail)])

\* The next request: what was asked again was not known, and is not by now.
Asking ==
  /\ requests = index /\ counts <= Cap(index)
  /\ role \in Cached /\ index > 0 => ~ Known(role, answer.text)

\* An answer in hand; nothing was counted of it.
Verifying == role \in Structured /\ requests = index + 1 /\ counts <= Cap(index)

\* A summary that passed its checks; once it is known to fit, it is known.
CountingIt ==
  /\ role = "summarizer" /\ requests = index + 1 /\ Failed = {}
  /\ counting \in Counting /\ counting.index < MaxAttempts
  /\ IF counting.why = "fits"
     THEN counts <= Cap(index) + counting.index
     ELSE /\ counts <= Cap(requests)
          /\ Known("token_counter", answer.text) /\ Fits(answer.text)

CallInv ==
  /\ pc \in {"idle", "request", "verify", "count"}
  /\ role \in Roles /\ index \in Attempts
  /\ trail \in Seq(Exception)
  /\ requests \in Nat /\ counts \in Nat
  /\ pc = "idle" => hint = None /\ index = 0
  /\ pc # "idle" => UnderWay
  /\ pc = "request" => Asking
  /\ pc = "verify" => Verifying
  /\ pc = "count" => CountingIt

GatewayInv == CallInv /\ RepeatedForAReason /\ AcceptedIsVerified

\* What the properties ask of a call under way follows from where it is.
LEMMA UnderWayIsEnough == CallInv /\ pc # "idle" => RepeatedForAReason /\ AcceptedIsVerified
<1> SUFFICES ASSUME CallInv, pc # "idle"
             PROVE  RepeatedForAReason /\ AcceptedIsVerified
  OBVIOUS
<1>1. UnderWay /\ trail \in Seq(Exception) /\ requests \in Nat /\ counts \in Nat /\ index \in Attempts
  BY DEF CallInv
<1>2. \A kinds : ~ Ended(kinds)
  BY <1>1 DEF UnderWay, Ended
<1>3. requests <= MaxAttempts /\ counts <= Cap(requests)
  <2>1. index \in Nat /\ index < MaxAttempts /\ MaxAttempts \in Nat
    BY <1>1, AttemptsAre
  <2>2. /\ Cap(index) \in Nat /\ Cap(index + 1) \in Nat
        /\ Cap(index + 1) = Cap(index) + MaxAttempts
    BY <2>1, CapGrows
  <2>3. CASE pc = "request"
    BY <2>1, <2>3 DEF CallInv, Asking
  <2>4. CASE pc = "verify"
    BY <1>1, <2>1, <2>2, <2>4 DEF CallInv, Verifying
  <2>5. CASE pc = "count"
    <3>1. CountingIt /\ counting.index \in Nat
      BY <2>5 DEF CallInv, CountingIt, Counting
    <3> QED
      BY <1>1, <2>1, <2>2, <3>1 DEF CountingIt
  <2> QED
    BY <2>3, <2>4, <2>5 DEF CallInv
<1>4. \A n \in DOMAIN trail : trail[n] \notin Permanent
  BY <1>1 DEF UnderWay
<1>5. /\ hint # None => trail # <<>> /\ Last(trail) = hint
      /\ trail # <<>> /\ Last(trail) \in Repairs => hint = Last(trail)
  <2>1. trail # <<>> => Last(trail) = trail[Len(trail)]
    BY DEF Last
  <2> QED
    BY <1>1, <2>1 DEF UnderWay, HintFrom
<1> QED
  BY <1>2, <1>3, <1>4, <1>5 DEF RepeatedForAReason, AcceptedIsVerified, Cap

\* A call that ends keeps the invariant when its last numbers allow its end.
LEMMA OverKeeps ==
  ASSUME CallInv, NEW kind \in {"result", "error", "raised"}, NEW t, NEW f, NEW code,
         Finish(Ends(kind, t, f, code)), role' = role,
         trail' \in Seq(Exception), requests' \in Nat, counts' \in Nat,
         \A n \in DOMAIN trail' : trail'[n] \in Permanent => n = Len(trail'),
         kind = "error" => Last(trail') \in Permanent \/ Len(trail') = MaxAttempts,
         requests' <= MaxAttempts, counts' <= Cap(requests'),
         kind # "raised" /\ requests' > 0 => index = requests' - 1,
         kind = "result" /\ role = "summarizer" => Tokens[t] <= Limit,
         kind = "result" /\ role \in Structured => ToSet(Checks[role]) \cap f = {}
  PROVE  GatewayInv'
<1>1. /\ pc' = "idle" /\ index' = 0 /\ hint' = None /\ outcome' = Ends(kind, t, f, code)
  BY DEF Finish
<1>2. CallInv'
  BY <1>1, AttemptsAre DEF CallInv
<1>3. /\ outcome'.kind = kind /\ outcome'.role = role /\ outcome'.retries = index
      /\ outcome'.text = t /\ outcome'.flaws = f
  BY <1>1 DEF Ends
<1>4. Ended({"error"})' => kind = "error"
  BY <1>3 DEF Ended
<1>5. Ended({"result"})' => kind = "result"
  BY <1>3 DEF Ended
<1>6. Ended({"result", "error"})' => kind # "raised"
  BY <1>3 DEF Ended
<1>7. RepeatedForAReason'
  BY <1>1, <1>3, <1>4, <1>6, AttemptsAre DEF RepeatedForAReason, Cap
<1>8. AcceptedIsVerified'
  BY <1>3, <1>5 DEF AcceptedIsVerified
<1> QED
  BY <1>2, <1>7, <1>8 DEF GatewayInv

\* A call that goes on keeps it when its place does.
LEMMA UnderWayKeeps ==
  ASSUME CallInv', pc' # "idle"
  PROVE  GatewayInv'
<1>1. (CallInv /\ pc # "idle")' => (RepeatedForAReason /\ AcceptedIsVerified)'
  BY UnderWayIsEnough, PTL
<1> QED
  BY <1>1 DEF GatewayInv

-----------------------------------------------------------------------------
(* The steps.                                                              *)

\* The retrier's except clause, once the request and the counts of the
\* attempt are on record.
LEMMA HandleKeeps ==
  ASSUME CallInv, pc # "idle", NEW e \in Exception, Handle(e),
         requests' = index + 1, counts' \in Nat, counts' <= Cap(index + 1),
         role \in Cached => cache' = cache /\ ~ Known(role, answer.text)
  PROVE  GatewayInv'
<1>1. /\ UnderWay /\ trail \in Seq(Exception) /\ index \in Attempts /\ role \in Roles
      /\ role' = role /\ trail' = Append(trail, e)
  BY DEF CallInv, Handle
<1>2. /\ index \in Nat /\ index < MaxAttempts /\ MaxAttempts \in Nat
      /\ LastAttempt(index) <=> index = MaxAttempts - 1
      /\ ~ LastAttempt(index) => index + 1 \in Attempts
  BY <1>1, AttemptsAre
<1>3. /\ Len(trail) = index /\ trail' \in Seq(Exception) /\ Len(trail') = index + 1
      /\ trail' # <<>> /\ trail'[index + 1] = e
      /\ \A n \in DOMAIN trail : trail'[n] = trail[n]
      /\ \A n \in DOMAIN trail' : n = index + 1 \/ n \in DOMAIN trail
  BY <1>1, <1>2 DEF UnderWay
<1>4. \A n \in DOMAIN trail' : trail'[n] \in Permanent => n = Len(trail')
  BY <1>1, <1>3 DEF UnderWay
<1>5. Last(trail') = e
  BY <1>3 DEF Last
<1>6. requests' \in Nat /\ requests' <= MaxAttempts /\ counts' <= Cap(requests')
  BY <1>2
<1>7. CASE Classify(e) = None
  <2>1. Finish(Ends("raised", None, {}, None))
    BY <1>7 DEF Handle, Reraise, Fails
  <2> QED
    BY <1>1, <1>3, <1>4, <1>6, <2>1, OverKeeps
<1>8. CASE Classify(e) # None /\ (LastAttempt(index) \/ ~ IsRetryable(e))
  <2>1. Finish(Ends("error", None, {}, Classify(e)))
    BY <1>8 DEF Handle, Exhaust, Fails
  <2>2. Last(trail') \in Permanent \/ Len(trail') = MaxAttempts
    BY <1>2, <1>3, <1>5, <1>8, PermanentIsGivenUp
  <2>3. index = requests' - 1
    BY <1>2
  <2> QED
    BY <1>1, <1>3, <1>4, <1>6, <2>1, <2>2, <2>3, OverKeeps
<1>9. CASE Classify(e) # None /\ ~ (LastAttempt(index) \/ ~ IsRetryable(e))
  <2>1. /\ index' = index + 1 /\ hint' = HintFrom(e) /\ pc' = "request" /\ outcome' = outcome
        /\ answer' = IF role \in Cached THEN answer ELSE None
    BY <1>9 DEF Handle
  <2>2. e \notin Permanent
    BY <1>9, PermanentIsGivenUp
  <2>3. UnderWay'
    <3>1. \A n \in DOMAIN trail' : trail'[n] \notin Permanent
      BY <1>1, <1>3, <2>2 DEF UnderWay
    <3> QED
      BY <1>1, <1>3, <2>1, <3>1 DEF UnderWay
  <2>4. Asking'
    <3>1. role \in Cached => ~ Known(role, answer.text)'
      BY <1>1, <2>1 DEF Known
    <3> QED
      BY <1>1, <2>1, <3>1 DEF Asking, Known
  <2>5. CallInv'
    BY <1>1, <1>2, <1>3, <1>6, <1>9, <2>1, <2>3, <2>4 DEF CallInv
  <2> QED
    BY <2>1, <2>5, UnderWayKeeps
<1> QED
  BY <1>7, <1>8, <1>9

LEMMA BeginKeeps ==
  ASSUME GatewayInv, NEW r \in Roles, Begin(r)
  PROVE  GatewayInv'
<1>1. /\ pc = "idle" /\ pc' = "request" /\ role' = r /\ trail' = <<>> /\ outcome' = None
      /\ requests' = 0 /\ counts' = 0 /\ UNCHANGED <<index, hint, counting, cache>>
  BY DEF Begin
<1>2. index = 0 /\ hint = None /\ 0 \in Attempts
  BY <1>1, AttemptsAre DEF GatewayInv, CallInv
<1>3. UnderWay'
  BY <1>1, <1>2 DEF UnderWay
<1>4. Asking'
  BY <1>1, <1>2, CapGrows DEF Asking
<1>5. CallInv'
  BY <1>1, <1>2, <1>3, <1>4 DEF CallInv
<1> QED
  BY <1>1, <1>5, UnderWayKeeps

LEMMA RolesDiffer == Structured \cap Cached = {} /\ "summarizer" \in Structured
BY DEF Structured, Cached

LEMMA RequestFailsKeeps ==
  ASSUME GatewayInv, NEW e \in Provider, RequestFails(e) \/ AskFails(e)
  PROVE  GatewayInv'
<1>1. /\ CallInv /\ pc = "request" /\ Handle(e) /\ requests' = requests + 1
      /\ UNCHANGED <<cache, counts>>
      /\ role \in Cached => ~ Known(role, answer.text)
  BY RolesDiffer DEF GatewayInv, RequestFails, AskFails
<1>2. e \in Exception
  BY ConstantsAssumption
<1>3. requests = index /\ counts \in Nat /\ counts <= Cap(index) /\ index \in Nat
  BY <1>1, AttemptsAre DEF CallInv, Asking
<1>4. counts' \in Nat /\ counts' <= Cap(index + 1)
  BY <1>1, <1>3, CapGrows, AttemptsAre
<1> QED
  BY <1>1, <1>2, <1>3, <1>4, HandleKeeps

LEMMA RespondKeeps ==
  ASSUME GatewayInv, NEW a \in Answer, Respond(a)
  PROVE  GatewayInv'
<1>1. /\ CallInv /\ pc = "request" /\ pc' = "verify" /\ role \in Structured
      /\ requests' = requests + 1
      /\ UNCHANGED <<role, index, hint, outcome, trail, counts>>
  BY DEF GatewayInv, Respond
<1>2. /\ requests = index /\ counts \in Nat /\ counts <= Cap(index) /\ index \in Nat /\ UnderWay
  BY <1>1, AttemptsAre DEF CallInv, Asking
<1>3. UnderWay' /\ Verifying'
  BY <1>1, <1>2 DEF UnderWay, Verifying
<1>4. CallInv'
  BY <1>1, <1>2, <1>3 DEF CallInv
<1> QED
  BY <1>1, <1>4, UnderWayKeeps

LEMMA NothingFailed ==
  ASSUME Failed = {}
  PROVE  ToSet(Checks[role]) \cap answer.flaws = {}
BY DEF Failed, ToSet

LEMMA VerifyKeeps ==
  ASSUME GatewayInv, Verify
  PROVE  GatewayInv'
<1>1. /\ CallInv /\ pc = "verify" /\ Verifying /\ UnderWay /\ trail \in Seq(Exception)
      /\ index \in Nat /\ index < MaxAttempts /\ MaxAttempts \in Nat /\ counts \in Nat
      /\ UNCHANGED <<cache, requests, counts>>
  BY AttemptsAre DEF GatewayInv, CallInv, Verify
<1>2. /\ requests = index + 1 /\ role \in Structured /\ requests \in Nat
      /\ counts <= Cap(index) /\ Cap(index) \in Nat
      /\ counts <= Cap(index + 1) /\ counts <= Cap(requests)
  <2>1. requests = index + 1 /\ role \in Structured /\ counts <= Cap(index)
    BY <1>1 DEF Verifying
  <2>2. Cap(index) \in Nat /\ Cap(index + 1) = Cap(index) + MaxAttempts
    BY <1>1, CapGrows
  <2> QED
    BY <1>1, <2>1, <2>2
<1>3. CASE Failed # {}
  <2> DEFINE e == Repair[Checks[role][Min(Failed)]]
  <2>1. e \in Exception
    BY <1>2, <1>3, RepairOfFirst, ExceptionsAre
  <2>2. Handle(e)
    BY <1>3 DEF Verify
  <2> HIDE DEF e
  <2>3. role \notin Cached
    BY <1>2, RolesDiffer
  <2> QED
    BY <1>1, <1>2, <2>1, <2>2, <2>3, HandleKeeps
<1>4. CASE Failed = {} /\ role = "summarizer"
  <2>1. /\ pc' = "count" /\ counting' = [why |-> "fits", index |-> 0]
        /\ UNCHANGED <<role, trail, index, hint, answer, outcome>>
    BY <1>4 DEF Verify
  <2>2. UnderWay'
    BY <1>1, <2>1 DEF UnderWay
  <2>3. counting' \in Counting /\ counting'.index = 0 /\ counting'.why = "fits"
    BY <2>1 DEF Counting
  <2>4. Failed' = {}
    BY <1>4, <2>1 DEF Failed
  <2>5. CountingIt'
    BY <1>1, <1>2, <1>4, <2>1, <2>3, <2>4, AttemptsAre DEF CountingIt
  <2>6. CallInv'
    BY <1>1, <1>2, <2>1, <2>2, <2>5 DEF CallInv
  <2> QED
    BY <2>1, <2>6, UnderWayKeeps
<1>5. CASE Failed = {} /\ role # "summarizer"
  <2>1. Finish(Ends("result", answer.text, answer.flaws, None)) /\ UNCHANGED <<role, trail>>
    BY <1>5 DEF Verify, Succeed
  <2>2. \A n \in DOMAIN trail' : trail'[n] \in Permanent => n = Len(trail')
    BY <1>1, <2>1 DEF UnderWay
  <2>3. ToSet(Checks[role]) \cap answer.flaws = {}
    BY <1>5, NothingFailed
  <2>4. requests' \in Nat /\ requests' <= MaxAttempts /\ counts' \in Nat /\ counts' <= Cap(requests')
        /\ index = requests' - 1 /\ trail' \in Seq(Exception)
    BY <1>1, <1>2, <2>1
  <2> QED
    BY <1>1, <1>5, <2>1, <2>2, <2>3, <2>4, OverKeeps
<1> QED
  BY <1>3, <1>4, <1>5


\* What is known of a summary being counted.
LEMMA CountingKnows ==
  ASSUME CallInv, pc = "count"
  PROVE  /\ UnderWay /\ CountingIt /\ trail \in Seq(Exception) /\ role \in Roles
         /\ role = "summarizer" /\ role \notin Cached /\ role \in Structured /\ Failed = {}
         /\ index \in Nat /\ index < MaxAttempts /\ MaxAttempts \in Nat
         /\ requests = index + 1 /\ counts \in Nat
         /\ Cap(index) \in Nat /\ Cap(index + 1) = Cap(index) + MaxAttempts
         /\ counting.index \in Nat /\ counting.index < MaxAttempts
         /\ counting.why \in {"fits", "charge"}
         /\ ToSet(Checks[role]) \cap answer.flaws = {}
         /\ \A n \in DOMAIN trail : trail[n] \in Permanent => n = Len(trail)
<1>1. /\ UnderWay /\ CountingIt /\ trail \in Seq(Exception) /\ role \in Roles
      /\ index \in Attempts /\ counts \in Nat
  BY DEF CallInv
<1>2. /\ role = "summarizer" /\ Failed = {} /\ requests = index + 1
      /\ counting \in Counting /\ counting.index < MaxAttempts
  BY <1>1 DEF CountingIt
<1>3. index \in Nat /\ index < MaxAttempts /\ MaxAttempts \in Nat
  BY <1>1, AttemptsAre
<1>4. Cap(index) \in Nat /\ Cap(index + 1) = Cap(index) + MaxAttempts
  BY <1>3, CapGrows
<1>5. counting.index \in Nat /\ counting.why \in {"fits", "charge"}
  BY <1>2 DEF Counting
<1>6. \A n \in DOMAIN trail : trail[n] \in Permanent => n = Len(trail)
  BY <1>1 DEF UnderWay
<1> QED
  BY <1>1, <1>2, <1>3, <1>4, <1>5, <1>6, RolesDiffer, NothingFailed

\* The count is known: the summary is charged, or repaired, or returned.
LEMMA CountedKeeps ==
  ASSUME CallInv, pc = "count", Counted, UNCHANGED requests,
         counts' \in Nat, counts' <= Cap(index + 1),
         answer.text \in cache'["token_counter"] \/ Tokens[answer.text] = 0,
         counting.why = "charge" => counts' = counts
  PROVE  GatewayInv'
<1>1. /\ UnderWay /\ CountingIt /\ trail \in Seq(Exception) /\ role \in Roles
      /\ role = "summarizer" /\ role \notin Cached /\ role \in Structured /\ Failed = {}
      /\ index \in Nat /\ index < MaxAttempts /\ MaxAttempts \in Nat
      /\ requests = index + 1 /\ requests' = index + 1
      /\ counting.why \in {"fits", "charge"}
      /\ ToSet(Checks[role]) \cap answer.flaws = {}
      /\ \A n \in DOMAIN trail : trail[n] \in Permanent => n = Len(trail)
  BY CountingKnows
<1>2. CASE counting.why = "fits" /\ Fits(answer.text)
  <2>1. /\ counting' = [why |-> "charge", index |-> 0]
        /\ UNCHANGED <<pc, role, index, hint, answer, outcome, calls, trail>>
    BY <1>2 DEF Counted
  <2>2. UnderWay'
    BY <1>1, <2>1 DEF UnderWay
  <2>3. Failed' = {} /\ Fits(answer.text)'
    BY <1>1, <1>2, <2>1 DEF Failed, Fits
  <2>4. counting' \in Counting /\ counting'.index = 0 /\ counting'.why = "charge"
    BY <2>1 DEF Counting
  <2>5. CountingIt'
    <3>1. requests' = index' + 1 /\ counts' <= Cap(requests)' /\ role' = "summarizer"
      BY <1>1, <2>1 DEF Cap
    <3>2. Known("token_counter", answer.text)'
      BY <2>1 DEF Known
    <3> QED
      BY <2>3, <2>4, <3>1, <3>2, AttemptsAre DEF CountingIt
  <2>6. index' \in Attempts /\ requests' \in Nat /\ pc' = "count"
    BY <1>1, <2>1 DEF CallInv
  <2>7. CallInv'
    BY <1>1, <2>1, <2>2, <2>5, <2>6 DEF CallInv
  <2> QED
    BY <2>6, <2>7, UnderWayKeeps
<1>3. CASE counting.why = "fits" /\ ~ Fits(answer.text)
  <2>1. Handle("RepairLength")
    BY <1>3 DEF Counted
  <2>2. "RepairLength" \in Exception
    BY ExceptionsAre DEF Repairs
  <2> QED
    BY <1>1, <2>1, <2>2, HandleKeeps
<1>4. CASE counting.why = "charge"
  <2>1. Finish(Ends("result", answer.text, answer.flaws, None)) /\ UNCHANGED <<role, trail>>
    BY <1>4 DEF Counted, Succeed
  <2>2. Tokens[answer.text] <= Limit
    BY <1>1, <1>4 DEF CountingIt, Fits
  <2>3. /\ requests' \in Nat /\ requests' <= MaxAttempts /\ counts' <= Cap(requests')
        /\ index = requests' - 1 /\ trail' \in Seq(Exception)
        /\ \A n \in DOMAIN trail' : trail'[n] \in Permanent => n = Len(trail')
    BY <1>1, <2>1
  <2> QED
    BY <1>1, <2>1, <2>2, <2>3, OverKeeps
<1> QED
  BY <1>1, <1>2, <1>3, <1>4

LEMMA CountKeeps ==
  ASSUME GatewayInv, DOMAIN cache = Cached, CountFromCache \/ CountByRequest
  PROVE  GatewayInv'
<1>1. /\ CallInv /\ pc = "count" /\ Counted /\ UNCHANGED requests
  BY DEF GatewayInv, CountFromCache, CountByRequest
<1>2. /\ counts \in Nat /\ index \in Nat /\ MaxAttempts \in Nat /\ requests = index + 1
      /\ Cap(index) \in Nat /\ Cap(index + 1) = Cap(index) + MaxAttempts
      /\ counting.index \in Nat /\ counting.index < MaxAttempts
      /\ counting.why \in {"fits", "charge"} /\ CountingIt
  BY <1>1, CountingKnows
<1>3. CASE CountFromCache
  <2>1. Known("token_counter", answer.text) /\ UNCHANGED <<cache, counts>>
    BY <1>3 DEF CountFromCache
  <2>2. answer.text \in cache'["token_counter"] \/ Tokens[answer.text] = 0
    BY <2>1 DEF Known
  <2>3. counts' \in Nat /\ counts' <= Cap(index + 1)
    BY <1>2, <2>1 DEF CountingIt
  <2> QED
    BY <1>1, <1>2, <2>1, <2>2, <2>3, CountedKeeps
<1>4. CASE CountByRequest
  <2>1. /\ ~ Known("token_counter", answer.text) /\ counts' = counts + 1
        /\ cache' = [cache EXCEPT !["token_counter"] = @ \cup {answer.text}]
    BY <1>4 DEF CountByRequest
  <2>2. counting.why = "fits" /\ counts <= Cap(index) + counting.index
    BY <1>2, <2>1 DEF CountingIt
  <2>3. counts' \in Nat /\ counts' <= Cap(index + 1)
    BY <1>2, <2>1, <2>2
  <2>4. answer.text \in cache'["token_counter"]
    BY <2>1 DEF Cached
  <2> QED
    BY <1>1, <2>1, <2>2, <2>3, <2>4, CountedKeeps
<1> QED
  BY <1>3, <1>4

\* A count that fails is asked again, or given up with what waits for it.
LEMMA CountFailsKeeps ==
  ASSUME GatewayInv, NEW e \in Provider, CountFails(e)
  PROVE  GatewayInv'
<1>1. /\ CallInv /\ pc = "count" /\ ~ Known("token_counter", answer.text)
      /\ counts' = counts + 1 /\ UNCHANGED <<cache, requests>>
  BY DEF GatewayInv, CountFails
<1>2. /\ UnderWay /\ CountingIt /\ trail \in Seq(Exception) /\ role \in Roles
      /\ role = "summarizer" /\ role \notin Cached /\ Failed = {}
      /\ counts \in Nat /\ index \in Nat /\ MaxAttempts \in Nat /\ requests = index + 1
      /\ Cap(index) \in Nat /\ Cap(index + 1) = Cap(index) + MaxAttempts
      /\ counting.index \in Nat /\ counting.index < MaxAttempts
      /\ counting.why \in {"fits", "charge"}
  BY <1>1, CountingKnows
<1>3. counting.why = "fits" /\ counts <= Cap(index) + counting.index
  BY <1>1, <1>2 DEF CountingIt
<1>4. counts' \in Nat /\ counts' <= Cap(index + 1)
  BY <1>1, <1>2, <1>3
<1>5. CASE IsRetryable(e) /\ ~ LastAttempt(counting.index)
  <2>1. /\ counting' = [counting EXCEPT !.index = @ + 1]
        /\ UNCHANGED <<pc, role, index, hint, answer, outcome, calls, trail>>
    BY <1>5 DEF CountFails
  <2>2. counting.index \in Attempts
    BY <1>2 DEF Attempts
  <2>3. counting.index + 1 \in Attempts
    BY <1>5, <2>2, AttemptsAre
  <2>4. counting \in Counting
    BY <1>2 DEF CountingIt
  <2>5. /\ counting' \in Counting /\ counting'.index = counting.index + 1
        /\ counting'.why = "fits" /\ counting'.index < MaxAttempts
    BY <1>2, <1>3, <2>1, <2>3, <2>4, AttemptsAre DEF Counting
  <2>6. UnderWay' /\ Failed' = {}
    BY <1>2, <2>1 DEF UnderWay, Failed
  <2>7. counts' <= Cap(index') + counting'.index
    BY <1>1, <1>2, <1>3, <2>1, <2>5
  <2>8. CountingIt'
    BY <1>1, <1>2, <2>1, <2>5, <2>6, <2>7 DEF CountingIt, Cap
  <2>9. index' \in Attempts /\ requests' \in Nat /\ pc' = "count"
    BY <1>1, <2>1 DEF CallInv
  <2>10. CallInv'
    BY <1>1, <1>2, <1>4, <2>1, <2>6, <2>8, <2>9 DEF CallInv
  <2> QED
    BY <2>9, <2>10, UnderWayKeeps
<1>6. CASE ~ (IsRetryable(e) /\ ~ LastAttempt(counting.index))
  <2> DEFINE what == IF Classify(e) = None THEN e ELSE "CounterFailed"
  <2>1. Handle(what)
    BY <1>3, <1>6 DEF CountFails
  <2>2. what \in Exception
    BY ConstantsAssumption, ExceptionsAre
  <2> HIDE DEF what
  <2> QED
    BY <1>1, <1>2, <1>4, <2>1, <2>2, HandleKeeps
<1> QED
  BY <1>5, <1>6

\* A count or an embedding of its own: what is known was asked for first.
LEMMA AskKeeps ==
  ASSUME GatewayInv, Ask
  PROVE  GatewayInv'
<1>1. /\ CallInv /\ pc = "request" /\ role \in Cached /\ role \notin Structured
      /\ role # "summarizer" /\ UNCHANGED <<role, counts, trail>>
  BY RolesDiffer DEF GatewayInv, Ask
<1>2. /\ UnderWay /\ Asking /\ trail \in Seq(Exception) /\ counts \in Nat
      /\ index \in Nat /\ index < MaxAttempts /\ MaxAttempts \in Nat
  BY <1>1, AttemptsAre DEF CallInv
<1>3. /\ requests = index /\ counts <= Cap(index)
      /\ index > 0 => ~ Known(role, answer.text)
  BY <1>1, <1>2 DEF Asking
<1>4. /\ Cap(index) \in Nat /\ Cap(index + 1) = Cap(index) + MaxAttempts
      /\ \A n \in DOMAIN trail : trail[n] \in Permanent => n = Len(trail)
  BY <1>2, CapGrows DEF UnderWay
<1>5. CASE Known(role, answer.text)
  <2>1. requests' = requests
    BY <1>5 DEF Ask
  <2>2. index = 0 /\ requests' = 0
    BY <1>2, <1>3, <1>5, <2>1
  <2>3. PICK kind \in {"result", "raised"} : \E t, f : Finish(Ends(kind, t, f, None))
    BY <1>5 DEF Ask, Succeed, Reraise, Fails
  <2>4. /\ requests' \in Nat /\ requests' <= MaxAttempts /\ counts' \in Nat
        /\ counts' <= Cap(requests') /\ trail' \in Seq(Exception)
        /\ \A n \in DOMAIN trail' : trail'[n] \in Permanent => n = Len(trail')
    BY <1>1, <1>2, <1>3, <1>4, <2>2
  <2>5. /\ kind \in {"result", "error", "raised"} /\ kind # "error"
        /\ kind # "raised" /\ requests' > 0 => index = requests' - 1
    BY <2>2, <2>3
  <2> QED
    BY <1>1, <2>3, <2>4, <2>5, OverKeeps
<1>6. CASE ~ Known(role, answer.text)
  <2>1. requests' = index + 1 /\ Finish(Ends("result", answer.text, answer.flaws, None))
    BY <1>3, <1>6 DEF Ask, Succeed
  <2>2. /\ requests' \in Nat /\ requests' <= MaxAttempts /\ counts' \in Nat
        /\ counts' <= Cap(requests') /\ index = requests' - 1
        /\ trail' \in Seq(Exception)
        /\ \A n \in DOMAIN trail' : trail'[n] \in Permanent => n = Len(trail')
    BY <1>1, <1>2, <1>3, <1>4, <2>1
  <2> QED
    BY <1>1, <2>1, <2>2, OverKeeps
<1> QED
  BY <1>5, <1>6

-----------------------------------------------------------------------------
(* The theorems.                                                           *)

\* Both kinds of texts are cached, whatever is in them.
CacheStays == DOMAIN cache = Cached

LEMMA InitGateway == Init => GatewayInv /\ CacheStays
<1> SUFFICES ASSUME Init
             PROVE  GatewayInv /\ CacheStays
  OBVIOUS
<1>1. CallInv
  BY AttemptsAre DEF Init, CallInv
<1>2. \A kinds : ~ Ended(kinds)
  BY DEF Init, Ended
<1>3. requests <= MaxAttempts /\ counts <= MaxAttempts * requests
  BY AttemptsAre DEF Init
<1>4. RepeatedForAReason
  BY <1>2, <1>3 DEF Init, RepeatedForAReason
<1> QED
  BY <1>1, <1>2, <1>4 DEF GatewayInv, AcceptedIsVerified, Init, CacheStays

LEMMA NextGateway == GatewayInv /\ CacheStays /\ [Next]_vars => GatewayInv'
<1> SUFFICES ASSUME GatewayInv, CacheStays, [Next]_vars
             PROVE  GatewayInv'
  OBVIOUS
<1>1. CASE \E r \in Roles : Begin(r)
  BY <1>1, BeginKeeps
<1>2. CASE Request
  BY <1>2, RequestFailsKeeps, RespondKeeps, AskKeeps DEF Request
<1>3. CASE Verify
  BY <1>3, VerifyKeeps
<1>4. CASE Count
  BY <1>4, CountKeeps, CountFailsKeeps DEF Count, CacheStays
<1>5. CASE UNCHANGED vars
  BY <1>5 DEF vars, GatewayInv, CallInv, UnderWay, Asking, Verifying, CountingIt, Failed,
     Known, Fits, Cap, HintFrom, RepeatedForAReason, AcceptedIsVerified, Ended
<1> QED
  BY <1>1, <1>2, <1>3, <1>4, <1>5 DEF Next

LEMMA NextCaches == CacheStays /\ [Next]_vars => CacheStays'
<1> SUFFICES ASSUME CacheStays, [Next]_vars
             PROVE  CacheStays'
  OBVIOUS
<1>1. CASE UNCHANGED cache
  BY <1>1 DEF CacheStays
<1>2. CASE CountByRequest
  BY <1>2 DEF CountByRequest, CacheStays
<1>3. CASE Ask
  BY <1>1, <1>3 DEF Ask, CacheStays
<1> QED
  BY <1>1, <1>2, <1>3 DEF Next, Request, Count, Begin, RequestFails, Respond, AskFails,
     Verify, CountFromCache, CountFails, vars

THEOREM GatewayIsSound == Spec => [](GatewayInv /\ CacheStays)
<1> QED
  BY InitGateway, NextGateway, NextCaches, PTL DEF Spec

\* Every repetition of a call has its reason, every end of one too, and what
\* was asked and counted for it is bounded by the attempts it was allowed
\* (Retrier.run, failures.is_retryable).
THEOREM RepetitionsHaveReasons == Spec => []RepeatedForAReason
<1>1. GatewayInv => RepeatedForAReason
  BY DEF GatewayInv
<1> QED
  BY <1>1, GatewayIsSound, PTL

\* What a role returned passed that role's checks, and a summary fits
\* (roles.py, summarizer.py).
THEOREM ResultsAreVerified == Spec => []AcceptedIsVerified
<1>1. GatewayInv => AcceptedIsVerified
  BY DEF GatewayInv
<1> QED
  BY <1>1, GatewayIsSound, PTL

\* The count a summary is charged was made before, when it was verified; a
\* text that is cached is not asked for again (the caches of tokens.py and
\* embeddings.py).
THEOREM TextsArePaidOnce == Spec => PaidForOnce
<1>1. GatewayInv /\ [Next]_vars =>
        [/\ pc = "count" /\ counting.why = "charge" => counts' = counts
         /\ \A k \in Cached : role = k /\ pc = "request" /\ answer.text \in cache[k]
              => requests' = requests]_vars
  <2> SUFFICES ASSUME GatewayInv, Next
               PROVE  /\ pc = "count" /\ counting.why = "charge" => counts' = counts
                      /\ \A k \in Cached : role = k /\ pc = "request" /\ answer.text \in cache[k]
                           => requests' = requests
    OBVIOUS
  <2>1. ASSUME pc = "count", counting.why = "charge"
        PROVE  counts' = counts
    <3>1. Known("token_counter", answer.text)
      BY <2>1 DEF GatewayInv, CallInv, CountingIt
    <3>2. CountFromCache
      BY <2>1, <3>1 DEF Next, Begin, Request, RequestFails, Respond, Ask, AskFails, Verify,
         Count, CountByRequest, CountFails
    <3> QED
      BY <3>2 DEF CountFromCache
  <2>2. ASSUME NEW k \in Cached, role = k, pc = "request", answer.text \in cache[k]
        PROVE  requests' = requests
    <3>1. Known(role, answer.text) /\ role \notin Structured
      BY <2>2, RolesDiffer DEF Known
    <3>2. Ask
      BY <2>2, <3>1 DEF Next, Begin, Request, RequestFails, Respond, AskFails, Verify,
         Count, CountFromCache, CountByRequest, CountFails
    <3> QED
      BY <3>1, <3>2 DEF Ask
  <2> QED
    BY <2>1, <2>2
<1> QED
  BY <1>1, GatewayIsSound, PTL DEF Spec, PaidForOnce

=============================================================================
