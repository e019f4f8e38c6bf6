--------------------------- MODULE RunLaunchProofs ---------------------------
(******************************************************************************)
(* Machine-checked proofs about RunLaunch: for every set of protocol files,   *)
(* of arms, of creators and of invocations, any number of edits, of commands  *)
(* and of cycles.                                                             *)
(******************************************************************************)
EXTENDS RunLaunch, FiniteSetTheorems, SequenceTheorems, TLAPS

-----------------------------------------------------------------------------
(* The commands under way.                                                    *)

\* What a command may still have to write: files of the protocol, and steps.
Writes == Doc \cup {"counts", "cards", "seedCounter", "budget", "provenance",
                    "manifest", "canon", "digest"}

Calibration == [kind : Calibrations, gateway : Gateway, todo : Seq(Writes)]
Promotion   == [kind : {"promote"}, status : Runnable, model : {"none", "nova"},
                todo : Seq(Writes)]
Drafting    == [kind : {"draft"}, todo : Seq(Writes)]

\* A calibration writes in one order, and it does not stop by itself before
\* the budget is written.
CalibrationOrder(t) ==
    \A k \in 1 .. Len(t) :
        /\ t[k] \in {"counts", "cards", "seedCounter", "budget", "provenance"}
        /\ t[k] = "counts" => k < Len(t) /\ t[k + 1] = "cards"
        /\ t[k] = "cards" => k < Len(t) /\ t[k + 1] = "seedCounter"
        /\ t[k] = "seedCounter" => k < Len(t) /\ t[k + 1] = "budget"
        /\ t[k] \in {"budget", "provenance"} /\ k < Len(t) => t[k + 1] = "provenance"

\* The digest file is only ever written right after the canonical manifest.
ManifestOrder(t) ==
    \A k \in 1 .. Len(t) :
        /\ t[k] = "canon" => k < Len(t)
        /\ t[k] = "digest" /\ k > 1 => t[k - 1] = "canon"

CommandOK ==
    \/ cmd = Idle
    \/ /\ cmd \in Calibration \/ cmd \in Promotion \/ cmd \in Drafting
       /\ cmd.todo # <<>>
       /\ cmd \in Calibration => CalibrationOrder(cmd.todo)
       /\ ManifestOrder(cmd.todo)

-----------------------------------------------------------------------------
(* The inductive invariant.                                                   *)

Counters == {"none", "heuristic", "exact"}
Sources == {"local_fixture_heuristic", "approximate_heuristic", "bedrock_converse_usage"}
Budget == [counter : Counters, provenance : Nat, source : Sources]

\* The types of the variables the invariants speak of.
TypeOK ==
    /\ status \in [Doc -> ProtocolStatus]
    /\ budget \in Budget \cup {None}
    /\ commands \in Nat
    /\ torn \in BOOLEAN /\ crossed \in BOOLEAN /\ armed \in BOOLEAN
    /\ DOMAIN seeds = Arm /\ seeds = [a \in Arm |-> seeds[a]]
    /\ creating = [p \in Creator |-> creating[p]]
    /\ advancing \in [Invocation -> {"no", "local", "deployed"}]
    /\ grace \in Int
    /\ cycle \in Nat

AllFrozen(m) == \A d \in Doc : m.files[d].status = FROZEN

\* When the digest file is due, the manifest describes the files as they are.
ManifestCurrent ==
    cmd # Idle /\ Head(cmd.todo) = "digest" =>
        \A d \in Doc : canon.files[d].status = status[d]

\* A manifest with a digest file whose files are all frozen was completed over
\* frozen files.
DigestRegistered ==
    canonSum # None /\ AllFrozen(canonSum) => canonSum \in registered

\* A manifest names the counter of the budget it registers.
ManifestCounted ==
    canon # None => canon.counter = canon.files["protocol"].holds.budget.counter

\* Until a calibration is cut short, the seeds are counted as the budget is,
\* except while a calibration is between the two.
SeedsCounted ==
    ~torn => IF cmd \in Calibration /\ Head(cmd.todo) \in {"cards", "seedCounter", "budget"}
             THEN counts = counter_identity(cmd.gateway).counter
             ELSE budget # None => counts = budget.counter

\* A canonical run is counted as its seeds are.
RunCounted ==
    run # None /\ run.kind = AWS_CANONICAL /\ ~torn =>
        run.counter = run.files["seeds"].holds.memories.provisional_token_count

\* A starting state is the seeds of the files the run records.
StartOf(s) ==
    /\ run # None
    /\ s.text = run.files["seeds"].text
    /\ s.counts = run.files["seeds"].holds.memories.provisional_token_count

\* What creators are about to store, and have stored, is the run's own start.
StartsSound ==
    ~crossed => /\ \A p \in Creator : creating[p] # None => StartOf(creating[p].state)
                /\ \A a \in Arm : seeds[a] # None => StartOf(seeds[a])

AdvancedWhole == cycle > 0 => engine_at

\* Who may still commit was under way when the function was disarmed.
Deploying == {i \in Invocation : advancing[i] = "deployed"}
GraceCovers == ~armed => Cardinality(Deploying) <= grace

Inv ==
    /\ TypeOK
    /\ CommandOK
    /\ ManifestCurrent
    /\ DigestRegistered
    /\ ManifestCounted
    /\ SeedsCounted
    /\ RunCounted
    /\ StartsSound
    /\ AdvancedWhole
    /\ GraceCovers
    /\ CanonicalIsRegistered
-----------------------------------------------------------------------------
(* Lemmas about the model's operators.                                        *)

(* The rest of a sequence, by its elements.                                   *)
LEMMA Rest ==
  ASSUME NEW S, NEW s \in Seq(S), s # <<>>
  PROVE  /\ Len(s) \in Nat \ {0}
         /\ Head(s) = s[1]
         /\ Tail(s) \in Seq(S)
         /\ Len(Tail(s)) = Len(s) - 1
         /\ \A k \in 1 .. Len(s) - 1 : Tail(s)[k] = s[k + 1]
         /\ Tail(s) # <<>> => Len(s) > 1 /\ Head(Tail(s)) = s[2]
<1>1. /\ Tail(s) \in Seq(S) /\ Len(Tail(s)) = Len(s) - 1
      /\ \A k \in 1 .. Len(Tail(s)) : Tail(s)[k] = s[k + 1]
  BY HeadTailProperties
<1>2. Len(s) \in Nat \ {0}
  BY EmptySeq
<1>3. \A u \in Seq(S) : u # <<>> => Head(u) = u[1]
  <2> SUFFICES ASSUME NEW u \in Seq(S), u # <<>> PROVE Head(u) = u[1]
      OBVIOUS
  <2>1. Len(u) \in Nat \ {0}
    BY EmptySeq
  <2>2. 1 \in 1 .. Len(u) /\ Len(u) \in 1 .. Len(u)
    BY <2>1
  <2>3. Head(SubSeq(u, 1, Len(u))) = u[1]
    BY ONLY <2>2, HeadTailOfSubSeq, u \in Seq(S)
  <2> QED BY <2>3, SubSeqFull
<1>4. ASSUME Tail(s) # <<>>
      PROVE  Len(s) > 1 /\ Head(Tail(s)) = s[2]
  <2>1. Len(Tail(s)) \in Nat \ {0}
    BY <1>1, <1>4, EmptySeq
  <2>2. Head(Tail(s)) = Tail(s)[1]
    BY <1>1, <1>3, <1>4
  <2> QED BY <1>1, <1>2, <2>1, <2>2
<1> QED BY <1>1, <1>2, <1>3, <1>4

(* The files can be written one after the other.                              *)
LEMMA FilesAreDocuments == Files \in Seq(Doc)
<1> DEFINE n == Cardinality(Doc)
<1>1. n \in Nat /\ ExistsBijection(1 .. n, Doc)
  BY DocAssumption, FS_CardinalityType
<1>2. \E f \in [1 .. n -> Doc] : IsInjective(f)
  BY <1>1 DEF ExistsBijection, Bijection, Injection
<1>3. Files \in [1 .. n -> Doc]
  BY <1>2 DEF Files, SetToSeq
<1> QED BY <1>1, <1>3, SeqDef

(* What is left of a command is still in its order.                           *)
LEMMA RestInOrder ==
  ASSUME NEW t \in Seq(Writes), t # <<>>
  PROVE  /\ ManifestOrder(t) => ManifestOrder(Tail(t))
         /\ CalibrationOrder(t) => CalibrationOrder(Tail(t))
<1>1. /\ Len(t) \in Nat \ {0} /\ Len(Tail(t)) = Len(t) - 1
      /\ \A k \in 1 .. Len(t) - 1 : Tail(t)[k] = t[k + 1]
  BY Rest
<1>2. \A k \in 1 .. Len(Tail(t)) :
        /\ k + 1 \in 1 .. Len(t) /\ k + 1 > 1 /\ k + 1 - 1 = k
        /\ k < Len(Tail(t)) <=> k + 1 < Len(t)
        /\ Tail(t)[k] = t[k + 1]
        /\ k > 1 => Tail(t)[k - 1] = t[k]
        /\ k < Len(Tail(t)) => Tail(t)[k + 1] = t[k + 1 + 1]
  BY <1>1
<1>3. ManifestOrder(t) => ManifestOrder(Tail(t))
  BY <1>2 DEF ManifestOrder
<1>4. CalibrationOrder(t) => CalibrationOrder(Tail(t))
  BY <1>2 DEF CalibrationOrder
<1> QED BY <1>3, <1>4

(* What a command is, by the name of its kind.                                *)
LEMMA CommandKinds ==
  ASSUME CommandOK, cmd # Idle
  PROVE  /\ cmd.kind \in Calibrations \/ cmd.kind = "promote" \/ cmd.kind = "draft"
         /\ cmd.kind \in Calibrations <=> cmd \in Calibration
         /\ cmd.kind = "promote" <=> cmd \in Promotion
         /\ cmd.kind = "draft" <=> cmd \in Drafting
         /\ cmd.todo \in Seq(Writes) /\ cmd.todo # <<>>
BY DEF CommandOK, Calibration, Promotion, Drafting, Calibrations

(* A write leaves the rest of the command, in its order.                      *)
LEMMA AfterWriting ==
  ASSUME CommandOK, NEW kinds, NEW file, Writing(kinds, file)
  PROVE  /\ CommandOK'
         /\ cmd # Idle /\ cmd.kind \in kinds /\ Head(cmd.todo) = file
         /\ cmd' # Idle => /\ cmd'.kind = cmd.kind
                           /\ cmd'.todo = Tail(cmd.todo)
                           /\ Head(cmd'.todo) = "digest" => file = "canon"
         /\ cmd' \in Calibration => cmd \in Calibration /\ cmd'.gateway = cmd.gateway
<1> DEFINE t == cmd.todo
           c == [cmd EXCEPT !.todo = Tail(t)]
<1>1. cmd # Idle /\ cmd.kind \in kinds /\ Head(t) = file /\ cmd' = Finished(c)
  BY DEF Writing
<1>2. t \in Seq(Writes) /\ t # <<>>
  BY <1>1, CommandKinds
<1>3. /\ Len(t) \in Nat \ {0} /\ Head(t) = t[1] /\ Tail(t) \in Seq(Writes)
      /\ Len(Tail(t)) = Len(t) - 1
      /\ \A k \in 1 .. Len(t) - 1 : Tail(t)[k] = t[k + 1]
      /\ Tail(t) # <<>> => Len(t) > 1 /\ Head(Tail(t)) = t[2]
  BY <1>2, Rest
<1>4. c.todo = Tail(t) /\ c.kind = cmd.kind
  BY <1>1 DEF CommandOK, Calibration, Promotion, Drafting
<1>5. CASE Tail(t) = <<>>
  <2>1. cmd' = Idle
    BY <1>1, <1>4, <1>5 DEF Finished
  <2> QED BY <1>1, <2>1 DEF CommandOK, Idle, Calibration, Calibrations
<1>6. CASE Tail(t) # <<>>
  <2>1. cmd' = c
    BY <1>1, <1>4, <1>6 DEF Finished
  <2>2. \/ cmd \in Calibration /\ cmd' \in Calibration /\ cmd'.gateway = cmd.gateway
        \/ cmd \in Promotion /\ cmd' \in Promotion
        \/ cmd \in Drafting /\ cmd' \in Drafting
    BY <1>1, <1>3, <2>1 DEF CommandOK, Calibration, Promotion, Drafting
  <2>3. cmd' \in Calibration => cmd \in Calibration /\ cmd'.gateway = cmd.gateway
    BY <2>2 DEF Calibration, Promotion, Drafting, Calibrations
  <2>4. ManifestOrder(t) /\ (cmd \in Calibration => CalibrationOrder(t))
    BY <1>1 DEF CommandOK
  <2>5. ManifestOrder(Tail(t)) /\ (cmd' \in Calibration => CalibrationOrder(Tail(t)))
    BY <1>2, <2>3, <2>4, RestInOrder
  <2>6. Head(Tail(t)) = "digest" => file = "canon"
    BY <1>1, <1>3, <1>6, <2>4 DEF ManifestOrder
  <2>7. cmd' # Idle
    BY <1>4, <1>6, <2>1 DEF Idle
  <2>8. CommandOK'
    BY <1>4, <1>6, <2>1, <2>2, <2>5 DEF CommandOK
  <2> QED BY <1>1, <1>4, <2>1, <2>2, <2>3, <2>6, <2>8
<1> QED BY <1>5, <1>6


(* A command that starts has all of its writes before it.                     *)
LEMMA StartedCalibration ==
  ASSUME NEW k \in Calibrations, NEW g \in Gateway, Calibrate(k, g)
  PROVE  /\ CommandOK'
         /\ cmd' \in Calibration /\ Head(cmd'.todo) = "counts"
<1> DEFINE four == <<"counts", "cards", "seedCounter", "budget">>
           last == IF k = "aws" THEN <<"provenance">> ELSE <<>>
           t == four \o last
<1>1. cmd' = [kind |-> k, gateway |-> g, todo |-> t]
  BY DEF Calibrate, Start
<1>2. /\ four \in Seq(Writes) /\ Len(four) = 4
      /\ four[1] = "counts" /\ four[2] = "cards"
      /\ four[3] = "seedCounter" /\ four[4] = "budget"
  BY DEF Writes
<1>3. last \in Seq(Writes) /\ Len(last) \in 0 .. 1 /\ (Len(last) = 1 => last[1] = "provenance")
  <2>1. CASE k = "aws"
    <3>1. last = <<"provenance">>
      BY <2>1
    <3> HIDE DEF last
    <3> QED BY <3>1 DEF Writes
  <2>2. CASE k # "aws"
    <3>1. last = <<>>
      BY <2>2
    <3> HIDE DEF last
    <3> QED BY <3>1, EmptySeq
  <2> QED BY <2>1, <2>2
<1> HIDE DEF four, last
<1>4. /\ t \in Seq(Writes) /\ Len(t) = 4 + Len(last)
      /\ \A i \in 1 .. 4 + Len(last) : t[i] = IF i <= 4 THEN four[i] ELSE last[i - 4]
  <2>1. /\ t \in Seq(Writes) /\ Len(t) = Len(four) + Len(last)
        /\ \A i \in 1 .. Len(four) + Len(last) :
             t[i] = IF i <= Len(four) THEN four[i] ELSE last[i - Len(four)]
    BY <1>2, <1>3, ConcatProperties
  <2> QED BY <1>2, <2>1
<1> HIDE DEF t
<1>5. /\ t[1] = "counts" /\ t[2] = "cards" /\ t[3] = "seedCounter" /\ t[4] = "budget"
      /\ Len(t) = 5 => t[5] = "provenance"
      /\ Len(t) \in {4, 5}
  BY <1>2, <1>3, <1>4
<1>6. CalibrationOrder(t) /\ ManifestOrder(t)
  <2>1. \A j \in 1 .. Len(t) : j \in {1, 2, 3, 4} \/ (j = 5 /\ Len(t) = 5)
    <3>1. \/ Len(t) = 4 /\ 1 .. Len(t) = {1, 2, 3, 4}
          \/ Len(t) = 5 /\ 1 .. Len(t) = {1, 2, 3, 4, 5}
      <4>1. \A j \in Int : j \in 1 .. 4 <=> j \in {1, 2, 3, 4}
        OBVIOUS
      <4>2. \A j \in Int : j \in 1 .. 5 <=> j \in {1, 2, 3, 4, 5}
        OBVIOUS
      <4>3. 1 .. 4 = {1, 2, 3, 4} /\ 1 .. 5 = {1, 2, 3, 4, 5}
        BY ONLY <4>1, <4>2
      <4> QED BY ONLY <1>5, <4>3
    <3> QED BY ONLY <3>1
  <2>2. CalibrationOrder(t)
    BY <1>5, <2>1 DEF CalibrationOrder
  <2>3. ManifestOrder(t)
    BY <1>5, <2>1 DEF ManifestOrder
  <2> QED BY <2>2, <2>3
<1>7. t # <<>> /\ Head(t) = "counts"
  BY <1>4, <1>5, EmptySeq, Rest
<1>8. cmd' \in Calibration
  BY <1>1, <1>4 DEF Calibration
<1> QED BY <1>1, <1>6, <1>7, <1>8 DEF CommandOK

LEMMA StartedPromotion ==
  ASSUME NEW s \in Runnable, NEW g \in Gateway, Promote(s, g)
  PROVE  /\ CommandOK'
         /\ cmd' \in Promotion /\ Head(cmd'.todo) # "digest"
<1> DEFINE ends == IF s = LOCAL_VALIDATED THEN <<>> ELSE <<"canon", "digest">>
           start == Files \o <<"manifest">>
           t == start \o ends
           n == Len(Files)
<1>1. /\ cmd'.todo = t /\ cmd'.kind = "promote"
      /\ cmd' \in [kind : {"promote"}, status : Runnable, model : {"none", "nova"}, todo : {t}]
  BY DEF Promote, Start
<1>2. Files \in Seq(Writes) /\ n \in Nat /\ \A i \in 1 .. n : Files[i] \in Doc
  BY FilesAreDocuments, SeqMonotonic, ElementOfSeq, LenProperties DEF Writes
<1>3. <<"manifest">> \in Seq(Writes) /\ Len(<<"manifest">>) = 1 /\ <<"manifest">>[1] = "manifest"
  BY DEF Writes
<1>4. /\ ends \in Seq(Writes) /\ Len(ends) \in {0, 2}
      /\ Len(ends) = 2 => ends[1] = "canon" /\ ends[2] = "digest"
  <2>1. CASE s = LOCAL_VALIDATED
    <3>1. ends = <<>>
      BY <2>1
    <3> HIDE DEF ends
    <3> QED BY <3>1, EmptySeq
  <2>2. CASE s # LOCAL_VALIDATED
    <3>1. ends = <<"canon", "digest">>
      BY <2>2
    <3> HIDE DEF ends
    <3> QED BY <3>1 DEF Writes
  <2> QED BY <2>1, <2>2
<1> HIDE DEF ends
<1>5. /\ start \in Seq(Writes) /\ Len(start) = n + 1
      /\ \A i \in 1 .. n + 1 : start[i] = IF i <= n THEN Files[i] ELSE "manifest"
  <2>1. /\ start \in Seq(Writes) /\ Len(start) = n + 1
        /\ \A i \in 1 .. n + 1 : start[i] = IF i <= n THEN Files[i] ELSE <<"manifest">>[i - n]
    BY <1>2, <1>3, ConcatProperties
  <2>2. \A i \in 1 .. n + 1 : ~(i <= n) => i - n = 1
    BY <1>2
  <2> QED BY <1>3, <2>1, <2>2
<1> HIDE DEF start
<1>6. /\ t \in Seq(Writes) /\ Len(t) = n + 1 + Len(ends)
      /\ \A i \in 1 .. n + 1 + Len(ends) : t[i] = IF i <= n + 1 THEN start[i] ELSE ends[i - (n + 1)]
  <2>1. /\ t \in Seq(Writes) /\ Len(t) = Len(start) + Len(ends)
        /\ \A i \in 1 .. Len(start) + Len(ends) :
             t[i] = IF i <= Len(start) THEN start[i] ELSE ends[i - Len(start)]
    BY <1>4, <1>5, ConcatProperties
  <2> HIDE DEF t, n
  <2> QED BY <1>5, <2>1
<1> HIDE DEF t, n
<1>7. \A i \in 1 .. n + 1 : t[i] \notin {"canon", "digest"}
  BY <1>2, <1>4, <1>5, <1>6, DocAssumption
<1>8. Len(t) > n + 1 => Len(t) = n + 3 /\ t[n + 2] = "canon" /\ t[n + 3] = "digest"
  BY <1>2, <1>4, <1>6
<1>9. ManifestOrder(t)
  <2>1. ASSUME NEW k \in 1 .. Len(t)
        PROVE  k \in 1 .. n + 1 \/ (k = n + 2 /\ Len(t) = n + 3) \/ (k = n + 3 /\ k - 1 = n + 2)
    <3>1. n \in Nat
      BY <1>2
    <3> DEFINE e == Len(ends)
    <3>2. e = 0 \/ e = 2
      BY <1>4
    <3>3. Len(t) = n + 1 + e
      BY <1>6
    <3> HIDE DEF e
    <3>4. Len(t) = n + 1 \/ Len(t) = n + 3
      BY ONLY <3>1, <3>2, <3>3
    <3> QED BY <3>1, <3>4
  <2> QED BY <1>2, <1>7, <1>8, <2>1 DEF ManifestOrder
<1>10. t # <<>> /\ Head(t) # "digest"
  <2>1. Len(t) # 0
    BY <1>2, <1>4, <1>6
  <2>2. t # <<>>
    BY <1>6, <2>1, EmptySeq
  <2>3. Head(t) = t[1]
    BY <1>6, <2>2, Rest
  <2> QED BY <1>2, <1>7, <2>2, <2>3
<1>11. cmd' \in Promotion /\ cmd' \notin Calibration
  BY <1>1, <1>6 DEF Promotion, Calibration, Calibrations
<1> QED BY <1>1, <1>9, <1>10, <1>11 DEF CommandOK

LEMMA StartedDrafting ==
  ASSUME ReturnToDraft
  PROVE  /\ CommandOK'
         /\ cmd' \in Drafting /\ Head(cmd'.todo) # "digest"
<1>1. cmd' = [kind |-> "draft", todo |-> Files]
  BY DEF ReturnToDraft, Start
<1>2. Files \in Seq(Writes) /\ Files \in Seq(Doc)
  BY FilesAreDocuments, SeqMonotonic DEF Writes
<1>3. Files # <<>>
  <2> SUFFICES ASSUME Files = <<>> PROVE FALSE
      OBVIOUS
  <2>1. Cardinality(Doc) = 0
    <3> DEFINE n == Cardinality(Doc)
    <3>1. n \in Nat /\ ExistsBijection(1 .. n, Doc)
      BY DocAssumption, FS_CardinalityType
    <3>2. \E f \in [1 .. n -> Doc] : IsInjective(f)
      BY <3>1 DEF ExistsBijection, Bijection, Injection
    <3>3. Files \in [1 .. n -> Doc]
      BY <3>2 DEF Files, SetToSeq
    <3>4. DOMAIN Files = 1 .. n /\ DOMAIN Files = 1 .. Len(Files) /\ Len(Files) = 0
      BY <1>2, <3>3, LenProperties, EmptySeq
    <3> HIDE DEF n
    <3>5. n # 0 => 1 \in 1 .. n
      BY <3>1
    <3>6. 1 \notin 1 .. 0
      OBVIOUS
    <3>7. n = 0
      BY <3>4, <3>5, <3>6
    <3> QED BY <3>7 DEF n
  <2> QED BY <2>1, DocAssumption, FS_EmptySet
<1>4. \A k \in 1 .. Len(Files) : Files[k] \in Doc
  BY <1>2, ElementOfSeq
<1>5. ManifestOrder(Files) /\ Head(Files) # "digest"
  BY <1>2, <1>3, <1>4, Rest, DocAssumption DEF ManifestOrder
<1>6. cmd' \in Drafting /\ cmd' \notin Calibration
  BY <1>1, <1>2 DEF Drafting, Calibration
<1> QED BY <1>1, <1>3, <1>5, <1>6 DEF CommandOK

(* The manifest is written, or refused and the command ends.                  *)
LEMMA AfterManifest ==
  ASSUME CommandOK, write_canonical_manifest
  PROVE  /\ CommandOK'
         /\ cmd' \notin Calibration /\ cmd \notin Calibration
         /\ cmd' # Idle => canon' = build_canonical_manifest(cmd.model)
         /\ canon' \in {canon, build_canonical_manifest(cmd.model)}
<1> DEFINE t == cmd.todo
           c == [cmd EXCEPT !.todo = Tail(t)]
<1>1. cmd # Idle /\ cmd.kind = "promote" /\ Head(t) = "canon"
  BY DEF write_canonical_manifest
<1>2. cmd \in Promotion /\ cmd \notin Calibration /\ t \in Seq(Writes) /\ t # <<>>
  BY <1>1, CommandKinds DEF Calibrations
<1>3. canon' \in {canon, build_canonical_manifest(cmd.model)}
  BY DEF write_canonical_manifest
<1>4. CASE cmd' = Idle
  BY <1>2, <1>3, <1>4 DEF CommandOK, Calibration, Calibrations, Idle
<1>5. CASE cmd' # Idle
  <2>1. cmd' = c /\ canon' = build_canonical_manifest(cmd.model)
    BY <1>5 DEF write_canonical_manifest
  <2>2. ManifestOrder(t)
    BY <1>1 DEF CommandOK
  <2>3. ManifestOrder(Tail(t))
    BY <1>2, <2>2, RestInOrder
  <2>4. Len(t) \in Nat \ {0} /\ t[1] = "canon" /\ Tail(t) \in Seq(Writes)
        /\ Len(Tail(t)) = Len(t) - 1
    BY <1>1, <1>2, Rest
  <2>5. Tail(t) # <<>>
    <3>1. 1 < Len(t)
      BY <2>2, <2>4 DEF ManifestOrder
    <3>2. \A n \in Nat : n > 1 => n - 1 # 0
      OBVIOUS
    <3>3. Len(Tail(t)) # 0
      BY <2>4, <3>1, <3>2
    <3> QED BY <3>3, EmptySeq
  <2>6. c \in Promotion /\ c.todo = Tail(t) /\ c \notin Calibration
    BY <1>2, <2>4 DEF Promotion, Calibration, Calibrations
  <2> HIDE DEF c
  <2> QED BY <1>2, <1>3, <2>1, <2>3, <2>5, <2>6 DEF CommandOK
<1> QED BY <1>4, <1>5

-----------------------------------------------------------------------------
(* The steps, with the quantifiers the proofs case-split on.                  *)

(* What the commands do.                                                      *)
LEMMA ProtocolCases ==
  ASSUME ProtocolNext, NEW P,
         \A d \in Doc : Edit(d) => P,
         \A d \in Doc : PromoteDocument(d) => P,
         \A d \in Doc : DraftDocument(d) => P,
         \A k \in Calibrations, g \in Gateway : Calibrate(k, g) => P,
         \A s \in Runnable, g \in Gateway : Promote(s, g) => P,
         ReturnToDraft => P,
         WriteCounts => P,
         WriteCards => P,
         WriteSeedCounter => P,
         WriteBudget => P,
         WriteProvenance => P,
         WriteManifest => P,
         write_canonical_manifest => P,
         WriteDigestFile => P,
         CutShort => P
  PROVE  P
BY DEF ProtocolNext

(* Everything else leaves the files alone.                                    *)
LEMMA NextCases ==
  ASSUME [Next]_vars, NEW P,
         ProtocolStep => P,
         \A p \in Creator, kind \in Kind, g \in Gateway : create_run(p, kind, g) => P,
         \A p \in Creator : seed_arm_state(p) => P,
         \A p \in Creator : CreatorDies(p) => P,
         Reset => P,
         \A w \in BOOLEAN : Execution(w) => P,
         \A i \in Invocation, s \in BOOLEAN : Fire(i, s) => P,
         \A i \in Invocation : LocalTick(i) => P,
         \A i \in Invocation : Commit(i) => P,
         \A i \in Invocation : GiveUp(i) => P,
         UNCHANGED <<protocolVars, launchVars, armed, advancing, histVars>> => P
  PROVE  P
<1>1. FunctionIsArmed => P
  BY DEF FunctionIsArmed
<1>2. ScheduleEnable => P
  BY DEF ScheduleEnable
<1>3. ScheduleDisable => P
  BY DEF ScheduleDisable
<1>4. UNCHANGED vars => P
  BY DEF vars, switchVars
<1> QED BY <1>1, <1>2, <1>3, <1>4 DEF Next

LEMMA FilesOrCommand ==
  ASSUME [Next]_vars
  PROVE  ProtocolStep \/ UNCHANGED protocolVars
BY NextCases DEF create_run, seed_arm_state, CreatorDies, Reset, Execution, Fire,
                 LocalTick, Commit, GiveUp

-----------------------------------------------------------------------------
(* Each part of the invariant is kept by every step.                          *)

(* A command keeps its order.                                                 *)
LEMMA NextCommand == Inv /\ [Next]_vars => CommandOK'
<1> SUFFICES ASSUME Inv, [Next]_vars PROVE CommandOK'
    OBVIOUS
<1>1. CommandOK
  BY DEF Inv
<1>2. CASE UNCHANGED protocolVars
  BY <1>1, <1>2 DEF protocolVars, CommandOK
<1>3. CASE ProtocolStep
  <2>1. ASSUME NEW d \in Doc, Edit(d) PROVE CommandOK'
    BY <1>1, <2>1 DEF Edit, CommandOK
  <2>2. ASSUME NEW d \in Doc, PromoteDocument(d) PROVE CommandOK'
    BY <1>1, <2>2, AfterWriting DEF PromoteDocument
  <2>3. ASSUME NEW d \in Doc, DraftDocument(d) PROVE CommandOK'
    BY <1>1, <2>3, AfterWriting DEF DraftDocument
  <2>4. ASSUME NEW k \in Calibrations, NEW g \in Gateway, Calibrate(k, g) PROVE CommandOK'
    BY <2>4, StartedCalibration
  <2>5. ASSUME NEW s \in Runnable, NEW g \in Gateway, Promote(s, g) PROVE CommandOK'
    BY <2>5, StartedPromotion
  <2>6. ASSUME ReturnToDraft PROVE CommandOK'
    BY <2>6, StartedDrafting
  <2>7. ASSUME WriteCounts PROVE CommandOK'
    BY <1>1, <2>7, AfterWriting DEF WriteCounts
  <2>8. ASSUME WriteCards PROVE CommandOK'
    BY <1>1, <2>8, AfterWriting DEF WriteCards
  <2>9. ASSUME WriteSeedCounter PROVE CommandOK'
    BY <1>1, <2>9, AfterWriting DEF WriteSeedCounter
  <2>10. ASSUME WriteBudget PROVE CommandOK'
    BY <1>1, <2>10, AfterWriting DEF WriteBudget
  <2>11. ASSUME WriteProvenance PROVE CommandOK'
    BY <1>1, <2>11, AfterWriting DEF WriteProvenance
  <2>12. ASSUME WriteManifest PROVE CommandOK'
    BY <1>1, <2>12, AfterWriting DEF WriteManifest
  <2>13. ASSUME write_canonical_manifest PROVE CommandOK'
    BY <1>1, <2>13, AfterManifest
  <2>14. ASSUME WriteDigestFile PROVE CommandOK'
    BY <1>1, <2>14, AfterWriting DEF WriteDigestFile
  <2>15. ASSUME CutShort PROVE CommandOK'
    BY <2>15 DEF CutShort, CommandOK
  <2>16. ProtocolNext
    BY <1>3 DEF ProtocolStep
  <2> QED BY ONLY <2>1, <2>2, <2>3, <2>4, <2>5, <2>6, <2>7, <2>8, <2>9, <2>10,
                  <2>11, <2>12, <2>13, <2>14, <2>15, <2>16, ProtocolCases
<1> QED BY <1>2, <1>3, FilesOrCommand

(* What a gateway's counter is called.                                        *)
LEMMA CounterType ==
  ASSUME NEW g \in Gateway
  PROVE  counter_identity(g).counter \in Counters /\ counter_identity(g).source \in Sources
<1>1. g \in {"fixture", "approximate", "exact"}
  BY GatewayAssumption
<1>2. CASE g = "fixture"
  BY <1>2 DEF counter_identity, Counters, Sources
<1>3. CASE g = "approximate"
  BY <1>3 DEF counter_identity, Counters, Sources
<1>4. CASE g = "exact"
  BY <1>4 DEF counter_identity, Counters, Sources
<1> QED BY <1>1, <1>2, <1>3, <1>4

(* The types of the files' variables.                                         *)
FilesTypeOK ==
    /\ status \in [Doc -> ProtocolStatus]
    /\ budget \in Budget \cup {None}
    /\ commands \in Nat
    /\ torn \in BOOLEAN

LEMMA NextFilesType == Inv /\ [Next]_vars => FilesTypeOK'
<1> SUFFICES ASSUME Inv, [Next]_vars PROVE FilesTypeOK'
    OBVIOUS
<1>1. CommandOK /\ FilesTypeOK
  BY DEF Inv, TypeOK, FilesTypeOK
<1>2. CASE UNCHANGED protocolVars
  BY <1>1, <1>2 DEF protocolVars, files, FilesTypeOK
<1>3. CASE ProtocolStep
  <2>1. ASSUME NEW d \in Doc, Edit(d) PROVE FilesTypeOK'
    BY <1>1, <2>1 DEF Edit, FilesTypeOK
  <2>2. ASSUME NEW d \in Doc, PromoteDocument(d) PROVE FilesTypeOK'
    <3>1. cmd \in Promotion
      BY <1>1, <2>2, CommandKinds DEF PromoteDocument, Writing
    <3> QED BY <1>1, <2>2, <3>1 DEF PromoteDocument, Writing, FilesTypeOK, Promotion, Runnable
  <2>3. ASSUME NEW d \in Doc, DraftDocument(d) PROVE FilesTypeOK'
    BY <1>1, <2>3 DEF DraftDocument, Writing, FilesTypeOK, ProtocolStatus
  <2>4. ASSUME NEW c, Start(c) PROVE FilesTypeOK'
    BY <1>1, <2>4 DEF Start, files, FilesTypeOK
  <2>5. ASSUME WriteBudget PROVE FilesTypeOK'
    <3> DEFINE id == counter_identity(cmd.gateway)
    <3>1. id.counter \in Counters /\ id.source \in Sources
      <4>1. cmd \in Calibration
        BY <1>1, <2>5, CommandKinds DEF WriteBudget, Writing
      <4> QED BY <4>1, CounterType DEF Calibration
    <3> HIDE DEF id
    <3>2. \E b \in Budget : budget' = [counter |-> id.counter, provenance |-> b.provenance,
                                       source |-> IF cmd.kind = "script" THEN b.source
                                                  ELSE id.source]
      <4>1. CASE budget = None
        <5> DEFINE b == [counter |-> "none", provenance |-> 0,
                         source |-> "local_fixture_heuristic"]
        <5>1. b \in Budget
          BY DEF Budget, Counters, Sources
        <5> QED BY <2>5, <4>1, <5>1 DEF WriteBudget, id
      <4>2. CASE budget # None
        BY <1>1, <2>5, <4>2 DEF WriteBudget, FilesTypeOK, id
      <4> QED BY <4>1, <4>2
    <3>3. budget' \in Budget
      BY <3>1, <3>2 DEF Budget
    <3> QED BY <1>1, <2>5, <3>3 DEF WriteBudget, Writing, FilesTypeOK
  <2>6. ASSUME WriteProvenance PROVE FilesTypeOK'
    <3>1. budget' \in Budget \cup {None}
      BY <1>1, <2>6 DEF WriteProvenance, FilesTypeOK, Budget, None
    <3> QED BY <1>1, <2>6, <3>1 DEF WriteProvenance, Writing, FilesTypeOK
  <2>7. ASSUME UNCHANGED <<status, budget, commands, torn>> PROVE FilesTypeOK'
    BY <1>1, <2>7 DEF FilesTypeOK
  <2>8. ASSUME CutShort PROVE FilesTypeOK'
    BY <1>1, <2>8 DEF CutShort, files, FilesTypeOK
  <2>9. WriteCounts \/ WriteCards \/ WriteSeedCounter \/ WriteManifest
          \/ write_canonical_manifest \/ WriteDigestFile => FilesTypeOK'
    BY <2>7 DEF WriteCounts, WriteCards, WriteSeedCounter, WriteManifest,
                write_canonical_manifest, WriteDigestFile, Writing, files
  <2>10. ProtocolNext
    BY <1>3 DEF ProtocolStep
  <2> QED BY <2>1, <2>2, <2>3, <2>4, <2>5, <2>6, <2>8, <2>9, <2>10
          DEF ProtocolNext, Calibrate, Promote, ReturnToDraft
<1> QED BY <1>2, <1>3, FilesOrCommand

\* The types of what is launched, and of the switches.
LaunchTypeOK ==
    /\ DOMAIN seeds = Arm /\ seeds = [a \in Arm |-> seeds[a]]
    /\ creating = [p \in Creator |-> creating[p]]
    /\ crossed \in BOOLEAN
    /\ cycle \in Nat

SwitchTypeOK ==
    /\ armed \in BOOLEAN
    /\ advancing \in [Invocation -> {"no", "local", "deployed"}]
    /\ grace \in Int

(* A seeding ends with the arm seeded or the creation given up.               *)
LEMMA NextLaunchType == Inv /\ [Next]_vars => LaunchTypeOK'
<1> SUFFICES ASSUME Inv, [Next]_vars PROVE LaunchTypeOK'
    OBVIOUS
<1>1. LaunchTypeOK
  BY DEF Inv, TypeOK, LaunchTypeOK
<1>2. ASSUME ProtocolStep PROVE LaunchTypeOK'
  BY <1>1, <1>2 DEF ProtocolStep, launchVars, LaunchTypeOK
<1>3. ASSUME NEW p \in Creator, NEW kind \in Kind, NEW g \in Gateway, create_run(p, kind, g)
      PROVE  LaunchTypeOK'
  BY <1>1, <1>3 DEF create_run, LaunchTypeOK
<1>4. ASSUME NEW p \in Creator, seed_arm_state(p) PROVE LaunchTypeOK'
  BY <1>1, <1>4 DEF seed_arm_state, histVars, LaunchTypeOK
<1>5. ASSUME NEW p \in Creator, CreatorDies(p) PROVE LaunchTypeOK'
  BY <1>1, <1>5 DEF CreatorDies, histVars, LaunchTypeOK
<1>6. ASSUME Reset PROVE LaunchTypeOK'
  BY <1>1, <1>6 DEF Reset, LaunchTypeOK
<1>7. ASSUME NEW i \in Invocation, Commit(i) PROVE LaunchTypeOK'
  BY <1>1, <1>7 DEF Commit, LaunchTypeOK
<1>8. ASSUME UNCHANGED <<launchVars, crossed>> PROVE LaunchTypeOK'
  BY <1>1, <1>8 DEF launchVars, LaunchTypeOK
<1>9. /\ \A w \in BOOLEAN : Execution(w) => LaunchTypeOK'
      /\ \A i \in Invocation, s \in BOOLEAN : Fire(i, s) => LaunchTypeOK'
      /\ \A i \in Invocation : LocalTick(i) \/ GiveUp(i) => LaunchTypeOK'
      /\ UNCHANGED <<protocolVars, launchVars, armed, advancing, histVars>> => LaunchTypeOK'
  BY <1>8 DEF Execution, Fire, LocalTick, GiveUp, histVars
<1> QED BY <1>2, <1>3, <1>4, <1>5, <1>6, <1>7, <1>9, NextCases

LEMMA NextSwitchType == Inv /\ [Next]_vars => SwitchTypeOK'
<1> SUFFICES ASSUME Inv, [Next]_vars PROVE SwitchTypeOK'
    OBVIOUS
<1>1. SwitchTypeOK
  BY DEF Inv, TypeOK, SwitchTypeOK
<1>2. ASSUME NEW w \in BOOLEAN, Execution(w) PROVE SwitchTypeOK'
  <2>1. Cardinality({i \in Invocation : advancing[i] = "deployed"}) \in Nat
    BY LaunchAssumption, FS_Subset, FS_CardinalityType
  <2> QED BY <1>1, <1>2, <2>1 DEF Execution, SwitchTypeOK
<1>3. ASSUME NEW i \in Invocation, NEW s \in BOOLEAN, Fire(i, s) PROVE SwitchTypeOK'
  BY <1>1, <1>3 DEF Fire, histVars, SwitchTypeOK
<1>4. ASSUME NEW i \in Invocation, LocalTick(i) PROVE SwitchTypeOK'
  BY <1>1, <1>4 DEF LocalTick, histVars, SwitchTypeOK
<1>5. ASSUME NEW i \in Invocation, Commit(i) PROVE SwitchTypeOK'
  BY <1>1, <1>5 DEF Commit, SwitchTypeOK
<1>6. ASSUME NEW i \in Invocation, GiveUp(i) PROVE SwitchTypeOK'
  BY <1>1, <1>6 DEF GiveUp, histVars, SwitchTypeOK
<1>7. ASSUME UNCHANGED <<armed, advancing, grace>> PROVE SwitchTypeOK'
  BY <1>1, <1>7 DEF SwitchTypeOK
<1>8. /\ ProtocolStep => SwitchTypeOK'
      /\ \A p \in Creator, kind \in Kind, g \in Gateway : create_run(p, kind, g) => SwitchTypeOK'
      /\ \A p \in Creator : seed_arm_state(p) \/ CreatorDies(p) => SwitchTypeOK'
      /\ Reset => SwitchTypeOK'
      /\ UNCHANGED <<protocolVars, launchVars, armed, advancing, histVars>> => SwitchTypeOK'
  BY <1>7 DEF ProtocolStep, create_run, seed_arm_state, CreatorDies, Reset, switchVars, histVars
<1> QED BY <1>2, <1>3, <1>4, <1>5, <1>6, <1>8, NextCases

(* When the digest file is due, no file has changed since the manifest.       *)
LEMMA NextManifest == Inv /\ [Next]_vars => ManifestCurrent'
<1> SUFFICES ASSUME Inv, [Next]_vars PROVE ManifestCurrent'
    OBVIOUS
<1>1. CommandOK /\ ManifestCurrent
  BY DEF Inv
<1>2. CASE UNCHANGED protocolVars
  BY <1>1, <1>2 DEF protocolVars, files, ManifestCurrent
<1>3. CASE ProtocolStep
  <2>1. ASSUME cmd' = Idle \/ Head(cmd'.todo) # "digest" PROVE ManifestCurrent'
    BY <2>1 DEF ManifestCurrent
  <2>2. ASSUME NEW kinds, NEW file, Writing(kinds, file), file # "canon" PROVE ManifestCurrent'
    BY <1>1, <2>1, <2>2, AfterWriting
  <2>3. ASSUME NEW d \in Doc, Edit(d) PROVE ManifestCurrent'
    BY <1>1, <2>1, <2>3 DEF Edit
  <2>4. ASSUME NEW d \in Doc, PromoteDocument(d) \/ DraftDocument(d) PROVE ManifestCurrent'
    BY <2>2, <2>4, DocAssumption DEF PromoteDocument, DraftDocument
  <2>5. ASSUME NEW k \in Calibrations, NEW g \in Gateway, Calibrate(k, g) PROVE ManifestCurrent'
    BY <2>1, <2>5, StartedCalibration
  <2>6. ASSUME NEW s \in Runnable, NEW g \in Gateway, Promote(s, g) PROVE ManifestCurrent'
    BY <2>1, <2>6, StartedPromotion
  <2>7. ASSUME ReturnToDraft PROVE ManifestCurrent'
    BY <2>1, <2>7, StartedDrafting
  <2>8. ASSUME write_canonical_manifest PROVE ManifestCurrent'
    <3>1. CASE cmd' = Idle
      BY <2>1, <3>1
    <3>2. CASE cmd' # Idle
      <4>1. canon' = build_canonical_manifest(cmd.model) /\ status' = status
        BY <1>1, <2>8, <3>2, AfterManifest DEF write_canonical_manifest, files
      <4> QED BY <4>1 DEF build_canonical_manifest, digests, document_digest, DigestAs,
                          Document, ManifestCurrent
    <3> QED BY <3>1, <3>2
  <2>9. CutShort => ManifestCurrent'
    BY <2>1 DEF CutShort
  <2>10. WriteCounts \/ WriteCards \/ WriteSeedCounter \/ WriteBudget \/ WriteProvenance
           \/ WriteManifest \/ WriteDigestFile => ManifestCurrent'
    BY <2>2 DEF WriteCounts, WriteCards, WriteSeedCounter, WriteBudget, WriteProvenance,
                WriteManifest, WriteDigestFile
  <2>11. ProtocolNext
    BY <1>3 DEF ProtocolStep
  <2> QED BY ONLY <2>3, <2>4, <2>5, <2>6, <2>7, <2>8, <2>9, <2>10, <2>11, ProtocolCases
<1> QED BY <1>2, <1>3, FilesOrCommand

(* A digest file over frozen files registers its manifest.                    *)
LEMMA NextDigest == Inv /\ [Next]_vars => DigestRegistered'
<1> SUFFICES ASSUME Inv, [Next]_vars PROVE DigestRegistered'
    OBVIOUS
<1>1. CommandOK /\ ManifestCurrent /\ DigestRegistered
  BY DEF Inv
<1>2. registered \subseteq registered'
  BY NextCases DEF ProtocolStep, create_run, seed_arm_state, CreatorDies, Reset, Execution,
                   Fire, LocalTick, Commit, GiveUp, histVars
<1>3. ASSUME UNCHANGED canonSum PROVE DigestRegistered'
  BY <1>1, <1>2, <1>3 DEF DigestRegistered, AllFrozen
<1>4. CASE UNCHANGED protocolVars
  BY <1>3, <1>4 DEF protocolVars
<1>5. CASE ProtocolStep
  <2>1. ASSUME WriteDigestFile, canonSum' # canonSum PROVE DigestRegistered'
    <3>1. canonSum' = canon /\ canon' = canon /\ status' = status
      BY <2>1 DEF WriteDigestFile, files
    <3>2. \A d \in Doc : canon.files[d].status = status[d]
      BY <1>1, <2>1 DEF WriteDigestFile, Writing, ManifestCurrent
    <3>3. AllFrozen(canon) => is_frozen'
      BY <3>1, <3>2 DEF AllFrozen, is_frozen
    <3>4. is_frozen' /\ canon' # None => canon' \in registered'
      BY <1>5, <2>1, <3>1 DEF ProtocolStep
    <3> QED BY <3>1, <3>3, <3>4 DEF DigestRegistered, AllFrozen
  <2>2. ProtocolNext /\ ~WriteDigestFile => UNCHANGED canonSum
    BY DEF ProtocolNext, Edit, PromoteDocument, DraftDocument, Calibrate, Promote,
           ReturnToDraft, Start, WriteCounts, WriteCards, WriteSeedCounter, WriteBudget,
           WriteProvenance, WriteManifest, write_canonical_manifest, CutShort
  <2> QED BY <1>3, <1>5, <2>1, <2>2 DEF ProtocolStep
<1> QED BY <1>4, <1>5, FilesOrCommand

(* A manifest and the files it registers agree on the counter.                *)
LEMMA NextCounted == Inv /\ [Next]_vars => ManifestCounted'
<1> SUFFICES ASSUME Inv, [Next]_vars PROVE ManifestCounted'
    OBVIOUS
<1>1. CommandOK /\ ManifestCounted
  BY DEF Inv
<1>2. ASSUME UNCHANGED canon PROVE ManifestCounted'
  BY <1>1, <1>2 DEF ManifestCounted
<1>3. CASE UNCHANGED protocolVars
  BY <1>2, <1>3 DEF protocolVars
<1>4. CASE ProtocolStep
  <2>1. ASSUME write_canonical_manifest PROVE ManifestCounted'
    <3>1. canon' \in {canon, build_canonical_manifest(cmd.model)}
      BY <1>1, <2>1, AfterManifest
    <3>2. "protocol" \in Doc
      BY DocAssumption
    <3>3. ASSUME NEW m, m = build_canonical_manifest(cmd.model)
          PROVE  m.counter = m.files["protocol"].holds.budget.counter
      BY <3>2, <3>3 DEF build_canonical_manifest, digests, document_digest, DigestAs,
                        Document, PilotProtocol
    <3> QED BY <1>2, <3>1, <3>3 DEF ManifestCounted
  <2>2. ProtocolNext /\ ~write_canonical_manifest => UNCHANGED canon
    BY DEF ProtocolNext, Edit, PromoteDocument, DraftDocument, Calibrate, Promote,
           ReturnToDraft, Start, WriteCounts, WriteCards, WriteSeedCounter, WriteBudget,
           WriteProvenance, WriteManifest, WriteDigestFile, CutShort
  <2> QED BY <1>2, <1>4, <2>1, <2>2 DEF ProtocolStep
<1> QED BY <1>3, <1>4, FilesOrCommand

(* The seeds are counted as the budget is, except between the two writes.     *)
LEMMA NextSeedsCounted == Inv /\ [Next]_vars => SeedsCounted'
<1> SUFFICES ASSUME Inv, [Next]_vars PROVE SeedsCounted'
    OBVIOUS
<1>1. CommandOK /\ SeedsCounted /\ FilesTypeOK
  BY DEF Inv, TypeOK, FilesTypeOK
<1> DEFINE Between == cmd \in Calibration /\ Head(cmd.todo) \in {"cards", "seedCounter", "budget"}
           Gate == counter_identity(cmd.gateway).counter
<1>2. CASE UNCHANGED protocolVars
  BY <1>1, <1>2 DEF protocolVars, files, SeedsCounted
<1>3. CASE ProtocolStep
  <2>1. ASSUME ~Between, ~Between', UNCHANGED <<counts, budget>>, torn' = FALSE => torn = FALSE
        PROVE  SeedsCounted'
    BY <1>1, <2>1 DEF SeedsCounted, FilesTypeOK
  <2>2. ASSUME torn' PROVE SeedsCounted'
    BY <2>2 DEF SeedsCounted
  <2>3. ASSUME cmd = Idle \/ cmd \in Promotion \/ cmd \in Drafting
        PROVE  ~Between
    BY <2>3 DEF Idle, Calibration, Calibrations, Promotion, Drafting
  <2>4. ASSUME cmd' = Idle \/ cmd' \in Promotion \/ cmd' \in Drafting
        PROVE  ~Between'
    BY <2>4 DEF Idle, Calibration, Calibrations, Promotion, Drafting
  <2>5. ASSUME NEW d \in Doc, Edit(d) PROVE SeedsCounted'
    BY <2>1, <2>3, <2>4, <2>5 DEF Edit
  <2>6. ASSUME NEW kinds, NEW file, Writing(kinds, file), kinds \subseteq {"promote", "draft"},
               UNCHANGED <<counts, budget>>
        PROVE  SeedsCounted'
    <3>1. cmd \notin Calibration /\ cmd' \notin Calibration
      BY <1>1, <2>6, AfterWriting, CommandKinds DEF Calibrations
    <3> QED BY <2>1, <2>6, <3>1 DEF Writing
  <2>7. ASSUME NEW k \in Calibrations, NEW g \in Gateway, Calibrate(k, g) PROVE SeedsCounted'
    <3>1. Head(cmd'.todo) = "counts" /\ cmd = Idle
      BY <2>7, StartedCalibration DEF Calibrate, Start
    <3> QED BY <2>1, <2>3, <2>7, <3>1 DEF Calibrate, Start, files
  <2>8. ASSUME NEW s \in Runnable, NEW g \in Gateway, Promote(s, g) PROVE SeedsCounted'
    <3>1. cmd' \in Promotion /\ cmd = Idle
      BY <2>8, StartedPromotion DEF Promote, Start
    <3> QED BY <2>1, <2>3, <2>4, <2>8, <3>1 DEF Promote, Start, files
  <2>9. ASSUME ReturnToDraft PROVE SeedsCounted'
    <3>1. cmd' \in Drafting /\ cmd = Idle
      BY <2>9, StartedDrafting DEF ReturnToDraft, Start
    <3> QED BY <2>1, <2>3, <2>4, <2>9, <3>1 DEF ReturnToDraft, Start, files
  <2>10. ASSUME NEW file, Writing(Calibrations, file)
         PROVE  /\ cmd \in Calibration /\ torn' = torn
                /\ file \in {"counts", "cards", "seedCounter", "budget", "provenance"}
                /\ file \in {"cards", "seedCounter", "budget"} <=> Between
                /\ file = "counts" => Between'
                /\ file \in {"cards", "seedCounter"} => Between'
                /\ file \in {"budget", "provenance"} => ~Between'
                /\ Between' => Gate' = Gate
    <3> DEFINE t == cmd.todo
    <3>1. /\ cmd \in Calibration /\ t \in Seq(Writes) /\ t # <<>> /\ CalibrationOrder(t)
          /\ Head(t) = file
      BY <1>1, <2>10, AfterWriting, CommandKinds DEF CommandOK
    <3>2. /\ Len(t) \in Nat \ {0} /\ t[1] = file
          /\ Tail(t) # <<>> => Len(t) > 1 /\ Head(Tail(t)) = t[2]
          /\ Len(t) > 1 => Tail(t) # <<>>
      <4>1. \A n \in Nat : n > 1 => n - 1 # 0
        OBVIOUS
      <4> QED BY <3>1, <4>1, Rest, EmptySeq
    <3>3. /\ file \in {"counts", "cards", "seedCounter", "budget", "provenance"}
          /\ file = "counts" => Tail(t) # <<>> /\ Head(Tail(t)) = "cards"
          /\ file = "cards" => Tail(t) # <<>> /\ Head(Tail(t)) = "seedCounter"
          /\ file = "seedCounter" => Tail(t) # <<>> /\ Head(Tail(t)) = "budget"
          /\ file \in {"budget", "provenance"} /\ Tail(t) # <<>> => Head(Tail(t)) = "provenance"
      BY <3>1, <3>2 DEF CalibrationOrder
    <3>4. CASE Tail(t) = <<>>
      <4>1. cmd' = Idle
        BY <2>10, <3>1, <3>4 DEF Writing, Finished, Calibration
      <4> QED BY <2>4, <2>10, <3>1, <3>3, <3>4, <4>1 DEF Writing
    <3>5. CASE Tail(t) # <<>>
      <4>1. cmd' = [cmd EXCEPT !.todo = Tail(t)]
        BY <2>10, <3>1, <3>5 DEF Writing, Finished, Calibration
      <4>2. cmd'.todo = Tail(t) /\ cmd'.gateway = cmd.gateway /\ cmd' \in Calibration
        BY <3>1, <4>1, Rest DEF Calibration
      <4> QED BY <2>10, <3>1, <3>3, <3>5, <4>2 DEF Writing
    <3> QED BY <3>4, <3>5
  <2>11. ASSUME WriteCounts PROVE SeedsCounted'
    <3>1. Between' /\ Gate' = Gate /\ counts' = Gate
      BY <2>10, <2>11 DEF WriteCounts
    <3> QED BY <3>1 DEF SeedsCounted
  <2>12. ASSUME WriteCards \/ WriteSeedCounter PROVE SeedsCounted'
    <3>1. Between /\ Between' /\ Gate' = Gate /\ counts' = counts /\ torn' = torn
      BY <2>10, <2>12 DEF WriteCards, WriteSeedCounter
    <3> QED BY <1>1, <3>1 DEF SeedsCounted
  <2>13. ASSUME WriteBudget PROVE SeedsCounted'
    <3>1. Between /\ ~Between' /\ counts' = counts /\ torn' = torn /\ budget'.counter = Gate
      BY <2>10, <2>13 DEF WriteBudget
    <3> QED BY <1>1, <3>1 DEF SeedsCounted
  <2>14. ASSUME WriteProvenance PROVE SeedsCounted'
    <3>1. Writing(Calibrations, "provenance")
      BY <2>14 DEF WriteProvenance, Writing, Calibrations
    <3>2. ~Between /\ ~Between' /\ counts' = counts /\ torn' = torn
      BY <2>10, <2>14, <3>1 DEF WriteProvenance
    <3>3. budget' # None => budget # None /\ budget'.counter = budget.counter
      BY <1>1, <2>14 DEF WriteProvenance, FilesTypeOK, Budget, None
    <3> QED BY <1>1, <3>2, <3>3 DEF SeedsCounted
  <2>15. ASSUME write_canonical_manifest PROVE SeedsCounted'
    <3>1. cmd \notin Calibration /\ cmd' \notin Calibration
      BY <1>1, <2>15, AfterManifest
    <3> QED BY <2>1, <2>15, <3>1 DEF write_canonical_manifest, files
  <2>16. ASSUME CutShort PROVE SeedsCounted'
    <3>1. CASE torn'
      BY <2>2, <3>1
    <3>2. CASE ~torn'
      <4>1. cmd' = Idle /\ cmd \notin Calibration /\ torn = FALSE
        BY <1>1, <2>16, <3>2 DEF CutShort, Calibration, FilesTypeOK
      <4> QED BY <2>1, <2>4, <2>16, <4>1 DEF CutShort, files
    <3> QED BY <3>1, <3>2
  <2>17. /\ \A d \in Doc : PromoteDocument(d) => SeedsCounted'
         /\ \A d \in Doc : DraftDocument(d) => SeedsCounted'
         /\ WriteManifest => SeedsCounted'
         /\ WriteDigestFile => SeedsCounted'
    BY <2>6 DEF PromoteDocument, DraftDocument, WriteManifest, WriteDigestFile, files
  <2>18. ProtocolNext
    BY <1>3 DEF ProtocolStep
  <2> HIDE DEF Between, Gate
  <2> QED BY ONLY <2>5, <2>7, <2>8, <2>9, <2>11, <2>12, <2>13, <2>14, <2>15, <2>16,
                  <2>17, <2>18, ProtocolCases
<1> QED BY <1>2, <1>3, FilesOrCommand

-----------------------------------------------------------------------------
(* The run.                                                                   *)

(* What a run records of the files.                                           *)
LEMMA Recorded ==
  ASSUME NEW kind, NEW g
  PROVE  LET c == from_bundle(kind, g) IN
           /\ c.kind = kind /\ c # None
           /\ \A d \in Doc : c.files[d].status = status[d]
           /\ c.files["seeds"].text = text["seeds"]
           /\ c.files["seeds"].holds.memories.provisional_token_count = counts
           /\ c.files["protocol"].holds.budget = budget
<1>1. "seeds" \in Doc /\ "protocol" \in Doc
  BY DocAssumption
<1> QED BY <1>1 DEF from_bundle, digests, document_digest, DigestAs, Document, SeedWorld,
                    SeedMemorySpec, PilotProtocol, None

(* A canonical run is launched over frozen files, against their manifest.     *)
LEMMA CanonicalLaunch ==
  ASSUME NEW p \in Creator, NEW g \in Gateway, create_run(p, AWS_CANONICAL, g)
  PROVE  /\ canonSum = canon /\ canon # None
         /\ is_frozen /\ budget # None
         /\ run'.files = canon.files /\ run'.counter = canon.counter
         /\ ~run'.simulated
         /\ launched' = canon
<1> DEFINE c == from_bundle(AWS_CANONICAL, g)
<1>1. c.kind = AWS_CANONICAL
  BY Recorded
<1>2. deployed_configuration(AWS_CANONICAL, g) /\ run' = c /\ launched' = canon
  BY DEF create_run, local_configuration, put_run, AWS_CANONICAL, LOCAL_FIXTURE
<1>3. is_frozen /\ budget # None
  BY <1>2 DEF deployed_configuration, require_runnable, calibrated
<1>4. canonSum = canon /\ canon # None /\ canonical_launch_mismatches(c, canon) = {}
  BY <1>1 DEF create_run, require_canonical_launch, read_canonical_manifest
<1>5. c.files = canon.files /\ c.counter = canon.counter
  BY <1>4 DEF canonical_launch_mismatches
<1>6. ~c.simulated
  BY <1>1 DEF create_run, require_run_kind_consistent
<1> QED BY <1>2, <1>3, <1>4, <1>5, <1>6

(* Only a creation makes a run, and only a reset takes one away.              *)
LEMMA RunStays ==
  ASSUME [Next]_vars
  PROVE  \/ UNCHANGED <<run, launched>>
         \/ \E p \in Creator, kind \in Kind, g \in Gateway : create_run(p, kind, g)
         \/ Reset
BY NextCases DEF ProtocolStep, seed_arm_state, CreatorDies, Execution, Fire, LocalTick,
                 Commit, GiveUp, histVars, launchVars

(* What was registered, torn or crossed stays so.                             *)
LEMMA HistoryGrows ==
  ASSUME Inv, [Next]_vars
  PROVE  /\ registered \subseteq registered'
         /\ torn => torn'
         /\ crossed => crossed'
<1>1. registered \subseteq registered' /\ (crossed => crossed')
  BY NextCases DEF ProtocolStep, create_run, seed_arm_state, CreatorDies, Reset, Execution,
                   Fire, LocalTick, Commit, GiveUp, histVars
<1>2. CASE UNCHANGED protocolVars
  BY <1>1, <1>2 DEF protocolVars
<1>3. CASE ProtocolStep
  <2>1. torn => torn'
    BY <1>3, ProtocolCases
       DEF ProtocolStep, Edit, PromoteDocument, DraftDocument, Calibrate, Promote,
           ReturnToDraft, Start, WriteCounts, WriteCards, WriteSeedCounter, WriteBudget,
           WriteProvenance, WriteManifest, write_canonical_manifest, WriteDigestFile,
           CutShort, Writing
  <2> QED BY <1>1, <2>1
<1> QED BY <1>2, <1>3, FilesOrCommand

(* A canonical run was launched against a registered manifest.                *)
LEMMA NextCanonical == Inv /\ [Next]_vars => CanonicalIsRegistered'
<1> SUFFICES ASSUME Inv, [Next]_vars PROVE CanonicalIsRegistered'
    OBVIOUS
<1>1. CanonicalIsRegistered /\ DigestRegistered
  BY DEF Inv
<1>2. CASE UNCHANGED <<run, launched>>
  BY <1>1, <1>2, HistoryGrows DEF CanonicalIsRegistered
<1>3. CASE Reset
  BY <1>3 DEF Reset, CanonicalIsRegistered
<1>4. ASSUME NEW p \in Creator, NEW kind \in Kind, NEW g \in Gateway, create_run(p, kind, g)
      PROVE  CanonicalIsRegistered'
  <2>1. run' = from_bundle(kind, g)
    BY <1>4 DEF create_run, put_run
  <2>2. CASE kind = AWS_CANONICAL
    <3>1. /\ canonSum = canon /\ canon # None /\ is_frozen
          /\ run'.files = canon.files /\ ~run'.simulated /\ launched' = canon
      BY <1>4, <2>2, CanonicalLaunch
    <3>2. \A d \in Doc : run'.files[d].status = FROZEN
      BY <2>1, <3>1, Recorded DEF is_frozen
    <3>3. canon \in registered
      BY <1>1, <3>1, <3>2 DEF DigestRegistered, AllFrozen
    <3> QED BY <3>1, <3>2, <3>3, HistoryGrows DEF CanonicalIsRegistered
  <2>3. CASE kind # AWS_CANONICAL
    BY <2>1, <2>3, Recorded DEF CanonicalIsRegistered
  <2> QED BY <2>2, <2>3
<1> QED BY <1>2, <1>3, <1>4, RunStays

(* A canonical run is counted as the seeds it was launched with.              *)
LEMMA NextRunCounted == Inv /\ [Next]_vars => RunCounted'
<1> SUFFICES ASSUME Inv, [Next]_vars PROVE RunCounted'
    OBVIOUS
<1>1. RunCounted /\ ManifestCounted /\ SeedsCounted
  BY DEF Inv
<1>2. CASE UNCHANGED <<run, launched>>
  BY <1>1, <1>2, HistoryGrows DEF RunCounted
<1>3. CASE Reset
  BY <1>3 DEF Reset, RunCounted
<1>4. ASSUME NEW p \in Creator, NEW kind \in Kind, NEW g \in Gateway, create_run(p, kind, g)
      PROVE  RunCounted'
  <2>1. run' = from_bundle(kind, g) /\ cmd = Idle /\ torn' = torn
    BY <1>4 DEF create_run, put_run, protocolVars
  <2>2. CASE kind = AWS_CANONICAL
    <3>1. /\ canon # None /\ budget # None
          /\ run'.files = canon.files /\ run'.counter = canon.counter
      BY <1>4, <2>2, CanonicalLaunch
    <3>2. run'.counter = budget.counter
      BY <1>1, <2>1, <3>1, Recorded DEF ManifestCounted
    <3>3. ~torn => counts = budget.counter
      BY <1>1, <2>1, <3>1 DEF SeedsCounted, Idle, Calibration, Calibrations
    <3> QED BY <2>1, <3>2, <3>3, Recorded DEF RunCounted
  <2>3. CASE kind # AWS_CANONICAL
    BY <2>1, <2>3, Recorded DEF RunCounted
  <2> QED BY <2>2, <2>3
<1> QED BY <1>2, <1>3, <1>4, RunStays

(* Every starting state is the run's, unless a reset crossed its creation.    *)
LEMMA NextStarts == Inv /\ [Next]_vars => StartsSound'
<1> SUFFICES ASSUME Inv, [Next]_vars, ~crossed' PROVE StartsSound'
    BY DEF StartsSound
<1>1. ~crossed /\ StartsSound /\ LaunchTypeOK
  BY HistoryGrows DEF Inv, TypeOK, LaunchTypeOK
<1>2. ASSUME UNCHANGED <<run, seeds, creating>> PROVE StartsSound'
  BY <1>1, <1>2 DEF StartsSound, StartOf
<1>3. ASSUME NEW p \in Creator, NEW kind \in Kind, NEW g \in Gateway, create_run(p, kind, g)
      PROVE  StartsSound'
  <2>1. run = None /\ run' = from_bundle(kind, g) /\ UNCHANGED seeds
    BY <1>3 DEF create_run, put_run
  <2>2. /\ \A a \in Arm : seeds[a] = None
        /\ \A q \in Creator : creating[q] = None
    BY <1>1, <2>1 DEF StartsSound, StartOf
  <2>3. \A q \in Creator : creating'[q] # None => creating'[q].state = initialize_pilot_run
    BY <1>1, <1>3, <2>2 DEF create_run, LaunchTypeOK
  <2>4. \A s : s = initialize_pilot_run =>
          /\ run' # None
          /\ s.text = run'.files["seeds"].text
          /\ s.counts = run'.files["seeds"].holds.memories.provisional_token_count
    BY <2>1, Recorded DEF initialize_pilot_run
  <2> QED BY <2>1, <2>2, <2>3, <2>4 DEF StartsSound, StartOf
<1>4. ASSUME NEW p \in Creator, seed_arm_state(p) PROVE StartsSound'
  <2> DEFINE a == Head(creating[p].todo)
  <2>1. UNCHANGED run /\ creating[p] # None /\ StartOf(creating[p].state)
    BY <1>1, <1>4 DEF seed_arm_state, StartsSound
  <2>2. seeds' \in {seeds, [seeds EXCEPT ![a] = creating[p].state]}
    BY <1>4 DEF seed_arm_state
  <2>3. \A b \in Arm : seeds'[b] = seeds[b] \/ seeds'[b] = creating[p].state
    BY <1>1, <2>2 DEF LaunchTypeOK
  <2>4. \A q \in Creator : creating'[q] # None => creating[q] # None /\ creating'[q].state = creating[q].state
    <3> DEFINE rest == [creating[p] EXCEPT !.todo = Tail(creating[p].todo)]
    <3>1. \/ creating' = [creating EXCEPT ![p] = None]
          \/ creating' = [creating EXCEPT ![p] =
                             IF Len(creating[p].todo) = 1 THEN None ELSE rest]
      BY <1>4 DEF seed_arm_state
    <3>2. rest.state = creating[p].state
      OBVIOUS
    <3> HIDE DEF rest
    <3> QED BY <1>1, <2>1, <3>1, <3>2 DEF LaunchTypeOK
  <2> QED BY <1>1, <2>1, <2>3, <2>4 DEF StartsSound, StartOf
<1>5. ASSUME NEW p \in Creator, CreatorDies(p) PROVE StartsSound'
  BY <1>1, <1>5 DEF CreatorDies, StartsSound, StartOf, LaunchTypeOK
<1>6. ASSUME Reset PROVE StartsSound'
  BY <1>1, <1>6 DEF Reset, StartsSound
<1>7. /\ ProtocolStep => StartsSound'
      /\ \A w \in BOOLEAN : Execution(w) => StartsSound'
      /\ \A i \in Invocation, s \in BOOLEAN : Fire(i, s) => StartsSound'
      /\ \A i \in Invocation : LocalTick(i) => StartsSound'
      /\ \A i \in Invocation : Commit(i) => StartsSound'
      /\ \A i \in Invocation : GiveUp(i) => StartsSound'
      /\ UNCHANGED <<protocolVars, launchVars, armed, advancing, histVars>> => StartsSound'
  BY <1>2 DEF ProtocolStep, Execution, Fire, LocalTick, Commit, GiveUp, launchVars
<1> QED BY <1>3, <1>4, <1>5, <1>6, <1>7, NextCases

(* A run is advanced with every arm's start in the store.                     *)
LEMMA NextAdvanced == Inv /\ [Next]_vars => AdvancedWhole'
<1> SUFFICES ASSUME Inv, [Next]_vars PROVE AdvancedWhole'
    OBVIOUS
<1>1. AdvancedWhole /\ LaunchTypeOK
  BY DEF Inv, TypeOK, LaunchTypeOK
<1>2. ASSUME UNCHANGED <<seeds, cycle>> PROVE AdvancedWhole'
  BY <1>1, <1>2 DEF AdvancedWhole, engine_at
<1>3. ASSUME NEW p \in Creator, seed_arm_state(p) PROVE AdvancedWhole'
  <2>1. \A a \in Arm : seeds[a] # None => seeds'[a] = seeds[a]
    BY <1>1, <1>3 DEF seed_arm_state, LaunchTypeOK
  <2> QED BY <1>1, <1>3, <2>1 DEF seed_arm_state, AdvancedWhole, engine_at
<1>4. ASSUME Reset PROVE AdvancedWhole'
  BY <1>4 DEF Reset, AdvancedWhole
<1>5. ASSUME NEW i \in Invocation, Commit(i) PROVE AdvancedWhole'
  BY <1>5 DEF Commit, AdvancedWhole, engine_at
<1>6. /\ ProtocolStep => AdvancedWhole'
      /\ \A p \in Creator, kind \in Kind, g \in Gateway : create_run(p, kind, g) => AdvancedWhole'
      /\ \A p \in Creator : CreatorDies(p) => AdvancedWhole'
      /\ \A w \in BOOLEAN : Execution(w) => AdvancedWhole'
      /\ \A i \in Invocation, s \in BOOLEAN : Fire(i, s) => AdvancedWhole'
      /\ \A i \in Invocation : LocalTick(i) => AdvancedWhole'
      /\ \A i \in Invocation : GiveUp(i) => AdvancedWhole'
      /\ UNCHANGED <<protocolVars, launchVars, armed, advancing, histVars>> => AdvancedWhole'
  BY <1>2 DEF ProtocolStep, create_run, CreatorDies, Execution, Fire, LocalTick, GiveUp, launchVars
<1> QED BY <1>3, <1>4, <1>5, <1>6, NextCases

(* Nothing joins those under way while the function is disarmed.              *)
LEMMA NextGrace == Inv /\ [Next]_vars => GraceCovers'
<1> SUFFICES ASSUME Inv, [Next]_vars PROVE GraceCovers'
    OBVIOUS
<1>1. GraceCovers /\ SwitchTypeOK
  BY DEF Inv, TypeOK, SwitchTypeOK
<1>2. IsFiniteSet(Deploying) /\ Cardinality(Deploying) \in Nat
  BY LaunchAssumption, FS_Subset, FS_CardinalityType DEF Deploying
<1>3. ASSUME UNCHANGED <<armed, grace>>, Deploying' \subseteq Deploying PROVE GraceCovers'
  <2>1. Cardinality(Deploying') <= Cardinality(Deploying) /\ Cardinality(Deploying') \in Nat
    BY <1>2, <1>3, FS_Subset, FS_CardinalityType
  <2> QED BY <1>1, <1>2, <1>3, <2>1 DEF GraceCovers, SwitchTypeOK
<1>4. ASSUME NEW w \in BOOLEAN, Execution(w) PROVE GraceCovers'
  BY <1>1, <1>2, <1>4 DEF Execution, GraceCovers, Deploying, SwitchTypeOK
<1>5. ASSUME NEW i \in Invocation, NEW s \in BOOLEAN, Fire(i, s) PROVE GraceCovers'
  BY <1>5 DEF Fire, require_can_execute, GraceCovers
<1>6. ASSUME NEW i \in Invocation, LocalTick(i) PROVE GraceCovers'
  <2>1. Deploying' \subseteq Deploying
    BY <1>1, <1>6 DEF LocalTick, Deploying, SwitchTypeOK
  <2> QED BY <1>3, <1>6, <2>1 DEF LocalTick, histVars
<1>7. ASSUME NEW i \in Invocation, Commit(i) PROVE GraceCovers'
  <2>1. CASE armed
    BY <1>7, <2>1 DEF Commit, GraceCovers
  <2>2. CASE ~armed /\ advancing[i] = "deployed"
    <3>1. Deploying' = Deploying \ {i} /\ i \in Deploying
      BY <1>1, <1>7, <2>2 DEF Commit, Deploying, SwitchTypeOK
    <3>2. Cardinality(Deploying') = Cardinality(Deploying) - 1
      BY <1>2, <3>1, FS_RemoveElement
    <3>3. grace' = grace - 1
      BY <1>7, <2>2 DEF Commit
    <3> QED BY <1>1, <1>2, <2>2, <3>2, <3>3 DEF GraceCovers, SwitchTypeOK
  <2>3. CASE ~armed /\ advancing[i] # "deployed"
    <3>1. Deploying' \subseteq Deploying /\ UNCHANGED <<armed, grace>>
      BY <1>1, <1>7, <2>3 DEF Commit, Deploying, SwitchTypeOK
    <3> QED BY <1>3, <3>1
  <2> QED BY <2>1, <2>2, <2>3
<1>8. ASSUME NEW i \in Invocation, GiveUp(i) PROVE GraceCovers'
  <2>1. Deploying' \subseteq Deploying
    BY <1>1, <1>8 DEF GiveUp, Deploying, SwitchTypeOK
  <2> QED BY <1>3, <1>8, <2>1 DEF GiveUp, histVars
<1>9. ASSUME UNCHANGED <<armed, advancing, grace>> PROVE GraceCovers'
  BY <1>3, <1>9 DEF Deploying
<1>10. /\ ProtocolStep => GraceCovers'
       /\ \A p \in Creator, kind \in Kind, g \in Gateway : create_run(p, kind, g) => GraceCovers'
       /\ \A p \in Creator : seed_arm_state(p) => GraceCovers'
       /\ \A p \in Creator : CreatorDies(p) => GraceCovers'
       /\ Reset => GraceCovers'
       /\ UNCHANGED <<protocolVars, launchVars, armed, advancing, histVars>> => GraceCovers'
  BY <1>9 DEF ProtocolStep, create_run, seed_arm_state, CreatorDies, Reset, switchVars, histVars
<1> QED BY <1>4, <1>5, <1>6, <1>7, <1>8, <1>10, NextCases

-----------------------------------------------------------------------------
(* Theorems.                                                                  *)

LEMMA InitInv == Init => Inv
<1> SUFFICES ASSUME Init PROVE Inv
    OBVIOUS
<1> USE DEF Init, ProtocolInit
<1>1. TypeOK
  <2>1. status \in [Doc -> ProtocolStatus]
    BY DEF ProtocolStatus
  <2>2. budget \in Budget \cup {None} /\ commands \in Nat /\ torn \in BOOLEAN
    OBVIOUS
  <2>3. crossed \in BOOLEAN /\ armed \in BOOLEAN
    OBVIOUS
  <2>4. grace \in Int /\ cycle \in Nat
    OBVIOUS
  <2>5. DOMAIN seeds = Arm /\ seeds = [a \in Arm |-> seeds[a]]
    OBVIOUS
  <2>6. creating = [p \in Creator |-> creating[p]]
    OBVIOUS
  <2>7. advancing \in [Invocation -> {"no", "local", "deployed"}]
    OBVIOUS
  <2> QED BY <2>1, <2>2, <2>3, <2>4, <2>5, <2>6, <2>7 DEF TypeOK
<1>2. CommandOK /\ ManifestCurrent
  BY DEF CommandOK, ManifestCurrent
<1>3. DigestRegistered /\ ManifestCounted /\ SeedsCounted
  BY DEF DigestRegistered, ManifestCounted, SeedsCounted, Idle, Calibration, Calibrations
<1>4. RunCounted /\ StartsSound /\ AdvancedWhole /\ CanonicalIsRegistered
  BY DEF RunCounted, StartsSound, AdvancedWhole, CanonicalIsRegistered
<1>5. GraceCovers
  <2>1. Deploying = {}
    BY DEF Deploying
  <2> QED BY <2>1, FS_EmptySet DEF GraceCovers
<1> QED BY <1>1, <1>2, <1>3, <1>4, <1>5 DEF Inv

(* The inductive invariant holds in every reachable state.                    *)
LEMMA Invariance == Spec => []Inv
<1>1. Inv /\ [Next]_vars => Inv'
  <2> SUFFICES ASSUME Inv, [Next]_vars PROVE Inv'
      OBVIOUS
  <2>1. TypeOK'
    BY NextFilesType, NextLaunchType, NextSwitchType
       DEF FilesTypeOK, LaunchTypeOK, SwitchTypeOK, TypeOK
  <2>2. CommandOK' /\ ManifestCurrent' /\ DigestRegistered' /\ ManifestCounted'
    BY NextCommand, NextManifest, NextDigest, NextCounted
  <2>3. SeedsCounted' /\ RunCounted' /\ StartsSound' /\ AdvancedWhole'
    BY NextSeedsCounted, NextRunCounted, NextStarts, NextAdvanced
  <2>4. GraceCovers' /\ CanonicalIsRegistered'
    BY NextGrace, NextCanonical
  <2> QED BY <2>1, <2>2, <2>3, <2>4 DEF Inv
<1> QED BY InitInv, <1>1, PTL DEF Spec

(* A canonical run is the experiment that was frozen, whatever was edited,    *)
(* calibrated, promoted, reopened or cut short before it was launched         *)
(* (cli.py read_canonical_manifest, require_canonical_launch).                *)
THEOREM CanonicalRegistration == Spec => []CanonicalIsRegistered
BY Invariance, PTL DEF Inv

(* The seeds of a canonical run are counted with the counter it runs with,    *)
(* for every sequence of calibrations none of which was cut short.            *)
THEOREM CanonicalCounting == Spec => []CountedAsFrozen
<1>1. Inv => CountedAsFrozen
  BY DEF Inv, RunCounted, StartsSound, StartOf, CountedAsFrozen
<1> QED BY <1>1, Invariance, PTL

(* All arms start from the seeds of the files the run records, and no run is  *)
(* advanced that lacks an arm's start (create_run, seed_arm_state, engine_at). *)
THEOREM ArmsAlike == Spec => []ArmsStartAlike
<1>1. Inv => ArmsStartAlike
  BY DEF Inv, StartsSound, StartOf, AdvancedWhole, engine_at, ArmsStartAlike
<1> QED BY <1>1, Invariance, PTL

(* Once the function is disarmed, only what was under way can still commit    *)
(* (run_cycle.py require_can_execute).                                        *)
THEOREM DisarmedQuiet == Spec => []DisarmedIsQuiet
<1>1. Inv => DisarmedIsQuiet
  <2> SUFFICES ASSUME Inv, ~armed PROVE grace >= 0
      BY DEF DisarmedIsQuiet
  <2>1. Cardinality(Deploying) \in Nat
    BY LaunchAssumption, FS_Subset, FS_CardinalityType DEF Deploying
  <2> QED BY <2>1 DEF Inv, GraceCovers, TypeOK
<1> QED BY <1>1, Invariance, PTL
=============================================================================
