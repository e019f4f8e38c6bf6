----------------------------- MODULE RunAnalysis -----------------------------
(***************************************************************************)
(* A run that is advanced, interviewed, analysed and exported, over one    *)
(* store.  The arm is ArmMemory's; what the analysis concludes is derived  *)
(* from its snapshots, its state and its interviews, each read in turn     *)
(* while the run may go on; nothing the analysis writes is read back by it.*)
(*                                                                         *)
(* One arm stands for all: an arm's numbers use nothing of another's.      *)
(***************************************************************************)
EXTENDS ArmMemory, Scores

CONSTANTS
  Claimed,        \* bound: the memories every journal entry claims to rest on
  MaxOverlap,     \* bound: the cycles committed during a pass, or before an
                  \* interview that is due
  Checkpoints,    \* checkpoint_cycles
  Manners,        \* how it may answer at each: "faithful", "unsure", "denying", "blank"
  Verdicts,       \* what the evaluator may say
  Analysis,       \* the analyses of the run, each made once
  Export,         \* the exports of it, each made once
  Canonical       \* whether it is the registered experiment's run

VARIABLES
  history,      \* the arm's committed snapshots
  interviews,   \* checkpoint to interview
  passes,       \* what each pass has read and is about to write
  metrics,      \* (cycle, name) to value and cited memories
  status,       \* the cycles the analysis status says are covered
  artefacts,    \* the divergence artefact, once there is one
  dataset,      \* what the run's directory or prefix of exports holds
  settled       \* history: the passes that began over a finished run, no other pass
                \* under way that had begun before that, and have ended

armVars == vars
storeVars == <<history, interviews, metrics, status, artefacts, dataset>>
runVars == <<armVars, storeVars, passes, settled>>

ASSUME AnalysisAssumption ==
  /\ Claimed \subseteq Nat /\ IsFiniteSet(Claimed) /\ Cardinality(Claimed) <= MaxClaims
  /\ Checkpoints \subseteq 0 .. MaxCycle
  /\ Analysis \cap Export = {}
  /\ Verdicts \subseteq DOMAIN Verdict
  /\ Canonical \in BOOLEAN

Pass == Analysis \cup Export
None == [at |-> "none"]

\* What new holds, and what else old does: @@, which the provers do not expand.
Over(new, old) ==
  [k \in DOMAIN new \cup DOMAIN old |-> IF k \in DOMAIN new THEN new[k] ELSE old[k]]
Keep(field, value) == [f \in {field} |-> value]

(* An earlier export to the same place may have been cut short.            *)
RunInit ==
  /\ Init
  /\ history = <<>>
  /\ interviews = [c \in {} |-> None]
  /\ passes = [p \in Pass |-> None]
  /\ metrics = [k \in {} |-> None] /\ status = {} /\ artefacts = None
  /\ dataset \in {None, [at |-> "part"]}
  /\ settled = {}

Started(p) == passes[p].at \notin {"none", "over"}
Finished   == cycle = MaxCycle /\ DOMAIN interviews = Checkpoints

-----------------------------------------------------------------------------
(* The store.  A row, the status and a document replace what is under      *)
(* their key; an interview is a measurement and does not.                  *)

list_arm_snapshots    == history
list_completed_cycles == {history[i].cycle : i \in DOMAIN history}

store_interview(c, interview) ==
  /\ c \notin DOMAIN interviews
  /\ interviews' = Over(Keep(c, interview), interviews)

store_metric(rows) == metrics' = Over(rows, metrics)

store_analysis_status(cycles) == status' = cycles

store_analysis_artifact(matrices) ==
  artefacts' = [at |-> "stored", divergence |-> matrices]

(* A row: its value, and the memories it cites.                            *)
Evidence(value, cited) == [value |-> value, cited |-> cited]

-----------------------------------------------------------------------------
(* The run goes on. *)

ArmStep ==
  /\ \A p \in Pass : Started(p) => cycle < passes[p].run + MaxOverlap
  /\ \A c \in Checkpoints \ DOMAIN interviews : cycle < c + MaxOverlap
  /\ \/ \E tokens \in CandidateTokens : Experience(Claimed, tokens)
     \/ Decide
     \/ \E tokens \in 1 .. SummaryLimit : WriteSummary(tokens)
  /\ history' = IF committed' = committed THEN history
                ELSE Append(history, ArmCycleSnapshot(committed, committed', cycle'))
  /\ UNCHANGED <<interviews, passes, metrics, status, artefacts, dataset, settled>>

(* A fact is a seed: a faithful answer states what the arm still holds and *)
(* has terms of what it compressed; it names the newest active memory.     *)
AnswersOf(s, manner) ==
  LET told == IF manner \in {"unsure", "blank"} THEN {} ELSE Active(s)
      hinted == IF manner = "faithful" THEN {m \in Known(s) : s.mem[m].status = "compressed"}
                ELSE {}
  IN [i \in DOMAIN Questions |->
        Answer(Questions[i].facts \cap told, Questions[i].facts \cap hinted, manner)]

(* A checkpoint is interviewed once, of the states as they then are.       *)
RunCheckpoint(c) ==
  /\ phase = "idle"
  /\ c <= cycle
  /\ \E manner \in Manners[c] :
       store_interview(c, [answers |-> AnswersOf(committed, manner),
                           reported |-> {Max(Active(committed))}])
  /\ UNCHANGED <<armVars, history, passes, metrics, status, artefacts, dataset, settled>>

-----------------------------------------------------------------------------
(* A pass reads and writes in this order; reads of one kind are one step.  *)
(* An export analyses first, keeps no artefacts, and then collects.        *)

AnalyseRun == <<"states", "interviews", "metrics", "status">>

\* Mutant: the arm states are collected before what may refer to them.
StatesFirst == <<"collect states", "collect snapshots", "collect interviews",
                 "collect metrics", "clear", "publish">>

ExportDataset == <<"collect snapshots", "collect interviews", "collect metrics",
                   "collect states", "clear", "publish">>

Order(p) == AnalyseRun \o (IF p \in Export THEN ExportDataset ELSE <<"artefacts">>)

Following(p, name) ==
  LET order == Order(p)
      i == CHOOSE i \in DOMAIN order : order[i] = name
  IN IF i = Len(order) THEN "over" ELSE order[i + 1]

(* The pass takes its next step, called name, and keeps fields.            *)
Turn(p, name, fields) ==
  /\ phase = "idle"
  /\ passes[p].at = name
  /\ LET next == Following(p, name)
     IN /\ passes' = [passes EXCEPT ![p] =
                        IF next = "over" THEN [at |-> "over"]
                        ELSE Over(Keep("at", next), Over(fields, passes[p]))]
        /\ settled' = settled \cup {q \in {p} : next = "over" /\ passes[p].fresh}
  /\ UNCHANGED armVars

(* get_run and list_arm_snapshots.  Bound: nothing is analysed before the  *)
(* first cycle is committed.                                               *)
Begin(p) ==
  /\ phase = "idle"
  /\ history # <<>>
  /\ passes[p] = None
  /\ passes' = [passes EXCEPT ![p] =
       [at |-> "states", run |-> cycle,
        fresh |-> Finished /\ \A q \in Pass : Started(q) => passes[q].fresh]]
  /\ UNCHANGED <<armVars, storeVars, settled>>

\* The snapshots of the first cycles, as many as there were: none ever changes.
Listed(cycles) == SubSeq(list_arm_snapshots, 1, cycles)

\* Of the cycle the run was read at, whatever the state is of.
SecondaryRows(x, s) ==
  [k \in {<<x.run, "secondary">>} |->
     Evidence(secondary_metrics(s, Listed(x.run), Budget), {})]

EchoRows(x, s) ==
  LET echoes == Echoes(Listed(x.run), s)
  IN [k \in (DOMAIN echoes) \X {"graveyard_echo"} |->
        Evidence(echoes[k[1]].delta, echoes[k[1]].nearest)]

ReadStates(p) ==
  /\ Turn(p, "states",
          Keep("rows", Over(SecondaryRows(passes[p], committed), EchoRows(passes[p], committed))))
  /\ UNCHANGED storeVars

InterviewRows(name, cycles, Value(_)) ==
  [k \in cycles \X {name} |-> Evidence(Value(k[1]), interviews[k[1]].reported)]

RecallRows ==
  InterviewRows("origin_recall", DOMAIN interviews,
                LAMBDA c : recall_averages(interviews[c].answers))

\* Mutant: the baseline itself gets no row.
DriftAfterBaseline(cycles) == cycles \ {0}

\* Without the interviews of cycle 0 there is nothing to drift from.
Drifting(cycles) == IF 0 \in cycles THEN cycles ELSE {}

(* The identity document is the answers; its distance from cycle 0's is    *)
(* whether they differ.                                                    *)
DriftRows ==
  InterviewRows("identity_drift", Drifting(DOMAIN interviews),
                LAMBDA c : interviews[c].answers # interviews[0].answers)

ContradictionRows(verdict) ==
  InterviewRows("contradiction_rate", DOMAIN interviews,
                LAMBDA c : analyse_contradictions(interviews[c].answers, verdict))

InterviewedRows(verdict) == Over(RecallRows, Over(DriftRows, ContradictionRows(verdict)))

(* The evaluator is asked anew by every pass.                              *)
ReadInterviews(p) ==
  /\ \E verdict \in Verdicts :
       Turn(p, "interviews",
            Over(Keep("rows", Over(passes[p].rows, InterviewedRows(verdict))),
                 Keep("divergence", Drifting(DOMAIN interviews))))
  /\ UNCHANGED storeVars

StoreMetrics(p) ==
  /\ Turn(p, "metrics", Keep("rows", None))
  /\ store_metric(passes[p].rows)
  /\ UNCHANGED <<history, interviews, status, artefacts, dataset>>

(* The status names the cycles completed by now, not those the pass looked *)
(* at.                                                                     *)
StoreStatus(p) ==
  /\ Turn(p, "status", <<>>)
  /\ store_analysis_status(list_completed_cycles)
  /\ UNCHANGED <<history, interviews, metrics, artefacts, dataset>>

StoreArtefacts(p) ==
  /\ Turn(p, "artefacts", <<>>)
  /\ store_analysis_artifact(passes[p].divergence)
  /\ UNCHANGED <<history, interviews, metrics, status, dataset>>

-----------------------------------------------------------------------------
(* The dataset. *)

Collect(p) ==
  /\ \/ Turn(p, "collect snapshots", Keep("collected", cycle))
     \/ Turn(p, "collect interviews", Keep("interviews", interviews))
     \/ Turn(p, "collect metrics", Keep("metrics", metrics))
     \/ Turn(p, "collect states", Keep("known", Known(committed)))
  /\ UNCHANGED storeVars

CanonicalExists == Canonical /\ dataset # None

(* The local directory is emptied first; the canonical prefix is written   *)
(* only when nothing is under it.  Either way a cut leaves a part.         *)
Clear(p) ==
  /\ Turn(p, "clear", <<>>)
  /\ ~ CanonicalExists
  /\ dataset' = [at |-> "part"]
  /\ UNCHANGED <<history, interviews, metrics, status, artefacts>>

CanonicalExportExists(p) ==
  /\ passes[p].at = "clear" /\ CanonicalExists
  /\ passes' = [passes EXCEPT ![p] = [at |-> "over"]]
  /\ UNCHANGED <<armVars, storeVars, settled>>

(* The graveyard is the pass's, the rest what was collected.               *)
Publish(p) ==
  /\ Turn(p, "publish", <<>>)
  /\ LET x == passes[p]
     IN dataset' = [at |-> "whole", by |-> p, snapshots |-> Listed(x.collected),
                    interviews |-> x.interviews, metrics |-> x.metrics, known |-> x.known,
                    graveyard |-> build_graveyard(Listed(x.run))]
  /\ UNCHANGED <<history, interviews, metrics, status, artefacts>>

(* The process dies, or its invocation is cut.                             *)
Die(p) ==
  /\ Started(p)
  /\ passes' = [passes EXCEPT ![p] = [at |-> "over"]]
  /\ UNCHANGED <<armVars, storeVars, settled>>

(* Cut among the rows it was storing, which are stored in this order.      *)
StoreOrder == <<"secondary", "origin_recall", "identity_drift", "graveyard_echo",
                "contradiction_rate">>

DieStoring(p) ==
  /\ passes[p].at = "metrics"
  /\ passes' = [passes EXCEPT ![p] = [at |-> "over"]]
  /\ \E n \in 1 .. Len(StoreOrder) - 1 :
       LET stored == {k \in DOMAIN passes[p].rows : \E i \in 1 .. n : k[2] = StoreOrder[i]}
       IN store_metric([k \in stored |-> passes[p].rows[k]])
  /\ UNCHANGED <<armVars, history, interviews, status, artefacts, dataset, settled>>

-----------------------------------------------------------------------------

PassStep(p) ==
  \/ Begin(p) \/ ReadStates(p) \/ ReadInterviews(p) \/ StoreMetrics(p) \/ StoreStatus(p)
  \/ StoreArtefacts(p)
  \/ Collect(p) \/ Clear(p) \/ CanonicalExportExists(p) \/ Publish(p)
  \/ Die(p) \/ DieStoring(p)

RunNext ==
  \/ ArmStep
  \/ \E c \in Checkpoints : RunCheckpoint(c)
  \/ \E p \in Pass : PassStep(p)

RunSpec == RunInit /\ [][RunNext]_runVars
=============================================================================
