----------------------------- MODULE RunVerifier -----------------------------
(***************************************************************************)
(* The checks a persisted run is put through, asked of RunAnalysis's store *)
(* (the checks that compare arms are not here: there is one), and what the *)
(* analysis and the dataset promise besides.                               *)
(***************************************************************************)
EXTENDS ReadApi

(* Of the snapshots and the states.                                        *)

within_budget == \A i \in DOMAIN history : history[i].tokens <= Budget

pinned_memory_survives ==
  arm = "SINK" => \A i \in DOMAIN history : PinnedId \in history[i].after

Minted_by(i) == {history[i].candidate, history[i].summary.id} \ {Never}
AccountedTo(n) == IF history = <<>> THEN {}
                  ELSE history[1].before \cup UNION {Minted_by(i) : i \in 1 .. n}

dreamer_lineage_resolves ==
  \A i \in DOMAIN history :
    history[i].summary # NoSummary =>
      /\ Cardinality(history[i].summary.parents) >= 2
      /\ \A m \in history[i].summary.parents :
           m \in AccountedTo(i - 1) \cup {history[j].candidate : j \in DOMAIN history}

nothing_forgotten_returned ==
  \A i, j \in DOMAIN history : i < j => DOMAIN history[i].retired \cap history[j].after = {}

interviews_are_read_only ==
  history # <<>> => Known(committed) \subseteq AccountedTo(Len(history))

graveyard_distinguishes_compression(lost) ==
  \A e \in lost : e.status = "compressed" => e.descendant # Never /\ ~ e.genuinely_inaccessible

metric_evidence_resolves == \A k \in DOMAIN metrics : metrics[k].cited \subseteq Known(committed)

seeds_are_present ==
  {m \in Known(committed) : committed.mem[m].kind = "seed"} = 0 .. Len(SeedTokens) - 1

no_future_stimuli_through_the_api == get_cycle(current_cycle + 1) = NotFound

no_duplicate_snapshot == \A i, j \in DOMAIN history : history[i].cycle = history[j].cycle => i = j

graveyard_covers_every_eviction(lost) ==
  UNION {DOMAIN history[i].retired : i \in DOMAIN history} \subseteq {e.memory : e \in lost}

compression_records_are_distinct ==
  \A i, j \in DOMAIN history :
    history[i].summary.id = history[j].summary.id => i = j \/ history[i].summary = NoSummary

(* Of the interviews and the analysis.                                     *)

Named(name) == {k \in DOMAIN metrics : k[2] = name}
Required == {"origin_recall", "identity_drift", "contradiction_rate"}

checkpoint_interviews_exist == {c \in Checkpoints : c <= cycle} \subseteq DOMAIN interviews

analysis_is_complete ==
  LET echoable == \E i, j \in DOMAIN history : i < j /\ DOMAIN history[i].retired # {}
  IN /\ status # {} /\ 1 .. cycle \subseteq status
     /\ \A name \in Required : Named(name) # {}
     /\ echoable => Named("graveyard_echo") # {}

checkpoint_analysis_exists ==
  \A c \in Checkpoints : c <= cycle =>
    /\ \A name \in Required : <<c, name>> \in DOMAIN metrics
    /\ c \in artefacts.divergence

(* Of a dataset.                                                           *)

export_checksums_pass == dataset.at = "whole"

export_record_counts_match_the_run ==
  /\ Len(dataset.snapshots) = Len(history)
  /\ Cardinality(DOMAIN dataset.interviews) = Cardinality(DOMAIN interviews)
  /\ Cardinality(DOMAIN dataset.metrics) = Cardinality(DOMAIN metrics)

export_holds_no_unreleased_data == \A i \in DOMAIN dataset.snapshots : dataset.snapshots[i].cycle <= cycle

-----------------------------------------------------------------------------
(* Properties. *)

\* Whatever the run goes through, verify_run finds nothing wrong with what
\* it stored; once it is finished and interviewed and a pass has analysed it
\* since, nothing wrong with the analysis; and nothing with a dataset
\* exported since, but that an export cut short is never taken for one.
VerifierAccepts ==
  Quiet =>
    /\ within_budget /\ pinned_memory_survives /\ dreamer_lineage_resolves
    /\ nothing_forgotten_returned /\ interviews_are_read_only
    /\ metric_evidence_resolves /\ seeds_are_present /\ no_future_stimuli_through_the_api
    /\ no_duplicate_snapshot /\ compression_records_are_distinct
    /\ LET lost == build_graveyard(history)
       IN graveyard_distinguishes_compression(lost) /\ graveyard_covers_every_eviction(lost)
    /\ settled \cap Analysis # {} =>
         checkpoint_interviews_exist /\ analysis_is_complete /\ checkpoint_analysis_exists
    /\ export_checksums_pass /\ dataset.by \in settled =>
         export_record_counts_match_the_run /\ export_holds_no_unreleased_data

\* The graveyard, told from the snapshots alone, is exactly what the arm's
\* own state says left it: every retired memory once, with its kind, birth,
\* retirement and last citation; lost exactly when it was evicted and not
\* folded into a summary; and the lineage is that of the state.  It rests on
\* the policy never needing two summaries in a cycle, as a snapshot names one.
GraveyardIsWhatLeft ==
  LET s == committed
      folded(m) == {k \in Known(s) : m \in s.mem[k].parents}
  IN Quiet =>
     /\ build_graveyard(history) =
          {[memory |-> m, kind |-> s.mem[m].kind, birth |-> s.mem[m].birth,
            retirement |-> s.mem[m].retired, status |-> s.mem[m].status,
            cited |-> s.mem[m].cited,
            descendant |-> IF folded(m) = {} THEN Never ELSE Max(folded(m)),
            genuinely_inaccessible |-> s.mem[m].status = "evicted"] :
             m \in Known(s) \ Active(s)}
     /\ \A m \in Known(s) :
          lineage_of(history, m) = [parents |-> s.mem[m].parents,
                                    children |-> {k \in Known(s) : <<m, k>> \in s.edges}]

\* Analysing again, in whatever overlap, changes no number it has given:
\* neither what has been forgotten since nor what is written later moves an
\* echo, a recall or a drift.  Only a contradiction rate for which the
\* evaluator was asked may, and the totals of the run, which are of the
\* state as it is.
NumbersAreSettled ==
  [][metrics' # metrics =>
       \A k \in DOMAIN metrics :
         \/ k \in DOMAIN metrics' /\ metrics'[k] = metrics[k]
         \/ k[2] = "secondary"
         \/ k[2] = "contradiction_rate" /\ Consulted(interviews[k[1]].answers)]_runVars

\* A dataset is closed: every memory an interview, a metric or the graveyard
\* names is in its arm states, and every retirement in its graveyard is one
\* its snapshots record, though the run went on while it was collected.
DatasetResolves ==
  LET d == dataset
      recorded == UNION {{<<d.snapshots[i].cycle, m>> : m \in DOMAIN d.snapshots[i].retired} :
                           i \in DOMAIN d.snapshots}
  IN d.at = "whole" =>
       /\ \A c \in DOMAIN d.interviews : d.interviews[c].reported \subseteq d.known
       /\ \A k \in DOMAIN d.metrics : d.metrics[k].cited \subseteq d.known
       /\ \A e \in d.graveyard : /\ <<e.retirement, e.memory>> \in recorded
                                 /\ e.descendant \in d.known \cup {Never}

\* Neither a reader of the API nor one of a dataset is ever sent to a record
\* that is not there (ApiResolves, DatasetResolves).
ReferencesResolve == ApiResolves /\ DatasetResolves
=============================================================================
