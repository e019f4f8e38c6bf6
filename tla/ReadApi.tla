-------------------------------- MODULE ReadApi --------------------------------
(***************************************************************************)
(* What a reader is told of a run: the read API over RunAnalysis's store.  *)
(* A route reads the run's head, and then what it answers with; both are   *)
(* of one moment here, as the head only ever admits less than there is.    *)
(* Pages, and the labels on every answer, are left out.                    *)
(***************************************************************************)
EXTENDS RunAnalysis

NotFound == None

\* The head's current_cycle: the last the store committed.
current_cycle == Len(history)

(* A cycle prepared and not committed does not exist for a reader.         *)
Completed(c) == c \in 1 .. current_cycle

list_cycles == list_completed_cycles

CycleView(x) ==
  [cycle |-> x.cycle, candidate |-> x.candidate, tokens |-> x.tokens,
   retired |-> DOMAIN x.retired,
   compressed |-> {m \in DOMAIN x.retired : x.retired[m] = "compressed"},
   created_summary |-> x.summary.id, sources |-> x.summary.parents]

get_cycle(c) == IF Completed(c) /\ c \in list_cycles THEN CycleView(history[c]) ELSE NotFound

ArmSummary ==
  [active |-> Active(committed), tokens |-> ActiveTokens(committed),
   retired |-> Cardinality(Known(committed)) - Cardinality(Active(committed))]

get_graveyard == build_graveyard(history)

Entry(lost, m) ==
  IF \E e \in lost : e.memory = m THEN CHOOSE e \in lost : e.memory = m ELSE NotFound

get_graveyard_entry(m) == Entry(get_graveyard, m)

get_lineage(m) ==
  LET lineage == lineage_of(history, m)
  IN IF lineage.parents \cup lineage.children = {} THEN NotFound ELSE lineage

(* Cycle 0 has interviews and no record.                                   *)
get_interviews(c) ==
  IF c <= current_cycle /\ c \in DOMAIN interviews THEN interviews[c] ELSE NotFound

get_divergence == IF artefacts = None THEN {} ELSE artefacts.divergence

(* The memories any answer names.                                          *)
Told(lost) ==
  LET cycles == {get_cycle(c) : c \in list_cycles}
      named(v) == {v.candidate, v.created_summary} \cup v.retired \cup v.sources
      any == (UNION {named(v) : v \in cycles}) \cup {e.descendant : e \in lost}
               \cup (UNION {metrics[k].cited : k \in DOMAIN metrics})
               \cup (UNION {interviews[c].reported : c \in DOMAIN interviews})
  IN any \ {Never}

-----------------------------------------------------------------------------
(* Properties.  Those of the store are asked between passes: a pass may    *)
(* die at any step and leave the store as it was, so none escapes.         *)

Quiet == phase = "idle" /\ \A p \in Pass : ~ Started(p)

\* What the API marks immutable stays as it was first told, whatever the run
\* goes on to forget, compress and cite (get_cycle, get_graveyard_entry).
AnswersStay ==
  [][Quiet' /\ cycle' # cycle =>
       LET was == get_graveyard
           is == get_graveyard'
       IN /\ \A c \in list_cycles : get_cycle(c)' = get_cycle(c)
          /\ \A m \in Known(committed) : Entry(was, m) \in {NotFound, Entry(is, m)}]_runVars

\* A reader can follow every reference: a memory any answer names is active
\* in its arm or has a graveyard entry, and never both; the lineage the
\* graveyard claims is one the lineage route gives; a divergence is shown of
\* interviews that can be read.
ApiResolves ==
  Quiet =>
    LET lost == get_graveyard
        gone == {e.memory : e \in lost}
    IN /\ \A m \in Told(lost) : (m \in ArmSummary.active) <=> (m \notin gone)
       /\ \A e \in lost :
            e.descendant # Never => e.descendant \in get_lineage(e.memory).children
       /\ Cardinality(lost) = ArmSummary.retired
       /\ \A c \in get_divergence : get_interviews(c) # NotFound
=============================================================================
