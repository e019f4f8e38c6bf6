-------------------------------- MODULE Scores --------------------------------
(***************************************************************************)
(* How the analysis scores an interview: the recall of canonical facts,    *)
(* the contradiction of them, and the metrics that need no model.          *)
(*                                                                         *)
(* An answer is what the rules can tell of its words: the facts it states  *)
(* whole, those of which it has some term, whether it admits a gap, denies *)
(* or is blank.  Two answers are the same words when they agree in that.   *)
(***************************************************************************)
EXTENDS Graveyard

CONSTANTS
  Questions,     \* the questions in order: [facts, factual_recall]
  Ambiguous,     \* facts marked for the evaluator
  Importance     \* the weight of a fact, in halves

Answer(whole, some, manner) ==
  [whole |-> whole, some |-> some,
   unsure |-> manner = "unsure", denies |-> manner = "denying", blank |-> manner = "blank"]

Mentioned(facts, a) == facts \cap (a.whole \cup a.some)

(* A question's score in halves.  The evaluator is named for an ambiguous  *)
(* fact, and never asked.                                                  *)
QuestionScore(q, a) ==
  CASE q.facts # {} /\ q.facts \subseteq a.whole -> [method |-> "exact", score |-> 2]
    [] Mentioned(q.facts, a) # {}                -> [method |-> "partial", score |-> 1]
    [] q.facts \cap Ambiguous # {}               -> [method |-> "evaluator", score |-> 0]
    [] OTHER                                     -> [method |-> "absent", score |-> 0]

Factual == {i \in DOMAIN Questions : Questions[i].factual_recall}
Weight(i) == Max({Importance[f] : f \in Questions[i].facts} \cup
                 (IF Questions[i].facts = {} THEN {2} ELSE {}))

(* Unweighted and weighted means, as sums over what they are divided by.   *)
recall_averages(answers) ==
  LET score(i) == QuestionScore(Questions[i], answers[i]).score
  IN [sum |-> MapThenSumSet(score, Factual), count |-> Cardinality(Factual),
      weighted |-> MapThenSumSet(LAMBDA i : score(i) * Weight(i), Factual),
      weight |-> MapThenSumSet(Weight, Factual)]

-----------------------------------------------------------------------------

Verdict == [supported |-> "consistent", partially_supported |-> "unsupported_inference",
            contradicted |-> "canonical_contradiction", unsupported |-> "unsupported_inference"]

\* Only an answer the rules cannot explain is put to the evaluator.
Unexplained(q, a) == ~ a.blank /\ ~ a.unsure /\ Mentioned(q.facts, a) = {}

classify_answer(q, a, verdict) ==
  CASE a.blank               -> "not_applicable"
    [] a.unsure /\ ~ a.blank -> "explicit_uncertainty"
    [] Unexplained(q, a)     -> Verdict[verdict]
    [] OTHER                 -> IF a.denies THEN "canonical_contradiction" ELSE "consistent"

(* A consistent answer about a fact whose first answer, of whatever label, *)
(* was in other words counts as contradicting the arm itself.              *)
Label(answers, i, verdict) ==
  LET before(f) == {j \in 1 .. i - 1 : f \in Questions[j].facts}
      disagrees == \E f \in Questions[i].facts :
                     before(f) # {} /\ answers[Min(before(f))] # answers[i]
      label == classify_answer(Questions[i], answers[i], verdict)
  IN IF label = "consistent" /\ disagrees THEN "self_contradiction" ELSE label

(* The contradiction rate: contradictory of applicable answers.            *)
analyse_contradictions(answers, verdict) ==
  LET labelled(L) == {i \in DOMAIN Questions : Label(answers, i, verdict) \in L}
  IN [contradictory |-> Cardinality(labelled({"canonical_contradiction", "self_contradiction"})),
      considered |-> Len(Questions) - Cardinality(labelled({"not_applicable"}))]

Consulted(answers) == \E i \in DOMAIN Questions : Unexplained(Questions[i], answers[i])

-----------------------------------------------------------------------------

(* Metrics of one arm that need no model: its state as read and the        *)
(* snapshots as listed, which may be a cycle apart.                        *)
secondary_metrics(s, h, budget) ==
  LET retired == Known(s) \ Active(s)
      recorded == {i \in DOMAIN h : DOMAIN h[i].retired # {}}
      dated == retired \cap UNION {DOMAIN h[i].retired : i \in recorded}
      left(m) == CHOOSE i \in recorded : m \in DOMAIN h[i].retired
      citations == {c \in (DOMAIN h) \X Known(s) : c[2] \in h[c[1]].cited}
  IN [active_tokens |-> ActiveTokens(s), free_tokens |-> Max({0, budget - ActiveTokens(s)}),
      active |-> Cardinality(Active(s)), retired |-> Cardinality(retired),
      compressed |-> Cardinality({m \in retired : s.mem[m].status = "compressed"}),
      seeds |-> Cardinality({m \in Active(s) : s.mem[m].kind = "seed"}),
      oldest |-> Min({s.mem[m].birth : m \in Active(s)} \cup
                     (IF Active(s) = {} THEN {Never} ELSE {})),
      lifespans |-> MapThenSumSet(LAMBDA m : h[left(m)].cycle - s.mem[m].birth, dated),
      lived |-> Cardinality(dated),
      citations |-> Cardinality(citations),
      self_references |-> Cardinality({c \in citations : s.mem[c[2]].kind # "seed"})]
=============================================================================
