------------------------------ MODULE Policies ------------------------------
(***************************************************************************)
(* The eviction policies: what an arm forgets when it is over budget.      *)
(* Every policy is a pure function of the arm's memory, the budget and the *)
(* cycle.  An ordering is a key per memory, compared lexicographically,    *)
(* most expendable first; greedy selection takes the shortest prefix that  *)
(* reaches the budget.                                                     *)
(***************************************************************************)
EXTENDS MemoryState, Sequences

CONSTANTS
  PinnedId,         \* the memory the pinned-origin arm may never forget
  RecencyReserve,   \* how many of the newest memories heavy-hitter holds back
  SummaryLimit,     \* summary_target_token_limit
  SafetyMargin,     \* safety_margin_tokens
  MinSources        \* min_sources of a compression

ASSUME PolicyAssumption ==
  /\ PinnedId \in Nat /\ RecencyReserve \in Nat /\ SafetyMargin \in Nat
  /\ SummaryLimit \in Nat \ {0}
  /\ MinSources \in Nat /\ MinSources >= 2

ArmIds == {"FIFO", "SINK", "LRU", "HEAVY", "RANDOM", "SUMMARY", "FULL", "STATELESS"}

\* Mutant: the memory born in the current cycle is eligible too.
EligibleWithNewborn(s, cycle, protect) ==
  {m \in Active(s) : ~ s.mem[m].pinned /\ m \notin protect}

\* Mutant: memories retired in earlier cycles are ranked again.
EligibleRetiredToo(s, cycle, protect) ==
  {m \in Known(s) : /\ s.mem[m].birth # cycle
                    /\ ~ s.mem[m].pinned
                    /\ m \notin protect}

Eligible(s, cycle, protect) ==
  {m \in Active(s) : /\ s.mem[m].birth # cycle
                     /\ ~ s.mem[m].pinned
                     /\ m \notin protect}

-----------------------------------------------------------------------------
(* Orderings.  Key(arm, s, reserved, x, y) is the rank key of x when it is *)
(* compared with y: a retention density is a score per token, so the two   *)
(* are compared after multiplying each by the other's cost.                *)

LexLess(f, g) ==
  \E i \in DOMAIN f : f[i] < g[i] /\ \A j \in 1 .. i - 1 : f[j] = g[j]

\* Mutant: the most expensive memory goes first.
FifoKeyByCost(s, x) == <<- s.mem[x].tokens, x>>

FifoKey(s, x) == <<s.mem[x].birth, x>>

\* Mutant: recency of citation only breaks ties between equally old memories.
LruKeyByAge(s, x) == <<s.mem[x].birth, s.mem[x].cited, x>>

LruKey(s, x) ==
  <<IF s.mem[x].cited = Never THEN 0 ELSE 1, s.mem[x].cited, s.mem[x].birth, x>>

\* Mutant: the reserve does not lead the key.
HeavyKeyReserveLast(s, reserved, x, y) ==
  <<s.mem[x].score * s.mem[y].tokens, s.mem[x].score, s.mem[x].cited,
    s.mem[x].birth, IF x \in reserved THEN 1 ELSE 0, x>>

HeavyKey(s, reserved, x, y) ==
  <<IF x \in reserved THEN 1 ELSE 0, s.mem[x].score * s.mem[y].tokens,
    s.mem[x].score, s.mem[x].cited, s.mem[x].birth, x>>

\* The newest active memories, the one just admitted among them.
ReservedIds(s) ==
  {m \in Active(s) : Cardinality({n \in Active(s) : n > m}) < RecencyReserve}

(* x is more expendable than y. *)
Precedes(arm, s, x, y) ==
  CASE arm = "LRU"   -> LexLess(LruKey(s, x), LruKey(s, y))
    [] arm = "HEAVY" -> LexLess(HeavyKey(s, ReservedIds(s), x, y),
                                HeavyKey(s, ReservedIds(s), y, x))
    [] OTHER         -> LexLess(FifoKey(s, x), FifoKey(s, y))

\* The n most expendable memories of E.
Prefix(arm, s, E, n) ==
  {x \in E : Cardinality({y \in E : Precedes(arm, s, y, x)}) < n}

\* Mutant: selection goes on until the arm is strictly below the budget.
GreedyToBelow(arm, s, E, tokens, budget) ==
  LET enough == {n \in 0 .. Cardinality(E) :
                   tokens - Cost(s, Prefix(arm, s, E, n)) < budget}
  IN Prefix(arm, s, E, Min(enough \cup {Cardinality(E)}))

\* Mutant: one eviction a cycle, whether it reaches the budget or not.
GreedyOnce(arm, s, E, tokens, budget) ==
  IF tokens <= budget THEN {} ELSE Prefix(arm, s, E, 1)

GreedyVictims(arm, s, E, tokens, budget) ==
  LET enough == {n \in 0 .. Cardinality(E) :
                   tokens - Cost(s, Prefix(arm, s, E, n)) <= budget}
  IN Prefix(arm, s, E, Min(enough \cup {Cardinality(E)}))

-----------------------------------------------------------------------------
(* Assembling a decision. *)

NoFold == [sources |-> {}, created |-> {}]

BuildDecision(s, cycle, code, victims, fold, tokens, plan) ==
  LET ids == {c.id : c \in fold.created}
  IN [code |-> code, cycle |-> cycle,
      compressed |-> fold.sources, evicted |-> victims, created |-> fold.created,
      kept |-> (Active(s) \ (fold.sources \cup victims)) \cup ids,
      edges |-> fold.sources \X ids,
      tokens |-> tokens, plan |-> plan]

\* A decision that only evicts.
Evict(s, cycle, code, victims) ==
  BuildDecision(s, cycle, IF victims = {} THEN "NO_ACTION" ELSE code, victims,
                NoFold, ActiveTokens(s) - Cost(s, victims), NoPlan)

\* Mutant: the pinned-origin arm protects nothing.
ProtectNothing(arm) == {}

Protected(arm) == IF arm = "SINK" THEN {PinnedId} ELSE {}

OrderedDecision(arm, s, budget, cycle, code) ==
  Evict(s, cycle, code,
        GreedyVictims(arm, s, Eligible(s, cycle, Protected(arm)), ActiveTokens(s), budget))

HeavyDecision(s, budget, cycle) ==
  LET d == OrderedDecision("HEAVY", s, budget, cycle, "EVICTED_LOWEST_RETENTION_DENSITY")
  IN IF d.evicted \cap ReservedIds(s) = {} THEN d
     ELSE [d EXCEPT !.code = "HEAVY_HITTER_RESERVE_BROKEN"]

(* One draw at a time until the budget is reached: whatever the digests,   *)
(* the last draw was still needed.                                         *)
RandomDecisions(s, budget, cycle) ==
  LET E == Eligible(s, cycle, {})
      over(V) == ActiveTokens(s) - Cost(s, V) > budget
      drawn(V) == /\ V = E \/ ~ over(V)
                  /\ V = {} \/ \E last \in V : over(V \ {last})
  IN {Evict(s, cycle, "EVICTED_RANDOM", V) : V \in {V \in SUBSET E : drawn(V)}}

-----------------------------------------------------------------------------
(* The summarising arm. *)

(* The shortest oldest-first compression that reaches the budget, counting *)
(* the summary at its ceiling and leaving the margin.                      *)
PlanCompression(s, E, tokens, budget, id) ==
  LET sizes == {n \in MinSources .. Cardinality(E) :
                  tokens - Cost(s, Prefix("SUMMARY", s, E, n)) + SummaryLimit
                    <= budget - SafetyMargin}
      sources == Prefix("SUMMARY", s, E, Min(sizes))
  IN IF sizes = {} THEN NoPlan
     ELSE [sources |-> sources, id |-> id, limit |-> SummaryLimit,
           freed |-> Cost(s, sources)]

(* With the fallback disabled nothing is evicted, and the decision, over   *)
(* budget, is refused.                                                     *)
FallbackVictims(s, E, tokens, budget, fallback) ==
  IF fallback THEN GreedyVictims("SUMMARY", s, E, tokens, budget) ELSE {}

SummaryDecision(s, budget, cycle, fallback) ==
  LET E == Eligible(s, cycle, {})
      tokens == ActiveTokens(s)
      plan == PlanCompression(s, E, tokens, budget, s.next)
  IN IF tokens <= budget THEN Evict(s, cycle, "NO_ACTION", {})
     ELSE IF plan # NoPlan
     THEN BuildDecision(s, cycle, "COMPRESSION_PLANNED", {}, NoFold, tokens, plan)
     ELSE Evict(s, cycle, "SUMMARY_FALLBACK_FIFO",
                FallbackVictims(s, E, tokens, budget, fallback))

SummaryAccepted(s, plan, id, summary) ==
  /\ summary.kind = "summary"
  /\ summary.parents = plan.sources
  /\ id = plan.id
  /\ summary.tokens <= plan.limit
  /\ plan.sources \subseteq Active(s)

\* Mutant: the summary is not charged against the budget.
FinalizeUncharged(s, budget, cycle, plan, id, summary, fallback) ==
  BuildDecision(s, cycle, "COMPRESSION_COMMITTED", {},
                [sources |-> plan.sources, created |-> {[id |-> id, memory |-> summary]}],
                ActiveTokens(s) - plan.freed, NoPlan)

(* Commit the summary and decide what the arm still needs. *)
FinalizeCompression(s, budget, cycle, plan, id, summary, fallback) ==
  LET fold == [sources |-> plan.sources, created |-> {[id |-> id, memory |-> summary]}]
      tokens == ActiveTokens(s) - plan.freed + summary.tokens
      surviving == Eligible(s, cycle, {}) \ plan.sources
      nextPlan == PlanCompression(s, surviving, tokens, budget, s.next + 1)
      victims == FallbackVictims(s, surviving, tokens, budget, fallback)
  IN IF tokens <= budget
     THEN BuildDecision(s, cycle, "COMPRESSION_COMMITTED", {}, fold, tokens, NoPlan)
     ELSE IF nextPlan # NoPlan
     THEN BuildDecision(s, cycle, "COMPRESSION_PLANNED", {}, fold, tokens, nextPlan)
     ELSE BuildDecision(s, cycle, "SUMMARY_FALLBACK_FIFO", victims, fold,
                        tokens - Cost(s, victims), NoPlan)

-----------------------------------------------------------------------------
(* What an arm may decide: one decision, except for the random arm. *)
Rebalance(arm, s, budget, cycle, fallback) ==
  CASE arm = "FIFO"  -> {OrderedDecision(arm, s, budget, cycle, "EVICTED_OLDEST")}
    [] arm = "SINK"  -> {OrderedDecision(arm, s, budget, cycle, "EVICTED_OUTSIDE_WINDOW")}
    [] arm = "LRU"   -> {OrderedDecision(arm, s, budget, cycle, "EVICTED_LEAST_RECENTLY_CITED")}
    [] arm = "HEAVY" -> {HeavyDecision(s, budget, cycle)}
    [] arm = "RANDOM" -> RandomDecisions(s, budget, cycle)
    [] arm = "SUMMARY" -> {SummaryDecision(s, budget, cycle, fallback)}
    [] arm = "FULL"  -> {BuildDecision(s, cycle, "RETAINED_ALL", {}, NoFold,
                                       ActiveTokens(s), NoPlan)}
    [] OTHER         -> {Evict(s, cycle, "EVICTED_STATELESS", Eligible(s, cycle, {}))}
=============================================================================
