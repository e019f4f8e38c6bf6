----------------------------- MODULE ArmMemory -----------------------------
(***************************************************************************)
(* One arm of the pilot engine over many cycles: the writer's citations    *)
(* and its new memory are folded in, the policy decides what is forgotten, *)
(* and the summarising arm asks a model for a summary and decides again.   *)
(* All of it works on a copy; the arm moves only when a final decision has *)
(* been applied, and a cycle that fails leaves it where it was.            *)
(*                                                                         *)
(* A plan may be carried into a fork whose budget is tighter than the one  *)
(* it was made under (finalize_compression's documentation); the pilot's   *)
(* own runs have one budget, TighterBudgets = {}.                          *)
(***************************************************************************)
EXTENDS Policies

CONSTANTS
  Arms,              \* the arms checked, one behaviour each
  SeedTokens,        \* what each seed memory costs, in order
  FlaggedSeeds,      \* seeds that carry the pinned flag
  Budget,            \* memory_budget_tokens
  TighterBudgets,    \* budgets a plan may be carried into
  FallbackModes,     \* whether the FIFO fallback is enabled
  CandidateTokens,   \* what a new memory may cost
  MaxCycle,          \* maximum_cycles
  MaxClaims          \* bound on the memories one journal entry cites

VARIABLES
  arm,         \* which arm this is
  fallback,    \* its summarisation fallback rule
  budget,      \* the budget in force
  cycle,       \* the last cycle it completed
  phase,       \* "idle", "rebalance" or "dream"
  committed,   \* the memory the engine holds
  working,     \* the memory the current cycle works on
  plan,        \* the compression a summary is awaited for
  codes,       \* the codes of this cycle's decisions
  failure      \* why the last attempt at a cycle failed, if it did

vars == <<arm, fallback, budget, cycle, phase, committed, working, plan, codes, failure>>

SeedIds == 0 .. Len(SeedTokens) - 1

ASSUME ArmAssumption ==
  /\ Arms \subseteq ArmIds
  /\ SeedTokens \in Seq(Nat \ {0})
  /\ FlaggedSeeds \subseteq SeedIds
  /\ PinnedId \in SeedIds
  /\ Budget \in Nat \ {0}
  /\ TighterBudgets \subseteq 1 .. Budget
  /\ FallbackModes \subseteq BOOLEAN
  /\ CandidateTokens \subseteq Nat \ {0}
  /\ MaxCycle \in Nat /\ MaxClaims \in Nat

-----------------------------------------------------------------------------

Seeded ==
  MemoryState([m \in SeedIds |-> Minted("seed", SeedTokens[m + 1], 0, {}, m \in FlaggedSeeds)],
              Len(SeedTokens), {})

IsMemoryState(s) ==
  /\ s.next \in Nat
  /\ s.mem \in [Known(s) -> Memory]
  /\ Known(s) \subseteq 0 .. s.next - 1
  /\ \A m \in Known(s) : /\ s.mem[m].parents \subseteq Known(s) \ {m}
                         /\ Consistent(s.mem[m])
  /\ s.edges \subseteq Known(s) \X Known(s)

TypeOK ==
  /\ arm \in Arms /\ fallback \in FallbackModes
  /\ budget \in {Budget} \cup TighterBudgets
  /\ cycle \in 0 .. MaxCycle
  /\ phase \in {"idle", "rebalance", "dream"}
  /\ IsMemoryState(committed) /\ IsMemoryState(working)
  /\ (phase = "dream") = (plan # NoPlan)
  /\ failure \in {"none", "unsatisfiable", "internal", "dreamer"}

\* initialize_pilot_run: a seed set that does not fit the budget is refused.
Init ==
  /\ arm \in Arms /\ fallback \in FallbackModes
  /\ budget = Budget
  /\ cycle = 0
  /\ phase = "idle"
  /\ committed = Seeded /\ ActiveTokens(Seeded) <= Budget
  /\ working = Seeded
  /\ plan = NoPlan
  /\ codes = <<>>
  /\ failure = "none"

-----------------------------------------------------------------------------
(* How an attempt at a cycle goes on. *)

Fail(reason) ==
  /\ failure' = reason
  /\ phase' = "idle"
  /\ working' = committed
  /\ plan' = NoPlan
  /\ UNCHANGED <<committed, cycle>>

Commit(s) ==
  /\ committed' = s
  /\ working' = s
  /\ cycle' = cycle + 1
  /\ phase' = "idle"
  /\ plan' = NoPlan
  /\ UNCHANGED failure

\* Mutant: the next round is asked for before this one is committed.
AskBeforeCommitting(s, d) ==
  /\ working' = working
  /\ plan' = d.plan
  /\ phase' = "dream"
  /\ UNCHANGED <<committed, cycle, failure>>

(* What the decision already did is committed to the working state before  *)
(* the summary it asks for is written.                                     *)
Ask(s, d) ==
  /\ working' = s
  /\ plan' = d.plan
  /\ phase' = "dream"
  /\ UNCHANGED <<committed, cycle, failure>>

(* A decision over budget is never made; any other is recorded and applied. *)
Conclude(d) ==
  /\ codes' = IF WithinBudget(d, budget) THEN Append(codes, d.code) ELSE codes
  /\ IF ~ WithinBudget(d, budget) THEN Fail("unsatisfiable")
     ELSE IF ~ Applicable(working, d) THEN Fail("internal")
     ELSE IF d.plan = NoPlan THEN Commit(Applied(working, d))
     ELSE Ask(Applied(working, d), d)

\* validate_claims: a claim on a memory that is not active does not count.
Counted(s, claims) == claims \cap Active(s)

(* finalize_arm_result up to the rebalance: citations, then the candidate. *)
Experience(claims, tokens) ==
  /\ phase = "idle"
  /\ cycle < MaxCycle
  /\ LET scored == RecordCycleCitations(committed, Counted(committed, claims), cycle + 1)
         candidate == Minted("generated", tokens, cycle + 1, {}, FALSE)
     IN working' = Admit(scored, scored.next, candidate)
  /\ phase' = "rebalance"
  /\ codes' = <<>>
  /\ failure' = "none"
  /\ UNCHANGED <<arm, fallback, budget, cycle, committed, plan>>

(* The policy's first decision. *)
Decide ==
  /\ phase = "rebalance"
  /\ \E d \in Rebalance(arm, working, budget, cycle + 1, fallback) : Conclude(d)
  /\ UNCHANGED <<arm, fallback, budget>>

(* The model wrote a summary within its ceiling, and the policy decides    *)
(* what the arm still needs.                                               *)
WriteSummary(tokens) ==
  /\ phase = "dream"
  /\ LET summary == Minted("summary", tokens, cycle + 1, plan.sources, FALSE)
     IN IF SummaryAccepted(working, plan, working.next, summary)
        THEN Conclude(FinalizeCompression(working, budget, cycle + 1, plan,
                                          working.next, summary, fallback))
        ELSE Fail("internal") /\ UNCHANGED codes
  /\ UNCHANGED <<arm, fallback, budget>>

(* The summary stayed over its ceiling, or the cycle has no call left. *)
DreamerFails ==
  /\ phase = "dream"
  /\ Fail("dreamer")
  /\ UNCHANGED <<arm, fallback, budget, codes>>

(* The plan is carried into a fork with a tighter budget. *)
Tighten ==
  /\ phase = "dream"
  /\ budget' \in {b \in TighterBudgets : b < budget}
  /\ UNCHANGED <<arm, fallback, cycle, phase, committed, working, plan, codes, failure>>

Next ==
  \/ \E claims \in SUBSET Known(committed), tokens \in CandidateTokens :
       Cardinality(claims) <= MaxClaims /\ Experience(claims, tokens)
  \/ Decide
  \/ \E tokens \in 1 .. SummaryLimit : WriteSummary(tokens)
  \/ DreamerFails
  \/ Tighten

Spec == Init /\ [][Next]_vars
-----------------------------------------------------------------------------
(* Properties. *)

Committing == committed' # committed
EvictedNow == {m \in Active(working) : committed'.mem[m].status = "evicted"}
Survivors  == Active(working) \cap Active(committed')

\* A cycle that completes leaves the arm within the budget in force, as the
\* memories themselves add up to, not as the decision projected it.
EndsWithinBudget ==
  [][Committing => ActiveTokens(committed') <= budget]_vars

\* No sequence of legal cycles, plans and summaries makes a decision that
\* PolicyDecision, MemoryState.apply or the summary's validation refuses:
\* those checks are a net that nothing falls into.
NoInternalRefusal == failure # "internal"

\* A policy gives a cycle up as unsatisfiable only when what it must not
\* touch is over the budget by itself: never with anything left to evict.
\* The full-memory arm and a disabled fallback refuse sooner, by design.
GivesUpOnlyWhenForced ==
  [][(/\ failure' = "unsatisfiable" /\ phase = "rebalance"
       /\ arm # "FULL" /\ fallback )
     => LET cycleNow == cycle + 1
            untouchable == Active(working) \ Eligible(working, cycleNow, Protected(arm))
        IN Cost(working, untouchable) > budget]_vars

\* An eviction that was not needed is never made: some memory evicted this
\* cycle could not have been kept.  (The stateless arm drops all it can.)
NoNeedlessEviction ==
  [][(Committing /\ arm # "STATELESS" /\ EvictedNow # {})
     => \E m \in EvictedNow : ActiveTokens(committed') + committed'.mem[m].tokens > budget]_vars

\* What an oldest-first arm holds is always its newest memories without a
\* gap, besides the pinned origin and what carries the pinned flag: after any
\* number of cycles, not only one.
WindowIsContiguous ==
  arm \in {"FIFO", "SINK"} =>
    \A old \in Active(committed), new \in Known(committed) :
      (old < new /\ old \notin Protected(arm) /\ ~ committed.mem[old].pinned)
        => new \in Active(committed)

\* The origin the pinned-origin arm is configured with, and any memory that
\* carries the flag, stay for ever.
OriginStays ==
  /\ arm = "SINK" => PinnedId \in Active(committed)
  /\ FlaggedSeeds \subseteq Active(committed)

\* The recency arm gives up a memory cited this very cycle only when nothing
\* it may evict is uncited: citations are counted before memories are judged.
CitedNowOutlivesUncited ==
  [][(Committing /\ arm = "LRU")
     => \A m \in EvictedNow, k \in Survivors :
          (committed'.mem[m].cited = cycle') =>
             \/ committed'.mem[k].cited = cycle'
             \/ k \notin Eligible(working, cycle', {})]_vars

\* The heavy-hitter arm breaks its recency reserve only when everything
\* outside the reserve is gone, and the decision's code says so.
ReserveBreaksLast ==
  [][(Committing /\ arm = "HEAVY")
     => LET broken == EvictedNow \cap ReservedIds(working) # {}
        IN /\ broken => Eligible(working, cycle', {}) \cap Survivors \subseteq ReservedIds(working)
           /\ broken <=> codes' = <<"HEAVY_HITTER_RESERVE_BROKEN">>]_vars

\* What is recorded of a retired memory never changes again: no decay, no
\* late citation, no second retirement.
RetiredIsFrozen ==
  [][\A m \in Known(committed) \ Active(committed) :
       committed'.mem[m] = committed.mem[m]]_vars

\* Every compressed memory can be followed to exactly one summary, born in
\* the cycle that retired it; the lineage edges and the parents recorded on
\* the summaries say the same; no summary descends from a later memory; and
\* each costs less than the memories it replaced, so that compressing
\* summaries of summaries never grows the arm.
LineageIsSound ==
  LET s == committed
      standsFor(m) == {k \in Known(s) : m \in s.mem[k].parents}
  IN /\ \A k \in Known(s) :
          s.mem[k].kind = "summary" => s.mem[k].tokens < Cost(s, s.mem[k].parents)
     /\ s.edges = UNION {s.mem[k].parents \X {k} : k \in Known(s)}
     /\ \A m \in Known(s) :
          IF s.mem[m].status = "compressed"
          THEN \E k \in Known(s) : /\ standsFor(m) = {k} /\ m < k
                                   /\ s.mem[k].birth = s.mem[m].retired
          ELSE standsFor(m) = {}

\* The life cycle every arm promises: MemoryLife.
FoldedInto ==
  [m \in {m \in Known(committed) : committed.mem[m].status = "compressed"} |->
     CHOOSE k \in Known(committed) : <<m, k>> \in committed.edges]

Life == INSTANCE MemoryLife WITH
          SeedCount <- Len(SeedTokens),
          next <- committed.next,
          live <- Active(committed),
          lost <- {m \in Known(committed) : committed.mem[m].status = "evicted"},
          folded <- FoldedInto

ImplementsMemoryLife == Life!Spec
=============================================================================
