-------------------------- MODULE RunVerifierProofs --------------------------
(***************************************************************************)
(* Proofs about a run that is advanced, interviewed, analysed and exported *)
(* at once, for every policy, budget, number of cycles and of passes: what *)
(* verify_run asks of a stored run holds, the graveyard is what left the   *)
(* arm, no reference dangles and no number changes.                        *)
(***************************************************************************)
EXTENDS RunVerifier, ArmMemoryProofs, SequenceTheorems

(* The arm of the run is ArmMemory's.                                      *)

\* What cycle c has made of s so far, as a snapshot tells it: t keeps what its
\* memories are, dates what leaves and what is cited, and one memory is new.
Chapter(s, t, c) ==
  /\ \A x \in Known(s) :
       /\ t.mem[x].kind = s.mem[x].kind
       /\ t.mem[x].cited \in {s.mem[x].cited, c}
       /\ x \in Active(s) \ Active(t) => t.mem[x].retired = c
  /\ \A x \in Known(t) : s.next <= x => t.mem[x].cited = Never
  /\ t.mem[s.next].kind = "generated"

LEMMA ExperienceChapter ==
  ASSUME NEW s, Good(s), NEW k, NEW counted,
         NEW m, m.cited = Never, m.kind = "generated",
         NEW r, r = RecordCycleCitations(s, counted, k),
         NEW t, t = Admit(r, r.next, m)
  PROVE  Chapter(s, t, k) /\ t.next = s.next + 1
<1>1. s.next \in Nat /\ Known(s) = 0 .. s.next - 1
  BY DEF Good, Dense, IsMemoryState
<1>2. /\ Known(r) = Known(s) /\ r.next = s.next
      /\ \A x \in Known(s) : r.mem[x] = IF x \in Active(s)
                                        THEN WithCitationCycle(s.mem[x], k, x \in counted)
                                        ELSE s.mem[x]
  BY DEF RecordCycleCitations, MemoryState, Known
<1>3. \A x \in Known(s) : Same(s.mem[x], r.mem[x])
  BY RecordAlike DEF Good, Alike
<1>4. ASSUME NEW x \in Known(s) PROVE r.mem[x].cited \in {s.mem[x].cited, k}
  <2>1. s.mem[x] \in Memory
    BY MemoryIsFinite DEF Good
  <2> QED
    BY <1>2, <2>1 DEF WithCitationCycle, Memory
<1>5. r.next \notin Known(r)
  BY <1>1, <1>2
<1>6. /\ Known(t) = Known(r) \cup {r.next} /\ t.next = r.next + 1 /\ t.mem[r.next] = m
      /\ \A x \in Known(r) : t.mem[x] = r.mem[x]
  BY <1>5, AdmitShape
<1>7. Active(s) \subseteq Active(t)
  BY <1>2, <1>3, <1>6 DEF Active, Same
<1> QED
  BY <1>1, <1>2, <1>3, <1>4, <1>6, <1>7 DEF Chapter, Same

LEMMA AppliedChapter ==
  ASSUME NEW s, Good(s), NEW t, Good(t), Continues(s, t), NEW c, Sequel(s, t, c),
         Chapter(s, t, c), NEW d, SoundDecision(t, d, c)
  PROVE  Chapter(s, Applied(t, d), c)
<1> DEFINE u == Applied(t, d)
           id == t.next
<1>1. /\ Shaped(t, d) /\ id \in Nat /\ Known(t) = 0 .. id - 1
      /\ d.created = {} => CreatedIds(d) = {}
      /\ d.created # {} => CreatedIds(d) = {id}
  BY SoundShape DEF Good, Dense
<1>2. /\ Known(u) = Known(t) \cup CreatedIds(d)
      /\ \A x \in Known(t) : u.mem[x] = After(t, d, x)
      /\ \A e \in d.created : u.mem[e.id] = e.memory
  BY <1>1, AppliedShape
<1>3. Active(u) = (Active(t) \ Retirements(d)) \cup CreatedIds(d)
  BY SoundActive DEF Good, SoundDecision
<1>4. s.next \in Nat /\ s.next < id /\ Known(s) = 0 .. s.next - 1 /\ s.next \in Known(t)
  <2>1. s.next \in Nat /\ s.next < id /\ Known(s) = 0 .. s.next - 1
    BY <1>1 DEF Good, Dense, IsMemoryState, Sequel
  <2> QED
    BY <1>1, <2>1
<1>5. Known(s) \subseteq Known(t) /\ d.cycle = c /\ Retirements(d) \subseteq Active(t)
  BY DEF Continues, SoundDecision, Eligible
<1> HIDE DEF u
<1>6. ASSUME NEW x \in Known(t)
      PROVE  /\ u.mem[x].kind = t.mem[x].kind /\ u.mem[x].cited = t.mem[x].cited
             /\ x \in Retirements(d) => u.mem[x].retired = c
             /\ x \notin Retirements(d) => u.mem[x] = t.mem[x]
  <2>1. t.mem[x] \in Memory
    BY MemoryIsFinite DEF Good
  <2>2. u.mem[x] = After(t, d, x)
    BY <1>2
  <2> QED
    BY <1>5, <2>1, <2>2 DEF After, Retire, Memory, Retirements
<1>7. ASSUME NEW x \in Known(s)
      PROVE  /\ u.mem[x].kind = s.mem[x].kind
             /\ u.mem[x].cited \in {s.mem[x].cited, c}
             /\ x \in Active(s) \ Active(u) => u.mem[x].retired = c
  <2>1. x \in Active(s) \ Active(u) => x \in Retirements(d) \/ x \in Active(s) \ Active(t)
    BY <1>3
  <2> QED
    BY <1>5, <1>6, <2>1 DEF Chapter
<1>8. ASSUME NEW x \in Known(u), s.next <= x PROVE u.mem[x].cited = Never
  <2>1. CASE x \in Known(t)
    BY <1>6, <1>8, <2>1 DEF Chapter
  <2>2. CASE x \notin Known(t)
    <3>1. d.created # {} /\ x = id
      BY <1>1, <1>2, <2>2
    <3>2. PICK m : d.created = {[id |-> id, memory |-> m]} /\ SummaryOf(t, d.compressed, c, m)
      BY <3>1 DEF SoundDecision
    <3> DEFINE e == [id |-> id, memory |-> m]
    <3>3. e \in d.created /\ e.id = id /\ e.memory = m
      BY <3>2
    <3> HIDE DEF e, id
    <3> QED
      BY <1>2, <3>1, <3>2, <3>3 DEF SummaryOf
  <2> QED
    BY <2>1, <2>2
<1>9. u.mem[s.next].kind = "generated"
  BY <1>4, <1>6 DEF Chapter
<1>10. Chapter(s, u, c)
  BY <1>7, <1>8, <1>9 DEF Chapter
<1> QED
  BY <1>10 DEF u

\* One summary is all a cycle ever needs under one budget.
OneSummary ==
  /\ budget = Budget
  /\ phase # "idle" =>
       Chapter(committed, working, cycle + 1) /\ working.next = committed.next + 1
  /\ phase = "dream" => ActiveTokens(working) - plan.freed + plan.limit <= budget

ArmInv == OrderInv /\ OriginInv /\ OneSummary

\* What a cycle that completes makes of s.
Completes(s, t, c) ==
  /\ Step(s, t, c) /\ Chapter(s, t, c) /\ t.next \in {s.next + 1, s.next + 2}
  /\ ActiveTokens(t) <= Budget

LEMMA PlanReaches ==
  ASSUME NEW s, IsMemoryState(s), NEW c, NEW E \in SUBSET Eligible(s, c, {}),
         NEW tokens \in Int, NEW b \in Int, NEW id,
         NEW p, p = PlanCompression(s, E, tokens, b, id), p # NoPlan
  PROVE  tokens - p.freed + p.limit <= b
<1> DEFINE chosen(n) == Prefix("SUMMARY", s, E, n)
           sizes == {n \in MinSources .. Cardinality(E) :
                       tokens - Cost(s, chosen(n)) + SummaryLimit <= b - SafetyMargin}
           sources == chosen(Min(sizes))
           n == Min(sizes)
<1>1. E \in SUBSET Known(s) /\ IsFiniteSet(E)
  <2>1. E \in SUBSET Known(s)
    BY DEF Eligible, Active
  <2> QED
    BY <2>1, MemoryIsFinite
<1>2. Cardinality(E) \in Nat
  BY <1>1, FS_CardinalityType
<1>3. sizes # {} /\ p = [sources |-> sources, id |-> id, limit |-> SummaryLimit,
                         freed |-> Cost(s, sources)]
  BY DEF PlanCompression
<1>4. sizes \in SUBSET (0 .. Cardinality(E))
  BY <1>2, PolicyAssumption
<1>5. n \in sizes
  <2> HIDE DEF sizes
  <2> QED
    BY <1>2, <1>3, <1>4, MinIsLeast
<1>6. tokens - Cost(s, sources) + SummaryLimit <= b - SafetyMargin
  <2> HIDE DEF n
  <2> QED
    BY <1>5 DEF n
<1>7. Cost(s, sources) \in Nat
  <2>1. sources \in SUBSET Known(s)
    BY <1>1 DEF Prefix
  <2> HIDE DEF sources
  <2> QED
    BY <2>1, CostFacts
<1> HIDE DEF sources, n
<1> QED
  BY <1>3, <1>6, <1>7, PolicyAssumption

\* A first decision creates nothing, and asks for one summary that will do.
LEMMA RebalanceAsks ==
  ASSUME NEW s, IsMemoryState(s), NEW a, NEW b \in Int, NEW c, NEW fb,
         NEW d \in Rebalance(a, s, b, c, fb), d.plan # NoPlan
  PROVE  /\ d.created = {} /\ d.tokens = ActiveTokens(s)
         /\ ActiveTokens(s) - d.plan.freed + d.plan.limit <= b
<1> DEFINE E == Eligible(s, c, {})
           tokens == ActiveTokens(s)
           p == PlanCompression(s, E, tokens, b, s.next)
<1>1. a = "SUMMARY"
  BY OnlySummaryPlans
<1>2. d = SummaryDecision(s, b, c, fb)
  BY <1>1 DEF Rebalance
<1>3. \A code, V : Evict(s, c, code, V).plan = NoPlan
  BY EvictFields
<1>4. ~ (tokens <= b) /\ p # NoPlan
  BY <1>2, <1>3 DEF SummaryDecision
<1>5. d = BuildDecision(s, c, "COMPRESSION_PLANNED", {}, NoFold, tokens, p)
  BY <1>2, <1>4 DEF SummaryDecision
<1>6. tokens \in Int /\ E \in SUBSET Eligible(s, c, {})
  BY ActiveTokensType
<1>7. tokens - p.freed + p.limit <= b
  <2> HIDE DEF E, tokens
  <2> QED
    BY <1>4, <1>6, PlanReaches
<1>8. d.created = {} /\ d.tokens = tokens /\ d.plan = p
  BY <1>5 DEF BuildDecision, NoFold
<1> QED
  BY <1>7, <1>8

LEMMA FinalizeAsksNothing ==
  ASSUME NEW s, NEW b, NEW c, NEW p, NEW m, NEW fb,
         ActiveTokens(s) - p.freed + m.tokens <= b
  PROVE  FinalizeCompression(s, b, c, p, s.next, m, fb).plan = NoPlan
BY DEF FinalizeCompression, BuildDecision

LEMMA ConcludesOnce ==
  ASSUME ArmInv, phase # "idle", NEW d, SoundDecision(working, d, cycle + 1), Conclude(d),
         d.plan # NoPlan =>
           /\ d.created = {} /\ d.tokens = ActiveTokens(working)
           /\ ActiveTokens(working) - d.plan.freed + d.plan.limit <= budget,
         UNCHANGED <<arm, fallback, budget>>
  PROVE  /\ OneSummary'
         /\ \/ UNCHANGED <<committed, cycle>>
            \/ /\ cycle' = cycle + 1 /\ phase' = "idle"
               /\ Chapter(committed, committed', cycle + 1)
               /\ committed'.next \in {committed.next + 1, committed.next + 2}
<1> DEFINE s == Applied(working, d)
           now == cycle + 1
<1>1. /\ now \in Nat /\ Good(committed) /\ Good(working) /\ BornBy(working, now)
      /\ IsMemoryState(working) /\ Continues(committed, working)
      /\ Sequel(committed, working, now) /\ budget = Budget
      /\ Chapter(committed, working, now) /\ working.next = committed.next + 1
      /\ committed.next \in Nat
  BY DEF ArmInv, OrderInv, OneSummary, PolicyInv, Inv, TypeOK, IsMemoryState
<1>2. SoundDecision(working, d, now)
  OBVIOUS
<1> HIDE DEF now
<1>3. WellFormed(working, d, now) /\ Applicable(working, d)
  BY <1>1, <1>2, SoundWellFormed
<1>4. Chapter(committed, s, now)
  BY <1>1, <1>2, AppliedChapter
<1>5. s.next = NextSlot(working, d)
  <2>1. Shaped(working, d)
    BY <1>1, <1>2, SoundShape
  <2> QED
    BY <2>1, AppliedShape
<1>6. ActiveTokens(s) = d.tokens
  BY <1>1, <1>2, SoundCost
<1> HIDE DEF s
<1>7. CASE ~ WithinBudget(d, budget)
  BY <1>1, <1>7 DEF Conclude, Fail, OneSummary
<1>8. CASE WithinBudget(d, budget) /\ d.plan = NoPlan
  <2>1. Commit(s)
    BY <1>3, <1>8 DEF Conclude, s
  <2> QED
    BY <1>1, <1>4, <1>5, <2>1 DEF Commit, OneSummary, NextSlot, now
<1>9. CASE WithinBudget(d, budget) /\ d.plan # NoPlan
  <2>1. Ask(s, d)
    BY <1>3, <1>9 DEF Conclude, s
  <2>2. s.next = working.next /\ ActiveTokens(s) = ActiveTokens(working)
    BY <1>5, <1>6, <1>9 DEF NextSlot
  <2> QED
    BY <1>1, <1>4, <1>9, <2>1, <2>2 DEF Ask, OneSummary, now
<1> QED
  BY <1>7, <1>8, <1>9

\* A step of the run's arm is one of ArmMemory's.
LEMMA ArmStepIsNext ==
  ASSUME IsMemoryState(committed), ArmStep
  PROVE  Next
<1>1. CASE \E tokens \in CandidateTokens : Experience(Claimed, tokens)
  <2> DEFINE claims == Claimed \cap Known(committed)
  <2>1. claims \in SUBSET Known(committed) /\ Cardinality(claims) <= MaxClaims
    <3>1. claims \in SUBSET Claimed /\ IsFiniteSet(Claimed)
      BY AnalysisAssumption
    <3>2. /\ Cardinality(claims) <= Cardinality(Claimed)
          /\ Cardinality(claims) \in Nat /\ Cardinality(Claimed) \in Nat
      BY <3>1, FS_Subset, FS_CardinalityType
    <3> QED
      BY <3>2, AnalysisAssumption, ArmAssumption
  <2>2. Counted(committed, claims) = Counted(committed, Claimed)
    BY DEF Counted, Active
  <2> HIDE DEF claims
  <2>3. \A tokens : Experience(Claimed, tokens) => Experience(claims, tokens)
    BY <2>2 DEF Experience
  <2> QED
    BY <1>1, <2>1, <2>3 DEF Next
<1> QED
  BY <1>1 DEF ArmStep, Next

LEMMA ArmStepKeeps ==
  ASSUME ArmInv, ArmStep
  PROVE  /\ ArmInv'
         /\ \/ UNCHANGED <<committed, cycle>>
            \/ cycle' = cycle + 1 /\ Completes(committed, committed', cycle + 1)
<1>1. /\ OrderInv /\ OriginInv /\ OneSummary /\ PolicyInv /\ Inv
      /\ IsMemoryState(committed) /\ IsMemoryState(working) /\ budget \in Int
      /\ budget = Budget /\ Good(committed) /\ cycle \in Nat
  BY ArmAssumption DEF ArmInv, OrderInv, OneSummary, PolicyInv, Inv, TypeOK
<1>2. Next
  BY <1>1, ArmStepIsNext
<1>3. OrderInv' /\ OriginInv' /\ Advances
  BY <1>1, <1>2, OrderKept, StepHolds, StepKeepsPolicy
<1>4. Safe \/ UNCHANGED vars
  BY <1>1, <1>2, StepKeeps
<1>5. /\ OneSummary'
      /\ \/ UNCHANGED <<committed, cycle>>
         \/ /\ cycle' = cycle + 1
            /\ Chapter(committed, committed', cycle + 1)
            /\ committed'.next \in {committed.next + 1, committed.next + 2}
  <2>1. ASSUME NEW tokens \in CandidateTokens, Experience(Claimed, tokens)
        PROVE  OneSummary' /\ UNCHANGED <<committed, cycle>>
    <3> DEFINE counted == Counted(committed, Claimed)
               m == Minted("generated", tokens, cycle + 1, {}, FALSE)
               r == RecordCycleCitations(committed, counted, cycle + 1)
               t == Admit(r, r.next, m)
    <3>1. /\ working' = t /\ phase' = "rebalance"
          /\ UNCHANGED <<budget, cycle, committed>>
      BY <2>1 DEF Experience
    <3>2. m.cited = Never /\ m.kind = "generated"
      BY DEF Minted
    <3> HIDE DEF counted, m
    <3>3. Chapter(committed, t, cycle + 1) /\ t.next = committed.next + 1
      BY <1>1, <3>2, ExperienceChapter
    <3> HIDE DEF t
    <3> QED
      BY <1>1, <3>1, <3>3 DEF OneSummary
  <2>2. CASE Decide
    <3>1. PICK d \in Rebalance(arm, working, budget, cycle + 1, fallback) : Conclude(d)
      BY <2>2 DEF Decide
    <3>2. phase = "rebalance" /\ UNCHANGED <<arm, fallback, budget>>
      BY <2>2 DEF Decide
    <3>3. SoundDecision(working, d, cycle + 1)
      BY <1>1, <3>2, StepConcludes
    <3>4. d.plan # NoPlan =>
            /\ d.created = {} /\ d.tokens = ActiveTokens(working)
            /\ ActiveTokens(working) - d.plan.freed + d.plan.limit <= budget
      BY <1>1, RebalanceAsks
    <3> QED
      BY <3>1, <3>2, <3>3, <3>4, ConcludesOnce
  <2>3. ASSUME NEW tokens \in 1 .. SummaryLimit, WriteSummary(tokens)
        PROVE  /\ OneSummary'
               /\ \/ UNCHANGED <<committed, cycle>>
                  \/ /\ cycle' = cycle + 1
                     /\ Chapter(committed, committed', cycle + 1)
                     /\ committed'.next \in {committed.next + 1, committed.next + 2}
    <3>1. phase = "dream"
      BY <2>3 DEF WriteSummary
    <3> DEFINE final(m) == FinalizeCompression(working, budget, cycle + 1, plan,
                                               working.next, m, fallback)
    <3>2. PICK m : /\ SummaryOf(working, plan.sources, cycle + 1, m)
                   /\ m.tokens <= plan.limit /\ Conclude(final(m))
                   /\ UNCHANGED <<arm, fallback, budget>>
      BY <1>1, <2>3, SummaryIsWritten
    <3>3. SoundDecision(working, final(m), cycle + 1)
      BY <1>1, <3>1, <3>2, StepConcludes
    <3>4. ActiveTokens(working) - plan.freed + m.tokens <= budget
      <4>1. /\ PlanFits(working, plan, cycle + 1, working.next)
            /\ ActiveTokens(working) - plan.freed + plan.limit <= budget
        BY <1>1, <3>1 DEF PolicyInv, OneSummary
      <4>2. plan.freed \in Nat /\ plan.limit \in Nat
        <5>1. plan.sources \in SUBSET Known(working)
          BY <4>1 DEF PlanFits, Eligible, Active
        <5> QED
          BY <1>1, <4>1, <5>1, CostFacts, PolicyAssumption DEF PlanFits
      <4>3. ActiveTokens(working) \in Nat /\ m.tokens \in Nat
        BY <1>1, <3>2, ActiveTokensType DEF SummaryOf, Memory
      <4> QED
        BY <1>1, <3>2, <4>1, <4>2, <4>3
    <3>5. final(m).plan = NoPlan
      BY <3>4, FinalizeAsksNothing
    <3> HIDE DEF final
    <3> QED
      BY <3>1, <3>2, <3>3, <3>5, ConcludesOnce
  <2> QED
    BY <2>1, <2>2, <2>3 DEF ArmStep
<1>6. ASSUME ~ UNCHANGED <<committed, cycle>>
      PROVE  cycle' = cycle + 1 /\ Completes(committed, committed', cycle + 1)
  <2>1. /\ cycle' = cycle + 1 /\ Chapter(committed, committed', cycle + 1)
        /\ committed'.next \in {committed.next + 1, committed.next + 2}
    BY <1>5, <1>6
  <2>2. committed' # committed /\ ~ UNCHANGED vars
    BY <1>1, <1>6, <2>1 DEF IsMemoryState, vars
  <2>3. Good(committed') /\ Sequel(committed, committed', cycle + 1)
    BY <1>3, <2>2 DEF OrderInv, PolicyInv, Advances
  <2>4. Continues(committed, committed') /\ ActiveTokens(committed') <= Budget
    BY <1>1, <1>4, <2>2 DEF Safe, Committing
  <2> QED
    BY <1>1, <2>1, <2>3, <2>4 DEF Completes, Step
<1> QED
  BY <1>3, <1>5, <1>6 DEF ArmInv

-----------------------------------------------------------------------------
(* What the history tells is a view of what the arm remembers: what it     *)
(* held after a cycle, what was born in it and what was retired in it.     *)

HeldAfter(s, i) == {m \in Known(s) : /\ s.mem[m].birth <= i
                                     /\ m \in Active(s) \/ i < s.mem[m].retired}
BornIn(s, i)    == {m \in Known(s) : s.mem[m].birth = i}
RetiredIn(s, i) == {m \in Known(s) : s.mem[m].retired = i}

\* Snapshot x tells of cycle i what s remembers of it.
Tells(x, s, i) ==
  /\ x.cycle = i
  /\ x.before = HeldAfter(s, i - 1) /\ x.after = HeldAfter(s, i)
  /\ x.candidate \in Known(s) /\ s.mem[x.candidate].kind = "generated"
  /\ x.candidate \notin HeldAfter(s, i - 1)
  /\ x.statistics = [m \in x.before \cup {x.candidate} |->
                       [kind |-> s.mem[m].kind, birth |-> s.mem[m].birth]]
  /\ x.cited \subseteq x.before
  /\ \/ x.summary = NoSummary
     \/ /\ x.summary.id \in Known(s) /\ s.mem[x.summary.id].kind = "summary"
        /\ x.summary.parents = s.mem[x.summary.id].parents
  /\ BornIn(s, i) = {x.candidate} \cup ({x.summary.id} \ {Never})
  /\ x.retired = [m \in RetiredIn(s, i) |-> s.mem[m].status]
  /\ x.tokens <= Budget

\* A memory's last citation is the last snapshot that has it cited.
Cites(h, s) ==
  \A m \in Known(s) :
    /\ \A i \in DOMAIN h : m \in h[i].cited => i <= s.mem[m].cited
    /\ s.mem[m].cited # Never => s.mem[m].cited \in DOMAIN h /\ m \in h[s.mem[m].cited].cited

\* Every memory is dated no later than cycle c, and the seeds before the first.
Dated(s, c) ==
  /\ \A m \in Known(s) : /\ s.mem[m].birth <= c /\ s.mem[m].retired <= c
                         /\ m \notin Active(s) => s.mem[m].birth < s.mem[m].retired
  /\ BornIn(s, 0) = SeedIds
  /\ \A m \in Known(s) : s.mem[m].kind = "seed" <=> s.mem[m].birth = 0
  /\ 0 < s.next /\ s.next - 1 \in Active(s)

Recorded(h, s, c) ==
  /\ h \in Seq({h[i] : i \in DOMAIN h}) /\ Len(h) = c
  /\ \A i \in 1 .. c : Tells(h[i], s, i)
  /\ Cites(h, s) /\ Dated(s, c)

RecordInv == ArmInv /\ Recorded(history, committed, cycle)

LEMMA MaxIsGreatest ==
  ASSUME NEW m \in Nat, NEW S \in SUBSET (Never .. m), S # {}
  PROVE  Max(S) \in S /\ \A y \in S : y <= Max(S)
<1> DEFINE T == {m - x : x \in S}
<1>1. m + 1 \in Nat /\ T \in SUBSET (0 .. m + 1) /\ T # {}
  <2>1. \A x \in S : x \in Int /\ m - x \in 0 .. m + 1
    BY DEF Never
  <2>2. PICK x \in S : TRUE
    OBVIOUS
  <2>3. m - x \in T
    OBVIOUS
  <2>4. T \subseteq 0 .. m + 1
    BY <2>1
  <2> QED
    BY <2>3, <2>4
<1>2. PICK z \in T : \A y \in T : z <= y
  <2> HIDE DEF T
  <2> QED
    BY <1>1, LeastOf
<1>3. PICK x \in S : z = m - x
  BY <1>2
<1>4. ASSUME NEW y \in S PROVE x >= y
  <2>1. m - y \in T
    OBVIOUS
  <2>2. x \in Int /\ y \in Int
    BY DEF Never
  <2> HIDE DEF T
  <2>3. m - x <= m - y
    BY <1>2, <1>3, <2>1
  <2> QED
    BY <2>2, <2>3
<1>5. \A y \in S : y \in Int
  <2> SUFFICES ASSUME NEW y \in S PROVE y \in Int
    OBVIOUS
  <2> HIDE DEF T
  <2>1. y \in Never .. m
    OBVIOUS
  <2> QED
    BY <2>1 DEF Never
<1> QED
  BY <1>4, <1>5 DEF Max

LEMMA MaxOfOne ==
  ASSUME NEW n \in Int
  PROVE  Max({n}) = n /\ Max({n, Never}) = IF n < Never THEN Never ELSE n
<1>1. Max({n}) = n
  BY DEF Max
<1>2. Max({n, Never}) \in {n, Never} /\ \A y \in {n, Never} : Max({n, Never}) >= y
  <2>1. \E x \in {n, Never} : \A y \in {n, Never} : x >= y
    BY DEF Never
  <2> QED
    BY <2>1 DEF Max
<1> QED
  BY <1>1, <1>2 DEF Never

LEMMA Appended ==
  ASSUME NEW h, h \in Seq({h[i] : i \in DOMAIN h}), NEW x, NEW g, g = Append(h, x)
  PROVE  /\ g \in Seq({g[i] : i \in DOMAIN g})
         /\ Len(h) \in Nat /\ DOMAIN h = 1 .. Len(h)
         /\ Len(g) = Len(h) + 1 /\ DOMAIN g = 1 .. Len(h) + 1
         /\ \A i \in 1 .. Len(h) : g[i] = h[i]
         /\ g[Len(h) + 1] = x
<1> DEFINE S == {h[i] : i \in DOMAIN h}
           T == S \cup {x}
<1>1. h \in Seq(S)
  OBVIOUS
<1>2. Len(h) \in Nat /\ DOMAIN h = 1 .. Len(h)
  <2> HIDE DEF S
  <2> QED
    BY <1>1
<1>3. h \in Seq(T) /\ x \in T
  <2>1. \A i \in 1 .. Len(h) : h[i] \in T
    BY <1>2
  <2> HIDE DEF S
  <2> QED
    BY <1>1, <1>2, <2>1
<1>4. /\ g \in Seq(T) /\ Len(g) = Len(h) + 1
      /\ \A i \in 1 .. Len(h) : g[i] = h[i]
      /\ g[Len(h) + 1] = x
  <2> HIDE DEF T
  <2> QED
    BY <1>2, <1>3
<1>5. DOMAIN g = 1 .. Len(h) + 1
  <2> HIDE DEF T
  <2> QED
    BY <1>4
<1>6. {g[i] : i \in DOMAIN g} = T
  BY <1>2, <1>4, <1>5
<1> QED
  BY <1>2, <1>4, <1>5, <1>6

LEMMA RetiredAreDated ==
  ASSUME NEW s, IsMemoryState(s)
  PROVE  \A x \in Known(s) : /\ s.mem[x].birth \in Nat /\ s.mem[x].retired \in Int
                             /\ x \in Active(s) => s.mem[x].retired = Never
                             /\ x \notin Active(s) => s.mem[x].retired \in Nat
                             /\ s.mem[x].retired # Never => s.mem[x].birth <= s.mem[x].retired
<1> SUFFICES ASSUME NEW x \in Known(s)
             PROVE  /\ s.mem[x].birth \in Nat /\ s.mem[x].retired \in Int
                    /\ x \in Active(s) => s.mem[x].retired = Never
                    /\ x \notin Active(s) => s.mem[x].retired \in Nat
                    /\ s.mem[x].retired # Never => s.mem[x].birth <= s.mem[x].retired
  OBVIOUS
<1>1. s.mem[x] \in Memory /\ Consistent(s.mem[x])
  BY DEF IsMemoryState
<1> QED
  BY <1>1 DEF Memory, Consistent, Active, Never

\* What a cycle does to the dates of what was there, and how it dates the rest.
Redates(s, t, c) ==
  /\ \A x \in Known(s) :
       /\ x \in Known(t) /\ t.mem[x].birth = s.mem[x].birth /\ s.mem[x].birth \in 0 .. c
       /\ t.mem[x].kind = s.mem[x].kind /\ t.mem[x].parents = s.mem[x].parents
       /\ t.mem[x].cited \in {s.mem[x].cited, c + 1}
       /\ x \notin Active(s) => t.mem[x] = s.mem[x] /\ s.mem[x].retired \in 0 .. c
       /\ x \in Active(s) => /\ s.mem[x].retired = Never
                             /\ x \in Active(t) => t.mem[x].retired = Never
                             /\ x \notin Active(t) => t.mem[x].retired = c + 1
  /\ \A x \in Known(t) \ Known(s) :
       /\ x \in Active(t) /\ x \notin Active(s)
       /\ t.mem[x].birth = c + 1 /\ t.mem[x].retired = Never
       /\ t.mem[x].cited = Never
       /\ t.mem[x].kind = IF x = s.next THEN "generated" ELSE "summary"
  /\ Known(t) \ Known(s) = s.next .. t.next - 1

\* What is held, born and retired by then is as it was, and the cycle adds to it.
KeepsViews(s, t, c) ==
  /\ HeldAfter(s, c) = Active(s) /\ HeldAfter(t, c + 1) = Active(t)
  /\ \A i \in 0 .. c : HeldAfter(t, i) = HeldAfter(s, i) /\ BornIn(t, i) = BornIn(s, i)
  /\ \A i \in 1 .. c : RetiredIn(t, i) = RetiredIn(s, i)
  /\ BornIn(t, c + 1) = s.next .. t.next - 1
  /\ RetiredIn(t, c + 1) = Active(s) \ Active(t)

LEMMA CycleRedates ==
  ASSUME NEW s, NEW t, NEW c \in Nat, Dated(s, c), NEW now, now = c + 1,
         Completes(s, t, now)
  PROVE  Redates(s, t, c)
<1>1. /\ Step(s, t, now) /\ Chapter(s, t, now)
      /\ IsMemoryState(s) /\ IsMemoryState(t) /\ Continues(s, t) /\ Sequel(s, t, now)
  BY DEF Completes, Step, Good
<1>2. /\ s.next \in Nat /\ t.next \in Nat /\ s.next < t.next
      /\ Known(s) = 0 .. s.next - 1 /\ Known(t) = 0 .. t.next - 1
  BY <1>1, StepShape
<1>3. ASSUME NEW x \in Known(s)
      PROVE  /\ x \in Known(t) /\ t.mem[x].birth = s.mem[x].birth /\ s.mem[x].birth \in 0 .. c
             /\ t.mem[x].kind = s.mem[x].kind /\ t.mem[x].parents = s.mem[x].parents
             /\ t.mem[x].cited \in {s.mem[x].cited, now}
             /\ x \notin Active(s) => t.mem[x] = s.mem[x] /\ s.mem[x].retired \in 0 .. c
             /\ x \in Active(s) => /\ s.mem[x].retired = Never
                                   /\ x \in Active(t) => t.mem[x].retired = Never
                                   /\ x \notin Active(t) => t.mem[x].retired = now
  <2>1. x \in Known(t)
    BY <1>2
  <2>2. /\ s.mem[x].birth \in 0 .. c
        /\ x \in Active(s) => s.mem[x].retired = Never
        /\ x \notin Active(s) => s.mem[x].retired \in 0 .. c
        /\ x \in Active(t) => t.mem[x].retired = Never
    BY <1>1, <2>1, RetiredAreDated DEF Dated
  <2>3. x \notin Active(s) => t.mem[x] = s.mem[x]
    BY <1>1 DEF Continues
  <2> QED
    BY <1>1, <2>1, <2>2, <2>3 DEF Sequel, Chapter
<1>4. ASSUME NEW x \in Known(t) \ Known(s)
      PROVE  /\ x \in Active(t) /\ x \notin Active(s)
             /\ t.mem[x].birth = now /\ t.mem[x].retired = Never
             /\ t.mem[x].cited = Never
             /\ t.mem[x].kind = IF x = s.next THEN "generated" ELSE "summary"
  <2>1. s.next <= x
    BY <1>2
  <2>2. x \in Active(t) /\ t.mem[x].birth = now
    BY <1>1, <2>1 DEF Sequel
  <2>3. x \notin Active(s)
    BY DEF Active
  <2>4. t.mem[x].retired = Never
    BY <1>1, <2>2, RetiredAreDated
  <2> QED
    BY <1>1, <2>1, <2>2, <2>3, <2>4 DEF Sequel, Chapter
<1> QED
  BY <1>2, <1>3, <1>4 DEF Redates

LEMMA ViewsKept ==
  ASSUME NEW s, NEW t, NEW c \in Nat, Dated(s, c), NEW now, now = c + 1,
         Completes(s, t, now)
  PROVE  KeepsViews(s, t, c)
<1>0. Redates(s, t, c)
  BY CycleRedates
<1>1. Active(s) \subseteq Known(s) /\ Active(t) \subseteq Known(t)
  BY DEF Active
<1>2. HeldAfter(s, c) = Active(s)
  <2>1. ASSUME NEW x \in Known(s) PROVE s.mem[x].birth <= c /\ ~ (c < s.mem[x].retired)
    <3>1. s.mem[x].birth \in 0 .. c /\ s.mem[x].retired \in 0 .. c \cup {Never}
      BY <1>0 DEF Redates
    <3> QED
      BY <3>1 DEF Never
  <2> QED
    BY <1>1, <2>1 DEF HeldAfter
<1>3. HeldAfter(t, now) = Active(t)
  <2>1. \A x \in Known(t) : t.mem[x].birth <= now /\ ~ (now < t.mem[x].retired)
    <3> SUFFICES ASSUME NEW x \in Known(t)
                 PROVE  t.mem[x].birth <= now /\ ~ (now < t.mem[x].retired)
      OBVIOUS
    <3>1. CASE x \in Known(s)
      BY <1>0, <3>1 DEF Redates, Never
    <3>2. CASE x \notin Known(s)
      BY <1>0, <3>2 DEF Redates, Never
    <3> QED
      BY <3>1, <3>2
  <2> QED
    BY <1>1, <2>1 DEF HeldAfter
<1>4. ASSUME NEW i \in 0 .. c
      PROVE  HeldAfter(t, i) = HeldAfter(s, i) /\ BornIn(t, i) = BornIn(s, i)
  <2>1. \A x \in Known(t) \ Known(s) : ~ (t.mem[x].birth <= i) /\ t.mem[x].birth # i
    BY <1>0 DEF Redates
  <2>2. ASSUME NEW x \in Known(s)
        PROVE  /\ x \in Known(t) /\ t.mem[x].birth = s.mem[x].birth
               /\ (x \in Active(t) \/ i < t.mem[x].retired) <=>
                    (x \in Active(s) \/ i < s.mem[x].retired)
    <3>1. CASE x \in Active(s)
      <4>1. /\ x \in Known(t) /\ t.mem[x].birth = s.mem[x].birth
            /\ x \in Active(t) \/ t.mem[x].retired = now
        BY <1>0, <3>1 DEF Redates
      <4> QED
        BY <3>1, <4>1
    <3>2. CASE x \notin Active(s)
      BY <1>0, <3>2 DEF Redates, Active
    <3> QED
      BY <1>0, <3>1, <3>2 DEF Redates
  <2> QED
    BY <2>1, <2>2 DEF HeldAfter, BornIn
<1>5. ASSUME NEW i \in 1 .. c PROVE RetiredIn(t, i) = RetiredIn(s, i)
  <2>1. \A x \in Known(t) \ Known(s) : t.mem[x].retired # i
    BY <1>0 DEF Redates, Never
  <2>2. \A x \in Known(s) : x \in Known(t) /\ (t.mem[x].retired = i <=> s.mem[x].retired = i)
    BY <1>0 DEF Redates, Never
  <2> QED
    BY <2>1, <2>2 DEF RetiredIn
<1>6. BornIn(t, now) = s.next .. t.next - 1
  <2>1. \A x \in Known(s) :
          x \in Known(t) /\ t.mem[x].birth = s.mem[x].birth /\ s.mem[x].birth \in 0 .. c
    BY <1>0 DEF Redates
  <2>2. \A x \in Known(t) \ Known(s) : t.mem[x].birth = now
    BY <1>0 DEF Redates
  <2>3. \A x \in Known(s) : t.mem[x].birth # now
    BY <2>1
  <2>4. BornIn(t, now) = Known(t) \ Known(s)
    BY <2>2, <2>3 DEF BornIn
  <2> QED
    BY <1>0, <2>4 DEF Redates
<1>7. RetiredIn(t, now) = Active(s) \ Active(t)
  <2>1. \A x \in Known(t) \ Known(s) : t.mem[x].retired # now /\ x \notin Active(s)
    BY <1>0 DEF Redates, Never
  <2>2. \A x \in Known(s) :
          x \in Known(t) /\ (t.mem[x].retired = now <=> x \in Active(s) /\ x \notin Active(t))
    BY <1>0 DEF Redates, Never
  <2> QED
    BY <1>1, <2>1, <2>2 DEF RetiredIn
<1> QED
  BY <1>2, <1>3, <1>4, <1>5, <1>6, <1>7 DEF KeepsViews

\* The snapshot a cycle leaves tells of that cycle.
LEMMA SnapshotTells ==
  ASSUME NEW s, NEW t, NEW c \in Nat, Dated(s, c), NEW now, now = c + 1,
         Completes(s, t, now), NEW x, x = ArmCycleSnapshot(s, t, now)
  PROVE  Tells(x, t, now)
<1>0. Redates(s, t, c) /\ KeepsViews(s, t, c)
  BY CycleRedates, ViewsKept
<1> DEFINE fresh == {m \in Known(t) \ Known(s) : t.mem[m].kind = "summary"}
           admitted == Active(s) \cup {s.next}
<1>1. /\ x.cycle = now /\ x.before = Active(s) /\ x.candidate = s.next
      /\ x.statistics = [m \in admitted |-> [kind |-> t.mem[m].kind, birth |-> t.mem[m].birth]]
      /\ x.cited = {m \in Active(s) : t.mem[m].cited = now}
      /\ x.summary = IF fresh = {} THEN NoSummary
                     ELSE [id |-> Max(fresh), parents |-> t.mem[Max(fresh)].parents]
      /\ x.retired = [m \in admitted \ Active(t) |-> t.mem[m].status]
      /\ x.after = Active(t) /\ x.tokens = ActiveTokens(t)
  BY DEF ArmCycleSnapshot
<1>2. /\ s.next \in Nat /\ t.next \in {s.next + 1, s.next + 2} /\ ActiveTokens(t) <= Budget
      /\ s.next \in Known(t) /\ s.next \notin Known(s) /\ s.next \in Active(t)
  <2>1. Step(s, t, now) /\ t.next \in {s.next + 1, s.next + 2} /\ ActiveTokens(t) <= Budget
    BY DEF Completes
  <2>2. s.next \in Nat /\ Known(s) = 0 .. s.next - 1 /\ s.next .. t.next - 1 \subseteq Active(t)
    BY <2>1, StepShape
  <2>3. s.next \in Active(t)
    BY <2>1, <2>2
  <2> QED
    BY <2>1, <2>2, <2>3 DEF Active
<1>3. Known(t) \ Known(s) = s.next .. t.next - 1
  BY <1>0 DEF Redates
<1>4. /\ HeldAfter(s, c) = Active(s) /\ HeldAfter(t, now) = Active(t)
      /\ HeldAfter(t, c) = HeldAfter(s, c) /\ now - 1 = c
      /\ BornIn(t, now) = s.next .. t.next - 1
      /\ RetiredIn(t, now) = Active(s) \ Active(t)
  BY <1>0 DEF KeepsViews
<1>5. t.mem[s.next].kind = "generated"
  BY <1>0, <1>2 DEF Redates
<1>6. \A m \in Known(t) \ Known(s) : m # s.next => t.mem[m].kind = "summary"
  BY <1>0 DEF Redates
<1>7. \/ fresh = {} /\ t.next = s.next + 1
      \/ fresh = {s.next + 1} /\ t.next = s.next + 2
  <2>1. fresh = (s.next .. t.next - 1) \ {s.next}
    BY <1>3, <1>5, <1>6
  <2> HIDE DEF fresh
  <2> QED
    BY <1>2, <2>1
<1>8. \/ x.summary = NoSummary /\ t.next = s.next + 1
      \/ /\ x.summary = [id |-> s.next + 1, parents |-> t.mem[s.next + 1].parents]
         /\ t.next = s.next + 2 /\ s.next + 1 \in fresh
  <2> HIDE DEF fresh
  <2>1. s.next + 1 \in Int
    BY <1>2
  <2>2. Max({s.next + 1}) = s.next + 1
    BY <2>1, MaxOfOne, Zenon
  <2> QED
    BY <1>1, <1>7, <2>2
<1>9. BornIn(t, now) = {x.candidate} \cup ({x.summary.id} \ {Never})
  <2>1. CASE x.summary = NoSummary /\ t.next = s.next + 1
    <3>1. {x.summary.id} \ {Never} = {}
      BY <2>1 DEF NoSummary
    <3>2. s.next .. t.next - 1 = {s.next}
      BY <1>2, <2>1
    <3> QED
      BY <1>1, <1>4, <3>1, <3>2
  <2>2. CASE x.summary.id = s.next + 1 /\ t.next = s.next + 2
    <3>1. {x.summary.id} \ {Never} = {s.next + 1}
      BY <1>2, <2>2 DEF Never
    <3>2. s.next .. t.next - 1 = {s.next, s.next + 1}
      BY <1>2, <2>2
    <3> QED
      BY <1>1, <1>4, <3>1, <3>2
  <2> QED
    BY <1>8, <2>1, <2>2
<1>10. \/ x.summary = NoSummary
       \/ /\ x.summary.id \in Known(t) /\ t.mem[x.summary.id].kind = "summary"
          /\ x.summary.parents = t.mem[x.summary.id].parents
  <2>1. CASE /\ x.summary = [id |-> s.next + 1, parents |-> t.mem[s.next + 1].parents]
             /\ s.next + 1 \in fresh
    BY <2>1
  <2> HIDE DEF fresh
  <2> QED
    BY <1>8, <2>1
<1>11. admitted \ Active(t) = RetiredIn(t, now)
  BY <1>2, <1>4
<1>12. x.cited \subseteq x.before
  BY <1>1
<1>13. Tells(x, t, now)
  BY <1>1, <1>2, <1>4, <1>5, <1>9, <1>10, <1>11, <1>12, ZenonT(30) DEF Tells, Active
<1> QED
  BY <1>1, <1>13

\* What a snapshot told stays so.
LEMMA TellsOn ==
  ASSUME NEW s, NEW t, NEW c \in Nat, Dated(s, c), NEW now, now = c + 1,
         Completes(s, t, now), NEW i \in 1 .. c, NEW x, Tells(x, s, i)
  PROVE  Tells(x, t, i)
<1>0. Redates(s, t, c) /\ KeepsViews(s, t, c)
  BY CycleRedates, ViewsKept
<1>1. /\ i \in 0 .. c /\ i - 1 \in 0 .. c /\ i \in 1 .. c
  OBVIOUS
<1>2. /\ HeldAfter(t, i) = HeldAfter(s, i) /\ HeldAfter(t, i - 1) = HeldAfter(s, i - 1)
      /\ BornIn(t, i) = BornIn(s, i) /\ RetiredIn(t, i) = RetiredIn(s, i)
  BY <1>0, <1>1 DEF KeepsViews
<1>3. \A m \in Known(s) : m \in Known(t) /\ t.mem[m].birth = s.mem[m].birth
                          /\ s.mem[m].birth \in 0 .. c
  BY <1>0 DEF Redates
<1>4. \A m \in Known(s) : t.mem[m].kind = s.mem[m].kind /\ t.mem[m].parents = s.mem[m].parents
  BY <1>0 DEF Redates
<1>5. x.before \cup {x.candidate} \subseteq Known(s)
  BY DEF Tells, HeldAfter
<1>6. \A m \in RetiredIn(s, i) : t.mem[m].status = s.mem[m].status
  <2>1. \A m \in RetiredIn(s, i) : m \in Known(s) /\ s.mem[m].retired = i
    BY DEF RetiredIn
  <2>2. \A m \in Known(s) : /\ m \in Active(s) => s.mem[m].retired = Never
                            /\ m \notin Active(s) => t.mem[m] = s.mem[m]
    BY <1>0 DEF Redates
  <2> QED
    BY <2>1, <2>2 DEF Never
<1>7. x.statistics = [m \in x.before \cup {x.candidate} |->
                        [kind |-> t.mem[m].kind, birth |-> t.mem[m].birth]]
  BY <1>3, <1>4, <1>5 DEF Tells
<1>8. x.retired = [m \in RetiredIn(t, i) |-> t.mem[m].status]
  BY <1>2, <1>6 DEF Tells
<1> QED
  BY <1>2, <1>3, <1>4, <1>7, <1>8 DEF Tells

LEMMA CitesOn ==
  ASSUME NEW s, NEW t, NEW c \in Nat, NEW h, Recorded(h, s, c), NEW now, now = c + 1,
         Completes(s, t, now), NEW x, x = ArmCycleSnapshot(s, t, now),
         NEW g, g = Append(h, x)
  PROVE  Cites(g, t)
<1>0. /\ Redates(s, t, c) /\ DOMAIN h = 1 .. c /\ Cites(h, s)
      /\ \A i \in 1 .. c : Tells(h[i], s, i)
      /\ DOMAIN g = 1 .. now /\ \A i \in 1 .. c : g[i] = h[i]
      /\ \A m : m \in g[now].cited <=> m \in Active(s) /\ t.mem[m].cited = now
  <2>1. /\ h \in Seq({h[i] : i \in DOMAIN h}) /\ Len(h) = c /\ Dated(s, c) /\ Cites(h, s)
        /\ \A i \in 1 .. c : Tells(h[i], s, i)
    BY DEF Recorded
  <2>2. Redates(s, t, c)
    BY <2>1, CycleRedates
  <2>3. /\ DOMAIN h = 1 .. c /\ DOMAIN g = 1 .. now /\ \A i \in 1 .. c : g[i] = h[i]
        /\ g[now] = x
    BY <2>1, Appended
  <2>4. x.cited = {m \in Active(s) : t.mem[m].cited = now}
    BY DEF ArmCycleSnapshot
  <2> QED
    BY <2>1, <2>2, <2>3, <2>4
<1>1. ASSUME NEW m \in Known(t) \ Known(s)
      PROVE  /\ \A i \in 1 .. now : m \notin g[i].cited
             /\ t.mem[m].cited = Never
  <2>1. m \notin Active(s) /\ t.mem[m].cited = Never
    BY <1>0 DEF Redates
  <2>2. \A i \in 1 .. c : m \notin g[i].cited
    BY <1>0 DEF Tells, HeldAfter
  <2> QED
    BY <1>0, <2>1, <2>2
<1>2. ASSUME NEW m \in Known(s)
      PROVE  /\ \A i \in 1 .. now : m \in g[i].cited => i <= t.mem[m].cited
             /\ t.mem[m].cited # Never =>
                  t.mem[m].cited \in 1 .. now /\ m \in g[t.mem[m].cited].cited
  <2>1. /\ t.mem[m].cited \in {s.mem[m].cited, now}
        /\ m \notin Active(s) => t.mem[m] = s.mem[m]
    BY <1>0 DEF Redates
  <2>2. /\ \A i \in 1 .. c : m \in h[i].cited => i <= s.mem[m].cited
        /\ s.mem[m].cited # Never =>
             s.mem[m].cited \in 1 .. c /\ m \in h[s.mem[m].cited].cited
    BY <1>0 DEF Cites
  <2>3. m \in g[now].cited <=> m \in Active(s) /\ t.mem[m].cited = now
    BY <1>0
  <2>4. s.mem[m].cited \in 1 .. c \cup {Never} /\ Never \notin 1 .. now
    BY <2>2 DEF Never
  <2>5. CASE t.mem[m].cited = now
    <3>1. m \in Active(s)
      BY <2>1, <2>4, <2>5 DEF Never
    <3>2. m \in g[now].cited
      BY <2>3, <2>5, <3>1
    <3>3. now \in 1 .. now /\ \A i \in 1 .. now : i <= now
      OBVIOUS
    <3> QED
      BY <2>5, <3>2, <3>3
  <2>6. CASE t.mem[m].cited = s.mem[m].cited /\ t.mem[m].cited # now
    BY <1>0, <2>2, <2>3, <2>6
  <2> QED
    BY <2>1, <2>5, <2>6
<1>3. \A m \in Known(t) :
        /\ \A i \in DOMAIN g : m \in g[i].cited => i <= t.mem[m].cited
        /\ t.mem[m].cited # Never =>
             t.mem[m].cited \in DOMAIN g /\ m \in g[t.mem[m].cited].cited
  BY <1>0, <1>1, <1>2
<1> QED
  BY <1>3 DEF Cites

LEMMA DatedOn ==
  ASSUME NEW s, NEW t, NEW c \in Nat, Dated(s, c), NEW now, now = c + 1,
         Completes(s, t, now)
  PROVE  Dated(t, now)
<1>0. Redates(s, t, c) /\ KeepsViews(s, t, c)
  BY CycleRedates, ViewsKept
<1>1. Known(s) \subseteq Known(t) /\ 0 < t.next /\ t.next - 1 \in Active(t)
  <2>1. Step(s, t, now)
    BY DEF Completes
  <2>2. /\ s.next \in Nat /\ t.next \in Nat /\ s.next < t.next
        /\ s.next .. t.next - 1 \subseteq Active(t)
        /\ Known(s) = 0 .. s.next - 1 /\ Known(t) = 0 .. t.next - 1
    BY <2>1, StepShape
  <2>3. t.next - 1 \in s.next .. t.next - 1 /\ 0 .. s.next - 1 \subseteq 0 .. t.next - 1
    BY <2>2
  <2> QED
    BY <2>2, <2>3
<1>2. ASSUME NEW m \in Known(s)
      PROVE  /\ t.mem[m].birth <= now /\ t.mem[m].retired <= now
             /\ m \notin Active(t) => t.mem[m].birth < t.mem[m].retired
             /\ t.mem[m].kind = "seed" <=> t.mem[m].birth = 0
  <2>1. m \in Known(t) /\ t.mem[m].birth = s.mem[m].birth /\ s.mem[m].birth \in 0 .. c
    BY <1>0 DEF Redates
  <2>2. t.mem[m].kind = s.mem[m].kind
    BY <1>0 DEF Redates
  <2>3. t.mem[m].retired \in 0 .. now \cup {Never}
    <3>1. CASE m \in Active(s)
      BY <1>0, <3>1 DEF Redates
    <3>2. CASE m \notin Active(s)
      <4>1. t.mem[m] = s.mem[m] /\ s.mem[m].retired \in 0 .. c
        BY <1>0, <3>2 DEF Redates
      <4> QED
        BY <4>1
    <3> QED
      BY <3>1, <3>2
  <2>4. ASSUME m \notin Active(t) PROVE t.mem[m].birth < t.mem[m].retired
    <3>1. CASE m \in Active(s)
      <4>1. t.mem[m].retired = c + 1
        BY <1>0, <2>4, <3>1 DEF Redates
      <4> QED
        BY <2>1, <4>1
    <3>2. CASE m \notin Active(s)
      <4>1. t.mem[m] = s.mem[m]
        BY <1>0, <3>2 DEF Redates
      <4> QED
        BY <3>2, <4>1 DEF Dated
    <3> QED
      BY <3>1, <3>2
  <2> QED
    BY <2>1, <2>2, <2>3, <2>4 DEF Dated, Never
<1>3. ASSUME NEW m \in Known(t) \ Known(s)
      PROVE  /\ t.mem[m].birth <= now /\ t.mem[m].retired <= now
             /\ m \notin Active(t) => t.mem[m].birth < t.mem[m].retired
             /\ t.mem[m].kind = "seed" <=> t.mem[m].birth = 0
  <2>1. /\ t.mem[m].birth = now /\ t.mem[m].retired = Never /\ m \in Active(t)
        /\ t.mem[m].kind = IF m = s.next THEN "generated" ELSE "summary"
    BY <1>0 DEF Redates
  <2> QED
    BY <2>1 DEF Never
<1>4. BornIn(t, 0) = SeedIds
  <2>1. BornIn(t, 0) = BornIn(s, 0)
    BY <1>0 DEF KeepsViews
  <2> QED
    BY <2>1 DEF Dated
<1> QED
  BY <1>1, <1>2, <1>3, <1>4 DEF Dated

\* The history goes on telling of the arm: commit_arm_cycle.
LEMMA RecordGrows ==
  ASSUME NEW s, NEW t, NEW c \in Nat, NEW h, Recorded(h, s, c),
         NEW now, now = c + 1, Completes(s, t, now)
  PROVE  Recorded(Append(h, ArmCycleSnapshot(s, t, now)), t, now)
<1>0. PICK x : x = ArmCycleSnapshot(s, t, now)
  OBVIOUS
<1> DEFINE g == Append(h, x)
<1>1. /\ h \in Seq({h[i] : i \in DOMAIN h}) /\ Len(h) = c /\ Dated(s, c) /\ Cites(h, s)
      /\ \A i \in 1 .. c : Tells(h[i], s, i)
  BY DEF Recorded
<1>2. Tells(x, t, now)
  BY <1>0, <1>1, SnapshotTells
<1>3. /\ g \in Seq({g[i] : i \in DOMAIN g}) /\ Len(g) = now /\ DOMAIN g = 1 .. now
      /\ DOMAIN h = 1 .. c
      /\ \A i \in 1 .. c : g[i] = h[i]
      /\ g[now] = x
  BY <1>1, Appended
<1> HIDE DEF g
<1>4. \A i \in 1 .. c : Tells(g[i], t, i)
  BY <1>1, <1>3, TellsOn
<1>5. \A i \in 1 .. now : Tells(g[i], t, i)
  BY <1>2, <1>3, <1>4
<1>6. Cites(g, t)
  BY <1>0, CitesOn DEF g
<1>7. Dated(t, now)
  BY <1>1, DatedOn
<1>8. Recorded(g, t, now)
  BY <1>3, <1>5, <1>6, <1>7 DEF Recorded
<1> QED
  BY <1>0, <1>8 DEF g

LEMMA RecordStarts == RunInit => RecordInv
<1> SUFFICES ASSUME RunInit PROVE RecordInv
  OBVIOUS
<1>1. /\ Init /\ history = <<>> /\ committed = Seeded /\ cycle = 0 /\ phase = "idle"
      /\ budget = Budget
  BY DEF RunInit, Init
<1>2. ArmInv
  <2>1. OrderInv /\ PolicyInv /\ Inv
    BY <1>1, OrderStarts, InitEstablishesPolicy, InitEstablishes
  <2>2. OriginInv
    BY <1>1, OriginStarts
  <2> QED
    BY <1>1, <2>1, <2>2 DEF ArmInv, OneSummary
<1>3. /\ Known(Seeded) = SeedIds /\ Seeded.next = Len(SeedTokens)
      /\ \A m \in SeedIds : /\ Seeded.mem[m].kind = "seed" /\ Seeded.mem[m].birth = 0
                            /\ Seeded.mem[m].retired = Never /\ Seeded.mem[m].cited = Never
                            /\ Seeded.mem[m].status = "active"
  BY DEF Seeded, MemoryState, Known, Minted
<1>4. /\ Len(SeedTokens) \in Nat /\ 0 < Len(SeedTokens)
      /\ Len(SeedTokens) - 1 \in SeedIds
  BY ArmAssumption DEF SeedIds
<1>5. Active(Seeded) = SeedIds /\ BornIn(Seeded, 0) = SeedIds
  BY <1>3 DEF Active, BornIn
<1>6. Dated(Seeded, 0)
  BY <1>3, <1>4, <1>5 DEF Dated, Never
<1>7. Cites(<<>>, Seeded)
  BY <1>3 DEF Cites
<1>8. <<>> \in Seq({<<>>[i] : i \in DOMAIN <<>>}) /\ Len(<<>>) = 0
  OBVIOUS
<1>9. Recorded(<<>>, Seeded, 0)
  BY <1>6, <1>7, <1>8 DEF Recorded
<1> QED
  BY <1>1, <1>2, <1>9 DEF RecordInv

LEMMA RecordKept ==
  ASSUME RecordInv, [RunNext]_runVars
  PROVE  RecordInv'
<1>1. /\ ArmInv /\ Recorded(history, committed, cycle) /\ cycle \in Nat
  BY DEF RecordInv, ArmInv, OrderInv, PolicyInv, Inv, TypeOK
<1>2. CASE ArmStep
  <2>1. /\ ArmInv'
        /\ \/ UNCHANGED <<committed, cycle>>
           \/ cycle' = cycle + 1 /\ Completes(committed, committed', cycle + 1)
    BY <1>1, <1>2, ArmStepKeeps
  <2>2. CASE UNCHANGED <<committed, cycle>>
    BY <1>1, <1>2, <2>1, <2>2 DEF ArmStep, RecordInv
  <2>3. CASE cycle' = cycle + 1 /\ Completes(committed, committed', cycle + 1)
    <3>1. committed' # committed
      BY <2>3, StepShape DEF Completes
    <3>2. history' = Append(history, ArmCycleSnapshot(committed, committed', cycle'))
      BY <1>2, <3>1 DEF ArmStep
    <3>3. Recorded(history', committed', cycle')
      BY <1>1, <2>3, <3>2, RecordGrows
    <3> QED
      BY <2>1, <3>3 DEF RecordInv
  <2> QED
    BY <2>1, <2>2, <2>3
<1>3. CASE UNCHANGED armVars /\ UNCHANGED history
  <2>1. OrderInv' /\ OriginInv'
    BY <1>1, <1>3, OrderKept, StepHolds DEF ArmInv, armVars
  <2>2. OneSummary'
    BY <1>1, <1>3 DEF ArmInv, OneSummary, armVars, vars
  <2>3. UNCHANGED <<committed, cycle, history>>
    BY <1>3 DEF armVars, vars
  <2> QED
    BY <1>1, <2>1, <2>2, <2>3 DEF RecordInv, ArmInv
<1>4. CASE \E c \in Checkpoints : RunCheckpoint(c)
  BY <1>3, <1>4 DEF RunCheckpoint
<1>5. CASE \E p \in Pass : PassStep(p)
  <2>1. PICK p \in Pass : PassStep(p)
    BY <1>5
  <2>2. \A name, fields : Turn(p, name, fields) => UNCHANGED armVars
    BY DEF Turn
  <2>3. CASE Begin(p) \/ CanonicalExportExists(p) \/ Die(p) \/ DieStoring(p)
    BY <1>3, <2>3 DEF Begin, CanonicalExportExists, Die, DieStoring, storeVars
  <2>4. CASE ReadStates(p) \/ ReadInterviews(p) \/ Collect(p)
    BY <1>3, <2>2, <2>4 DEF ReadStates, ReadInterviews, Collect, storeVars
  <2>5. CASE \/ StoreMetrics(p) \/ StoreStatus(p) \/ StoreArtefacts(p)
             \/ Clear(p) \/ Publish(p)
    BY <1>3, <2>2, <2>5 DEF StoreMetrics, StoreStatus, StoreArtefacts, Clear, Publish
  <2> QED
    BY <2>1, <2>3, <2>4, <2>5 DEF PassStep
<1>6. CASE UNCHANGED runVars
  BY <1>3, <1>6 DEF runVars, storeVars
<1> QED
  BY <1>2, <1>4, <1>5, <1>6 DEF RunNext

-----------------------------------------------------------------------------
(* The graveyard, the lineage and the echoes, told of the state alone.     *)

EntryOf(s, m) ==
  [memory |-> m, kind |-> s.mem[m].kind, birth |-> s.mem[m].birth,
   retirement |-> s.mem[m].retired, status |-> s.mem[m].status, cited |-> s.mem[m].cited,
   descendant |-> IF StandsFor(s, m) = {} THEN Never ELSE Max(StandsFor(s, m)),
   genuinely_inaccessible |-> s.mem[m].status = "evicted"]

RetiredBy(s, n) == {m \in Known(s) : s.mem[m].retired \in 1 .. n}
LostBy(s, n)    == {m \in RetiredBy(s, n) : s.mem[m].status = "evicted"}
GraveOf(s, n)   == {EntryOf(s, m) : m \in RetiredBy(s, n)}

\* g is what was listed of h when there were n snapshots.
Opening(g, h, n) == DOMAIN g = 1 .. n /\ \A i \in 1 .. n : g[i] = h[i]

LEMMA OpeningTells ==
  ASSUME NEW h, NEW s, NEW c \in Nat, Recorded(h, s, c), NEW n \in 0 .. c,
         NEW g, Opening(g, h, n)
  PROVE  DOMAIN g = 1 .. n /\ \A i \in 1 .. n : Tells(g[i], s, i)
BY DEF Opening, Recorded

\* A memory, as a state that is recorded dates it.
LEMMA MemoryDates ==
  ASSUME NEW s, IsMemoryState(s), NEW c \in Nat, Dated(s, c), NEW m \in Known(s)
  PROVE  /\ m \in Nat /\ s.mem[m].birth \in 0 .. c
         /\ m \in Active(s) => s.mem[m].retired = Never
         /\ m \notin Active(s) => s.mem[m].retired \in 1 .. c /\ s.mem[m].birth < s.mem[m].retired
<1>1. m \in Nat
  BY MemoryIsFinite
<1>2. /\ s.mem[m].birth \in Nat
      /\ m \in Active(s) => s.mem[m].retired = Never
      /\ m \notin Active(s) => s.mem[m].retired \in Nat
  BY RetiredAreDated
<1> QED
  BY <1>1, <1>2 DEF Dated

\* What was born in a cycle is its candidate or its summary.
LEMMA BornAs ==
  ASSUME NEW s, IsMemoryState(s), NEW i, NEW x, Tells(x, s, i), NEW m \in Known(s)
  PROVE  /\ m \in {x.candidate, x.summary.id} <=> s.mem[m].birth = i
         /\ m = x.summary.id <=> s.mem[m].birth = i /\ s.mem[m].kind = "summary"
<1>1. m # Never
  BY MemoryIsFinite DEF Never
<1>2. m \in BornIn(s, i) <=> s.mem[m].birth = i
  BY DEF BornIn
<1>3. BornIn(s, i) = {x.candidate} \cup ({x.summary.id} \ {Never})
  BY DEF Tells
<1>4. m = x.summary.id => s.mem[m].kind = "summary"
  BY <1>1 DEF Tells, NoSummary
<1>5. m = x.candidate => s.mem[m].kind = "generated"
  BY DEF Tells
<1> QED
  BY <1>1, <1>2, <1>3, <1>4, <1>5

\* A summary's snapshot has its parents; another memory has none.
LEMMA ParentsTold ==
  ASSUME NEW s, IsMemoryState(s), NEW i, NEW x, Tells(x, s, i), NEW m
  PROVE  m \in x.summary.parents <=>
           \E k \in Known(s) : k = x.summary.id /\ m \in s.mem[k].parents
<1>1. x.summary = NoSummary \/ /\ x.summary.id \in Known(s)
                               /\ x.summary.parents = s.mem[x.summary.id].parents
  BY DEF Tells
<1>2. Never \notin Known(s)
  BY MemoryIsFinite DEF Never
<1> QED
  BY <1>1, <1>2 DEF NoSummary

LEMMA OnlySummariesHaveParents ==
  ASSUME NEW s, IsMemoryState(s), NEW k \in Known(s), NEW m \in s.mem[k].parents
  PROVE  s.mem[k].kind = "summary" /\ m \in Known(s)
BY DEF IsMemoryState, Consistent

\* The snapshots that name m among a summary's parents: that of the cycle that
\* compressed it, and no other.
LEMMA Absorbed ==
  ASSUME NEW s, Good(s), NEW h, NEW c \in Nat, Recorded(h, s, c), NEW n \in 0 .. c,
         NEW g, Opening(g, h, n), NEW m \in Known(s),
         m \in Active(s) \/ s.mem[m].retired <= n
  PROVE  LET absorbing == {i \in DOMAIN g : m \in g[i].summary.parents}
         IN \/ /\ s.mem[m].status # "compressed"
               /\ StandsFor(s, m) = {} /\ absorbing = {}
            \/ /\ s.mem[m].status = "compressed"
               /\ \E k \in Known(s) :
                    /\ StandsFor(s, m) = {k} /\ absorbing = {s.mem[m].retired}
                    /\ g[s.mem[m].retired].summary.id = k
<1> DEFINE absorbing == {i \in DOMAIN g : m \in g[i].summary.parents}
<1>1. /\ IsMemoryState(s) /\ Lineage(s) /\ Dated(s, c)
      /\ DOMAIN g = 1 .. n /\ \A i \in 1 .. n : Tells(g[i], s, i)
  BY OpeningTells DEF Good, Recorded
<1>2. \A i \in 1 .. n : i \in absorbing <=>
        \E k \in Known(s) : k = g[i].summary.id /\ m \in s.mem[k].parents
  BY <1>1, ParentsTold
<1>3. \A i \in 1 .. n, k \in Known(s) :
        m \in s.mem[k].parents => (k = g[i].summary.id <=> s.mem[k].birth = i)
  BY <1>1, BornAs, OnlySummariesHaveParents
<1>4. \A k \in Known(s) : m \in s.mem[k].parents <=> k \in StandsFor(s, m)
  BY DEF StandsFor
<1>5. CASE s.mem[m].status # "compressed"
  <2>1. StandsFor(s, m) = {}
    BY <1>1, <1>5 DEF Lineage
  <2>2. absorbing = {}
    BY <1>1, <1>2, <1>4, <2>1
  <2> QED
    BY <1>5, <2>1, <2>2
<1>6. CASE s.mem[m].status = "compressed"
  <2>1. PICK k \in Known(s) : StandsFor(s, m) = {k} /\ s.mem[k].birth = s.mem[m].retired
    BY <1>1, <1>6 DEF Lineage
  <2>2. s.mem[m].retired \in 1 .. n
    <3>1. m \notin Active(s)
      BY <1>6 DEF Active
    <3>2. s.mem[m].retired \in 1 .. c
      BY <1>1, <3>1, MemoryDates
    <3> QED
      BY <3>1, <3>2
  <2>3. \A i \in 1 .. n : i \in absorbing <=> k = g[i].summary.id
    BY <1>2, <1>4, <2>1
  <2>4. \A i \in 1 .. n : k = g[i].summary.id <=> i = s.mem[m].retired
    BY <1>3, <1>4, <2>1
  <2>5. absorbing = {s.mem[m].retired} /\ g[s.mem[m].retired].summary.id = k
    BY <1>1, <2>2, <2>3, <2>4
  <2> QED
    BY <1>6, <2>1, <2>5
<1> QED
  BY <1>5, <1>6

\* What a memory is, a snapshot that has its statistics says.
LEMMA StatisticsTell ==
  ASSUME NEW s, NEW i, NEW x, Tells(x, s, i), NEW m \in DOMAIN x.statistics
  PROVE  /\ m \in Known(s)
         /\ x.statistics[m].kind = s.mem[m].kind /\ x.statistics[m].birth = s.mem[m].birth
<1>1. x.before \cup {x.candidate} \subseteq Known(s)
  BY DEF Tells, HeldAfter
<1> QED
  BY <1>1 DEF Tells

LEMMA EntryTold ==
  ASSUME NEW s, Good(s), NEW h, NEW c \in Nat, Recorded(h, s, c), NEW n \in 0 .. c,
         NEW g, Opening(g, h, n), NEW m \in RetiredBy(s, n), NEW r, r = s.mem[m].retired
  PROVE  /\ r \in DOMAIN g /\ m \in DOMAIN g[r].retired
         /\ GraveyardEntry(g, r, m) = EntryOf(s, m)
<1>1. /\ IsMemoryState(s) /\ Dated(s, c) /\ Cites(h, s) /\ DOMAIN h = 1 .. c
      /\ DOMAIN g = 1 .. n /\ \A i \in 1 .. n : Tells(g[i], s, i) /\ g[i] = h[i]
  <2>1. h \in Seq({h[i] : i \in DOMAIN h}) /\ Len(h) = c
    BY DEF Recorded
  <2>2. DOMAIN h = 1 .. c
    BY <2>1, Appended
  <2> QED
    BY <2>2, OpeningTells DEF Good, Recorded, Opening
<1>2. m \in Known(s) /\ r \in 1 .. n /\ r \in 1 .. c
  BY DEF RetiredBy
<1>3. /\ m \in Nat /\ m # Never /\ s.mem[m].birth \in 0 .. c /\ m \notin Active(s)
      /\ s.mem[m].birth < r
  <2>1. m \notin Active(s)
    BY <1>1, <1>2, MemoryDates DEF Never
  <2> QED
    BY <1>1, <1>2, <2>1, MemoryDates DEF Never
<1>4. Tells(g[r], s, r) /\ g[r].cycle = r
  BY <1>1, <1>2 DEF Tells
<1>5. m \in HeldAfter(s, r - 1) /\ m \in DOMAIN g[r].statistics
  <2>1. m \in HeldAfter(s, r - 1)
    BY <1>2, <1>3 DEF HeldAfter
  <2> QED
    BY <1>4, <2>1 DEF Tells
<1>6. m \in DOMAIN g[r].retired /\ g[r].retired[m] = s.mem[m].status
  BY <1>2, <1>4 DEF Tells, RetiredIn
<1>7. memory_type(g, m) = s.mem[m].kind
  <2> DEFINE told == {i \in DOMAIN g : m \in DOMAIN g[i].statistics}
  <2>1. n \in Nat /\ r \in told /\ told \in SUBSET (0 .. n) /\ told # {}
    BY <1>1, <1>2, <1>5
  <2>2. Min(told) \in told
    <3> HIDE DEF told
    <3> QED
      BY <2>1, MinIsLeast
  <2>3. memory_type(g, m) = g[Min(told)].statistics[m].kind
    BY <2>1 DEF memory_type
  <2>4. PICK i \in 1 .. n : i = Min(told) /\ m \in DOMAIN g[i].statistics
    BY <1>1, <2>2
  <2> HIDE DEF told
  <2> QED
    BY <1>1, <2>3, <2>4, StatisticsTell
<1>8. birth_cycle(g, m) = s.mem[m].birth
  <2> DEFINE tells(i) == m \in DOMAIN g[i].statistics \cup {g[i].candidate, g[i].summary.id}
             told == {i \in DOMAIN g : tells(i)}
             first == Min(told)
  <2>1. n \in Nat /\ r \in told /\ told \in SUBSET (0 .. n) /\ told # {}
    BY <1>1, <1>2, <1>5
  <2>2. first \in told
    <3> HIDE DEF told
    <3> QED
      BY <2>1, MinIsLeast
  <2>3. birth_cycle(g, m) =
          IF m \in g[1].before THEN 0
          ELSE IF m \in {g[first].candidate, g[first].summary.id} THEN g[first].cycle
          ELSE g[first].statistics[m].birth
    BY <2>1 DEF birth_cycle
  <2>4. PICK f \in 1 .. n : f = first /\ tells(f)
    BY <1>1, <2>2
  <2>5. CASE m \in g[1].before
    <3>1. Tells(g[1], s, 1)
      BY <1>1, <1>2
    <3>2. s.mem[m].birth <= 1 - 1
      BY <2>5, <3>1 DEF Tells, HeldAfter
    <3>3. s.mem[m].birth = 0
      BY <1>3, <3>2
    <3> QED
      BY <2>3, <2>5, <3>3
  <2>6. CASE m \notin g[1].before /\ m \in {g[f].candidate, g[f].summary.id}
    <3>1. Tells(g[f], s, f)
      BY <1>1
    <3>2. s.mem[m].birth = f
      BY <1>1, <1>2, <2>6, <3>1, BornAs
    <3>3. g[f].cycle = f
      BY <3>1 DEF Tells
    <3> HIDE DEF first
    <3> QED
      BY <2>3, <2>4, <2>6, <3>2, <3>3
  <2>7. CASE m \notin g[1].before /\ m \notin {g[f].candidate, g[f].summary.id}
    <3>1. Tells(g[f], s, f) /\ m \in DOMAIN g[f].statistics
      BY <1>1, <2>4, <2>7
    <3>2. g[f].statistics[m].birth = s.mem[m].birth
      BY <3>1, StatisticsTell
    <3> HIDE DEF first
    <3> QED
      BY <2>3, <2>4, <2>7, <3>2
  <2> QED
    BY <2>5, <2>6, <2>7
<1>9. last_cited_cycle(g, m) = s.mem[m].cited
  <2> DEFINE when == {i \in DOMAIN g : m \in g[i].cited}
             S == when \cup {Never}
  <2>1. citation_history(g, m) = when
    <3>1. \A i \in DOMAIN g : g[i].cycle = i
      BY <1>1, ZenonT(30) DEF Tells
    <3> QED
      BY <3>1 DEF citation_history
  <2>2. \A i \in when : i <= s.mem[m].cited /\ i \in 1 .. n
    BY <1>1, <1>2 DEF Cites
  <2>3. s.mem[m].cited \in S
    <3>1. CASE s.mem[m].cited # Never
      <4>1. s.mem[m].cited \in 1 .. c /\ m \in h[s.mem[m].cited].cited
        BY <1>1, <1>2, <3>1 DEF Cites
      <4>2. PICK i \in 1 .. c : i = s.mem[m].cited
        BY <4>1
      <4>3. m \in HeldAfter(s, i - 1)
        <5>1. Tells(h[i], s, i)
          BY DEF Recorded
        <5> QED
          BY <4>1, <4>2, <5>1, ZenonT(30) DEF Tells
      <4>4. i <= n
        BY <1>2, <1>3, <4>3 DEF HeldAfter
      <4> QED
        BY <1>1, <4>1, <4>2, <4>4
    <3> QED
      BY <3>1
  <2>4. S \in SUBSET (Never .. n) /\ n \in Nat
    BY <1>1 DEF Never
  <2>5. Max(S) \in S /\ \A y \in S : y <= Max(S)
    <3> HIDE DEF S
    <3> QED
      BY <2>3, <2>4, MaxIsGreatest
  <2>6. \A y \in S : y <= s.mem[m].cited
    <3>1. s.mem[m].cited = Never \/ s.mem[m].cited \in 1 .. n
      BY <1>1, <2>3
    <3> QED
      BY <2>2, <3>1 DEF Never
  <2>7. Max(S) = s.mem[m].cited
    <3>1. Max(S) \in Int /\ s.mem[m].cited \in Int
      BY <2>3, <2>4, <2>5 DEF Never
    <3>2. Max(S) <= s.mem[m].cited /\ s.mem[m].cited <= Max(S)
      BY <2>3, <2>5, <2>6
    <3> QED
      BY <3>1, <3>2
  <2> QED
    BY <2>1, <2>7 DEF last_cited_cycle
<1>10. /\ summary_descendant(g, m) = IF StandsFor(s, m) = {} THEN Never ELSE Max(StandsFor(s, m))
       /\ summary_descendant(g, m) = Never <=> s.mem[m].status # "compressed"
  <2> DEFINE absorbing == {i \in DOMAIN g : m \in g[i].summary.parents}
  <2>1. \/ /\ s.mem[m].status # "compressed"
           /\ StandsFor(s, m) = {} /\ absorbing = {}
        \/ /\ s.mem[m].status = "compressed"
           /\ \E k \in Known(s) : /\ StandsFor(s, m) = {k} /\ absorbing = {r}
                                  /\ g[r].summary.id = k
    BY <1>2, Absorbed
  <2>2. summary_descendant(g, m) = IF absorbing = {} THEN Never ELSE g[Max(absorbing)].summary.id
    BY DEF summary_descendant
  <2> HIDE DEF absorbing
  <2>3. CASE s.mem[m].status # "compressed"
    BY <2>1, <2>2, <2>3
  <2>4. CASE s.mem[m].status = "compressed"
    <3>1. PICK k \in Known(s) : /\ StandsFor(s, m) = {k} /\ absorbing = {r}
                                /\ g[r].summary.id = k
      BY <2>1, <2>4
    <3>2. k \in Int /\ k # Never /\ r \in Int
      BY <1>1, <1>2, MemoryIsFinite DEF Never
    <3>3. Max({r}) = r /\ Max({k}) = k
      BY <3>2, MaxOfOne
    <3> QED
      BY <2>2, <2>4, <3>1, <3>2, <3>3
  <2> QED
    BY <2>3, <2>4
<1>11. s.mem[m].status # "compressed" <=> s.mem[m].status = "evicted"
  <2>1. s.mem[m] \in Memory
    BY <1>1, <1>2, MemoryIsFinite
  <2> QED
    BY <1>2, <1>3, <2>1 DEF Memory, Active
<1>12. GraveyardEntry(g, r, m) = EntryOf(s, m)
  BY <1>4, <1>6, <1>7, <1>8, <1>9, <1>10, <1>11 DEF GraveyardEntry, EntryOf
<1> QED
  BY <1>1, <1>2, <1>6, <1>12

\* The graveyard of the first n snapshots is what had left by cycle n: whatever
\* the arm did since, build_graveyard finds what the state remembers.
LEMMA GraveyardTold ==
  ASSUME NEW s, Good(s), NEW h, NEW c \in Nat, Recorded(h, s, c), NEW n \in 0 .. c,
         NEW g, Opening(g, h, n)
  PROVE  build_graveyard(g) = GraveOf(s, n)
<1>1. DOMAIN g = 1 .. n /\ \A i \in 1 .. n : Tells(g[i], s, i)
  BY OpeningTells
<1>2. ASSUME NEW i \in DOMAIN g, NEW m \in DOMAIN g[i].retired
      PROVE  m \in RetiredBy(s, n) /\ i = s.mem[m].retired
  <2>1. Tells(g[i], s, i) /\ i \in 1 .. n
    BY <1>1
  <2>2. m \in RetiredIn(s, i)
    BY <2>1 DEF Tells
  <2> QED
    BY <2>1, <2>2 DEF RetiredIn, RetiredBy
<1>3. ASSUME NEW m \in RetiredBy(s, n)
      PROVE  /\ s.mem[m].retired \in DOMAIN g /\ m \in DOMAIN g[s.mem[m].retired].retired
             /\ GraveyardEntry(g, s.mem[m].retired, m) = EntryOf(s, m)
  BY EntryTold
<1>4. ASSUME NEW e \in build_graveyard(g) PROVE e \in GraveOf(s, n)
  <2>1. PICK i \in DOMAIN g : \E m \in DOMAIN g[i].retired : e = GraveyardEntry(g, i, m)
    BY <1>4 DEF build_graveyard
  <2>2. PICK m \in DOMAIN g[i].retired : e = GraveyardEntry(g, i, m)
    BY <2>1
  <2> QED
    BY <1>2, <1>3, <2>2 DEF GraveOf
<1>5. ASSUME NEW e \in GraveOf(s, n) PROVE e \in build_graveyard(g)
  <2>1. PICK m \in RetiredBy(s, n) : e = EntryOf(s, m)
    BY <1>5 DEF GraveOf
  <2> DEFINE r == s.mem[m].retired
  <2>2. r \in DOMAIN g /\ m \in DOMAIN g[r].retired /\ e = GraveyardEntry(g, r, m)
    BY <1>3, <2>1
  <2> HIDE DEF r
  <2> QED
    BY <2>2 DEF build_graveyard
<1> QED
  BY <1>4, <1>5

\* Every memory's lineage, as the snapshots tell it, is that of the state.
LEMMA LineageTold ==
  ASSUME NEW s, Good(s), NEW h, NEW c \in Nat, Recorded(h, s, c), NEW m \in Known(s)
  PROVE  lineage_of(h, m) = [parents |-> s.mem[m].parents, children |-> StandsFor(s, m)]
<1> DEFINE naming == {i \in DOMAIN h : h[i].summary.id = m}
           absorbing == {i \in DOMAIN h : m \in h[i].summary.parents}
<1>1. /\ IsMemoryState(s) /\ Dated(s, c)
      /\ DOMAIN h = 1 .. c /\ \A i \in 1 .. c : Tells(h[i], s, i)
  <2>1. h \in Seq({h[i] : i \in DOMAIN h}) /\ Len(h) = c
    BY DEF Recorded
  <2>2. DOMAIN h = 1 .. c
    BY <2>1, Appended
  <2> QED
    BY <2>2 DEF Good, Recorded
<1>2. c \in 0 .. c /\ Opening(h, h, c)
  BY <1>1 DEF Opening
<1>3. UNION {h[i].summary.parents : i \in naming} = s.mem[m].parents
  <2>1. \A i \in naming : \A x : x \in h[i].summary.parents <=> x \in s.mem[m].parents
    BY <1>1, ParentsTold
  <2>2. CASE s.mem[m].parents = {}
    BY <2>1, <2>2
  <2>3. CASE s.mem[m].parents # {}
    <3>1. s.mem[m].kind = "summary"
      BY <1>1, <2>3, OnlySummariesHaveParents
    <3>2. s.mem[m].birth \in 1 .. c
      <4>1. s.mem[m].birth # 0
        BY <1>1, <3>1 DEF Dated
      <4>2. s.mem[m].birth \in 0 .. c
        BY <1>1, MemoryDates
      <4> QED
        BY <4>1, <4>2
    <3>3. PICK i \in 1 .. c : i = s.mem[m].birth
      BY <3>2
    <3>4. Tells(h[i], s, i)
      BY <1>1
    <3>5. m = h[i].summary.id
      BY <1>1, <3>1, <3>3, <3>4, BornAs
    <3>6. i \in naming
      BY <1>1, <3>5
    <3> HIDE DEF naming
    <3> QED
      BY <2>1, <3>6
  <2> QED
    BY <2>2, <2>3
<1>4. {h[i].summary.id : i \in absorbing} = StandsFor(s, m)
  <2>1. m \in Active(s) \/ s.mem[m].retired <= c
    BY <1>1, MemoryDates
  <2>2. \/ StandsFor(s, m) = {} /\ absorbing = {}
        \/ \E k \in Known(s) : /\ StandsFor(s, m) = {k} /\ absorbing = {s.mem[m].retired}
                               /\ h[s.mem[m].retired].summary.id = k
    BY <1>2, <2>1, Absorbed
  <2> HIDE DEF absorbing
  <2> QED
    BY <2>2
<1> QED
  BY <1>3, <1>4 DEF lineage_of

LEMMA EdgesAreLineage ==
  ASSUME NEW s, Good(s), NEW m \in Known(s)
  PROVE  StandsFor(s, m) = {k \in Known(s) : <<m, k>> \in s.edges}
BY DEF Good, Lineage, StandsFor

\* What has left by now is what is not active.
LEMMA RetiredByNow ==
  ASSUME NEW s, Good(s), NEW c \in Nat, Dated(s, c)
  PROVE  RetiredBy(s, c) = Known(s) \ Active(s)
<1>1. \A m \in Known(s) : m \notin Active(s) <=> s.mem[m].retired \in 1 .. c
  BY MemoryDates DEF Good, Never
<1> QED
  BY <1>1 DEF RetiredBy

LEMMA RecordTells ==
  ASSUME RecordInv
  PROVE  /\ Good(committed) /\ cycle \in Nat /\ Recorded(history, committed, cycle)
         /\ Dated(committed, cycle) /\ Opening(history, history, cycle)
         /\ history \in Seq({history[i] : i \in DOMAIN history}) /\ Len(history) = cycle
         /\ DOMAIN history = 1 .. cycle
         /\ \A i \in 1 .. cycle : Tells(history[i], committed, i)
<1>1. /\ Good(committed) /\ cycle \in Nat /\ Recorded(history, committed, cycle)
  BY DEF RecordInv, ArmInv, OrderInv, PolicyInv, Inv, TypeOK
<1>2. history \in Seq({history[i] : i \in DOMAIN history}) /\ Len(history) = cycle
  BY <1>1 DEF Recorded
<1>3. DOMAIN history = 1 .. cycle
  BY <1>2, Appended
<1> QED
  BY <1>1, <1>2, <1>3 DEF Recorded, Opening

LEMMA RunIsRecorded == RunSpec => []RecordInv
<1>1. RecordInv /\ [RunNext]_runVars => RecordInv'
  BY RecordKept
<1> QED
  BY <1>1, RecordStarts, PTL DEF RunSpec

\* The graveyard the analysis tells from the snapshots, and the lineage the API
\* gives, are those of the arm's own state, whatever the policy, the budget and
\* the number of cycles: build_graveyard, lineage_of.
THEOREM GraveyardIsTold == RunSpec => []GraveyardIsWhatLeft
<1>1. RecordInv => GraveyardIsWhatLeft
  <2> SUFFICES ASSUME RecordInv PROVE GraveyardIsWhatLeft
    OBVIOUS
  <2> DEFINE s == committed
  <2>1. /\ Good(s) /\ cycle \in Nat /\ Recorded(history, s, cycle) /\ Dated(s, cycle)
        /\ Opening(history, history, cycle) /\ cycle \in 0 .. cycle
    BY RecordTells
  <2>2. build_graveyard(history) = {EntryOf(s, m) : m \in Known(s) \ Active(s)}
    BY <2>1, GraveyardTold, RetiredByNow DEF GraveOf
  <2>3. \A m \in Known(s) :
          lineage_of(history, m) = [parents |-> s.mem[m].parents,
                                    children |-> {k \in Known(s) : <<m, k>> \in s.edges}]
    BY <2>1, LineageTold, EdgesAreLineage
  <2> QED
    BY <2>2, <2>3 DEF GraveyardIsWhatLeft, EntryOf, StandsFor
<1> QED
  BY <1>1, RunIsRecorded, PTL

-----------------------------------------------------------------------------
(* What a reader was told once.                                            *)

\* What a step of the run does to the arm and its snapshots.
RunAdvances ==
  /\ ArmStep
  /\ cycle' = cycle + 1 /\ Completes(committed, committed', cycle + 1)
  /\ history' = Append(history, ArmCycleSnapshot(committed, committed', cycle + 1))

LEMMA RunMoves ==
  ASSUME RecordInv, [RunNext]_runVars
  PROVE  UNCHANGED <<committed, cycle, history>> \/ RunAdvances
<1>1. CASE ArmStep
  <2>1. ArmInv
    BY DEF RecordInv
  <2>2. \/ UNCHANGED <<committed, cycle>>
        \/ cycle' = cycle + 1 /\ Completes(committed, committed', cycle + 1)
    BY <1>1, <2>1, ArmStepKeeps
  <2>3. CASE UNCHANGED <<committed, cycle>>
    BY <1>1, <2>3 DEF ArmStep
  <2>4. CASE cycle' = cycle + 1 /\ Completes(committed, committed', cycle + 1)
    <3>1. committed' # committed
      BY <2>4, StepShape DEF Completes
    <3> QED
      BY <1>1, <2>4, <3>1 DEF ArmStep, RunAdvances
  <2> QED
    BY <2>2, <2>3, <2>4
<1>2. CASE UNCHANGED armVars /\ UNCHANGED history
  BY <1>2 DEF armVars, vars
<1>3. CASE \E c \in Checkpoints : RunCheckpoint(c)
  BY <1>2, <1>3 DEF RunCheckpoint
<1>4. CASE \E p \in Pass : PassStep(p)
  BY <1>2, <1>4 DEF PassStep, Begin, ReadStates, ReadInterviews, StoreMetrics, StoreStatus,
       StoreArtefacts, Collect, Clear, CanonicalExportExists, Publish, Die, DieStoring, Turn,
       storeVars
<1>5. CASE UNCHANGED runVars
  BY <1>2, <1>5 DEF runVars, storeVars
<1> QED
  BY <1>1, <1>3, <1>4, <1>5 DEF RunNext

\* A retired memory's entry is final, its descendant included: what the next
\* summary takes in is active.
LEMMA EntriesStay ==
  ASSUME NEW s, NEW t, NEW c \in Nat, Dated(s, c), NEW now, now = c + 1,
         Completes(s, t, now), NEW m \in Known(s), m \notin Active(s)
  PROVE  m \in Known(t) /\ t.mem[m] = s.mem[m] /\ EntryOf(t, m) = EntryOf(s, m)
<1>1. /\ Good(s) /\ Good(t) /\ IsMemoryState(s) /\ IsMemoryState(t)
  BY DEF Completes, Step, Good
<1>2. Redates(s, t, c)
  BY CycleRedates
<1>3. m \in Known(t) /\ t.mem[m] = s.mem[m]
  BY <1>2 DEF Redates
<1>4. StandsFor(t, m) = StandsFor(s, m)
  <2>1. \A k \in StandsFor(s, m) : k \in StandsFor(t, m)
    BY <1>2 DEF Redates, StandsFor
  <2>2. CASE s.mem[m].status = "compressed"
    <3>1. PICK k \in Known(s) : StandsFor(s, m) = {k}
      BY <1>1, <2>2 DEF Good, Lineage
    <3>2. PICK j \in Known(t) : StandsFor(t, m) = {j}
      BY <1>1, <1>3, <2>2 DEF Good, Lineage
    <3> QED
      BY <2>1, <3>1, <3>2
  <2>3. CASE s.mem[m].status # "compressed"
    BY <1>1, <1>3, <2>3 DEF Good, Lineage
  <2> QED
    BY <2>2, <2>3
<1> QED
  BY <1>3, <1>4 DEF EntryOf

LEMMA EntryFound ==
  ASSUME NEW s, NEW n, NEW m
  PROVE  Entry(GraveOf(s, n), m) = IF m \in RetiredBy(s, n) THEN EntryOf(s, m) ELSE NotFound
<1>1. \A e \in GraveOf(s, n) : e.memory \in RetiredBy(s, n) /\ e = EntryOf(s, e.memory)
  BY DEF GraveOf, EntryOf
<1>2. m \in RetiredBy(s, n) => EntryOf(s, m) \in GraveOf(s, n) /\ EntryOf(s, m).memory = m
  BY DEF GraveOf, EntryOf
<1> QED
  BY <1>1, <1>2 DEF Entry

\* What is told of a run that is recorded: by the snapshots, of the state.
LEMMA GraveyardNow ==
  ASSUME NEW s, Good(s), NEW h, NEW c \in Nat, Recorded(h, s, c)
  PROVE  /\ DOMAIN h = 1 .. c /\ Len(h) = c
         /\ build_graveyard(h) = GraveOf(s, c)
<1>1. h \in Seq({h[i] : i \in DOMAIN h}) /\ Len(h) = c
  BY DEF Recorded
<1>2. DOMAIN h = 1 .. c
  BY <1>1, Appended
<1>3. Opening(h, h, c) /\ c \in 0 .. c
  BY <1>2 DEF Opening
<1> QED
  BY <1>1, <1>2, <1>3, GraveyardTold

LEMMA AnswersStayOnce ==
  ASSUME RecordInv, RunAdvances
  PROVE  /\ \A c \in list_cycles : get_cycle(c)' = get_cycle(c)
         /\ \A m \in Known(committed) :
              Entry(get_graveyard, m) \in {NotFound, Entry(get_graveyard', m)}
<1> DEFINE s == committed
           t == committed'
           h == history
           g == history'
           now == cycle + 1
<1>1. /\ Good(s) /\ cycle \in Nat /\ Recorded(h, s, cycle) /\ Dated(s, cycle)
      /\ h \in Seq({h[i] : i \in DOMAIN h})
  BY RecordTells
<1>2. now = cycle + 1 /\ now \in Nat /\ cycle' = now
  BY <1>1 DEF RunAdvances
<1>3. Completes(s, t, now) /\ g = Append(h, ArmCycleSnapshot(s, t, now))
  BY DEF RunAdvances
<1>4. Good(t)
  BY <1>3 DEF Completes, Step
<1> HIDE DEF s, t, h, g, now
<1>5. Recorded(g, t, now)
  BY <1>1, <1>2, <1>3, RecordGrows
<1>6. /\ DOMAIN h = 1 .. cycle /\ Len(h) = cycle /\ build_graveyard(h) = GraveOf(s, cycle)
      /\ DOMAIN g = 1 .. now /\ Len(g) = now /\ build_graveyard(g) = GraveOf(t, now)
  BY <1>1, <1>2, <1>4, <1>5, GraveyardNow
<1>7. \A i \in 1 .. cycle : g[i] = h[i]
  BY <1>1, <1>3, <1>6, Appended
<1>8. ASSUME NEW c \in list_cycles PROVE get_cycle(c)' = get_cycle(c)
  <2>1. PICK i \in 1 .. cycle : c = h[i].cycle
    BY <1>6, <1>8 DEF list_cycles, list_completed_cycles, h
  <2>2. Tells(h[i], s, i)
    BY <1>1, <2>1 DEF Recorded
  <2>3. c = i
    BY <2>1, <2>2 DEF Tells
  <2>4. c \in 1 .. now /\ g[c] = h[c] /\ g[c].cycle = c
    <3>1. g[i] = h[i] /\ h[i].cycle = i
      BY <1>7, <2>1, <2>3
    <3>2. i \in 1 .. now
      BY <1>1, <1>2, <2>1
    <3> QED
      BY <2>3, <3>1, <3>2
  <2>5. get_cycle(c) = CycleView(h[c])
    BY <1>6, <1>8, <2>1, <2>3 DEF get_cycle, Completed, current_cycle, h
  <2>6. get_cycle(c)' = CycleView(g[c])
    BY <1>6, <2>4 DEF get_cycle, Completed, current_cycle, list_cycles, list_completed_cycles,
         CycleView, g
  <2> QED
    BY <2>4, <2>5, <2>6
<1>9. ASSUME NEW m \in Known(s)
      PROVE  Entry(build_graveyard(h), m) \in {NotFound, Entry(build_graveyard(g), m)}
  <2>1. CASE m \in RetiredBy(s, cycle)
    <3>1. m \notin Active(s)
      BY <1>1, <2>1, MemoryDates DEF RetiredBy, Good, Never
    <3>2. m \in Known(t) /\ t.mem[m] = s.mem[m] /\ EntryOf(t, m) = EntryOf(s, m)
      BY <1>1, <1>2, <1>3, <3>1, EntriesStay
    <3>3. m \in RetiredBy(t, now)
      BY <1>1, <1>2, <2>1, <3>2 DEF RetiredBy
    <3> QED
      BY <1>6, <2>1, <3>2, <3>3, EntryFound
  <2>2. CASE m \notin RetiredBy(s, cycle)
    BY <1>6, <2>2, EntryFound
  <2> QED
    BY <2>1, <2>2
<1> QED
  BY <1>8, <1>9 DEF get_graveyard, s, h, g

\* What the API marks immutable stays as it was first told: the view of every
\* committed cycle and the graveyard entry of every retired memory, whatever
\* the run goes on to forget, compress and cite: get_cycle,
\* get_graveyard_entry.
THEOREM AnswersAreFinal == RunSpec => AnswersStay
<1>1. RecordInv /\ [RunNext]_runVars =>
        [Quiet' /\ cycle' # cycle =>
           LET was == get_graveyard
               is == get_graveyard'
           IN /\ \A c \in list_cycles : get_cycle(c)' = get_cycle(c)
              /\ \A m \in Known(committed) : Entry(was, m) \in {NotFound, Entry(is, m)}]_runVars
  <2> SUFFICES ASSUME RecordInv, [RunNext]_runVars, cycle' # cycle
               PROVE  /\ \A c \in list_cycles : get_cycle(c)' = get_cycle(c)
                      /\ \A m \in Known(committed) :
                           Entry(get_graveyard, m) \in {NotFound, Entry(get_graveyard', m)}
    OBVIOUS
  <2> QED
    BY RunMoves, AnswersStayOnce
<1> QED
  BY <1>1, RunIsRecorded, PTL DEF RunSpec, AnswersStay

-----------------------------------------------------------------------------
(* The steps of a pass, in the order Order gives them.                     *)

StepNames == {"states", "interviews", "metrics", "status", "artefacts", "collect snapshots",
           "collect interviews", "collect metrics", "collect states", "clear", "publish"}

LEMMA AfterIs ==
  ASSUME NEW p, NEW order \in Seq(StepNames), order = Order(p),
         NEW i \in 1 .. Len(order), \A j \in 1 .. Len(order) : order[j] = order[i] => j = i
  PROVE  Following(p, order[i]) = IF i = Len(order) THEN "over" ELSE order[i + 1]
<1>1. DOMAIN order = 1 .. Len(order)
  OBVIOUS
<1>2. (CHOOSE j \in DOMAIN order : order[j] = order[i]) = i
  BY <1>1
<1> QED
  BY <1>2 DEF Following

LEMMA Joined ==
  ASSUME NEW S, NEW B \in Seq(S), NEW C \in Seq(S), Len(B) = 4
  PROVE /\ B \o C \in Seq(S) /\ Len(B \o C) = 4 + Len(C)
        /\ \A i \in 1 .. 4 : (B \o C)[i] = B[i]
        /\ \A i \in 5 .. 4 + Len(C) : (B \o C)[i] = C[i - 4]
<1>1. /\ B \o C \in Seq(S) /\ Len(B \o C) = Len(B) + Len(C)
      /\ \A i \in 1 .. Len(B) + Len(C) : (B \o C)[i] =
                     IF i <= Len(B) THEN B[i] ELSE C[i - Len(B)]
  BY ConcatProperties, Zenon
<1>2. Len(C) \in Nat
  OBVIOUS
<1>3. \A i \in 1 .. 4 : (B \o C)[i] = B[i]
  BY <1>1, <1>2
<1>4. \A i \in 5 .. 4 + Len(C) : (B \o C)[i] = C[i - 4]
  BY <1>1, <1>2
<1> QED
  BY <1>1, <1>3, <1>4

LEMMA OrderOfExport ==
  ASSUME NEW p, p \in Export
  PROVE  /\ Order(p) \in Seq(StepNames) /\ Len(Order(p)) = 10
         /\ Order(p)[1] = "states" /\ Order(p)[2] = "interviews" /\ Order(p)[3] = "metrics"
         /\ Order(p)[4] = "status" /\ Order(p)[5] = "collect snapshots"
         /\ Order(p)[6] = "collect interviews" /\ Order(p)[7] = "collect metrics"
         /\ Order(p)[8] = "collect states" /\ Order(p)[9] = "clear" /\ Order(p)[10] = "publish"
<1>1. AnalyseRun \in Seq(StepNames) /\ Len(AnalyseRun) = 4
  BY DEF AnalyseRun, StepNames
<1>2. ExportDataset \in Seq(StepNames) /\ Len(ExportDataset) = 6
  BY DEF ExportDataset, StepNames
<1>3. Order(p) = AnalyseRun \o ExportDataset
  BY Zenon DEF Order
<1> HIDE DEF StepNames
<1>4. 4 + Len(ExportDataset) = 10
  BY <1>2
<1>5. /\ Order(p) \in Seq(StepNames) /\ Len(Order(p)) = 4 + Len(ExportDataset)
      /\ \A i \in 1 .. 4 : Order(p)[i] = AnalyseRun[i]
      /\ \A i \in 5 .. 4 + Len(ExportDataset) : Order(p)[i] = ExportDataset[i - 4]
  <2> DEFINE B == AnalyseRun
             C == ExportDataset
  <2>1. B \in Seq(StepNames) /\ C \in Seq(StepNames) /\ Len(B) = 4
    BY <1>1, <1>2
  <2>2. Order(p) = B \o C
    BY <1>3
  <2> HIDE DEF B, C
  <2>3. /\ B \o C \in Seq(StepNames) /\ Len(B \o C) = 4 + Len(C)
        /\ \A i \in 1 .. 4 : (B \o C)[i] = B[i]
        /\ \A i \in 5 .. 4 + Len(C) : (B \o C)[i] = C[i - 4]
    BY <2>1, Joined
  <2>4. /\ Order(p) \in Seq(StepNames) /\ Len(Order(p)) = 4 + Len(C)
        /\ \A i \in 1 .. 4 : Order(p)[i] = B[i]
        /\ \A i \in 5 .. 4 + Len(C) : Order(p)[i] = C[i - 4]
    BY <2>2, <2>3
  <2> QED
    BY <2>4 DEF B, C
<1>6. /\ Len(Order(p)) = 10
      /\ \A i \in 5 .. 10 : Order(p)[i] = ExportDataset[i - 4]
  BY <1>4, <1>5
<1>7. /\ Order(p)[5] = ExportDataset[1] /\ Order(p)[6] = ExportDataset[2]
       /\ Order(p)[7] = ExportDataset[3] /\ Order(p)[8] = ExportDataset[4]
       /\ Order(p)[9] = ExportDataset[5] /\ Order(p)[10] = ExportDataset[6]
  BY <1>6
<1>8. /\ Order(p)[1] = AnalyseRun[1] /\ Order(p)[2] = AnalyseRun[2]
      /\ Order(p)[3] = AnalyseRun[3] /\ Order(p)[4] = AnalyseRun[4]
  BY <1>5
<1>9. /\ AnalyseRun[1] = "states" /\ AnalyseRun[2] = "interviews" /\ AnalyseRun[3] = "metrics"
      /\ AnalyseRun[4] = "status"
  BY DEF AnalyseRun
<1>10. /\ ExportDataset[1] = "collect snapshots" /\ ExportDataset[2] = "collect interviews"
      /\ ExportDataset[3] = "collect metrics" /\ ExportDataset[4] = "collect states"
      /\ ExportDataset[5] = "clear" /\ ExportDataset[6] = "publish"
  BY DEF ExportDataset
<1> QED
  BY <1>5, <1>6, <1>7, <1>8, <1>9, <1>10, Zenon

LEMMA AfterExport ==
  ASSUME NEW p, p \in Export
  PROVE  /\ Following(p, "states") = "interviews" /\ Following(p, "interviews") = "metrics"
         /\ Following(p, "metrics") = "status"
         /\ Following(p, "status") = "collect snapshots"
         /\ Following(p, "collect snapshots") = "collect interviews"
         /\ Following(p, "collect interviews") = "collect metrics"
         /\ Following(p, "collect metrics") = "collect states"
         /\ Following(p, "collect states") = "clear"
         /\ Following(p, "clear") = "publish" /\ Following(p, "publish") = "over"
<1> DEFINE order == Order(p)
<1>1. /\ order = Order(p) /\ order \in Seq(StepNames) /\ Len(order) = 10
  BY OrderOfExport
<1>2. /\ order[1] = "states" /\ order[2] = "interviews" /\ order[3] = "metrics"
      /\ order[4] = "status" /\ order[5] = "collect snapshots"
      /\ order[6] = "collect interviews" /\ order[7] = "collect metrics"
      /\ order[8] = "collect states" /\ order[9] = "clear" /\ order[10] = "publish"
  BY OrderOfExport
<1> HIDE DEF order
<1>3. \A i, j \in 1 .. 10 : order[i] = order[j] => i = j
  <2>1. \A i \in 1 .. 10 : \/ i = 1 \/ i = 2 \/ i = 3 \/ i = 4 \/ i = 5 \/ i = 6 \/ i = 7 \/ i = 8 \/ i = 9 \/ i = 10
    OBVIOUS
  <2> QED
    BY <1>2, <2>1, ZenonT(30)
<1>4. ASSUME NEW i \in 1 .. 10
      PROVE  Following(p, order[i]) = IF i = 10 THEN "over" ELSE order[i + 1]
  <2>1. i \in 1 .. Len(order) /\ \A j \in 1 .. Len(order) : order[j] = order[i] => j = i
    BY <1>1, <1>3
  <2>2. Following(p, order[i]) = IF i = Len(order) THEN "over" ELSE order[i + 1]
    BY <1>1, <2>1, AfterIs
  <2> QED
    BY <1>1, <2>2
<1>5. /\ Following(p, order[1]) = order[2] /\ Following(p, order[2]) = order[3]
      /\ Following(p, order[3]) = order[4] /\ Following(p, order[4]) = order[5]
      /\ Following(p, order[5]) = order[6] /\ Following(p, order[6]) = order[7]
      /\ Following(p, order[7]) = order[8] /\ Following(p, order[8]) = order[9]
      /\ Following(p, order[9]) = order[10] /\ Following(p, order[10]) = "over"
  BY <1>4
<1> QED
  BY <1>2, <1>5, Zenon

LEMMA OrderOfAnalysis ==
  ASSUME NEW p, p \notin Export
  PROVE  /\ Order(p) \in Seq(StepNames) /\ Len(Order(p)) = 5
         /\ Order(p)[1] = "states" /\ Order(p)[2] = "interviews" /\ Order(p)[3] = "metrics"
         /\ Order(p)[4] = "status" /\ Order(p)[5] = "artefacts"
<1> DEFINE last == <<"artefacts">>
<1>1. AnalyseRun \in Seq(StepNames) /\ Len(AnalyseRun) = 4
  BY DEF AnalyseRun, StepNames
<1>2. last \in Seq(StepNames) /\ Len(last) = 1 /\ last[1] = "artefacts"
  BY DEF StepNames
<1>3. Order(p) = AnalyseRun \o last
  BY Zenon DEF Order
<1> HIDE DEF StepNames, last
<1>4. 4 + Len(last) = 5
  BY <1>2
<1>5. /\ Order(p) \in Seq(StepNames) /\ Len(Order(p)) = 4 + Len(last)
      /\ \A i \in 1 .. 4 : Order(p)[i] = AnalyseRun[i]
      /\ \A i \in 5 .. 4 + Len(last) : Order(p)[i] = last[i - 4]
  <2> DEFINE B == AnalyseRun
             C == last
  <2>1. B \in Seq(StepNames) /\ C \in Seq(StepNames) /\ Len(B) = 4
    BY <1>1, <1>2
  <2>2. Order(p) = B \o C
    BY <1>3
  <2> HIDE DEF B, C
  <2>3. /\ B \o C \in Seq(StepNames) /\ Len(B \o C) = 4 + Len(C)
        /\ \A i \in 1 .. 4 : (B \o C)[i] = B[i]
        /\ \A i \in 5 .. 4 + Len(C) : (B \o C)[i] = C[i - 4]
    BY <2>1, Joined
  <2>4. /\ Order(p) \in Seq(StepNames) /\ Len(Order(p)) = 4 + Len(C)
        /\ \A i \in 1 .. 4 : Order(p)[i] = B[i]
        /\ \A i \in 5 .. 4 + Len(C) : Order(p)[i] = C[i - 4]
    BY <2>2, <2>3
  <2> QED
    BY <2>4 DEF B, C
<1>6. Len(Order(p)) = 5 /\ Order(p)[5] = "artefacts"
  BY <1>2, <1>4, <1>5
<1>7. /\ Order(p)[1] = AnalyseRun[1] /\ Order(p)[2] = AnalyseRun[2]
      /\ Order(p)[3] = AnalyseRun[3] /\ Order(p)[4] = AnalyseRun[4]
  BY <1>5
<1>8. /\ AnalyseRun[1] = "states" /\ AnalyseRun[2] = "interviews" /\ AnalyseRun[3] = "metrics"
      /\ AnalyseRun[4] = "status"
  BY DEF AnalyseRun
<1> QED
  BY <1>5, <1>6, <1>7, <1>8, Zenon

LEMMA AfterAnalysis ==
  ASSUME NEW p, p \notin Export
  PROVE  /\ Following(p, "states") = "interviews" /\ Following(p, "interviews") = "metrics"
         /\ Following(p, "metrics") = "status"
         /\ Following(p, "status") = "artefacts" /\ Following(p, "artefacts") = "over"
<1> DEFINE order == Order(p)
<1>1. /\ order = Order(p) /\ order \in Seq(StepNames) /\ Len(order) = 5
  BY OrderOfAnalysis
<1>2. /\ order[1] = "states" /\ order[2] = "interviews" /\ order[3] = "metrics"
      /\ order[4] = "status" /\ order[5] = "artefacts"
  BY OrderOfAnalysis
<1> HIDE DEF order
<1>3. \A i, j \in 1 .. 5 : order[i] = order[j] => i = j
  <2>1. \A i \in 1 .. 5 : \/ i = 1 \/ i = 2 \/ i = 3 \/ i = 4 \/ i = 5
    OBVIOUS
  <2> QED
    BY <1>2, <2>1
<1>4. ASSUME NEW i \in 1 .. 5
      PROVE  Following(p, order[i]) = IF i = 5 THEN "over" ELSE order[i + 1]
  <2>1. i \in 1 .. Len(order) /\ \A j \in 1 .. Len(order) : order[j] = order[i] => j = i
    BY <1>1, <1>3
  <2>2. Following(p, order[i]) = IF i = Len(order) THEN "over" ELSE order[i + 1]
    BY <1>1, <2>1, AfterIs
  <2> QED
    BY <1>1, <2>2
<1>5. /\ Following(p, order[1]) = order[2] /\ Following(p, order[2]) = order[3]
      /\ Following(p, order[3]) = order[4] /\ Following(p, order[4]) = order[5]
      /\ Following(p, order[5]) = "over"
  BY <1>4
<1> QED
  BY <1>2, <1>5, Zenon

LEMMA Overlaid ==
  ASSUME NEW f, NEW g
  PROVE  /\ DOMAIN Over(f, g) = DOMAIN f \cup DOMAIN g
         /\ \A x \in DOMAIN f : Over(f, g)[x] = f[x]
         /\ \A x \in DOMAIN g \ DOMAIN f : Over(f, g)[x] = g[x]
BY DEF Over

\* A pass that takes its next step keeps what the step gives it and the rest.
Moved(x, y, next, fields) ==
  /\ {"at"} \cup DOMAIN fields \cup DOMAIN x \subseteq DOMAIN y
  /\ y.at = next
  /\ \A f \in DOMAIN fields : y[f] = fields[f]
  /\ \A f \in DOMAIN x \ ({"at"} \cup DOMAIN fields) : y[f] = x[f]

LEMMA Turns ==
  ASSUME NEW p \in Pass, NEW name, NEW fields, "at" \notin DOMAIN fields, DOMAIN passes = Pass,
         Turn(p, name, fields)
  PROVE  /\ phase = "idle" /\ UNCHANGED vars /\ passes[p].at = name
         /\ DOMAIN passes' = Pass /\ \A q \in Pass \ {p} : passes'[q] = passes[q]
         /\ \/ /\ Following(p, name) = "over" /\ passes'[p] = [at |-> "over"]
               /\ settled' = settled \cup {q \in {p} : passes[p].fresh}
            \/ /\ Following(p, name) # "over" /\ settled' = settled
               /\ Moved(passes[p], passes'[p], Following(p, name), fields)
<1> DEFINE next == Following(p, name)
           first == Keep("at", next)
           kept == Over(fields, passes[p])
           moved == Over(first, kept)
<1>1. /\ phase = "idle" /\ UNCHANGED vars /\ passes[p].at = name
      /\ passes' = [passes EXCEPT ![p] = IF next = "over" THEN [at |-> "over"] ELSE moved]
      /\ settled' = settled \cup {q \in {p} : next = "over" /\ passes[p].fresh}
  BY DEF Turn, armVars
<1>2. DOMAIN first = {"at"} /\ first["at"] = next
  BY DEF Keep
<1> HIDE DEF next, first
<1>3. Moved(passes[p], moved, next, fields)
  <2>1. /\ DOMAIN kept = DOMAIN fields \cup DOMAIN passes[p]
        /\ \A f \in DOMAIN fields : kept[f] = fields[f]
        /\ \A f \in DOMAIN passes[p] \ DOMAIN fields : kept[f] = passes[p][f]
    BY Overlaid
  <2> HIDE DEF kept
  <2>2. /\ DOMAIN moved = DOMAIN first \cup DOMAIN kept
        /\ \A f \in DOMAIN first : moved[f] = first[f]
        /\ \A f \in DOMAIN kept \ DOMAIN first : moved[f] = kept[f]
    BY Overlaid
  <2> HIDE DEF moved
  <2>3. /\ DOMAIN moved = {"at"} \cup DOMAIN kept /\ moved.at = next
        /\ \A f \in DOMAIN kept \ {"at"} : moved[f] = kept[f]
    BY <1>2, <2>2
  <2> QED
    BY <2>1, <2>3 DEF Moved
<1> HIDE DEF moved
<1>4. /\ DOMAIN passes' = Pass /\ \A q \in Pass \ {p} : passes'[q] = passes[q]
      /\ passes'[p] = IF next = "over" THEN [at |-> "over"] ELSE moved
  BY <1>1
<1>5. next = "over" => settled' = settled \cup {q \in {p} : passes[p].fresh}
  BY <1>1
<1>6. next # "over" => settled' = settled
  BY <1>1
<1> QED
  BY <1>1, <1>3, <1>4, <1>5, <1>6 DEF next

-----------------------------------------------------------------------------
(* The echoes, told of the state alone.                                    *)

EchoCycles(s, n) == {i \in 1 .. n : RetiredBy(s, i - 1) # {}}

\* What is measured of a memory m first told of in cycle i.
EchoOf(s, i, m) ==
  Evidence(Nearness(m, LostBy(s, i - 1)) - Nearness(m, HeldAfter(s, i - 1) \ {m}),
           Nearest(m, LostBy(s, i - 1)))

\* What had left before cycle i, of what had left by n.
LEMMA EarlierTold ==
  ASSUME NEW s, NEW n \in Nat, NEW i \in 1 .. n
  PROVE  /\ {e \in GraveOf(s, n) : e.retirement < i} = GraveOf(s, i - 1)
         /\ GraveOf(s, i - 1) = {} <=> RetiredBy(s, i - 1) = {}
         /\ {e.memory : e \in {e \in GraveOf(s, i - 1) : e.genuinely_inaccessible}} =
              LostBy(s, i - 1)
<1>1. \A m : EntryOf(s, m).memory = m /\ EntryOf(s, m).retirement = s.mem[m].retired
             /\ EntryOf(s, m).genuinely_inaccessible = (s.mem[m].status = "evicted")
  BY DEF EntryOf
<1>2. RetiredBy(s, i - 1) = {m \in RetiredBy(s, n) : s.mem[m].retired < i}
  <2>1. \A r : r \in 1 .. i - 1 <=> r \in 1 .. n /\ r < i
    OBVIOUS
  <2> QED
    BY <2>1 DEF RetiredBy
<1>3. {e \in GraveOf(s, n) : e.retirement < i} = GraveOf(s, i - 1)
  BY <1>1, <1>2 DEF GraveOf
<1>4. {e.memory : e \in {e \in GraveOf(s, i - 1) : e.genuinely_inaccessible}} = LostBy(s, i - 1)
  <2> DEFINE lost == {e \in GraveOf(s, i - 1) : e.genuinely_inaccessible}
  <2>1. \A e \in lost : e.memory \in LostBy(s, i - 1)
    BY <1>1 DEF GraveOf, LostBy
  <2>2. ASSUME NEW m \in LostBy(s, i - 1) PROVE \E e \in lost : e.memory = m
    <3>1. m \in RetiredBy(s, i - 1) /\ s.mem[m].status = "evicted"
      BY DEF LostBy
    <3>2. EntryOf(s, m) \in GraveOf(s, i - 1)
      BY <3>1 DEF GraveOf
    <3>3. EntryOf(s, m).memory = m /\ EntryOf(s, m).genuinely_inaccessible
      BY <1>1, <3>1
    <3> QED
      BY <3>2, <3>3
  <2> HIDE DEF lost
  <2>3. {e.memory : e \in lost} = LostBy(s, i - 1)
    BY <2>1, <2>2
  <2> QED
    BY <2>3 DEF lost
<1>5. GraveOf(s, i - 1) = {} <=> RetiredBy(s, i - 1) = {}
  BY DEF GraveOf
<1> QED
  BY <1>3, <1>4, <1>5

LEMMA EchoesTold ==
  ASSUME NEW s, Good(s), NEW h, NEW c \in Nat, Recorded(h, s, c), NEW n \in 0 .. c,
         NEW g, Opening(g, h, n)
  PROVE  /\ DOMAIN Echoes(g, s) = EchoCycles(s, n)
         /\ \A i \in EchoCycles(s, n) :
              Evidence(Echoes(g, s)[i].delta, Echoes(g, s)[i].nearest) =
                EchoOf(s, i, h[i].candidate)
<1> DEFINE earlier(i) == {e \in GraveOf(s, n) : e.retirement < g[i].cycle}
<1>1. n \in Nat /\ DOMAIN g = 1 .. n /\ \A i \in 1 .. n : Tells(g[i], s, i) /\ g[i] = h[i]
  BY OpeningTells DEF Opening
<1>2. build_graveyard(g) = GraveOf(s, n)
  BY GraveyardTold
<1>3. \A i \in 1 .. n : /\ g[i].cycle = i /\ earlier(i) = GraveOf(s, i - 1)
                        /\ SeenThen(s, g[i]) = HeldAfter(s, i - 1)
  <2> SUFFICES ASSUME NEW i \in 1 .. n
               PROVE  /\ g[i].cycle = i /\ earlier(i) = GraveOf(s, i - 1)
                      /\ SeenThen(s, g[i]) = HeldAfter(s, i - 1)
    OBVIOUS
  <2>1. Tells(g[i], s, i)
    BY <1>1
  <2>2. g[i].cycle = i /\ g[i].before = HeldAfter(s, i - 1)
    BY <2>1 DEF Tells
  <2>3. earlier(i) = GraveOf(s, i - 1)
    BY <1>1, <2>2, EarlierTold
  <2>4. HeldAfter(s, i - 1) \subseteq Known(s)
    BY DEF HeldAfter
  <2> QED
    BY <2>2, <2>3, <2>4 DEF SeenThen
<1> DEFINE cycles == {i \in 1 .. n : earlier(i) # {}}
<1>4. Echoes(g, s) = [i \in cycles |-> measure_echo(g[i].candidate, earlier(i), SeenThen(s, g[i]))]
  BY <1>1, <1>2, Zenon DEF Echoes
<1>5. cycles = EchoCycles(s, n)
  <2>1. \A i \in 1 .. n : earlier(i) = {} <=> RetiredBy(s, i - 1) = {}
    BY <1>1, <1>3, EarlierTold
  <2> HIDE DEF earlier
  <2> QED
    BY <2>1 DEF EchoCycles
<1>6. ASSUME NEW i \in EchoCycles(s, n)
      PROVE  Evidence(Echoes(g, s)[i].delta, Echoes(g, s)[i].nearest) =
               EchoOf(s, i, h[i].candidate)
  <2> DEFINE m == h[i].candidate
             entries == GraveOf(s, i - 1)
             lost == {e.memory : e \in {e \in entries : e.genuinely_inaccessible}}
  <2>1. i \in 1 .. n /\ g[i].candidate = m
    BY <1>1 DEF EchoCycles
  <2>2. Echoes(g, s)[i] = measure_echo(m, entries, HeldAfter(s, i - 1))
    <3>1. i \in cycles /\ earlier(i) = entries /\ SeenThen(s, g[i]) = HeldAfter(s, i - 1)
      BY <1>3, <1>5, <2>1
    <3> HIDE DEF cycles, earlier, entries, m
    <3> QED
      BY <1>4, <2>1, <3>1
  <2>3. lost = LostBy(s, i - 1)
    BY <1>1, <2>1, EarlierTold
  <2> HIDE DEF m, entries
  <2>4. /\ measure_echo(m, entries, HeldAfter(s, i - 1)).delta =
             Nearness(m, lost) - Nearness(m, HeldAfter(s, i - 1) \ {m})
        /\ measure_echo(m, entries, HeldAfter(s, i - 1)).nearest = Nearest(m, lost)
    BY DEF measure_echo
  <2> HIDE DEF lost
  <2> QED
    BY <2>2, <2>3, <2>4 DEF EchoOf, m
<1>7. DOMAIN Echoes(g, s) = cycles
  BY <1>4
<1> QED
  BY <1>5, <1>6, <1>7

-----------------------------------------------------------------------------
(* What only ever grows: the cycles, the memories, the snapshots and the   *)
(* interviews, and what each cycle had left when it was done.              *)

Grown(s, t, c) ==
  /\ Known(s) \subseteq Known(t)
  /\ \A n \in 0 .. c : /\ HeldAfter(t, n) = HeldAfter(s, n)
                       /\ RetiredBy(t, n) = RetiredBy(s, n) /\ LostBy(t, n) = LostBy(s, n)

Grows ==
  /\ cycle \in 0 .. MaxCycle /\ cycle' \in cycle .. MaxCycle
  /\ Grown(committed, committed', cycle)
  /\ \A i \in 1 .. cycle : history'[i] = history[i]
  /\ DOMAIN interviews \subseteq DOMAIN interviews'
  /\ \A c \in DOMAIN interviews : interviews'[c] = interviews[c]

LEMMA CycleGrows ==
  ASSUME NEW s, NEW t, NEW c \in Nat, Dated(s, c), NEW now, now = c + 1, Completes(s, t, now)
  PROVE  Grown(s, t, c)
<1>1. Redates(s, t, c) /\ KeepsViews(s, t, c)
  BY CycleRedates, ViewsKept
<1>2. Known(s) \subseteq Known(t)
  BY <1>1 DEF Redates
<1>3. ASSUME NEW n \in 0 .. c
      PROVE  RetiredBy(t, n) = RetiredBy(s, n) /\ LostBy(t, n) = LostBy(s, n)
  <2>1. \A x \in Known(s) : x \in Active(s) => s.mem[x].retired = Never
    BY <1>1 DEF Redates
  <2>2. \A x \in Known(t) : t.mem[x].retired \in 1 .. n => x \in Known(s) /\ t.mem[x] = s.mem[x]
    BY <1>1, <1>3 DEF Redates, Never
  <2>3. \A x \in Known(s) : s.mem[x].retired \in 1 .. n => x \in Known(t) /\ t.mem[x] = s.mem[x]
    BY <1>1, <1>3, <2>1 DEF Redates, Never
  <2>4. RetiredBy(t, n) = RetiredBy(s, n)
    BY <2>2, <2>3 DEF RetiredBy
  <2>5. \A x \in RetiredBy(s, n) : t.mem[x] = s.mem[x]
    BY <2>3 DEF RetiredBy
  <2> QED
    BY <2>4, <2>5 DEF LostBy
<1>4. \A n \in 0 .. c : HeldAfter(t, n) = HeldAfter(s, n)
  BY <1>1 DEF KeepsViews
<1> QED
  BY <1>2, <1>3, <1>4 DEF Grown

LEMMA RunGrows ==
  ASSUME RecordInv, [RunNext]_runVars
  PROVE  Grows
<1>1. /\ cycle \in Nat /\ Dated(committed, cycle) /\ Len(history) = cycle
      /\ history \in Seq({history[i] : i \in DOMAIN history}) /\ cycle \in 0 .. MaxCycle
  <2>1. cycle \in 0 .. MaxCycle
    BY DEF RecordInv, ArmInv, OrderInv, PolicyInv, Inv, TypeOK
  <2> QED
    BY <2>1, RecordTells
<1>2. RecordInv'
  BY RecordKept
<1>3. cycle' \in 0 .. MaxCycle
  BY <1>2 DEF RecordInv, ArmInv, OrderInv, PolicyInv, Inv, TypeOK
<1>4. /\ cycle' \in cycle .. MaxCycle /\ Grown(committed, committed', cycle)
      /\ \A i \in 1 .. cycle : history'[i] = history[i]
  <2>1. CASE UNCHANGED <<committed, cycle, history>>
    BY <1>1, <2>1 DEF Grown
  <2>2. CASE RunAdvances
    <3> DEFINE now == cycle + 1
               t == committed'
               x == ArmCycleSnapshot(committed, t, now)
    <3>1. Completes(committed, t, now) /\ cycle' = now /\ history' = Append(history, x)
      BY <2>2 DEF RunAdvances
    <3>2. now = cycle + 1
      OBVIOUS
    <3> HIDE DEF now, t, x
    <3>3. Grown(committed, t, cycle)
      BY <1>1, <3>1, <3>2, CycleGrows
    <3>4. \A i \in 1 .. cycle : history'[i] = history[i]
      BY <1>1, <3>1, Appended
    <3>5. cycle' \in cycle .. MaxCycle
      BY <1>1, <1>3, <3>1, <3>2
    <3> QED
      BY <3>3, <3>4, <3>5 DEF t
  <2> QED
    BY <2>1, <2>2, RunMoves
<1>5. /\ DOMAIN interviews \subseteq DOMAIN interviews'
      /\ \A c \in DOMAIN interviews : interviews'[c] = interviews[c]
  <2>1. CASE \E c \in Checkpoints : RunCheckpoint(c)
    <3>1. PICK c, x : store_interview(c, x)
      BY <2>1 DEF RunCheckpoint
    <3> DEFINE fresh == Keep(c, x)
    <3>2. interviews' = Over(fresh, interviews) /\ DOMAIN fresh = {c} /\ c \notin DOMAIN interviews
      BY <3>1 DEF store_interview, Keep
    <3> HIDE DEF fresh
    <3>3. /\ DOMAIN Over(fresh, interviews) = DOMAIN fresh \cup DOMAIN interviews
          /\ \A k \in DOMAIN interviews \ DOMAIN fresh : Over(fresh, interviews)[k] = interviews[k]
      BY Overlaid
    <3> QED
      BY <3>2, <3>3
  <2>2. CASE UNCHANGED interviews
    BY <2>2
  <2> QED
    BY <2>1, <2>2 DEF RunNext, ArmStep, PassStep, Begin, ReadStates, ReadInterviews, StoreMetrics,
         StoreStatus, StoreArtefacts, Collect, Clear, CanonicalExportExists, Publish, Die, DieStoring,
         storeVars, runVars
<1> QED
  BY <1>1, <1>4, <1>5 DEF Grows

-----------------------------------------------------------------------------
(* What the store holds, and what a pass has read of it.                   *)

\* The row of an interview's metric, whoever computes it and when.
RowOfInterview(k, row) ==
  LET x == interviews[k[1]]
  IN \/ /\ k[2] = "origin_recall"
        /\ row = Evidence(recall_averages(x.answers), x.reported)
     \/ /\ k[2] = "identity_drift" /\ 0 \in DOMAIN interviews
        /\ row = Evidence(x.answers # interviews[0].answers, x.reported)
     \/ /\ k[2] = "contradiction_rate"
        /\ \E v \in Verdicts : row = Evidence(analyse_contradictions(x.answers, v), x.reported)

\* A row that is what the interviews and the snapshots say now.
Genuine(k, row) ==
  /\ row.cited \subseteq Known(committed)
  /\ \/ k[2] = "secondary"
     \/ /\ k[2] = "graveyard_echo" /\ k[1] \in EchoCycles(committed, cycle)
        /\ row = EchoOf(committed, k[1], history[k[1]].candidate)
     \/ k[1] \in DOMAIN interviews /\ RowOfInterview(k, row)

AllGenuine(rows) == \A k \in DOMAIN rows : Genuine(k, rows[k])

\* What a pass over a finished and interviewed run gives a row.
KeysOfRun == {<<MaxCycle, "secondary">>} \cup (EchoCycles(committed, MaxCycle) \X {"graveyard_echo"})
KeysOfInterviews ==
  (Checkpoints \X {"origin_recall", "contradiction_rate"})
    \cup (Drifting(Checkpoints) \X {"identity_drift"})
FinalKeys == KeysOfRun \cup KeysOfInterviews

InterviewsInv ==
  /\ DOMAIN interviews \subseteq Checkpoints \cap 0 .. cycle
  /\ \A c \in DOMAIN interviews :
       interviews[c] # None /\ interviews[c].reported \subseteq Known(committed)

\* The stages a pass is in once it has done what they are named for.
AfterStates     == {"clear", "publish"}
AfterMetrics    == {"collect states"} \cup AfterStates
AfterInterviews == {"collect metrics"} \cup AfterMetrics
AfterSnapshots  == {"collect interviews"} \cup AfterInterviews
AfterStatus     == {"artefacts", "collect snapshots"} \cup AfterSnapshots
AfterRows       == {"status"} \cup AfterStatus
Stages(p)       == {"states", "interviews", "metrics", "status"} \cup
                   (IF p \in Export THEN {"collect snapshots"} \cup AfterSnapshots ELSE {"artefacts"})

Begun(p, x) ==
  /\ {"at", "run", "fresh"} \subseteq DOMAIN x
  /\ x.at \in Stages(p) /\ x.run \in 1 .. cycle /\ x.fresh \in BOOLEAN
  /\ x.fresh => Finished /\ x.run = MaxCycle

\* What it has computed, and what it has stored.
Measured(x) ==
  /\ x.at \in {"interviews", "metrics"} => "rows" \in DOMAIN x /\ AllGenuine(x.rows)
  /\ x.at = "interviews" /\ x.fresh => DOMAIN x.rows = KeysOfRun
  /\ x.at = "metrics" /\ x.fresh => DOMAIN x.rows = FinalKeys
  /\ x.at \in {"metrics", "status", "artefacts"} =>
       /\ "divergence" \in DOMAIN x /\ x.divergence \subseteq DOMAIN interviews
       /\ x.fresh => x.divergence = Drifting(Checkpoints)
StoredBy(x) ==
  x.fresh =>
    /\ x.at \in AfterRows => FinalKeys \subseteq DOMAIN metrics
    /\ x.at \in AfterStatus => status = 1 .. MaxCycle

\* What it has collected.
Collected(x) ==
  /\ x.at \in AfterSnapshots => "collected" \in DOMAIN x /\ x.collected \in x.run .. cycle
  /\ x.at \in AfterInterviews =>
       /\ "interviews" \in DOMAIN x /\ DOMAIN x.interviews \subseteq DOMAIN interviews
       /\ \A c \in DOMAIN x.interviews : x.interviews[c] = interviews[c]
       /\ x.fresh => DOMAIN x.interviews = Checkpoints
  /\ x.at \in AfterMetrics =>
       /\ "metrics" \in DOMAIN x
       /\ \A k \in DOMAIN x.metrics : x.metrics[k].cited \subseteq Known(committed)
       /\ x.fresh => DOMAIN x.metrics = DOMAIN metrics
Closed(x) ==
  x.at \in AfterStates =>
    /\ "known" \in DOMAIN x
    /\ \A c \in DOMAIN x.interviews : x.interviews[c].reported \subseteq x.known
    /\ \A k \in DOMAIN x.metrics : x.metrics[k].cited \subseteq x.known
    /\ HeldAfter(committed, x.run) \cup RetiredBy(committed, x.run) \subseteq x.known

PassInv(p) ==
  LET x == passes[p]
  IN \/ x = None \/ x = [at |-> "over"]
     \/ Begun(p, x) /\ Measured(x) /\ StoredBy(x) /\ Collected(x) /\ Closed(x)

\* Once a pass began over a finished run with no older one under way, none is.
FreshStart == settled # {} \/ \E q \in Pass : Started(q) /\ passes[q].fresh
SettledInv ==
  /\ settled \subseteq Pass /\ \A p \in settled : passes[p].at = "over"
  /\ FreshStart => \A q \in Pass : Started(q) => passes[q].fresh
  /\ settled # {} => /\ Finished /\ 0 < MaxCycle
                     /\ FinalKeys \subseteq DOMAIN metrics /\ status = 1 .. MaxCycle
  /\ settled \cap Analysis # {} => artefacts = [at |-> "stored", divergence |-> Drifting(Checkpoints)]

ArtefactsInv ==
  artefacts # None => artefacts.at = "stored" /\ artefacts.divergence \subseteq DOMAIN interviews

DatasetInv ==
  \/ dataset = None \/ dataset = [at |-> "part"]
  \/ LET d == dataset
     IN /\ d.at = "whole" /\ DatasetResolves /\ d.by \in Pass /\ passes[d.by].at = "over"
        /\ \A i \in DOMAIN d.snapshots : d.snapshots[i].cycle \in 1 .. cycle
        /\ d.by \in settled => /\ Len(d.snapshots) = MaxCycle
                               /\ DOMAIN d.interviews = Checkpoints
                               /\ DOMAIN d.metrics = DOMAIN metrics

StoreInv ==
  /\ InterviewsInv /\ AllGenuine(metrics) /\ ArtefactsInv /\ DatasetInv /\ SettledInv
  /\ DOMAIN passes = Pass /\ \A p \in Pass : PassInv(p)

RunInv == RecordInv /\ StoreInv

LEMMA EchoesStay ==
  ASSUME Grows
  PROVE  /\ \A n \in 0 .. cycle : EchoCycles(committed', n) = EchoCycles(committed, n)
         /\ EchoCycles(committed, cycle) \subseteq EchoCycles(committed', cycle')
         /\ \A i \in 1 .. cycle : \A m : EchoOf(committed', i, m) = EchoOf(committed, i, m)
<1> DEFINE s == committed
           t == committed'
<1>1. /\ cycle \in Nat /\ cycle' \in Nat /\ cycle <= cycle'
      /\ \A n \in 0 .. cycle : /\ HeldAfter(t, n) = HeldAfter(s, n)
                               /\ RetiredBy(t, n) = RetiredBy(s, n) /\ LostBy(t, n) = LostBy(s, n)
  BY DEF Grows, Grown
<1> HIDE DEF s, t
<1>2. \A i \in 1 .. cycle : /\ HeldAfter(t, i - 1) = HeldAfter(s, i - 1)
                            /\ RetiredBy(t, i - 1) = RetiredBy(s, i - 1)
                            /\ LostBy(t, i - 1) = LostBy(s, i - 1)
  BY <1>1
<1>3. \A n \in 0 .. cycle : EchoCycles(t, n) = EchoCycles(s, n)
  BY <1>1, <1>2 DEF EchoCycles
<1>4. EchoCycles(s, cycle) \subseteq EchoCycles(t, cycle')
  BY <1>1, <1>2 DEF EchoCycles
<1>5. \A i \in 1 .. cycle : \A m : EchoOf(t, i, m) = EchoOf(s, i, m)
  BY <1>2 DEF EchoOf
<1> QED
  BY <1>3, <1>4, <1>5 DEF s, t

LEMMA GenuineStays ==
  ASSUME Grows, NEW k, NEW row, Genuine(k, row)
  PROVE  Genuine(k, row)'
<1>1. /\ cycle \in Nat /\ Known(committed) \subseteq Known(committed')
      /\ \A i \in 1 .. cycle : history'[i] = history[i]
      /\ DOMAIN interviews \subseteq DOMAIN interviews'
      /\ \A c \in DOMAIN interviews : interviews'[c] = interviews[c]
  BY DEF Grows, Grown
<1>2. row.cited \subseteq Known(committed')
  BY <1>1 DEF Genuine
<1>3. CASE k[2] = "secondary"
  BY <1>2, <1>3 DEF Genuine
<1>4. CASE /\ k[2] = "graveyard_echo" /\ k[1] \in EchoCycles(committed, cycle)
           /\ row = EchoOf(committed, k[1], history[k[1]].candidate)
  <2>1. k[1] \in 1 .. cycle
    BY <1>4 DEF EchoCycles
  <2>2. /\ k[1] \in EchoCycles(committed', cycle')
        /\ row = EchoOf(committed', k[1], history'[k[1]].candidate)
    BY <1>1, <1>4, <2>1, EchoesStay
  <2> QED
    BY <1>2, <1>4, <2>2 DEF Genuine
<1>5. CASE k[1] \in DOMAIN interviews /\ RowOfInterview(k, row)
  <2>1. k[1] \in DOMAIN interviews' /\ interviews'[k[1]] = interviews[k[1]]
    BY <1>1, <1>5
  <2>2. 0 \in DOMAIN interviews => 0 \in DOMAIN interviews' /\ interviews'[0] = interviews[0]
    BY <1>1
  <2>3. RowOfInterview(k, row)'
    BY <1>5, <2>1, <2>2 DEF RowOfInterview
  <2> QED
    BY <1>2, <2>1, <2>3 DEF Genuine
<1> QED
  BY <1>3, <1>4, <1>5 DEF Genuine

\* A finished run stays finished, and its final keys are what they were.
LEMMA FinishedStays ==
  ASSUME Grows, InterviewsInv, InterviewsInv', Finished
  PROVE  Finished' /\ FinalKeys' = FinalKeys /\ cycle' = cycle
<1>1. cycle = MaxCycle /\ DOMAIN interviews = Checkpoints /\ cycle' = MaxCycle
  BY DEF Finished, Grows, ArmAssumption
<1>2. DOMAIN interviews' = Checkpoints
  BY <1>1 DEF Grows, InterviewsInv
<1>3. EchoCycles(committed', MaxCycle) = EchoCycles(committed, MaxCycle)
  BY <1>1, EchoesStay, ArmAssumption
<1> QED
  BY <1>1, <1>2, <1>3 DEF Finished, FinalKeys, KeysOfRun, KeysOfInterviews, Drifting

\* What no step undoes while passes are under way.
Steady ==
  /\ Grows /\ InterviewsInv /\ InterviewsInv'
  /\ DOMAIN metrics \subseteq DOMAIN metrics'
  /\ FreshStart =>
       /\ FinalKeys \subseteq DOMAIN metrics => DOMAIN metrics' = DOMAIN metrics
       /\ status = 1 .. MaxCycle => status' = status

\* A pass under way.
Running(p, x) == Begun(p, x) /\ Measured(x) /\ StoredBy(x) /\ Collected(x) /\ Closed(x)

LEMMA BegunKept ==
  ASSUME Steady, NEW p, NEW x, Begun(p, x)
  PROVE  Begun(p, x)'
<1>1. cycle \in Nat /\ cycle' \in Nat /\ cycle <= cycle'
  BY DEF Steady, Grows
<1>2. x.run \in 1 .. cycle
  BY DEF Begun
<1>3. x.run \in 1 .. cycle'
  BY <1>1, <1>2
<1>4. Finished => Finished'
  BY FinishedStays DEF Steady
<1> QED
  BY <1>3, <1>4, Zenon DEF Begun

LEMMA MeasuredKept ==
  ASSUME Steady, NEW p, NEW x, Begun(p, x), Measured(x)
  PROVE  Measured(x)'
<1>1. /\ cycle \in Nat
      /\ DOMAIN interviews \subseteq DOMAIN interviews'
      /\ \A c \in DOMAIN interviews : interviews'[c] = interviews[c]
  BY DEF Steady, Grows, Grown
<1>2. x.fresh => Finished
  BY Zenon DEF Begun
<1>3. Finished => Finished' /\ FinalKeys' = FinalKeys
  BY FinishedStays DEF Steady
<1>4. Finished => KeysOfRun' = KeysOfRun
  <2>1. Finished => MaxCycle \in 0 .. cycle
    BY <1>1 DEF Finished
  <2> QED
    BY <2>1, EchoesStay DEF Steady, KeysOfRun
<1>5. x.at \in {"interviews", "metrics"} => AllGenuine(x.rows)'
  <2>1. Grows
    BY DEF Steady
  <2> QED
    BY <2>1, GenuineStays DEF Measured, AllGenuine
<1> QED
  BY <1>1, <1>2, <1>3, <1>4, <1>5 DEF Measured

LEMMA RunningKept ==
  ASSUME Steady, NEW p, NEW x, Running(p, x), x.fresh => FreshStart
  PROVE  Running(p, x)'
<1>1. /\ cycle \in Nat /\ cycle' \in Nat /\ cycle <= cycle'
      /\ Known(committed) \subseteq Known(committed')
      /\ \A n \in 0 .. cycle : /\ HeldAfter(committed', n) = HeldAfter(committed, n)
                               /\ RetiredBy(committed', n) = RetiredBy(committed, n)
      /\ DOMAIN interviews \subseteq DOMAIN interviews'
      /\ \A c \in DOMAIN interviews : interviews'[c] = interviews[c]
  BY DEF Steady, Grows, Grown
<1>2. Begun(p, x) /\ Measured(x) /\ StoredBy(x) /\ Collected(x) /\ Closed(x)
  BY DEF Running
<1>3. x.run \in 1 .. cycle
  BY <1>2 DEF Begun
<1>4. x.fresh => Finished /\ FreshStart
  BY <1>2, Zenon DEF Begun
<1>5. Finished => Finished' /\ FinalKeys' = FinalKeys
  BY FinishedStays DEF Steady
<1>6. Begun(p, x)' /\ Measured(x)'
  BY <1>2, BegunKept, MeasuredKept
<1>7. StoredBy(x)'
  BY <1>2, <1>4, <1>5 DEF StoredBy, Steady
<1>8. Collected(x)'
  <2>1. x.fresh /\ x.at \in AfterMetrics => DOMAIN metrics' = DOMAIN metrics
    BY <1>2, <1>4 DEF StoredBy, Steady, AfterMetrics, AfterRows, AfterStatus, AfterSnapshots,
         AfterInterviews
  <2>2. x.at \in AfterSnapshots => x.collected \in x.run .. cycle'
    BY <1>1, <1>2, <1>3 DEF Collected
  <2> QED
    BY <1>1, <1>2, <2>1, <2>2 DEF Collected
<1>9. Closed(x)'
  <2>1. x.run \in 0 .. cycle
    BY <1>1, <1>3
  <2> QED
    BY <1>1, <1>2, <2>1 DEF Closed
<1> QED
  BY <1>6, <1>7, <1>8, <1>9 DEF Running

LEMMA StartedRuns ==
  ASSUME NEW p \in Pass, PassInv(p)
  PROVE  /\ Started(p) <=> Running(p, passes[p])
         /\ ~ Started(p) <=> passes[p] = None \/ passes[p] = [at |-> "over"]
<1>1. Begun(p, passes[p]) => passes[p].at \notin {"none", "over"}
  BY DEF Begun, Stages, AfterStates, AfterMetrics, AfterInterviews, AfterSnapshots
<1>2. passes[p] = None => passes[p].at = "none"
  BY DEF None
<1>3. passes[p] = [at |-> "over"] => passes[p].at = "over"
  OBVIOUS
<1> QED
  BY <1>1, <1>2, <1>3 DEF PassInv, Running, Started

LEMMA PassKept ==
  ASSUME StoreInv, Steady, NEW p \in Pass, passes'[p] = passes[p]
  PROVE  PassInv(p)'
<1>1. PassInv(p)
  BY DEF StoreInv
<1>2. CASE passes[p] = None \/ passes[p] = [at |-> "over"]
  BY <1>2 DEF PassInv
<1>3. CASE Started(p)
  <2>1. PICK x : x = passes[p]
    OBVIOUS
  <2>2. Running(p, x) /\ (x.fresh => FreshStart)
    BY <1>1, <1>3, <2>1, StartedRuns DEF FreshStart
  <2>3. Running(p, x)'
    BY <2>2, RunningKept
  <2>4. (passes[p] = x)'
    BY <2>1
  <2> QED
    BY <2>3, <2>4 DEF PassInv, Running
<1> QED
  BY <1>1, <1>2, <1>3, StartedRuns

\* An interview names a memory the arm has, its newest.
LEMMA InterviewsKept ==
  ASSUME RecordInv, InterviewsInv, [RunNext]_runVars
  PROVE  InterviewsInv'
<1>1. Grows
  BY RunGrows
<1>2. /\ cycle \in Nat /\ cycle' \in Nat /\ cycle <= cycle'
      /\ Known(committed) \subseteq Known(committed')
      /\ DOMAIN interviews \subseteq DOMAIN interviews'
      /\ \A c \in DOMAIN interviews : interviews'[c] = interviews[c]
  BY <1>1 DEF Grows, Grown
<1>3. CASE UNCHANGED interviews
  BY <1>2, <1>3 DEF InterviewsInv
<1>4. ASSUME NEW c \in Checkpoints, RunCheckpoint(c)
      PROVE  InterviewsInv'
  <2>1. PICK manner \in Manners[c] :
          store_interview(c, [answers |-> AnswersOf(committed, manner),
                              reported |-> {Max(Active(committed))}])
    BY <1>4 DEF RunCheckpoint
  <2>2. c <= cycle /\ UNCHANGED <<committed, cycle>>
    BY <1>4 DEF RunCheckpoint, armVars, vars
  <2>3. PICK x : x = [answers |-> AnswersOf(committed, manner),
                      reported |-> {Max(Active(committed))}]
    OBVIOUS
  <2>4. c \in 0 .. cycle
    BY <1>2, <2>2, AnalysisAssumption
  <2>5. x.reported \subseteq Known(committed)
    <3>1. /\ IsMemoryState(committed) /\ Dated(committed, cycle)
      BY RecordTells DEF Good
    <3>2. /\ Active(committed) # {} /\ committed.next \in Nat
          /\ Active(committed) \subseteq Known(committed)
          /\ Known(committed) \subseteq 0 .. committed.next - 1
      BY <3>1 DEF Dated, IsMemoryState, Active
    <3>3. Active(committed) \in SUBSET (Never .. committed.next)
      BY <3>2 DEF Never
    <3>4. Max(Active(committed)) \in Active(committed)
      BY <3>2, <3>3, MaxIsGreatest
    <3> QED
      BY <2>3, <3>2, <3>4
  <2>6. x # None
    <3>1. DOMAIN x = {"answers", "reported"}
      BY <2>3
    <3>2. DOMAIN None = {"at"}
      BY DEF None
    <3>3. "answers" \notin {"at"}
      OBVIOUS
    <3> QED
      BY <3>1, <3>2, <3>3
  <2>7. interviews' = Over(Keep(c, x), interviews) /\ c \notin DOMAIN interviews
    BY <2>1, <2>3 DEF store_interview
  <2> DEFINE one == Keep(c, x)
  <2>8. DOMAIN one = {c} /\ one[c] = x
    BY DEF Keep
  <2>9. interviews' = Over(one, interviews)
    BY <2>7
  <2> HIDE DEF one
  <2>10. /\ DOMAIN Over(one, interviews) = DOMAIN one \cup DOMAIN interviews
         /\ \A k \in DOMAIN one : Over(one, interviews)[k] = one[k]
    BY Overlaid
  <2>11. DOMAIN interviews' = {c} \cup DOMAIN interviews /\ interviews'[c] = x
    BY <2>8, <2>9, <2>10
  <2>12. DOMAIN interviews' \subseteq Checkpoints \cap 0 .. cycle'
    BY <2>2, <2>4, <2>11 DEF InterviewsInv
  <2>13. \A k \in DOMAIN interviews' :
           interviews'[k] # None /\ interviews'[k].reported \subseteq Known(committed')
    BY <1>2, <2>2, <2>5, <2>6, <2>11 DEF InterviewsInv
  <2> QED
    BY <2>12, <2>13 DEF InterviewsInv
<1> QED
  BY <1>3, <1>4 DEF RunNext, ArmStep, PassStep, Begin, ReadStates, ReadInterviews, StoreMetrics,
         StoreStatus, StoreArtefacts, Collect, Clear, CanonicalExportExists, Publish, Die, DieStoring,
         storeVars, runVars

\* Rows are written by a pass that has computed them, all of them or some.
LEMMA MetricsMove ==
  ASSUME [RunNext]_runVars
  PROVE  \/ UNCHANGED metrics
         \/ \E p \in Pass : \E rows :
              /\ passes[p].at = "metrics" /\ metrics' = Over(rows, metrics)
              /\ DOMAIN rows \subseteq DOMAIN passes[p].rows
              /\ \A k \in DOMAIN rows : rows[k] = passes[p].rows[k]
<1>1. ASSUME NEW p \in Pass, StoreMetrics(p)
      PROVE  /\ passes[p].at = "metrics" /\ metrics' = Over(passes[p].rows, metrics)
  BY <1>1 DEF StoreMetrics, Turn, store_metric
<1>2. ASSUME NEW p \in Pass, DieStoring(p)
      PROVE  \E rows : /\ passes[p].at = "metrics" /\ metrics' = Over(rows, metrics)
                       /\ DOMAIN rows \subseteq DOMAIN passes[p].rows
                       /\ \A k \in DOMAIN rows : rows[k] = passes[p].rows[k]
  <2>1. PICK n \in 1 .. Len(StoreOrder) - 1 :
          LET stored == {k \in DOMAIN passes[p].rows : \E i \in 1 .. n : k[2] = StoreOrder[i]}
          IN store_metric([k \in stored |-> passes[p].rows[k]])
    BY <1>2 DEF DieStoring
  <2> DEFINE stored == {k \in DOMAIN passes[p].rows : \E i \in 1 .. n : k[2] = StoreOrder[i]}
             rows == [k \in stored |-> passes[p].rows[k]]
  <2>2. metrics' = Over(rows, metrics) /\ stored \subseteq DOMAIN passes[p].rows
    BY <2>1 DEF store_metric
  <2> HIDE DEF stored
  <2>3. DOMAIN rows = stored /\ \A k \in stored : rows[k] = passes[p].rows[k]
    OBVIOUS
  <2>4. passes[p].at = "metrics"
    BY <1>2 DEF DieStoring
  <2> HIDE DEF rows
  <2> QED
    BY <2>2, <2>3, <2>4
<1>3. CASE UNCHANGED metrics
  BY <1>3
<1> QED
  BY <1>1, <1>2, <1>3 DEF RunNext, ArmStep, RunCheckpoint, PassStep, Begin, ReadStates,
     ReadInterviews, StoreStatus, StoreArtefacts, Collect, Clear, CanonicalExportExists, Publish, Die,
     storeVars, runVars

LEMMA StatusMoves ==
  ASSUME [RunNext]_runVars
  PROVE  \/ UNCHANGED status
         \/ \E p \in Pass : passes[p].at = "status" /\ status' = list_completed_cycles
<1>1. CASE UNCHANGED status
  BY <1>1
<1> QED
  BY <1>1 DEF RunNext, ArmStep, RunCheckpoint, PassStep, Begin, ReadStates,
     ReadInterviews, StoreStatus, StoreArtefacts, Collect, Clear, CanonicalExportExists, Publish, Die,
     StoreMetrics, DieStoring, Turn, store_analysis_status, storeVars, runVars

LEMMA CyclesCompleted ==
  ASSUME RecordInv
  PROVE  list_completed_cycles = 1 .. cycle
<1>1. /\ cycle \in Nat /\ DOMAIN history = 1 .. cycle
      /\ \A i \in 1 .. cycle : Tells(history[i], committed, i)
  BY RecordTells
<1>2. \A i \in 1 .. cycle : history[i].cycle = i
  BY <1>1 DEF Tells
<1> QED
  BY <1>1, <1>2 DEF list_completed_cycles

LEMMA RunIsSteady ==
  ASSUME RunInv, [RunNext]_runVars
  PROVE  Steady
<1>1. /\ RecordInv /\ StoreInv /\ InterviewsInv /\ SettledInv /\ \A p \in Pass : PassInv(p)
  BY DEF RunInv, StoreInv
<1>2. Grows /\ InterviewsInv'
  BY <1>1, RunGrows, InterviewsKept
<1>3. /\ DOMAIN metrics \subseteq DOMAIN metrics'
      /\ FreshStart /\ FinalKeys \subseteq DOMAIN metrics => DOMAIN metrics' = DOMAIN metrics
  <2>1. CASE UNCHANGED metrics
    BY <2>1
  <2>2. CASE ~ UNCHANGED metrics
    <3>1. PICK p, rows :
            /\ p \in Pass /\ passes[p].at = "metrics" /\ metrics' = Over(rows, metrics)
            /\ DOMAIN rows \subseteq DOMAIN passes[p].rows
      BY <2>2, MetricsMove
    <3>2. DOMAIN metrics' = DOMAIN rows \cup DOMAIN metrics
      BY <3>1, Overlaid
    <3>3. Started(p) /\ Running(p, passes[p])
      BY <1>1, <3>1, StartedRuns DEF Started
    <3>4. FreshStart => DOMAIN passes[p].rows = FinalKeys
      <4>1. FreshStart => passes[p].fresh
        BY <1>1, <3>1, <3>3 DEF SettledInv
      <4> QED
        BY <3>1, <3>3, <4>1 DEF Running, Measured
    <3> QED
      BY <3>1, <3>2, <3>4
  <2> QED
    BY <2>1, <2>2
<1>4. FreshStart /\ status = 1 .. MaxCycle => status' = status
  <2>1. CASE UNCHANGED status
    BY <2>1
  <2>2. CASE ~ UNCHANGED status
    <3>1. PICK p \in Pass : passes[p].at = "status" /\ status' = list_completed_cycles
      BY <2>2, StatusMoves
    <3>2. Started(p) /\ Running(p, passes[p])
      BY <1>1, <3>1, StartedRuns DEF Started
    <3>3. FreshStart => Finished
      <4>1. FreshStart => passes[p].fresh
        BY <1>1, <3>2 DEF SettledInv
      <4> QED
        BY <3>2, <4>1 DEF Running, Begun
    <3> QED
      BY <1>1, <3>1, <3>3, CyclesCompleted DEF Finished
  <2> QED
    BY <2>1, <2>2
<1> QED
  BY <1>1, <1>2, <1>3, <1>4 DEF Steady

LEMMA OverGenuine ==
  ASSUME NEW f, NEW g, AllGenuine(f), AllGenuine(g)
  PROVE  AllGenuine(Over(f, g))
<1>1. /\ DOMAIN Over(f, g) = DOMAIN f \cup DOMAIN g
      /\ \A x \in DOMAIN f : Over(f, g)[x] = f[x]
      /\ \A x \in DOMAIN g \ DOMAIN f : Over(f, g)[x] = g[x]
  BY Overlaid
<1> QED
  BY <1>1 DEF AllGenuine

LEMMA MetricsStayGenuine ==
  ASSUME RunInv, [RunNext]_runVars
  PROVE  AllGenuine(metrics)'
<1>1. /\ AllGenuine(metrics) /\ \A p \in Pass : PassInv(p)
  BY DEF RunInv, StoreInv
<1>2. PICK m : m = metrics'
  OBVIOUS
<1>3. AllGenuine(m)
  <2>1. CASE UNCHANGED metrics
    BY <1>1, <1>2, <2>1
  <2>2. CASE ~ UNCHANGED metrics
    <3>1. PICK p, rows :
            /\ p \in Pass /\ passes[p].at = "metrics" /\ metrics' = Over(rows, metrics)
            /\ DOMAIN rows \subseteq DOMAIN passes[p].rows
            /\ \A k \in DOMAIN rows : rows[k] = passes[p].rows[k]
      BY <2>2, MetricsMove
    <3>2. Running(p, passes[p])
      BY <1>1, <3>1, StartedRuns DEF Started
    <3>3. AllGenuine(passes[p].rows)
      BY <3>1, <3>2 DEF Running, Measured
    <3>4. AllGenuine(rows)
      BY <3>1, <3>3 DEF AllGenuine
    <3>5. AllGenuine(Over(rows, metrics))
      BY <1>1, <3>4, OverGenuine
    <3> QED
      BY <1>2, <3>1, <3>5
  <2> QED
    BY <2>1, <2>2
<1>4. Grows
  BY RunIsSteady DEF Steady
<1>5. \A k \in DOMAIN m : Genuine(k, m[k])'
  <2> SUFFICES ASSUME NEW k \in DOMAIN m PROVE Genuine(k, m[k])'
    OBVIOUS
  <2>1. Genuine(k, m[k])
    BY <1>3 DEF AllGenuine
  <2> QED
    BY <1>4, <2>1, GenuineStays
<1> QED
  BY <1>2, <1>5 DEF AllGenuine

-----------------------------------------------------------------------------
(* The rows a pass computes.                                               *)

LEMMA ListedOpens ==
  ASSUME RecordInv, NEW n \in 0 .. cycle
  PROVE  Opening(Listed(n), history, n) /\ Len(Listed(n)) = n
<1> DEFINE S == {history[i] : i \in DOMAIN history}
<1>1. cycle \in Nat /\ history \in Seq(S) /\ Len(history) = cycle /\ DOMAIN history = 1 .. cycle
  BY RecordTells
<1>2. \A i \in 1 .. n : history[i] \in S
  BY <1>1
<1> HIDE DEF S
<1>3. n \in Nat
  BY <1>1
<1>4. /\ SubSeq(history, 1, n) \in Seq(S) /\ Len(SubSeq(history, 1, n)) = n
      /\ \A i \in 1 .. n : SubSeq(history, 1, n)[i] = history[i]
  BY <1>1, <1>2, <1>3
<1>5. DOMAIN SubSeq(history, 1, n) = 1 .. n
  BY <1>3, <1>4
<1> QED
  BY <1>4, <1>5 DEF Listed, list_arm_snapshots, Opening

LEMMA RowsOfStates ==
  ASSUME RecordInv, NEW x, x.run \in 1 .. cycle,
         NEW rows, rows = Over(SecondaryRows(x, committed), EchoRows(x, committed))
  PROVE  /\ AllGenuine(rows)
         /\ DOMAIN rows = {<<x.run, "secondary">>}
                            \cup (EchoCycles(committed, x.run) \X {"graveyard_echo"})
<1> DEFINE s == committed
           n == x.run
           g == Listed(n)
           totals == SecondaryRows(x, s)
           echoes == EchoRows(x, s)
<1>1. /\ Good(s) /\ cycle \in Nat /\ Recorded(history, s, cycle) /\ n \in 0 .. cycle
  BY RecordTells
<1>2. Opening(g, history, n)
  BY <1>1, ListedOpens
<1> HIDE DEF g
<1>3. /\ DOMAIN Echoes(g, s) = EchoCycles(s, n)
      /\ \A i \in EchoCycles(s, n) :
           Evidence(Echoes(g, s)[i].delta, Echoes(g, s)[i].nearest) =
             EchoOf(s, i, history[i].candidate)
  BY <1>1, <1>2, EchoesTold
<1>4. /\ DOMAIN echoes = EchoCycles(s, n) \X {"graveyard_echo"}
      /\ \A k \in DOMAIN echoes : echoes[k] = EchoOf(s, k[1], history[k[1]].candidate)
  <2>1. echoes = [k \in (DOMAIN Echoes(g, s)) \X {"graveyard_echo"} |->
                    Evidence(Echoes(g, s)[k[1]].delta, Echoes(g, s)[k[1]].nearest)]
    BY DEF EchoRows, g
  <2> HIDE DEF echoes
  <2> QED
    BY <1>3, <2>1
<1>5. EchoCycles(s, n) \subseteq EchoCycles(s, cycle)
  BY <1>1 DEF EchoCycles
<1>6. AllGenuine(echoes)
  <2> SUFFICES ASSUME NEW k \in DOMAIN echoes PROVE Genuine(k, echoes[k])
    BY DEF AllGenuine
  <2>1. /\ k[1] \in EchoCycles(s, cycle) /\ k[2] = "graveyard_echo"
        /\ echoes[k] = EchoOf(s, k[1], history[k[1]].candidate)
    BY <1>4, <1>5
  <2>2. EchoOf(s, k[1], history[k[1]].candidate).cited \subseteq Known(s)
    BY DEF EchoOf, Evidence, Nearest, LostBy, RetiredBy
  <2> HIDE DEF echoes
  <2> QED
    BY <2>1, <2>2 DEF Genuine
<1>7. /\ DOMAIN totals = {<<n, "secondary">>}
      /\ \A k \in DOMAIN totals : totals[k].cited = {} /\ k[2] = "secondary"
  BY DEF SecondaryRows, Evidence
<1>8. AllGenuine(totals)
  <2> HIDE DEF totals
  <2> QED
    BY <1>7 DEF AllGenuine, Genuine
<1>9. rows = Over(totals, echoes)
  OBVIOUS
<1> HIDE DEF totals, echoes
<1>10. AllGenuine(rows)
  BY <1>6, <1>8, <1>9, OverGenuine
<1>11. DOMAIN Over(totals, echoes) = DOMAIN totals \cup DOMAIN echoes
  BY Overlaid
<1> QED
  BY <1>4, <1>7, <1>9, <1>10, <1>11

LEMMA RowsOfInterviews ==
  ASSUME InterviewsInv, NEW verdict \in Verdicts
  PROVE  /\ AllGenuine(InterviewedRows(verdict))
         /\ DOMAIN InterviewedRows(verdict) =
              ((DOMAIN interviews) \X {"origin_recall", "contradiction_rate"})
                \cup (Drifting(DOMAIN interviews) \X {"identity_drift"})
<1> DEFINE D == DOMAIN interviews
<1>1. /\ DOMAIN RecallRows = D \X {"origin_recall"}
      /\ \A k \in DOMAIN RecallRows :
           RecallRows[k] = Evidence(recall_averages(interviews[k[1]].answers), interviews[k[1]].reported)
  BY DEF RecallRows, InterviewRows
<1>2. /\ DOMAIN DriftRows = Drifting(D) \X {"identity_drift"}
      /\ \A k \in DOMAIN DriftRows :
           DriftRows[k] = Evidence(interviews[k[1]].answers # interviews[0].answers,
                                   interviews[k[1]].reported)
  BY DEF DriftRows, InterviewRows
<1>3. /\ DOMAIN ContradictionRows(verdict) = D \X {"contradiction_rate"}
      /\ \A k \in DOMAIN ContradictionRows(verdict) :
           ContradictionRows(verdict)[k] =
             Evidence(analyse_contradictions(interviews[k[1]].answers, verdict), interviews[k[1]].reported)
  BY DEF ContradictionRows, InterviewRows
<1>4. \A v, c : Evidence(v, c).cited = c
  BY DEF Evidence
<1>5. Drifting(D) \subseteq D /\ (Drifting(D) # {} => 0 \in D)
  BY DEF Drifting
<1>6. \A c \in D : interviews[c].reported \subseteq Known(committed)
  BY DEF InterviewsInv
<1>7. AllGenuine(RecallRows)
  <2> SUFFICES ASSUME NEW k \in DOMAIN RecallRows PROVE Genuine(k, RecallRows[k])
    BY DEF AllGenuine
  <2> QED
    BY <1>1, <1>4, <1>6 DEF Genuine, RowOfInterview
<1>8. AllGenuine(DriftRows)
  <2> SUFFICES ASSUME NEW k \in DOMAIN DriftRows PROVE Genuine(k, DriftRows[k])
    BY DEF AllGenuine
  <2> QED
    BY <1>2, <1>4, <1>5, <1>6 DEF Genuine, RowOfInterview
<1>9. AllGenuine(ContradictionRows(verdict))
  <2> SUFFICES ASSUME NEW k \in DOMAIN ContradictionRows(verdict)
               PROVE  Genuine(k, ContradictionRows(verdict)[k])
    BY DEF AllGenuine
  <2> QED
    BY <1>3, <1>4, <1>6 DEF Genuine, RowOfInterview
<1> DEFINE later == Over(DriftRows, ContradictionRows(verdict))
<1>10. AllGenuine(later) /\ DOMAIN later = DOMAIN DriftRows \cup DOMAIN ContradictionRows(verdict)
  BY <1>8, <1>9, OverGenuine, Overlaid
<1>11. InterviewedRows(verdict) = Over(RecallRows, later)
  BY DEF InterviewedRows
<1> HIDE DEF later
<1>12. /\ AllGenuine(Over(RecallRows, later))
       /\ DOMAIN Over(RecallRows, later) = DOMAIN RecallRows \cup DOMAIN later
  BY <1>7, <1>10, OverGenuine, Overlaid
<1>13. AllGenuine(InterviewedRows(verdict))
  BY <1>11, <1>12
<1>14. PICK C, E : C = DOMAIN interviews /\ E = Drifting(DOMAIN interviews)
  OBVIOUS
<1> DEFINE recalls == DOMAIN RecallRows
           drifts == DOMAIN DriftRows
           rates == DOMAIN ContradictionRows(verdict)
<1>15. DOMAIN InterviewedRows(verdict) = recalls \cup (drifts \cup rates)
  BY <1>10, <1>11, <1>12
<1>16. recalls = C \X {"origin_recall"} /\ drifts = E \X {"identity_drift"}
       /\ rates = C \X {"contradiction_rate"}
  BY <1>1, <1>2, <1>3, <1>14
<1> HIDE DEF recalls, drifts, rates
<1>17. DOMAIN InterviewedRows(verdict) =
         (C \X {"origin_recall", "contradiction_rate"}) \cup (E \X {"identity_drift"})
  BY <1>15, <1>16
<1> QED
  BY <1>13, <1>14, <1>17

-----------------------------------------------------------------------------
(* A pass takes its turn.                                                  *)

LEMMA StageAfter ==
  ASSUME NEW p
  PROVE  /\ Following(p, "states") = "interviews" /\ Following(p, "interviews") = "metrics"
         /\ Following(p, "metrics") = "status"
         /\ Following(p, "status") = IF p \in Export THEN "collect snapshots" ELSE "artefacts"
<1> QED
  BY AfterExport, AfterAnalysis

LEMMA TurnsOn ==
  ASSUME StoreInv, NEW p \in Pass, NEW name \in StepNames,
         NEW fields, {"at", "run", "fresh"} \cap DOMAIN fields = {}, Turn(p, name, fields),
         NEW x, x = passes[p], NEW y, y = passes'[p]
  PROVE  /\ phase = "idle" /\ UNCHANGED vars /\ x.at = name /\ Started(p) /\ Running(p, x)
         /\ DOMAIN passes' = Pass /\ \A q \in Pass \ {p} : passes'[q] = passes[q]
         /\ \/ /\ Following(p, name) = "over" /\ y = [at |-> "over"]
               /\ settled' = settled \cup {q \in {p} : x.fresh}
            \/ /\ Following(p, name) # "over" /\ settled' = settled
               /\ Moved(x, y, Following(p, name), fields) /\ Begun(p, y)
               /\ y.at = Following(p, name) /\ y.run = x.run /\ y.fresh = x.fresh
<1> DEFINE next == Following(p, name)
<1>1. PassInv(p) /\ DOMAIN passes = Pass
  BY DEF StoreInv
<1>2. "at" \notin DOMAIN fields /\ "run" \notin DOMAIN fields /\ "fresh" \notin DOMAIN fields
  OBVIOUS
<1>3. /\ phase = "idle" /\ UNCHANGED vars /\ x.at = name
      /\ DOMAIN passes' = Pass /\ \A q \in Pass \ {p} : passes'[q] = passes[q]
      /\ \/ /\ next = "over" /\ y = [at |-> "over"]
            /\ settled' = settled \cup {q \in {p} : x.fresh}
         \/ next # "over" /\ settled' = settled /\ Moved(x, y, next, fields)
  BY <1>1, <1>2, Turns
<1>4. Started(p)
  BY <1>3 DEF StepNames, Started
<1>5. Running(p, x)
  BY <1>1, <1>4, StartedRuns
<1>6. Begun(p, x)
  BY <1>5 DEF Running
<1>7. next # "over" => next \in Stages(p)
  <2>1. name \in Stages(p)
    BY <1>3, <1>6 DEF Begun
  <2>2. CASE p \in Export
    BY <2>1, <2>2, AfterExport, ZenonT(30) DEF Stages, AfterSnapshots, AfterInterviews, AfterMetrics, AfterStates
  <2>3. CASE p \notin Export
    BY <2>1, <2>3, AfterAnalysis DEF Stages
  <2> QED
    BY <2>2, <2>3
<1>8. CASE next # "over"
  <2>1. Moved(x, y, next, fields)
    BY <1>3, <1>8
  <2>2. y.at = next
    BY <2>1 DEF Moved
  <2>3. {"at", "run", "fresh"} \subseteq DOMAIN x
    BY <1>6 DEF Begun
  <2>4. {"at", "run", "fresh"} \subseteq DOMAIN y
    BY <2>1, <2>3 DEF Moved
  <2>5. y["run"] = x["run"] /\ y["fresh"] = x["fresh"]
    BY <1>2, <2>1, <2>3 DEF Moved
  <2>6. x.run \in 1 .. cycle /\ x.fresh \in BOOLEAN
    BY <1>6 DEF Begun
  <2>7. x.fresh => Finished /\ x.run = MaxCycle
    BY <1>6, Zenon DEF Begun
  <2>8. y.run = x.run /\ y.fresh = x.fresh
    BY <2>5
  <2>9. y.run \in 1 .. cycle /\ y.fresh \in BOOLEAN
    BY <2>6, <2>8
  <2>10. y.fresh => Finished /\ y.run = MaxCycle
    BY <2>7, <2>8
  <2>11. y.at \in Stages(p)
    BY <1>7, <1>8, <2>2
  <2>12. Begun(p, y)
    BY <2>4, <2>9, <2>10, <2>11, Zenon DEF Begun
  <2> QED
    BY <1>3, <1>4, <1>5, <1>8, <2>1, <2>2, <2>8, <2>12, Zenon
<1>9. CASE next = "over"
  BY <1>3, <1>4, <1>5, <1>9, Zenon
<1> QED
  BY <1>8, <1>9

\* A step of one pass leaves every pass as it should be if it does that one.
LEMMA OthersKept ==
  ASSUME RunInv, [RunNext]_runVars, NEW p \in Pass, DOMAIN passes' = Pass,
         \A q \in Pass \ {p} : passes'[q] = passes[q],
         NEW y, y = passes'[p], y = [at |-> "over"] \/ Running(p, y)'
  PROVE  DOMAIN passes' = Pass /\ \A q \in Pass : PassInv(q)'
<1>1. PassInv(p)'
  <2>1. (passes[p] = y)'
    OBVIOUS
  <2>2. CASE y = [at |-> "over"]
    BY <2>1, <2>2 DEF PassInv
  <2>3. CASE Running(p, y)'
    BY <2>1, <2>3 DEF PassInv, Running
  <2> QED
    BY <2>2, <2>3
<1>2. Steady /\ StoreInv
  BY RunIsSteady DEF RunInv
<1> QED
  BY <1>1, <1>2, PassKept

\* What is read and moves on is what it should be after, if it would be now.
LEMMA ReadKept ==
  ASSUME RunInv, [RunNext]_runVars, NEW p \in Pass, Started(p), NEW x, x = passes[p],
         NEW y, y.fresh = x.fresh, Running(p, y)
  PROVE  Running(p, y)'
<1>1. x.fresh => FreshStart
  BY DEF FreshStart
<1>2. y.fresh => FreshStart
  BY <1>1
<1>3. Steady
  BY RunIsSteady
<1> QED
  BY <1>2, <1>3, RunningKept

\* A step of a pass that leaves it under way.
GoesOn(p) ==
  /\ Started(p) /\ settled' = settled /\ passes'[p].fresh = passes[p].fresh
  /\ \A q \in Pass \ {p} : passes'[q] = passes[q]

LEMMA StatesRead ==
  ASSUME RunInv, [RunNext]_runVars, NEW p \in Pass, ReadStates(p)
  PROVE  DOMAIN passes' = Pass /\ (\A q \in Pass : PassInv(q)') /\ GoesOn(p)
<1>1. RecordInv /\ StoreInv
  BY DEF RunInv
<1>2. PICK x, y : x = passes[p] /\ y = passes'[p]
  OBVIOUS
<1>3. PICK rows : rows = Over(SecondaryRows(x, committed), EchoRows(x, committed))
  OBVIOUS
<1> DEFINE fields == Keep("rows", rows)
<1>4. Turn(p, "states", fields)
  BY <1>2, <1>3 DEF ReadStates
<1>5. DOMAIN fields = {"rows"} /\ fields["rows"] = rows
  BY DEF Keep
<1> HIDE DEF fields
<1>6. {"at", "run", "fresh"} \cap DOMAIN fields = {} /\ "states" \in StepNames
  BY <1>5 DEF StepNames
<1>7. Following(p, "states") = "interviews" /\ "interviews" # "over"
  BY StageAfter
<1>8. /\ Started(p) /\ Running(p, x)
      /\ DOMAIN passes' = Pass /\ \A q \in Pass \ {p} : passes'[q] = passes[q]
      /\ Moved(x, y, "interviews", fields) /\ Begun(p, y)
      /\ y.at = "interviews" /\ y.run = x.run /\ y.fresh = x.fresh /\ settled' = settled
  BY <1>1, <1>2, <1>4, <1>6, <1>7, TurnsOn
<1>9. "rows" \in DOMAIN y /\ y["rows"] = rows
  BY <1>5, <1>8 DEF Moved
<1>10. /\ x.run \in 1 .. cycle
       /\ x.fresh => x.run = MaxCycle
  BY <1>8, Zenon DEF Running, Begun
<1>11. /\ AllGenuine(rows)
       /\ DOMAIN rows = {<<x.run, "secondary">>}
                          \cup (EchoCycles(committed, x.run) \X {"graveyard_echo"})
  BY <1>1, <1>3, <1>10, RowsOfStates
<1>12. y.fresh => DOMAIN y.rows = KeysOfRun
  BY <1>8, <1>9, <1>10, <1>11 DEF KeysOfRun
<1>13. Measured(y)
  BY <1>8, <1>9, <1>11, <1>12 DEF Measured
<1>14. StoredBy(y) /\ Collected(y) /\ Closed(y)
  BY <1>8 DEF StoredBy, Collected, Closed, AfterRows, AfterStatus, AfterSnapshots, AfterInterviews,
       AfterMetrics, AfterStates
<1>15. Running(p, y)
  BY <1>8, <1>13, <1>14 DEF Running
<1>16. Running(p, y)'
  BY <1>2, <1>8, <1>15, ReadKept
<1> QED
  BY <1>2, <1>8, <1>16, OthersKept DEF GoesOn

LEMMA InterviewsRead ==
  ASSUME RunInv, [RunNext]_runVars, NEW p \in Pass, ReadInterviews(p)
  PROVE  DOMAIN passes' = Pass /\ (\A q \in Pass : PassInv(q)') /\ GoesOn(p)
<1>1. RecordInv /\ StoreInv /\ InterviewsInv
  BY DEF RunInv, StoreInv
<1>2. PICK x, y : x = passes[p] /\ y = passes'[p]
  OBVIOUS
<1>3. PICK verdict \in Verdicts :
        Turn(p, "interviews", Over(Keep("rows", Over(passes[p].rows, InterviewedRows(verdict))),
                                   Keep("divergence", Drifting(DOMAIN interviews))))
  BY DEF ReadInterviews
<1>4. PICK rows, shown : /\ rows = Over(x.rows, InterviewedRows(verdict))
                         /\ shown = Drifting(DOMAIN interviews)
  OBVIOUS
<1> DEFINE one == Keep("rows", rows)
           two == Keep("divergence", shown)
           fields == Over(one, two)
<1>5. Turn(p, "interviews", fields)
  BY <1>2, <1>3, <1>4
<1>6. DOMAIN one = {"rows"} /\ one["rows"] = rows /\ DOMAIN two = {"divergence"} /\ two["divergence"] = shown
  BY DEF Keep
<1> HIDE DEF one, two
<1>7. /\ DOMAIN fields = DOMAIN one \cup DOMAIN two
      /\ \A k \in DOMAIN one : fields[k] = one[k]
      /\ \A k \in DOMAIN two \ DOMAIN one : fields[k] = two[k]
  BY Overlaid
<1> HIDE DEF fields
<1>8. DOMAIN fields = {"rows", "divergence"} /\ fields["rows"] = rows /\ fields["divergence"] = shown
  BY <1>6, <1>7
<1>9. {"at", "run", "fresh"} \cap DOMAIN fields = {} /\ "interviews" \in StepNames
  BY <1>8 DEF StepNames
<1>10. Following(p, "interviews") = "metrics" /\ "metrics" # "over"
  BY StageAfter
<1>11. /\ Started(p) /\ Running(p, x) /\ x.at = "interviews"
       /\ DOMAIN passes' = Pass /\ \A q \in Pass \ {p} : passes'[q] = passes[q]
       /\ Moved(x, y, "metrics", fields) /\ Begun(p, y)
       /\ y.at = "metrics" /\ y.run = x.run /\ y.fresh = x.fresh /\ settled' = settled
  BY <1>1, <1>2, <1>5, <1>9, <1>10, TurnsOn
<1>12. /\ "rows" \in DOMAIN y /\ y["rows"] = rows
       /\ "divergence" \in DOMAIN y /\ y["divergence"] = shown
  BY <1>8, <1>11 DEF Moved
<1>13. AllGenuine(x.rows) /\ (x.fresh => DOMAIN x.rows = KeysOfRun)
  BY <1>11 DEF Running, Measured
<1>14. x.fresh => DOMAIN interviews = Checkpoints
  <2>1. Begun(p, x)
    BY <1>11 DEF Running
  <2> QED
    BY <2>1, Zenon DEF Begun, Finished
<1>15. PICK later : later = InterviewedRows(verdict)
  OBVIOUS
<1>16. /\ AllGenuine(later)
       /\ DOMAIN later = ((DOMAIN interviews) \X {"origin_recall", "contradiction_rate"})
                           \cup (Drifting(DOMAIN interviews) \X {"identity_drift"})
  BY <1>1, <1>15, RowsOfInterviews
<1>17. rows = Over(x.rows, later)
  BY <1>4, <1>15
<1>18. AllGenuine(rows) /\ DOMAIN rows = DOMAIN x.rows \cup DOMAIN later
  BY <1>13, <1>16, <1>17, OverGenuine, Overlaid
<1>19. y.fresh => DOMAIN y.rows = FinalKeys
  BY <1>11, <1>12, <1>13, <1>14, <1>16, <1>18 DEF FinalKeys, KeysOfInterviews
<1>20. y.divergence \subseteq DOMAIN interviews /\ (y.fresh => y.divergence = Drifting(Checkpoints))
  BY <1>4, <1>11, <1>12, <1>14 DEF Drifting
<1>21. Measured(y)
  BY <1>11, <1>12, <1>18, <1>19, <1>20 DEF Measured
<1>22. StoredBy(y) /\ Collected(y) /\ Closed(y)
  BY <1>11 DEF StoredBy, Collected, Closed, AfterRows, AfterStatus, AfterSnapshots, AfterInterviews,
       AfterMetrics, AfterStates
<1>23. Running(p, y)
  BY <1>11, <1>21, <1>22 DEF Running
<1>24. Running(p, y)'
  BY <1>2, <1>11, <1>23, ReadKept
<1> QED
  BY <1>2, <1>11, <1>24, OthersKept DEF GoesOn

LEMMA NoFields == DOMAIN <<>> = {}
OBVIOUS

LEMMA MetricsStored ==
  ASSUME RunInv, [RunNext]_runVars, NEW p \in Pass, StoreMetrics(p)
  PROVE  DOMAIN passes' = Pass /\ (\A q \in Pass : PassInv(q)') /\ GoesOn(p)
<1>1. RecordInv /\ StoreInv /\ InterviewsInv
  BY DEF RunInv, StoreInv
<1>2. PICK x, y : x = passes[p] /\ y = passes'[p]
  OBVIOUS
<1> DEFINE fields == Keep("rows", None)
<1>3. Turn(p, "metrics", fields)
  BY DEF StoreMetrics
<1>4. DOMAIN fields = {"rows"}
  BY DEF Keep
<1> HIDE DEF fields
<1>5. {"at", "run", "fresh"} \cap DOMAIN fields = {} /\ "metrics" \in StepNames
  BY <1>4 DEF StepNames
<1>6. Following(p, "metrics") = "status" /\ "status" # "over"
  BY StageAfter
<1>7. /\ Started(p) /\ Running(p, x) /\ x.at = "metrics"
      /\ DOMAIN passes' = Pass /\ \A q \in Pass \ {p} : passes'[q] = passes[q]
      /\ Moved(x, y, "status", fields) /\ Begun(p, y)
      /\ y.at = "status" /\ y.run = x.run /\ y.fresh = x.fresh /\ settled' = settled
  BY <1>1, <1>2, <1>3, <1>5, <1>6, TurnsOn
<1>8. Steady
  BY RunIsSteady
<1>9. Begun(p, y)'
  BY <1>7, <1>8, BegunKept
<1>10. /\ "divergence" \in DOMAIN x /\ x.divergence \subseteq DOMAIN interviews
       /\ x.fresh => x.divergence = Drifting(Checkpoints)
       /\ x.fresh => DOMAIN x.rows = FinalKeys
  BY <1>7 DEF Running, Measured
<1>11. "divergence" \in DOMAIN y /\ y["divergence"] = x["divergence"]
  BY <1>4, <1>7, <1>10 DEF Moved
<1>12. Measured(y)
  BY <1>7, <1>10, <1>11 DEF Measured
<1>13. Measured(y)'
  BY <1>7, <1>8, <1>12, MeasuredKept
<1>14. metrics' = Over(x.rows, metrics)
  BY <1>2 DEF StoreMetrics, store_metric
<1>15. DOMAIN x.rows \subseteq DOMAIN metrics'
  <2>1. PICK rows : rows = x.rows
    OBVIOUS
  <2>2. DOMAIN Over(rows, metrics) = DOMAIN rows \cup DOMAIN metrics
    BY Overlaid
  <2> QED
    BY <1>14, <2>1, <2>2
<1>16. y.fresh => FinalKeys' = FinalKeys
  <2>1. y.fresh => Finished
    BY <1>7, Zenon DEF Begun
  <2> QED
    BY <1>8, <2>1, FinishedStays DEF Steady
<1>17. y.fresh => FinalKeys' \subseteq DOMAIN metrics'
  BY <1>7, <1>10, <1>15, <1>16
<1>18. StoredBy(y)'
  BY <1>7, <1>17 DEF StoredBy, AfterRows, AfterStatus, AfterSnapshots, AfterInterviews,
       AfterMetrics, AfterStates
<1>19. Collected(y)' /\ Closed(y)'
  BY <1>7 DEF Collected, Closed, AfterSnapshots, AfterInterviews, AfterMetrics, AfterStates
<1>20. Running(p, y)'
  BY <1>9, <1>13, <1>18, <1>19 DEF Running
<1> QED
  BY <1>2, <1>7, <1>20, OthersKept DEF GoesOn

LEMMA StatusStored ==
  ASSUME RunInv, [RunNext]_runVars, NEW p \in Pass, StoreStatus(p)
  PROVE  DOMAIN passes' = Pass /\ (\A q \in Pass : PassInv(q)') /\ GoesOn(p)
<1>1. RecordInv /\ StoreInv /\ InterviewsInv
  BY DEF RunInv, StoreInv
<1>2. PICK x, y : x = passes[p] /\ y = passes'[p]
  OBVIOUS
<1>3. PICK fields : fields = <<>>
  OBVIOUS
<1>4. Turn(p, "status", fields) /\ DOMAIN fields = {}
  BY <1>3, NoFields DEF StoreStatus
<1>5. {"at", "run", "fresh"} \cap DOMAIN fields = {} /\ "status" \in StepNames
  BY <1>4 DEF StepNames
<1>6. Following(p, "status") = IF p \in Export THEN "collect snapshots" ELSE "artefacts"
  BY StageAfter
<1>7. Following(p, "status") # "over"
  BY <1>6
<1>8. /\ Started(p) /\ Running(p, x) /\ x.at = "status"
      /\ DOMAIN passes' = Pass /\ \A q \in Pass \ {p} : passes'[q] = passes[q]
      /\ Moved(x, y, Following(p, "status"), fields) /\ Begun(p, y)
      /\ y.at = Following(p, "status") /\ y.run = x.run /\ y.fresh = x.fresh /\ settled' = settled
  BY <1>1, <1>2, <1>4, <1>5, <1>7, TurnsOn
<1>9. Steady
  BY RunIsSteady
<1>10. Begun(p, y)'
  BY <1>8, <1>9, BegunKept
<1>11. /\ "divergence" \in DOMAIN x /\ x.divergence \subseteq DOMAIN interviews
       /\ x.fresh => x.divergence = Drifting(Checkpoints)
       /\ x.fresh => FinalKeys \subseteq DOMAIN metrics
  BY <1>8 DEF Running, Measured, StoredBy, AfterRows
<1>12. "divergence" \in DOMAIN y /\ y["divergence"] = x["divergence"]
  BY <1>4, <1>8, <1>11 DEF Moved
<1>13. Measured(y)
  BY <1>6, <1>8, <1>11, <1>12 DEF Measured
<1>14. Measured(y)'
  BY <1>8, <1>9, <1>13, MeasuredKept
<1>15. UNCHANGED metrics /\ status' = 1 .. cycle
  BY <1>1, CyclesCompleted DEF StoreStatus, store_analysis_status
<1>16. y.fresh => Finished /\ FinalKeys' = FinalKeys
  <2>1. y.fresh => Finished
    BY <1>8, Zenon DEF Begun
  <2> QED
    BY <1>9, <2>1, FinishedStays DEF Steady
<1>17. y.fresh => FinalKeys' \subseteq DOMAIN metrics' /\ status' = 1 .. MaxCycle
  BY <1>8, <1>11, <1>15, <1>16 DEF Finished
<1>18. StoredBy(y)'
  BY <1>17 DEF StoredBy
<1>19. Collected(y)' /\ Closed(y)'
  BY <1>6, <1>8 DEF Collected, Closed, AfterSnapshots, AfterInterviews, AfterMetrics, AfterStates
<1>20. Running(p, y)'
  BY <1>10, <1>14, <1>18, <1>19 DEF Running
<1> QED
  BY <1>2, <1>8, <1>20, OthersKept DEF GoesOn

\* A step of an export once the run is analysed, but its last.
Collections == {"collect snapshots", "collect interviews", "collect metrics", "collect states",
                "clear"}

\* What collecting one kind makes of a pass x: y.
Gathers(p, name, fields, x, y) ==
  /\ Started(p) /\ Running(p, x) /\ x.at = name
  /\ DOMAIN passes' = Pass /\ \A q \in Pass \ {p} : passes'[q] = passes[q]
  /\ Moved(x, y, Following(p, name), fields) /\ Begun(p, y) /\ Measured(y) /\ StoredBy(y)
  /\ y.at = Following(p, name) /\ y.run = x.run /\ y.fresh = x.fresh /\ settled' = settled
  /\ Following(p, "collect snapshots") = "collect interviews"
  /\ Following(p, "collect interviews") = "collect metrics"
  /\ Following(p, "collect metrics") = "collect states"
  /\ Following(p, "collect states") = "clear"
  /\ Following(p, "clear") = "publish"

LEMMA Collecting ==
  ASSUME StoreInv, NEW p \in Pass, NEW name \in Collections,
         NEW fields, {"at", "run", "fresh"} \cap DOMAIN fields = {}, Turn(p, name, fields),
         NEW x, x = passes[p], NEW y, y = passes'[p]
  PROVE  Gathers(p, name, fields, x, y)
<1>1. name \in StepNames
  BY DEF Collections, StepNames
<1>2. /\ phase = "idle" /\ UNCHANGED vars /\ x.at = name /\ Started(p) /\ Running(p, x)
      /\ DOMAIN passes' = Pass /\ \A q \in Pass \ {p} : passes'[q] = passes[q]
      /\ \/ /\ Following(p, name) = "over" /\ y = [at |-> "over"]
            /\ settled' = settled \cup {q \in {p} : x.fresh}
         \/ /\ Following(p, name) # "over" /\ settled' = settled
            /\ Moved(x, y, Following(p, name), fields) /\ Begun(p, y)
            /\ y.at = Following(p, name) /\ y.run = x.run /\ y.fresh = x.fresh
  BY <1>1, TurnsOn
<1>3. p \in Export
  BY <1>2 DEF Running, Collections, Begun, Stages, AfterSnapshots, AfterInterviews, AfterMetrics, AfterStates
<1>4. /\ Following(p, "collect snapshots") = "collect interviews"
      /\ Following(p, "collect interviews") = "collect metrics"
      /\ Following(p, "collect metrics") = "collect states"
      /\ Following(p, "collect states") = "clear"
      /\ Following(p, "clear") = "publish"
  BY <1>3, AfterExport
<1>5. Following(p, name) \in AfterSnapshots
  BY <1>4 DEF Collections, AfterSnapshots, AfterInterviews, AfterMetrics, AfterStates
<1>6. Following(p, name) # "over"
  BY <1>5 DEF AfterSnapshots, AfterInterviews, AfterMetrics, AfterStates
<1>7. /\ Started(p) /\ DOMAIN passes' = Pass /\ \A q \in Pass \ {p} : passes'[q] = passes[q]
      /\ Moved(x, y, Following(p, name), fields) /\ Begun(p, y)
      /\ y.at = Following(p, name) /\ y.run = x.run /\ y.fresh = x.fresh /\ settled' = settled
  BY <1>2, <1>6
<1>8. Measured(y)
  BY <1>5, <1>7 DEF Measured, AfterSnapshots, AfterInterviews, AfterMetrics, AfterStates
<1>9. x.at \in AfterStatus
  BY <1>2 DEF Collections, AfterStatus, AfterSnapshots, AfterInterviews, AfterMetrics, AfterStates
<1>10. x.fresh => FinalKeys \subseteq DOMAIN metrics /\ status = 1 .. MaxCycle
  BY <1>2, <1>9 DEF Running, StoredBy, AfterRows
<1>11. StoredBy(y)
  BY <1>7, <1>10 DEF StoredBy
<1> QED
  BY <1>2, <1>4, <1>7, <1>8, <1>11 DEF Gathers

LEMMA Collects ==
  ASSUME RunInv, [RunNext]_runVars, NEW p \in Pass, Collect(p)
  PROVE  DOMAIN passes' = Pass /\ (\A q \in Pass : PassInv(q)') /\ GoesOn(p)
<1>1. RecordInv /\ StoreInv /\ InterviewsInv /\ AllGenuine(metrics)
  BY DEF RunInv, StoreInv
<1>2. PICK x, y : x = passes[p] /\ y = passes'[p]
  OBVIOUS
<1>3. ASSUME Started(p), y.fresh = x.fresh, settled' = settled, Running(p, y),
             DOMAIN passes' = Pass,
             \A q \in Pass \ {p} : passes'[q] = passes[q]
      PROVE  DOMAIN passes' = Pass /\ (\A q \in Pass : PassInv(q)') /\ GoesOn(p)
  <2>1. Running(p, y)'
    BY <1>2, <1>3, ReadKept
  <2> QED
    BY <1>2, <1>3, <2>1, OthersKept DEF GoesOn
<1>4. CASE Turn(p, "collect snapshots", Keep("collected", cycle))
  <2> DEFINE fields == Keep("collected", cycle)
  <2>1. DOMAIN fields = {"collected"} /\ fields["collected"] = cycle /\ Turn(p, "collect snapshots", fields)
    BY <1>4 DEF Keep
  <2> HIDE DEF fields
  <2>2. {"at", "run", "fresh"} \cap DOMAIN fields = {} /\ "collect snapshots" \in Collections
    BY <2>1 DEF Collections
  <2>3. Gathers(p, "collect snapshots", fields, x, y)
    BY <1>1, <1>2, <2>1, <2>2, Collecting
  <2>4. /\ Started(p) /\ Running(p, x) /\ x.at = "collect snapshots"
        /\ DOMAIN passes' = Pass /\ \A q \in Pass \ {p} : passes'[q] = passes[q]
        /\ Moved(x, y, "collect interviews", fields) /\ Begun(p, y) /\ Measured(y) /\ StoredBy(y)
        /\ y.at = "collect interviews" /\ y.run = x.run /\ y.fresh = x.fresh /\ settled' = settled
    BY <2>3 DEF Gathers
  <2>5. "collected" \in DOMAIN y /\ y["collected"] = cycle
    BY <2>1, <2>4 DEF Moved
  <2>6. cycle \in Nat /\ y.run \in 1 .. cycle
    BY <1>1, <2>4, RecordTells DEF Begun
  <2>7. y.collected \in y.run .. cycle
    BY <2>5, <2>6
  <2>8. Collected(y) /\ Closed(y)
    BY <2>4, <2>5, <2>7 DEF Collected, Closed, AfterSnapshots, AfterInterviews, AfterMetrics, AfterStates
  <2>9. Running(p, y)
    BY <2>4, <2>8 DEF Running
  <2> QED
    BY <1>3, <2>4, <2>9
<1>5. CASE Turn(p, "collect interviews", Keep("interviews", interviews))
  <2> DEFINE fields == Keep("interviews", interviews)
  <2>1. /\ DOMAIN fields = {"interviews"} /\ fields["interviews"] = interviews
        /\ Turn(p, "collect interviews", fields)
    BY <1>5 DEF Keep
  <2> HIDE DEF fields
  <2>2. /\ {"at", "run", "fresh"} \cap DOMAIN fields = {} /\ "collect interviews" \in Collections
        /\ "collect interviews" \in AfterSnapshots
    BY <2>1 DEF Collections, AfterSnapshots
  <2>3. Gathers(p, "collect interviews", fields, x, y)
    BY <1>1, <1>2, <2>1, <2>2, Collecting
  <2>4. /\ Started(p) /\ Running(p, x) /\ x.at = "collect interviews"
        /\ DOMAIN passes' = Pass /\ \A q \in Pass \ {p} : passes'[q] = passes[q]
        /\ Moved(x, y, "collect metrics", fields) /\ Begun(p, y) /\ Measured(y) /\ StoredBy(y)
        /\ y.at = "collect metrics" /\ y.run = x.run /\ y.fresh = x.fresh /\ settled' = settled
    BY <2>3 DEF Gathers
  <2>5. "interviews" \in DOMAIN y /\ y["interviews"] = interviews
    BY <2>1, <2>4 DEF Moved
  <2>6. "collected" \in DOMAIN x /\ x.collected \in x.run .. cycle
    BY <2>2, <2>4 DEF Running, Collected
  <2>7. "collected" \in DOMAIN y /\ y["collected"] = x["collected"]
    BY <2>1, <2>4, <2>6 DEF Moved
  <2>8. y.fresh => DOMAIN interviews = Checkpoints
    <3>1. y.fresh => Finished
      BY <2>4, Zenon DEF Begun
    <3> QED
      BY <3>1 DEF Finished
  <2>9. Collected(y) /\ Closed(y)
    BY <2>4, <2>5, <2>6, <2>7, <2>8 DEF Collected, Closed, AfterMetrics, AfterStates
  <2>10. Running(p, y)
    BY <2>4, <2>9 DEF Running
  <2> QED
    BY <1>3, <2>4, <2>10
<1>6. CASE Turn(p, "collect metrics", Keep("metrics", metrics))
  <2> DEFINE fields == Keep("metrics", metrics)
  <2>1. /\ DOMAIN fields = {"metrics"} /\ fields["metrics"] = metrics
        /\ Turn(p, "collect metrics", fields)
    BY <1>6 DEF Keep
  <2> HIDE DEF fields
  <2>2. /\ {"at", "run", "fresh"} \cap DOMAIN fields = {} /\ "collect metrics" \in Collections
        /\ "collect metrics" \in AfterSnapshots /\ "collect metrics" \in AfterInterviews
    BY <2>1 DEF Collections, AfterSnapshots, AfterInterviews
  <2>3. Gathers(p, "collect metrics", fields, x, y)
    BY <1>1, <1>2, <2>1, <2>2, Collecting
  <2>4. /\ Started(p) /\ Running(p, x) /\ x.at = "collect metrics"
        /\ DOMAIN passes' = Pass /\ \A q \in Pass \ {p} : passes'[q] = passes[q]
        /\ Moved(x, y, "collect states", fields) /\ Begun(p, y) /\ Measured(y) /\ StoredBy(y)
        /\ y.at = "collect states" /\ y.run = x.run /\ y.fresh = x.fresh /\ settled' = settled
    BY <2>3 DEF Gathers
  <2>5. "metrics" \in DOMAIN y /\ y["metrics"] = metrics
    BY <2>1, <2>4 DEF Moved
  <2>6. /\ "collected" \in DOMAIN x /\ x.collected \in x.run .. cycle
        /\ "interviews" \in DOMAIN x /\ DOMAIN x.interviews \subseteq DOMAIN interviews
        /\ \A c \in DOMAIN x.interviews : x.interviews[c] = interviews[c]
        /\ x.fresh => DOMAIN x.interviews = Checkpoints
    BY <2>2, <2>4 DEF Running, Collected
  <2>7. /\ "collected" \in DOMAIN y /\ y["collected"] = x["collected"]
        /\ "interviews" \in DOMAIN y /\ y["interviews"] = x["interviews"]
    BY <2>1, <2>4, <2>6 DEF Moved
  <2>8. \A k \in DOMAIN metrics : metrics[k].cited \subseteq Known(committed)
    BY <1>1 DEF AllGenuine, Genuine
  <2>9. Collected(y) /\ Closed(y)
    BY <2>4, <2>5, <2>6, <2>7, <2>8 DEF Collected, Closed, AfterStates
  <2>10. Running(p, y)
    BY <2>4, <2>9 DEF Running
  <2> QED
    BY <1>3, <2>4, <2>10
<1>7. CASE Turn(p, "collect states", Keep("known", Known(committed)))
  <2> DEFINE fields == Keep("known", Known(committed))
  <2>1. /\ DOMAIN fields = {"known"} /\ fields["known"] = Known(committed)
        /\ Turn(p, "collect states", fields)
    BY <1>7 DEF Keep
  <2> HIDE DEF fields
  <2>2. /\ {"at", "run", "fresh"} \cap DOMAIN fields = {} /\ "collect states" \in Collections
        /\ "collect states" \in AfterSnapshots /\ "collect states" \in AfterInterviews
        /\ "collect states" \in AfterMetrics
    BY <2>1 DEF Collections, AfterSnapshots, AfterInterviews, AfterMetrics
  <2>3. Gathers(p, "collect states", fields, x, y)
    BY <1>1, <1>2, <2>1, <2>2, Collecting
  <2>4. /\ Started(p) /\ Running(p, x) /\ x.at = "collect states"
        /\ DOMAIN passes' = Pass /\ \A q \in Pass \ {p} : passes'[q] = passes[q]
        /\ Moved(x, y, "clear", fields) /\ Begun(p, y) /\ Measured(y) /\ StoredBy(y)
        /\ y.at = "clear" /\ y.run = x.run /\ y.fresh = x.fresh /\ settled' = settled
    BY <2>3 DEF Gathers
  <2>5. "known" \in DOMAIN y /\ y["known"] = Known(committed)
    BY <2>1, <2>4 DEF Moved
  <2>6. /\ "collected" \in DOMAIN x /\ x.collected \in x.run .. cycle
        /\ "interviews" \in DOMAIN x /\ DOMAIN x.interviews \subseteq DOMAIN interviews
        /\ \A c \in DOMAIN x.interviews : x.interviews[c] = interviews[c]
        /\ x.fresh => DOMAIN x.interviews = Checkpoints
        /\ "metrics" \in DOMAIN x
        /\ \A k \in DOMAIN x.metrics : x.metrics[k].cited \subseteq Known(committed)
        /\ x.fresh => DOMAIN x.metrics = DOMAIN metrics
    BY <2>2, <2>4 DEF Running, Collected
  <2>7. /\ "collected" \in DOMAIN y /\ y["collected"] = x["collected"]
        /\ "interviews" \in DOMAIN y /\ y["interviews"] = x["interviews"]
        /\ "metrics" \in DOMAIN y /\ y["metrics"] = x["metrics"]
    BY <2>1, <2>4, <2>6 DEF Moved
  <2>8. Collected(y)
    BY <2>4, <2>6, <2>7 DEF Collected
  <2>9. \A c \in DOMAIN x.interviews : x.interviews[c].reported \subseteq Known(committed)
    BY <1>1, <2>6 DEF InterviewsInv
  <2>10. HeldAfter(committed, y.run) \cup RetiredBy(committed, y.run) \subseteq Known(committed)
    BY DEF HeldAfter, RetiredBy
  <2>11. Closed(y)
    BY <2>5, <2>6, <2>7, <2>9, <2>10 DEF Closed
  <2>12. Running(p, y)
    BY <2>4, <2>8, <2>11 DEF Running
  <2> QED
    BY <1>3, <2>4, <2>12
<1> QED
  BY <1>4, <1>5, <1>6, <1>7 DEF Collect

LEMMA Cleared ==
  ASSUME RunInv, [RunNext]_runVars, NEW p \in Pass, Clear(p)
  PROVE  DOMAIN passes' = Pass /\ (\A q \in Pass : PassInv(q)') /\ GoesOn(p)
<1>1. RecordInv /\ StoreInv
  BY DEF RunInv
<1>2. PICK x, y, fields : x = passes[p] /\ y = passes'[p] /\ fields = <<>>
  OBVIOUS
<1>3. Turn(p, "clear", fields) /\ DOMAIN fields = {}
  BY <1>2, NoFields DEF Clear
<1>4. {"at", "run", "fresh"} \cap DOMAIN fields = {} /\ "clear" \in Collections
  BY <1>3 DEF Collections
<1>5. Gathers(p, "clear", fields, x, y)
  BY <1>1, <1>2, <1>3, <1>4, Collecting
<1>6. /\ Started(p) /\ Running(p, x) /\ x.at = "clear"
      /\ DOMAIN passes' = Pass /\ \A q \in Pass \ {p} : passes'[q] = passes[q]
      /\ Moved(x, y, "publish", fields) /\ Begun(p, y) /\ Measured(y) /\ StoredBy(y)
      /\ y.at = "publish" /\ y.run = x.run /\ y.fresh = x.fresh /\ settled' = settled
  BY <1>5 DEF Gathers
<1>7. /\ "clear" \in AfterSnapshots /\ "clear" \in AfterInterviews /\ "clear" \in AfterMetrics
      /\ "clear" \in AfterStates
  BY DEF AfterSnapshots, AfterInterviews, AfterMetrics, AfterStates
<1>8. /\ "collected" \in DOMAIN x /\ x.collected \in x.run .. cycle
      /\ "interviews" \in DOMAIN x /\ DOMAIN x.interviews \subseteq DOMAIN interviews
      /\ \A c \in DOMAIN x.interviews : x.interviews[c] = interviews[c]
      /\ x.fresh => DOMAIN x.interviews = Checkpoints
      /\ "metrics" \in DOMAIN x
      /\ \A k \in DOMAIN x.metrics : x.metrics[k].cited \subseteq Known(committed)
      /\ x.fresh => DOMAIN x.metrics = DOMAIN metrics
  BY <1>6, <1>7 DEF Running, Collected
<1>9. /\ "known" \in DOMAIN x
      /\ \A c \in DOMAIN x.interviews : x.interviews[c].reported \subseteq x.known
      /\ \A k \in DOMAIN x.metrics : x.metrics[k].cited \subseteq x.known
      /\ HeldAfter(committed, x.run) \cup RetiredBy(committed, x.run) \subseteq x.known
  BY <1>6, <1>7 DEF Running, Closed
<1>10. /\ "collected" \in DOMAIN y /\ y["collected"] = x["collected"]
       /\ "interviews" \in DOMAIN y /\ y["interviews"] = x["interviews"]
       /\ "metrics" \in DOMAIN y /\ y["metrics"] = x["metrics"]
       /\ "known" \in DOMAIN y /\ y["known"] = x["known"]
  BY <1>3, <1>6, <1>8, <1>9 DEF Moved
<1>11. Collected(y)
  BY <1>6, <1>8, <1>10 DEF Collected
<1>12. Closed(y)
  BY <1>6, <1>9, <1>10 DEF Closed
<1>13. Running(p, y)
  BY <1>6, <1>11, <1>12 DEF Running
<1>14. Running(p, y)'
  BY <1>2, <1>6, <1>13, ReadKept
<1> QED
  BY <1>2, <1>6, <1>14, OthersKept DEF GoesOn

\* The last step of a pass: it is over, and settled if it began afresh.
LEMMA PassEnds ==
  ASSUME RunInv, [RunNext]_runVars, NEW p \in Pass, NEW name \in {"artefacts", "publish"},
         Turn(p, name, <<>>)
  PROVE  /\ Started(p) /\ Running(p, passes[p]) /\ passes[p].at = name
         /\ name = "publish" <=> p \in Export
         /\ DOMAIN passes' = Pass /\ passes'[p] = [at |-> "over"]
         /\ \A q \in Pass \ {p} : passes'[q] = passes[q]
         /\ \A q \in Pass : PassInv(q)'
         /\ settled' = settled \cup {q \in {p} : passes[p].fresh}
<1>1. RecordInv /\ StoreInv
  BY DEF RunInv
<1>2. PICK x, y, fields : x = passes[p] /\ y = passes'[p] /\ fields = <<>>
  OBVIOUS
<1>3. Turn(p, name, fields) /\ DOMAIN fields = {}
  BY <1>2, NoFields
<1>4. {"at", "run", "fresh"} \cap DOMAIN fields = {} /\ name \in StepNames
  BY <1>3 DEF StepNames
<1>5. /\ phase = "idle" /\ UNCHANGED vars /\ x.at = name /\ Started(p) /\ Running(p, x)
      /\ DOMAIN passes' = Pass /\ \A q \in Pass \ {p} : passes'[q] = passes[q]
      /\ \/ /\ Following(p, name) = "over" /\ y = [at |-> "over"]
            /\ settled' = settled \cup {q \in {p} : x.fresh}
         \/ /\ Following(p, name) # "over" /\ settled' = settled
            /\ Moved(x, y, Following(p, name), fields) /\ Begun(p, y)
            /\ y.at = Following(p, name) /\ y.run = x.run /\ y.fresh = x.fresh
  BY <1>1, <1>2, <1>3, <1>4, TurnsOn
<1>6. x.at \in Stages(p)
  BY <1>5 DEF Running, Begun
<1>7. CASE p \in Export
  <2>1. name = "publish"
    BY <1>5, <1>6, <1>7 DEF Stages, AfterSnapshots, AfterInterviews, AfterMetrics, AfterStates
  <2>2. Following(p, name) = "over"
    BY <1>7, <2>1, AfterExport
  <2>3. y = [at |-> "over"] /\ settled' = settled \cup {q \in {p} : x.fresh}
    BY <1>5, <2>2
  <2>4. \A q \in Pass : PassInv(q)'
    BY <1>2, <1>5, <2>3, OthersKept
  <2> QED
    BY <1>2, <1>5, <1>7, <2>1, <2>3, <2>4
<1>8. CASE p \notin Export
  <2>1. name = "artefacts"
    BY <1>5, <1>6, <1>8 DEF Stages
  <2>2. Following(p, name) = "over"
    BY <1>8, <2>1, AfterAnalysis
  <2>3. y = [at |-> "over"] /\ settled' = settled \cup {q \in {p} : x.fresh}
    BY <1>5, <2>2
  <2>4. \A q \in Pass : PassInv(q)'
    BY <1>2, <1>5, <2>3, OthersKept
  <2> QED
    BY <1>2, <1>5, <1>8, <2>1, <2>3, <2>4
<1> QED
  BY <1>7, <1>8

LEMMA PassBegins ==
  ASSUME RunInv, [RunNext]_runVars, NEW p \in Pass, Begin(p)
  PROVE  DOMAIN passes' = Pass /\ \A q \in Pass : PassInv(q)'
<1>1. RecordInv /\ DOMAIN passes = Pass
  BY DEF RunInv, StoreInv
<1>2. PICK y : y = passes'[p]
  OBVIOUS
<1>3. /\ passes[p] = None /\ history # <<>>
      /\ passes' = [passes EXCEPT ![p] =
           [at |-> "states", run |-> cycle,
            fresh |-> Finished /\ \A q \in Pass : Started(q) => passes[q].fresh]]
  BY DEF Begin
<1>4. /\ DOMAIN passes' = Pass /\ \A q \in Pass \ {p} : passes'[q] = passes[q]
      /\ y = [at |-> "states", run |-> cycle,
              fresh |-> Finished /\ \A q \in Pass : Started(q) => passes[q].fresh]
  BY <1>1, <1>2, <1>3
<1>5. {"at", "run", "fresh"} \subseteq DOMAIN y /\ y.at = "states" /\ y.run = cycle
  BY <1>4
<1>6. y.fresh = (Finished /\ \A q \in Pass : Started(q) => passes[q].fresh)
  BY <1>4, Zenon
<1>7. cycle \in Nat /\ cycle # 0
  <2>1. cycle \in Nat /\ DOMAIN history = 1 .. cycle
    BY <1>1, RecordTells
  <2>2. history \in Seq({history[i] : i \in DOMAIN history}) /\ Len(history) = cycle
    BY <1>1, RecordTells
  <2> QED
    BY <1>3, <2>1, <2>2
<1>8. y.fresh \in BOOLEAN /\ (y.fresh => Finished)
  BY <1>6, Zenon
<1>9. y.fresh => y.run = MaxCycle
  BY <1>5, <1>8 DEF Finished
<1>10. y.at \in Stages(p) /\ y.run \in 1 .. cycle
  BY <1>5, <1>7 DEF Stages
<1>11. Begun(p, y)
  BY <1>5, <1>8, <1>9, <1>10, Zenon DEF Begun
<1>12. Measured(y) /\ StoredBy(y) /\ Collected(y) /\ Closed(y)
  BY <1>5 DEF Measured, StoredBy, Collected, Closed, AfterRows, AfterStatus, AfterSnapshots,
       AfterInterviews, AfterMetrics, AfterStates
<1>13. Running(p, y)
  BY <1>11, <1>12 DEF Running
<1>14. UNCHANGED <<committed, cycle, history, interviews, metrics, status>>
  BY DEF Begin, armVars, vars, storeVars
<1>15. Running(p, y)'
  <2>1. Finished' = Finished /\ FinalKeys' = FinalKeys /\ KeysOfRun' = KeysOfRun
    BY <1>14 DEF Finished, FinalKeys, KeysOfRun
  <2>2. \A k, row : Genuine(k, row)' <=> Genuine(k, row)
    BY <1>14 DEF Genuine, RowOfInterview
  <2>3. Begun(p, y)'
    BY <1>5, <1>8, <1>9, <1>10, <1>14, <2>1, Zenon DEF Begun
  <2>4. Measured(y)' /\ StoredBy(y)' /\ Collected(y)' /\ Closed(y)'
    BY <1>5 DEF Measured, StoredBy, Collected, Closed, AfterRows, AfterStatus, AfterSnapshots,
         AfterInterviews, AfterMetrics, AfterStates
  <2> QED
    BY <2>3, <2>4 DEF Running
<1> QED
  BY <1>2, <1>4, <1>15, OthersKept

\* Every step of a pass, by what it makes of the passes.
PassMoves(p) ==
  \/ Begin(p)
  \/ GoesOn(p)
  \/ /\ Started(p) /\ passes'[p] = [at |-> "over"]
     /\ \A q \in Pass \ {p} : passes'[q] = passes[q]
     /\ \/ settled' = settled
        \/ /\ settled' = settled \cup {q \in {p} : passes[p].fresh}
           /\ StoreArtefacts(p) \/ Publish(p)

LEMMA CutShort ==
  ASSUME RunInv, [RunNext]_runVars, NEW p \in Pass, Started(p),
         passes' = [passes EXCEPT ![p] = [at |-> "over"]]
  PROVE  /\ DOMAIN passes' = Pass /\ passes'[p] = [at |-> "over"]
         /\ \A q \in Pass \ {p} : passes'[q] = passes[q]
         /\ \A q \in Pass : PassInv(q)'
<1>1. DOMAIN passes = Pass
  BY DEF RunInv, StoreInv
<1>2. PICK y : y = passes'[p]
  OBVIOUS
<1>3. /\ DOMAIN passes' = Pass /\ y = [at |-> "over"]
      /\ \A q \in Pass \ {p} : passes'[q] = passes[q]
  BY <1>1, <1>2
<1> QED
  BY <1>2, <1>3, OthersKept

LEMMA PassesKept ==
  ASSUME RunInv, [RunNext]_runVars
  PROVE  /\ DOMAIN passes' = Pass /\ \A q \in Pass : PassInv(q)'
         /\ (UNCHANGED passes /\ UNCHANGED settled) \/ \E p \in Pass : PassMoves(p)
<1> DEFINE Kept == DOMAIN passes' = Pass /\ (\A q \in Pass : PassInv(q)')
           Moving == (UNCHANGED passes /\ UNCHANGED settled) \/ \E p \in Pass : PassMoves(p)
<1>1. CASE UNCHANGED passes /\ UNCHANGED settled
  <2>1. StoreInv /\ DOMAIN passes = Pass
    BY DEF RunInv, StoreInv
  <2>2. Steady
    BY RunIsSteady
  <2>3. \A q \in Pass : PassInv(q)'
    BY <1>1, <2>1, <2>2, PassKept
  <2> QED
    BY <1>1, <2>1, <2>3
<1>2. ASSUME NEW p \in Pass, PassStep(p)
      PROVE  Kept /\ Moving
  <2>1. CASE Begin(p)
    BY <2>1, PassBegins DEF PassMoves
  <2>2. CASE ReadStates(p)
    BY <2>2, StatesRead DEF PassMoves
  <2>3. CASE ReadInterviews(p)
    BY <2>3, InterviewsRead DEF PassMoves
  <2>4. CASE StoreMetrics(p)
    BY <2>4, MetricsStored DEF PassMoves
  <2>5. CASE StoreStatus(p)
    BY <2>5, StatusStored DEF PassMoves
  <2>6. CASE StoreArtefacts(p)
    <3>1. Turn(p, "artefacts", <<>>)
      BY <2>6 DEF StoreArtefacts
    <3> QED
      BY <2>6, <3>1, PassEnds DEF PassMoves
  <2>7. CASE Collect(p)
    BY <2>7, Collects DEF PassMoves
  <2>8. CASE Clear(p)
    BY <2>8, Cleared DEF PassMoves
  <2>9. CASE CanonicalExportExists(p)
    <3>1. Started(p) /\ passes' = [passes EXCEPT ![p] = [at |-> "over"]] /\ settled' = settled
      BY <2>9 DEF CanonicalExportExists, Started
    <3> QED
      BY <3>1, CutShort DEF PassMoves
  <2>10. CASE Publish(p)
    <3>1. Turn(p, "publish", <<>>)
      BY <2>10 DEF Publish
    <3> QED
      BY <2>10, <3>1, PassEnds DEF PassMoves
  <2>11. CASE Die(p)
    <3>1. Started(p) /\ passes' = [passes EXCEPT ![p] = [at |-> "over"]] /\ settled' = settled
      BY <2>11 DEF Die
    <3> QED
      BY <3>1, CutShort DEF PassMoves
  <2>12. CASE DieStoring(p)
    <3>1. Started(p) /\ passes' = [passes EXCEPT ![p] = [at |-> "over"]] /\ settled' = settled
      BY <2>12 DEF DieStoring, Started
    <3> QED
      BY <3>1, CutShort DEF PassMoves
  <2> QED
    BY <1>2, <2>1, <2>2, <2>3, <2>4, <2>5, <2>6, <2>7, <2>8, <2>9, <2>10, <2>11, <2>12 DEF PassStep
<1>3. ArmStep \/ (\E c \in Checkpoints : RunCheckpoint(c)) \/ UNCHANGED runVars
        => UNCHANGED passes /\ UNCHANGED settled
  BY DEF ArmStep, RunCheckpoint, runVars
<1> QED
  BY <1>1, <1>2, <1>3 DEF RunNext

\* A finished run's last passes are all of it: none that begins is older.
LEMMA StartsFresh ==
  ASSUME RunInv, FreshStart
  PROVE  Finished /\ \A q \in Pass : Started(q) => passes[q].fresh
<1>1. SettledInv /\ \A p \in Pass : PassInv(p)
  BY DEF RunInv, StoreInv
<1>2. ASSUME NEW q \in Pass, Started(q), passes[q].fresh PROVE Finished
  <2>1. PICK x : x = passes[q]
    OBVIOUS
  <2>2. Begun(q, x)
    BY <1>1, <1>2, <2>1, StartedRuns DEF Running
  <2> QED
    BY <1>2, <2>1, <2>2, Zenon DEF Begun
<1> QED
  BY <1>1, <1>2 DEF SettledInv, FreshStart

LEMMA FreshStays ==
  ASSUME RunInv, [RunNext]_runVars
  PROVE  /\ \A p \in settled : passes'[p].at = "over"
         /\ FreshStart' => \A q \in Pass : Started(q)' => passes'[q].fresh
<1>1. SettledInv /\ (\A p \in Pass : PassInv(p)) /\ DOMAIN passes = Pass
  BY DEF RunInv, StoreInv
<1>2. settled \subseteq Pass /\ \A p \in settled : passes[p].at = "over"
  BY <1>1 DEF SettledInv
<1>3. FreshStart => \A q \in Pass : Started(q) => passes[q].fresh
  BY <1>1 DEF SettledInv
<1>4. CASE UNCHANGED passes /\ UNCHANGED settled
  BY <1>2, <1>3, <1>4 DEF FreshStart, Started
<1>5. ASSUME NEW p \in Pass, GoesOn(p)
      PROVE  /\ \A q \in settled : passes'[q].at = "over"
             /\ FreshStart' => \A q \in Pass : Started(q)' => passes'[q].fresh
  <2>1. /\ Started(p) /\ settled' = settled /\ passes'[p].fresh = passes[p].fresh
        /\ \A q \in Pass \ {p} : passes'[q] = passes[q]
    BY <1>5 DEF GoesOn
  <2>2. p \notin settled
    BY <1>2, <2>1 DEF Started
  <2>3. FreshStart' => FreshStart
    BY <2>1 DEF FreshStart, Started
  <2> QED
    BY <1>2, <1>3, <2>1, <2>2, <2>3 DEF Started
<1>6. ASSUME NEW p \in Pass, Started(p), passes'[p] = [at |-> "over"],
             \A q \in Pass \ {p} : passes'[q] = passes[q],
             settled' = settled \/ settled' = settled \cup {q \in {p} : passes[p].fresh}
      PROVE  /\ \A q \in settled : passes'[q].at = "over"
             /\ FreshStart' => \A q \in Pass : Started(q)' => passes'[q].fresh
  <2>1. passes'[p].at = "over"
    BY <1>6
  <2>2. p \notin settled
    BY <1>2, <1>6 DEF Started
  <2>3. \A q \in Pass : Started(q)' => q # p /\ Started(q) /\ passes'[q] = passes[q]
    BY <1>6, <2>1 DEF Started
  <2>4. settled' # {} => settled # {} \/ passes[p].fresh
    BY <1>6
  <2>5. FreshStart' => FreshStart
    BY <1>6, <2>3, <2>4 DEF FreshStart
  <2> QED
    BY <1>2, <1>3, <1>6, <2>2, <2>3, <2>5
<1>7. ASSUME NEW p \in Pass, Begin(p)
      PROVE  /\ \A q \in settled : passes'[q].at = "over"
             /\ FreshStart' => \A q \in Pass : Started(q)' => passes'[q].fresh
  <2>1. PICK y : y = passes'[p]
    OBVIOUS
  <2>2. /\ passes[p] = None /\ settled' = settled
        /\ \A q \in Pass \ {p} : passes'[q] = passes[q]
        /\ y = [at |-> "states", run |-> cycle,
                fresh |-> Finished /\ \A q \in Pass : Started(q) => passes[q].fresh]
    BY <1>1, <1>7, <2>1 DEF Begin
  <2>3. y.fresh = (Finished /\ \A q \in Pass : Started(q) => passes[q].fresh)
    BY <2>2, Zenon
  <2>4. p \notin settled /\ ~ Started(p)
    BY <1>2, <2>2 DEF None, Started
  <2>5. \A q \in Pass : Started(q)' => q = p \/ (Started(q) /\ passes'[q] = passes[q])
    BY <2>2 DEF Started
  <2>6. FreshStart' => FreshStart \/ y.fresh
    BY <2>1, <2>2, <2>5 DEF FreshStart
  <2>7. FreshStart => Finished
    BY StartsFresh
  <2>8. FreshStart => y.fresh
    BY <1>3, <2>3, <2>7, Zenon
  <2>9. FreshStart' => y.fresh /\ \A q \in Pass : Started(q) => passes[q].fresh
    BY <2>3, <2>6, <2>8, Zenon
  <2>10. \A q \in settled : passes'[q].at = "over"
    BY <1>2, <2>2, <2>4
  <2> QED
    BY <2>1, <2>5, <2>9, <2>10
<1> QED
  BY <1>4, <1>5, <1>6, <1>7, PassesKept DEF PassMoves

\* What a pass that ends has done, and what of it is settled.
LEMMA EndsSettled ==
  ASSUME RunInv, [RunNext]_runVars, NEW p \in Pass, Started(p), passes[p].fresh,
         StoreArtefacts(p) \/ Publish(p)
  PROVE  /\ Finished /\ 0 < MaxCycle
         /\ FinalKeys \subseteq DOMAIN metrics /\ status = 1 .. MaxCycle
         /\ p \in Analysis => artefacts' = [at |-> "stored", divergence |-> Drifting(Checkpoints)]
<1>1. PICK x : x = passes[p]
  OBVIOUS
<1>2. PICK name \in {"artefacts", "publish"} : /\ Turn(p, name, <<>>)
                                               /\ name = "artefacts" => StoreArtefacts(p)
  BY DEF StoreArtefacts, Publish
<1>3. /\ Running(p, x) /\ x.at = name /\ (name = "publish" <=> p \in Export)
  BY <1>1, <1>2, PassEnds
<1>4. x.at \in AfterRows /\ x.at \in AfterStatus
  BY <1>3 DEF AfterRows, AfterStatus, AfterSnapshots, AfterInterviews, AfterMetrics, AfterStates
<1>5. FinalKeys \subseteq DOMAIN metrics /\ status = 1 .. MaxCycle
  BY <1>1, <1>3, <1>4 DEF Running, StoredBy
<1>6. Begun(p, x) /\ x.run \in 1 .. cycle
  BY <1>3 DEF Running, Begun
<1>7. Finished /\ x.run = MaxCycle
  BY <1>1, <1>6, Zenon DEF Begun
<1>8. 0 < MaxCycle
  BY <1>6, <1>7, ArmAssumption DEF Finished
<1>9. ASSUME p \in Analysis
      PROVE  artefacts' = [at |-> "stored", divergence |-> Drifting(Checkpoints)]
  <2>1. p \notin Export
    BY <1>9, AnalysisAssumption
  <2>2. x.at = "artefacts" /\ StoreArtefacts(p)
    BY <1>2, <1>3, <2>1
  <2>3. x.divergence = Drifting(Checkpoints)
    BY <1>1, <1>3, <2>2 DEF Running, Measured
  <2> QED
    BY <1>1, <2>2, <2>3 DEF StoreArtefacts, store_analysis_artifact
<1> QED
  BY <1>5, <1>7, <1>8, <1>9

LEMMA ArtefactsMove ==
  ASSUME [RunNext]_runVars
  PROVE  UNCHANGED artefacts \/ \E p \in Pass : StoreArtefacts(p)
<1>1. CASE UNCHANGED artefacts
  BY <1>1
<1> QED
  BY <1>1 DEF RunNext, ArmStep, RunCheckpoint, PassStep, Begin, ReadStates,
     ReadInterviews, StoreMetrics, StoreStatus, Collect, Clear, CanonicalExportExists, Publish, Die,
     DieStoring, storeVars, runVars

\* The artefacts a pass stores are of interviews there are, and once a run is
\* settled of all of them.
LEMMA ArtefactsTold ==
  ASSUME RunInv, [RunNext]_runVars, NEW p \in Pass, StoreArtefacts(p)
  PROVE  \E shown : /\ artefacts' = [at |-> "stored", divergence |-> shown]
                    /\ shown \subseteq DOMAIN interviews
                    /\ FreshStart => shown = Drifting(Checkpoints)
<1>1. PICK x : x = passes[p]
  OBVIOUS
<1>2. Turn(p, "artefacts", <<>>) /\ artefacts' = [at |-> "stored", divergence |-> x.divergence]
  BY <1>1 DEF StoreArtefacts, store_analysis_artifact
<1>3. Started(p) /\ Running(p, x) /\ x.at = "artefacts"
  BY <1>1, <1>2, PassEnds
<1>4. FreshStart => x.fresh
  BY <1>1, <1>3, StartsFresh
<1>5. x.divergence \subseteq DOMAIN interviews /\ (x.fresh => x.divergence = Drifting(Checkpoints))
  BY <1>3 DEF Running, Measured
<1> QED
  BY <1>2, <1>4, <1>5

LEMMA ArtefactsKept ==
  ASSUME RunInv, [RunNext]_runVars
  PROVE  ArtefactsInv'
<1>1. ArtefactsInv
  BY DEF RunInv, StoreInv
<1>2. DOMAIN interviews \subseteq DOMAIN interviews'
  BY RunIsSteady DEF Steady, Grows
<1>3. CASE UNCHANGED artefacts
  BY <1>1, <1>2, <1>3 DEF ArtefactsInv
<1>4. ASSUME NEW p \in Pass, StoreArtefacts(p)
      PROVE  ArtefactsInv'
  <2>1. PICK shown : /\ artefacts' = [at |-> "stored", divergence |-> shown]
                     /\ shown \subseteq DOMAIN interviews
    BY <1>4, ArtefactsTold
  <2> QED
    BY <1>2, <2>1 DEF ArtefactsInv
<1> QED
  BY <1>3, <1>4, ArtefactsMove

LEMMA SettledKept ==
  ASSUME RunInv, [RunNext]_runVars
  PROVE  SettledInv'
<1>1. SettledInv /\ Steady
  BY RunIsSteady DEF RunInv, StoreInv
<1>2. /\ \A p \in settled : passes'[p].at = "over"
      /\ FreshStart' => \A q \in Pass : Started(q)' => passes'[q].fresh
  BY FreshStays
<1>3. ASSUME FreshStart, Finished, FinalKeys \subseteq DOMAIN metrics, status = 1 .. MaxCycle
      PROVE  Finished' /\ FinalKeys' \subseteq DOMAIN metrics' /\ status' = 1 .. MaxCycle
  BY <1>1, <1>3, FinishedStays DEF Steady
<1>4. settled # {} => /\ FreshStart /\ Finished /\ 0 < MaxCycle
                      /\ FinalKeys \subseteq DOMAIN metrics /\ status = 1 .. MaxCycle
  BY <1>1 DEF SettledInv, FreshStart
<1>5. settled \cap Analysis # {} =>
        artefacts = [at |-> "stored", divergence |-> Drifting(Checkpoints)]
  BY <1>1 DEF SettledInv
<1>6. settled \cap Analysis # {} =>
        artefacts' = [at |-> "stored", divergence |-> Drifting(Checkpoints)]
  <2>1. CASE UNCHANGED artefacts
    BY <1>5, <2>1
  <2>2. ASSUME NEW p \in Pass, StoreArtefacts(p), settled # {}
        PROVE  artefacts' = [at |-> "stored", divergence |-> Drifting(Checkpoints)]
    <3>1. FreshStart
      BY <2>2 DEF FreshStart
    <3> QED
      BY <2>2, <3>1, ArtefactsTold
  <2> QED
    BY <2>1, <2>2, ArtefactsMove
<1>7. CASE settled' = settled
  BY <1>1, <1>2, <1>3, <1>4, <1>6, <1>7 DEF SettledInv
<1>8. ASSUME NEW p \in Pass, Started(p), passes'[p] = [at |-> "over"],
             settled' = settled \cup {q \in {p} : passes[p].fresh},
             StoreArtefacts(p) \/ Publish(p), settled' # settled
      PROVE  SettledInv'
  <2>1. passes[p].fresh /\ settled' = settled \cup {p}
    BY <1>8
  <2>2. FreshStart
    BY <1>8, <2>1 DEF FreshStart
  <2>3. /\ Finished /\ 0 < MaxCycle
        /\ FinalKeys \subseteq DOMAIN metrics /\ status = 1 .. MaxCycle
        /\ p \in Analysis => artefacts' = [at |-> "stored", divergence |-> Drifting(Checkpoints)]
    BY <1>8, <2>1, EndsSettled
  <2>4. settled' \subseteq Pass /\ \A q \in settled' : passes'[q].at = "over"
    BY <1>1, <1>2, <1>8, <2>1 DEF SettledInv
  <2>5. Finished' /\ FinalKeys' \subseteq DOMAIN metrics' /\ status' = 1 .. MaxCycle
    BY <1>3, <2>2, <2>3
  <2>6. settled' \cap Analysis # {} =>
          artefacts' = [at |-> "stored", divergence |-> Drifting(Checkpoints)]
    BY <1>6, <2>1, <2>3
  <2> QED
    BY <1>2, <2>3, <2>4, <2>5, <2>6 DEF SettledInv
<1>9. settled' = settled \/ \E p \in Pass : /\ Started(p) /\ passes'[p] = [at |-> "over"]
                                            /\ settled' = settled \cup {q \in {p} : passes[p].fresh}
                                            /\ StoreArtefacts(p) \/ Publish(p)
  BY PassesKept DEF PassMoves, GoesOn, Begin
<1> QED
  BY <1>7, <1>8, <1>9

-----------------------------------------------------------------------------
(* What an export publishes.                                               *)

\* The summary that took a memory in was made in the cycle that retired it.
LEMMA DescendantSeen ==
  ASSUME NEW s, Good(s), NEW h, NEW c \in Nat, Recorded(h, s, c), NEW n \in 0 .. c,
         NEW m \in RetiredBy(s, n)
  PROVE  EntryOf(s, m).descendant \in HeldAfter(s, n) \cup RetiredBy(s, n) \cup {Never}
<1>1. /\ IsMemoryState(s) /\ Dated(s, c) /\ DOMAIN h = 1 .. c
      /\ \A i \in 1 .. c : Tells(h[i], s, i)
  <2>1. h \in Seq({h[i] : i \in DOMAIN h}) /\ Len(h) = c
    BY DEF Recorded
  <2>2. DOMAIN h = 1 .. c
    BY <2>1, Appended
  <2> QED
    BY <2>2 DEF Good, Recorded
<1>2. PICK r : r = s.mem[m].retired
  OBVIOUS
<1>3. m \in Known(s) /\ r \in 1 .. n /\ r \in 1 .. c /\ n \in Nat
  BY <1>2 DEF RetiredBy
<1>4. EntryOf(s, m).descendant = IF StandsFor(s, m) = {} THEN Never ELSE Max(StandsFor(s, m))
  BY DEF EntryOf
<1>5. CASE StandsFor(s, m) = {}
  BY <1>4, <1>5
<1>6. CASE StandsFor(s, m) # {}
  <2>1. Opening(h, h, c) /\ c \in 0 .. c /\ s.mem[m].retired <= c
    BY <1>1, <1>2, <1>3 DEF Opening
  <2>2. PICK k \in Known(s) : StandsFor(s, m) = {k} /\ h[r].summary.id = k
    BY <1>2, <1>3, <1>6, <2>1, Absorbed
  <2>3. k \in Nat
    BY <1>1, MemoryIsFinite
  <2>4. Max({k}) = k
    <3>1. k \in Int
      BY <2>3
    <3>2. /\ Max({k}) = k
          /\ Max({k, Never}) = IF k < Never THEN Never ELSE k
      BY <3>1, MaxOfOne, Zenon
    <3> QED
      BY <3>2
  <2>5. EntryOf(s, m).descendant = k
    BY <1>4, <2>2, <2>4
  <2>6. Tells(h[r], s, r)
    BY <1>1, <1>3
  <2>7. s.mem[k].birth = r
    BY <1>1, <2>2, <2>6, BornAs
  <2>8. k \in Active(s) \/ n < s.mem[k].retired \/ s.mem[k].retired \in 1 .. n
    BY <1>1, <1>3, MemoryDates
  <2>9. k \in HeldAfter(s, n) \/ k \in RetiredBy(s, n)
    BY <1>3, <2>7, <2>8 DEF HeldAfter, RetiredBy
  <2> QED
    BY <2>5, <2>9
<1> QED
  BY <1>5, <1>6

\* What a whole dataset has recorded.
RecordedIn(snapshots) ==
  UNION {{<<snapshots[i].cycle, m>> : m \in DOMAIN snapshots[i].retired} : i \in DOMAIN snapshots}

LEMMA GraveyardRecorded ==
  ASSUME RecordInv, NEW n \in 0 .. cycle, NEW run \in 1 .. n,
         NEW e \in build_graveyard(Listed(run))
  PROVE  /\ <<e.retirement, e.memory>> \in RecordedIn(Listed(n))
         /\ e.descendant \in HeldAfter(committed, run) \cup RetiredBy(committed, run) \cup {Never}
<1> DEFINE s == committed
           g == Listed(n)
<1>1. /\ Good(s) /\ cycle \in Nat /\ Recorded(history, s, cycle)
      /\ \A i \in 1 .. cycle : Tells(history[i], s, i)
  BY RecordTells
<1>2. run \in 0 .. cycle /\ n \in Nat
  BY <1>1
<1>3. Opening(Listed(run), history, run) /\ Opening(g, history, n)
  BY <1>2, ListedOpens
<1> HIDE DEF s, g
<1>4. build_graveyard(Listed(run)) = GraveOf(s, run)
  BY <1>1, <1>2, <1>3, GraveyardTold
<1>5. PICK m \in RetiredBy(s, run) : e = EntryOf(s, m)
  BY <1>4 DEF GraveOf
<1>6. PICK r : r = s.mem[m].retired
  OBVIOUS
<1>7. m \in Known(s) /\ r \in 1 .. run /\ r \in 1 .. n /\ r \in 1 .. cycle
  BY <1>1, <1>2, <1>5, <1>6 DEF RetiredBy
<1>8. e.retirement = r /\ e.memory = m
  BY <1>5, <1>6 DEF EntryOf
<1>9. r \in DOMAIN g /\ g[r] = history[r] /\ Tells(history[r], s, r)
  BY <1>1, <1>3, <1>7 DEF Opening
<1>10. g[r].cycle = r /\ DOMAIN g[r].retired = RetiredIn(s, r)
  BY <1>9 DEF Tells
<1>11. m \in DOMAIN g[r].retired
  BY <1>6, <1>7, <1>10 DEF RetiredIn
<1>12. <<e.retirement, e.memory>> \in RecordedIn(g)
  BY <1>8, <1>9, <1>10, <1>11 DEF RecordedIn
<1>13. e.descendant \in HeldAfter(s, run) \cup RetiredBy(s, run) \cup {Never}
  BY <1>1, <1>2, <1>5, DescendantSeen
<1> QED
  BY <1>12, <1>13 DEF s, g

LEMMA DatasetMoves ==
  ASSUME [RunNext]_runVars
  PROVE  \/ UNCHANGED dataset \/ dataset' = [at |-> "part"]
         \/ \E p \in Pass : Publish(p)
<1>1. CASE UNCHANGED dataset
  BY <1>1
<1> QED
  BY <1>1 DEF RunNext, ArmStep, RunCheckpoint, PassStep, Begin, ReadStates, Clear,
     ReadInterviews, StoreMetrics, StoreStatus, StoreArtefacts, Collect, CanonicalExportExists, Die,
     DieStoring, storeVars, runVars

LEMMA OverStays ==
  ASSUME RunInv, [RunNext]_runVars, NEW q \in Pass, passes[q].at = "over"
  PROVE  passes'[q].at = "over" /\ (q \in settled' => q \in settled)
<1>1. DOMAIN passes = Pass
  BY DEF RunInv, StoreInv
<1>2. CASE UNCHANGED passes /\ UNCHANGED settled
  BY <1>2
<1>3. ASSUME NEW p \in Pass, PassMoves(p)
      PROVE  passes'[q].at = "over" /\ (q \in settled' => q \in settled)
  <2>1. CASE Begin(p)
    BY <1>1, <2>1 DEF Begin, None
  <2>2. CASE ~ Begin(p)
    <3>1. q # p
      BY <1>3, <2>2 DEF PassMoves, GoesOn, Started
    <3> QED
      BY <1>3, <2>2, <3>1 DEF PassMoves, GoesOn
  <2> QED
    BY <2>1, <2>2
<1> QED
  BY <1>2, <1>3, PassesKept

\* A dataset as DatasetInv has it, by name.
Whole(d) ==
  /\ d.at = "whole"
  /\ \A c \in DOMAIN d.interviews : d.interviews[c].reported \subseteq d.known
  /\ \A k \in DOMAIN d.metrics : d.metrics[k].cited \subseteq d.known
  /\ \A e \in d.graveyard : /\ <<e.retirement, e.memory>> \in RecordedIn(d.snapshots)
                            /\ e.descendant \in d.known \cup {Never}
Kept(d) ==
  /\ d.by \in Pass /\ passes[d.by].at = "over"
  /\ \A i \in DOMAIN d.snapshots : d.snapshots[i].cycle \in 1 .. cycle
  /\ d.by \in settled => /\ Len(d.snapshots) = MaxCycle
                         /\ DOMAIN d.interviews = Checkpoints
                         /\ DOMAIN d.metrics = DOMAIN metrics

LEMMA DatasetNamed ==
  DatasetInv <=> dataset = None \/ dataset = [at |-> "part"] \/ (Whole(dataset) /\ Kept(dataset))
BY DEF DatasetInv, DatasetResolves, Whole, Kept, RecordedIn

LEMMA DatasetStays ==
  ASSUME RunInv, [RunNext]_runVars, NEW d, Kept(d)
  PROVE  Kept(d)'
<1>1. Steady /\ SettledInv
  BY RunIsSteady DEF RunInv, StoreInv
<1>2. cycle \in Nat /\ cycle' \in Nat /\ cycle <= cycle' /\ DOMAIN history = 1 .. cycle
  BY <1>1, RecordTells DEF Steady, Grows, RunInv
<1>3. d.by \in Pass /\ passes'[d.by].at = "over" /\ (d.by \in settled' => d.by \in settled)
  BY OverStays DEF Kept
<1>4. d.by \in settled => DOMAIN metrics' = DOMAIN metrics
  BY <1>1 DEF SettledInv, FreshStart, Steady
<1>5. \A i \in DOMAIN d.snapshots : d.snapshots[i].cycle \in 1 .. cycle'
  <2> SUFFICES ASSUME NEW i \in DOMAIN d.snapshots PROVE d.snapshots[i].cycle \in 1 .. cycle'
    OBVIOUS
  <2> QED
    BY <1>2 DEF Kept
<1> QED
  BY <1>3, <1>4, <1>5 DEF Kept

LEMMA Published ==
  ASSUME RunInv, [RunNext]_runVars, NEW p \in Pass, Publish(p)
  PROVE  DatasetInv'
<1>1. RecordInv /\ StoreInv /\ SettledInv
  BY DEF RunInv, StoreInv
<1>2. PICK x, d : x = passes[p] /\ d = dataset'
  OBVIOUS
<1>3. Turn(p, "publish", <<>>)
  BY DEF Publish
<1>4. /\ Started(p) /\ Running(p, x) /\ x.at = "publish"
      /\ passes'[p] = [at |-> "over"] /\ settled' = settled \cup {q \in {p} : x.fresh}
  BY <1>2, <1>3, PassEnds
<1>5. UNCHANGED <<committed, cycle, metrics, interviews>>
  BY DEF Publish, Turn, armVars, vars
<1>6. d = [at |-> "whole", by |-> p, snapshots |-> Listed(x.collected),
           interviews |-> x.interviews, metrics |-> x.metrics, known |-> x.known,
           graveyard |-> build_graveyard(Listed(x.run))]
  BY <1>2 DEF Publish
<1>7. /\ d.at = "whole" /\ d.by = p /\ d.snapshots = Listed(x.collected)
      /\ d.interviews = x.interviews /\ d.metrics = x.metrics /\ d.known = x.known
      /\ d.graveyard = build_graveyard(Listed(x.run))
  BY <1>6
<1>8. /\ x.at \in AfterSnapshots /\ x.at \in AfterInterviews /\ x.at \in AfterMetrics
      /\ x.at \in AfterStates
  BY <1>4 DEF AfterSnapshots, AfterInterviews, AfterMetrics, AfterStates
<1>9. Begun(p, x) /\ Collected(x) /\ Closed(x)
  BY <1>4 DEF Running
<1>10. PICK n : n = x.collected
  OBVIOUS
<1>11. n \in x.run .. cycle /\ x.run \in 1 .. cycle /\ cycle \in Nat
  BY <1>1, <1>8, <1>9, <1>10, RecordTells DEF Collected, Begun
<1>12. n \in 0 .. cycle /\ x.run \in 1 .. n
  BY <1>11
<1>13. Opening(Listed(n), history, n) /\ Len(Listed(n)) = n
  BY <1>1, <1>12, ListedOpens
<1>14. \A i \in 1 .. cycle : Tells(history[i], committed, i)
  BY <1>1, RecordTells
<1>15. \A i \in DOMAIN Listed(n) : Listed(n)[i].cycle \in 1 .. cycle
  <2> SUFFICES ASSUME NEW i \in DOMAIN Listed(n) PROVE Listed(n)[i].cycle \in 1 .. cycle
    OBVIOUS
  <2>1. i \in 1 .. cycle /\ Listed(n)[i] = history[i]
    BY <1>11, <1>12, <1>13 DEF Opening
  <2>2. Tells(history[i], committed, i)
    BY <1>14, <2>1
  <2> QED
    BY <2>1, <2>2 DEF Tells
<1>16. /\ \A c \in DOMAIN x.interviews : x.interviews[c].reported \subseteq x.known
       /\ \A k \in DOMAIN x.metrics : x.metrics[k].cited \subseteq x.known
       /\ HeldAfter(committed, x.run) \cup RetiredBy(committed, x.run) \subseteq x.known
  BY <1>8, <1>9 DEF Closed
<1>17. \A e \in d.graveyard : /\ <<e.retirement, e.memory>> \in RecordedIn(d.snapshots)
                              /\ e.descendant \in d.known \cup {Never}
  <2> SUFFICES ASSUME NEW e \in build_graveyard(Listed(x.run))
               PROVE  /\ <<e.retirement, e.memory>> \in RecordedIn(Listed(n))
                      /\ e.descendant \in x.known \cup {Never}
    BY <1>7, <1>10
  <2> QED
    BY <1>1, <1>12, <1>16, GraveyardRecorded
<1>18. Whole(d)
  BY <1>7, <1>16, <1>17 DEF Whole
<1>19. d.by \in settled' => /\ Len(d.snapshots) = MaxCycle
                            /\ DOMAIN d.interviews = Checkpoints
                            /\ DOMAIN d.metrics = DOMAIN metrics
  <2>1. p \notin settled
    BY <1>1, <1>4 DEF SettledInv, Started
  <2>2. p \in settled' => x.fresh
    BY <1>4, <2>1
  <2>3. x.fresh => DOMAIN x.interviews = Checkpoints /\ DOMAIN x.metrics = DOMAIN metrics
    BY <1>8, <1>9 DEF Collected
  <2>4. x.fresh => Finished /\ x.run = MaxCycle
    BY <1>9, Zenon DEF Begun
  <2>5. x.fresh => n = MaxCycle
    BY <1>11, <2>4 DEF Finished
  <2> QED
    BY <1>7, <1>10, <1>13, <2>2, <2>3, <2>5
<1>20. Kept(d)'
  <2>1. passes'[p].at = "over"
    BY <1>4
  <2> QED
    BY <1>5, <1>7, <1>10, <1>15, <1>19, <2>1 DEF Kept
<1>21. dataset' = d
  BY <1>2
<1> QED
  BY <1>18, <1>20, <1>21 DEF DatasetInv, DatasetResolves, Whole, Kept, RecordedIn

LEMMA DatasetKept ==
  ASSUME RunInv, [RunNext]_runVars
  PROVE  DatasetInv'
<1>1. DatasetInv
  BY DEF RunInv, StoreInv
<1>2. CASE UNCHANGED dataset
  <2>1. CASE dataset = None \/ dataset = [at |-> "part"]
    BY <1>2, <2>1 DEF DatasetInv
  <2>2. CASE Whole(dataset) /\ Kept(dataset)
    <3>1. PICK d : d = dataset
      OBVIOUS
    <3>2. Whole(d) /\ Kept(d)'
      BY <2>2, <3>1, DatasetStays
    <3>3. dataset' = d
      BY <1>2, <3>1
    <3> QED
      BY <3>2, <3>3 DEF DatasetInv, DatasetResolves, Whole, Kept, RecordedIn
  <2> QED
    BY <1>1, <2>1, <2>2, DatasetNamed
<1>3. CASE dataset' = [at |-> "part"]
  BY <1>3 DEF DatasetInv
<1> QED
  BY <1>2, <1>3, Published, DatasetMoves

LEMMA RunStarts == RunInit => RunInv
<1> SUFFICES ASSUME RunInit PROVE RunInv
  OBVIOUS
<1>1. /\ interviews = [c \in {} |-> None] /\ metrics = [k \in {} |-> None] /\ artefacts = None
      /\ passes = [p \in Pass |-> None] /\ settled = {}
      /\ dataset \in {None, [at |-> "part"]}
  BY DEF RunInit
<1>2. InterviewsInv /\ AllGenuine(metrics)
  BY <1>1 DEF InterviewsInv, AllGenuine
<1>3. ArtefactsInv /\ DatasetInv
  BY <1>1 DEF ArtefactsInv, DatasetInv
<1>4. DOMAIN passes = Pass /\ \A p \in Pass : passes[p] = None
  BY <1>1
<1>5. \A p \in Pass : PassInv(p) /\ ~ Started(p)
  BY <1>4 DEF PassInv, Started, None
<1>6. SettledInv
  BY <1>1, <1>5 DEF SettledInv, FreshStart
<1> QED
  BY <1>2, <1>3, <1>4, <1>5, <1>6, RecordStarts DEF RunInv, StoreInv

LEMMA RunKept ==
  ASSUME RunInv, [RunNext]_runVars
  PROVE  RunInv'
<1>1. RecordInv'
  BY RecordKept DEF RunInv
<1>2. InterviewsInv'
  BY RunIsSteady DEF Steady
<1>3. AllGenuine(metrics)' /\ ArtefactsInv' /\ DatasetInv' /\ SettledInv'
  BY MetricsStayGenuine, ArtefactsKept, DatasetKept, SettledKept
<1>4. DOMAIN passes' = Pass /\ \A p \in Pass : PassInv(p)'
  BY PassesKept
<1> QED
  BY <1>1, <1>2, <1>3, <1>4 DEF RunInv, StoreInv

\* What the store, the passes under way and the dataset hold of a run, at every
\* moment of any overlap of passes with each other and with the run.
THEOREM RunHolds == RunSpec => []RunInv
<1>1. RunInv /\ [RunNext]_runVars => RunInv'
  BY RunKept
<1> QED
  BY <1>1, RunStarts, PTL DEF RunSpec

-----------------------------------------------------------------------------
(* The numbers that were given.                                            *)

\* Where the rules explain every answer the evaluator's verdict is not heard.
LEMMA VerdictUnheard ==
  ASSUME NEW answers, ~ Consulted(answers), NEW v, NEW w
  PROVE  analyse_contradictions(answers, v) = analyse_contradictions(answers, w)
<1>1. ASSUME NEW i \in DOMAIN Questions
      PROVE  Label(answers, i, v) = Label(answers, i, w)
  <2>1. ~ Unexplained(Questions[i], answers[i])
    BY DEF Consulted
  <2>2. classify_answer(Questions[i], answers[i], v) = classify_answer(Questions[i], answers[i], w)
    BY <2>1 DEF classify_answer
  <2> QED
    BY <2>2 DEF Label
<1>2. \A L : {i \in DOMAIN Questions : Label(answers, i, v) \in L} =
               {i \in DOMAIN Questions : Label(answers, i, w) \in L}
  BY <1>1
<1> QED
  BY <1>2 DEF analyse_contradictions

\* Two genuine rows under one key agree, but where the code lets them differ.
LEMMA GenuineRowsAgree ==
  ASSUME NEW k, NEW one, NEW two, Genuine(k, one), Genuine(k, two)
  PROVE  \/ one = two
         \/ k[2] = "secondary"
         \/ k[2] = "contradiction_rate" /\ Consulted(interviews[k[1]].answers)
<1>1. CASE k[2] = "secondary"
  BY <1>1
<1>2. CASE k[2] = "graveyard_echo"
  BY <1>2 DEF Genuine, RowOfInterview
<1>3. CASE k[2] \in {"origin_recall", "identity_drift"}
  BY <1>3 DEF Genuine, RowOfInterview
<1>4. CASE k[2] = "contradiction_rate"
  <2> DEFINE x == interviews[k[1]]
  <2>1. PICK v : one = Evidence(analyse_contradictions(x.answers, v), x.reported)
    BY <1>4 DEF Genuine, RowOfInterview
  <2>2. PICK w : two = Evidence(analyse_contradictions(x.answers, w), x.reported)
    BY <1>4 DEF Genuine, RowOfInterview
  <2>3. CASE ~ Consulted(x.answers)
    <3>1. PICK a : a = x.answers
      OBVIOUS
    <3>2. analyse_contradictions(a, v) = analyse_contradictions(a, w)
      BY <2>3, <3>1, VerdictUnheard
    <3> QED
      BY <2>1, <2>2, <3>1, <3>2
  <2> QED
    BY <1>4, <2>3
<1>5. k[2] \in {"secondary", "graveyard_echo", "origin_recall", "identity_drift",
                "contradiction_rate"}
  BY DEF Genuine, RowOfInterview
<1> QED
  BY <1>1, <1>2, <1>3, <1>4, <1>5

\* Analysing again, in whatever overlap, changes no number that was given, but
\* a contradiction rate the evaluator was asked for and the totals of the run:
\* analyse_run, store_metric.
THEOREM NumbersStay == RunSpec => NumbersAreSettled
<1>1. RunInv /\ [RunNext]_runVars =>
        [metrics' # metrics =>
           \A k \in DOMAIN metrics :
             \/ k \in DOMAIN metrics' /\ metrics'[k] = metrics[k]
             \/ k[2] = "secondary"
             \/ k[2] = "contradiction_rate" /\ Consulted(interviews[k[1]].answers)]_runVars
  <2> SUFFICES ASSUME RunInv, [RunNext]_runVars, metrics' # metrics, NEW k \in DOMAIN metrics
               PROVE  \/ k \in DOMAIN metrics' /\ metrics'[k] = metrics[k]
                      \/ k[2] = "secondary"
                      \/ k[2] = "contradiction_rate" /\ Consulted(interviews[k[1]].answers)
    OBVIOUS
  <2>1. AllGenuine(metrics) /\ \A p \in Pass : PassInv(p)
    BY DEF RunInv, StoreInv
  <2>2. PICK p, rows :
          /\ p \in Pass /\ passes[p].at = "metrics" /\ metrics' = Over(rows, metrics)
          /\ DOMAIN rows \subseteq DOMAIN passes[p].rows
          /\ \A i \in DOMAIN rows : rows[i] = passes[p].rows[i]
    BY MetricsMove
  <2>3. Running(p, passes[p])
    BY <2>1, <2>2, StartedRuns DEF Started
  <2>4. AllGenuine(passes[p].rows)
    BY <2>2, <2>3 DEF Running, Measured
  <2>5. /\ DOMAIN metrics' = DOMAIN rows \cup DOMAIN metrics
        /\ \A i \in DOMAIN rows : metrics'[i] = rows[i]
        /\ \A i \in DOMAIN metrics \ DOMAIN rows : metrics'[i] = metrics[i]
    <3>1. /\ DOMAIN Over(rows, metrics) = DOMAIN rows \cup DOMAIN metrics
          /\ \A i \in DOMAIN rows : Over(rows, metrics)[i] = rows[i]
          /\ \A i \in DOMAIN metrics \ DOMAIN rows : Over(rows, metrics)[i] = metrics[i]
      BY Overlaid
    <3> QED
      BY <2>2, <3>1
  <2>6. CASE k \in DOMAIN rows
    <3>1. Genuine(k, metrics'[k]) /\ Genuine(k, metrics[k])
      BY <2>1, <2>2, <2>4, <2>5, <2>6 DEF AllGenuine
    <3> QED
      BY <2>5, <3>1, GenuineRowsAgree
  <2> QED
    BY <2>5, <2>6
<1> QED
  BY <1>1, RunHolds, PTL DEF RunSpec, NumbersAreSettled

-----------------------------------------------------------------------------
(* What verify_run asks.                                                   *)

\* A memory is accounted for by the snapshots from the cycle of its birth on.
LEMMA Accounted ==
  ASSUME RecordInv, cycle # 0, NEW n \in 0 .. cycle, NEW m \in Known(committed),
         committed.mem[m].birth <= n
  PROVE  m \in AccountedTo(n)
<1> DEFINE s == committed
           i == s.mem[m].birth
<1>1. /\ IsMemoryState(s) /\ Dated(s, cycle) /\ cycle \in Nat /\ DOMAIN history = 1 .. cycle
      /\ \A j \in 1 .. cycle : Tells(history[j], s, j)
  BY RecordTells DEF Good
<1>2. history # <<>>
  BY <1>1, NoFields
<1>3. i \in 0 .. cycle /\ m \in Nat /\ (m \in Active(s) \/ s.mem[m].retired \in 1 .. cycle)
  BY <1>1, MemoryDates
<1>4. AccountedTo(n) = history[1].before \cup UNION {Minted_by(j) : j \in 1 .. n}
  BY <1>2 DEF AccountedTo
<1>5. CASE i = 0
  <2>1. Tells(history[1], s, 1)
    BY <1>1
  <2>2. history[1].before = HeldAfter(s, 0)
    BY <2>1 DEF Tells
  <2>3. m \in HeldAfter(s, 0)
    BY <1>3, <1>5 DEF HeldAfter
  <2> QED
    BY <1>4, <2>2, <2>3
<1>6. CASE i # 0
  <2>1. PICK j : j = i
    OBVIOUS
  <2>2. j \in 1 .. n /\ j \in 1 .. cycle
    BY <1>1, <1>3, <1>6, <2>1
  <2>3. Tells(history[j], s, j)
    BY <1>1, <2>2
  <2>4. m \in {history[j].candidate, history[j].summary.id}
    BY <1>1, <2>1, <2>3, BornAs
  <2>5. m \in Minted_by(j)
    BY <1>3, <2>4 DEF Minted_by, Never
  <2> QED
    BY <1>4, <2>2, <2>5
<1> QED
  BY <1>5, <1>6

LEMMA LineageResolves ==
  ASSUME RecordInv
  PROVE  dreamer_lineage_resolves
<1> DEFINE s == committed
<1>1. /\ IsMemoryState(s) /\ Good(s) /\ Dated(s, cycle) /\ cycle \in Nat /\ DOMAIN history = 1 .. cycle
      /\ \A j \in 1 .. cycle : Tells(history[j], s, j)
  BY RecordTells DEF Good
<1> SUFFICES ASSUME NEW i \in 1 .. cycle, history[i].summary # NoSummary
             PROVE  /\ Cardinality(history[i].summary.parents) >= 2
                    /\ \A m \in history[i].summary.parents : m \in AccountedTo(i - 1)
  BY <1>1 DEF dreamer_lineage_resolves
<1>2. Tells(history[i], s, i)
  BY <1>1
<1>3. PICK k : k = history[i].summary.id
  OBVIOUS
<1>4. /\ k \in Known(s) /\ s.mem[k].kind = "summary"
      /\ history[i].summary.parents = s.mem[k].parents
  BY <1>2, <1>3 DEF Tells
<1>5. s.mem[k].birth = i
  BY <1>1, <1>2, <1>3, <1>4, BornAs
<1>6. Cardinality(s.mem[k].parents) >= 2
  <2>1. Consistent(s.mem[k])
    BY <1>1, <1>4 DEF IsMemoryState
  <2> QED
    BY <1>4, <2>1 DEF Consistent, MinSummarySources
<1>7. ASSUME NEW m \in s.mem[k].parents
      PROVE  m \in AccountedTo(i - 1)
  <2>1. m \in Known(s) /\ k \in StandsFor(s, m)
    BY <1>1, <1>4, <1>7, OnlySummariesHaveParents DEF StandsFor
  <2>2. s.mem[m].status = "compressed" /\ s.mem[m].retired = i
    <3>1. IF s.mem[m].status = "compressed"
          THEN \E j \in Known(s) : /\ StandsFor(s, m) = {j} /\ m < j
                                   /\ s.mem[j].birth = s.mem[m].retired
          ELSE StandsFor(s, m) = {}
      BY <1>1, <2>1 DEF Good, Lineage
    <3> QED
      BY <1>5, <2>1, <3>1
  <2>3. m \notin Active(s)
    BY <2>2 DEF Active
  <2>4. s.mem[m].birth \in Nat /\ s.mem[m].birth < i
    BY <1>1, <2>1, <2>2, <2>3, MemoryDates
  <2>5. PICK n : n = i - 1
    OBVIOUS
  <2>6. n \in 0 .. cycle /\ s.mem[m].birth <= n /\ cycle # 0
    BY <1>1, <2>4, <2>5
  <2> QED
    BY <2>1, <2>5, <2>6, Accounted
<1> QED
  BY <1>4, <1>6, <1>7

LEMMA NothingReturns ==
  ASSUME RecordInv
  PROVE  nothing_forgotten_returned
<1> DEFINE s == committed
<1>1. /\ IsMemoryState(s) /\ Dated(s, cycle) /\ cycle \in Nat /\ DOMAIN history = 1 .. cycle
      /\ \A j \in 1 .. cycle : Tells(history[j], s, j)
  BY RecordTells DEF Good
<1> SUFFICES ASSUME NEW i \in 1 .. cycle, NEW j \in 1 .. cycle, i < j,
                    NEW m \in DOMAIN history[i].retired, m \in history[j].after
             PROVE  FALSE
  BY <1>1 DEF nothing_forgotten_returned
<1>2. Tells(history[i], s, i) /\ Tells(history[j], s, j)
  BY <1>1
<1>3. m \in RetiredIn(s, i)
  BY <1>2 DEF Tells
<1>4. m \in HeldAfter(s, j)
  BY <1>2 DEF Tells
<1>5. m \in Known(s) /\ s.mem[m].retired = i
  BY <1>3 DEF RetiredIn
<1>6. m \notin Active(s)
  BY <1>1, <1>5, MemoryDates DEF Never
<1> QED
  BY <1>4, <1>5, <1>6 DEF HeldAfter

\* Of the snapshots and the states.
LEMMA SnapshotsAccepted ==
  ASSUME RecordInv
  PROVE  /\ within_budget /\ pinned_memory_survives /\ interviews_are_read_only
         /\ seeds_are_present /\ no_future_stimuli_through_the_api
         /\ no_duplicate_snapshot /\ compression_records_are_distinct
<1> DEFINE s == committed
<1>1. /\ IsMemoryState(s) /\ Dated(s, cycle) /\ cycle \in Nat /\ DOMAIN history = 1 .. cycle
      /\ \A j \in 1 .. cycle : Tells(history[j], s, j)
      /\ Len(history) = cycle
  BY RecordTells DEF Good
<1>2. within_budget
  BY <1>1 DEF within_budget, Tells
<1>3. pinned_memory_survives
  <2> SUFFICES ASSUME arm = "SINK", NEW i \in 1 .. cycle PROVE PinnedId \in history[i].after
    BY <1>1 DEF pinned_memory_survives
  <2>1. PinnedId \in Active(s)
    BY DEF RecordInv, ArmInv, OriginInv, HoldsOrigins, Origins
  <2>2. PinnedId \in BornIn(s, 0)
    BY <1>1, ArmAssumption DEF Dated
  <2>3. PinnedId \in HeldAfter(s, i)
    BY <2>1, <2>2 DEF BornIn, HeldAfter
  <2>4. Tells(history[i], s, i)
    BY <1>1
  <2> QED
    BY <2>3, <2>4 DEF Tells
<1>4. interviews_are_read_only
  <2> SUFFICES ASSUME history # <<>>, NEW m \in Known(s) PROVE m \in AccountedTo(cycle)
    BY <1>1 DEF interviews_are_read_only
  <2>1. cycle # 0
    <3>1. history \in Seq({history[i] : i \in DOMAIN history})
      BY RecordTells
    <3> QED
      BY <1>1, <3>1
  <2>2. s.mem[m].birth <= cycle /\ cycle \in 0 .. cycle
    BY <1>1 DEF Dated
  <2> QED
    BY <2>1, <2>2, Accounted
<1>5. seeds_are_present
  <2>1. {m \in Known(s) : s.mem[m].kind = "seed"} = BornIn(s, 0)
    BY <1>1 DEF Dated, BornIn
  <2> QED
    BY <1>1, <2>1 DEF seeds_are_present, Dated, SeedIds
<1>6. no_future_stimuli_through_the_api
  <2>1. current_cycle + 1 \notin 1 .. current_cycle
    BY <1>1 DEF current_cycle
  <2> QED
    BY <2>1 DEF no_future_stimuli_through_the_api, get_cycle, Completed
<1>7. no_duplicate_snapshot
  <2>1. \A j \in 1 .. cycle : history[j].cycle = j
    BY <1>1 DEF Tells
  <2> QED
    BY <1>1, <2>1 DEF no_duplicate_snapshot
<1>8. compression_records_are_distinct
  <2> SUFFICES ASSUME NEW i \in 1 .. cycle, NEW j \in 1 .. cycle, history[i].summary # NoSummary,
                      history[i].summary.id = history[j].summary.id
               PROVE  i = j
    BY <1>1 DEF compression_records_are_distinct
  <2>1. Tells(history[i], s, i) /\ Tells(history[j], s, j)
    BY <1>1
  <2>2. PICK k : k = history[i].summary.id /\ k = history[j].summary.id
    OBVIOUS
  <2>3. k \in Known(s)
    BY <2>1, <2>2 DEF Tells
  <2>4. s.mem[k].birth = i
    BY <1>1, <2>1, <2>2, <2>3, BornAs
  <2>5. s.mem[k].birth = j
    BY <1>1, <2>1, <2>2, <2>3, BornAs
  <2> QED
    BY <2>4, <2>5
<1> QED
  BY <1>2, <1>3, <1>4, <1>5, <1>6, <1>7, <1>8

\* Of the graveyard.
LEMMA GraveyardAccepted ==
  ASSUME RecordInv
  PROVE  /\ graveyard_distinguishes_compression(build_graveyard(history))
         /\ graveyard_covers_every_eviction(build_graveyard(history))
<1>1. PICK s, c : s = committed /\ c = cycle
  OBVIOUS
<1>2. /\ Good(s) /\ c \in Nat /\ Recorded(history, s, c) /\ Dated(s, c)
      /\ DOMAIN history = 1 .. c /\ \A i \in 1 .. c : Tells(history[i], s, i)
  BY <1>1, RecordTells
<1>3. build_graveyard(history) = GraveOf(s, c)
  BY <1>2, GraveyardNow
<1>4. ASSUME NEW m \in RetiredBy(s, c), EntryOf(s, m).status = "compressed"
      PROVE  EntryOf(s, m).descendant # Never /\ ~ EntryOf(s, m).genuinely_inaccessible
  <2>1. s.mem[m].status = "compressed" /\ m \in Known(s) /\ IsMemoryState(s)
    BY <1>2, <1>4 DEF EntryOf, RetiredBy, Good
  <2>2. PICK k \in Known(s) : StandsFor(s, m) = {k}
    BY <1>2, <2>1 DEF Good, Lineage
  <2>3. k \in Nat /\ k \in Int
    BY <2>1, MemoryIsFinite
  <2>4. Max({k}) = k
    BY <2>3, MaxOfOne, Zenon
  <2>5. EntryOf(s, m).descendant = k
    BY <2>2, <2>4 DEF EntryOf
  <2>6. k # Never
    BY <2>3 DEF Never
  <2>7. ~ EntryOf(s, m).genuinely_inaccessible
    BY <2>1 DEF EntryOf
  <2> QED
    BY <2>5, <2>6, <2>7
<1>5. graveyard_distinguishes_compression(GraveOf(s, c))
  BY <1>4, Zenon DEF graveyard_distinguishes_compression, GraveOf
<1>6. ASSUME NEW i \in 1 .. c, NEW m \in DOMAIN history[i].retired
      PROVE  \E e \in GraveOf(s, c) : e.memory = m
  <2>1. Tells(history[i], s, i)
    BY <1>2
  <2>2. m \in RetiredIn(s, i)
    BY <1>6, <2>1 DEF Tells
  <2>3. m \in RetiredBy(s, c)
    BY <2>2 DEF RetiredIn, RetiredBy
  <2>4. EntryOf(s, m) \in GraveOf(s, c) /\ EntryOf(s, m).memory = m
    BY <2>3 DEF GraveOf, EntryOf
  <2> QED
    BY <2>4
<1>7. graveyard_covers_every_eviction(GraveOf(s, c))
  BY <1>2, <1>6 DEF graveyard_covers_every_eviction
<1> QED
  BY <1>3, <1>5, <1>7

\* Of the interviews and the analysis, once a pass has settled.
LEMMA AnalysisAccepted ==
  ASSUME RunInv, 0 \in Checkpoints, settled \cap Analysis # {}
  PROVE  checkpoint_interviews_exist /\ analysis_is_complete /\ checkpoint_analysis_exists
<1>1. /\ Finished /\ 0 < MaxCycle /\ FinalKeys \subseteq DOMAIN metrics
      /\ status = 1 .. MaxCycle
      /\ artefacts = [at |-> "stored", divergence |-> Drifting(Checkpoints)]
  BY DEF RunInv, StoreInv, SettledInv
<1>2. /\ cycle = MaxCycle /\ DOMAIN interviews = Checkpoints /\ MaxCycle \in Nat
      /\ Drifting(Checkpoints) = Checkpoints
  BY <1>1, ArmAssumption DEF Finished, Drifting
<1>3. /\ IsMemoryState(committed) /\ DOMAIN history = 1 .. MaxCycle
      /\ \A i \in 1 .. MaxCycle : Tells(history[i], committed, i)
  BY <1>2, RecordTells DEF RunInv, Good
<1>4. checkpoint_interviews_exist
  BY <1>2 DEF checkpoint_interviews_exist
<1>5. \A c \in Checkpoints : \A name \in Required : <<c, name>> \in DOMAIN metrics
  <2> SUFFICES ASSUME NEW c \in Checkpoints, NEW name \in Required PROVE <<c, name>> \in FinalKeys
    BY <1>1
  <2> QED
    BY <1>2 DEF Required, FinalKeys, KeysOfInterviews
<1>6. checkpoint_analysis_exists
  BY <1>1, <1>2, <1>5 DEF checkpoint_analysis_exists
<1>7. \A name \in Required : Named(name) # {}
  <2> SUFFICES ASSUME NEW name \in Required PROVE Named(name) # {}
    OBVIOUS
  <2>1. <<0, name>> \in DOMAIN metrics
    BY <1>5
  <2> QED
    BY <2>1 DEF Named
<1>8. ASSUME NEW i \in 1 .. MaxCycle, NEW j \in 1 .. MaxCycle, i < j,
             DOMAIN history[i].retired # {}
      PROVE  Named("graveyard_echo") # {}
  <2>1. Tells(history[i], committed, i)
    BY <1>3
  <2>2. RetiredIn(committed, i) # {}
    BY <1>8, <2>1 DEF Tells
  <2>3. RetiredBy(committed, j - 1) # {}
    BY <1>8, <2>2 DEF RetiredIn, RetiredBy
  <2>4. j \in EchoCycles(committed, MaxCycle)
    BY <2>3 DEF EchoCycles
  <2>5. <<j, "graveyard_echo">> \in DOMAIN metrics
    BY <1>1, <2>4 DEF FinalKeys, KeysOfRun
  <2> QED
    BY <2>5 DEF Named
<1>9. status # {} /\ 1 .. cycle \subseteq status
  <2>1. 1 \in 1 .. MaxCycle
    BY <1>1, <1>2
  <2> QED
    BY <1>1, <1>2, <2>1
<1>10. analysis_is_complete
  BY <1>3, <1>7, <1>8, <1>9 DEF analysis_is_complete
<1> QED
  BY <1>4, <1>6, <1>10

\* Of a dataset.
LEMMA DatasetAccepted ==
  ASSUME RunInv, export_checksums_pass, dataset.by \in settled
  PROVE  export_record_counts_match_the_run /\ export_holds_no_unreleased_data
<1>1. dataset.at = "whole"
  BY DEF export_checksums_pass
<1>2. Kept(dataset)
  BY <1>1, DatasetNamed DEF RunInv, StoreInv, None
<1>3. Finished
  BY DEF RunInv, StoreInv, SettledInv
<1>4. cycle = MaxCycle /\ DOMAIN interviews = Checkpoints /\ Len(history) = cycle /\ cycle \in Nat
  BY <1>3, RecordTells DEF Finished, RunInv
<1>5. export_record_counts_match_the_run
  BY <1>2, <1>4 DEF Kept, export_record_counts_match_the_run
<1>6. export_holds_no_unreleased_data
  BY <1>2, <1>4 DEF Kept, export_holds_no_unreleased_data
<1> QED
  BY <1>5, <1>6

\* verify_run finds nothing wrong, whatever the run went through, if cycle 0
\* is among the checkpoints: without its interview no identity drift is ever
\* measured, and that one is missing is the first thing it finds.
THEOREM VerifierHasNoComplaint ==
  0 \in Checkpoints => (RunSpec => []VerifierAccepts)
<1>1. 0 \in Checkpoints /\ RunInv => VerifierAccepts
  <2> SUFFICES ASSUME 0 \in Checkpoints, RunInv PROVE VerifierAccepts
    OBVIOUS
  <2>1. RecordInv
    BY DEF RunInv
  <2>2. /\ within_budget /\ pinned_memory_survives /\ interviews_are_read_only
        /\ seeds_are_present /\ no_future_stimuli_through_the_api
        /\ no_duplicate_snapshot /\ compression_records_are_distinct
    BY <2>1, SnapshotsAccepted
  <2>3. dreamer_lineage_resolves /\ nothing_forgotten_returned
    BY <2>1, LineageResolves, NothingReturns
  <2>4. metric_evidence_resolves
    BY DEF RunInv, StoreInv, AllGenuine, Genuine, metric_evidence_resolves
  <2>5. /\ graveyard_distinguishes_compression(build_graveyard(history))
        /\ graveyard_covers_every_eviction(build_graveyard(history))
    BY <2>1, GraveyardAccepted
  <2>6. settled \cap Analysis # {} =>
          checkpoint_interviews_exist /\ analysis_is_complete /\ checkpoint_analysis_exists
    BY AnalysisAccepted
  <2>7. export_checksums_pass /\ dataset.by \in settled =>
          export_record_counts_match_the_run /\ export_holds_no_unreleased_data
    BY DatasetAccepted
  <2> QED
    BY <2>2, <2>3, <2>4, <2>5, <2>6, <2>7 DEF VerifierAccepts
<1>2. RunSpec => []RunInv
  BY RunHolds
<1>3. CASE 0 \in Checkpoints
  <2>1. RunInv => VerifierAccepts
    BY <1>1, <1>3
  <2> QED
    BY <1>2, <2>1, PTL
<1>4. CASE 0 \notin Checkpoints
  BY <1>4
<1> QED
  BY <1>3, <1>4

-----------------------------------------------------------------------------
(* References. *)

\* Every memory an answer names is one the arm has known.
LEMMA NamesAreKnown ==
  ASSUME RunInv
  PROVE  Told(build_graveyard(history)) \subseteq Known(committed)
<1>1. PICK s, c : s = committed /\ c = cycle
  OBVIOUS
<1>2. /\ Good(s) /\ IsMemoryState(s) /\ c \in Nat /\ Recorded(history, s, c) /\ Dated(s, c)
      /\ DOMAIN history = 1 .. c /\ \A i \in 1 .. c : Tells(history[i], s, i)
      /\ Len(history) = c /\ build_graveyard(history) = GraveOf(s, c)
  BY <1>1, RecordTells, GraveyardNow DEF RunInv, Good
<1>3. ASSUME NEW i \in list_cycles
      PROVE  LET v == get_cycle(i)
             IN {v.candidate, v.created_summary} \cup v.retired \cup v.sources
                  \subseteq Known(s) \cup {Never}
  <2>1. i \in 1 .. c
    <3>1. PICK j \in 1 .. c : history[j].cycle = i
      BY <1>2 DEF list_cycles, list_completed_cycles
    <3>2. Tells(history[j], s, j)
      BY <1>2
    <3> QED
      BY <3>1, <3>2 DEF Tells
  <2>2. PICK x : x = history[i]
    OBVIOUS
  <2>3. get_cycle(i) = CycleView(x)
    BY <1>2, <1>3, <2>1, <2>2 DEF get_cycle, Completed, current_cycle
  <2>4. Tells(x, s, i)
    BY <1>2, <2>1, <2>2
  <2>5. x.candidate \in Known(s) /\ DOMAIN x.retired \subseteq Known(s)
    BY <2>4 DEF Tells, RetiredIn
  <2>6. x.summary.id \in Known(s) \cup {Never} /\ x.summary.parents \subseteq Known(s)
    <3>1. CASE x.summary = NoSummary
      BY <3>1 DEF NoSummary
    <3>2. CASE /\ x.summary.id \in Known(s)
               /\ x.summary.parents = s.mem[x.summary.id].parents
      <4>1. PICK k : k = x.summary.id
        OBVIOUS
      <4> QED
        BY <1>2, <3>2, <4>1, OnlySummariesHaveParents
    <3> QED
      BY <2>4, <3>1, <3>2 DEF Tells
  <2> QED
    BY <2>3, <2>5, <2>6 DEF CycleView
<1>4. ASSUME NEW e \in GraveOf(s, c)
      PROVE  e.descendant \in Known(s) \cup {Never}
  <2>1. PICK m \in RetiredBy(s, c) : e = EntryOf(s, m)
    BY <1>4 DEF GraveOf
  <2>2. PICK n : n = c /\ n \in 0 .. c
    BY <1>2
  <2>3. m \in RetiredBy(s, n)
    BY <2>2
  <2>4. EntryOf(s, m).descendant \in HeldAfter(s, n) \cup RetiredBy(s, n) \cup {Never}
    BY <1>2, <2>2, <2>3, DescendantSeen
  <2> QED
    BY <2>1, <2>4 DEF HeldAfter, RetiredBy
<1>5. \A k \in DOMAIN metrics : metrics[k].cited \subseteq Known(s)
  BY <1>1 DEF RunInv, StoreInv, AllGenuine, Genuine
<1>6. \A k \in DOMAIN interviews : interviews[k].reported \subseteq Known(s)
  BY <1>1 DEF RunInv, StoreInv, InterviewsInv
<1>7. ASSUME NEW m \in Told(GraveOf(s, c))
      PROVE  m \in Known(s)
  <2> DEFINE told(v) == {v.candidate, v.created_summary} \cup v.retired \cup v.sources
             first  == UNION {told(v) : v \in {get_cycle(i) : i \in list_cycles}}
             second == {e.descendant : e \in GraveOf(s, c)}
             third  == UNION {metrics[k].cited : k \in DOMAIN metrics}
             fourth == UNION {interviews[k].reported : k \in DOMAIN interviews}
  <2>0. Told(GraveOf(s, c)) = (first \cup second \cup third \cup fourth) \ {Never}
    BY DEF Told
  <2>1. /\ m # Never
        /\ \/ \E v \in {get_cycle(i) : i \in list_cycles} : m \in told(v)
           \/ \E e \in GraveOf(s, c) : m = e.descendant
           \/ \E k \in DOMAIN metrics : m \in metrics[k].cited
           \/ \E k \in DOMAIN interviews : m \in interviews[k].reported
    <3>1. /\ m # Never
          /\ \/ m \in first
             \/ m \in second
             \/ m \in third
             \/ m \in fourth
      <4> HIDE DEF first, second, third, fourth
      <4> QED
        BY <1>7, <2>0
    <3>2. m \in first => \E v \in {get_cycle(i) : i \in list_cycles} : m \in told(v)
      <4> HIDE DEF told
      <4> QED
        OBVIOUS
    <3> QED
      BY <3>1, <3>2
  <2>2. ASSUME NEW v \in {get_cycle(i) : i \in list_cycles},
               m \in told(v)
        PROVE  m \in Known(s)
    <3>1. PICK i \in list_cycles : v = get_cycle(i)
      BY <2>2
    <3>2. {v.candidate, v.created_summary} \cup v.retired \cup v.sources
            \subseteq Known(s) \cup {Never}
      BY <1>3, <3>1
    <3> QED
      BY <2>1, <2>2, <3>2
  <2> QED
    BY <1>4, <1>5, <1>6, <2>1, <2>2
<1> QED
  BY <1>1, <1>2, <1>7

\* There are as many entries as memories that have left.
LEMMA GraveyardCounts ==
  ASSUME NEW s, Good(s), NEW c \in Nat, Dated(s, c)
  PROVE  Cardinality(GraveOf(s, c)) = Cardinality(Known(s)) - Cardinality(Active(s))
<1>1. /\ RetiredBy(s, c) = Known(s) \ Active(s) /\ IsFiniteSet(Known(s))
      /\ Known(s) \cap Active(s) = Active(s)
  BY RetiredByNow, MemoryIsFinite DEF Good, Active
<1>2. /\ IsFiniteSet(RetiredBy(s, c))
      /\ Cardinality(RetiredBy(s, c)) = Cardinality(Known(s)) - Cardinality(Active(s))
  BY <1>1, FS_Difference
<1> DEFINE told == [m \in RetiredBy(s, c) |-> EntryOf(s, m)]
<1>3. told \in Surjection(RetiredBy(s, c), GraveOf(s, c))
  BY DEF Surjection, GraveOf
<1>4. \A m : EntryOf(s, m).memory = m
  BY DEF EntryOf
<1>5. told \in Injection(RetiredBy(s, c), GraveOf(s, c))
  BY <1>3, <1>4 DEF Injection, IsInjective, Surjection
<1> HIDE DEF told
<1>6. Cardinality(GraveOf(s, c)) = Cardinality(RetiredBy(s, c))
  BY <1>2, <1>3, <1>5, FS_Surjection
<1> QED
  BY <1>2, <1>6

LEMMA ApiAnswers ==
  ASSUME RunInv
  PROVE  ApiResolves
<1>1. PICK s, c : s = committed /\ c = cycle
  OBVIOUS
<1>2. /\ Good(s) /\ c \in Nat /\ Recorded(history, s, c) /\ Dated(s, c)
      /\ Len(history) = c /\ get_graveyard = GraveOf(s, c)
  BY <1>1, RecordTells, GraveyardNow DEF RunInv, get_graveyard
<1>3. RetiredBy(s, c) = Known(s) \ Active(s) /\ Active(s) \subseteq Known(s)
  BY <1>2, RetiredByNow DEF Active
<1>4. {e.memory : e \in GraveOf(s, c)} = RetiredBy(s, c)
  <2>1. \A m : EntryOf(s, m).memory = m
    BY DEF EntryOf
  <2> QED
    BY <2>1 DEF GraveOf
<1>5. ArmSummary.active = Active(s)
      /\ ArmSummary.retired = Cardinality(Known(s)) - Cardinality(Active(s))
  BY <1>1 DEF ArmSummary
<1>6. \A m \in Told(get_graveyard) :
        (m \in ArmSummary.active) <=> (m \notin {e.memory : e \in get_graveyard})
  <2>1. Told(get_graveyard) \subseteq Known(s)
    BY <1>1, NamesAreKnown DEF get_graveyard
  <2> QED
    BY <1>2, <1>3, <1>4, <1>5, <2>1
<1>7. ASSUME NEW e \in GraveOf(s, c), e.descendant # Never
      PROVE  e.descendant \in get_lineage(e.memory).children
  <2>1. PICK m \in RetiredBy(s, c) : e = EntryOf(s, m)
    BY <1>7 DEF GraveOf
  <2>2. m \in Known(s) /\ IsMemoryState(s) /\ Lineage(s)
    BY <1>2, <2>1 DEF RetiredBy, Good
  <2>3. /\ e.memory = m
        /\ e.descendant = IF StandsFor(s, m) = {} THEN Never ELSE Max(StandsFor(s, m))
    BY <2>1 DEF EntryOf
  <2>4. StandsFor(s, m) # {}
    BY <1>7, <2>3
  <2>5. PICK k \in Known(s) : StandsFor(s, m) = {k}
    BY <2>2, <2>4 DEF Lineage
  <2>6. k \in Int
    BY <2>2, MemoryIsFinite
  <2>7. Max({k}) = k
    BY <2>6, MaxOfOne, Zenon
  <2>8. e.descendant = k
    BY <2>3, <2>5, <2>7
  <2>9. lineage_of(history, m) = [parents |-> s.mem[m].parents, children |-> StandsFor(s, m)]
    BY <1>2, <2>2, LineageTold
  <2>10. get_lineage(m).children = StandsFor(s, m)
    BY <2>4, <2>9 DEF get_lineage
  <2> QED
    BY <2>3, <2>5, <2>8, <2>10
<1>8. Cardinality(get_graveyard) = ArmSummary.retired
  BY <1>2, <1>5, GraveyardCounts
<1>9. \A i \in get_divergence : get_interviews(i) # NotFound
  <2> SUFFICES ASSUME NEW i \in get_divergence PROVE get_interviews(i) # NotFound
    OBVIOUS
  <2>1. i \in DOMAIN interviews
    BY DEF get_divergence, RunInv, StoreInv, ArtefactsInv
  <2>2. i <= current_cycle /\ interviews[i] # None
    BY <1>1, <1>2, <2>1 DEF RunInv, StoreInv, InterviewsInv, current_cycle
  <2> QED
    BY <2>1, <2>2 DEF get_interviews, NotFound
<1> QED
  BY <1>2, <1>6, <1>7, <1>8, <1>9 DEF ApiResolves

\* Neither a reader of the API nor one of a dataset is ever sent to a record
\* that is not there, whatever was written or exported meanwhile.
THEOREM NoReferenceDangles == RunSpec => []ReferencesResolve
<1>1. RunInv => ReferencesResolve
  <2> SUFFICES ASSUME RunInv PROVE ReferencesResolve
    OBVIOUS
  <2>1. ApiResolves
    BY ApiAnswers
  <2>2. DatasetResolves
    <3>1. dataset.at = "whole" => dataset # None /\ dataset # [at |-> "part"]
      BY DEF None
    <3>2. DatasetInv
      BY DEF RunInv, StoreInv
    <3> QED
      BY <3>1, <3>2 DEF DatasetInv, DatasetResolves
  <2> QED
    BY <2>1, <2>2 DEF ReferencesResolve
<1> QED
  BY <1>1, RunHolds, PTL
=============================================================================
