-------------------------- MODULE ArmMemoryProofs --------------------------
(***************************************************************************)
(* Proofs about ArmMemory, for every policy, budget and number of cycles:  *)
(* first what follows from how decisions are applied, then what the sums   *)
(* and the orderings of the policies' decisions add up to.                 *)
(***************************************************************************)
EXTENDS ArmMemory, FiniteSums

(* The transitions of a memory state keep it well-formed, and none of them *)
(* touches what is already retired.                                        *)

\* t keeps every memory of s and changes none that s had retired.
Continues(s, t) ==
  /\ Known(s) \subseteq Known(t)
  /\ \A x \in Known(s) \ Active(s) : t.mem[x] = s.mem[x]

\* Every memory of s was born in cycle c or before.
BornBy(s, c) == \A x \in Known(s) : s.mem[x].birth <= c

LEMMA ContinuesTransitive ==
  ASSUME NEW s, NEW t, NEW u, Continues(s, t), Continues(t, u)
  PROVE  Continues(s, u)
<1> SUFFICES ASSUME NEW x \in Known(s) \ Active(s)
             PROVE  u.mem[x] = s.mem[x]
  BY DEF Continues
<1>1. x \in Known(t) /\ t.mem[x] = s.mem[x]
  BY DEF Continues
<1>2. x \notin Active(t)
  BY <1>1 DEF Active
<1> QED
  BY <1>1, <1>2 DEF Continues

LEMMA AdmitKeeps ==
  ASSUME NEW s, IsMemoryState(s), NEW id \in Nat, NEW m \in Memory,
         Admissible(s, id, m), m.parents \subseteq Known(s), Consistent(m),
         NEW c, BornBy(s, c), m.birth <= c
  PROVE  /\ IsMemoryState(Admit(s, id, m))
         /\ Continues(s, Admit(s, id, m))
         /\ BornBy(Admit(s, id, m), c)
<1> DEFINE r == Admit(s, id, m)
<1>1. /\ r.mem = [x \in Known(s) \cup {id} |-> IF x = id THEN m ELSE s.mem[x]]
      /\ r.next = id + 1
      /\ r.edges = s.edges
  BY DEF Admit, MemoryState
<1> HIDE DEF r
<1>2. id \notin Known(s) /\ m.status = "active" /\ id >= s.next
  BY DEF Admissible
<1>3. Known(r) = Known(s) \cup {id}
  BY <1>1 DEF Known
<1>4. r.mem[id] = m /\ \A x \in Known(s) : r.mem[x] = s.mem[x]
  BY <1>1, <1>2
<1>5. r.mem \in [Known(r) -> Memory]
  BY <1>1, <1>3 DEF IsMemoryState
<1>6. Known(r) \subseteq 0 .. r.next - 1
  <2> SUFFICES ASSUME NEW x \in Known(r)
               PROVE  x \in 0 .. r.next - 1
    OBVIOUS
  <2>1. CASE x = id
    BY <1>1, <2>1
  <2>2. CASE x \in Known(s)
    BY <1>1, <1>2, <2>2 DEF IsMemoryState
  <2> QED
    BY <1>3, <2>1, <2>2
<1>7. \A x \in Known(r) : /\ r.mem[x].parents \subseteq Known(r) \ {x}
                          /\ Consistent(r.mem[x])
                          /\ r.mem[x].birth <= c
  <2> SUFFICES ASSUME NEW x \in Known(r)
               PROVE  /\ r.mem[x].parents \subseteq Known(r) \ {x}
                      /\ Consistent(r.mem[x])
                      /\ r.mem[x].birth <= c
    OBVIOUS
  <2>1. CASE x = id
    BY <1>2, <1>3, <1>4, <2>1
  <2>2. CASE x \in Known(s)
    BY <1>3, <1>4, <2>2 DEF IsMemoryState, BornBy
  <2> QED
    BY <1>3, <2>1, <2>2
<1>8. r.edges \subseteq Known(r) \X Known(r)
  <2>1. s.edges \subseteq Known(s) \X Known(s)
    BY DEF IsMemoryState
  <2>2. Known(s) \subseteq Known(r)
    BY <1>3
  <2> QED
    BY <1>1, <2>1, <2>2
<1>9. IsMemoryState(r)
  <2>1. r.next \in Nat
    BY <1>1
  <2> QED
    BY <1>5, <1>6, <1>7, <1>8, <2>1 DEF IsMemoryState
<1>10. Continues(s, r) /\ BornBy(r, c)
  BY <1>3, <1>4, <1>7 DEF Continues, BornBy
<1> QED
  BY <1>9, <1>10 DEF r

(* A transition that only rewrites memories, as citations and retirements  *)
(* do: f gives each memory its new record.                                 *)
LEMMA RewriteKeeps ==
  ASSUME NEW s, IsMemoryState(s), NEW f \in [Known(s) -> Memory],
         \A x \in Known(s) :
           /\ f[x].parents = s.mem[x].parents /\ f[x].birth = s.mem[x].birth
           /\ Consistent(f[x])
           /\ x \notin Active(s) => f[x] = s.mem[x],
         NEW c, BornBy(s, c)
  PROVE  LET r == MemoryState(f, s.next, s.edges)
         IN /\ IsMemoryState(r) /\ Known(r) = Known(s)
            /\ Continues(s, r) /\ BornBy(r, c)
<1> DEFINE r == MemoryState(f, s.next, s.edges)
<1>1. r.mem = f /\ r.next = s.next /\ r.edges = s.edges
  BY DEF MemoryState
<1> HIDE DEF r
<1>2. Known(r) = Known(s)
  BY <1>1 DEF Known
<1>3. IsMemoryState(r)
  BY <1>1, <1>2 DEF IsMemoryState
<1>4. Continues(s, r) /\ BornBy(r, c)
  BY <1>1, <1>2 DEF Continues, BornBy
<1> QED
  BY <1>2, <1>3, <1>4 DEF r

(* A score stays a natural number when it decays. *)
LEMMA ScoreDecays ==
  ASSUME NEW score \in Nat, NEW cited \in BOOLEAN
  PROVE  (DecayNum * score) \div DecayDen + (IF cited THEN ScoreUnit ELSE 0) \in Nat
<1>1. DecayNum \in Nat /\ DecayDen \in Nat \ {0} /\ ScoreUnit \in Nat
  BY DecayAssumption
<1>2. DecayNum * score \in Nat
  BY <1>1
<1>3. \A n \in Nat, k \in Nat \ {0} : n \div k \in Nat
  BY SMT
<1> QED
  BY <1>1, <1>2, <1>3

LEMMA CitationKeeps ==
  ASSUME NEW m \in Memory, NEW c \in Nat, NEW cited \in BOOLEAN,
         Consistent(m), m.birth <= c
  PROVE  LET n == WithCitationCycle(m, c, cited)
         IN /\ n \in Memory /\ Consistent(n)
            /\ n.parents = m.parents /\ n.birth = m.birth
<1> DEFINE score == (DecayNum * m.score) \div DecayDen + (IF cited THEN ScoreUnit ELSE 0)
           last == IF cited THEN c ELSE m.cited
           n == [m EXCEPT !.score = score, !.cited = last]
<1>1. m.score \in Nat
  BY DEF Memory
<1>2. score \in Nat
  BY <1>1, ScoreDecays
<1>3. last \in Nat \cup {Never} /\ (last # Never => last >= m.birth)
  BY DEF Memory, Consistent
<1>4. WithCitationCycle(m, c, cited) = n
  BY DEF WithCitationCycle, Memory
<1> HIDE DEF score, last
<1>5. /\ n \in Memory /\ n.kind = m.kind /\ n.parents = m.parents /\ n.birth = m.birth
      /\ n.status = m.status /\ n.retired = m.retired /\ n.pinned = m.pinned
      /\ n.cited = last
  BY <1>2, <1>3 DEF Memory
<1> HIDE DEF n
<1>6. Consistent(n)
  BY <1>3, <1>5 DEF Consistent
<1> QED
  BY <1>4, <1>5, <1>6

LEMMA RecordKeeps ==
  ASSUME NEW s, IsMemoryState(s), NEW counted, NEW c \in Nat, BornBy(s, c)
  PROVE  LET r == RecordCycleCitations(s, counted, c)
         IN IsMemoryState(r) /\ Continues(s, r) /\ BornBy(r, c)
<1> DEFINE f == [x \in Known(s) |-> IF x \in Active(s)
                                    THEN WithCitationCycle(s.mem[x], c, x \in counted)
                                    ELSE s.mem[x]]
<1>1. RecordCycleCitations(s, counted, c) = MemoryState(f, s.next, s.edges)
  BY DEF RecordCycleCitations
<1>2. \A x \in Known(s) : /\ f[x] \in Memory
                          /\ f[x].parents = s.mem[x].parents /\ f[x].birth = s.mem[x].birth
                          /\ Consistent(f[x])
                          /\ x \notin Active(s) => f[x] = s.mem[x]
  <2> SUFFICES ASSUME NEW x \in Known(s)
               PROVE  /\ f[x] \in Memory
                      /\ f[x].parents = s.mem[x].parents /\ f[x].birth = s.mem[x].birth
                      /\ Consistent(f[x])
                      /\ x \notin Active(s) => f[x] = s.mem[x]
    OBVIOUS
  <2>1. s.mem[x] \in Memory /\ Consistent(s.mem[x]) /\ s.mem[x].birth <= c
    BY DEF IsMemoryState, BornBy
  <2>2. CASE x \in Active(s)
    <3>1. f[x] = WithCitationCycle(s.mem[x], c, x \in counted)
      BY <2>2
    <3> DEFINE cited == x \in counted
               n == WithCitationCycle(s.mem[x], c, cited)
    <3>2. /\ n \in Memory /\ Consistent(n)
          /\ n.parents = s.mem[x].parents /\ n.birth = s.mem[x].birth
      <4>1. cited \in BOOLEAN
        OBVIOUS
      <4> HIDE DEF cited
      <4> QED
        BY <2>1, <4>1, CitationKeeps
    <3> HIDE DEF f, n
    <3> QED
      BY <2>1, <2>2, <3>1, <3>2 DEF n
  <2>3. CASE x \notin Active(s)
    BY <2>1, <2>3
  <2> QED
    BY <2>2, <2>3
<1>3. f \in [Known(s) -> Memory]
  BY <1>2
<1> HIDE DEF f
<1> QED
  BY <1>1, <1>2, <1>3, RewriteKeeps

LEMMA RetireKeeps ==
  ASSUME NEW m \in Memory, NEW status \in {"evicted", "compressed"}, NEW c \in Nat,
         Consistent(m), ~ m.pinned, m.birth <= c
  PROVE  LET n == Retire(m, status, c)
         IN /\ n \in Memory /\ Consistent(n)
            /\ n.parents = m.parents /\ n.birth = m.birth
<1> DEFINE n == [m EXCEPT !.status = status, !.retired = c]
<1>1. status \in {"active", "evicted", "compressed"} /\ status # "active"
  OBVIOUS
<1>2. c \in Nat \cup {Never} /\ c # Never
  BY DEF Never
<1>3. Retire(m, status, c) = n
  BY DEF Retire
<1>4. /\ n \in Memory /\ n.kind = m.kind /\ n.parents = m.parents /\ n.birth = m.birth
      /\ n.status = status /\ n.retired = c /\ n.pinned = m.pinned
      /\ n.cited = m.cited
  BY <1>1, <1>2 DEF Memory
<1> HIDE DEF n
<1>5. m.birth \in Nat
  BY DEF Memory
<1>6. Consistent(n)
  BY <1>1, <1>2, <1>4, <1>5 DEF Consistent
<1> QED
  BY <1>3, <1>4, <1>6

LEMMA RetirementsKeep ==
  ASSUME NEW s, IsMemoryState(s), NEW c \in Nat, BornBy(s, c), NEW d, d.cycle = c,
         \A x \in Retirements(d) : x \in Active(s) /\ ~ s.mem[x].pinned
  PROVE  LET r == WithRetirements(s, d)
         IN /\ IsMemoryState(r) /\ Known(r) = Known(s)
            /\ Continues(s, r) /\ BornBy(r, c)
<1> DEFINE f == [x \in Known(s) |->
                   IF x \in d.compressed THEN Retire(s.mem[x], "compressed", d.cycle)
                   ELSE IF x \in d.evicted THEN Retire(s.mem[x], "evicted", d.cycle)
                   ELSE s.mem[x]]
<1>1. WithRetirements(s, d) = MemoryState(f, s.next, s.edges)
  BY DEF WithRetirements
<1>2. \A x \in Known(s) : /\ f[x] \in Memory
                          /\ f[x].parents = s.mem[x].parents /\ f[x].birth = s.mem[x].birth
                          /\ Consistent(f[x])
                          /\ x \notin Active(s) => f[x] = s.mem[x]
  <2> SUFFICES ASSUME NEW x \in Known(s)
               PROVE  /\ f[x] \in Memory
                      /\ f[x].parents = s.mem[x].parents /\ f[x].birth = s.mem[x].birth
                      /\ Consistent(f[x])
                      /\ x \notin Active(s) => f[x] = s.mem[x]
    OBVIOUS
  <2>1. s.mem[x] \in Memory /\ Consistent(s.mem[x]) /\ s.mem[x].birth <= c
    BY DEF IsMemoryState, BornBy
  <2>2. CASE x \in d.compressed
    <3>1. f[x] = Retire(s.mem[x], "compressed", d.cycle)
      BY <2>2
    <3> DEFINE n == Retire(s.mem[x], "compressed", d.cycle)
    <3>2. x \in Active(s) /\ ~ s.mem[x].pinned
      BY <2>2 DEF Retirements
    <3>3. /\ n \in Memory /\ Consistent(n)
          /\ n.parents = s.mem[x].parents /\ n.birth = s.mem[x].birth
      BY <2>1, <3>2, RetireKeeps
    <3> HIDE DEF f, n
    <3> QED
      BY <3>1, <3>2, <3>3 DEF n
  <2>3. CASE x \notin d.compressed /\ x \in d.evicted
    <3>1. f[x] = Retire(s.mem[x], "evicted", d.cycle)
      BY <2>3
    <3> DEFINE n == Retire(s.mem[x], "evicted", d.cycle)
    <3>2. x \in Active(s) /\ ~ s.mem[x].pinned
      BY <2>3 DEF Retirements
    <3>3. /\ n \in Memory /\ Consistent(n)
          /\ n.parents = s.mem[x].parents /\ n.birth = s.mem[x].birth
      BY <2>1, <3>2, RetireKeeps
    <3> HIDE DEF f, n
    <3> QED
      BY <3>1, <3>2, <3>3 DEF n
  <2>4. CASE x \notin d.compressed /\ x \notin d.evicted
    BY <2>1, <2>4
  <2> QED
    BY <2>2, <2>3, <2>4
<1>3. f \in [Known(s) -> Memory]
  BY <1>2
<1> HIDE DEF f
<1> QED
  BY <1>1, <1>2, <1>3, RewriteKeeps

(* What a policy hands over: at most one newly minted memory, descending   *)
(* from memories the arm knows.                                            *)
WellFormed(s, d, c) ==
  /\ d.cycle = c
  /\ \/ d.created = {}
     \/ \E id \in Nat, m \in Memory :
          /\ d.created = {[id |-> id, memory |-> m]}
          /\ m.parents \subseteq Known(s) /\ Consistent(m) /\ m.birth <= c

\* Applying a decision that is not refused keeps the memory well-formed, leaves
\* alone what was already retired, and costs what the decision projected:
\* MemoryState.apply.
LEMMA AppliedKeeps ==
  ASSUME NEW s, IsMemoryState(s), NEW c \in Nat, BornBy(s, c),
         NEW d, WellFormed(s, d, c), Applicable(s, d)
  PROVE  /\ IsMemoryState(Applied(s, d))
         /\ Continues(s, Applied(s, d))
         /\ BornBy(Applied(s, d), c)
         /\ ActiveTokens(Applied(s, d)) = d.tokens
<1> DEFINE r == WithRetirements(s, d)
           t == WithCreated(r, d)
           u == Applied(s, d)
<1>1. IsMemoryState(r) /\ Known(r) = Known(s) /\ Continues(s, r) /\ BornBy(r, c)
  BY RetirementsKeep DEF Applicable, WellFormed
<1>2. r.next = s.next
  BY DEF WithRetirements, MemoryState
<1> HIDE DEF r
<1>3. IsMemoryState(t) /\ Continues(r, t) /\ BornBy(t, c)
  <2>1. CASE d.created = {}
    BY <1>1, <2>1 DEF WithCreated, Continues
  <2>2. CASE \E id \in Nat, m \in Memory :
               /\ d.created = {[id |-> id, memory |-> m]}
               /\ m.parents \subseteq Known(s) /\ Consistent(m) /\ m.birth <= c
    <3>1. PICK id \in Nat, m \in Memory :
               /\ d.created = {[id |-> id, memory |-> m]}
               /\ m.parents \subseteq Known(s) /\ Consistent(m) /\ m.birth <= c
      BY <2>2
    <3> DEFINE e == [id |-> id, memory |-> m]
    <3>2. t = Admit(r, id, m)
      <4>1. \A x : (CHOOSE y \in {x} : TRUE) = x
        OBVIOUS
      <4>2. e.id = id /\ e.memory = m
        OBVIOUS
      <4> HIDE DEF e
      <4>3. d.created = {e} /\ d.created # {}
        BY <3>1 DEF e
      <4>4. (CHOOSE y \in d.created : TRUE) = e
        BY <4>1, <4>3
      <4> QED
        BY <4>2, <4>3, <4>4 DEF WithCreated
    <3>3. Admissible(s, id, m)
      BY <3>1 DEF Applicable
    <3>4. Admissible(r, id, m)
      BY <1>1, <1>2, <3>3 DEF Admissible
    <3> HIDE DEF t
    <3> QED
      BY <1>1, <3>1, <3>2, <3>4, AdmitKeeps
  <2> QED
    BY <2>1, <2>2 DEF WellFormed
<1>4. u = MemoryState(t.mem, t.next, t.edges \cup d.edges)
  BY DEF Applied, r
<1> HIDE DEF t, u
<1>5. u.mem = t.mem /\ u.next = t.next /\ u.edges = t.edges \cup d.edges
  BY <1>4 DEF MemoryState
<1>6. Known(u) = Known(t) /\ Active(u) = Active(t)
  BY <1>5 DEF Known, Active
<1>7. CreatedIds(d) \subseteq Known(u)
  <2>1. CreatedIds(d) \subseteq Active(u)
    BY DEF Applicable, u
  <2> QED
    BY <2>1 DEF Active
<1>8. d.edges \subseteq Known(u) \X Known(u)
  BY <1>7 DEF Applicable, u
<1>9. IsMemoryState(u)
  BY <1>3, <1>5, <1>6, <1>8 DEF IsMemoryState
<1>10. Continues(t, u)
  BY <1>5, <1>6 DEF Continues
<1>11. Continues(s, u) /\ BornBy(u, c)
  BY <1>1, <1>3, <1>5, <1>6, <1>10, ContinuesTransitive DEF BornBy
<1> QED
  BY <1>9, <1>11 DEF u, Applicable

-----------------------------------------------------------------------------
(* What the policies hand over. *)

LEMMA MintedIsMemory ==
  ASSUME NEW kind \in {"seed", "generated", "summary"}, NEW tokens \in Nat \ {0},
         NEW c \in Nat, NEW parents \in SUBSET Nat, NEW pinned \in BOOLEAN,
         \/ kind # "summary" /\ parents = {}
         \/ kind = "summary" /\ Cardinality(parents) >= MinSummarySources,
         NEW m, m = Minted(kind, tokens, c, parents, pinned)
  PROVE  /\ m \in Memory /\ Consistent(m)
         /\ m.parents = parents /\ m.birth = c /\ m.status = "active"
<1>1. Never \in Nat \cup {Never}
  OBVIOUS
<1>2. /\ m \in Memory /\ m.kind = kind /\ m.parents = parents /\ m.birth = c
      /\ m.status = "active" /\ m.retired = Never /\ m.cited = Never
  BY <1>1 DEF Minted, Memory
<1> QED
  BY <1>2 DEF Consistent

LEMMA EvictCreatesNothing ==
  ASSUME NEW s, NEW c, NEW code, NEW victims
  PROVE  Evict(s, c, code, victims).created = {} /\ Evict(s, c, code, victims).cycle = c
BY DEF Evict, BuildDecision, NoFold

LEMMA RebalanceWellFormed ==
  ASSUME NEW s, NEW a, NEW b, NEW c \in Nat, NEW fb, NEW d \in Rebalance(a, s, b, c, fb)
  PROVE  WellFormed(s, d, c)
<1>1. SUFFICES d.created = {} /\ d.cycle = c
  BY DEF WellFormed
<1>2. \A arm1, code : LET o == OrderedDecision(arm1, s, b, c, code)
                      IN o.created = {} /\ o.cycle = c
  BY EvictCreatesNothing DEF OrderedDecision
<1>3. HeavyDecision(s, b, c).created = {} /\ HeavyDecision(s, b, c).cycle = c
  <2> DEFINE o == OrderedDecision("HEAVY", s, b, c, "EVICTED_LOWEST_RETENTION_DENSITY")
  <2>1. o.created = {} /\ o.cycle = c
    BY <1>2
  <2>2. DOMAIN o = {"code", "cycle", "compressed", "evicted", "created", "kept",
                    "edges", "tokens", "plan"}
    BY DEF OrderedDecision, Evict, BuildDecision
  <2>3. \/ HeavyDecision(s, b, c) = o
        \/ HeavyDecision(s, b, c) = [o EXCEPT !.code = "HEAVY_HITTER_RESERVE_BROKEN"]
    BY DEF HeavyDecision
  <2> HIDE DEF o
  <2> QED
    BY <2>1, <2>2, <2>3
<1>4. \A e \in RandomDecisions(s, b, c) : e.created = {} /\ e.cycle = c
  BY EvictCreatesNothing DEF RandomDecisions
<1>5. LET e == SummaryDecision(s, b, c, fb) IN e.created = {} /\ e.cycle = c
  BY EvictCreatesNothing DEF SummaryDecision, BuildDecision, NoFold
<1>6. LET e == BuildDecision(s, c, "RETAINED_ALL", {}, NoFold, ActiveTokens(s), NoPlan)
      IN e.created = {} /\ e.cycle = c
  BY DEF BuildDecision, NoFold
<1>7. LET e == Evict(s, c, "EVICTED_STATELESS", Eligible(s, c, {}))
      IN e.created = {} /\ e.cycle = c
  BY EvictCreatesNothing
<1> QED
  BY <1>2, <1>3, <1>4, <1>5, <1>6, <1>7 DEF Rebalance

LEMMA FinalizeWellFormed ==
  ASSUME NEW s, NEW b, NEW c \in Nat, NEW p, NEW id \in Nat, NEW m \in Memory, NEW fb,
         m.parents \subseteq Known(s), Consistent(m), m.birth <= c
  PROVE  WellFormed(s, FinalizeCompression(s, b, c, p, id, m, fb), c)
<1> DEFINE d == FinalizeCompression(s, b, c, p, id, m, fb)
<1>1. d.created = {[id |-> id, memory |-> m]} /\ d.cycle = c
  BY DEF FinalizeCompression, BuildDecision
<1> HIDE DEF d
<1>2. WellFormed(s, d, c)
  BY <1>1 DEF WellFormed
<1> QED
  BY <1>2 DEF d

-----------------------------------------------------------------------------
(* The inductive invariant: a cycle in progress works on a continuation of *)
(* the memory the arm holds, nothing is dated later than the cycle it      *)
(* happened in, a plan compresses enough memories for a summary, and there *)
(* is still a cycle to complete.                                           *)
Inv ==
  /\ TypeOK
  /\ Continues(committed, working)
  /\ BornBy(committed, cycle) /\ BornBy(working, cycle + 1)
  /\ plan # NoPlan => Cardinality(plan.sources) >= MinSummarySources
  /\ phase # "idle" => cycle < MaxCycle

\* What one step does to the memory the arm holds.
Safe ==
  /\ Committing => ActiveTokens(committed') <= budget
  /\ Continues(committed, committed')

LEMMA ContinuesReflexive == \A s : Continues(s, s)
BY DEF Continues

LEMMA BornLater ==
  ASSUME NEW s, IsMemoryState(s), NEW c \in Nat, BornBy(s, c)
  PROVE  BornBy(s, c + 1)
<1> SUFFICES ASSUME NEW x \in Known(s)
             PROVE  s.mem[x].birth <= c + 1
  BY DEF BornBy
<1>1. s.mem[x].birth \in Nat /\ s.mem[x].birth <= c
  BY DEF IsMemoryState, Memory, BornBy
<1> QED
  BY <1>1

LEMMA FailKeeps ==
  ASSUME Inv, NEW reason \in {"unsatisfiable", "internal", "dreamer"}, Fail(reason),
         UNCHANGED <<arm, fallback, budget>>
  PROVE  Inv' /\ Safe
<1>1. TypeOK'
  BY DEF Inv, TypeOK, Fail
<1>2. Continues(committed', working') /\ Continues(committed, committed')
  BY ContinuesReflexive DEF Fail
<1>3. ~ Committing /\ phase' = "idle" /\ plan' = NoPlan
  BY DEF Fail, Committing
<1>4. BornBy(committed', cycle') /\ BornBy(working', cycle' + 1)
  BY BornLater DEF Fail, Inv, TypeOK
<1> QED
  BY <1>1, <1>2, <1>3, <1>4 DEF Inv, Safe

LEMMA ConcludeKeeps ==
  ASSUME Inv, phase # "idle", NEW d, WellFormed(working, d, cycle + 1), Conclude(d),
         UNCHANGED <<arm, fallback, budget>>
  PROVE  Inv' /\ Safe
<1> DEFINE s == Applied(working, d)
<1>1. CASE ~ WithinBudget(d, budget)
  BY <1>1, FailKeeps DEF Conclude
<1>2. CASE WithinBudget(d, budget) /\ ~ Applicable(working, d)
  BY <1>2, FailKeeps DEF Conclude
<1>3. CASE WithinBudget(d, budget) /\ Applicable(working, d)
  <2> DEFINE now == cycle + 1
  <2>1. now \in Nat /\ BornBy(working, now) /\ WellFormed(working, d, now)
    BY DEF Inv, TypeOK
  <2> HIDE DEF now
  <2>2. /\ IsMemoryState(s) /\ Continues(working, s) /\ BornBy(s, now)
        /\ ActiveTokens(s) = d.tokens
    BY <1>3, <2>1, AppliedKeeps DEF Inv, TypeOK
  <2>3. Continues(committed, s)
    BY <2>2, ContinuesTransitive DEF Inv
  <2> HIDE DEF s
  <2>4. CASE d.plan = NoPlan /\ Commit(s)
    <3>1. cycle' \in 0 .. MaxCycle
      BY <2>4, ArmAssumption DEF Inv, TypeOK, Commit
    <3>2. TypeOK'
      BY <2>2, <2>4, <3>1 DEF Inv, TypeOK, Commit
    <3>3. Continues(committed', working') /\ Continues(committed, committed')
      BY <2>3, <2>4, ContinuesReflexive DEF Commit
    <3>4. ActiveTokens(committed') <= budget
      BY <1>3, <2>2, <2>4 DEF Commit, WithinBudget
    <3>5. BornBy(committed', cycle') /\ BornBy(working', cycle' + 1)
      BY <2>1, <2>2, <2>4, BornLater DEF Commit, now
    <3> QED
      BY <2>4, <3>2, <3>3, <3>4, <3>5 DEF Inv, Safe, Commit
  <2>5. CASE d.plan # NoPlan /\ Ask(s, d)
    <3>1. TypeOK'
      BY <2>2, <2>5 DEF Inv, TypeOK, Ask
    <3>2. Continues(committed', working') /\ Continues(committed, committed')
      BY <2>3, <2>5, ContinuesReflexive DEF Ask
    <3>3. BornBy(committed', cycle') /\ BornBy(working', cycle' + 1)
      BY <2>2, <2>5 DEF Inv, Ask, now
    <3>4. Cardinality(plan'.sources) >= MinSummarySources
      BY <1>3, <2>5 DEF Applicable, Ask
    <3> QED
      BY <2>5, <3>1, <3>2, <3>3, <3>4 DEF Inv, Safe, Ask, Committing
  <2> QED
    BY <1>3, <2>4, <2>5 DEF Conclude, s
<1> QED
  BY <1>1, <1>2, <1>3

LEMMA ExperienceKeeps ==
  ASSUME Inv, NEW claims, NEW tokens \in CandidateTokens, Experience(claims, tokens)
  PROVE  Inv' /\ Safe
<1> DEFINE now == cycle + 1
           counted == Counted(committed, claims)
           scored == RecordCycleCitations(committed, counted, now)
           candidate == Minted("generated", tokens, now, {}, FALSE)
           s == Admit(scored, scored.next, candidate)
<1>1. now \in Nat /\ tokens \in Nat \ {0}
  BY ArmAssumption DEF Inv, TypeOK
<1>2. IsMemoryState(committed) /\ BornBy(committed, now)
  BY BornLater DEF Inv, TypeOK
<1>3. working' = s
  BY DEF Experience
<1> HIDE DEF now, counted
<1>4. IsMemoryState(scored) /\ Continues(committed, scored) /\ BornBy(scored, now)
  BY <1>1, <1>2, RecordKeeps
<1>5. /\ candidate \in Memory /\ Consistent(candidate) /\ candidate.parents = {}
      /\ candidate.status = "active" /\ candidate.birth <= now
  <2> DEFINE pinned == FALSE
  <2>1. {} \in SUBSET Nat /\ pinned \in BOOLEAN
    OBVIOUS
  <2>2. "generated" \in {"seed", "generated", "summary"} /\ "generated" # "summary"
    OBVIOUS
  <2>3. candidate = Minted("generated", tokens, now, {}, pinned)
    OBVIOUS
  <2> HIDE DEF candidate, pinned
  <2>4. /\ candidate \in Memory /\ candidate.parents = {} /\ Consistent(candidate)
        /\ candidate.status = "active" /\ candidate.birth = now
    BY <1>1, <2>1, <2>2, <2>3, MintedIsMemory
  <2> QED
    BY <1>1, <2>4
<1> HIDE DEF scored, candidate
<1>6. scored.next \in Nat /\ Admissible(scored, scored.next, candidate)
  BY <1>4, <1>5 DEF IsMemoryState, Admissible
<1>7. IsMemoryState(s) /\ Continues(scored, s) /\ BornBy(s, now)
  BY <1>4, <1>5, <1>6, AdmitKeeps
<1>8. Continues(committed, s)
  BY <1>4, <1>7, ContinuesTransitive
<1> HIDE DEF s
<1>9. TypeOK'
  BY <1>3, <1>7 DEF Inv, TypeOK, Experience
<1>10. Continues(committed', working') /\ Continues(committed, committed')
  BY <1>3, <1>8, ContinuesReflexive DEF Experience
<1>11. BornBy(committed', cycle') /\ BornBy(working', cycle' + 1)
  BY <1>3, <1>7 DEF Experience, Inv, now
<1>12. plan' = NoPlan /\ cycle' < MaxCycle
  BY DEF Experience, Inv, TypeOK
<1> QED
  BY <1>9, <1>10, <1>11, <1>12 DEF Inv, Safe, Experience, Committing

LEMMA SummaryIsMemory ==
  ASSUME NEW tokens \in Nat \ {0}, NEW c \in Nat, NEW sources \in SUBSET Nat,
         Cardinality(sources) >= MinSummarySources
  PROVE  LET m == Minted("summary", tokens, c, sources, FALSE)
         IN m \in Memory /\ Consistent(m) /\ m.parents = sources /\ m.birth <= c
<1> DEFINE pinned == FALSE
           m == Minted("summary", tokens, c, sources, pinned)
<1>1. pinned \in BOOLEAN /\ "summary" \in {"seed", "generated", "summary"}
  OBVIOUS
<1>2. m = Minted("summary", tokens, c, sources, pinned)
  OBVIOUS
<1> HIDE DEF m, pinned
<1>3. m \in Memory /\ Consistent(m) /\ m.parents = sources /\ m.birth = c
  BY <1>1, <1>2, MintedIsMemory
<1>4. m.birth <= c
  BY <1>3
<1> QED
  BY <1>3, <1>4 DEF m, pinned

LEMMA SummaryWellFormed ==
  ASSUME Inv, NEW tokens \in 1 .. SummaryLimit, phase = "dream",
         NEW m, m = Minted("summary", tokens, cycle + 1, plan.sources, FALSE),
         SummaryAccepted(working, plan, working.next, m)
  PROVE  WellFormed(working,
                    FinalizeCompression(working, budget, cycle + 1, plan, working.next, m, fallback),
                    cycle + 1)
<1>1. cycle + 1 \in Nat /\ tokens \in Nat \ {0} /\ working.next \in Nat
  BY PolicyAssumption DEF Inv, TypeOK, IsMemoryState
<1>2. plan.sources \subseteq Known(working) /\ Known(working) \subseteq Nat
  BY DEF SummaryAccepted, Active, Inv, TypeOK, IsMemoryState
<1>3. Cardinality(plan.sources) >= MinSummarySources
  BY DEF Inv, TypeOK
<1>4. /\ m \in Memory /\ Consistent(m) /\ m.parents = plan.sources
      /\ m.birth <= cycle + 1
  BY <1>1, <1>2, <1>3, SummaryIsMemory
<1> QED
  BY <1>1, <1>2, <1>4, FinalizeWellFormed

LEMMA WriteSummaryKeeps ==
  ASSUME Inv, NEW tokens \in 1 .. SummaryLimit, WriteSummary(tokens)
  PROVE  Inv' /\ Safe
<1> DEFINE m == Minted("summary", tokens, cycle + 1, plan.sources, FALSE)
           d == FinalizeCompression(working, budget, cycle + 1, plan, working.next, m, fallback)
<1>1. CASE ~ SummaryAccepted(working, plan, working.next, m)
  BY <1>1, FailKeeps DEF WriteSummary
<1>2. CASE SummaryAccepted(working, plan, working.next, m)
  <2>1. Conclude(d) /\ phase = "dream" /\ UNCHANGED <<arm, fallback, budget>>
    BY <1>2 DEF WriteSummary
  <2>2. WellFormed(working, d, cycle + 1)
    BY <1>2, <2>1, SummaryWellFormed
  <2> HIDE DEF d
  <2> QED
    BY <2>1, <2>2, ConcludeKeeps
<1> QED
  BY <1>1, <1>2

-----------------------------------------------------------------------------
(* The initial state, and every step. *)

LEMMA SeededIsMemoryState == IsMemoryState(Seeded) /\ BornBy(Seeded, 0)
<1> DEFINE f == [m \in SeedIds |-> Minted("seed", SeedTokens[m + 1], 0, {}, m \in FlaggedSeeds)]
<1>1. Seeded.mem = f /\ Seeded.next = Len(SeedTokens) /\ Seeded.edges = {}
  BY DEF Seeded, MemoryState
<1>2. Len(SeedTokens) \in Nat
  BY ArmAssumption
<1>3. \A m \in SeedIds : /\ f[m] \in Memory /\ f[m].parents = {}
                         /\ Consistent(f[m]) /\ f[m].birth = 0
  <2> SUFFICES ASSUME NEW m \in SeedIds
               PROVE  /\ f[m] \in Memory /\ f[m].parents = {}
                      /\ Consistent(f[m]) /\ f[m].birth = 0
    OBVIOUS
  <2> DEFINE flagged == m \in FlaggedSeeds
  <2>1. SeedTokens[m + 1] \in Nat \ {0}
    BY <1>2, ArmAssumption DEF SeedIds
  <2>2. flagged \in BOOLEAN
    OBVIOUS
  <2>3. f[m] = Minted("seed", SeedTokens[m + 1], 0, {}, flagged)
    OBVIOUS
  <2>4. /\ "seed" \in {"seed", "generated", "summary"} /\ "seed" # "summary"
        /\ {} \in SUBSET Nat /\ 0 \in Nat
    OBVIOUS
  <2> HIDE DEF f, flagged
  <2> QED
    BY <2>1, <2>2, <2>3, <2>4, MintedIsMemory
<1>4. Known(Seeded) = SeedIds /\ f \in [SeedIds -> Memory]
  BY <1>1, <1>3 DEF Known
<1> HIDE DEF f
<1>5. \A m \in SeedIds : Seeded.mem[m].birth <= 0
  BY <1>1, <1>3
<1>6. BornBy(Seeded, 0)
  BY <1>4, <1>5 DEF BornBy
<1>7. IsMemoryState(Seeded)
  BY <1>1, <1>2, <1>3, <1>4 DEF IsMemoryState, SeedIds
<1> QED
  BY <1>6, <1>7

LEMMA InitEstablishes == Init => Inv
<1> SUFFICES ASSUME Init PROVE Inv
  OBVIOUS
<1>1. TypeOK
  BY ArmAssumption, SeededIsMemoryState DEF Init, TypeOK
<1>2. BornBy(committed, cycle) /\ BornBy(working, cycle + 1)
  BY BornLater, SeededIsMemoryState DEF Init
<1> QED
  BY <1>1, <1>2, ContinuesReflexive DEF Inv, Init

LEMMA StepKeeps ==
  ASSUME Inv, [Next]_vars
  PROVE  Inv' /\ (Safe \/ UNCHANGED vars)
<1>1. CASE \E claims \in SUBSET Known(committed), tokens \in CandidateTokens :
             Cardinality(claims) <= MaxClaims /\ Experience(claims, tokens)
  BY <1>1, ExperienceKeeps
<1>2. CASE Decide
  <2> DEFINE now == cycle + 1
  <2>1. now \in Nat
    BY DEF Inv, TypeOK
  <2>2. PICK d \in Rebalance(arm, working, budget, now, fallback) : Conclude(d)
    BY <1>2 DEF Decide
  <2> HIDE DEF now
  <2>3. WellFormed(working, d, now)
    BY <2>1, RebalanceWellFormed
  <2>4. WellFormed(working, d, cycle + 1)
    BY <2>3 DEF now
  <2> QED
    BY <1>2, <2>2, <2>4, ConcludeKeeps DEF Decide
<1>3. CASE \E tokens \in 1 .. SummaryLimit : WriteSummary(tokens)
  BY <1>3, WriteSummaryKeeps
<1>4. CASE DreamerFails
  BY <1>4, FailKeeps DEF DreamerFails
<1>5. CASE Tighten
  <2>1. TypeOK'
    BY <1>5 DEF Inv, TypeOK, Tighten
  <2> QED
    BY <1>5, <2>1, ContinuesReflexive DEF Inv, Safe, Tighten, Committing
<1>6. CASE UNCHANGED vars
  <2>1. TypeOK'
    BY <1>6 DEF Inv, TypeOK, vars
  <2> QED
    BY <1>6, <2>1 DEF Inv, vars
<1> QED
  BY <1>1, <1>2, <1>3, <1>4, <1>5, <1>6 DEF Next

-----------------------------------------------------------------------------

\* In every reachable state the two memory states pass MemoryState's and Memory's
\* validation, whatever the policy, the budget and the number of cycles.
THEOREM TypeSafety == Spec => []TypeOK
<1>1. Inv /\ [Next]_vars => Inv'
  BY StepKeeps
<1>2. Inv => TypeOK
  BY DEF Inv
<1> QED
  BY <1>1, <1>2, InitEstablishes, PTL DEF Spec

\* No arm ever completes a cycle over the budget in force, however its policy
\* chooses: PolicyDecision's check and MemoryState.apply's projection check.
THEOREM BudgetSafety == Spec => EndsWithinBudget
<1>1. Inv /\ [Next]_vars => Inv'
  BY StepKeeps
<1>2. Inv /\ [Next]_vars => [Committing => ActiveTokens(committed') <= budget]_vars
  BY StepKeeps DEF Safe
<1> QED
  BY <1>1, <1>2, InitEstablishes, PTL DEF Spec, EndsWithinBudget

\* Nothing an arm forgot is ever rewritten: not by decay, not by a late
\* citation, not by a second retirement, whatever the policy decides.
THEOREM RetiredStayFrozen == Spec => RetiredIsFrozen
<1>1. Inv /\ [Next]_vars => Inv'
  BY StepKeeps
<1>2. Inv /\ [Next]_vars =>
        [\A m \in Known(committed) \ Active(committed) :
           committed'.mem[m] = committed.mem[m]]_vars
  BY StepKeeps DEF Safe, Continues
<1> QED
  BY <1>1, <1>2, InitEstablishes, PTL DEF Spec, RetiredIsFrozen

-----------------------------------------------------------------------------
(* Origins: what is flagged as pinned, and the configured origin of the    *)
(* pinned-origin arm, which no decision may name.                          *)

Origins(a) == FlaggedSeeds \cup (IF a = "SINK" THEN {PinnedId} ELSE {})

HoldsOrigins(a, s) ==
  /\ Origins(a) \subseteq Active(s)
  /\ \A m \in FlaggedSeeds : s.mem[m].pinned

LEMMA AdmitHolds ==
  ASSUME NEW a, NEW s, HoldsOrigins(a, s), NEW id, id \notin Known(s), NEW m
  PROVE  HoldsOrigins(a, Admit(s, id, m))
<1> DEFINE r == Admit(s, id, m)
<1>1. /\ Known(r) = Known(s) \cup {id}
      /\ \A x \in Known(s) : r.mem[x] = s.mem[x]
  BY DEF Admit, MemoryState, Known
<1> HIDE DEF r
<1>2. HoldsOrigins(a, r)
  BY <1>1 DEF HoldsOrigins, Origins, Active
<1> QED
  BY <1>2 DEF r

LEMMA RecordHolds ==
  ASSUME NEW a, NEW s, IsMemoryState(s), HoldsOrigins(a, s), NEW counted, NEW c
  PROVE  HoldsOrigins(a, RecordCycleCitations(s, counted, c))
<1> DEFINE r == RecordCycleCitations(s, counted, c)
           score(x) == (DecayNum * s.mem[x].score) \div DecayDen
                         + (IF x \in counted THEN ScoreUnit ELSE 0)
           last(x) == IF x \in counted THEN c ELSE s.mem[x].cited
<1>1. Known(r) = Known(s)
  BY DEF RecordCycleCitations, MemoryState, Known
<1>2. \A x \in Active(s) : /\ r.mem[x].status = s.mem[x].status
                           /\ r.mem[x].pinned = s.mem[x].pinned
  <2> SUFFICES ASSUME NEW x \in Active(s)
               PROVE  /\ r.mem[x].status = s.mem[x].status
                      /\ r.mem[x].pinned = s.mem[x].pinned
    OBVIOUS
  <2>1. x \in Known(s) /\ s.mem[x] \in Memory
    BY DEF Active, IsMemoryState
  <2>2. r.mem[x] = [s.mem[x] EXCEPT !.score = score(x), !.cited = last(x)]
    BY <2>1 DEF RecordCycleCitations, MemoryState, WithCitationCycle, Memory
  <2> HIDE DEF r, score, last
  <2> QED
    BY <2>1, <2>2 DEF Memory
<1> HIDE DEF r
<1>3. HoldsOrigins(a, r)
  BY <1>1, <1>2 DEF HoldsOrigins, Origins, Active
<1> QED
  BY <1>3 DEF r

\* A decision that may be applied retires nothing flagged; one that spares the
\* arm's own origin leaves all origins where they are.
LEMMA AppliedHolds ==
  ASSUME NEW a, NEW s, HoldsOrigins(a, s), NEW c, NEW d, WellFormed(s, d, c),
         Applicable(s, d), a = "SINK" => PinnedId \notin Retirements(d)
  PROVE  HoldsOrigins(a, Applied(s, d))
<1> DEFINE r == WithRetirements(s, d)
           t == WithCreated(r, d)
<1>1. Known(r) = Known(s) /\ \A x \in Known(s) \ Retirements(d) : r.mem[x] = s.mem[x]
  BY DEF WithRetirements, MemoryState, Known, Retirements
<1>2. Origins(a) \cap Retirements(d) = {}
  BY DEF Applicable, HoldsOrigins, Origins
<1> HIDE DEF r
<1>3. HoldsOrigins(a, r)
  BY <1>1, <1>2 DEF HoldsOrigins, Origins, Active
<1>4. HoldsOrigins(a, t)
  <2>1. CASE d.created = {}
    BY <1>3, <2>1 DEF WithCreated
  <2>2. CASE \E id \in Nat, m \in Memory : d.created = {[id |-> id, memory |-> m]}
    <3>1. PICK e : e \in d.created /\ t = Admit(r, e.id, e.memory)
      BY <2>2 DEF WithCreated
    <3>2. e.id \notin Known(r)
      BY <1>1, <3>1 DEF Applicable, Admissible
    <3> QED
      BY <1>3, <3>1, <3>2, AdmitHolds
  <2> QED
    BY <2>1, <2>2 DEF WellFormed
<1>5. Applied(s, d) = MemoryState(t.mem, t.next, t.edges \cup d.edges)
  BY DEF Applied, r
<1> HIDE DEF t
<1> QED
  BY <1>4, <1>5 DEF HoldsOrigins, Active, Known, MemoryState

(* The pinned-origin arm asks for no summary and never names its origin. *)
LEMMA SinkSparesOrigin ==
  ASSUME NEW s, NEW b, NEW c, NEW fb, NEW d \in Rebalance("SINK", s, b, c, fb)
  PROVE  d.plan = NoPlan /\ PinnedId \notin Retirements(d)
<1> DEFINE E == Eligible(s, c, Protected("SINK"))
           V == GreedyVictims("SINK", s, E, ActiveTokens(s), b)
           code == IF V = {} THEN "NO_ACTION" ELSE "EVICTED_OUTSIDE_WINDOW"
           o == Evict(s, c, "EVICTED_OUTSIDE_WINDOW", V)
<1>1. d = o
  BY DEF Rebalance, OrderedDecision
<1>2. PinnedId \notin E
  BY DEF Eligible, Protected
<1>3. V \subseteq E
  BY DEF GreedyVictims, Prefix
<1> HIDE DEF E, V
<1>4. o.plan = NoPlan /\ o.compressed = {} /\ o.evicted = V
  BY DEF Evict, BuildDecision, NoFold
<1> QED
  BY <1>1, <1>2, <1>3, <1>4 DEF Retirements

OriginInv ==
  /\ Inv
  /\ HoldsOrigins(arm, committed) /\ HoldsOrigins(arm, working)
  /\ arm = "SINK" => plan = NoPlan

LEMMA ConcludeHolds ==
  ASSUME OriginInv, NEW d, WellFormed(working, d, cycle + 1), Conclude(d),
         UNCHANGED <<arm, fallback, budget>>,
         arm = "SINK" => d.plan = NoPlan /\ PinnedId \notin Retirements(d)
  PROVE  /\ HoldsOrigins(arm', committed') /\ HoldsOrigins(arm', working')
         /\ arm' = "SINK" => plan' = NoPlan
<1>1. CASE WithinBudget(d, budget) /\ Applicable(working, d)
  <2>1. HoldsOrigins(arm, Applied(working, d))
    BY <1>1, AppliedHolds DEF OriginInv
  <2> QED
    BY <1>1, <2>1 DEF Conclude, Commit, Ask, OriginInv
<1>2. CASE ~ (WithinBudget(d, budget) /\ Applicable(working, d))
  BY <1>2 DEF Conclude, Fail, OriginInv
<1> QED
  BY <1>1, <1>2

LEMMA StepHolds ==
  ASSUME OriginInv, [Next]_vars
  PROVE  OriginInv'
<1> SUFFICES /\ HoldsOrigins(arm', committed') /\ HoldsOrigins(arm', working')
             /\ arm' = "SINK" => plan' = NoPlan
  BY StepKeeps DEF OriginInv
<1>1. ASSUME NEW claims, NEW tokens \in CandidateTokens, Experience(claims, tokens)
      PROVE  /\ HoldsOrigins(arm', committed') /\ HoldsOrigins(arm', working')
             /\ arm' = "SINK" => plan' = NoPlan
  <2> DEFINE scored == RecordCycleCitations(committed, Counted(committed, claims), cycle + 1)
             candidate == Minted("generated", tokens, cycle + 1, {}, FALSE)
  <2>1. working' = Admit(scored, scored.next, candidate)
    BY <1>1 DEF Experience
  <2>2. HoldsOrigins(arm, scored)
    BY RecordHolds DEF OriginInv, Inv, TypeOK
  <2>3. IsMemoryState(committed) /\ scored.next = committed.next
        /\ Known(scored) = Known(committed)
    BY DEF OriginInv, Inv, TypeOK, RecordCycleCitations, MemoryState, Known
  <2> HIDE DEF scored, candidate
  <2>4. scored.next \notin Known(scored)
    BY <2>3 DEF IsMemoryState
  <2>5. HoldsOrigins(arm, working')
    BY <2>1, <2>2, <2>4, AdmitHolds
  <2> QED
    BY <1>1, <2>5 DEF Experience, OriginInv
<1>2. CASE Decide
  <2> DEFINE now == cycle + 1
  <2>1. now \in Nat
    BY DEF OriginInv, Inv, TypeOK
  <2>2. PICK d \in Rebalance(arm, working, budget, now, fallback) : Conclude(d)
    BY <1>2 DEF Decide
  <2>3. arm = "SINK" => d.plan = NoPlan /\ PinnedId \notin Retirements(d)
    BY <2>2, SinkSparesOrigin
  <2> HIDE DEF now
  <2>4. WellFormed(working, d, now)
    BY <2>1, RebalanceWellFormed
  <2>5. WellFormed(working, d, cycle + 1)
    BY <2>4 DEF now
  <2> QED
    BY <1>2, <2>2, <2>3, <2>5, ConcludeHolds DEF Decide
<1>3. ASSUME NEW tokens \in 1 .. SummaryLimit, WriteSummary(tokens)
      PROVE  /\ HoldsOrigins(arm', committed') /\ HoldsOrigins(arm', working')
             /\ arm' = "SINK" => plan' = NoPlan
  <2> DEFINE m == Minted("summary", tokens, cycle + 1, plan.sources, FALSE)
             d == FinalizeCompression(working, budget, cycle + 1, plan, working.next, m, fallback)
  <2>1. arm # "SINK" /\ UNCHANGED <<arm, fallback, budget>>
    BY <1>3 DEF WriteSummary, OriginInv, Inv, TypeOK
  <2>2. CASE ~ SummaryAccepted(working, plan, working.next, m)
    BY <1>3, <2>1, <2>2 DEF WriteSummary, Fail, OriginInv
  <2>3. CASE SummaryAccepted(working, plan, working.next, m)
    <3>1. WellFormed(working, d, cycle + 1)
      BY <1>3, <2>3, SummaryWellFormed DEF OriginInv, WriteSummary
    <3>2. Conclude(d)
      BY <1>3, <2>3 DEF WriteSummary
    <3> HIDE DEF d
    <3> QED
      BY <2>1, <3>1, <3>2, ConcludeHolds
  <2> QED
    BY <2>2, <2>3
<1>4. CASE DreamerFails
  BY <1>4 DEF DreamerFails, Fail, OriginInv
<1>5. CASE Tighten \/ UNCHANGED vars
  BY <1>5 DEF Tighten, vars, OriginInv
<1> QED
  BY <1>1, <1>2, <1>3, <1>4, <1>5 DEF Next

LEMMA OriginStarts == Init => OriginInv
<1> SUFFICES ASSUME Init PROVE OriginInv
  OBVIOUS
<1>1. \A m \in SeedIds : /\ m \in Active(Seeded)
                         /\ Seeded.mem[m].pinned = (m \in FlaggedSeeds)
  BY DEF Seeded, MemoryState, Active, Known, Minted
<1>2. HoldsOrigins(arm, Seeded)
  BY <1>1, ArmAssumption DEF HoldsOrigins, Origins
<1> QED
  BY <1>2, InitEstablishes DEF Init, OriginInv

\* The pinned-origin arm holds its configured origin for ever, and every arm
\* every memory that carries the flag: eligible_memories, PinnedOriginPolicy.
THEOREM OriginsStay == Spec => []OriginStays
<1>1. OriginInv /\ [Next]_vars => OriginInv'
  BY StepHolds
<1>2. OriginInv => OriginStays
  BY DEF OriginInv, HoldsOrigins, Origins, OriginStays
<1> QED
  BY <1>1, <1>2, OriginStarts, PTL DEF Spec

-----------------------------------------------------------------------------
(* What memories cost.                                                     *)

Tokens(s) == [m \in Known(s) |-> s.mem[m].tokens]

LEMMA MemoryIsFinite ==
  ASSUME NEW s, IsMemoryState(s)
  PROVE  /\ IsFiniteSet(Known(s))
         /\ \A M \in SUBSET Known(s) : IsFiniteSet(M)
         /\ \A x \in Known(s) : x \in Nat /\ x < s.next /\ s.mem[x] \in Memory
                                /\ s.mem[x].tokens \in Nat \ {0}
<1>1. s.next \in Nat /\ Known(s) \subseteq 0 .. s.next - 1
  BY DEF IsMemoryState
<1>2. IsFiniteSet(0 .. s.next - 1)
  BY <1>1, FS_Interval
<1>3. IsFiniteSet(Known(s))
  BY <1>1, <1>2, FS_Subset
<1>4. \A M \in SUBSET Known(s) : IsFiniteSet(M)
  BY <1>3, FS_Subset
<1>5. \A x \in Known(s) : s.mem[x] \in Memory
  BY DEF IsMemoryState
<1> QED
  BY <1>1, <1>3, <1>4, <1>5 DEF Memory

(* A cost is a sum over a finite set.                                      *)
LEMMA CostIsTotal ==
  ASSUME NEW s, NEW M \in SUBSET Known(s), IsFiniteSet(M)
  PROVE  Cost(s, M) = Total(Tokens(s), M)
<1> DEFINE w == Tokens(s)
           body(g, T) == IF T = {} THEN 0
                         ELSE s.mem[CHOOSE x \in T : TRUE].tokens
                                + g[T \ {CHOOSE x \in T : TRUE}]
           h == CHOOSE g : g = [T \in SUBSET M |-> body(g, T)]
<1>1. \A g : \A T \in SUBSET M : body(g, T) = SumStep(w, g, T)
  <2> SUFFICES ASSUME NEW g, NEW T \in SUBSET M, T # {}
               PROVE  body(g, T) = SumStep(w, g, T)
    BY DEF SumStep
  <2>1. (CHOOSE x \in T : TRUE) \in Known(s)
    OBVIOUS
  <2> QED
    BY <2>1 DEF SumStep, Tokens
<1>2. PICK g : Sums(w, M, g) /\ Total(w, M) = g[M]
  BY SumsExist, TotalIsSum
<1>3. g = [T \in SUBSET M |-> body(g, T)]
  <2> HIDE DEF body, w
  <2> QED
    BY <1>1, <1>2 DEF Sums
<1>4. h = [T \in SUBSET M |-> body(h, T)]
  <2> HIDE DEF body
  <2> QED
    BY <1>3
<1>5. Sums(w, M, h)
  <2> HIDE DEF body, w, h
  <2> QED
    BY <1>1, <1>4 DEF Sums
<1>6. Cost(s, M) = h[M]
  BY DEF Cost, MapThenSumSet, MapThenFoldSet
<1> HIDE DEF h, w
<1> QED
  BY <1>2, <1>5, <1>6, SumsRestrict DEF w

LEMMA CostFacts ==
  ASSUME NEW s, IsMemoryState(s), NEW M \in SUBSET Known(s)
  PROVE  /\ Cost(s, M) \in Nat
         /\ Cost(s, {}) = 0
         /\ \A N \in SUBSET M : Cost(s, M \ N) = Cost(s, M) - Cost(s, N)
<1> DEFINE w == Tokens(s)
<1>1. \A N \in SUBSET M : IsFiniteSet(N) /\ N \subseteq Known(s)
                          /\ \A x \in N : w[x] \in Nat
  BY MemoryIsFinite DEF Tokens
<1>2. \A N \in SUBSET M : Cost(s, N) = Total(w, N)
  BY <1>1, CostIsTotal
<1> HIDE DEF w
<1>3. \A N \in SUBSET M : Total(w, N) \in Nat
  BY <1>1, TotalNonNegative
<1>4. Cost(s, {}) = 0
  BY <1>1, <1>2, TotalStep
<1>5. ASSUME NEW N \in SUBSET M PROVE Cost(s, M \ N) = Cost(s, M) - Cost(s, N)
  <2>1. Total(w, M) = Total(w, N) + Total(w, M \ N)
    <3>1. IsFiniteSet(M) /\ \A x \in M : w[x] \in Int
      BY <1>1
    <3> QED
      BY <3>1, TotalUnion
  <2>2. M \ N \in SUBSET M
    OBVIOUS
  <2>3. Total(w, M) \in Nat /\ Total(w, N) \in Nat /\ Total(w, M \ N) \in Nat
    BY <1>3, <2>2
  <2>4. Cost(s, M) = Total(w, M) /\ Cost(s, N) = Total(w, N) /\ Cost(s, M \ N) = Total(w, M \ N)
    BY <1>2, <2>2
  <2> QED
    BY <2>1, <2>3, <2>4
<1> QED
  BY <1>2, <1>3, <1>4, <1>5

(* Memories that two states agree on cost the same in both.                *)
LEMMA CostCongruent ==
  ASSUME NEW s, NEW u, NEW M, M \subseteq Known(s), M \subseteq Known(u), IsFiniteSet(M),
         \A x \in M : u.mem[x].tokens = s.mem[x].tokens
  PROVE  Cost(u, M) = Cost(s, M)
<1> DEFINE w == Tokens(s)
           v == Tokens(u)
<1>1. \A x \in M : w[x] = v[x]
  BY DEF Tokens
<1>2. Cost(u, M) = Total(v, M) /\ Cost(s, M) = Total(w, M)
  BY CostIsTotal
<1> HIDE DEF w, v
<1> QED
  BY <1>1, <1>2, TotalCongruent

(* A memory more costs its tokens more.                                    *)
LEMMA CostAdd ==
  ASSUME NEW u, NEW M, IsFiniteSet(M), NEW id \in Known(u), id \notin M,
         M \subseteq Known(u), \A x \in M \cup {id} : u.mem[x].tokens \in Int
  PROVE  Cost(u, M \cup {id}) = Cost(u, M) + u.mem[id].tokens
<1> DEFINE w == Tokens(u)
           N == M \cup {id}
<1>1. IsFiniteSet(N) /\ N \subseteq Known(u) /\ \A x \in N : w[x] \in Int
  BY FS_AddElement DEF Tokens
<1>2. Cost(u, N) = Total(w, N) /\ Cost(u, M) = Total(w, M)
  BY <1>1, CostIsTotal
<1>3. w[id] = u.mem[id].tokens /\ id \in N /\ N \ {id} = M /\ \A x \in M : w[x] \in Int
  BY DEF Tokens
<1> HIDE DEF w, N
<1>4. Total(w, N) = w[id] + Total(w, M)
  BY <1>1, <1>3, TotalRemove
<1>5. Total(w, M) \in Int /\ w[id] \in Int
  BY <1>1, <1>3, TotalType
<1> QED
  BY <1>2, <1>3, <1>4, <1>5 DEF N

-----------------------------------------------------------------------------
(* Decisions.                                                              *)

\* What applying a decision makes of a memory that was known before.
After(s, d, x) ==
  IF x \in d.compressed THEN Retire(s.mem[x], "compressed", d.cycle)
  ELSE IF x \in d.evicted THEN Retire(s.mem[x], "evicted", d.cycle)
  ELSE s.mem[x]

NextSlot(s, d) == IF d.created = {} THEN s.next ELSE s.next + 1

\* A decision creates at most one memory, and in the next slot.
Shaped(s, d) ==
  /\ s.next \notin Known(s)
  /\ d.created # {} => \E m : d.created = {[id |-> s.next, memory |-> m]}

LEMMA AppliedShape ==
  ASSUME NEW s, NEW d, Shaped(s, d)
  PROVE  LET u == Applied(s, d)
         IN /\ Known(u) = Known(s) \cup CreatedIds(d)
            /\ \A x \in Known(s) : u.mem[x] = After(s, d, x)
            /\ \A e \in d.created : u.mem[e.id] = e.memory
            /\ u.next = NextSlot(s, d)
            /\ u.edges = s.edges \cup d.edges
<1> DEFINE r == WithRetirements(s, d)
           t == WithCreated(r, d)
           u == Applied(s, d)
<1>1. /\ Known(r) = Known(s) /\ r.next = s.next /\ r.edges = s.edges
      /\ \A x \in Known(s) : r.mem[x] = After(s, d, x)
  BY DEF WithRetirements, MemoryState, Known, After
<1>2. u = MemoryState(t.mem, t.next, t.edges \cup d.edges)
  BY DEF Applied
<1>3. u.mem = t.mem /\ u.next = t.next /\ u.edges = t.edges \cup d.edges
  BY <1>2 DEF MemoryState
<1>4. CASE d.created = {}
  <2>1. t = r /\ CreatedIds(d) = {}
    BY <1>4 DEF WithCreated, CreatedIds
  <2> QED
    BY <1>1, <1>3, <1>4, <2>1 DEF Known, NextSlot
<1>5. CASE d.created # {}
  <2>1. PICK m : d.created = {[id |-> s.next, memory |-> m]}
    BY <1>5 DEF Shaped
  <2> DEFINE e == [id |-> s.next, memory |-> m]
  <2>2. \A x : (CHOOSE y \in {x} : TRUE) = x
    OBVIOUS
  <2>3. e.id = s.next /\ e.memory = m
    OBVIOUS
  <2> HIDE DEF e
  <2>4. d.created = {e}
    BY <2>1 DEF e
  <2>5. (CHOOSE y \in d.created : TRUE) = e
    BY <2>2, <2>4
  <2> HIDE DEF r
  <2>6. t = Admit(r, s.next, m)
    BY <1>5, <2>3, <2>5 DEF WithCreated
  <2> HIDE DEF t, u
  <2>7. /\ Known(t) = Known(r) \cup {s.next} /\ t.next = s.next + 1 /\ t.edges = r.edges
        /\ \A x \in Known(r) : x # s.next => t.mem[x] = r.mem[x]
        /\ t.mem[s.next] = m
    BY <2>6 DEF Admit, MemoryState, Known
  <2>8. CreatedIds(d) = {s.next}
    BY <2>3, <2>4 DEF CreatedIds
  <2>9. \A x \in Known(s) : u.mem[x] = After(s, d, x)
    <3>1. \A x \in Known(s) : x # s.next
      BY DEF Shaped
    <3> QED
      BY <1>1, <1>3, <2>7, <3>1
  <2>10. \A y \in d.created : u.mem[y.id] = y.memory
    BY <1>3, <2>3, <2>4, <2>7
  <2> QED
    BY <1>1, <1>3, <1>5, <2>7, <2>8, <2>9, <2>10 DEF Known, NextSlot, u
<1> QED
  BY <1>4, <1>5

\* A compression planned over memories of s, next the slot its summary gets.
PlanFits(s, p, c, next) ==
  /\ p.sources \subseteq Eligible(s, c, {})
  /\ Cardinality(p.sources) >= MinSummarySources
  /\ p.id = next /\ p.limit = SummaryLimit
  /\ p.freed = Cost(s, p.sources) /\ SummaryLimit < p.freed

\* A summary of sources: cheaper than they are.
SummaryOf(s, sources, c, m) ==
  /\ m \in Memory /\ Consistent(m)
  /\ m.kind = "summary" /\ m.parents = sources /\ m.birth = c
  /\ m.status = "active" /\ ~ m.pinned /\ m.cited = Never
  /\ m.tokens < Cost(s, sources)

\* What every policy hands over: it retires what it may, keeps everything else,
\* and projects the cost of what it keeps.
SoundDecision(s, d, c) ==
  /\ d.cycle = c
  /\ Retirements(d) \subseteq Eligible(s, c, {})
  /\ d.compressed \cap d.evicted = {}
  /\ d.edges = d.compressed \X CreatedIds(d)
  /\ d.kept = (Active(s) \ Retirements(d)) \cup CreatedIds(d)
  /\ \/ /\ d.created = {} /\ d.compressed = {}
        /\ d.tokens = ActiveTokens(s) - Cost(s, d.evicted)
     \/ \E m : /\ d.created = {[id |-> s.next, memory |-> m]}
               /\ SummaryOf(s, d.compressed, c, m)
               /\ d.tokens = ActiveTokens(s) - Cost(s, d.compressed) + m.tokens
                               - Cost(s, d.evicted)
  /\ d.plan # NoPlan => /\ PlanFits(s, d.plan, c, NextSlot(s, d))
                        /\ d.plan.sources \cap Retirements(d) = {}

LEMMA SoundShape ==
  ASSUME NEW s, IsMemoryState(s), NEW c, NEW d, SoundDecision(s, d, c)
  PROVE  /\ Shaped(s, d) /\ s.next \in Nat
         /\ d.created = {} => CreatedIds(d) = {}
         /\ d.created # {} => CreatedIds(d) = {s.next}
<1>1. s.next \notin Known(s) /\ s.next \in Nat
  BY DEF IsMemoryState
<1>2. CASE d.created = {}
  BY <1>1, <1>2 DEF CreatedIds, Shaped
<1>3. CASE d.created # {}
  <2>1. \E m : d.created = {[id |-> s.next, memory |-> m]}
    BY <1>3 DEF SoundDecision
  <2> QED
    BY <1>1, <1>3, <2>1 DEF CreatedIds, Shaped
<1> QED
  BY <1>2, <1>3

\* What is active once a sound decision is applied, and what it costs.
LEMMA SoundActive ==
  ASSUME NEW s, IsMemoryState(s), NEW c, NEW d, SoundDecision(s, d, c)
  PROVE  Active(Applied(s, d)) = d.kept
<1> DEFINE u == Applied(s, d)
<1>1. /\ Known(u) = Known(s) \cup CreatedIds(d)
      /\ \A x \in Known(s) : u.mem[x] = After(s, d, x)
      /\ \A e \in d.created : u.mem[e.id] = e.memory
  <2>1. Shaped(s, d)
    BY SoundShape
  <2> QED
    BY <2>1, AppliedShape
<1> HIDE DEF u
<1>2. ASSUME NEW x \in Known(s)
      PROVE  u.mem[x].status = "active" <=> x \in Active(s) \ Retirements(d)
  <2>1. CASE x \in d.compressed
    <3>1. u.mem[x] = Retire(s.mem[x], "compressed", d.cycle)
      BY <1>1, <2>1 DEF After
    <3>2. s.mem[x] \in Memory
      BY MemoryIsFinite
    <3> QED
      BY <2>1, <3>1, <3>2 DEF Retire, Memory, Retirements
  <2>2. CASE x \in d.evicted /\ x \notin d.compressed
    <3>1. u.mem[x] = Retire(s.mem[x], "evicted", d.cycle)
      BY <1>1, <2>2 DEF After
    <3>2. s.mem[x] \in Memory
      BY MemoryIsFinite
    <3> QED
      BY <2>2, <3>1, <3>2 DEF Retire, Memory, Retirements
  <2>3. CASE x \notin d.evicted /\ x \notin d.compressed
    <3>1. u.mem[x] = s.mem[x]
      BY <1>1, <2>3 DEF After
    <3> QED
      BY <2>3, <3>1 DEF Active, Retirements
  <2> QED
    BY <2>1, <2>2, <2>3
<1>3. \A x \in CreatedIds(d) : u.mem[x].status = "active"
  <2> SUFFICES ASSUME NEW e \in d.created PROVE u.mem[e.id].status = "active"
    BY DEF CreatedIds
  <2>1. e.memory.status = "active"
    BY DEF SoundDecision, SummaryOf
  <2> QED
    BY <1>1, <2>1
<1>4. Active(s) \subseteq Known(s)
  BY DEF Active
<1>5. Active(u) = (Active(s) \ Retirements(d)) \cup CreatedIds(d)
  BY <1>1, <1>2, <1>3, <1>4, SoundShape DEF Active
<1> QED
  BY <1>5 DEF SoundDecision, u

LEMMA SoundCost ==
  ASSUME NEW s, IsMemoryState(s), NEW c, NEW d, SoundDecision(s, d, c)
  PROVE  ActiveTokens(Applied(s, d)) = d.tokens
<1> DEFINE u == Applied(s, d)
           A == Active(s)
           V == Retirements(d)
           K == A \ V
<1>1. /\ Shaped(s, d) /\ s.next \in Nat /\ s.next \notin Known(s)
      /\ d.created = {} => CreatedIds(d) = {}
      /\ d.created # {} => CreatedIds(d) = {s.next}
  BY SoundShape DEF Shaped
<1>2. /\ Known(u) = Known(s) \cup CreatedIds(d)
      /\ \A x \in Known(s) : u.mem[x] = After(s, d, x)
      /\ \A e \in d.created : u.mem[e.id] = e.memory
  BY <1>1, AppliedShape
<1>3. ActiveTokens(u) = Cost(u, K \cup CreatedIds(d))
  BY SoundActive DEF ActiveTokens, SoundDecision
<1>4. /\ A \in SUBSET Known(s) /\ V \in SUBSET A /\ K \in SUBSET Known(s)
      /\ d.compressed \in SUBSET V /\ V \ d.compressed = d.evicted
  BY DEF SoundDecision, Eligible, Active, Retirements
<1>5. /\ Cost(s, K) = Cost(s, A) - Cost(s, V)
      /\ Cost(s, d.evicted) = Cost(s, V) - Cost(s, d.compressed)
      /\ Cost(s, A) \in Nat /\ Cost(s, V) \in Nat /\ Cost(s, d.compressed) \in Nat
      /\ Cost(s, {}) = 0
  <2> HIDE DEF A, V, K
  <2>1. /\ V \in SUBSET Known(s) /\ d.compressed \in SUBSET Known(s) /\ V \in SUBSET A
        /\ A \in SUBSET Known(s) /\ d.compressed \in SUBSET V
    BY <1>4
  <2>2. Cost(s, A) \in Nat /\ Cost(s, V) \in Nat /\ Cost(s, d.compressed) \in Nat
    BY <2>1, CostFacts
  <2>3. Cost(s, A \ V) = Cost(s, A) - Cost(s, V) /\ Cost(s, {}) = 0
    BY <2>1, CostFacts
  <2>4. Cost(s, V \ d.compressed) = Cost(s, V) - Cost(s, d.compressed)
    BY <2>1, CostFacts
  <2> QED
    BY <1>4, <2>2, <2>3, <2>4 DEF K
<1>6. \A x \in K : u.mem[x] = s.mem[x] /\ x \in Known(u) /\ x \in Known(s)
  BY <1>2, <1>4 DEF After, Retirements
<1>7. Cost(u, K) = Cost(s, K)
  <2> HIDE DEF K, u
  <2>1. IsFiniteSet(K)
    BY <1>4, MemoryIsFinite
  <2> QED
    BY <1>6, <2>1, CostCongruent
<1> HIDE DEF u, A, V, K
<1>8. CASE d.created = {}
  <2>1. CreatedIds(d) = {} /\ d.compressed = {} /\ d.tokens = Cost(s, A) - Cost(s, d.evicted)
    BY <1>1, <1>8 DEF SoundDecision, ActiveTokens, A
  <2>2. K \cup CreatedIds(d) = K
    BY <2>1
  <2>3. ActiveTokens(u) = Cost(s, A) - Cost(s, V)
    BY <1>3, <1>5, <1>7, <2>2
  <2>4. Cost(s, d.compressed) = 0
    BY <1>5, <2>1
  <2>5. Cost(s, d.evicted) = Cost(s, V)
    BY <1>5, <2>4
  <2> QED
    BY <2>1, <2>3, <2>5 DEF u
<1>9. CASE d.created # {}
  <2>1. PICK m : /\ d.created = {[id |-> s.next, memory |-> m]}
                 /\ SummaryOf(s, d.compressed, c, m)
                 /\ d.tokens = Cost(s, A) - Cost(s, d.compressed) + m.tokens - Cost(s, d.evicted)
    BY <1>9 DEF SoundDecision, ActiveTokens, A
  <2>2. CreatedIds(d) = {s.next}
    BY <1>1, <1>9
  <2> DEFINE e == [id |-> s.next, memory |-> m]
  <2>3. e \in d.created /\ e.id = s.next /\ e.memory = m
    BY <2>1
  <2> HIDE DEF e
  <2>4. CreatedIds(d) = {s.next} /\ u.mem[s.next] = m /\ s.next \in Known(u)
    BY <1>2, <2>2, <2>3
  <2>5. m.tokens \in Nat
    BY <2>1 DEF SummaryOf, Memory
  <2>6. s.next \notin K /\ IsFiniteSet(K) /\ K \subseteq Known(u)
    BY <1>1, <1>4, <1>6, MemoryIsFinite
  <2>7. \A x \in K \cup {s.next} : u.mem[x].tokens \in Int
    BY <1>6, <2>4, <2>5, MemoryIsFinite
  <2>8. Cost(u, K \cup {s.next}) = Cost(u, K) + m.tokens
    BY <2>4, <2>6, <2>7, CostAdd
  <2> QED
    BY <1>3, <1>5, <1>7, <2>1, <2>4, <2>5, <2>8 DEF u
<1> QED
  BY <1>8, <1>9

(* MemoryState.apply and PolicyDecision refuse no sound decision.          *)
LEMMA SoundApplicable ==
  ASSUME NEW s, IsMemoryState(s), NEW c, NEW d, SoundDecision(s, d, c)
  PROVE  Applicable(s, d)
<1>1. /\ Shaped(s, d) /\ s.next \in Nat /\ s.next \notin Known(s)
      /\ d.created = {} => CreatedIds(d) = {}
      /\ d.created # {} => CreatedIds(d) = {s.next}
  BY SoundShape DEF Shaped
<1>2. Known(Applied(s, d)) = Known(s) \cup CreatedIds(d)
  BY <1>1, AppliedShape
<1>3. Retirements(d) \subseteq Eligible(s, c, {}) /\ Eligible(s, c, {}) \subseteq Active(s)
      /\ Active(s) \subseteq Known(s)
  BY DEF SoundDecision, Eligible, Active
<1>4. d.plan # NoPlan => /\ Cardinality(d.plan.sources) >= MinSummarySources
                         /\ d.plan.id \notin d.plan.sources
  <2> SUFFICES ASSUME d.plan # NoPlan
               PROVE  Cardinality(d.plan.sources) >= MinSummarySources
                      /\ d.plan.id \notin d.plan.sources
    OBVIOUS
  <2>1. PlanFits(s, d.plan, c, NextSlot(s, d))
    BY DEF SoundDecision
  <2>2. d.plan.sources \subseteq Known(s) /\ d.plan.id \in {s.next, s.next + 1}
    BY <1>3, <2>1 DEF PlanFits, NextSlot
  <2>3. d.plan.id \notin Known(s)
    BY <1>1, <2>2 DEF IsMemoryState
  <2> QED
    BY <2>1, <2>2, <2>3 DEF PlanFits
<1>5. d.kept \cap Retirements(d) = {} /\ CreatedIds(d) \subseteq d.kept
  BY <1>1, <1>3 DEF SoundDecision
<1>6. \A m \in Retirements(d) : m \in Active(s) /\ ~ s.mem[m].pinned
  BY <1>3 DEF Eligible
<1>7. \A e \in d.created : Admissible(s, e.id, e.memory) /\ e.memory.parents = d.compressed
  BY <1>1 DEF SoundDecision, SummaryOf, Admissible
<1>8. d.edges \subseteq Known(Applied(s, d)) \X CreatedIds(d)
  <2>1. d.compressed \subseteq Known(s)
    BY <1>3 DEF Retirements
  <2> QED
    BY <1>2, <2>1 DEF SoundDecision
<1> QED
  BY <1>4, <1>5, <1>6, <1>7, <1>8, SoundActive, SoundCost DEF Applicable

-----------------------------------------------------------------------------
(* Orderings.                                                              *)

\* x was born before y, or with it in an earlier slot.
Older(s, x, y) ==
  \/ s.mem[x].birth < s.mem[y].birth
  \/ s.mem[x].birth = s.mem[y].birth /\ x < y

LEMMA OldestFirst ==
  ASSUME NEW s, IsMemoryState(s), NEW a, a # "LRU", a # "HEAVY",
         NEW x \in Known(s), NEW y \in Known(s)
  PROVE  Precedes(a, s, x, y) <=> Older(s, x, y)
<1>1. /\ s.mem[x].birth \in Nat /\ s.mem[y].birth \in Nat /\ x \in Nat /\ y \in Nat
  BY MemoryIsFinite DEF Memory
<1> DEFINE f == <<s.mem[x].birth, x>>
           g == <<s.mem[y].birth, y>>
<1>2. Precedes(a, s, x, y) <=> LexLess(f, g)
  BY DEF Precedes, FifoKey
<1>3. DOMAIN f = {1, 2} /\ f[1] = s.mem[x].birth /\ f[2] = x
  OBVIOUS
<1>4. g[1] = s.mem[y].birth /\ g[2] = y
  OBVIOUS
<1> HIDE DEF f, g
<1>5. LexLess(f, g) <=> \E i \in {1, 2} : f[i] < g[i] /\ \A j \in 1 .. i - 1 : f[j] = g[j]
  BY <1>3 DEF LexLess
<1>6. (\A j \in 1 .. 1 - 1 : f[j] = g[j]) /\ ((\A j \in 1 .. 2 - 1 : f[j] = g[j]) <=> f[1] = g[1])
  OBVIOUS
<1> QED
  BY <1>1, <1>2, <1>3, <1>4, <1>5, <1>6 DEF Older

\* How many memories of E are to go before x, oldest first.
Ahead(s, E, x) == {y \in E : Older(s, y, x)}

LEMMA RanksRise ==
  ASSUME NEW s, IsMemoryState(s), NEW E \in SUBSET Known(s)
  PROVE  /\ \A x \in E : /\ IsFiniteSet(Ahead(s, E, x)) /\ Cardinality(Ahead(s, E, x)) \in Nat
                         /\ Cardinality(Ahead(s, E, x)) <= Cardinality(E)
         /\ \A x, y \in E : Older(s, y, x) =>
              Cardinality(Ahead(s, E, y)) < Cardinality(Ahead(s, E, x))
<1>1. IsFiniteSet(E) /\ \A x \in E : x \in Nat /\ s.mem[x].birth \in Nat
  BY MemoryIsFinite DEF Memory
<1>2. ASSUME NEW x \in E
      PROVE  /\ IsFiniteSet(Ahead(s, E, x)) /\ Cardinality(Ahead(s, E, x)) \in Nat
             /\ Cardinality(Ahead(s, E, x)) <= Cardinality(E)
  <2>1. Ahead(s, E, x) \in SUBSET E
    BY DEF Ahead
  <2> QED
    BY <1>1, <2>1, FS_Subset, FS_CardinalityType
<1>3. ASSUME NEW x \in E, NEW y \in E, Older(s, y, x)
      PROVE  Cardinality(Ahead(s, E, y)) < Cardinality(Ahead(s, E, x))
  <2> DEFINE Y == Ahead(s, E, y)
             X == Ahead(s, E, x)
  <2>1. y \in X /\ y \notin Y
    BY <1>1, <1>3 DEF Ahead, Older
  <2>2. Y \subseteq X
    BY <1>1, <1>3 DEF Ahead, Older
  <2>3. IsFiniteSet(X) /\ Cardinality(X) \in Nat /\ Cardinality(Y) \in Nat
    BY <1>2
  <2> HIDE DEF X, Y
  <2>4. Cardinality(Y) <= Cardinality(X) /\ Cardinality(Y) # Cardinality(X)
    BY <2>1, <2>2, <2>3, FS_Subset
  <2> QED
    BY <2>3, <2>4 DEF X, Y
<1> QED
  BY <1>2, <1>3

\* Among some memories of E there is one none of the others is older than.
LEMMA OldestExists ==
  ASSUME NEW s, IsMemoryState(s), NEW E \in SUBSET Known(s), E # {}
  PROVE  \E x \in E : \A y \in E : ~ Older(s, y, x)
<1> DEFINE rank(x) == Cardinality(Ahead(s, E, x))
           R == {rank(x) : x \in E}
           n == Cardinality(E)
<1>1. n \in Nat /\ \A x \in E : rank(x) \in 0 .. n
  <2>1. IsFiniteSet(E)
    BY MemoryIsFinite
  <2>2. n \in Nat
    BY <2>1, FS_CardinalityType
  <2> QED
    BY <2>2, RanksRise
<1>2. R \in SUBSET (0 .. n) /\ R # {}
  <2> HIDE DEF n
  <2> QED
    BY <1>1
<1>3. PICK r \in R : \A q \in R : r <= q
  <2> HIDE DEF R, n
  <2> QED
    BY <1>1, <1>2, LeastOf
<1>4. PICK x \in E : r = rank(x)
  BY <1>3
<1>5. \A y \in E : rank(x) <= rank(y)
  BY <1>3, <1>4
<1>6. \A y \in E : Older(s, y, x) => rank(y) < rank(x)
  BY RanksRise
<1> HIDE DEF rank, n
<1>7. \A y \in E : rank(y) \in Nat
  BY <1>1
<1> QED
  BY <1>5, <1>6, <1>7

(* A prefix of two or more, of two or more memories, has two or more.      *)
LEMMA PrefixHasTwo ==
  ASSUME NEW s, IsMemoryState(s), NEW E \in SUBSET Known(s),
         NEW n \in Nat, n >= 2, n <= Cardinality(E)
  PROVE  Cardinality(Prefix("SUMMARY", s, E, n)) >= 2
<1> DEFINE P == Prefix("SUMMARY", s, E, n)
<1>1. IsFiniteSet(E) /\ Cardinality(E) \in Nat
  BY MemoryIsFinite, FS_CardinalityType
<1>2. P = {x \in E : Cardinality(Ahead(s, E, x)) < n}
  <2>1. \A x \in E : {y \in E : Precedes("SUMMARY", s, y, x)} = Ahead(s, E, x)
    BY OldestFirst DEF Ahead
  <2> QED
    BY <2>1 DEF Prefix
<1>3. E # {}
  BY <1>1, FS_EmptySet
<1>4. PICK x \in E : \A y \in E : ~ Older(s, y, x)
  BY <1>3, OldestExists
<1>5. E \ {x} # {}
  <2>1. Cardinality({x}) = 1
    BY FS_Singleton
  <2> QED
    BY <1>1, <2>1
<1>6. PICK y \in E \ {x} : \A z \in E \ {x} : ~ Older(s, z, y)
  <2>1. E \ {x} \in SUBSET Known(s)
    OBVIOUS
  <2> QED
    BY <1>5, <2>1, OldestExists
<1>7. Cardinality(Ahead(s, E, x)) = 0
  <2>1. Ahead(s, E, x) = {}
    BY <1>4 DEF Ahead
  <2> QED
    BY <2>1, FS_EmptySet
<1>8. Cardinality(Ahead(s, E, y)) <= 1
  <2>1. Ahead(s, E, y) \in SUBSET {x}
    BY <1>6 DEF Ahead
  <2>2. IsFiniteSet({x}) /\ Cardinality({x}) = 1
    BY FS_Singleton
  <2> QED
    BY <2>1, <2>2, FS_Subset
<1>9. Cardinality(Ahead(s, E, y)) \in Nat
  BY RanksRise
<1>10. {x, y} \in SUBSET P
  BY <1>2, <1>6, <1>7, <1>8, <1>9
<1>11. Cardinality({x, y}) = 2
  <2> DEFINE X == {x}
  <2>1. {x, y} = X \cup {y} /\ y \notin X
    BY <1>6
  <2>2. IsFiniteSet(X) /\ Cardinality(X) = 1
    BY FS_Singleton
  <2> HIDE DEF X
  <2> QED
    BY <2>1, <2>2, FS_AddElement
<1>12. IsFiniteSet(P)
  BY <1>1, <1>2, FS_Subset
<1> HIDE DEF P
<1>13. Cardinality({x, y}) <= Cardinality(P)
  BY <1>10, <1>12, FS_Subset
<1>14. Cardinality(P) \in Nat
  BY <1>12, FS_CardinalityType
<1> QED
  BY <1>11, <1>13, <1>14 DEF P

-----------------------------------------------------------------------------
(* What the policies hand over is sound.                                   *)

LEMMA VictimsEligible ==
  ASSUME NEW a, NEW s, NEW E, NEW tokens, NEW b
  PROVE  GreedyVictims(a, s, E, tokens, b) \subseteq E
BY DEF GreedyVictims, Prefix

LEMMA EvictSound ==
  ASSUME NEW s, NEW c, NEW code, NEW victims, victims \subseteq Eligible(s, c, {})
  PROVE  SoundDecision(s, Evict(s, c, code, victims), c)
<1> DEFINE d == Evict(s, c, code, victims)
<1>1. /\ d.cycle = c /\ d.compressed = {} /\ d.evicted = victims /\ d.created = {}
      /\ d.plan = NoPlan /\ d.tokens = ActiveTokens(s) - Cost(s, victims)
      /\ d.kept = (Active(s) \ ({} \cup victims)) \cup {}
      /\ d.edges = {} \X {}
  BY DEF Evict, BuildDecision, NoFold
<1> HIDE DEF d
<1>2. Retirements(d) = victims /\ CreatedIds(d) = {}
  BY <1>1 DEF Retirements, CreatedIds
<1>3. SoundDecision(s, d, c)
  BY <1>1, <1>2 DEF SoundDecision
<1> QED
  BY <1>3 DEF d

\* The fields a decision is judged by: its code is not one of them.
LEMMA RecodedSound ==
  ASSUME NEW s, NEW c, NEW d, SoundDecision(s, d, c), NEW e,
         e.cycle = d.cycle, e.compressed = d.compressed, e.evicted = d.evicted,
         e.created = d.created, e.kept = d.kept, e.edges = d.edges,
         e.tokens = d.tokens, e.plan = d.plan
  PROVE  SoundDecision(s, e, c)
BY DEF SoundDecision, Retirements, CreatedIds, NextSlot

LEMMA OrderedSound ==
  ASSUME NEW s, NEW a, NEW b, NEW c, NEW code
  PROVE  SoundDecision(s, OrderedDecision(a, s, b, c, code), c)
<1>1. Eligible(s, c, Protected(a)) \subseteq Eligible(s, c, {})
  BY DEF Eligible
<1> QED
  BY <1>1, VictimsEligible, EvictSound DEF OrderedDecision

LEMMA HeavySound ==
  ASSUME NEW s, NEW b, NEW c
  PROVE  SoundDecision(s, HeavyDecision(s, b, c), c)
<1> DEFINE d == OrderedDecision("HEAVY", s, b, c, "EVICTED_LOWEST_RETENTION_DENSITY")
           e == [d EXCEPT !.code = "HEAVY_HITTER_RESERVE_BROKEN"]
<1>1. SoundDecision(s, d, c)
  BY OrderedSound
<1>2. /\ e.cycle = d.cycle /\ e.compressed = d.compressed /\ e.evicted = d.evicted
      /\ e.created = d.created /\ e.kept = d.kept /\ e.edges = d.edges
      /\ e.tokens = d.tokens /\ e.plan = d.plan
  BY DEF OrderedDecision, Evict, BuildDecision
<1> HIDE DEF d, e
<1>3. SoundDecision(s, e, c)
  BY <1>1, <1>2, RecodedSound
<1> QED
  BY <1>1, <1>3 DEF HeavyDecision, d, e

LEMMA RandomSound ==
  ASSUME NEW s, NEW b, NEW c, NEW d \in RandomDecisions(s, b, c)
  PROVE  SoundDecision(s, d, c)
<1>1. PICK V \in SUBSET Eligible(s, c, {}) : d = Evict(s, c, "EVICTED_RANDOM", V)
  BY DEF RandomDecisions
<1> QED
  BY <1>1, EvictSound

(* A plan is made only over budget, and then frees more than its summary   *)
(* may cost: the margin and the overshoot more.                            *)
LEMMA PlanFitting ==
  ASSUME NEW s, IsMemoryState(s), NEW c, NEW E \in SUBSET Eligible(s, c, {}),
         NEW tokens \in Int, NEW b \in Int, tokens > b, NEW id,
         NEW p, p = PlanCompression(s, E, tokens, b, id), p # NoPlan
  PROVE  PlanFits(s, p, c, id) /\ p.sources \subseteq E
<1> DEFINE chosen(n) == Prefix("SUMMARY", s, E, n)
           sizes == {n \in MinSources .. Cardinality(E) :
                       tokens - Cost(s, chosen(n)) + SummaryLimit <= b - SafetyMargin}
           sources == chosen(Min(sizes))
<1>1. E \in SUBSET Known(s) /\ IsFiniteSet(E)
  <2>1. E \in SUBSET Known(s)
    BY DEF Eligible, Active
  <2> QED
    BY <2>1, MemoryIsFinite
<1>2. Cardinality(E) \in Nat
  BY <1>1, FS_CardinalityType
<1>3. sizes # {} /\ p = [sources |-> sources, id |-> id, limit |-> SummaryLimit,
                         freed |-> Cost(s, sources)]
  BY DEF PlanCompression
<1>4. sizes \in SUBSET (0 .. Cardinality(E))
  BY <1>2, PolicyAssumption
<1> DEFINE n == Min(sizes)
<1>5. n \in sizes
  <2> HIDE DEF sizes
  <2> QED
    BY <1>2, <1>3, <1>4, MinIsLeast
<1>6. /\ n \in Nat /\ n >= 2 /\ n <= Cardinality(E)
      /\ tokens - Cost(s, sources) + SummaryLimit <= b - SafetyMargin
  <2> HIDE DEF n
  <2> QED
    BY <1>2, <1>5, PolicyAssumption DEF n
<1>7. sources \subseteq E
  BY DEF Prefix
<1>8. Cardinality(sources) >= MinSummarySources
  <2> HIDE DEF n
  <2> QED
    BY <1>1, <1>6, PrefixHasTwo DEF n, MinSummarySources
<1>9. Cost(s, sources) \in Nat
  BY <1>1, <1>7, CostFacts
<1> HIDE DEF sources, n
<1>10. SummaryLimit < Cost(s, sources)
  BY <1>6, <1>9, PolicyAssumption
<1> QED
  BY <1>3, <1>7, <1>8, <1>10 DEF PlanFits

LEMMA ActiveTokensType ==
  ASSUME NEW s, IsMemoryState(s)
  PROVE  ActiveTokens(s) \in Nat /\ Active(s) \in SUBSET Known(s) /\ Cost(s, {}) = 0
<1>1. Active(s) \in SUBSET Known(s)
  BY DEF Active
<1> QED
  BY <1>1, CostFacts DEF ActiveTokens

LEMMA SummarySound ==
  ASSUME NEW s, IsMemoryState(s), NEW b \in Int, NEW c, NEW fb
  PROVE  SoundDecision(s, SummaryDecision(s, b, c, fb), c)
<1> DEFINE E == Eligible(s, c, {})
           tokens == ActiveTokens(s)
           p == PlanCompression(s, E, tokens, b, s.next)
           d == BuildDecision(s, c, "COMPRESSION_PLANNED", {}, NoFold, tokens, p)
           victims == FallbackVictims(s, E, tokens, b, fb)
<1>1. CASE tokens <= b
  BY <1>1, EvictSound, {} \subseteq E DEF SummaryDecision
<1>2. CASE ~ (tokens <= b) /\ p = NoPlan
  <2>1. victims \subseteq E
    BY VictimsEligible DEF FallbackVictims
  <2>2. SummaryDecision(s, b, c, fb) = Evict(s, c, "SUMMARY_FALLBACK_FIFO", victims)
    BY <1>2 DEF SummaryDecision
  <2> QED
    BY <2>1, <2>2, EvictSound
<1>3. CASE ~ (tokens <= b) /\ p # NoPlan
  <2>1. SummaryDecision(s, b, c, fb) = d
    BY <1>3 DEF SummaryDecision
  <2>2. /\ d.cycle = c /\ d.compressed = {} /\ d.evicted = {} /\ d.created = {}
        /\ d.plan = p /\ d.tokens = tokens
        /\ d.kept = (Active(s) \ ({} \cup {})) \cup {}
        /\ d.edges = {} \X {}
    BY DEF BuildDecision, NoFold
  <2>3. tokens \in Nat /\ Cost(s, {}) = 0
    BY ActiveTokensType
  <2>4. PlanFits(s, p, c, s.next)
    <3>1. E \in SUBSET Eligible(s, c, {}) /\ tokens \in Int /\ tokens > b
      BY <1>3, <2>3
    <3> HIDE DEF E, tokens
    <3> QED
      BY <1>3, <3>1, PlanFitting
  <2> HIDE DEF p, d
  <2>5. Retirements(d) = {} /\ CreatedIds(d) = {} /\ NextSlot(s, d) = s.next
    BY <2>2 DEF Retirements, CreatedIds, NextSlot
  <2>6. d.tokens = ActiveTokens(s) - Cost(s, d.evicted)
    BY <2>2, <2>3
  <2>7. SoundDecision(s, d, c)
    BY <2>2, <2>4, <2>5, <2>6 DEF SoundDecision
  <2> QED
    BY <2>1, <2>7
<1> QED
  BY <1>1, <1>2, <1>3

LEMMA FullSound ==
  ASSUME NEW s, IsMemoryState(s), NEW c
  PROVE  SoundDecision(s, BuildDecision(s, c, "RETAINED_ALL", {}, NoFold,
                                        ActiveTokens(s), NoPlan), c)
<1> DEFINE d == BuildDecision(s, c, "RETAINED_ALL", {}, NoFold, ActiveTokens(s), NoPlan)
<1>1. /\ d.cycle = c /\ d.compressed = {} /\ d.evicted = {} /\ d.created = {}
      /\ d.plan = NoPlan /\ d.tokens = ActiveTokens(s)
      /\ d.kept = (Active(s) \ ({} \cup {})) \cup {}
      /\ d.edges = {} \X {}
  BY DEF BuildDecision, NoFold
<1> HIDE DEF d
<1>2. Retirements(d) = {} /\ CreatedIds(d) = {}
  BY <1>1 DEF Retirements, CreatedIds
<1>3. d.tokens = ActiveTokens(s) - Cost(s, d.evicted)
  BY <1>1, ActiveTokensType
<1>4. SoundDecision(s, d, c)
  BY <1>1, <1>2, <1>3 DEF SoundDecision
<1> QED
  BY <1>4 DEF d

(* Every arm's first decision is sound.                                    *)
LEMMA RebalanceSound ==
  ASSUME NEW s, IsMemoryState(s), NEW a, NEW b \in Int, NEW c, NEW fb,
         NEW d \in Rebalance(a, s, b, c, fb)
  PROVE  SoundDecision(s, d, c)
<1>1. CASE a = "FIFO"
  BY <1>1, OrderedSound DEF Rebalance
<1>2. CASE a = "SINK"
  BY <1>2, OrderedSound DEF Rebalance
<1>3. CASE a = "LRU"
  BY <1>3, OrderedSound DEF Rebalance
<1>4. CASE a = "HEAVY"
  BY <1>4, HeavySound DEF Rebalance
<1>5. CASE a = "RANDOM"
  BY <1>5, RandomSound DEF Rebalance
<1>6. CASE a = "SUMMARY"
  BY <1>6, SummarySound DEF Rebalance
<1>7. CASE a = "FULL"
  BY <1>7, FullSound DEF Rebalance
<1>8. CASE a \notin {"FIFO", "SINK", "LRU", "HEAVY", "RANDOM", "SUMMARY", "FULL"}
  <2>1. d = Evict(s, c, "EVICTED_STATELESS", Eligible(s, c, {}))
    BY <1>8 DEF Rebalance
  <2> QED
    BY <2>1, EvictSound
<1> QED
  BY <1>1, <1>2, <1>3, <1>4, <1>5, <1>6, <1>7, <1>8

(* So is the decision a summary within its plan is followed by.            *)
LEMMA FinalizeSound ==
  ASSUME NEW s, IsMemoryState(s), NEW b \in Int, NEW c, NEW p, PlanFits(s, p, c, s.next),
         NEW m, SummaryOf(s, p.sources, c, m), NEW fb
  PROVE  SoundDecision(s, FinalizeCompression(s, b, c, p, s.next, m, fb), c)
<1> DEFINE fold == [sources |-> p.sources, created |-> {[id |-> s.next, memory |-> m]}]
           tokens == ActiveTokens(s) - p.freed + m.tokens
           surviving == Eligible(s, c, {}) \ p.sources
           nextPlan == PlanCompression(s, surviving, tokens, b, s.next + 1)
           victims == FallbackVictims(s, surviving, tokens, b, fb)
           made(code, v, t, q) == BuildDecision(s, c, code, v, fold, t, q)
<1>1. /\ ActiveTokens(s) \in Nat /\ Cost(s, {}) = 0 /\ m.tokens \in Nat
      /\ Cost(s, p.sources) \in Nat /\ p.freed = Cost(s, p.sources)
  <2>1. p.sources \in SUBSET Known(s)
    BY DEF PlanFits, Eligible, Active
  <2> QED
    BY <2>1, ActiveTokensType, CostFacts DEF PlanFits, SummaryOf, Memory
<1>2. tokens \in Int
  BY <1>1
<1>3. ASSUME NEW code, NEW v \in SUBSET surviving, NEW t, t = tokens - Cost(s, v), NEW q,
             q # NoPlan => PlanFits(s, q, c, s.next + 1) /\ q.sources \subseteq surviving \ v
      PROVE  SoundDecision(s, made(code, v, t, q), c)
  <2> DEFINE d == made(code, v, t, q)
             e == [id |-> s.next, memory |-> m]
  <2>1. /\ d.cycle = c /\ d.compressed = p.sources /\ d.evicted = v
        /\ d.created = {e} /\ d.plan = q /\ d.tokens = t
        /\ d.kept = (Active(s) \ (p.sources \cup v)) \cup {x.id : x \in {e}}
        /\ d.edges = p.sources \X {x.id : x \in {e}}
    BY DEF BuildDecision
  <2>2. e.id = s.next
    OBVIOUS
  <2> HIDE DEF d, e
  <2>3. /\ Retirements(d) = p.sources \cup v /\ CreatedIds(d) = {x.id : x \in {e}}
        /\ NextSlot(s, d) = s.next + 1
    BY <2>1 DEF Retirements, CreatedIds, NextSlot
  <2>4. p.sources \subseteq Eligible(s, c, {}) /\ p.sources \cap v = {}
        /\ v \subseteq Eligible(s, c, {})
    BY DEF PlanFits
  <2>5. d.created = {[id |-> s.next, memory |-> m]} /\ SummaryOf(s, d.compressed, c, m)
    BY <2>1 DEF e
  <2>6. d.tokens = ActiveTokens(s) - Cost(s, d.compressed) + m.tokens - Cost(s, d.evicted)
    <3>1. v \in SUBSET Known(s)
      BY DEF Eligible, Active
    <3>2. Cost(s, v) \in Nat
      BY <3>1, CostFacts
    <3> QED
      BY <1>1, <1>3, <2>1, <3>2
  <2>7. d.plan # NoPlan => /\ PlanFits(s, d.plan, c, NextSlot(s, d))
                           /\ d.plan.sources \cap Retirements(d) = {}
    BY <1>3, <2>1, <2>3
  <2>8. SoundDecision(s, d, c)
    BY <2>1, <2>3, <2>4, <2>5, <2>6, <2>7 DEF SoundDecision
  <2> QED
    BY <2>8 DEF d
<1>4. \A code : SoundDecision(s, made(code, {}, tokens, NoPlan), c)
  <2>1. {} \in SUBSET surviving /\ tokens = tokens - Cost(s, {})
    BY <1>1, <1>2
  <2> HIDE DEF made, tokens, surviving
  <2> QED
    BY <1>3, <2>1
<1>5. CASE tokens <= b
  BY <1>4, <1>5 DEF FinalizeCompression
<1>6. CASE ~ (tokens <= b) /\ nextPlan # NoPlan
  <2>1. PlanFits(s, nextPlan, c, s.next + 1) /\ nextPlan.sources \subseteq surviving
    <3>1. surviving \in SUBSET Eligible(s, c, {}) /\ tokens > b
      BY <1>2, <1>6
    <3> HIDE DEF surviving, tokens
    <3> QED
      BY <1>2, <1>6, <3>1, PlanFitting
  <2>2. SoundDecision(s, made("COMPRESSION_PLANNED", {}, tokens, nextPlan), c)
    <3>1. {} \in SUBSET surviving /\ tokens = tokens - Cost(s, {})
      BY <1>1, <1>2
    <3>2. nextPlan.sources \subseteq surviving \ {}
      BY <2>1
    <3> HIDE DEF made, tokens, surviving, nextPlan
    <3> QED
      BY <1>3, <2>1, <3>1, <3>2
  <2> QED
    BY <1>6, <2>2 DEF FinalizeCompression
<1>7. CASE ~ (tokens <= b) /\ nextPlan = NoPlan
  <2>1. victims \in SUBSET surviving
    BY VictimsEligible DEF FallbackVictims
  <2>2. SoundDecision(s, made("SUMMARY_FALLBACK_FIFO", victims, tokens - Cost(s, victims), NoPlan), c)
    <3> HIDE DEF made, tokens, surviving, victims
    <3> QED
      BY <1>3, <2>1
  <2> QED
    BY <1>7, <2>2 DEF FinalizeCompression
<1> QED
  BY <1>5, <1>6, <1>7

-----------------------------------------------------------------------------
(* What every transition of a memory state keeps, its lineage above all.   *)

StandsFor(s, m) == {k \in Known(s) : m \in s.mem[k].parents}

Lineage(s) ==
  /\ \A k \in Known(s) :
       s.mem[k].kind = "summary" => s.mem[k].tokens < Cost(s, s.mem[k].parents)
  /\ s.edges = UNION {s.mem[k].parents \X {k} : k \in Known(s)}
  /\ \A m \in Known(s) :
       IF s.mem[m].status = "compressed"
       THEN \E k \in Known(s) : /\ StandsFor(s, m) = {k} /\ m < k
                                /\ s.mem[k].birth = s.mem[m].retired
       ELSE StandsFor(s, m) = {}

\* Slots are handed out without a gap, and in the order of birth.
Dense(s) == Known(s) = 0 .. s.next - 1
BirthsRise(s) == \A x, y \in Known(s) : x < y => s.mem[x].birth <= s.mem[y].birth

Good(s) == IsMemoryState(s) /\ Dense(s) /\ BirthsRise(s) /\ Lineage(s)

\* n is m, but for its citations.
Same(m, n) ==
  /\ n.kind = m.kind /\ n.tokens = m.tokens /\ n.birth = m.birth
  /\ n.parents = m.parents /\ n.pinned = m.pinned
  /\ n.status = m.status /\ n.retired = m.retired

\* r is s, but for citations.
Alike(s, r) ==
  /\ Known(r) = Known(s) /\ r.next = s.next /\ r.edges = s.edges
  /\ \A x \in Known(s) : Same(s.mem[x], r.mem[x])

LEMMA RecordAlike ==
  ASSUME NEW s, IsMemoryState(s), NEW counted, NEW c
  PROVE  Alike(s, RecordCycleCitations(s, counted, c))
<1> DEFINE r == RecordCycleCitations(s, counted, c)
           f == [x \in Known(s) |-> IF x \in Active(s)
                                    THEN WithCitationCycle(s.mem[x], c, x \in counted)
                                    ELSE s.mem[x]]
<1>1. r.mem = f /\ r.next = s.next /\ r.edges = s.edges
  BY DEF RecordCycleCitations, MemoryState
<1>2. Known(r) = Known(s)
  BY <1>1 DEF Known
<1>3. ASSUME NEW x \in Known(s) PROVE Same(s.mem[x], f[x])
  <2>1. s.mem[x] \in Memory
    BY MemoryIsFinite
  <2>2. CASE x \in Active(s)
    <3> DEFINE m == s.mem[x]
               score == (DecayNum * m.score) \div DecayDen
                          + (IF x \in counted THEN ScoreUnit ELSE 0)
               cited == IF x \in counted THEN c ELSE m.cited
    <3>1. f[x] = [m EXCEPT !.score = score, !.cited = cited]
      BY <2>2 DEF WithCitationCycle
    <3> HIDE DEF score, cited, f
    <3> QED
      BY <2>1, <3>1 DEF Memory, Same
  <2>3. CASE x \notin Active(s)
    BY <2>3 DEF Same
  <2> QED
    BY <2>2, <2>3
<1> HIDE DEF f, r
<1>4. Alike(s, r)
  BY <1>1, <1>2, <1>3 DEF Alike
<1> QED
  BY <1>4 DEF r

LEMMA AlikeGood ==
  ASSUME NEW s, Good(s), NEW r, IsMemoryState(r), Alike(s, r)
  PROVE  Good(r) /\ Active(r) = Active(s)
<1>1. /\ Known(r) = Known(s) /\ r.next = s.next /\ r.edges = s.edges
      /\ \A x \in Known(s) : Same(s.mem[x], r.mem[x])
  BY DEF Alike
<1>2. Active(r) = Active(s)
  BY <1>1 DEF Active, Same
<1>3. Dense(r) /\ BirthsRise(r)
  BY <1>1 DEF Good, Dense, BirthsRise, Same
<1>4. \A x \in Known(s) : StandsFor(r, x) = StandsFor(s, x)
  BY <1>1 DEF StandsFor, Same
<1>5. \A k \in Known(r) : r.mem[k].kind = "summary" => r.mem[k].tokens < Cost(r, r.mem[k].parents)
  <2> SUFFICES ASSUME NEW k \in Known(s), s.mem[k].kind = "summary"
               PROVE  r.mem[k].tokens < Cost(r, r.mem[k].parents)
    BY <1>1 DEF Same
  <2> DEFINE P == s.mem[k].parents
  <2>1. P \subseteq Known(s) /\ s.mem[k].tokens < Cost(s, P)
    BY DEF Good, IsMemoryState, Lineage
  <2>2. r.mem[k].parents = P /\ r.mem[k].tokens = s.mem[k].tokens
    BY <1>1 DEF Same
  <2>3. IsFiniteSet(P)
    BY <2>1, MemoryIsFinite DEF Good
  <2> HIDE DEF P
  <2>4. \A x \in P : r.mem[x].tokens = s.mem[x].tokens
    BY <1>1, <2>1 DEF Same
  <2>5. Cost(r, P) = Cost(s, P)
    BY <1>1, <2>1, <2>3, <2>4, CostCongruent
  <2> QED
    BY <2>1, <2>2, <2>5
<1>6. r.edges = UNION {r.mem[k].parents \X {k} : k \in Known(r)}
  <2>1. \A k \in Known(s) : r.mem[k].parents \X {k} = s.mem[k].parents \X {k}
    BY <1>1 DEF Same
  <2>2. {r.mem[k].parents \X {k} : k \in Known(r)} = {s.mem[k].parents \X {k} : k \in Known(s)}
    BY <1>1, <2>1
  <2> QED
    BY <1>1, <2>2 DEF Good, Lineage
<1>7. \A m \in Known(r) :
        IF r.mem[m].status = "compressed"
        THEN \E k \in Known(r) : /\ StandsFor(r, m) = {k} /\ m < k
                                 /\ r.mem[k].birth = r.mem[m].retired
        ELSE StandsFor(r, m) = {}
  <2> SUFFICES ASSUME NEW m \in Known(s)
               PROVE  IF s.mem[m].status = "compressed"
                      THEN \E k \in Known(s) : /\ StandsFor(s, m) = {k} /\ m < k
                                               /\ r.mem[k].birth = s.mem[m].retired
                      ELSE StandsFor(s, m) = {}
    BY <1>1, <1>4 DEF Same
  <2> QED
    BY <1>1 DEF Good, Lineage, Same
<1> QED
  BY <1>2, <1>3, <1>5, <1>6, <1>7 DEF Good, Lineage

LEMMA AdmitShape ==
  ASSUME NEW s, s.next \notin Known(s), NEW m
  PROVE  LET t == Admit(s, s.next, m)
         IN /\ Known(t) = Known(s) \cup {s.next} /\ t.next = s.next + 1
            /\ t.edges = s.edges /\ t.mem[s.next] = m
            /\ \A x \in Known(s) : t.mem[x] = s.mem[x]
BY DEF Admit, MemoryState, Known

(* A new memory without parents, born last.                                *)
LEMMA AdmitGood ==
  ASSUME NEW s, Good(s), NEW c, BornBy(s, c), NEW m, m.parents = {}, m.birth = c,
         m.kind # "summary", m.status = "active", IsMemoryState(Admit(s, s.next, m))
  PROVE  Good(Admit(s, s.next, m))
<1> DEFINE t == Admit(s, s.next, m)
           id == s.next
<1>1. id \in Nat /\ id \notin Known(s) /\ Known(s) = 0 .. id - 1
  BY DEF Good, Dense, IsMemoryState
<1>2. /\ Known(t) = Known(s) \cup {id} /\ t.next = id + 1
      /\ t.edges = s.edges /\ t.mem[id] = m
      /\ \A x \in Known(s) : t.mem[x] = s.mem[x]
  <2>1. s.next \notin Known(s)
    BY <1>1
  <2> QED
    BY <2>1, AdmitShape
<1>3. IsMemoryState(t)
  OBVIOUS
<1> HIDE DEF t, id
<1>4. Dense(t)
  BY <1>1, <1>2 DEF Dense
<1>5. BirthsRise(t)
  BY <1>1, <1>2 DEF BirthsRise, Good, BornBy
<1>6. \A k \in Known(s) : s.mem[k].parents \subseteq Known(s)
  BY DEF Good, IsMemoryState
<1>7. StandsFor(t, id) = {} /\ \A x \in Known(s) : StandsFor(t, x) = StandsFor(s, x)
  BY <1>1, <1>2, <1>6 DEF StandsFor
<1>8. \A k \in Known(t) : t.mem[k].kind = "summary" => t.mem[k].tokens < Cost(t, t.mem[k].parents)
  <2> SUFFICES ASSUME NEW k \in Known(s), s.mem[k].kind = "summary"
               PROVE  s.mem[k].tokens < Cost(t, s.mem[k].parents)
    BY <1>2
  <2> DEFINE P == s.mem[k].parents
  <2>1. P \subseteq Known(s) /\ s.mem[k].tokens < Cost(s, P) /\ IsFiniteSet(P)
    BY <1>6, MemoryIsFinite DEF Good, Lineage
  <2> HIDE DEF P
  <2>2. P \subseteq Known(t) /\ \A x \in P : t.mem[x].tokens = s.mem[x].tokens
    BY <1>2, <2>1
  <2>3. Cost(t, P) = Cost(s, P)
    BY <2>1, <2>2, CostCongruent
  <2> QED
    BY <2>1, <2>3 DEF P
<1>9. t.edges = UNION {t.mem[k].parents \X {k} : k \in Known(t)}
  <2>1. \A k \in Known(t) : t.mem[k].parents \X {k} =
                              IF k = id THEN {} ELSE s.mem[k].parents \X {k}
    BY <1>1, <1>2
  <2>2. UNION {t.mem[k].parents \X {k} : k \in Known(t)}
          = UNION {s.mem[k].parents \X {k} : k \in Known(s)}
    BY <1>1, <1>2, <2>1
  <2> QED
    BY <1>2, <2>2 DEF Good, Lineage
<1>10. \A x \in Known(t) :
        IF t.mem[x].status = "compressed"
        THEN \E k \in Known(t) : /\ StandsFor(t, x) = {k} /\ x < k
                                 /\ t.mem[k].birth = t.mem[x].retired
        ELSE StandsFor(t, x) = {}
  BY <1>1, <1>2, <1>7 DEF Good, Lineage
<1>11. Good(t)
  BY <1>3, <1>4, <1>5, <1>8, <1>9, <1>10 DEF Good, Lineage
<1> QED
  BY <1>11 DEF t, id

(* A sound decision.                                                       *)
LEMMA AppliedGood ==
  ASSUME NEW s, Good(s), NEW c \in Nat, BornBy(s, c), NEW d, SoundDecision(s, d, c),
         IsMemoryState(Applied(s, d))
  PROVE  Good(Applied(s, d))
<1> DEFINE u == Applied(s, d)
           id == s.next
<1>1. /\ Shaped(s, d) /\ id \in Nat /\ id \notin Known(s) /\ Known(s) = 0 .. id - 1
      /\ d.created = {} => CreatedIds(d) = {}
      /\ d.created # {} => CreatedIds(d) = {id}
  BY SoundShape DEF Shaped, Good, Dense
<1>2. /\ Known(u) = Known(s) \cup CreatedIds(d)
      /\ \A x \in Known(s) : u.mem[x] = After(s, d, x)
      /\ \A e \in d.created : u.mem[e.id] = e.memory
      /\ u.next = NextSlot(s, d)
      /\ u.edges = s.edges \cup d.edges
  BY <1>1, AppliedShape
<1>3. IsMemoryState(u)
  OBVIOUS
<1> HIDE DEF u
\* What is left of a memory that was known.
<1>4. ASSUME NEW x \in Known(s)
      PROVE  /\ u.mem[x].kind = s.mem[x].kind /\ u.mem[x].tokens = s.mem[x].tokens
             /\ u.mem[x].birth = s.mem[x].birth /\ u.mem[x].parents = s.mem[x].parents
             /\ x \in d.compressed => /\ u.mem[x].status = "compressed"
                                      /\ u.mem[x].retired = c
             /\ x \in d.evicted => u.mem[x].status = "evicted"
             /\ x \notin Retirements(d) => u.mem[x] = s.mem[x]
  <2>1. s.mem[x] \in Memory /\ d.cycle = c /\ d.compressed \cap d.evicted = {}
    BY MemoryIsFinite DEF Good, SoundDecision
  <2>2. u.mem[x] = After(s, d, x)
    BY <1>2
  <2> QED
    BY <2>1, <2>2 DEF After, Retire, Memory, Retirements
\* The summary, if there is one.
<1>5. ASSUME d.created # {}
      PROVE  /\ u.mem[id].parents = d.compressed /\ u.mem[id].birth = c
             /\ u.mem[id].status = "active"
             /\ u.mem[id].tokens < Cost(s, d.compressed)
  <2>1. PICK m : d.created = {[id |-> id, memory |-> m]} /\ SummaryOf(s, d.compressed, c, m)
    BY <1>5 DEF SoundDecision
  <2> DEFINE e == [id |-> id, memory |-> m]
  <2>2. e \in d.created /\ e.id = id /\ e.memory = m
    BY <2>1
  <2> HIDE DEF e, id
  <2>3. u.mem[id] = m
    BY <1>2, <2>2
  <2> QED
    BY <2>1, <2>3 DEF SummaryOf
<1>6. d.created = {} => d.compressed = {}
  BY DEF SoundDecision
<1>7. d.compressed \subseteq Active(s) /\ d.evicted \subseteq Active(s) /\ Active(s) \subseteq Known(s)
      /\ d.edges = d.compressed \X CreatedIds(d)
  BY DEF SoundDecision, Eligible, Active, Retirements
<1>8. \A k \in Known(s) : s.mem[k].parents \subseteq Known(s)
  BY DEF Good, IsMemoryState
<1> HIDE DEF id
<1>9. Dense(u)
  <2>1. CASE d.created = {}
    BY <1>1, <1>2, <2>1 DEF Dense, NextSlot, id
  <2>2. CASE d.created # {}
    <3>1. u.next = id + 1 /\ Known(u) = 0 .. id - 1 \cup {id}
      BY <1>1, <1>2, <2>2 DEF NextSlot, id
    <3> QED
      BY <1>1, <3>1 DEF Dense
  <2> QED
    BY <2>1, <2>2
<1>10. BirthsRise(u)
  <2>1. CASE d.created = {}
    BY <1>1, <1>2, <1>4, <2>1 DEF BirthsRise, Good
  <2>2. CASE d.created # {}
    BY <1>1, <1>2, <1>4, <1>5, <2>2 DEF BirthsRise, Good, BornBy
  <2> QED
    BY <2>1, <2>2
<1>11. \A P : P \subseteq Known(s) => Cost(u, P) = Cost(s, P)
  <2> SUFFICES ASSUME NEW P, P \subseteq Known(s) PROVE Cost(u, P) = Cost(s, P)
    OBVIOUS
  <2>1. IsFiniteSet(P)
    BY MemoryIsFinite DEF Good
  <2>2. P \subseteq Known(u) /\ \A x \in P : u.mem[x].tokens = s.mem[x].tokens
    BY <1>2, <1>4
  <2> QED
    BY <2>1, <2>2, CostCongruent
<1>12. ASSUME NEW k \in Known(u), u.mem[k].kind = "summary"
       PROVE  u.mem[k].tokens < Cost(u, u.mem[k].parents)
  <2>1. CASE k \in Known(s)
    <3>1. s.mem[k].tokens < Cost(s, s.mem[k].parents)
      BY <1>4, <1>12, <2>1 DEF Good, Lineage
    <3> QED
      BY <1>4, <1>8, <1>11, <2>1, <3>1
  <2>2. CASE k \notin Known(s)
    <3>1. d.created # {} /\ k = id
      BY <1>1, <1>2, <2>2
    <3>2. d.compressed \subseteq Known(s)
      BY <1>7
    <3> QED
      BY <1>5, <1>11, <3>1, <3>2
  <2> QED
    BY <2>1, <2>2
<1>13. u.edges = UNION {u.mem[k].parents \X {k} : k \in Known(u)}
  <2>1. \A k \in Known(s) : u.mem[k].parents = s.mem[k].parents
    BY <1>4
  <2>2. s.edges = UNION {s.mem[k].parents \X {k} : k \in Known(s)}
    BY DEF Good, Lineage
  <2>3. s.edges = UNION {u.mem[k].parents \X {k} : k \in Known(s)}
    BY <2>1, <2>2
  <2>4. CASE d.created = {}
    BY <1>1, <1>2, <1>7, <2>3, <2>4
  <2>5. CASE d.created # {}
    <3>1. Known(u) = Known(s) \cup {id} /\ u.edges = s.edges \cup (u.mem[id].parents \X {id})
      BY <1>1, <1>2, <1>5, <1>7, <2>5
    <3> DEFINE pairs(k) == u.mem[k].parents \X {k}
    <3> HIDE DEF pairs
    <3>2. UNION {pairs(k) : k \in Known(u)}
            = (UNION {pairs(k) : k \in Known(s)}) \cup pairs(id)
      <4>1. {pairs(k) : k \in Known(u)} = {pairs(k) : k \in Known(s)} \cup {pairs(id)}
        BY <3>1
      <4>2. ASSUME NEW A, NEW B PROVE UNION (A \cup {B}) = (UNION A) \cup B
        <5>1. \A e : e \in UNION (A \cup {B}) <=> e \in (UNION A) \cup B
          OBVIOUS
        <5> QED
          BY <5>1, Zenon
      <4> QED
        BY <4>1, <4>2
    <3> QED
      BY <2>3, <3>1, <3>2 DEF pairs
  <2> QED
    BY <2>4, <2>5
<1>14. ASSUME NEW x \in Known(s), x \notin d.compressed
       PROVE  StandsFor(u, x) = StandsFor(s, x)
  <2>1. \A k \in Known(s) : u.mem[k].parents = s.mem[k].parents
    BY <1>4
  <2>2. CASE d.created = {}
    BY <1>1, <1>2, <2>1, <2>2 DEF StandsFor
  <2>3. CASE d.created # {}
    BY <1>1, <1>2, <1>5, <1>14, <2>1, <2>3 DEF StandsFor
  <2> QED
    BY <2>2, <2>3
<1>15. ASSUME NEW x \in Known(u)
       PROVE  IF u.mem[x].status = "compressed"
              THEN \E k \in Known(u) : /\ StandsFor(u, x) = {k} /\ x < k
                                       /\ u.mem[k].birth = u.mem[x].retired
              ELSE StandsFor(u, x) = {}
  <2>1. CASE x \in d.compressed
    <3>1. d.created # {} /\ x \in Active(s) /\ x \in Known(s)
      BY <1>6, <1>7, <2>1
    <3>2. StandsFor(s, x) = {}
      BY <3>1 DEF Good, Lineage, Active
    <3>3. StandsFor(u, x) = {id}
      BY <1>1, <1>2, <1>4, <1>5, <2>1, <3>1, <3>2 DEF StandsFor
    <3>4. x < id /\ id \in Known(u) /\ u.mem[id].birth = c
      BY <1>1, <1>2, <1>5, <3>1
    <3> QED
      BY <1>4, <2>1, <3>1, <3>3, <3>4
  <2>2. CASE x \in d.evicted
    <3>1. x \in Active(s) /\ x \in Known(s) /\ x \notin d.compressed
      BY <1>7, <2>2 DEF SoundDecision
    <3>2. StandsFor(s, x) = {}
      BY <3>1 DEF Good, Lineage, Active
    <3> QED
      BY <1>4, <1>14, <2>2, <3>1, <3>2
  <2>3. CASE x \in Known(s) /\ x \notin Retirements(d)
    <3>1. u.mem[x] = s.mem[x] /\ StandsFor(u, x) = StandsFor(s, x)
      BY <1>4, <1>14, <2>3 DEF Retirements
    <3>2. CASE s.mem[x].status = "compressed"
      <4>1. PICK k \in Known(s) : /\ StandsFor(s, x) = {k} /\ x < k
                                  /\ s.mem[k].birth = s.mem[x].retired
        BY <2>3, <3>2 DEF Good, Lineage
      <4>2. k \in Known(u) /\ u.mem[k].birth = s.mem[k].birth
        BY <1>2, <1>4
      <4> QED
        BY <3>1, <3>2, <4>1, <4>2
    <3>3. CASE s.mem[x].status # "compressed"
      BY <2>3, <3>1, <3>3 DEF Good, Lineage
    <3> QED
      BY <3>2, <3>3
  <2>4. CASE x \notin Known(s)
    <3>1. d.created # {} /\ x = id
      BY <1>1, <1>2, <2>4
    <3>2. id \notin d.compressed /\ \A k \in Known(s) : id \notin u.mem[k].parents
      BY <1>1, <1>4, <1>7, <1>8
    <3>3. StandsFor(u, id) = {}
      BY <1>1, <1>2, <1>5, <3>1, <3>2 DEF StandsFor
    <3> QED
      BY <1>5, <3>1, <3>3
  <2> QED
    BY <2>1, <2>2, <2>3, <2>4 DEF Retirements
<1>16. Good(u)
  BY <1>3, <1>9, <1>10, <1>12, <1>13, <1>15 DEF Good, Lineage
<1> QED
  BY <1>16 DEF u

-----------------------------------------------------------------------------
(* Windows, and what a cycle makes of an arm.                              *)

Windowed(a, s) ==
  a \in {"FIFO", "SINK"} =>
    \A old \in Active(s), new \in Known(s) :
      (old < new /\ old \notin Protected(a) /\ ~ s.mem[old].pinned) => new \in Active(s)

\* Only the newest memory is born in cycle c.
OneNewborn(s, c) == \A x, y \in Known(s) : s.mem[x].birth = c => y <= x

(* A greedy prefix is closed under older memories.                         *)
LEMMA PrefixDownward ==
  ASSUME NEW s, IsMemoryState(s), NEW a \in {"FIFO", "SINK"}, NEW E \in SUBSET Known(s),
         NEW n \in Nat, NEW x \in E, NEW y \in Prefix(a, s, E, n), Older(s, x, y)
  PROVE  x \in Prefix(a, s, E, n)
<1>1. Prefix(a, s, E, n) = {z \in E : Cardinality(Ahead(s, E, z)) < n}
  <2>1. \A z \in E : {w \in E : Precedes(a, s, w, z)} = Ahead(s, E, z)
    BY OldestFirst DEF Ahead
  <2> QED
    BY <2>1 DEF Prefix
<1>2. y \in E /\ Cardinality(Ahead(s, E, y)) < n
  BY <1>1
<1>3. /\ Cardinality(Ahead(s, E, x)) < Cardinality(Ahead(s, E, y))
      /\ Cardinality(Ahead(s, E, x)) \in Nat /\ Cardinality(Ahead(s, E, y)) \in Nat
  BY <1>2, RanksRise
<1> QED
  BY <1>1, <1>2, <1>3

LEMMA GreedyDownward ==
  ASSUME NEW s, IsMemoryState(s), NEW a \in {"FIFO", "SINK"}, NEW E \in SUBSET Known(s),
         NEW tokens, NEW b, NEW x \in E, NEW y \in GreedyVictims(a, s, E, tokens, b),
         Older(s, x, y)
  PROVE  x \in GreedyVictims(a, s, E, tokens, b)
<1> DEFINE sizes == {n \in 0 .. Cardinality(E) :
                       tokens - Cost(s, Prefix(a, s, E, n)) <= b} \cup {Cardinality(E)}
           n == Min(sizes)
<1>1. Cardinality(E) \in Nat
  <2>1. IsFiniteSet(E)
    BY MemoryIsFinite
  <2> QED
    BY <2>1, FS_CardinalityType
<1>2. sizes \in SUBSET (0 .. Cardinality(E)) /\ sizes # {}
  BY <1>1
<1>3. n \in Nat
  <2> HIDE DEF sizes
  <2>1. n \in sizes
    BY <1>1, <1>2, MinIsLeast
  <2> HIDE DEF n
  <2>2. n \in 0 .. Cardinality(E)
    BY <1>2, <2>1
  <2> QED
    BY <1>1, <2>2
<1>4. GreedyVictims(a, s, E, tokens, b) = Prefix(a, s, E, n)
  BY DEF GreedyVictims
<1> HIDE DEF n, sizes
<1> QED
  BY <1>3, <1>4, PrefixDownward

LEMMA WindowKept ==
  ASSUME NEW s, Good(s), NEW a \in {"FIFO", "SINK"}, Windowed(a, s),
         NEW c \in Nat, OneNewborn(s, c), NEW b, NEW code
  PROVE  Windowed(a, Applied(s, OrderedDecision(a, s, b, c, code)))
<1> DEFINE E == Eligible(s, c, Protected(a))
           V == GreedyVictims(a, s, E, ActiveTokens(s), b)
           d == OrderedDecision(a, s, b, c, code)
           u == Applied(s, d)
<1>1. SoundDecision(s, d, c)
  BY OrderedSound
<1>2. d.evicted = V /\ d.compressed = {} /\ d.created = {}
  BY DEF OrderedDecision, Evict, BuildDecision, NoFold
<1> HIDE DEF d
<1>3. Retirements(d) = V /\ CreatedIds(d) = {}
  BY <1>2 DEF Retirements, CreatedIds
<1>4. Active(u) = Active(s) \ V
  <2>1. Active(u) = d.kept
    BY <1>1, SoundActive DEF Good
  <2> QED
    BY <1>1, <1>3, <2>1 DEF SoundDecision
<1>5. Known(u) = Known(s) /\ \A x \in Known(s) : u.mem[x] = After(s, d, x)
  <2>1. Shaped(s, d)
    BY <1>1, SoundShape DEF Good
  <2>2. Known(u) = Known(s) \cup CreatedIds(d) /\ \A x \in Known(s) : u.mem[x] = After(s, d, x)
    BY <2>1, AppliedShape
  <2> QED
    BY <1>3, <2>2
<1>6. E \in SUBSET Known(s) /\ V \subseteq E
  BY VictimsEligible DEF Eligible, Active
<1>7. ASSUME NEW old \in Active(u), NEW new \in Known(u), old < new,
             old \notin Protected(a), ~ u.mem[old].pinned
      PROVE  new \in Active(u)
  <2>1. old \in Active(s) /\ old \notin V /\ old \in Known(s) /\ new \in Known(s)
    BY <1>4, <1>5, <1>7 DEF Active
  <2>2. u.mem[old] = s.mem[old]
    BY <1>2, <1>5, <2>1 DEF After
  <2>3. new \in Active(s)
    BY <1>7, <2>1, <2>2 DEF Windowed
  <2>4. SUFFICES ASSUME new \in V PROVE FALSE
    BY <1>4, <2>3
  <2>5. old \in Nat /\ new \in Nat /\ s.mem[old].birth \in Nat /\ s.mem[new].birth \in Nat
    BY <2>1, MemoryIsFinite DEF Good, Memory
  <2>6. s.mem[old].birth # c
    BY <1>7, <2>1, <2>5 DEF OneNewborn
  <2>7. old \in E
    BY <1>7, <2>1, <2>2, <2>6 DEF Eligible
  <2>8. Older(s, old, new)
    BY <1>7, <2>1, <2>5 DEF Older, Good, BirthsRise
  <2> HIDE DEF E
  <2>9. old \in V
    BY <1>6, <2>4, <2>7, <2>8, GreedyDownward DEF Good
  <2> QED
    BY <2>1, <2>9
<1>8. Windowed(a, u)
  <2> HIDE DEF u
  <2> QED
    BY <1>7 DEF Windowed
<1> QED
  BY <1>8 DEF d

\* t is what cycle c has made of s so far: the memory of the cycle's experience,
\* and after it the summaries of memories s held.
Sequel(s, t, c) ==
  /\ s.next < t.next
  /\ \A x \in Known(s) : /\ t.mem[x].parents = s.mem[x].parents
                         /\ t.mem[x].birth = s.mem[x].birth
  /\ \A x \in Known(t) : s.next <= x =>
       /\ x \in Active(t) /\ t.mem[x].birth = c
       /\ x = s.next => t.mem[x].parents = {}
       /\ x # s.next => t.mem[x].kind = "summary" /\ t.mem[x].parents \subseteq Active(s)

LEMMA SequelApplied ==
  ASSUME NEW s, Good(s), NEW t, Good(t), Continues(s, t), NEW c \in Nat, BornBy(t, c),
         Sequel(s, t, c), NEW d, SoundDecision(t, d, c), IsMemoryState(Applied(t, d))
  PROVE  Sequel(s, Applied(t, d), c)
<1> DEFINE u == Applied(t, d)
           id == t.next
<1>1. /\ Shaped(t, d) /\ id \in Nat /\ Known(t) = 0 .. id - 1
      /\ d.created = {} => CreatedIds(d) = {}
      /\ d.created # {} => CreatedIds(d) = {id}
  BY SoundShape DEF Good, Dense
<1>2. /\ Known(u) = Known(t) \cup CreatedIds(d)
      /\ \A x \in Known(t) : u.mem[x] = After(t, d, x)
      /\ \A e \in d.created : u.mem[e.id] = e.memory
      /\ u.next = NextSlot(t, d)
  BY <1>1, AppliedShape
<1>3. Active(u) = (Active(t) \ Retirements(d)) \cup CreatedIds(d)
  BY SoundActive DEF Good, SoundDecision
<1>4. s.next \in Nat /\ s.next < id /\ Known(s) = 0 .. s.next - 1
      /\ u.next \in Nat /\ id <= u.next
  BY <1>1, <1>2 DEF Good, Dense, IsMemoryState, Sequel, NextSlot
<1> HIDE DEF u
<1>5. ASSUME NEW x \in Known(t)
      PROVE  /\ u.mem[x].parents = t.mem[x].parents /\ u.mem[x].birth = t.mem[x].birth
             /\ x \notin Retirements(d) => u.mem[x] = t.mem[x]
  <2>1. t.mem[x] \in Memory
    BY MemoryIsFinite DEF Good
  <2>2. u.mem[x] = After(t, d, x)
    BY <1>2
  <2> QED
    BY <2>1, <2>2 DEF After, Retire, Memory, Retirements
<1>6. \A x \in Retirements(d) : /\ x \in Active(t) /\ x \in Known(t)
                                /\ t.mem[x].birth # c
  BY DEF SoundDecision, Eligible, Active
<1>7. \A x \in Retirements(d) : x \in Active(s)
  <2> SUFFICES ASSUME NEW x \in Retirements(d) PROVE x \in Active(s)
    OBVIOUS
  <2>1. x \in Known(s)
    BY <1>1, <1>4, <1>6 DEF Sequel
  <2>2. x \in Known(s) \ Active(s) => t.mem[x] = s.mem[x]
    BY DEF Continues
  <2> QED
    BY <1>6, <2>1, <2>2 DEF Active
<1>8. \A x \in Known(s) : /\ x \in Known(t) /\ u.mem[x].parents = s.mem[x].parents
                          /\ u.mem[x].birth = s.mem[x].birth
  BY <1>1, <1>4, <1>5 DEF Sequel
<1>9. ASSUME NEW x \in Known(u), s.next <= x
      PROVE  /\ x \in Active(u) /\ u.mem[x].birth = c
             /\ x = s.next => u.mem[x].parents = {}
             /\ x # s.next => u.mem[x].kind = "summary" /\ u.mem[x].parents \subseteq Active(s)
  <2>1. CASE x \in Known(t)
    <3>1. x \notin Retirements(d)
      BY <1>6, <1>9, <2>1 DEF Sequel
    <3>2. u.mem[x] = t.mem[x] /\ x \in Active(t)
      BY <1>5, <1>9, <2>1, <3>1 DEF Sequel
    <3> QED
      BY <1>3, <1>9, <2>1, <3>1, <3>2 DEF Sequel
  <2>2. CASE x \notin Known(t)
    <3>1. d.created # {} /\ x = id
      BY <1>1, <1>2, <2>2
    <3>2. PICK m : d.created = {[id |-> id, memory |-> m]} /\ SummaryOf(t, d.compressed, c, m)
      BY <3>1 DEF SoundDecision
    <3> DEFINE e == [id |-> id, memory |-> m]
    <3>3. e \in d.created /\ e.id = id /\ e.memory = m
      BY <3>2
    <3> HIDE DEF e, id
    <3>4. u.mem[id] = m
      BY <1>2, <3>3
    <3>5. d.compressed \subseteq Active(s)
      BY <1>7 DEF Retirements
    <3> QED
      BY <1>1, <1>3, <1>4, <3>1, <3>2, <3>4, <3>5 DEF SummaryOf
  <2> QED
    BY <2>1, <2>2
<1>10. s.next < u.next
  BY <1>1, <1>4
<1>11. Sequel(s, u, c)
  BY <1>8, <1>9, <1>10 DEF Sequel
<1> QED
  BY <1>11 DEF u


-----------------------------------------------------------------------------
(* What a sound decision leaves for the rest of the cycle.                 *)

LEMMA SoundWellFormed ==
  ASSUME NEW s, IsMemoryState(s), NEW c \in Nat, NEW d, SoundDecision(s, d, c)
  PROVE  WellFormed(s, d, c) /\ Applicable(s, d)
<1>1. s.next \in Nat /\ d.compressed \subseteq Known(s) /\ d.cycle = c
  BY DEF IsMemoryState, SoundDecision, Retirements, Eligible, Active
<1>2. WellFormed(s, d, c)
  <2>1. CASE d.created = {}
    BY <1>1, <2>1 DEF WellFormed
  <2>2. CASE d.created # {}
    <3>1. PICK m : d.created = {[id |-> s.next, memory |-> m]} /\ SummaryOf(s, d.compressed, c, m)
      BY <2>2 DEF SoundDecision
    <3>2. m \in Memory /\ m.parents \subseteq Known(s) /\ Consistent(m) /\ m.birth <= c
      BY <1>1, <3>1 DEF SummaryOf
    <3> QED
      BY <1>1, <3>1, <3>2 DEF WellFormed
  <2> QED
    BY <2>1, <2>2
<1> QED
  BY <1>2, SoundApplicable

\* A plan still fits the memory that the rest of its decision was applied to.
LEMMA PlanCarried ==
  ASSUME NEW s, IsMemoryState(s), NEW c, NEW d, SoundDecision(s, d, c), d.plan # NoPlan
  PROVE  PlanFits(Applied(s, d), d.plan, c, Applied(s, d).next)
<1> DEFINE u == Applied(s, d)
           P == d.plan.sources
<1>1. PlanFits(s, d.plan, c, NextSlot(s, d)) /\ P \cap Retirements(d) = {}
  BY DEF SoundDecision
<1>2. /\ Known(u) = Known(s) \cup CreatedIds(d) /\ u.next = NextSlot(s, d)
      /\ \A x \in Known(s) : u.mem[x] = After(s, d, x)
  <2>1. Shaped(s, d)
    BY SoundShape
  <2> QED
    BY <2>1, AppliedShape
<1>3. Active(u) = (Active(s) \ Retirements(d)) \cup CreatedIds(d)
  BY SoundActive DEF SoundDecision
<1>4. P \subseteq Eligible(s, c, {}) /\ P \subseteq Active(s) /\ P \subseteq Known(s)
  BY <1>1 DEF PlanFits, Eligible, Active
<1> HIDE DEF u
<1>5. \A x \in P : x \in Known(u) /\ x \in Active(u) /\ u.mem[x] = s.mem[x]
  BY <1>1, <1>2, <1>3, <1>4 DEF After, Retirements
<1>6. P \subseteq Eligible(u, c, {})
  BY <1>4, <1>5 DEF Eligible
<1>7. Cost(u, P) = Cost(s, P)
  <2> HIDE DEF P
  <2>1. IsFiniteSet(P)
    BY <1>4, MemoryIsFinite
  <2> QED
    BY <1>4, <1>5, <2>1, CostCongruent
<1>8. PlanFits(u, d.plan, c, u.next)
  BY <1>1, <1>2, <1>6, <1>7 DEF PlanFits
<1> QED
  BY <1>8 DEF u

\* Only the summarising arm asks for a summary.
LEMMA OnlySummaryPlans ==
  ASSUME NEW s, NEW a, a # "SUMMARY", NEW b, NEW c, NEW fb, NEW d \in Rebalance(a, s, b, c, fb)
  PROVE  d.plan = NoPlan
<1>1. \A code, V : Evict(s, c, code, V).plan = NoPlan
  BY DEF Evict, BuildDecision
<1>2. \A e, code : OrderedDecision(e, s, b, c, code).plan = NoPlan
  BY <1>1 DEF OrderedDecision
<1>3. HeavyDecision(s, b, c).plan = NoPlan
  <2> DEFINE o == OrderedDecision("HEAVY", s, b, c, "EVICTED_LOWEST_RETENTION_DENSITY")
  <2>1. o.plan = NoPlan
    BY <1>2
  <2>2. DOMAIN o = {"code", "cycle", "compressed", "evicted", "created", "kept",
                    "edges", "tokens", "plan"}
    BY DEF OrderedDecision, Evict, BuildDecision
  <2>3. \/ HeavyDecision(s, b, c) = o
        \/ HeavyDecision(s, b, c) = [o EXCEPT !.code = "HEAVY_HITTER_RESERVE_BROKEN"]
    BY DEF HeavyDecision
  <2> HIDE DEF o
  <2> QED
    BY <2>1, <2>2, <2>3
<1>4. \A e \in RandomDecisions(s, b, c) : e.plan = NoPlan
  BY <1>1 DEF RandomDecisions
<1>5. BuildDecision(s, c, "RETAINED_ALL", {}, NoFold, ActiveTokens(s), NoPlan).plan = NoPlan
  BY DEF BuildDecision
<1> QED
  BY <1>1, <1>2, <1>3, <1>4, <1>5 DEF Rebalance

LEMMA WindowDecided ==
  ASSUME NEW s, Good(s), NEW a, Windowed(a, s), NEW c \in Nat, OneNewborn(s, c),
         NEW b, NEW fb, NEW d \in Rebalance(a, s, b, c, fb)
  PROVE  Windowed(a, Applied(s, d))
<1>1. CASE a = "FIFO"
  <2>1. d = OrderedDecision(a, s, b, c, "EVICTED_OLDEST")
    BY <1>1 DEF Rebalance
  <2> QED
    BY <1>1, <2>1, WindowKept
<1>2. CASE a = "SINK"
  <2>1. d = OrderedDecision(a, s, b, c, "EVICTED_OUTSIDE_WINDOW")
    BY <1>2 DEF Rebalance
  <2> QED
    BY <1>2, <2>1, WindowKept
<1>3. CASE a \notin {"FIFO", "SINK"}
  BY <1>3 DEF Windowed
<1> QED
  BY <1>1, <1>2, <1>3

-----------------------------------------------------------------------------
(* The inductive invariant: what Inv says, that both memory states have a  *)
(* sound lineage, that the cycle in progress works on a sequel of what the *)
(* arm holds, and that the summary awaited fits the memory it is for.      *)
PolicyInv ==
  /\ Inv
  /\ Good(committed) /\ Good(working)
  /\ Windowed(arm, committed) /\ Windowed(arm, working)
  /\ IF phase = "idle" THEN working = committed
     ELSE Sequel(committed, working, cycle + 1)
  /\ phase = "rebalance" => OneNewborn(working, cycle + 1)
  /\ phase = "dream" => arm = "SUMMARY" /\ PlanFits(working, plan, cycle + 1, working.next)
  /\ NoInternalRefusal

\* What one step makes of the memory the arm holds.
Advances ==
  committed' = committed \/ Sequel(committed, committed', cycle + 1)

LEMMA FailKeepsPolicy ==
  ASSUME PolicyInv, NEW reason \in {"unsatisfiable", "dreamer"}, Fail(reason),
         UNCHANGED <<arm, fallback, budget>>
  PROVE  PolicyInv' /\ Advances
<1>1. Inv'
  BY FailKeeps DEF PolicyInv
<1>2. /\ committed' = committed /\ working' = committed /\ cycle' = cycle
      /\ phase' = "idle" /\ arm' = arm /\ failure' # "internal"
  BY DEF Fail
<1> QED
  BY <1>1, <1>2 DEF PolicyInv, Advances, NoInternalRefusal

LEMMA ConcludeKeepsPolicy ==
  ASSUME PolicyInv, phase # "idle", NEW d, SoundDecision(working, d, cycle + 1),
         Windowed(arm, Applied(working, d)), d.plan # NoPlan => arm = "SUMMARY",
         Conclude(d), UNCHANGED <<arm, fallback, budget>>
  PROVE  PolicyInv' /\ Advances
<1> DEFINE s == Applied(working, d)
           now == cycle + 1
<1>1. /\ now \in Nat /\ Inv /\ Good(committed) /\ Good(working) /\ BornBy(working, now)
      /\ IsMemoryState(working) /\ Continues(committed, working)
      /\ Sequel(committed, working, now)
  BY DEF PolicyInv, Inv, TypeOK
<1>2. SoundDecision(working, d, now)
  OBVIOUS
<1> HIDE DEF now
<1>3. WellFormed(working, d, now) /\ Applicable(working, d)
  BY <1>1, <1>2, SoundWellFormed
<1>4. Inv'
  BY <1>1, <1>3, ConcludeKeeps DEF now
<1>5. CASE ~ WithinBudget(d, budget)
  BY <1>5, FailKeepsPolicy DEF Conclude
<1>6. CASE WithinBudget(d, budget)
  <2>1. IsMemoryState(s)
    BY <1>1, <1>3, AppliedKeeps
  <2>2. Good(s) /\ Sequel(committed, s, now)
    <3>1. Good(s)
      BY <1>1, <1>2, <2>1, AppliedGood
    <3>2. Sequel(committed, s, now)
      BY <1>1, <1>2, <2>1, SequelApplied
    <3> QED
      BY <3>1, <3>2
  <2>3. d.plan # NoPlan => PlanFits(s, d.plan, now, s.next)
    BY <1>1, <1>2, PlanCarried
  <2>4. Windowed(arm, s)
    OBVIOUS
  <2> HIDE DEF s
  <2>5. CASE d.plan = NoPlan
    <3>1. Commit(s)
      BY <1>3, <1>6, <2>5 DEF Conclude, s
    <3> QED
      BY <1>4, <2>2, <2>4, <3>1 DEF PolicyInv, Commit, NoInternalRefusal, Advances, now
  <2>6. CASE d.plan # NoPlan
    <3>1. Ask(s, d)
      BY <1>3, <1>6, <2>6 DEF Conclude, s
    <3> QED
      BY <1>4, <2>2, <2>3, <2>4, <2>6, <3>1 DEF PolicyInv, Ask, NoInternalRefusal, Advances, now
  <2> QED
    BY <2>5, <2>6
<1> QED
  BY <1>5, <1>6

(* The cycle's experience: citations are recorded, and a memory is born.   *)
LEMMA ExperienceSequel ==
  ASSUME NEW s, Good(s), NEW k \in Nat, BornBy(s, k), NEW counted,
         NEW m, m.parents = {}, m.birth = k + 1, m.kind # "summary", m.status = "active",
         NEW r, r = RecordCycleCitations(s, counted, k + 1),
         NEW t, t = Admit(r, r.next, m), IsMemoryState(t), NEW a, Windowed(a, s)
  PROVE  /\ Good(t) /\ Sequel(s, t, k + 1) /\ OneNewborn(t, k + 1) /\ Windowed(a, t)
<1> DEFINE now == k + 1
           id == s.next
<1>1. now \in Nat /\ BornBy(s, now)
  BY BornLater DEF Good
<1>2. Alike(s, r) /\ IsMemoryState(r) /\ BornBy(r, now)
  <2>1. IsMemoryState(s) /\ r = RecordCycleCitations(s, counted, now)
    BY DEF Good
  <2> HIDE DEF now
  <2> QED
    BY <1>1, <2>1, RecordAlike, RecordKeeps
<1>3. Good(r) /\ Active(r) = Active(s)
  BY <1>2, AlikeGood
<1>4. /\ Known(r) = Known(s) /\ r.next = id
      /\ \A x \in Known(s) : Same(s.mem[x], r.mem[x])
  BY <1>2 DEF Alike
<1>5. id \in Nat /\ Known(s) = 0 .. id - 1 /\ id \notin Known(r)
  BY <1>4 DEF Good, Dense, IsMemoryState
<1>6. /\ Known(t) = Known(s) \cup {id} /\ t.next = id + 1 /\ t.mem[id] = m
      /\ \A x \in Known(s) : t.mem[x] = r.mem[x]
  <2>1. r.next \notin Known(r)
    BY <1>4, <1>5
  <2> QED
    BY <1>4, <2>1, AdmitShape
<1>7. \A x \in Known(s) : Same(s.mem[x], t.mem[x])
  BY <1>4, <1>6
<1>8. Good(t)
  <2>1. m.birth = now
    OBVIOUS
  <2> HIDE DEF now
  <2> QED
    BY <1>2, <1>3, <2>1, AdmitGood
<1>9. Active(t) = Active(s) \cup {id}
  BY <1>5, <1>6, <1>7 DEF Active, Same
<1>10. \A x \in Known(s) : s.mem[x].birth \in Nat /\ s.mem[x].birth <= k
  BY MemoryIsFinite DEF BornBy, Good, Memory
<1>11. Sequel(s, t, now)
  BY <1>5, <1>6, <1>7, <1>9 DEF Sequel, Same
<1>12. OneNewborn(t, now)
  BY <1>5, <1>6, <1>7, <1>10 DEF OneNewborn, Same
<1>13. Windowed(a, t)
  <2> SUFFICES ASSUME a \in {"FIFO", "SINK"}, NEW old \in Active(t), NEW new \in Known(s),
                      old < new, old \notin Protected(a), ~ t.mem[old].pinned
               PROVE  new \in Active(t)
    BY <1>6, <1>9 DEF Windowed
  <2>1. old \in Active(s) /\ ~ s.mem[old].pinned
    BY <1>5, <1>7, <1>9 DEF Active, Same
  <2>2. new \in Active(s)
    BY <2>1 DEF Windowed
  <2> QED
    BY <1>9, <2>2
<1> QED
  BY <1>8, <1>11, <1>12, <1>13

LEMMA ExperienceKeepsPolicy ==
  ASSUME PolicyInv, NEW claims, NEW tokens \in CandidateTokens, Experience(claims, tokens)
  PROVE  PolicyInv' /\ Advances
<1> DEFINE counted == Counted(committed, claims)
           r == RecordCycleCitations(committed, counted, cycle + 1)
           m == Minted("generated", tokens, cycle + 1, {}, FALSE)
           t == Admit(r, r.next, m)
<1>1. Inv'
  BY ExperienceKeeps DEF PolicyInv
<1>2. working' = t /\ IsMemoryState(t)
  BY <1>1 DEF Experience, Inv, TypeOK
<1>3. m.parents = {} /\ m.birth = cycle + 1 /\ m.kind # "summary" /\ m.status = "active"
  BY DEF Minted
<1>4. /\ Good(committed) /\ cycle \in Nat /\ BornBy(committed, cycle)
      /\ Windowed(arm, committed)
  BY DEF PolicyInv, Inv, TypeOK
<1> DEFINE now == cycle + 1
<1>5. Good(t) /\ Sequel(committed, t, now) /\ OneNewborn(t, now) /\ Windowed(arm, t)
  <2> HIDE DEF m
  <2>1. /\ r = RecordCycleCitations(committed, counted, cycle + 1)
        /\ t = Admit(r, r.next, m)
    OBVIOUS
  <2> HIDE DEF t, r, counted
  <2> QED
    BY <1>2, <1>3, <1>4, <2>1, ExperienceSequel
<1> HIDE DEF t
<1>6. /\ committed' = committed /\ cycle' = cycle /\ arm' = arm
      /\ phase' = "rebalance" /\ failure' = "none"
  BY DEF Experience
<1> QED
  BY <1>1, <1>2, <1>4, <1>5, <1>6 DEF PolicyInv, NoInternalRefusal, Advances, now

LEMMA DecideKeepsPolicy ==
  ASSUME PolicyInv, Decide
  PROVE  PolicyInv' /\ Advances
<1> DEFINE now == cycle + 1
<1>1. /\ now \in Nat /\ Good(working) /\ IsMemoryState(working) /\ Windowed(arm, working)
      /\ OneNewborn(working, now) /\ phase # "idle" /\ budget \in Int
  BY ArmAssumption DEF PolicyInv, Inv, TypeOK, Decide
<1>2. PICK d \in Rebalance(arm, working, budget, now, fallback) : Conclude(d)
  BY DEF Decide
<1> HIDE DEF now
<1>3. SoundDecision(working, d, now)
  BY <1>1, <1>2, RebalanceSound
<1>4. Windowed(arm, Applied(working, d))
  BY <1>1, <1>2, WindowDecided
<1>5. d.plan # NoPlan => arm = "SUMMARY"
  BY <1>2, OnlySummaryPlans
<1>6. SoundDecision(working, d, cycle + 1) /\ UNCHANGED <<arm, fallback, budget>>
  BY <1>3 DEF now, Decide
<1> QED
  BY <1>1, <1>2, <1>4, <1>5, <1>6, ConcludeKeepsPolicy

\* The summary the model wrote, and the decision that it is followed by.
LEMMA SummaryIsWritten ==
  ASSUME PolicyInv, NEW tokens \in 1 .. SummaryLimit, WriteSummary(tokens)
  PROVE  \E m : /\ SummaryOf(working, plan.sources, cycle + 1, m) /\ m.tokens <= plan.limit
                /\ Conclude(FinalizeCompression(working, budget, cycle + 1, plan,
                                                working.next, m, fallback))
                /\ UNCHANGED <<arm, fallback, budget>>
<1> DEFINE now == cycle + 1
           m == Minted("summary", tokens, now, plan.sources, FALSE)
           d == FinalizeCompression(working, budget, now, plan, working.next, m, fallback)
<1>1. /\ now \in Nat /\ Good(working) /\ IsMemoryState(working)
      /\ PlanFits(working, plan, now, working.next)
  BY DEF PolicyInv, Inv, TypeOK, WriteSummary
<1>2. /\ plan.sources \in SUBSET Nat /\ plan.sources \subseteq Active(working)
      /\ plan.sources \subseteq Known(working)
      /\ Cardinality(plan.sources) >= MinSummarySources
  BY <1>1 DEF PlanFits, Eligible, Active, IsMemoryState
<1>3. tokens \in Nat \ {0} /\ tokens <= SummaryLimit /\ SummaryLimit \in Nat
  BY PolicyAssumption
<1>4. /\ m.kind = "summary" /\ m.tokens = tokens /\ m.birth = now /\ m.status = "active"
      /\ ~ m.pinned /\ m.parents = plan.sources /\ m.cited = Never
  BY DEF Minted
<1>5. m \in Memory /\ Consistent(m)
  <2> HIDE DEF now
  <2> QED
    BY <1>1, <1>2, <1>3, SummaryIsMemory
<1> HIDE DEF m
<1>6. tokens < Cost(working, plan.sources)
  <2>1. Cost(working, plan.sources) \in Nat
    BY <1>1, <1>2, CostFacts
  <2> QED
    BY <1>1, <1>3, <2>1 DEF PlanFits
<1>7. SummaryOf(working, plan.sources, now, m)
  BY <1>4, <1>5, <1>6 DEF SummaryOf
<1>8. SummaryAccepted(working, plan, working.next, m)
  BY <1>1, <1>2, <1>3, <1>4 DEF SummaryAccepted, PlanFits
<1>9. Conclude(d) /\ UNCHANGED <<arm, fallback, budget>>
  BY <1>8 DEF WriteSummary, m
<1>10. m.tokens <= plan.limit
  BY <1>1, <1>3, <1>4 DEF PlanFits
<1> QED
  BY <1>7, <1>9, <1>10 DEF now

LEMMA WriteSummaryKeepsPolicy ==
  ASSUME PolicyInv, NEW tokens \in 1 .. SummaryLimit, WriteSummary(tokens)
  PROVE  PolicyInv' /\ Advances
<1> DEFINE now == cycle + 1
           final(m) == FinalizeCompression(working, budget, now, plan, working.next, m, fallback)
<1>1. /\ now \in Nat /\ Good(working) /\ IsMemoryState(working) /\ arm = "SUMMARY"
      /\ PlanFits(working, plan, now, working.next) /\ phase # "idle" /\ budget \in Int
  BY ArmAssumption DEF PolicyInv, Inv, TypeOK, WriteSummary
<1>2. PICK m : /\ SummaryOf(working, plan.sources, now, m) /\ Conclude(final(m))
               /\ UNCHANGED <<arm, fallback, budget>>
  BY SummaryIsWritten
<1> HIDE DEF now
<1>3. SoundDecision(working, final(m), now)
  BY <1>1, <1>2, FinalizeSound
<1>4. SoundDecision(working, final(m), cycle + 1)
  BY <1>3 DEF now
<1> HIDE DEF final
<1>5. Windowed(arm, Applied(working, final(m)))
  BY <1>1 DEF Windowed
<1> QED
  BY <1>1, <1>2, <1>4, <1>5, ConcludeKeepsPolicy

LEMMA SeededIsGood == Good(Seeded) /\ \A a : Windowed(a, Seeded)
<1> DEFINE n == Len(SeedTokens)
<1>1. n \in Nat
  BY ArmAssumption
<1>2. /\ Known(Seeded) = 0 .. n - 1 /\ Seeded.next = n /\ Seeded.edges = {}
      /\ \A x \in Known(Seeded) : /\ Seeded.mem[x].kind = "seed" /\ Seeded.mem[x].birth = 0
                                  /\ Seeded.mem[x].parents = {}
                                  /\ Seeded.mem[x].status = "active"
  BY DEF Seeded, MemoryState, Known, SeedIds, Minted, n
<1> HIDE DEF n
<1>3. Active(Seeded) = Known(Seeded)
  BY <1>2 DEF Active
<1>4. Lineage(Seeded)
  <2>1. \A x \in Known(Seeded) : StandsFor(Seeded, x) = {}
    BY <1>2 DEF StandsFor
  <2>2. UNION {Seeded.mem[k].parents \X {k} : k \in Known(Seeded)} = {}
    BY <1>2
  <2> QED
    BY <1>2, <2>1, <2>2 DEF Lineage
<1>5. Dense(Seeded) /\ BirthsRise(Seeded)
  BY <1>2 DEF Dense, BirthsRise
<1> QED
  BY <1>3, <1>4, <1>5, SeededIsMemoryState DEF Good, Windowed

LEMMA InitEstablishesPolicy == Init => PolicyInv
<1> SUFFICES ASSUME Init PROVE PolicyInv
  OBVIOUS
<1>1. /\ committed = Seeded /\ working = Seeded /\ phase = "idle" /\ failure = "none"
  BY DEF Init
<1> QED
  BY <1>1, InitEstablishes, SeededIsGood DEF PolicyInv, NoInternalRefusal

LEMMA StepKeepsPolicy ==
  ASSUME PolicyInv, [Next]_vars
  PROVE  PolicyInv' /\ Advances
<1>1. CASE \E claims \in SUBSET Known(committed), tokens \in CandidateTokens :
             Cardinality(claims) <= MaxClaims /\ Experience(claims, tokens)
  BY <1>1, ExperienceKeepsPolicy
<1>2. CASE Decide
  BY <1>2, DecideKeepsPolicy
<1>3. CASE \E tokens \in 1 .. SummaryLimit : WriteSummary(tokens)
  BY <1>3, WriteSummaryKeepsPolicy
<1>4. CASE DreamerFails
  BY <1>4, FailKeepsPolicy DEF DreamerFails
<1>5. CASE Tighten
  <2>1. Inv'
    BY <1>5, StepKeeps DEF PolicyInv
  <2> QED
    BY <1>5, <2>1 DEF PolicyInv, Tighten, NoInternalRefusal, Advances
<1>6. CASE UNCHANGED vars
  <2>1. Inv'
    BY <1>6, StepKeeps DEF PolicyInv
  <2> QED
    BY <1>6, <2>1 DEF PolicyInv, vars, NoInternalRefusal, Advances
<1> QED
  BY <1>1, <1>2, <1>3, <1>4, <1>5, <1>6 DEF Next

LEMMA PolicySafety == Spec => []PolicyInv
<1>1. PolicyInv /\ [Next]_vars => PolicyInv'
  BY StepKeepsPolicy
<1> QED
  BY <1>1, InitEstablishesPolicy, PTL DEF Spec

-----------------------------------------------------------------------------

\* No policy, whatever the memories cost and however long the run, makes a
\* decision that PolicyDecision or MemoryState.apply refuses, and no summary
\* within its ceiling is refused: the checks of engine.py catch nothing.
THEOREM NothingRefused == Spec => []NoInternalRefusal
<1>1. PolicyInv => NoInternalRefusal
  BY DEF PolicyInv
<1> QED
  BY <1>1, PolicySafety, PTL

\* What an oldest-first arm holds is its newest memories without a gap, after
\* any number of cycles: FifoPolicy and PinnedOriginPolicy.
THEOREM WindowStaysContiguous == Spec => []WindowIsContiguous
<1>1. PolicyInv => WindowIsContiguous
  BY DEF PolicyInv, Windowed, WindowIsContiguous
<1> QED
  BY <1>1, PolicySafety, PTL

\* Compressed memories can be followed to the one summary that replaced them,
\* born in the cycle that retired them and cheaper than they were together:
\* SummaryDreamPolicy, finalize_compression and MemoryState.apply.
THEOREM LineageStaysSound == Spec => []LineageIsSound
<1>1. PolicyInv => LineageIsSound
  BY DEF PolicyInv, Good, Lineage, StandsFor, LineageIsSound
<1> QED
  BY <1>1, PolicySafety, PTL

-----------------------------------------------------------------------------
(* ArmMemory implements MemoryLife: whichever policy governs an arm, what  *)
(* a cycle commits is one step of the life every memory is promised.       *)

Lost(s)       == {m \in Known(s) : s.mem[m].status = "evicted"}
Compressed(s) == {m \in Known(s) : s.mem[m].status = "compressed"}
Folded(s)     == [m \in Compressed(s) |-> CHOOSE k \in Known(s) : <<m, k>> \in s.edges]

\* The lineage edges name the one summary that stands for a compressed memory.
LEMMA FoldedInSummary ==
  ASSUME NEW s, Good(s), NEW m \in Compressed(s)
  PROVE  StandsFor(s, m) = {Folded(s)[m]}
<1>1. PICK k \in Known(s) : StandsFor(s, m) = {k}
  BY DEF Good, Lineage, Compressed
<1>2. ASSUME NEW j \in Known(s) PROVE <<m, j>> \in s.edges <=> j \in StandsFor(s, m)
  <2>1. s.edges = UNION {s.mem[i].parents \X {i} : i \in Known(s)}
    BY DEF Good, Lineage
  <2> QED
    BY <2>1 DEF StandsFor
<1>3. (CHOOSE j \in Known(s) : <<m, j>> \in s.edges) = k
  BY <1>1, <1>2
<1> QED
  BY <1>1, <1>3 DEF Folded

LEMMA FoldedMeaning ==
  ASSUME NEW s, Good(s), NEW m \in Compressed(s), NEW k \in Known(s)
  PROVE  /\ Folded(s)[m] \in Known(s)
         /\ Folded(s)[m] = k <=> m \in s.mem[k].parents
<1>1. StandsFor(s, m) = {Folded(s)[m]}
  BY FoldedInSummary
<1> QED
  BY <1>1 DEF StandsFor

\* s and the sequel t that a whole cycle made of it.
Step(s, t, c) == Good(s) /\ Good(t) /\ Continues(s, t) /\ Sequel(s, t, c)

LEMMA StepShape ==
  ASSUME NEW s, NEW t, NEW c, Step(s, t, c)
  PROVE  /\ s.next \in Nat /\ t.next \in Nat /\ s.next < t.next
         /\ Known(s) = 0 .. s.next - 1 /\ Known(t) = 0 .. t.next - 1
         /\ s.next .. t.next - 1 \subseteq Active(t)
         /\ \A x \in Known(t) : x \notin Active(t) => x \in Known(s)
         /\ \A x \in Known(s) \ Active(s) : x \in Known(t) /\ t.mem[x] = s.mem[x]
         /\ Active(s) \subseteq Known(s) /\ Active(t) \subseteq Known(t)
<1>1. /\ s.next \in Nat /\ t.next \in Nat /\ s.next < t.next
      /\ Known(s) = 0 .. s.next - 1 /\ Known(t) = 0 .. t.next - 1
  BY DEF Step, Good, Dense, IsMemoryState, Sequel
<1>2. \A x \in s.next .. t.next - 1 : x \in Known(t) /\ s.next <= x
  BY <1>1
<1>3. s.next .. t.next - 1 \subseteq Active(t)
  BY <1>2 DEF Step, Sequel
<1>4. \A x \in Known(t) : x \notin Active(t) => x \in Known(s)
  BY <1>1 DEF Step, Sequel
<1> QED
  BY <1>1, <1>3, <1>4 DEF Step, Continues, Active

LEMMA LiveStep ==
  ASSUME NEW s, NEW t, NEW c, Step(s, t, c)
  PROVE  /\ Active(t) = (Active(s) \ (Active(s) \ Active(t))) \cup s.next .. t.next - 1
         /\ Compressed(s) \subseteq Compressed(t)
         /\ Compressed(t) \ Compressed(s) \subseteq Active(s) \ Active(t)
         /\ Lost(t) = Lost(s) \cup ((Active(s) \ Active(t)) \ (Compressed(t) \ Compressed(s)))
<1>1. Active(t) \subseteq Active(s) \cup s.next .. t.next - 1
  <2> SUFFICES ASSUME NEW x \in Active(t), x \in Known(s), x \notin Active(s) PROVE FALSE
    BY StepShape
  <2>1. t.mem[x] = s.mem[x]
    BY StepShape
  <2> QED
    BY <2>1 DEF Active
<1>2. Compressed(s) \subseteq Compressed(t) /\ Lost(s) \subseteq Lost(t)
  BY StepShape DEF Compressed, Lost, Active
<1>3. Compressed(t) \ Compressed(s) \subseteq Active(s) \ Active(t)
  BY StepShape DEF Compressed, Active
<1>4. Lost(t) \ Lost(s) \subseteq (Active(s) \ Active(t)) \ (Compressed(t) \ Compressed(s))
  BY StepShape DEF Compressed, Lost, Active
<1>5. (Active(s) \ Active(t)) \ (Compressed(t) \ Compressed(s)) \subseteq Lost(t)
  <2> SUFFICES ASSUME NEW x \in Active(s), x \notin Active(t), x \notin Compressed(t) \ Compressed(s)
               PROVE  x \in Lost(t)
    OBVIOUS
  <2>1. x \in Known(t) /\ t.mem[x] \in Memory /\ t.mem[x].status # "active"
    <3>1. x \in 0 .. s.next - 1 /\ s.next \in Nat /\ t.next \in Nat /\ s.next < t.next
      BY StepShape
    <3>2. x \in 0 .. t.next - 1
      BY <3>1
    <3>3. x \in Known(t)
      BY <3>2, StepShape
    <3>4. t.mem \in [Known(t) -> Memory]
      BY DEF Step, Good, IsMemoryState
    <3> QED
      BY <3>3, <3>4 DEF Active
  <2>2. x \notin Compressed(s)
    BY DEF Active, Compressed
  <2> QED
    BY <2>1, <2>2 DEF Compressed, Lost, Memory
<1> QED
  BY <1>1, <1>2, <1>3, <1>4, <1>5, StepShape

LEMMA FoldedStep ==
  ASSUME NEW s, NEW t, NEW c, Step(s, t, c)
  PROVE  LET compressed == Compressed(t) \ Compressed(s)
             summaries == s.next + 1 .. t.next - 1
         IN /\ \A m \in Compressed(s) : Folded(t)[m] = Folded(s)[m]
            /\ \A m \in compressed : Folded(t)[m] \in summaries
            /\ \A k \in summaries : {m \in compressed : Folded(t)[m] = k} = t.mem[k].parents
<1> DEFINE compressed == Compressed(t) \ Compressed(s)
           summaries == s.next + 1 .. t.next - 1
<1>1. Good(s) /\ Good(t) /\ Compressed(s) \subseteq Compressed(t)
  BY LiveStep DEF Step
<1>2. /\ Known(s) \subseteq Known(t)
      /\ \A k \in Known(s) : t.mem[k].parents = s.mem[k].parents
  BY DEF Step, Sequel, Continues
<1>3. ASSUME NEW m \in Compressed(s) PROVE Folded(t)[m] = Folded(s)[m]
  <2> DEFINE k == Folded(s)[m]
  <2>1. StandsFor(s, m) = {k}
    BY <1>1, FoldedInSummary
  <2>2. k \in Known(s) /\ m \in s.mem[k].parents
    BY <2>1 DEF StandsFor
  <2> HIDE DEF k
  <2>3. k \in Known(t) /\ m \in t.mem[k].parents /\ m \in Compressed(t)
    BY <1>1, <1>2, <2>2
  <2>4. Folded(t)[m] = k
    BY <1>1, <2>3, FoldedMeaning
  <2> QED
    BY <2>4 DEF k
<1>4. ASSUME NEW m \in compressed PROVE Folded(t)[m] \in summaries
  <2> DEFINE k == Folded(t)[m]
  <2>1. StandsFor(t, m) = {k}
    BY <1>1, FoldedInSummary
  <2>2. k \in Known(t) /\ m \in t.mem[k].parents
    BY <2>1 DEF StandsFor
  <2>3. m \in Known(s) /\ m \notin Compressed(s)
    BY LiveStep, StepShape
  <2> HIDE DEF k
  <2>4. k \notin Known(s)
    <3>1. StandsFor(s, m) = {}
      BY <1>1, <2>3 DEF Good, Lineage, Compressed
    <3> QED
      BY <1>2, <2>2, <3>1 DEF StandsFor
  <2>5. k # s.next
    <3>1. s.next <= k => (k = s.next => t.mem[k].parents = {})
      BY <2>2 DEF Step, Sequel
    <3>2. s.next <= s.next
      BY StepShape
    <3> QED
      BY <2>2, <3>1, <3>2
  <2>6. k \in summaries
    BY <2>2, <2>4, <2>5, StepShape
  <2> QED
    BY <2>6 DEF k
<1>5. ASSUME NEW k \in summaries
      PROVE  {m \in compressed : Folded(t)[m] = k} = t.mem[k].parents
  <2>1. k \in Known(t) /\ s.next <= k /\ k # s.next
    BY StepShape
  <2>2. t.mem[k].parents \subseteq Active(s)
    BY <2>1 DEF Step, Sequel
  <2>3. \A m \in t.mem[k].parents : m \in compressed
    <3> SUFFICES ASSUME NEW m \in t.mem[k].parents PROVE m \in compressed
      OBVIOUS
    <3>1. k \in StandsFor(t, m) /\ m \in Known(t)
      BY <1>1, <2>1 DEF StandsFor, Good, IsMemoryState
    <3>2. t.mem[m].status = "compressed"
      BY <1>1, <3>1 DEF Good, Lineage
    <3>3. m \notin Compressed(s)
      BY <2>2 DEF Compressed, Active
    <3> QED
      BY <3>1, <3>2, <3>3 DEF Compressed
  <2>4. \A m \in compressed : Folded(t)[m] = k <=> m \in t.mem[k].parents
    BY <1>1, <2>1, FoldedMeaning
  <2> QED
    BY <2>3, <2>4
<1> QED
  BY <1>3, <1>4, <1>5

\* Each summary of the cycle replaces at least two memories.
LEMMA SummariesReplaceTwo ==
  ASSUME NEW s, NEW t, NEW c, Step(s, t, c), NEW k \in s.next + 1 .. t.next - 1
  PROVE  Cardinality(t.mem[k].parents) >= 2
<1>1. k \in Known(t) /\ s.next <= k /\ k # s.next
  BY StepShape
<1>2. t.mem[k].kind = "summary" /\ Consistent(t.mem[k])
  BY <1>1 DEF Step, Sequel, Good, IsMemoryState
<1> QED
  BY <1>2 DEF Consistent, MinSummarySources

\* The same, in the words of MemoryLife: f and g say what stands for what
\* before and after the cycle.
LivesOn(s, t, f, g, left, compressed, summaries) ==
  /\ t.next > s.next
  /\ Active(t) = (Active(s) \ left) \cup s.next .. t.next - 1
  /\ compressed \subseteq left
  /\ g = [m \in DOMAIN f \cup compressed |-> IF m \in compressed THEN g[m] ELSE f[m]]
  /\ \A m \in compressed : g[m] \in summaries
  /\ \A k \in summaries : Cardinality({m \in compressed : g[m] = k}) >= 2
  /\ Lost(t) = Lost(s) \cup (left \ compressed)

LEMMA CycleStep ==
  ASSUME NEW s, NEW t, NEW c, Step(s, t, c), NEW f, f = Folded(s), NEW g, g = Folded(t),
         NEW left, left = Active(s) \ Active(t),
         NEW compressed, compressed = DOMAIN g \ DOMAIN f,
         NEW summaries, summaries = s.next + 1 .. t.next - 1
  PROVE  LivesOn(s, t, f, g, left, compressed, summaries)
<1>1. t.next > s.next
  BY StepShape
<1>2. DOMAIN f = Compressed(s) /\ DOMAIN g = Compressed(t)
  BY DEF Folded
<1>3. /\ Active(t) = (Active(s) \ left) \cup s.next .. t.next - 1
      /\ compressed \subseteq left
      /\ Lost(t) = Lost(s) \cup (left \ compressed)
      /\ DOMAIN g = DOMAIN f \cup compressed
  BY <1>2, LiveStep
<1>4. /\ \A m \in DOMAIN f : g[m] = f[m]
      /\ \A m \in compressed : g[m] \in summaries
      /\ \A k \in summaries : {m \in compressed : g[m] = k} = t.mem[k].parents
  <2>1. compressed = Compressed(t) \ Compressed(s)
    BY <1>2
  <2> QED
    BY <1>2, <2>1, FoldedStep
<1>5. \A k \in summaries : Cardinality({m \in compressed : g[m] = k}) >= 2
  <2> SUFFICES ASSUME NEW k \in summaries
               PROVE  Cardinality({m \in compressed : g[m] = k}) >= 2
    OBVIOUS
  <2>1. Cardinality(t.mem[k].parents) >= 2
    BY SummariesReplaceTwo
  <2>2. {m \in compressed : g[m] = k} = t.mem[k].parents
    BY <1>4
  <2> QED
    BY <2>1, <2>2
<1>6. g = [m \in DOMAIN f \cup compressed |-> IF m \in compressed THEN g[m] ELSE f[m]]
  <2>1. g = [m \in DOMAIN g |-> g[m]]
    <3> DEFINE first(m) == CHOOSE k \in Known(t) : <<m, k>> \in t.edges
    <3>1. g = [m \in Compressed(t) |-> first(m)]
      BY DEF Folded
    <3> HIDE DEF first
    <3> QED
      BY <3>1
  <2>2. \A m \in DOMAIN g : g[m] = IF m \in compressed THEN g[m] ELSE f[m]
    BY <1>3, <1>4
  <2>3. DOMAIN g = DOMAIN f \cup compressed
    BY <1>3
  <2> QED
    BY ONLY <2>1, <2>2, <2>3
<1> QED
  BY <1>1, <1>3, <1>4, <1>5, <1>6 DEF LivesOn

LEMMA SameCardinality == \A S : Life!Cardinality(S) = Cardinality(S)
BY DEF Life!Cardinality, Cardinality

LEMMA LifeStep ==
  ASSUME PolicyInv, [Next]_vars
  PROVE  Life!Cycle \/ UNCHANGED Life!vars
<1>1. /\ FoldedInto = Folded(committed) /\ FoldedInto' = Folded(committed')
      /\ DOMAIN FoldedInto = Compressed(committed)
      /\ DOMAIN FoldedInto' = Compressed(committed')
  BY DEF FoldedInto, Folded, Compressed
<1>2. CASE committed' = committed
  <2>1. UNCHANGED <<committed.next, Active(committed), Lost(committed), Folded(committed)>>
    BY <1>2
  <2> QED
    BY <1>1, <2>1 DEF Life!vars, Lost
<1>3. CASE committed' # committed
  <2>1. PolicyInv' /\ Sequel(committed, committed', cycle + 1)
    BY <1>3, StepKeepsPolicy DEF Advances
  <2>2. Continues(committed, committed')
    BY <1>3, StepKeeps DEF PolicyInv, Safe, vars
  <2>3. Step(committed, committed', cycle + 1)
    BY <2>1, <2>2 DEF PolicyInv, Step
  <2> DEFINE s == committed
             t == committed'
             f == FoldedInto
             g == FoldedInto'
             left == Active(s) \ Active(t)
             compressed == DOMAIN g \ DOMAIN f
             summaries == s.next + 1 .. t.next - 1
  <2>4. Step(s, t, cycle + 1) /\ f = Folded(s) /\ g = Folded(t)
    BY <1>1, <2>3
  <2> HIDE DEF s, t, f, g
  <2>5. LivesOn(s, t, f, g, left, compressed, summaries)
    <3>1. /\ left = Active(s) \ Active(t) /\ compressed = DOMAIN g \ DOMAIN f
          /\ summaries = s.next + 1 .. t.next - 1
      OBVIOUS
    <3> HIDE DEF left, compressed, summaries
    <3> QED
      BY <2>4, <3>1, CycleStep
  <2>6. Life!Cycle
    BY <2>5, SameCardinality DEF LivesOn, Life!Cycle, Lost, s, t, f, g
  <2> QED
    BY <2>6
<1> QED
  BY <1>2, <1>3

LEMMA LifeInit == Init => Life!Init
<1> SUFFICES ASSUME Init PROVE Life!Init
  OBVIOUS
<1>1. committed = Seeded
  BY DEF Init
<1>2. /\ Known(Seeded) = 0 .. Len(SeedTokens) - 1 /\ Seeded.next = Len(SeedTokens)
      /\ \A x \in Known(Seeded) : Seeded.mem[x].status = "active"
  BY DEF Seeded, MemoryState, Known, SeedIds, Minted
<1>3. /\ Active(Seeded) = 0 .. Len(SeedTokens) - 1
      /\ Lost(Seeded) = {} /\ Compressed(Seeded) = {}
  BY <1>2 DEF Active, Lost, Compressed
<1>4. FoldedInto = [m \in {} |-> 0]
  BY <1>1, <1>3 DEF FoldedInto, Compressed
<1> QED
  BY <1>1, <1>2, <1>3, <1>4 DEF Life!Init, Lost

\* Whatever the policy, an arm's memory lives the life MemoryLife describes:
\* every experience survives the cycle it is born in, what leaves is lost or
\* folded into one summary of the same cycle, a summary replaces two memories
\* or more, and nothing comes back: PilotEngine's cycle as a whole.
THEOREM LifeIsImplemented == Spec => ImplementsMemoryLife
<1>1. PolicyInv /\ [Next]_vars => [Life!Cycle]_(Life!vars)
  BY LifeStep
<1> QED
  BY <1>1, LifeInit, PolicySafety, PTL DEF Spec, ImplementsMemoryLife, Life!Spec

-----------------------------------------------------------------------------
(* The policies' orderings are strict orders, and the prefixes they cut    *)
(* follow them.                                                            *)

\* Recency of citation, then age: a memory never cited goes first.
Staler(s, x, y) ==
  LET uncited(z) == s.mem[z].cited = Never
  IN \/ uncited(x) /\ ~ uncited(y)
     \/ /\ uncited(x) <=> uncited(y)
        /\ \/ s.mem[x].cited < s.mem[y].cited
           \/ s.mem[x].cited = s.mem[y].cited /\ Older(s, x, y)

LEMMA StalestFirst ==
  ASSUME NEW s, IsMemoryState(s), NEW x \in Known(s), NEW y \in Known(s)
  PROVE  Precedes("LRU", s, x, y) <=> Staler(s, x, y)
<1> DEFINE f == LruKey(s, x)
           g == LruKey(s, y)
           flag(z) == IF s.mem[z].cited = Never THEN 0 ELSE 1
<1>1. /\ s.mem[x].birth \in Nat /\ s.mem[y].birth \in Nat /\ x \in Nat /\ y \in Nat
      /\ s.mem[x].cited \in Int /\ s.mem[y].cited \in Int
  BY MemoryIsFinite DEF Memory, Never
<1>2. Precedes("LRU", s, x, y) <=> LexLess(f, g)
  BY DEF Precedes
<1>3. /\ DOMAIN f = {1, 2, 3, 4}
      /\ f[1] = flag(x) /\ f[2] = s.mem[x].cited /\ f[3] = s.mem[x].birth /\ f[4] = x
      /\ g[1] = flag(y) /\ g[2] = s.mem[y].cited /\ g[3] = s.mem[y].birth /\ g[4] = y
  BY DEF LruKey
<1>4. flag(x) \in {0, 1} /\ flag(y) \in {0, 1}
  OBVIOUS
<1> HIDE DEF f, g
<1>5. LexLess(f, g) <=> \E i \in {1, 2, 3, 4} : f[i] < g[i] /\ \A j \in 1 .. i - 1 : f[j] = g[j]
  BY <1>3 DEF LexLess
<1>6. /\ 1 .. 1 - 1 = {} /\ 1 .. 2 - 1 = {1} /\ 1 .. 3 - 1 = {1, 2} /\ 1 .. 4 - 1 = {1, 2, 3}
  OBVIOUS
<1>7. LexLess(f, g) <=> \/ f[1] < g[1]
                        \/ f[1] = g[1] /\ f[2] < g[2]
                        \/ f[1] = g[1] /\ f[2] = g[2] /\ f[3] < g[3]
                        \/ f[1] = g[1] /\ f[2] = g[2] /\ f[3] = g[3] /\ f[4] < g[4]
  BY <1>5, <1>6
<1>8. /\ flag(x) < flag(y) <=> s.mem[x].cited = Never /\ s.mem[y].cited # Never
      /\ flag(x) = flag(y) <=> (s.mem[x].cited = Never <=> s.mem[y].cited = Never)
  OBVIOUS
<1> HIDE DEF flag
<1> QED
  BY <1>1, <1>2, <1>3, <1>7, <1>8 DEF Staler, Older

\* A density's comparison: x scores less per token than y.
Sparser(s, x, y) == s.mem[x].score * s.mem[y].tokens < s.mem[y].score * s.mem[x].tokens
AsDense(s, x, y) == s.mem[x].score * s.mem[y].tokens = s.mem[y].score * s.mem[x].tokens

\* What decides between two memories of the same density.
Weaker(s, x, y) ==
  \/ s.mem[x].score < s.mem[y].score
  \/ /\ s.mem[x].score = s.mem[y].score
     /\ \/ s.mem[x].cited < s.mem[y].cited
        \/ s.mem[x].cited = s.mem[y].cited /\ Older(s, x, y)

Lighter(s, R, x, y) ==
  \/ x \notin R /\ y \in R
  \/ /\ x \in R <=> y \in R
     /\ Sparser(s, x, y) \/ (AsDense(s, x, y) /\ Weaker(s, x, y))

LEMMA LightestFirst ==
  ASSUME NEW s, IsMemoryState(s), NEW x \in Known(s), NEW y \in Known(s)
  PROVE  Precedes("HEAVY", s, x, y) <=> Lighter(s, ReservedIds(s), x, y)
<1> DEFINE R == ReservedIds(s)
           f == HeavyKey(s, R, x, y)
           g == HeavyKey(s, R, y, x)
           flag(z) == IF z \in R THEN 1 ELSE 0
<1>1. /\ s.mem[x].birth \in Nat /\ s.mem[y].birth \in Nat /\ x \in Nat /\ y \in Nat
      /\ s.mem[x].cited \in Int /\ s.mem[y].cited \in Int
      /\ s.mem[x].score \in Nat /\ s.mem[y].score \in Nat
  BY MemoryIsFinite DEF Memory, Never
<1>2. Precedes("HEAVY", s, x, y) <=> LexLess(f, g)
  BY DEF Precedes
<1>3. /\ DOMAIN f = {1, 2, 3, 4, 5, 6}
      /\ f[1] = flag(x) /\ f[2] = s.mem[x].score * s.mem[y].tokens
      /\ f[3] = s.mem[x].score /\ f[4] = s.mem[x].cited /\ f[5] = s.mem[x].birth /\ f[6] = x
      /\ g[1] = flag(y) /\ g[2] = s.mem[y].score * s.mem[x].tokens
      /\ g[3] = s.mem[y].score /\ g[4] = s.mem[y].cited /\ g[5] = s.mem[y].birth /\ g[6] = y
  BY DEF HeavyKey
<1> HIDE DEF f, g
<1>4. LexLess(f, g) <=>
        \E i \in {1, 2, 3, 4, 5, 6} : f[i] < g[i] /\ \A j \in 1 .. i - 1 : f[j] = g[j]
  BY <1>3 DEF LexLess
<1>5. /\ 1 .. 1 - 1 = {} /\ 1 .. 2 - 1 = {1} /\ 1 .. 3 - 1 = {1, 2} /\ 1 .. 4 - 1 = {1, 2, 3}
      /\ 1 .. 5 - 1 = {1, 2, 3, 4} /\ 1 .. 6 - 1 = {1, 2, 3, 4, 5}
  OBVIOUS
<1>6. LexLess(f, g) <=>
        \/ f[1] < g[1]
        \/ f[1] = g[1] /\ f[2] < g[2]
        \/ f[1] = g[1] /\ f[2] = g[2] /\ f[3] < g[3]
        \/ f[1] = g[1] /\ f[2] = g[2] /\ f[3] = g[3] /\ f[4] < g[4]
        \/ f[1] = g[1] /\ f[2] = g[2] /\ f[3] = g[3] /\ f[4] = g[4] /\ f[5] < g[5]
        \/ f[1] = g[1] /\ f[2] = g[2] /\ f[3] = g[3] /\ f[4] = g[4] /\ f[5] = g[5] /\ f[6] < g[6]
  BY <1>4, <1>5
<1>7. /\ flag(x) < flag(y) <=> x \notin R /\ y \in R
      /\ flag(x) = flag(y) <=> (x \in R <=> y \in R)
  OBVIOUS
<1>8. f[2] < g[2] <=> Sparser(s, x, y)
  BY <1>3 DEF Sparser
<1>9. f[2] = g[2] <=> AsDense(s, x, y)
  BY <1>3 DEF AsDense
<1> HIDE DEF flag, R
<1> QED
  BY <1>1, <1>2, <1>3, <1>6, <1>7, <1>8, <1>9 DEF Lighter, Weaker, Older, R

\* Products of costs and scores compare as the densities do.
LEMMA DensityTransitive ==
  ASSUME NEW s1 \in Nat, NEW s2 \in Nat, NEW s3 \in Nat,
         NEW t1 \in Nat \ {0}, NEW t2 \in Nat \ {0}, NEW t3 \in Nat \ {0},
         s1 * t2 <= s2 * t1, s2 * t3 <= s3 * t2
  PROVE  /\ s1 * t3 <= s3 * t1
         /\ (s1 * t2 < s2 * t1 \/ s2 * t3 < s3 * t2) => s1 * t3 < s3 * t1
<1>1. \A a, b \in Nat, c \in Nat \ {0} : a < b => a * c < b * c
  OBVIOUS
<1>2. \A a, b \in Nat : a * b \in Nat
  OBVIOUS
<1>3. \A a, b, c \in Nat : (a * b) * c = (a * c) * b
  OBVIOUS
<1>4. \A a, b \in Nat, c \in Nat \ {0} : a <= b => a * c <= b * c
  OBVIOUS
<1> DEFINE p == s1 * t2
           q == s2 * t1
           u == s2 * t3
           v == s3 * t2
           x == s1 * t3
           y == s3 * t1
<1>5. /\ p \in Nat /\ q \in Nat /\ u \in Nat /\ v \in Nat /\ x \in Nat /\ y \in Nat
      /\ p <= q /\ u <= v
  BY <1>2
<1>6. p * t3 = x * t2 /\ q * t3 = u * t1 /\ v * t1 = y * t2
  BY <1>3
<1> HIDE DEF p, q, u, v, x, y
<1>7. /\ p * t3 <= q * t3 /\ u * t1 <= v * t1
      /\ p < q => p * t3 < q * t3
      /\ u < v => u * t1 < v * t1
  BY <1>1, <1>4, <1>5
<1>8. /\ y < x => y * t2 < x * t2
      /\ y <= x => y * t2 <= x * t2
  BY <1>1, <1>4, <1>5
<1>9. /\ p * t3 \in Nat /\ q * t3 \in Nat /\ v * t1 \in Nat /\ x * t2 \in Nat /\ y * t2 \in Nat
  BY <1>2, <1>5
<1>10. x * t2 <= y * t2 /\ (p < q \/ u < v => x * t2 < y * t2)
  BY <1>6, <1>7, <1>9
<1>11. x <= y /\ (p < q \/ u < v => x < y)
  BY <1>5, <1>8, <1>9, <1>10
<1> QED
  BY <1>11 DEF p, q, u, v, x, y

LEMMA StalerOrders ==
  ASSUME NEW s, IsMemoryState(s)
  PROVE  /\ \A x \in Known(s) : ~ Staler(s, x, x)
         /\ \A x, y \in Known(s) : x # y => Staler(s, x, y) \/ Staler(s, y, x)
         /\ \A x, y, z \in Known(s) : Staler(s, x, y) /\ Staler(s, y, z) => Staler(s, x, z)
<1>1. \A x \in Known(s) : x \in Nat /\ s.mem[x].birth \in Nat /\ s.mem[x].cited \in Int
  BY MemoryIsFinite DEF Memory, Never
<1> QED
  BY <1>1 DEF Staler, Older, Never

LEMMA LighterOrders ==
  ASSUME NEW s, IsMemoryState(s), NEW R
  PROVE  /\ \A x \in Known(s) : ~ Lighter(s, R, x, x)
         /\ \A x, y \in Known(s) : x # y => Lighter(s, R, x, y) \/ Lighter(s, R, y, x)
         /\ \A x, y, z \in Known(s) :
              Lighter(s, R, x, y) /\ Lighter(s, R, y, z) => Lighter(s, R, x, z)
<1>1. \A x \in Known(s) : /\ x \in Nat /\ s.mem[x].birth \in Nat /\ s.mem[x].cited \in Int
                          /\ s.mem[x].score \in Nat /\ s.mem[x].tokens \in Nat \ {0}
  BY MemoryIsFinite DEF Memory, Never
<1>2. \A x, y \in Known(s) : s.mem[x].score * s.mem[y].tokens \in Nat
  <2>1. \A a, b \in Nat : a * b \in Nat
    OBVIOUS
  <2> QED
    BY <1>1, <2>1
<1>3. \A x, y \in Known(s) : /\ Sparser(s, x, y) \/ Sparser(s, y, x) \/ AsDense(s, x, y)
                             /\ AsDense(s, x, y) <=> AsDense(s, y, x)
                             /\ ~ Sparser(s, x, x)
  BY <1>2 DEF Sparser, AsDense
<1>4. ASSUME NEW x \in Known(s), NEW y \in Known(s), NEW z \in Known(s),
             Sparser(s, x, y) \/ AsDense(s, x, y), Sparser(s, y, z) \/ AsDense(s, y, z)
      PROVE  /\ Sparser(s, x, z) \/ AsDense(s, x, z)
             /\ Sparser(s, x, y) \/ Sparser(s, y, z) => Sparser(s, x, z)
  <2>1. /\ s.mem[x].score * s.mem[y].tokens <= s.mem[y].score * s.mem[x].tokens
        /\ s.mem[y].score * s.mem[z].tokens <= s.mem[z].score * s.mem[y].tokens
    BY <1>2, <1>4 DEF Sparser, AsDense
  <2> DEFINE s1 == s.mem[x].score
             s2 == s.mem[y].score
             s3 == s.mem[z].score
             t1 == s.mem[x].tokens
             t2 == s.mem[y].tokens
             t3 == s.mem[z].tokens
  <2>2. /\ s1 \in Nat /\ s2 \in Nat /\ s3 \in Nat
        /\ t1 \in Nat \ {0} /\ t2 \in Nat \ {0} /\ t3 \in Nat \ {0}
        /\ s1 * t2 <= s2 * t1 /\ s2 * t3 <= s3 * t2
    BY <1>1, <2>1
  <2> HIDE DEF s1, s2, s3, t1, t2, t3
  <2>3. s1 * t3 <= s3 * t1 /\ (s1 * t2 < s2 * t1 \/ s2 * t3 < s3 * t2 => s1 * t3 < s3 * t1)
    BY <2>2, DensityTransitive
  <2> QED
    BY <1>2, <2>3 DEF Sparser, AsDense, s1, s2, s3, t1, t2, t3
<1>5. \A x, y, z \in Known(s) : Weaker(s, x, y) /\ Weaker(s, y, z) => Weaker(s, x, z)
  BY <1>1 DEF Weaker, Older
<1>6. /\ \A x \in Known(s) : ~ Weaker(s, x, x)
      /\ \A x, y \in Known(s) : x # y => Weaker(s, x, y) \/ Weaker(s, y, x)
  BY <1>1 DEF Weaker, Older
<1> QED
  BY <1>3, <1>4, <1>5, <1>6 DEF Lighter

\* Any policy's order on the memories an arm knows is a strict total order.
LEMMA OrderIsStrict ==
  ASSUME NEW s, IsMemoryState(s), NEW a
  PROVE  /\ \A x \in Known(s) : ~ Precedes(a, s, x, x)
         /\ \A x, y \in Known(s) : x # y => Precedes(a, s, x, y) \/ Precedes(a, s, y, x)
         /\ \A x, y, z \in Known(s) :
              Precedes(a, s, x, y) /\ Precedes(a, s, y, z) => Precedes(a, s, x, z)
<1>1. CASE a = "LRU"
  BY <1>1, StalestFirst, StalerOrders
<1>2. CASE a = "HEAVY"
  BY <1>2, LightestFirst, LighterOrders
<1>3. CASE a # "LRU" /\ a # "HEAVY"
  <2>1. \A x \in Known(s) : x \in Nat /\ s.mem[x].birth \in Nat
    BY MemoryIsFinite DEF Memory
  <2> QED
    BY <1>3, <2>1, OldestFirst DEF Older
<1> QED
  BY <1>1, <1>2, <1>3

-----------------------------------------------------------------------------
(* Greedy selection.                                                       *)

\* The memories of E that go before x.
Before(a, s, E, x) == {y \in E : Precedes(a, s, y, x)}

\* How many they are says where x stands, and no two stand in one place.
LEMMA PlacesDiffer ==
  ASSUME NEW a, NEW s, IsMemoryState(s), NEW E \in SUBSET Known(s)
  PROVE  /\ Cardinality(E) \in Nat
         /\ \A x \in E : /\ Cardinality(Before(a, s, E, x)) \in Nat
                         /\ Cardinality(Before(a, s, E, x)) < Cardinality(E)
         /\ \A x, y \in E : Precedes(a, s, y, x) =>
              Cardinality(Before(a, s, E, y)) < Cardinality(Before(a, s, E, x))
<1>1. IsFiniteSet(E) /\ Cardinality(E) \in Nat
  BY MemoryIsFinite, FS_CardinalityType
<1>2. ASSUME NEW X, NEW Y \in SUBSET E, X \in SUBSET Y, X # Y
      PROVE  /\ Cardinality(X) \in Nat /\ Cardinality(Y) \in Nat
             /\ Cardinality(X) < Cardinality(Y)
  <2>1. IsFiniteSet(Y) /\ IsFiniteSet(X)
    BY <1>1, <1>2, FS_Subset
  <2>2. Cardinality(X) \in Nat /\ Cardinality(Y) \in Nat
    BY <2>1, FS_CardinalityType
  <2>3. Cardinality(X) <= Cardinality(Y) /\ Cardinality(X) # Cardinality(Y)
    BY <1>2, <2>1, FS_Subset
  <2> QED
    BY <2>2, <2>3
<1>3. ASSUME NEW x \in E
      PROVE  /\ Cardinality(Before(a, s, E, x)) \in Nat
             /\ Cardinality(Before(a, s, E, x)) < Cardinality(E)
  <2>1. Before(a, s, E, x) \in SUBSET E /\ x \notin Before(a, s, E, x)
    BY OrderIsStrict DEF Before
  <2> QED
    BY <1>2, <2>1
<1>4. ASSUME NEW x \in E, NEW y \in E, Precedes(a, s, y, x)
      PROVE  Cardinality(Before(a, s, E, y)) < Cardinality(Before(a, s, E, x))
  <2>1. y \in Before(a, s, E, x) /\ y \notin Before(a, s, E, y)
    BY <1>4, OrderIsStrict DEF Before
  <2>2. Before(a, s, E, y) \subseteq Before(a, s, E, x)
    BY <1>4, OrderIsStrict DEF Before
  <2>3. Before(a, s, E, x) \in SUBSET E
    BY DEF Before
  <2> QED
    BY <1>2, <2>1, <2>2, <2>3
<1> QED
  BY <1>1, <1>3, <1>4

\* One place further, a prefix has at most one memory more.
LEMMA PrefixGrows ==
  ASSUME NEW a, NEW s, IsMemoryState(s), NEW E \in SUBSET Known(s), NEW n \in Nat
  PROVE  /\ Prefix(a, s, E, 0) = {} /\ Prefix(a, s, E, Cardinality(E)) = E
         /\ Prefix(a, s, E, n) \subseteq E
         /\ Prefix(a, s, E, n) \subseteq Prefix(a, s, E, n + 1)
         /\ \A x, y \in Prefix(a, s, E, n + 1) \ Prefix(a, s, E, n) : x = y
         /\ \A x \in Prefix(a, s, E, n), y \in E \ Prefix(a, s, E, n) : Precedes(a, s, x, y)
<1> DEFINE at(x) == Cardinality(Before(a, s, E, x))
<1>1. \A k : Prefix(a, s, E, k) = {x \in E : at(x) < k}
  BY DEF Prefix, Before
<1>2. /\ \A x \in E : at(x) \in Nat /\ at(x) < Cardinality(E)
      /\ \A x, y \in E : Precedes(a, s, y, x) => at(y) < at(x)
  BY PlacesDiffer
<1>3. \A x, y \in E : x # y => Precedes(a, s, x, y) \/ Precedes(a, s, y, x)
  BY OrderIsStrict
<1> HIDE DEF at
<1>4. \A x, y \in E : at(x) = at(y) => x = y
  BY <1>2, <1>3
<1>5. \A x, y \in E : at(x) < at(y) => Precedes(a, s, x, y)
  BY <1>2, <1>3
<1>6. Cardinality(E) \in Nat
  BY PlacesDiffer
<1>7. Prefix(a, s, E, 0) = {} /\ Prefix(a, s, E, Cardinality(E)) = E
  BY <1>1, <1>2, <1>6
<1>8. Prefix(a, s, E, n) \subseteq E /\ Prefix(a, s, E, n) \subseteq Prefix(a, s, E, n + 1)
  BY <1>1, <1>2
<1>9. ASSUME NEW x \in E, NEW y \in E, at(x) < n + 1, ~ (at(x) < n), at(y) < n + 1, ~ (at(y) < n)
      PROVE  x = y
  BY <1>2, <1>4, <1>9
<1>10. \A x, y \in Prefix(a, s, E, n + 1) \ Prefix(a, s, E, n) : x = y
  BY <1>1, <1>9
<1>11. ASSUME NEW x \in E, NEW y \in E, at(x) < n, ~ (at(y) < n)
       PROVE  Precedes(a, s, x, y)
  BY <1>2, <1>5, <1>11
<1>12. \A x \in Prefix(a, s, E, n), y \in E \ Prefix(a, s, E, n) : Precedes(a, s, x, y)
  BY <1>1, <1>11
<1> QED
  BY <1>7, <1>8, <1>10, <1>12

LEMMA CostWithout ==
  ASSUME NEW s, IsMemoryState(s), NEW V \in SUBSET Known(s), NEW m \in V
  PROVE  /\ Cost(s, V \ {m}) = Cost(s, V) - s.mem[m].tokens
         /\ s.mem[m].tokens \in Nat \ {0} /\ Cost(s, V) \in Nat
<1>1. Cost(s, {m}) = s.mem[m].tokens /\ s.mem[m].tokens \in Nat \ {0}
  <2>1. s.mem[m].tokens \in Nat \ {0} /\ m \in Known(s)
    BY MemoryIsFinite
  <2>2. Cost(s, {} \cup {m}) = Cost(s, {}) + s.mem[m].tokens
    BY <2>1, CostAdd, FS_EmptySet
  <2> QED
    BY <2>1, <2>2, CostFacts
<1> QED
  BY <1>1, CostFacts

\* What greedy selection does: it stops as soon as the budget is reached, takes
\* everything when it is not, and what it takes goes before what it leaves.
LEMMA GreedySelects ==
  ASSUME NEW a, NEW s, IsMemoryState(s), NEW E \in SUBSET Known(s),
         NEW tokens \in Int, NEW b \in Int,
         NEW V, V = GreedyVictims(a, s, E, tokens, b)
  PROVE  /\ V \subseteq E
         /\ tokens - Cost(s, V) > b => V = E
         /\ V # {} => \E m \in V : tokens - Cost(s, V) + s.mem[m].tokens > b
         /\ \A x \in V, y \in E \ V : Precedes(a, s, x, y)
<1> DEFINE N == Cardinality(E)
           P(k) == Prefix(a, s, E, k)
           enough == {k \in 0 .. N : tokens - Cost(s, P(k)) <= b}
           sizes == enough \cup {N}
           n == Min(sizes)
<1>1. N \in Nat
  BY PlacesDiffer
<1>2. V = P(n)
  BY DEF GreedyVictims
<1>3. sizes \in SUBSET (0 .. N) /\ sizes # {}
  BY <1>1
<1>4. n \in sizes /\ \A k \in sizes : n <= k
  <2> HIDE DEF sizes, N
  <2> QED
    BY <1>1, <1>3, MinIsLeast
<1>5. n \in 0 .. N
  BY <1>3, <1>4
<1>6. \A k \in 0 .. N : k < n => tokens - Cost(s, P(k)) > b
  <2>1. \A k \in Nat : Cost(s, P(k)) \in Nat
    <3>1. \A k \in Nat : P(k) \in SUBSET Known(s)
      BY PrefixGrows
    <3> QED
      BY <3>1, CostFacts
  <2>2. \A k \in 0 .. N : k < n => k \notin enough
    BY <1>1, <1>4, <1>5
  <2> QED
    BY <1>1, <2>1, <2>2
<1>7. n # N => tokens - Cost(s, P(n)) <= b
  BY <1>4
<1> HIDE DEF n, sizes, enough, P
<1>8. /\ P(N) = E /\ P(n) \subseteq E /\ P(0) = {}
      /\ \A x \in P(n), y \in E \ P(n) : Precedes(a, s, x, y)
  <2>1. n \in Nat
    BY <1>1, <1>5
  <2> QED
    BY <2>1, PrefixGrows DEF P
<1>9. Cost(s, V) \in Nat
  BY <1>2, <1>8, CostFacts
<1>10. tokens - Cost(s, V) > b => V = E
  BY <1>2, <1>7, <1>8, <1>9
<1>11. ASSUME V # {}
       PROVE  \E m \in V : tokens - Cost(s, V) + s.mem[m].tokens > b
  <2>1. n # 0
    BY <1>2, <1>8, <1>11
  <2> DEFINE W == P(n - 1)
  <2>2. n - 1 \in 0 .. N /\ n - 1 < n /\ n - 1 \in Nat /\ (n - 1) + 1 = n
    BY <1>1, <1>5, <2>1
  <2>3. tokens - Cost(s, W) > b
    BY <1>6, <2>2
  <2>4. W \subseteq V /\ \A x, y \in V \ W : x = y
    BY <1>2, <2>2, PrefixGrows DEF P
  <2> HIDE DEF W
  <2>5. CASE V = W
    <3>1. PICK m \in V : TRUE
      BY <1>11
    <3>2. s.mem[m].tokens \in Nat \ {0}
      BY <1>2, <1>8, <3>1, MemoryIsFinite
    <3> QED
      BY <1>9, <2>3, <2>5, <3>1, <3>2
  <2>6. CASE V # W
    <3>1. PICK m \in V : V \ {m} = W
      BY <2>4, <2>6
    <3>2. /\ Cost(s, W) = Cost(s, V) - s.mem[m].tokens /\ s.mem[m].tokens \in Nat \ {0}
      BY <1>2, <1>8, <3>1, CostWithout
    <3> QED
      BY <1>9, <2>3, <3>1, <3>2
  <2> QED
    BY <2>5, <2>6
<1> QED
  BY <1>2, <1>8, <1>10, <1>11

-----------------------------------------------------------------------------
(* What the decisions owe to the orderings.                                *)

\* A decision takes no memory that could have stayed.
NothingToSpare(s, d, b) ==
  d.evicted # {} => \E m \in d.evicted : d.tokens + s.mem[m].tokens > b

LEMMA EvictFields ==
  ASSUME NEW s, NEW c, NEW code, NEW V
  PROVE  LET d == Evict(s, c, code, V)
         IN /\ d.evicted = V /\ d.compressed = {} /\ d.created = {} /\ d.plan = NoPlan
            /\ d.tokens = ActiveTokens(s) - Cost(s, V)
            /\ d.code = IF V = {} THEN "NO_ACTION" ELSE code
BY DEF Evict, BuildDecision, NoFold

LEMMA EligibleFacts ==
  ASSUME NEW s, IsMemoryState(s), NEW c, NEW protect
  PROVE  LET E == Eligible(s, c, protect)
         IN /\ E \in SUBSET Known(s) /\ E \in SUBSET Active(s)
            /\ \A V \in SUBSET E : Cost(s, V) \in Nat /\ Cost(s, {}) = 0
            /\ Cost(s, Active(s) \ E) = ActiveTokens(s) - Cost(s, E)
<1> DEFINE E == Eligible(s, c, protect)
<1>1. E \in SUBSET Active(s) /\ Active(s) \in SUBSET Known(s)
  BY DEF Eligible, Active
<1> HIDE DEF E
<1>2. \A V \in SUBSET E : Cost(s, V) \in Nat /\ Cost(s, {}) = 0
  BY <1>1, CostFacts
<1>3. Cost(s, Active(s) \ E) = ActiveTokens(s) - Cost(s, E)
  BY <1>1, CostFacts DEF ActiveTokens
<1> QED
  BY <1>1, <1>2, <1>3 DEF E

\* What the heavy-hitter arm decides besides what its ordering selects.
LEMMA HeavyFields ==
  ASSUME NEW s, NEW b, NEW c
  PROVE  LET d == HeavyDecision(s, b, c)
             V == GreedyVictims("HEAVY", s, Eligible(s, c, {}), ActiveTokens(s), b)
         IN /\ d.evicted = V /\ d.compressed = {} /\ d.created = {} /\ d.plan = NoPlan
            /\ d.tokens = ActiveTokens(s) - Cost(s, V)
            /\ d.code = "HEAVY_HITTER_RESERVE_BROKEN" <=> V \cap ReservedIds(s) # {}
<1> DEFINE V == GreedyVictims("HEAVY", s, Eligible(s, c, {}), ActiveTokens(s), b)
           o == OrderedDecision("HEAVY", s, b, c, "EVICTED_LOWEST_RETENTION_DENSITY")
           e == [o EXCEPT !.code = "HEAVY_HITTER_RESERVE_BROKEN"]
<1>1. o = Evict(s, c, "EVICTED_LOWEST_RETENTION_DENSITY", V)
  BY DEF OrderedDecision, Protected
<1>2. DOMAIN o = {"code", "cycle", "compressed", "evicted", "created", "kept",
                  "edges", "tokens", "plan"}
  BY DEF OrderedDecision, Evict, BuildDecision
<1> HIDE DEF o, V
<1>3. /\ o.evicted = V /\ o.compressed = {} /\ o.created = {} /\ o.plan = NoPlan
      /\ o.tokens = ActiveTokens(s) - Cost(s, V)
      /\ o.code # "HEAVY_HITTER_RESERVE_BROKEN"
  BY <1>1, EvictFields
<1>4. /\ e.evicted = V /\ e.compressed = {} /\ e.created = {} /\ e.plan = NoPlan
      /\ e.tokens = ActiveTokens(s) - Cost(s, V)
      /\ e.code = "HEAVY_HITTER_RESERVE_BROKEN"
  BY <1>2, <1>3
<1>5. HeavyDecision(s, b, c) = IF V \cap ReservedIds(s) = {} THEN o ELSE e
  BY <1>3 DEF HeavyDecision, o
<1> QED
  BY <1>3, <1>4, <1>5 DEF V

\* What the arms that evict in an order select, and what that is out of.
Ordering(a) == a \in {"FIFO", "SINK", "LRU", "HEAVY"}
Selects(a, s, b, c, d) ==
  LET E == Eligible(s, c, Protected(a))
  IN /\ d.evicted = GreedyVictims(a, s, E, ActiveTokens(s), b)
     /\ d.created = {} /\ d.tokens = ActiveTokens(s) - Cost(s, d.evicted)

LEMMA OrderingSelects ==
  ASSUME NEW s, NEW a, Ordering(a), NEW b, NEW c, NEW fb, NEW d \in Rebalance(a, s, b, c, fb)
  PROVE  Selects(a, s, b, c, d)
<1>1. CASE a = "HEAVY"
  <2>1. d = HeavyDecision(s, b, c) /\ Protected(a) = {}
    BY <1>1 DEF Rebalance, Protected
  <2> QED
    BY <1>1, <2>1, HeavyFields DEF Selects
<1>2. CASE a # "HEAVY"
  <2>1. PICK code : d = OrderedDecision(a, s, b, c, code)
    BY <1>2 DEF Rebalance, Ordering
  <2>2. d = Evict(s, c, code, GreedyVictims(a, s, Eligible(s, c, Protected(a)),
                                            ActiveTokens(s), b))
    BY <2>1 DEF OrderedDecision
  <2> QED
    BY <2>2, EvictFields DEF Selects
<1> QED
  BY <1>1, <1>2

\* The first decision of an arm that may drop what it holds gives up nothing
\* that could have stayed, and is over budget only with nothing left to drop.
LEMMA DecisionForced ==
  ASSUME NEW s, IsMemoryState(s), NEW a \in ArmIds, a # "FULL", NEW b \in Int, NEW c,
         NEW fb, NEW d \in Rebalance(a, s, b, c, fb), d.plan = NoPlan
  PROVE  /\ a # "STATELESS" => NothingToSpare(s, d, b)
         /\ fb /\ d.tokens > b => Cost(s, Active(s) \ Eligible(s, c, Protected(a))) > b
<1> DEFINE E == Eligible(s, c, Protected(a))
           tokens == ActiveTokens(s)
<1>1. /\ E \in SUBSET Known(s) /\ tokens \in Int
      /\ \A V \in SUBSET E : Cost(s, V) \in Nat /\ Cost(s, {}) = 0
      /\ Cost(s, Active(s) \ E) = tokens - Cost(s, E)
  BY EligibleFacts, ActiveTokensType
<1>2. ASSUME NEW V, V = GreedyVictims(a, s, E, tokens, b), d.evicted = V,
             d.tokens = tokens - Cost(s, V)
      PROVE  NothingToSpare(s, d, b) /\ (d.tokens > b => Cost(s, Active(s) \ E) > b)
  <2> HIDE DEF E, tokens
  <2>1. /\ tokens - Cost(s, V) > b => V = E
        /\ V # {} => \E m \in V : tokens - Cost(s, V) + s.mem[m].tokens > b
    BY <1>1, <1>2, GreedySelects
  <2> QED
    BY <1>1, <1>2, <2>1 DEF NothingToSpare
<1>3. CASE Ordering(a)
  <2>1. Selects(a, s, b, c, d)
    BY <1>3, OrderingSelects
  <2> QED
    BY <1>2, <2>1 DEF Selects
<1>4. CASE a = "RANDOM"
  <2>1. E = Eligible(s, c, {})
    BY <1>4 DEF Protected
  <2>2. PICK V \in SUBSET E :
          /\ d = Evict(s, c, "EVICTED_RANDOM", V)
          /\ V = E \/ ~ (tokens - Cost(s, V) > b)
          /\ V = {} \/ \E last \in V : tokens - Cost(s, V \ {last}) > b
    BY <1>4, <2>1 DEF Rebalance, RandomDecisions
  <2>3. d.evicted = V /\ d.tokens = tokens - Cost(s, V)
    BY <2>2, EvictFields
  <2> HIDE DEF E, tokens
  <2>4. \A m \in V : /\ Cost(s, V \ {m}) = Cost(s, V) - s.mem[m].tokens
                     /\ s.mem[m].tokens \in Nat
    BY <1>1, CostWithout
  <2>5. NothingToSpare(s, d, b)
    <3> SUFFICES ASSUME V # {}
                 PROVE  \E m \in V : d.tokens + s.mem[m].tokens > b
      BY <2>3 DEF NothingToSpare
    <3>1. PICK m \in V : tokens - Cost(s, V \ {m}) > b
      BY <2>2
    <3>2. Cost(s, V) \in Nat
      BY <1>1
    <3> QED
      BY <1>1, <2>3, <2>4, <3>1, <3>2
  <2>6. d.tokens > b => Cost(s, Active(s) \ E) > b
    BY <1>1, <2>2, <2>3
  <2> QED
    BY <2>5, <2>6 DEF E
<1>5. CASE a = "SUMMARY"
  <2> DEFINE p == PlanCompression(s, E, tokens, b, s.next)
             victims == FallbackVictims(s, E, tokens, b, fb)
             planned == BuildDecision(s, c, "COMPRESSION_PLANNED", {}, NoFold, tokens, p)
  <2>1. E = Eligible(s, c, {})
    BY <1>5 DEF Protected
  <2>2. d = IF tokens <= b THEN Evict(s, c, "NO_ACTION", {})
            ELSE IF p # NoPlan THEN planned
            ELSE Evict(s, c, "SUMMARY_FALLBACK_FIFO", victims)
    BY <1>5, <2>1 DEF Rebalance, SummaryDecision
  <2>3. planned.plan = p
    BY DEF BuildDecision
  <2> HIDE DEF p, planned
  <2>4. CASE tokens <= b
    <3>1. d.evicted = {} /\ d.tokens = tokens - Cost(s, {})
      BY <2>2, <2>4, EvictFields
    <3> HIDE DEF E, tokens
    <3>2. d.tokens = tokens
      BY <1>1, <3>1
    <3> QED
      BY <1>1, <2>4, <3>1, <3>2 DEF NothingToSpare
  <2>5. CASE ~ (tokens <= b)
    <3>1. d = Evict(s, c, "SUMMARY_FALLBACK_FIFO", victims)
      BY <2>2, <2>3, <2>5
    <3>2. d.evicted = victims /\ d.tokens = tokens - Cost(s, victims)
      BY <3>1, EvictFields
    <3>3. CASE fb
      BY <1>2, <1>5, <3>2, <3>3 DEF FallbackVictims
    <3>4. CASE ~ fb
      <4>1. victims = {}
        BY <3>4 DEF FallbackVictims
      <4> QED
        BY <3>2, <3>4, <4>1 DEF NothingToSpare
    <3> QED
      BY <3>3, <3>4
  <2> QED
    BY <2>4, <2>5
<1>6. CASE a = "STATELESS"
  <2>1. E = Eligible(s, c, {}) /\ d = Evict(s, c, "EVICTED_STATELESS", E)
    BY <1>6 DEF Rebalance, Protected
  <2>2. d.tokens = tokens - Cost(s, E)
    BY <2>1, EvictFields
  <2> QED
    BY <1>1, <1>6, <2>2
<1> QED
  BY <1>3, <1>4, <1>5, <1>6 DEF ArmIds, Ordering

\* The full-memory arm drops nothing at all.
LEMMA FullSparesAll ==
  ASSUME NEW s, NEW b, NEW c, NEW fb, NEW d \in Rebalance("FULL", s, b, c, fb)
  PROVE  NothingToSpare(s, d, b)
<1>1. d.evicted = {}
  BY DEF Rebalance, BuildDecision
<1> QED
  BY <1>1 DEF NothingToSpare

\* Neither is anything dropped in vain beside a summary.
LEMMA FinalizeForced ==
  ASSUME NEW s, IsMemoryState(s), NEW b \in Int, NEW c, NEW p, PlanFits(s, p, c, s.next),
         NEW m, SummaryOf(s, p.sources, c, m), NEW fb,
         NEW d, d = FinalizeCompression(s, b, c, p, s.next, m, fb)
  PROVE  NothingToSpare(s, d, b)
<1> DEFINE fold == [sources |-> p.sources, created |-> {[id |-> s.next, memory |-> m]}]
           tokens == ActiveTokens(s) - p.freed + m.tokens
           E == Eligible(s, c, {}) \ p.sources
           q == PlanCompression(s, E, tokens, b, s.next + 1)
           victims == FallbackVictims(s, E, tokens, b, fb)
<1>1. tokens \in Int /\ E \in SUBSET Known(s)
  <2>1. p.sources \in SUBSET Known(s) /\ E \in SUBSET Known(s)
    BY DEF PlanFits, Eligible, Active
  <2> QED
    BY <2>1, ActiveTokensType, CostFacts DEF PlanFits, SummaryOf, Memory
<1>2. \/ d = BuildDecision(s, c, "COMPRESSION_COMMITTED", {}, fold, tokens, NoPlan)
      \/ d = BuildDecision(s, c, "COMPRESSION_PLANNED", {}, fold, tokens, q)
      \/ d = BuildDecision(s, c, "SUMMARY_FALLBACK_FIFO", victims, fold,
                           tokens - Cost(s, victims), NoPlan)
  BY DEF FinalizeCompression
<1> HIDE DEF fold, tokens, E, q, victims
<1>3. \/ d.evicted = {}
      \/ d.evicted = victims /\ d.tokens = tokens - Cost(s, victims)
  BY <1>2 DEF BuildDecision
<1>4. CASE d.evicted = {}
  BY <1>4 DEF NothingToSpare
<1>5. CASE d.evicted # {}
  <2>1. d.evicted = victims /\ d.tokens = tokens - Cost(s, victims)
    BY <1>3, <1>5
  <2>2. victims = GreedyVictims("SUMMARY", s, E, tokens, b)
    BY <1>5, <2>1 DEF FallbackVictims, victims
  <2> QED
    BY <1>1, <1>5, <2>1, <2>2, GreedySelects DEF NothingToSpare
<1> QED
  BY <1>4, <1>5

-----------------------------------------------------------------------------
(* What a cycle that completes, or is given up, did.                       *)

\* No memory is cited in a cycle that has not come.
CitedBy(s, c) == \A x \in Known(s) : s.mem[x].cited <= c

\* The invariant of a cycle in progress: it starts from no decision, nothing
\* has failed in it, and no citation is later than it.
Fresh ==
  /\ phase = "rebalance" => codes = <<>>
  /\ phase # "idle" => failure = "none"
  /\ CitedBy(committed, cycle) /\ CitedBy(working, cycle + 1)

OrderInv == PolicyInv /\ Fresh

LEMMA CitedApplied ==
  ASSUME NEW s, IsMemoryState(s), NEW c \in Nat, CitedBy(s, c), NEW d, SoundDecision(s, d, c)
  PROVE  CitedBy(Applied(s, d), c)
<1> DEFINE u == Applied(s, d)
<1>1. /\ Known(u) = Known(s) \cup CreatedIds(d)
      /\ \A x \in Known(s) : u.mem[x] = After(s, d, x)
      /\ \A e \in d.created : u.mem[e.id] = e.memory
  <2>1. Shaped(s, d)
    BY SoundShape
  <2> QED
    BY <2>1, AppliedShape
<1> HIDE DEF u
<1>2. ASSUME NEW x \in Known(s) PROVE u.mem[x].cited <= c
  <2>1. s.mem[x] \in Memory /\ s.mem[x].cited <= c
    BY MemoryIsFinite DEF CitedBy
  <2>2. u.mem[x].cited = s.mem[x].cited
    BY <1>1, <2>1 DEF After, Retire, Memory
  <2> QED
    BY <2>1, <2>2
<1>3. ASSUME NEW e \in d.created PROVE u.mem[e.id].cited <= c
  <2>1. e.memory.cited = Never
    BY DEF SoundDecision, SummaryOf
  <2> QED
    BY <1>1, <2>1 DEF Never
<1>4. CitedBy(u, c)
  BY <1>1, <1>2, <1>3 DEF CitedBy, CreatedIds
<1> QED
  BY <1>4 DEF u

LEMMA CitedLater ==
  ASSUME NEW s, IsMemoryState(s), NEW c \in Nat, CitedBy(s, c)
  PROVE  CitedBy(s, c + 1)
<1>1. \A x \in Known(s) : s.mem[x].cited \in Int
  BY MemoryIsFinite DEF Memory, Never
<1> QED
  BY <1>1 DEF CitedBy

\* The memory a cycle works on cites nothing later than that cycle.
LEMMA ExperienceCites ==
  ASSUME NEW s, IsMemoryState(s), NEW k \in Nat, CitedBy(s, k), NEW counted,
         NEW m, m.cited = Never,
         NEW r, r = RecordCycleCitations(s, counted, k + 1),
         NEW t, t = Admit(r, r.next, m)
  PROVE  CitedBy(t, k + 1)
<1>1. /\ Known(r) = Known(s)
      /\ \A x \in Known(s) : r.mem[x] = IF x \in Active(s)
                                        THEN WithCitationCycle(s.mem[x], k + 1, x \in counted)
                                        ELSE s.mem[x]
  BY DEF RecordCycleCitations, MemoryState, Known
<1>2. ASSUME NEW x \in Known(s) PROVE r.mem[x].cited <= k + 1
  <2>1. s.mem[x] \in Memory /\ s.mem[x].cited \in Int /\ s.mem[x].cited <= k
    BY MemoryIsFinite DEF CitedBy, Memory, Never
  <2>2. r.mem[x].cited \in {s.mem[x].cited, k + 1}
    BY <1>1, <2>1 DEF WithCitationCycle, Memory
  <2> QED
    BY <2>1, <2>2
<1>3. /\ Known(t) = Known(r) \cup {r.next}
      /\ \A x \in Known(t) : t.mem[x] = IF x = r.next THEN m ELSE r.mem[x]
  BY DEF Admit, MemoryState, Known
<1> QED
  BY <1>1, <1>2, <1>3 DEF CitedBy, Never

LEMMA FailIsFresh ==
  ASSUME OrderInv, NEW reason, Fail(reason)
  PROVE  Fresh'
<1>1. CitedBy(committed, cycle) /\ CitedBy(committed, cycle + 1)
  BY CitedLater DEF OrderInv, PolicyInv, Inv, TypeOK, Fresh
<1> QED
  BY <1>1 DEF Fail, Fresh, CitedBy

LEMMA ConcludeIsFresh ==
  ASSUME OrderInv, phase # "idle", NEW d, SoundDecision(working, d, cycle + 1), Conclude(d)
  PROVE  Fresh'
<1> DEFINE s == Applied(working, d)
           now == cycle + 1
<1>1. /\ now \in Nat /\ cycle \in Nat /\ IsMemoryState(working) /\ CitedBy(working, now)
      /\ failure = "none" /\ CitedBy(committed, cycle)
  BY DEF OrderInv, PolicyInv, Inv, TypeOK, Fresh
<1>2. SoundDecision(working, d, now)
  OBVIOUS
<1> HIDE DEF now
<1>3. CitedBy(s, now)
  BY <1>1, <1>2, CitedApplied
<1>4. IsMemoryState(s)
  <2>1. BornBy(working, now)
    BY DEF OrderInv, PolicyInv, Inv, now
  <2>2. WellFormed(working, d, now) /\ Applicable(working, d)
    BY <1>1, <1>2, SoundWellFormed
  <2> QED
    BY <1>1, <2>1, <2>2, AppliedKeeps
<1> HIDE DEF s
<1>5. CitedBy(s, now + 1)
  BY <1>1, <1>3, <1>4, CitedLater
<1>6. CASE \E reason : Fail(reason)
  BY <1>6, FailIsFresh
<1>7. CASE Commit(s)
  BY <1>1, <1>3, <1>5, <1>7 DEF Commit, Fresh, CitedBy, now
<1>8. CASE Ask(s, d)
  BY <1>1, <1>3, <1>8 DEF Ask, Fresh, CitedBy, now
<1> QED
  BY <1>6, <1>7, <1>8 DEF Conclude, s

LEMMA OrderStarts == Init => OrderInv
<1> SUFFICES ASSUME Init PROVE OrderInv
  OBVIOUS
<1>1. \A x \in Known(Seeded) : Seeded.mem[x].cited = Never
  BY DEF Seeded, MemoryState, Known, Minted
<1>2. CitedBy(Seeded, 0) /\ CitedBy(Seeded, 0 + 1)
  BY <1>1 DEF CitedBy, Never
<1>3. /\ committed = Seeded /\ working = Seeded /\ cycle = 0 /\ phase = "idle"
  BY DEF Init
<1> QED
  BY <1>2, <1>3, InitEstablishesPolicy DEF OrderInv, Fresh

\* The decision behind a step that concludes a cycle.
LEMMA StepConcludes ==
  ASSUME PolicyInv, NEW d,
         \/ phase = "rebalance" /\ d \in Rebalance(arm, working, budget, cycle + 1, fallback)
         \/ \E m : /\ phase = "dream" /\ SummaryOf(working, plan.sources, cycle + 1, m)
                   /\ d = FinalizeCompression(working, budget, cycle + 1, plan,
                                              working.next, m, fallback)
  PROVE  SoundDecision(working, d, cycle + 1)
<1> DEFINE now == cycle + 1
<1>1. /\ now \in Nat /\ IsMemoryState(working) /\ budget \in Int
      /\ phase = "dream" => PlanFits(working, plan, now, working.next)
  BY ArmAssumption DEF PolicyInv, Inv, TypeOK
<1> QED
  BY <1>1, RebalanceSound, FinalizeSound

LEMMA OrderKept ==
  ASSUME OrderInv, [Next]_vars
  PROVE  OrderInv'
<1>1. PolicyInv'
  BY StepKeepsPolicy DEF OrderInv
<1>2. CASE \E claims, tokens : Experience(claims, tokens)
  <2>1. PICK claims, tokens : Experience(claims, tokens)
    BY <1>2
  <2> DEFINE counted == Counted(committed, claims)
             r == RecordCycleCitations(committed, counted, cycle + 1)
             m == Minted("generated", tokens, cycle + 1, {}, FALSE)
             t == Admit(r, r.next, m)
  <2>2. working' = t /\ m.cited = Never
    BY <2>1 DEF Experience, Minted
  <2>3. /\ committed' = committed /\ cycle' = cycle /\ phase' = "rebalance"
        /\ codes' = <<>> /\ failure' = "none"
    BY <2>1 DEF Experience
  <2>4. IsMemoryState(committed) /\ cycle \in Nat /\ CitedBy(committed, cycle)
    BY DEF OrderInv, PolicyInv, Inv, TypeOK, Fresh
  <2>5. r = RecordCycleCitations(committed, counted, cycle + 1) /\ t = Admit(r, r.next, m)
    OBVIOUS
  <2> HIDE DEF t, r, m, counted
  <2>6. CitedBy(t, cycle + 1)
    BY <2>2, <2>4, <2>5, ExperienceCites
  <2> QED
    BY <1>1, <2>2, <2>3, <2>4, <2>6 DEF OrderInv, Fresh, CitedBy
<1>3. CASE Decide
  <2>1. PICK d \in Rebalance(arm, working, budget, cycle + 1, fallback) :
          Conclude(d) /\ phase = "rebalance"
    BY <1>3 DEF Decide
  <2>2. SoundDecision(working, d, cycle + 1)
    BY <2>1, StepConcludes DEF OrderInv
  <2> QED
    BY <1>1, <2>1, <2>2, ConcludeIsFresh DEF OrderInv
<1>4. CASE \E tokens \in 1 .. SummaryLimit : WriteSummary(tokens)
  <2>1. phase = "dream"
    BY <1>4 DEF WriteSummary
  <2>2. PICK m : /\ SummaryOf(working, plan.sources, cycle + 1, m)
                 /\ Conclude(FinalizeCompression(working, budget, cycle + 1, plan,
                                                 working.next, m, fallback))
    BY <1>4, SummaryIsWritten DEF OrderInv
  <2> DEFINE d == FinalizeCompression(working, budget, cycle + 1, plan, working.next, m, fallback)
  <2>3. SoundDecision(working, d, cycle + 1)
    BY <2>1, <2>2, StepConcludes DEF OrderInv
  <2> HIDE DEF d
  <2> QED
    BY <1>1, <2>1, <2>2, <2>3, ConcludeIsFresh DEF OrderInv, d
<1>5. CASE DreamerFails
  BY <1>1, <1>5, FailIsFresh DEF DreamerFails, OrderInv
<1>6. CASE Tighten
  BY <1>1, <1>6 DEF Tighten, OrderInv, Fresh, CitedBy
<1>7. CASE UNCHANGED vars
  BY <1>1, <1>7 DEF vars, OrderInv, Fresh, CitedBy
<1> QED
  BY <1>2, <1>3, <1>4, <1>5, <1>6, <1>7 DEF Next

LEMMA OrderHolds == Spec => []OrderInv
BY OrderStarts, OrderKept, PTL DEF Spec
-----------------------------------------------------------------------------
(* What the step that commits a cycle did, and the properties of it.       *)

\* What the commit of a decision shows of it: who was evicted, who survived,
\* and what the arm now costs.
Shows(d) ==
  /\ d.plan = NoPlan /\ SoundDecision(working, d, cycle + 1)
  /\ EvictedNow = d.evicted /\ d.evicted \subseteq Eligible(working, cycle + 1, {})
  /\ Survivors \cap d.evicted = {}
  /\ ActiveTokens(committed') = d.tokens
  /\ \A x \in Active(working) : /\ committed'.mem[x].tokens = working.mem[x].tokens
                                /\ committed'.mem[x].cited = working.mem[x].cited
  /\ cycle' = cycle + 1 /\ codes' = Append(codes, d.code)

LEMMA ConcludeShows ==
  ASSUME OrderInv, NEW d, SoundDecision(working, d, cycle + 1),
         phase # "idle", Conclude(d), Committing
  PROVE  Shows(d)
<1> DEFINE s == Applied(working, d)
           now == cycle + 1
<1>1. /\ now \in Nat /\ IsMemoryState(working) /\ BornBy(working, now)
      /\ Active(working) \subseteq Known(working)
  BY DEF OrderInv, PolicyInv, Inv, TypeOK, Active
<1>2. SoundDecision(working, d, now)
  OBVIOUS
<1>3. /\ d.plan = NoPlan /\ committed' = s /\ cycle' = now /\ codes' = Append(codes, d.code)
  BY DEF Committing, Conclude, Fail, Ask, Commit, WithinBudget
<1> HIDE DEF now
<1>4. WellFormed(working, d, now) /\ Applicable(working, d)
  BY <1>1, <1>2, SoundWellFormed
<1>5. ActiveTokens(s) = d.tokens
  BY <1>1, <1>4, AppliedKeeps
<1>6. /\ Known(s) = Known(working) \cup CreatedIds(d)
      /\ \A x \in Known(working) : s.mem[x] = After(working, d, x)
  <2>1. Shaped(working, d)
    BY <1>1, <1>2, SoundShape
  <2> QED
    BY <2>1, AppliedShape
<1> HIDE DEF s
<1>7. /\ d.evicted \subseteq Eligible(working, now, {}) /\ d.compressed \cap d.evicted = {}
      /\ d.evicted \subseteq Active(working)
  BY <1>2 DEF SoundDecision, Retirements, Eligible
<1>8. ASSUME NEW x \in Active(working)
      PROVE  /\ s.mem[x].tokens = working.mem[x].tokens
             /\ s.mem[x].cited = working.mem[x].cited
             /\ (s.mem[x].status = "evicted") <=> (x \in d.evicted)
  <2>1. working.mem[x] \in Memory /\ working.mem[x].status = "active"
    BY <1>1, MemoryIsFinite DEF Active
  <2>2. s.mem[x] = After(working, d, x)
    BY <1>1, <1>6
  <2>3. CASE x \in d.compressed
    <3>1. s.mem[x] = Retire(working.mem[x], "compressed", d.cycle) /\ x \notin d.evicted
      BY <1>7, <2>2, <2>3 DEF After
    <3> QED
      BY <2>1, <3>1 DEF Retire, Memory
  <2>4. CASE x \in d.evicted
    <3>1. s.mem[x] = Retire(working.mem[x], "evicted", d.cycle)
      BY <1>7, <2>2, <2>4 DEF After
    <3> QED
      BY <2>1, <2>4, <3>1 DEF Retire, Memory
  <2>5. CASE x \notin d.compressed /\ x \notin d.evicted
    BY <2>1, <2>2, <2>5 DEF After
  <2> QED
    BY <2>3, <2>4, <2>5
<1>9. EvictedNow = d.evicted
  BY <1>3, <1>7, <1>8 DEF EvictedNow
<1>10. Survivors \cap d.evicted = {}
  BY <1>3, <1>7, <1>8 DEF Survivors, Active
<1> QED
  BY <1>2, <1>3, <1>5, <1>7, <1>8, <1>9, <1>10 DEF Shows, now

\* A commit concludes the policy's first decision or a summary's.
LEMMA CommitShows ==
  ASSUME OrderInv, Next, Committing
  PROVE  \E d : /\ Shows(d)
                /\ \/ /\ phase = "rebalance"
                      /\ d \in Rebalance(arm, working, budget, cycle + 1, fallback)
                   \/ /\ phase = "dream"
                      /\ \E m : /\ SummaryOf(working, plan.sources, cycle + 1, m)
                                /\ d = FinalizeCompression(working, budget, cycle + 1, plan,
                                                           working.next, m, fallback)
<1>1. CASE \E claims, tokens : Experience(claims, tokens)
  BY <1>1 DEF Experience, Committing
<1>2. CASE Decide
  <2>1. PICK d \in Rebalance(arm, working, budget, cycle + 1, fallback) :
          Conclude(d) /\ phase = "rebalance"
    BY <1>2 DEF Decide
  <2>2. SoundDecision(working, d, cycle + 1)
    BY <2>1, StepConcludes DEF OrderInv
  <2>3. Shows(d)
    BY <2>1, <2>2, ConcludeShows
  <2> QED
    BY <2>1, <2>3
<1>3. CASE \E tokens \in 1 .. SummaryLimit : WriteSummary(tokens)
  <2>1. phase = "dream"
    BY <1>3 DEF WriteSummary
  <2>2. PICK m : /\ SummaryOf(working, plan.sources, cycle + 1, m)
                 /\ Conclude(FinalizeCompression(working, budget, cycle + 1, plan,
                                                 working.next, m, fallback))
    BY <1>3, SummaryIsWritten DEF OrderInv
  <2> DEFINE d == FinalizeCompression(working, budget, cycle + 1, plan, working.next, m, fallback)
  <2>3. SoundDecision(working, d, cycle + 1)
    BY <2>1, <2>2, StepConcludes DEF OrderInv
  <2>4. Conclude(d)
    BY <2>2
  <2>5. /\ SummaryOf(working, plan.sources, cycle + 1, m)
        /\ d = FinalizeCompression(working, budget, cycle + 1, plan, working.next, m, fallback)
    BY <2>2
  <2> HIDE DEF d
  <2>6. Shows(d)
    BY <2>1, <2>3, <2>4, ConcludeShows
  <2> QED
    BY <2>1, <2>5, <2>6
<1>4. CASE DreamerFails
  BY <1>4 DEF DreamerFails, Fail, Committing
<1>5. CASE Tighten
  BY <1>5 DEF Tighten, Committing
<1> QED
  BY <1>1, <1>2, <1>3, <1>4, <1>5 DEF Next

\* An arm that may drop what it holds gives a cycle up only when what it must
\* not touch is over the budget by itself: PilotEngine's refusal of a decision
\* over budget, whatever the policy, the memory and the cycle.
THEOREM GivenUpWhenForced == Spec => GivesUpOnlyWhenForced
<1>1. ASSUME OrderInv, Next, failure' = "unsatisfiable", phase = "rebalance",
             arm # "FULL", fallback
      PROVE  Cost(working, Active(working) \ Eligible(working, cycle + 1, Protected(arm))) > budget
  <2>1. Decide
    BY <1>1 DEF Next, Experience, WriteSummary, DreamerFails, Tighten
  <2>2. PICK d \in Rebalance(arm, working, budget, cycle + 1, fallback) : Conclude(d)
    BY <2>1 DEF Decide
  <2>3. /\ IsMemoryState(working) /\ arm \in ArmIds /\ budget \in Int /\ cycle + 1 \in Nat
        /\ BornBy(working, cycle + 1)
    BY <1>1, ArmAssumption DEF OrderInv, PolicyInv, Inv, TypeOK
  <2>4. SoundDecision(working, d, cycle + 1)
    BY <1>1, <2>2, StepConcludes DEF OrderInv
  <2>5. failure = "none"
    BY <1>1 DEF OrderInv, Fresh
  <2>6. ~ WithinBudget(d, budget)
    BY <1>1, <2>2, <2>5 DEF Conclude, Fail, Commit, Ask
  <2>7. d.tokens \in Nat
    <3>1. WellFormed(working, d, cycle + 1) /\ Applicable(working, d)
      BY <2>3, <2>4, SoundWellFormed
    <3>2. IsMemoryState(Applied(working, d)) /\ ActiveTokens(Applied(working, d)) = d.tokens
      BY <2>3, <3>1, AppliedKeeps
    <3> QED
      BY <3>2, ActiveTokensType
  <2>8. d.plan = NoPlan /\ d.tokens > budget
    BY <2>3, <2>6, <2>7 DEF WithinBudget
  <2> QED
    BY <1>1, <2>2, <2>3, <2>8, DecisionForced
<1>2. OrderInv /\ [Next]_vars =>
        [(/\ failure' = "unsatisfiable" /\ phase = "rebalance"
          /\ arm # "FULL" /\ fallback )
         => LET cycleNow == cycle + 1
                untouchable == Active(working) \ Eligible(working, cycleNow, Protected(arm))
            IN Cost(working, untouchable) > budget]_vars
  BY <1>1
<1> QED
  BY <1>2, OrderHolds, PTL DEF Spec, GivesUpOnlyWhenForced

\* Whatever is evicted, some memory of it could not have been kept: the greedy
\* and the random selections stop as soon as the budget is reached.
THEOREM NeverInVain == Spec => NoNeedlessEviction
<1>1. ASSUME OrderInv, Next, Committing, arm # "STATELESS", EvictedNow # {}
      PROVE  \E m \in EvictedNow : ActiveTokens(committed') + committed'.mem[m].tokens > budget
  <2>1. PICK d : /\ Shows(d)
                 /\ \/ /\ phase = "rebalance"
                       /\ d \in Rebalance(arm, working, budget, cycle + 1, fallback)
                    \/ /\ phase = "dream"
                       /\ \E m : /\ SummaryOf(working, plan.sources, cycle + 1, m)
                                 /\ d = FinalizeCompression(working, budget, cycle + 1, plan,
                                                            working.next, m, fallback)
    BY <1>1, CommitShows
  <2>2. /\ IsMemoryState(working) /\ arm \in ArmIds /\ budget \in Int
        /\ phase = "dream" => PlanFits(working, plan, cycle + 1, working.next)
    BY <1>1, ArmAssumption DEF OrderInv, PolicyInv, Inv, TypeOK
  <2>3. NothingToSpare(working, d, budget)
    <3>1. CASE phase = "dream"
      BY <2>1, <2>2, <3>1, FinalizeForced
    <3>2. CASE phase = "rebalance" /\ arm = "FULL"
      BY <2>1, <3>2, FullSparesAll
    <3>3. CASE phase = "rebalance" /\ arm # "FULL"
      <4>1. d.plan = NoPlan
        BY <2>1 DEF Shows
      <4> QED
        BY <1>1, <2>1, <2>2, <3>3, <4>1, DecisionForced
    <3> QED
      BY <2>1, <3>1, <3>2, <3>3
  <2>4. /\ EvictedNow = d.evicted /\ d.evicted \subseteq Active(working)
        /\ ActiveTokens(committed') = d.tokens
        /\ \A x \in Active(working) : committed'.mem[x].tokens = working.mem[x].tokens
    BY <2>1 DEF Shows, Eligible
  <2> QED
    BY <1>1, <2>3, <2>4 DEF NothingToSpare
<1>2. OrderInv /\ [Next]_vars =>
        [(Committing /\ arm # "STATELESS" /\ EvictedNow # {})
         => \E m \in EvictedNow :
              ActiveTokens(committed') + committed'.mem[m].tokens > budget]_vars
  BY <1>1
<1> QED
  BY <1>2, OrderHolds, PTL DEF Spec, NoNeedlessEviction

\* What an ordering arm evicts goes, in its order, before what it could have
\* evicted and kept.
LEMMA EvictsInOrder ==
  ASSUME OrderInv, Next, Committing, Ordering(arm)
  PROVE  \E d : /\ Shows(d) /\ d \in Rebalance(arm, working, budget, cycle + 1, fallback)
                /\ phase = "rebalance"
                /\ \A x \in EvictedNow,
                      y \in Eligible(working, cycle + 1, Protected(arm)) \cap Survivors :
                     Precedes(arm, working, x, y)
<1>1. /\ IsMemoryState(working) /\ budget \in Int
      /\ phase = "dream" => arm = "SUMMARY"
  BY ArmAssumption DEF OrderInv, PolicyInv, Inv, TypeOK
<1>2. PICK d : /\ Shows(d) /\ phase = "rebalance"
               /\ d \in Rebalance(arm, working, budget, cycle + 1, fallback)
  BY <1>1, CommitShows DEF Ordering
<1> DEFINE E == Eligible(working, cycle + 1, Protected(arm))
<1>3. d.evicted = GreedyVictims(arm, working, E, ActiveTokens(working), budget)
  BY <1>2, OrderingSelects DEF Selects
<1>4. E \in SUBSET Known(working)
  BY <1>1, EligibleFacts
<1>5. ActiveTokens(working) \in Nat
  BY <1>1, ActiveTokensType
<1> HIDE DEF E
<1>6. \A x \in d.evicted, y \in E \ d.evicted : Precedes(arm, working, x, y)
  BY <1>1, <1>3, <1>4, <1>5, GreedySelects
<1>7. EvictedNow = d.evicted /\ Survivors \cap d.evicted = {}
  BY <1>2 DEF Shows
<1>8. \A x \in EvictedNow, y \in E \cap Survivors : Precedes(arm, working, x, y)
  BY <1>6, <1>7
<1> QED
  BY <1>2, <1>8 DEF E

\* The least recently cited goes first: a memory cited in this very cycle is
\* evicted only when all that is kept, and might have gone, was cited in it too.
THEOREM CitedGoLast == Spec => CitedNowOutlivesUncited
<1>1. ASSUME OrderInv, Next, Committing, arm = "LRU", NEW m \in EvictedNow, NEW k \in Survivors,
             committed'.mem[m].cited = cycle', k \in Eligible(working, cycle', {})
      PROVE  committed'.mem[k].cited = cycle'
  <2>1. Ordering(arm) /\ Protected(arm) = {}
    BY <1>1 DEF Ordering, Protected
  <2>2. PICK d : /\ Shows(d)
                 /\ \A x \in EvictedNow,
                       y \in Eligible(working, cycle + 1, {}) \cap Survivors :
                      Precedes(arm, working, x, y)
    BY <1>1, <2>1, EvictsInOrder
  <2>3. /\ cycle' = cycle + 1
        /\ m \in Active(working) /\ k \in Active(working)
        /\ committed'.mem[m].cited = working.mem[m].cited
        /\ committed'.mem[k].cited = working.mem[k].cited
    BY <2>2 DEF Shows, EvictedNow, Survivors
  <2>4. Precedes("LRU", working, m, k)
    BY <1>1, <2>2, <2>3
  <2>5. /\ IsMemoryState(working) /\ cycle + 1 \in Nat
        /\ m \in Known(working) /\ k \in Known(working) /\ CitedBy(working, cycle + 1)
    BY <1>1, <2>3 DEF OrderInv, PolicyInv, Inv, TypeOK, Fresh, Active
  <2>6. Staler(working, m, k)
    BY <2>4, <2>5, StalestFirst
  <2>7. /\ working.mem[k].cited \in Int /\ working.mem[k].cited <= cycle + 1
        /\ working.mem[m].cited = cycle + 1
    BY <1>1, <2>3, <2>5, MemoryIsFinite DEF CitedBy, Memory, Never
  <2>8. working.mem[k].cited >= cycle + 1
    BY <2>5, <2>6, <2>7 DEF Staler, Never
  <2> QED
    BY <2>3, <2>5, <2>7, <2>8
<1>2. OrderInv /\ [Next]_vars =>
        [(Committing /\ arm = "LRU")
         => \A m \in EvictedNow, k \in Survivors :
              (committed'.mem[m].cited = cycle') =>
                 \/ committed'.mem[k].cited = cycle'
                 \/ k \notin Eligible(working, cycle', {})]_vars
  BY <1>1
<1> QED
  BY <1>2, OrderHolds, PTL DEF Spec, CitedNowOutlivesUncited

\* The recency reserve is broken only when all that may go outside it is gone,
\* and a decision that breaks it is recorded as one that does.
THEOREM ReserveIsBrokenLast == Spec => ReserveBreaksLast
<1>1. ASSUME OrderInv, Next, Committing, arm = "HEAVY"
      PROVE  /\ EvictedNow \cap ReservedIds(working) # {} =>
                  Eligible(working, cycle', {}) \cap Survivors \subseteq ReservedIds(working)
             /\ EvictedNow \cap ReservedIds(working) # {}
                  <=> codes' = <<"HEAVY_HITTER_RESERVE_BROKEN">>
  <2> DEFINE R == ReservedIds(working)
             E == Eligible(working, cycle + 1, {})
  <2>1. Ordering(arm) /\ Protected(arm) = {}
    BY <1>1 DEF Ordering, Protected
  <2>2. PICK d : /\ Shows(d) /\ d \in Rebalance(arm, working, budget, cycle + 1, fallback)
                 /\ phase = "rebalance"
                 /\ \A x \in EvictedNow, y \in E \cap Survivors : Precedes(arm, working, x, y)
    BY <1>1, <2>1, EvictsInOrder
  <2>3. d = HeavyDecision(working, budget, cycle + 1)
    BY <1>1, <2>2 DEF Rebalance
  <2>4. /\ EvictedNow = d.evicted /\ cycle' = cycle + 1 /\ codes' = Append(codes, d.code)
        /\ EvictedNow \subseteq Active(working) /\ Survivors \subseteq Active(working)
    BY <2>2 DEF Shows, EvictedNow, Survivors
  <2>5. codes = <<>> /\ IsMemoryState(working) /\ Active(working) \subseteq Known(working)
    BY <1>1, <2>2 DEF OrderInv, PolicyInv, Inv, TypeOK, Fresh, Active
  <2> HIDE DEF R, E
  <2>6. ASSUME NEW x \in EvictedNow \cap R, NEW y \in E \cap Survivors PROVE y \in R
    <3>1. Precedes("HEAVY", working, x, y)
      BY <1>1, <2>2, <2>6
    <3>2. Lighter(working, R, x, y)
      BY <2>4, <2>5, <2>6, <3>1, LightestFirst DEF R
    <3> QED
      BY <2>6, <3>2 DEF Lighter
  <2>7. d.code = "HEAVY_HITTER_RESERVE_BROKEN" <=> EvictedNow \cap R # {}
    BY <2>3, <2>4, HeavyFields DEF R
  <2>8. codes' = <<"HEAVY_HITTER_RESERVE_BROKEN">> <=> d.code = "HEAVY_HITTER_RESERVE_BROKEN"
    <3>1. codes' = <<d.code>>
      BY <2>4, <2>5
    <3> QED
      BY <3>1
  <2> QED
    BY <2>4, <2>6, <2>7, <2>8 DEF R, E
<1>2. OrderInv /\ [Next]_vars =>
        [(Committing /\ arm = "HEAVY")
         => LET broken == EvictedNow \cap ReservedIds(working) # {}
            IN /\ broken => Eligible(working, cycle', {}) \cap Survivors \subseteq ReservedIds(working)
               /\ broken <=> codes' = <<"HEAVY_HITTER_RESERVE_BROKEN">>]_vars
  BY <1>1
<1> QED
  BY <1>2, OrderHolds, PTL DEF Spec, ReserveBreaksLast
=============================================================================
