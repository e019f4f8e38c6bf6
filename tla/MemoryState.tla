---------------------------- MODULE MemoryState ----------------------------
(***************************************************************************)
(* One arm's memory as the domain package keeps it: every memory the arm   *)
(* ever held, active or retired, the lineage of its summaries and the      *)
(* allocator of creation slots.  Pure operators, one per transition of     *)
(* MemoryState; a transition that raises has an operator for its guard.    *)
(*                                                                         *)
(* A memory is named by its creation slot, which its identifier renders    *)
(* zero-padded and which never repeats within an arm.  Texts are left out. *)
(* A discounted score is kept exactly, in units of 1 / ScoreUnit.          *)
(***************************************************************************)
EXTENDS Integers, FiniteSets, FiniteSetsExt

CONSTANTS
  DecayNum, DecayDen,   \* heavy_hitter_citation_decay, as a fraction
  ScoreUnit             \* DecayDen to the number of cycles that may pass

ASSUME DecayAssumption ==
  /\ DecayDen \in Nat \ {0} /\ DecayNum \in 0 .. DecayDen
  /\ ScoreUnit \in Nat \ {0}

\* "No verified citation yet", "not retired": before every cycle.
Never == -1

Memory ==
  [kind : {"seed", "generated", "summary"}, tokens : Nat \ {0}, birth : Nat,
   parents : SUBSET Nat, pinned : BOOLEAN,
   status : {"active", "evicted", "compressed"}, retired : Nat \cup {Never},
   score : Nat, cited : Nat \cup {Never}]

MinSummarySources == 2

(* What no constructed or loaded memory may contradict. *)
Consistent(m) ==
  /\ IF m.kind = "summary" THEN Cardinality(m.parents) >= MinSummarySources
                           ELSE m.parents = {}
  /\ m.status = "active" <=> m.retired = Never
  /\ m.retired # Never => m.retired >= m.birth /\ ~ m.pinned
  /\ m.cited # Never => m.cited >= m.birth

MemoryState(mem, next, edges) == [mem |-> mem, next |-> next, edges |-> edges]

Known(s)  == DOMAIN s.mem
Active(s) == {m \in Known(s) : s.mem[m].status = "active"}
Cost(s, M) == MapThenSumSet(LAMBDA m : s.mem[m].tokens, M)
ActiveTokens(s) == Cost(s, Active(s))

Minted(kind, tokens, cycle, parents, pinned) ==
  [kind |-> kind, tokens |-> tokens, birth |-> cycle, parents |-> parents,
   pinned |-> pinned, status |-> "active", retired |-> Never,
   score |-> 0, cited |-> Never]

Admissible(s, id, m) ==
  id \notin Known(s) /\ m.status = "active" /\ id >= s.next

Admit(s, id, m) ==
  MemoryState([x \in Known(s) \cup {id} |-> IF x = id THEN m ELSE s.mem[x]],
              id + 1, s.edges)

(* Every active memory decays, cited or not; a citation counts at most     *)
(* once a cycle and moves the citation cycle forward.                      *)
WithCitationCycle(m, cycle, cited) ==
  [m EXCEPT !.score = (DecayNum * @) \div DecayDen + (IF cited THEN ScoreUnit ELSE 0),
            !.cited = IF cited THEN cycle ELSE @]

\* Mutant: retired memories go on decaying and being cited.
RecordOnEveryMemory(s, counted, cycle) ==
  MemoryState([x \in Known(s) |-> WithCitationCycle(s.mem[x], cycle, x \in counted)],
              s.next, s.edges)

RecordCycleCitations(s, counted, cycle) ==
  MemoryState([x \in Known(s) |->
                 IF x \in Active(s)
                 THEN WithCitationCycle(s.mem[x], cycle, x \in counted) ELSE s.mem[x]],
              s.next, s.edges)

-----------------------------------------------------------------------------
(* Decisions: which memories leave, compressed or evicted, which summary   *)
(* enters (created, a set of at most one [id, memory]), what the arm will  *)
(* then hold (kept) and cost (tokens), and the compression still asked for *)
(* (plan).                                                                 *)

NoPlan == [sources |-> {}, id |-> Never, limit |-> 0, freed |-> 0]

Retirements(d) == d.compressed \cup d.evicted
CreatedIds(d)  == {c.id : c \in d.created}

\* Mutant: a final decision over budget is accepted.
AcceptAnyCost(d, budget) == TRUE

\* A decision that asks for nothing further has to fit the budget.
WithinBudget(d, budget) == d.plan # NoPlan \/ d.tokens <= budget

\* Mutant: the retirement does not name its cycle.
RetireUndated(m, status, cycle) == [m EXCEPT !.status = status]

Retire(m, status, cycle) == [m EXCEPT !.status = status, !.retired = cycle]

WithRetirements(s, d) ==
  MemoryState([x \in Known(s) |->
                 IF x \in d.compressed THEN Retire(s.mem[x], "compressed", d.cycle)
                 ELSE IF x \in d.evicted THEN Retire(s.mem[x], "evicted", d.cycle)
                 ELSE s.mem[x]],
              s.next, s.edges)

WithCreated(s, d) ==
  IF d.created = {} THEN s
  ELSE LET c == CHOOSE c \in d.created : TRUE IN Admit(s, c.id, c.memory)

\* Mutant: the lineage of a summary is not recorded.
ApplyWithoutLineage(s, d) == WithCreated(WithRetirements(s, d), d)

Applied(s, d) ==
  LET t == WithCreated(WithRetirements(s, d), d)
  IN MemoryState(t.mem, t.next, t.edges \cup d.edges)

(* What PolicyDecision, CompressionPlan and MemoryState.apply refuse. *)
Applicable(s, d) ==
  /\ d.plan # NoPlan => /\ Cardinality(d.plan.sources) >= MinSummarySources
                        /\ d.plan.id \notin d.plan.sources
  /\ d.kept \cap Retirements(d) = {}
  /\ CreatedIds(d) \subseteq d.kept
  /\ \A m \in Retirements(d) : m \in Active(s) /\ ~ s.mem[m].pinned
  /\ \A c \in d.created : /\ Admissible(s, c.id, c.memory)
                          /\ c.memory.parents = d.compressed
  /\ d.edges \subseteq Known(Applied(s, d)) \X CreatedIds(d)
  /\ Active(Applied(s, d)) = d.kept
  /\ ActiveTokens(Applied(s, d)) = d.tokens
=============================================================================
