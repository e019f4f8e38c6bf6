-------------------------- MODULE CallBudgetProofs --------------------------
(***************************************************************************)
(* Proofs about CallBudget, for any number of arms, invocations, callers   *)
(* and analyses, any limits, and any number of faults and expiries.        *)
(***************************************************************************)
EXTENDS CallBudget, FiniteSums

-----------------------------------------------------------------------------
(* The parts of the inductive invariant.                                   *)

StateTypes ==
  /\ run \in Run
  /\ prepared \in [Cycle -> Usage \cup {None}]
  /\ holder \in Invocation \cup {None}
  /\ pc \in [Process -> Stages]
  /\ own \in [Process -> 0 .. MaxCycle]
  /\ seen \in [Process -> Run]
  /\ budget \in [Process -> Budget]
  /\ made \in Usage /\ lost \in Usage
  /\ erased \in [Role -> Int]
  /\ staged \in [Cycle -> [own : Usage, read : Usage]]
  /\ stagings \in [Cycle -> Nat]
  /\ happened \in [Event -> Nat]

WorkStages == {"preparing", "committing"} \cup Staging

\* What a process works on follows from the run it read, which is no later
\* than the run is now.
Track(p) ==
  /\ pc[p] = "idle" => budget[p].spent = Unused
  /\ pc[p] \in {"locking"} \cup WorkStages =>
       p \in Invocation /\ own[p] = seen[p].head + 1 /\ seen[p].head <= run.head
  /\ pc[p] = "committing" => prepared[own[p]] # None

Tracks == \A p \in Process : Track(p)

\* A prepared cycle carries what its staging read and spent; every committed
\* cycle was prepared, and none is prepared but those and the next.
StoreSound ==
  \A c \in Cycle :
    IF prepared[c] = None
    THEN run.head < c /\ staged[c].own = Unused /\ stagings[c] = 0
    ELSE c <= run.head + 1 /\ prepared[c] = Merge(staged[c].read, staged[c].own)

\* Those that work on without the lock: each has let one run out.
Lapsed == {i \in Invocation : pc[i] \in WorkStages /\ holder # i}
StagingFor(c) == {i \in Invocation : pc[i] \in Staging /\ own[i] = c}

Leased ==
  /\ Cardinality(Lapsed) <= happened["expiry"]
  /\ \A c \in Cycle : prepared[c] # None =>
       stagings[c] + Cardinality(StagingFor(c)) <= 1 + happened["expiry"]

-----------------------------------------------------------------------------
(* Budgets.                                                                *)

LEMMA RolesAre ==
  /\ CycleRole \subseteq Role
  /\ {"writer", "summarizer", "token_counter", "interviewer"} \subseteq CycleRole
  /\ "evaluator" \in Role /\ "evaluator" \notin CycleRole
BY DEF Role, CycleRole

LEMMA UnusedIsUsage == Unused \in Usage /\ \A r \in Role : Unused[r] = 0
BY DEF Unused, Usage

LEMMA MergeIsUsage ==
  ASSUME NEW u \in Usage, NEW v \in Usage
  PROVE  Merge(u, v) \in Usage /\ \A r \in Role : Merge(u, v)[r] = u[r] + v[r]
BY DEF Merge, Usage

LEMMA CycleCallsType ==
  ASSUME NEW u \in Usage
  PROVE  CycleCalls(u) \in Nat
<1> DEFINE w == [r \in CycleRole |-> u[r]]
           body(g, T) == IF T = {} THEN 0
                         ELSE u[CHOOSE x \in T : TRUE] + g[T \ {CHOOSE x \in T : TRUE}]
<1>1. CycleCalls(u) = Total(u, CycleRole)
  BY DEF CycleCalls, Calls, Total
<1>2. IsFiniteSet(CycleRole)
  <2>1. IsFiniteSet({"writer"})
    BY FS_Singleton
  <2>2. IsFiniteSet({"writer"} \cup {"summarizer"})
    BY <2>1, FS_AddElement
  <2>3. IsFiniteSet(({"writer"} \cup {"summarizer"}) \cup {"token_counter"})
    BY <2>2, FS_AddElement
  <2>4. IsFiniteSet((({"writer"} \cup {"summarizer"}) \cup {"token_counter"}) \cup {"interviewer"})
    BY <2>3, FS_AddElement
  <2>5. CycleRole = (({"writer"} \cup {"summarizer"}) \cup {"token_counter"}) \cup {"interviewer"}
    BY DEF CycleRole
  <2> QED
    BY <2>4, <2>5
<1>3. \A r \in CycleRole : u[r] \in Nat
  BY RolesAre DEF Usage
<1> QED
  BY <1>1, <1>2, <1>3, TotalNonNegative

LEMMA FreshType ==
  ASSUME NEW u \in Usage
  PROVE  /\ Fresh(u) \in Budget /\ Fresh(u).spent = Unused /\ Fresh(u).cycle = Unused
         /\ \A c \in BOOLEAN : LET b == OpenCycle(Fresh(u), c)
                               IN b \in Budget /\ b.spent = Unused /\ b.cycle = Unused
<1>1. CycleCalls(u) \in Nat
  BY CycleCallsType
<1> QED
  BY <1>1, UnusedIsUsage DEF Fresh, OpenCycle, Budget

LEMMA ClaimedType ==
  ASSUME NEW b \in Budget, NEW r \in Role
  PROVE  LET n == Claimed(b, r)
         IN /\ n \in Budget /\ n.checkpoint = b.checkpoint /\ n.prior = b.prior
            /\ n.spent[r] = b.spent[r] + 1 /\ n.cycle[r] = b.cycle[r] + 1
            /\ \A q \in Role \ {r} : n.spent[q] = b.spent[q] /\ n.cycle[q] = b.cycle[q]
<1> DEFINE c == [b.cycle EXCEPT ![r] = b.cycle[r] + 1]
           s == [b.spent EXCEPT ![r] = b.spent[r] + 1]
           n == [b EXCEPT !.cycle = c, !.spent = s]
<1>1. Claimed(b, r) = n
  BY DEF Claimed, Budget
<1>2. b.cycle \in Usage /\ b.spent \in Usage
  BY DEF Budget
<1>3. /\ c \in Usage /\ s \in Usage
      /\ s[r] = b.spent[r] + 1 /\ c[r] = b.cycle[r] + 1
      /\ \A q \in Role \ {r} : s[q] = b.spent[q] /\ c[q] = b.cycle[q]
  BY <1>2 DEF Usage
<1> HIDE DEF c, s
<1>4. /\ n \in Budget /\ n.checkpoint = b.checkpoint /\ n.prior = b.prior
      /\ n.spent = s /\ n.cycle = c
  BY <1>3 DEF Budget
<1> QED
  BY <1>1, <1>3, <1>4

-----------------------------------------------------------------------------
(* What the engines at work have claimed.                                  *)

LEMMA SumIsTotal ==
  ASSUME NEW f, NEW S, IsFiniteSet(S), NEW r \in Role
  PROVE  Sum(f, S)[r] = Total([x \in S |-> f[x][r]], S)
<1> DEFINE w == [x \in S |-> f[x][r]]
           body(g, T) == IF T = {} THEN 0
                         ELSE f[CHOOSE x \in T : TRUE][r] + g[T \ {CHOOSE x \in T : TRUE}]
           h == CHOOSE g : g = [T \in SUBSET S |-> body(g, T)]
<1>1. \A g : \A T \in SUBSET S : body(g, T) = SumStep(w, g, T)
  <2> SUFFICES ASSUME NEW g, NEW T \in SUBSET S, T # {}
               PROVE  body(g, T) = SumStep(w, g, T)
    BY DEF SumStep
  <2>1. (CHOOSE x \in T : TRUE) \in S
    OBVIOUS
  <2> QED
    BY <2>1 DEF SumStep
<1>2. PICK g : Sums(w, S, g) /\ Total(w, S) = g[S]
  BY SumsExist, TotalIsSum
<1>3. g = [T \in SUBSET S |-> body(g, T)]
  <2> HIDE DEF body, w
  <2> QED
    BY <1>1, <1>2 DEF Sums
<1>4. h = [T \in SUBSET S |-> body(h, T)]
  <2> HIDE DEF body
  <2> QED
    BY <1>3
<1>5. Sums(w, S, h)
  <2> HIDE DEF body, w, h
  <2> QED
    BY <1>1, <1>4 DEF Sums
<1>6. Sum(f, S)[r] = h[S]
  BY DEF Sum, MapThenSumSet, MapThenFoldSet
<1> HIDE DEF h, w
<1> QED
  BY <1>2, <1>5, <1>6, SumsRestrict DEF w

\* The processes that carry claims, and what p carries in role r.
Carrying(at) == {p \in Process : at[p] \in Staging \cup Asking}
Carried(at, b, p, r) == IF p \in Carrying(at) THEN b[p].spent[r] ELSE 0
Load(at, b, r) == [p \in Carrying(at) |-> b[p].spent[r]]

LEMMA CarryingIsFinite == \A at : IsFiniteSet(Carrying(at))
BY FS_Subset, ConstantsAssumption DEF Carrying

LEMMA UnderwayIsTotal ==
  ASSUME NEW at, NEW b, NEW r \in Role
  PROVE  Sum([p \in Process |-> b[p].spent], Carrying(at))[r]
           = Total(Load(at, b, r), Carrying(at))
<1> DEFINE f == [p \in Process |-> b[p].spent]
           S == Carrying(at)
<1>1. IsFiniteSet(S) /\ S \subseteq Process
  BY CarryingIsFinite DEF Carrying
<1>2. \A p \in S : f[p] = b[p].spent
  BY <1>1
<1> HIDE DEF f, S
<1>3. Sum(f, S)[r] = Total([p \in S |-> f[p][r]], S)
  BY <1>1, SumIsTotal
<1>4. [p \in S |-> f[p][r]] = [p \in S |-> b[p].spent[r]]
  BY <1>2
<1> QED
  BY <1>3, <1>4 DEF f, S, Load

\* Claims on their way change by what the one process that moves carries.
LEMMA CarriedMoves ==
  ASSUME NEW at, NEW at2, NEW b \in [Process -> Budget], NEW b2 \in [Process -> Budget],
         NEW p \in Process, \A q \in Process \ {p} : at2[q] = at[q] /\ b2[q] = b[q],
         NEW r \in Role
  PROVE  /\ Total(Load(at, b, r), Carrying(at)) \in Int
         /\ Total(Load(at2, b2, r), Carrying(at2)) \in Int
         /\ Total(Load(at2, b2, r), Carrying(at2)) + Carried(at, b, p, r)
              = Total(Load(at, b, r), Carrying(at)) + Carried(at2, b2, p, r)
<1> DEFINE S == Carrying(at)
           T == Carrying(at2)
           w == Load(at, b, r)
           v == Load(at2, b2, r)
<1>1. IsFiniteSet(S) /\ IsFiniteSet(T)
  BY CarryingIsFinite
<1>2. S \subseteq Process /\ T \subseteq Process /\ S \ {p} = T \ {p}
  BY DEF Carrying
<1>3. \A q \in Process : b[q].spent[r] \in Int /\ b2[q].spent[r] \in Int
  BY DEF Budget, Usage
<1>4. /\ \A x \in S : w[x] = b[x].spent[r]
      /\ \A x \in T : v[x] = b2[x].spent[r]
  BY DEF Load
<1> HIDE DEF S, T, w, v
<1>5. /\ \A x \in S : w[x] \in Int
      /\ \A x \in T : v[x] \in Int
      /\ \A x \in S \ {p} : w[x] = v[x]
  BY <1>2, <1>3, <1>4
<1>6. /\ Total(w, S) \in Int /\ Total(v, T) \in Int
      /\ Total(v, T) + (IF p \in S THEN w[p] ELSE 0)
           = Total(w, S) + (IF p \in T THEN v[p] ELSE 0)
  BY <1>1, <1>2, <1>5, TotalMoves
<1>7. /\ Carried(at, b, p, r) = (IF p \in S THEN w[p] ELSE 0)
      /\ Carried(at2, b2, p, r) = (IF p \in T THEN v[p] ELSE 0)
  BY <1>4 DEF Carried, S, T
<1> QED
  BY <1>6, <1>7 DEF S, T, w, v

LEMMA UnderwayNow ==
  ASSUME NEW r \in Role
  PROVE  Underway[r] = Total(Load(pc, budget, r), Carrying(pc))
<1>1. Processes(Staging \cup Asking) = Carrying(pc)
  BY DEF Processes, Carrying
<1> QED
  BY <1>1, UnderwayIsTotal DEF Underway

LEMMA UnderwayThen ==
  ASSUME NEW r \in Role
  PROVE  Underway'[r] = Total(Load(pc', budget', r), Carrying(pc'))
<1>1. Processes(Staging \cup Asking)' = Carrying(pc')
  BY DEF Processes, Carrying
<1> QED
  BY <1>1, UnderwayIsTotal DEF Underway

-----------------------------------------------------------------------------
(* Steps.  One process moves, p; what a step may do to the books and to    *)
(* the locks comes in a few kinds.                                         *)

Core == StateTypes /\ Tracks /\ StoreSound

\* Every other process is left as it was.
Alone(p) ==
  \A q \in Process \ {p} : /\ pc'[q] = pc[q] /\ own'[q] = own[q]
                           /\ seen'[q] = seen[q] /\ budget'[q] = budget[q]

\* Nothing is spent, stored or lost, and the budget is kept or opened anew.
Quiet(p) ==
  /\ UNCHANGED <<run, prepared, history>>
  /\ budget'[p] # budget[p] => budget'[p].cycle = Unused
  /\ \A r \in Role : Carried(pc', budget', p, r) = Carried(pc, budget, p, r)

\* One call is claimed.
Claims(p, r) ==
  /\ r \in CycleRole /\ ~ Refused(budget[p], r)
  /\ pc[p] \in Staging \cup Asking /\ pc'[p] \in Staging \cup Asking
  /\ budget'[p] = Claimed(budget[p], r)
  /\ made' = [made EXCEPT ![r] = made[r] + 1]
  /\ UNCHANGED <<run, prepared, lost, past>>

\* The operation is abandoned, and with it what it claimed; extra is what was
\* claimed in this very step.
Drops(p, extra) ==
  /\ pc'[p] = "idle" /\ budget'[p].spent = Unused /\ budget'[p].cycle = Unused
  /\ made' \in Usage /\ lost' \in Usage
  /\ \A r \in Role : made'[r] = made[r] + extra[r]
                     /\ lost'[r] = lost[r] + Carried(pc, budget, p, r) + extra[r]
  /\ UNCHANGED <<run, prepared, staged, erased>>

\* Locks and stagings are left alone, but for what p itself gives up.
Mild ==
  /\ Lapsed' \subseteq Lapsed
  /\ happened'["expiry"] = happened["expiry"]
  /\ prepared' = prepared /\ stagings' = stagings
  /\ \A c \in Cycle : prepared[c] # None => StagingFor(c)' \subseteq StagingFor(c)

LEMMA TracksMove ==
  ASSUME Core, NEW p \in Process, Alone(p), StateTypes', Track(p)', run.head <= run'.head,
         \A c \in Cycle : prepared[c] # None => prepared'[c] # None
  PROVE  Tracks'
<1> SUFFICES ASSUME NEW q \in Process, q # p PROVE Track(q)'
  BY DEF Tracks
<1>1. Track(q) /\ pc'[q] = pc[q] /\ own'[q] = own[q] /\ seen'[q] = seen[q] /\ budget'[q] = budget[q]
  BY DEF Core, Tracks, Alone
<1>2. /\ run.head \in Nat /\ run'.head \in Nat /\ seen[q].head \in Nat
      /\ own[q] \in 0 .. MaxCycle /\ MaxCycle \in Nat
  BY ConstantsAssumption DEF Core, StateTypes, Run
<1>3. pc[q] = "committing" => own[q] \in Cycle
  BY <1>1, <1>2 DEF Track, WorkStages, Cycle
<1> QED
  BY <1>1, <1>2, <1>3 DEF Track

LEMMA EndEffect ==
  ASSUME StateTypes, NEW p \in Process, End(p)
  PROVE  /\ pc' \in [Process -> Stages] /\ own' \in [Process -> 0 .. MaxCycle]
         /\ seen' \in [Process -> Run] /\ budget' \in [Process -> Budget]
         /\ pc'[p] = "idle" /\ budget'[p].spent = Unused /\ budget'[p].cycle = Unused
         /\ Alone(p)
<1> DEFINE fresh == Fresh(Unused)
<1>1. fresh \in Budget /\ fresh.spent = Unused /\ fresh.cycle = Unused
  BY UnusedIsUsage, FreshType
<1>2. NewRun \in Run /\ 0 \in 0 .. MaxCycle /\ "idle" \in Stages
  BY UnusedIsUsage, ConstantsAssumption DEF NewRun, Run, Stages
<1>3. /\ pc' = [pc EXCEPT ![p] = "idle"] /\ own' = [own EXCEPT ![p] = 0]
      /\ seen' = [seen EXCEPT ![p] = NewRun] /\ budget' = [budget EXCEPT ![p] = fresh]
  BY DEF End
<1> HIDE DEF fresh
<1> QED
  BY <1>1, <1>2, <1>3 DEF StateTypes, Alone

LEMMA DroppedIsCarried ==
  ASSUME StateTypes, NEW p \in Process
  PROVE  Dropped(p) \in Usage /\ \A r \in Role : Dropped(p)[r] = Carried(pc, budget, p, r)
BY UnusedIsUsage DEF StateTypes, Budget, Dropped, Carried, Carrying

LEMMA IdleTracks ==
  ASSUME NEW p \in Process, pc'[p] = "idle", budget'[p].spent = Unused
  PROVE  Track(p)'
BY DEF Track, WorkStages, Staging

\* Whoever stops working leaves no lock lapsed and no staging open.
LEMMA LeaveIsMild ==
  ASSUME NEW p \in Process, Alone(p), pc'[p] \notin WorkStages,
         holder' = holder \/ holder' = (IF holder = p THEN None ELSE holder)
  PROVE  /\ Lapsed' \subseteq Lapsed
         /\ \A c \in Cycle : StagingFor(c)' \subseteq StagingFor(c) \ {p}
<1>1. Staging \subseteq WorkStages
  BY DEF WorkStages
<1>2. Lapsed' \subseteq Lapsed
  <2> SUFFICES ASSUME NEW i \in Invocation, pc'[i] \in WorkStages, holder' # i
               PROVE  pc[i] \in WorkStages /\ holder # i
    BY DEF Lapsed
  <2>1. i # p /\ i \in Process
    BY DEF Process
  <2> QED
    BY <2>1 DEF Alone
<1>3. \A c \in Cycle : StagingFor(c)' \subseteq StagingFor(c) \ {p}
  <2> SUFFICES ASSUME NEW c \in Cycle, NEW i \in Invocation, pc'[i] \in Staging, own'[i] = c
               PROVE  pc[i] \in Staging /\ own[i] = c /\ i # p
    BY DEF StagingFor
  <2>1. i # p /\ i \in Process
    BY <1>1 DEF Process
  <2> QED
    BY <2>1 DEF Alone
<1> QED
  BY <1>2, <1>3

LEMMA EndIsMild ==
  ASSUME NEW p \in Process, Alone(p), pc'[p] = "idle",
         holder' = holder \/ holder' = (IF holder = p THEN None ELSE holder),
         happened'["expiry"] = happened["expiry"], UNCHANGED <<prepared, stagings>>
  PROVE  Mild
<1>1. "idle" \notin WorkStages
  BY DEF WorkStages, Staging
<1> QED
  BY <1>1, LeaveIsMild DEF Mild

LEMMA EndCore ==
  ASSUME Core, NEW p \in Process, End(p), UNCHANGED <<stored, staged, erased, stagings>>,
         holder' \in Invocation \cup {None}, made' \in Usage, lost' \in Usage,
         happened' \in [Event -> Nat]
  PROVE  Core'
<1>1. StateTypes'
  BY EndEffect DEF Core, StateTypes, stored
<1>2. run' = run /\ prepared' = prepared /\ run.head \in Nat
  BY DEF stored, Core, StateTypes, Run
<1>3. Tracks'
  BY <1>1, <1>2, EndEffect, IdleTracks, TracksMove DEF Core
<1>4. StoreSound'
  BY <1>2 DEF Core, StoreSound
<1> QED
  BY <1>1, <1>3, <1>4 DEF Core

LEMMA RaiseStep ==
  ASSUME Core, NEW p \in Process, Raise(p), UNCHANGED <<made, happened>>
  PROVE  Core' /\ Alone(p) /\ Mild /\ Drops(p, Unused)
<1>1. /\ End(p) /\ lost' = Merge(lost, Dropped(p)) /\ UNCHANGED <<stored, staged, erased, stagings>>
      /\ holder' = IF holder = p THEN None ELSE holder
  BY DEF Raise, Release, past, stored
<1>2. lost' \in Usage /\ \A r \in Role : lost'[r] = lost[r] + Carried(pc, budget, p, r)
  BY <1>1, DroppedIsCarried, MergeIsUsage DEF Core, StateTypes
<1>3. Core'
  BY <1>1, <1>2, EndCore DEF Core, StateTypes
<1>4. Alone(p) /\ Mild
  BY <1>1, EndEffect, EndIsMild DEF Core, stored
<1>5. \A r \in Role : /\ made'[r] = made[r] + Unused[r]
                      /\ lost'[r] = lost[r] + Carried(pc, budget, p, r) + Unused[r]
  <2>1. \A r \in Role : made[r] \in Nat /\ lost[r] \in Nat /\ Carried(pc, budget, p, r) \in Nat
    BY UnusedIsUsage DEF Core, StateTypes, Usage, Budget, Carried
  <2> QED
    BY <1>2, <2>1, UnusedIsUsage
<1> QED
  BY <1>1, <1>2, <1>3, <1>4, <1>5, EndEffect DEF Drops, Core, StateTypes, stored

\* What most steps come to.
Effect(p) ==
  /\ Core' /\ Alone(p) /\ Mild
  /\ \/ Quiet(p)
     \/ \E r \in CycleRole : Claims(p, r)
     \/ \E extra \in Usage : Drops(p, extra)

LEMMA RaiseEffect ==
  ASSUME Core, NEW p \in Process, Raise(p), UNCHANGED <<made, happened>>
  PROVE  Effect(p)
BY RaiseStep, UnusedIsUsage DEF Effect

LEMMA MoveCore ==
  ASSUME Core, NEW p \in Process, Alone(p), UNCHANGED <<run, prepared, staged, erased, stagings>>,
         pc' \in [Process -> Stages], own' \in [Process -> 0 .. MaxCycle],
         seen' \in [Process -> Run], budget' \in [Process -> Budget],
         holder' \in Invocation \cup {None}, made' \in Usage, lost' \in Usage,
         happened' \in [Event -> Nat], Track(p)'
  PROVE  Core'
<1>1. StateTypes'
  BY DEF Core, StateTypes
<1>2. Tracks'
  <2>1. run.head <= run'.head
    BY ConstantsAssumption DEF Core, StateTypes, Run
  <2> QED
    BY <1>1, <2>1, TracksMove
<1>3. StoreSound'
  BY DEF Core, StoreSound
<1> QED
  BY <1>1, <1>2, <1>3 DEF Core

LEMMA MoveMild ==
  ASSUME NEW p \in Process, Alone(p), happened'["expiry"] = happened["expiry"],
         UNCHANGED <<prepared, stagings>>, holder' = holder \/ (holder = None /\ holder' = p),
         pc'[p] \in WorkStages => pc[p] \in WorkStages \/ holder' = p,
         pc'[p] \in Staging => own'[p] = own[p] /\ (pc[p] \in Staging \/ prepared[own[p]] = None)
  PROVE  Mild
<1>1. Lapsed' \subseteq Lapsed
  <2> SUFFICES ASSUME NEW i \in Invocation, pc'[i] \in WorkStages, holder' # i
               PROVE  pc[i] \in WorkStages /\ holder # i
    BY DEF Lapsed
  <2>1. CASE i = p
    BY <2>1
  <2>2. CASE i # p
    <3>1. i \in Process /\ None \notin Process
      BY ConstantsAssumption DEF Process
    <3> QED
      BY <2>2, <3>1 DEF Alone
  <2> QED
    BY <2>1, <2>2
<1>2. ASSUME NEW c \in Cycle, prepared[c] # None PROVE StagingFor(c)' \subseteq StagingFor(c)
  <2> SUFFICES ASSUME NEW i \in Invocation, pc'[i] \in Staging, own'[i] = c
               PROVE  pc[i] \in Staging /\ own[i] = c
    BY DEF StagingFor
  <2>1. i \in Process
    BY DEF Process
  <2> QED
    BY <1>2, <2>1 DEF Alone
<1> QED
  BY <1>1, <1>2 DEF Mild

LEMMA BudgetOf ==
  ASSUME StateTypes, NEW p \in Process
  PROVE  /\ budget[p] \in Budget /\ budget[p].spent \in Usage /\ budget[p].cycle \in Usage
         /\ seen[p] \in Run /\ seen[p].usage \in Usage /\ run.usage \in Usage
         /\ run.head \in 0 .. MaxCycle /\ seen[p].head \in 0 .. MaxCycle /\ MaxCycle \in Nat
         /\ run.seq \in Nat
BY ConstantsAssumption DEF StateTypes, Budget, Run

-----------------------------------------------------------------------------
(* The steps of a cycle, up to its store.                                  *)

LEMMA ReadRunEffect ==
  ASSUME Core, NEW i \in Invocation, ReadRun(i)
  PROVE  Effect(i)
<1> USE DEF ReadRun, stored, engine, history, past
<1>1. StateTypes /\ i \in Process
  BY DEF Core, Process
<1>2. /\ pc' \in [Process -> Stages] /\ pc'[i] = "locking" /\ pc[i] = "idle"
      /\ own' \in [Process -> 0 .. MaxCycle] /\ own'[i] = run.head + 1
      /\ seen' \in [Process -> Run] /\ seen'[i] = run
      /\ Alone(i)
  BY <1>1, BudgetOf DEF StateTypes, Alone, Stages
<1>3. Track(i)'
  BY <1>1, <1>2, BudgetOf DEF Track, WorkStages, Staging
<1>4. Core'
  BY <1>1, <1>2, <1>3, MoveCore DEF StateTypes
<1>5. Mild
  <2>1. pc'[i] \notin WorkStages /\ pc'[i] \notin Staging
    BY <1>2 DEF WorkStages, Staging
  <2> QED
    BY <1>1, <1>2, <2>1, MoveMild
<1>6. Quiet(i)
  BY <1>2 DEF Quiet, Carried, Carrying, Staging, Asking
<1> QED
  BY <1>2, <1>4, <1>5, <1>6 DEF Effect

LEMMA TakeLockEffect ==
  ASSUME Core, NEW i \in Invocation, TakeLock(i)
  PROVE  Effect(i)
<1>1. StateTypes /\ i \in Process /\ pc[i] = "locking" /\ Track(i)
  BY DEF TakeLock, Core, Process, Tracks
<1>2. UNCHANGED <<stored, history>>
  BY DEF TakeLock
<1>3. CASE /\ holder = None /\ holder' = i /\ Happens("start")
           /\ pc' = [pc EXCEPT ![i] = "preparing"] /\ UNCHANGED <<own, seen, engine, tries>>
  <2> USE DEF stored, engine, history, past
  <2>1. /\ pc' \in [Process -> Stages] /\ pc'[i] = "preparing" /\ Alone(i)
    BY <1>1, <1>3 DEF StateTypes, Alone, Stages
  <2>2. happened' \in [Event -> Nat] /\ happened'["expiry"] = happened["expiry"]
    BY <1>1, <1>3 DEF StateTypes, Happens, Event
  <2>3. Track(i)'
    BY <1>1, <1>2, <1>3, <2>1 DEF Track, WorkStages, Staging
  <2>4. Core'
    BY <1>1, <1>2, <1>3, <2>1, <2>2, <2>3, MoveCore DEF StateTypes
  <2>5. Mild
    BY <1>1, <1>2, <1>3, <2>1, <2>2, MoveMild DEF Staging
  <2>6. Quiet(i)
    BY <1>1, <1>2, <1>3, <2>1 DEF Quiet, Carried, Carrying, Staging, Asking
  <2> QED
    BY <2>1, <2>4, <2>5, <2>6 DEF Effect
<1>4. CASE holder # None /\ End(i) /\ UNCHANGED <<holder, happened>>
  <2> USE DEF stored, engine, history, past
  <2>1. Core'
    BY <1>1, <1>2, <1>4, EndCore DEF StateTypes
  <2>2. Alone(i) /\ Mild /\ pc'[i] = "idle" /\ budget'[i].cycle = Unused
    BY <1>1, <1>2, <1>4, EndEffect, EndIsMild
  <2>3. Quiet(i)
    BY <1>1, <1>2, <2>2 DEF Quiet, Carried, Carrying, Staging, Asking
  <2> QED
    BY <2>1, <2>2, <2>3 DEF Effect
<1> QED
  BY <1>3, <1>4 DEF TakeLock

LEMMA PrepareEffect ==
  ASSUME Core, NEW i \in Invocation, Prepare(i)
  PROVE  Effect(i)
<1> USE DEF stored, history, past
<1>1. StateTypes /\ i \in Process /\ pc[i] = "preparing" /\ Track(i)
  BY DEF Prepare, Core, Process, Tracks
<1>2. UNCHANGED <<stored, holder, own, seen, history, happened>>
  BY DEF Prepare
<1>3. CASE prepared[own[i]] # None /\ pc' = [pc EXCEPT ![i] = "committing"] /\ UNCHANGED budget
  <2>1. /\ pc' \in [Process -> Stages] /\ pc'[i] = "committing" /\ Alone(i)
    BY <1>1, <1>2, <1>3 DEF StateTypes, Alone, Stages
  <2>2. Track(i)'
    BY <1>1, <1>2, <1>3, <2>1 DEF Track, WorkStages, Staging
  <2>3. Core'
    BY <1>1, <1>2, <1>3, <2>1, <2>2, MoveCore DEF StateTypes
  <2>4. Mild
    <3>1. pc[i] \in WorkStages /\ pc'[i] \notin Staging
      BY <1>1, <2>1 DEF WorkStages, Staging
    <3> QED
      BY <1>1, <1>2, <2>1, <3>1, MoveMild
  <2>5. Quiet(i)
    BY <1>1, <1>2, <1>3, <2>1 DEF Quiet, Carried, Carrying, Staging, Asking
  <2> QED
    BY <2>1, <2>3, <2>4, <2>5 DEF Effect
<1>4. CASE /\ prepared[own[i]] = None /\ pc' = [pc EXCEPT ![i] = "writing"]
           /\ budget' = [budget EXCEPT ![i] = OpenCycle(Fresh(seen[i].usage), FALSE)]
  <2> DEFINE b == OpenCycle(Fresh(seen[i].usage), FALSE)
  <2>1. b \in Budget /\ b.spent = Unused /\ b.cycle = Unused
    BY <1>1, BudgetOf, FreshType
  <2>2. budget' = [budget EXCEPT ![i] = b]
    BY <1>4
  <2> HIDE DEF b
  <2>3. /\ pc' \in [Process -> Stages] /\ pc'[i] = "writing" /\ Alone(i)
        /\ budget' \in [Process -> Budget] /\ budget'[i] = b
    BY <1>1, <1>2, <1>4, <2>1, <2>2 DEF StateTypes, Alone, Stages, Staging
  <2>4. Track(i)'
    BY <1>1, <1>2, <2>3 DEF Track, WorkStages, Staging
  <2>5. Core'
    BY <1>1, <1>2, <2>3, <2>4, MoveCore DEF StateTypes
  <2>6. Mild
    <3>1. pc[i] \in WorkStages
      BY <1>1 DEF WorkStages
    <3> QED
      BY <1>1, <1>2, <1>4, <2>3, <3>1, MoveMild
  <2>7. Quiet(i)
    BY <1>1, <1>2, <2>1, <2>3, UnusedIsUsage DEF Quiet, Carried, Carrying, Staging, Asking
  <2> QED
    BY <2>3, <2>5, <2>6, <2>7 DEF Effect
<1> QED
  BY <1>3, <1>4 DEF Prepare, Reusable

\* A claim, by p, that goes on to one of the stages in which claims are carried.
LEMMA ClaimEffect ==
  ASSUME Core, NEW p \in Process, NEW r \in CycleRole, Claim(p, r),
         pc[p] \in Staging \cup Asking, NEW then \in Staging \cup Asking,
         pc' = [pc EXCEPT ![p] = then],
         then \in Staging <=> pc[p] \in Staging,
         UNCHANGED <<run, prepared, holder, own, seen, lost, past, happened>>
  PROVE  Effect(p)
<1> DEFINE n == Claimed(budget[p], r)
<1>1. StateTypes /\ Track(p) /\ r \in Role
  BY RolesAre DEF Core, Tracks
<1>2. n \in Budget
  BY <1>1, BudgetOf, ClaimedType
<1>3. /\ budget' = [budget EXCEPT ![p] = n] /\ made' = [made EXCEPT ![r] = made[r] + 1]
      /\ ~ Refused(budget[p], r)
  BY DEF Claim
<1> HIDE DEF n
<1>4. Staging \cup Asking \subseteq Stages
  BY DEF Stages
<1>5. /\ pc' \in [Process -> Stages] /\ pc'[p] = then /\ Alone(p)
      /\ budget' \in [Process -> Budget] /\ budget'[p] = n /\ made' \in Usage
  BY <1>1, <1>2, <1>3, <1>4 DEF StateTypes, Alone, Usage
<1>6. /\ "idle" \notin Staging \cup Asking /\ "committing" \notin Staging \cup Asking
      /\ "locking" \notin Staging \cup Asking /\ "preparing" \notin Staging \cup Asking
  BY DEF Staging, Asking
<1>7. Track(p)'
  BY <1>1, <1>5, <1>6 DEF Track, WorkStages
<1>8. Core'
  BY <1>1, <1>5, <1>7, MoveCore DEF StateTypes, past
<1>9. Mild
  <2>1. UNCHANGED <<prepared, stagings>>
    BY DEF past
  <2>2. pc'[p] \in WorkStages => pc[p] \in WorkStages
    BY <1>5, <1>6 DEF WorkStages
  <2> QED
    BY <1>5, <2>1, <2>2, MoveMild
<1>10. Claims(p, r)
  <2>1. UNCHANGED <<run, prepared, lost, past>>
    OBVIOUS
  <2> QED
    BY <1>3, <1>5, <2>1 DEF Claims, n
<1> QED
  BY <1>5, <1>8, <1>9, <1>10 DEF Effect

\* A claimed call that fails takes the operation, and all its claims, with it.
LEMMA FailedCallEffect ==
  ASSUME Core, NEW p \in Process, NEW r \in CycleRole,
         pc[p] \in Staging \cup Asking, Happens("fault"), End(p), Release(p),
         made' = [made EXCEPT ![r] = made[r] + 1],
         lost' = Merge(lost, Claimed(budget[p], r).spent),
         UNCHANGED <<stored, past>>
  PROVE  Effect(p)
<1> DEFINE n == Claimed(budget[p], r)
           extra == [Unused EXCEPT ![r] = 1]
<1>1. StateTypes /\ r \in Role
  BY RolesAre DEF Core
<1>2. /\ budget[p] \in Budget /\ budget[p].spent \in Usage
      /\ made \in Usage /\ lost \in Usage
  BY <1>1, BudgetOf DEF StateTypes
<1>3. /\ n \in Budget /\ n.spent \in Usage /\ n.spent[r] = budget[p].spent[r] + 1
      /\ \A q \in Role \ {r} : n.spent[q] = budget[p].spent[q]
  BY <1>1, <1>2, ClaimedType DEF Budget
<1> HIDE DEF n
<1>4. lost' \in Usage /\ \A q \in Role : lost'[q] = lost[q] + n.spent[q]
  BY <1>2, <1>3, MergeIsUsage DEF n
<1>5. made' \in Usage
  BY <1>1, <1>2 DEF Usage
<1>6. happened' \in [Event -> Nat] /\ happened'["expiry"] = happened["expiry"]
  BY <1>1 DEF StateTypes, Happens, Event
<1>7. holder' \in Invocation \cup {None} /\ holder' = IF holder = p THEN None ELSE holder
  BY <1>1 DEF StateTypes, Release
<1>8. UNCHANGED <<stored, staged, erased, stagings>> /\ UNCHANGED <<prepared, stagings>>
  BY DEF stored, past
<1>9. Core'
  BY <1>4, <1>5, <1>6, <1>7, <1>8, EndCore
<1>10. /\ Alone(p) /\ pc'[p] = "idle" /\ budget'[p].spent = Unused /\ budget'[p].cycle = Unused
  BY <1>1, EndEffect
<1>11. Mild
  BY <1>1, <1>6, <1>7, <1>8, <1>10, EndIsMild
<1>12. extra \in Usage /\ extra[r] = 1 /\ \A q \in Role \ {r} : extra[q] = 0
  BY <1>1, UnusedIsUsage DEF Usage
<1> HIDE DEF extra
<1>13. \A q \in Role : /\ made'[q] = made[q] + extra[q]
                       /\ lost'[q] = lost[q] + Carried(pc, budget, p, q) + extra[q]
  <2> SUFFICES ASSUME NEW q \in Role
               PROVE  /\ made'[q] = made[q] + extra[q]
                      /\ lost'[q] = lost[q] + Carried(pc, budget, p, q) + extra[q]
    OBVIOUS
  <2>1. Carried(pc, budget, p, q) = budget[p].spent[q]
    BY DEF Carried, Carrying
  <2>2. made[q] \in Nat /\ lost[q] \in Nat /\ budget[p].spent[q] \in Nat
    BY <1>2 DEF Usage
  <2>3. CASE q = r
    BY <1>2, <1>3, <1>4, <1>12, <2>1, <2>2, <2>3 DEF Usage
  <2>4. CASE q # r
    BY <1>2, <1>3, <1>4, <1>12, <2>1, <2>2, <2>4 DEF Usage
  <2> QED
    BY <2>3, <2>4
<1>14. Drops(p, extra)
  BY <1>4, <1>5, <1>8, <1>10, <1>13 DEF Drops, stored
<1> QED
  BY <1>9, <1>10, <1>11, <1>12, <1>14 DEF Effect

LEMMA CallEffect ==
  ASSUME Core, NEW p \in Process, NEW r \in CycleRole, NEW then, NEW n, Call(p, r, then, n),
         pc[p] \in Staging \cup Asking, then \in Staging \cup Asking,
         then \in Staging <=> pc[p] \in Staging
  PROVE  Effect(p)
<1>1. CASE /\ Claim(p, r) /\ pc' = [pc EXCEPT ![p] = then]
           /\ UNCHANGED <<stored, holder, own, seen, lost, past, happened>>
  <2>1. UNCHANGED <<run, prepared, holder, own, seen, lost, past, happened>>
    BY <1>1 DEF stored
  <2> QED
    BY <1>1, <2>1, ClaimEffect
<1>2. CASE /\ Happens("fault") /\ End(p) /\ Release(p)
           /\ made' = [made EXCEPT ![r] = made[r] + 1]
           /\ lost' = Merge(lost, Claimed(budget[p], r).spent)
           /\ UNCHANGED <<stored, past>>
  BY <1>2, FailedCallEffect
<1>3. CASE Raise(p) /\ UNCHANGED <<made, happened>>
  BY <1>3, RaiseEffect
<1> QED
  BY <1>1, <1>2, <1>3 DEF Call

LEMMA StartWriterEffect ==
  ASSUME Core, NEW i \in Invocation, StartWriter(i)
  PROVE  Effect(i)
<1>1. /\ StateTypes /\ i \in Process /\ pc[i] = "writing" /\ Track(i)
      /\ UNCHANGED <<stored, holder, pc, own, seen, lost, past, happened>>
  BY DEF StartWriter, Core, Process, Tracks
<1>2. "writer" \in CycleRole /\ "writing" \in Staging
  BY DEF CycleRole, Staging
<1>3. CASE Claim(i, "writer")
  <2>1. pc' = [pc EXCEPT ![i] = "writing"]
    BY <1>1 DEF StateTypes
  <2>2. UNCHANGED <<run, prepared, holder, own, seen, lost, past, happened>>
    BY <1>1 DEF stored
  <2> QED
    BY <1>1, <1>2, <1>3, <2>1, <2>2, ClaimEffect
<1>4. CASE UNCHANGED <<budget, made>>
  <2>1. UNCHANGED <<run, prepared, holder, pc, own, seen, budget, history, happened>>
    BY <1>1, <1>4 DEF stored, history
  <2>2. UNCHANGED <<run, prepared, staged, erased, stagings, made, lost>>
    BY <2>1 DEF history, past
  <2>3. Alone(i)
    BY <2>1 DEF Alone
  <2>4. Track(i)'
    BY <1>1, <2>1 DEF Track
  <2>5. Core'
    BY <1>1, <2>1, <2>2, <2>3, <2>4, MoveCore DEF StateTypes
  <2>6. Mild
    BY <1>1, <1>2, <2>1, <2>2, <2>3, MoveMild
  <2>7. Quiet(i)
    BY <2>1 DEF Quiet, Carried, Carrying
  <2> QED
    BY <2>3, <2>5, <2>6, <2>7 DEF Effect
<1> QED
  BY <1>3, <1>4 DEF StartWriter

\* A step that only moves pc, within the staging or within the asking, or
\* changes nothing of what is proved about.
LEMMA PassEffect ==
  ASSUME Core, NEW p \in Process, NEW then \in Stages, pc' = [pc EXCEPT ![p] = then],
         \/ then = pc[p]
         \/ pc[p] \in Staging /\ then \in Staging
         \/ pc[p] \in Asking /\ then \in Asking,
         UNCHANGED <<run, prepared, holder, own, budget, made, lost, past>>,
         seen' \in [Process -> Run], \A q \in Process \ {p} : seen'[q] = seen[q],
         seen' = seen \/ pc[p] \in Asking,
         happened' \in [Event -> Nat], happened'["expiry"] = happened["expiry"]
  PROVE  Effect(p)
<1>1. StateTypes /\ Track(p)
  BY DEF Core, Tracks
<1>2. pc' \in [Process -> Stages] /\ pc'[p] = then /\ Alone(p)
  BY <1>1 DEF StateTypes, Alone
<1>3. \A x \in Staging \cup Asking :
        x \notin {"idle", "locking", "preparing", "committing"}
  BY DEF Staging, Asking
<1>4. Staging \cap Asking = {}
  BY DEF Staging, Asking
<1>5. Track(p)'
  BY <1>1, <1>2, <1>3, <1>4 DEF Track, WorkStages
<1>6. UNCHANGED <<staged, erased, stagings, history>>
  BY DEF past, history
<1>7. Core'
  BY <1>1, <1>2, <1>5, <1>6, MoveCore DEF StateTypes
<1>8. Mild
  <2>1. pc'[p] \in WorkStages => pc[p] \in WorkStages
    BY <1>2, <1>3, <1>4 DEF WorkStages
  <2>2. pc'[p] \in Staging => pc[p] \in Staging
    BY <1>2, <1>4
  <2> QED
    BY <1>2, <1>6, <2>1, <2>2, MoveMild
<1>9. Quiet(p)
  <2>1. p \in Carrying(pc)' <=> p \in Carrying(pc)
    BY <1>2 DEF Carrying
  <2> QED
    BY <1>2, <1>6, <2>1 DEF Quiet, Carried, Carrying
<1> QED
  BY <1>2, <1>7, <1>8, <1>9 DEF Effect

LEMMA WriterReturnsEffect ==
  ASSUME Core, NEW i \in Invocation, NEW a \in Arm, WriterReturns(i, a)
  PROVE  Effect(i)
<1>1. StateTypes /\ i \in Process
  BY DEF Core, Process
<1>2. UNCHANGED <<run, prepared, holder, pc, own, seen, budget, made, lost, past>>
  BY DEF WriterReturns, stored, history
<1>3. happened' \in [Event -> Nat] /\ happened'["expiry"] = happened["expiry"]
  BY <1>1 DEF StateTypes, WriterReturns, Happens, Event
<1>4. pc' = [pc EXCEPT ![i] = pc[i]] /\ pc[i] \in Stages /\ seen' = seen /\ seen \in [Process -> Run]
  BY <1>1, <1>2 DEF StateTypes
<1> QED
  BY <1>1, <1>2, <1>3, <1>4, PassEffect

LEMMA GatherEffect ==
  ASSUME Core, NEW i \in Invocation, Gather(i)
  PROVE  Effect(i)
<1>1. StateTypes /\ i \in Process /\ pc[i] = "writing" /\ UNCHANGED <<happened, made>>
  BY DEF Core, Process, Gather
<1>2. CASE /\ pc' = [pc EXCEPT ![i] = "counting"]
           /\ UNCHANGED <<stored, holder, own, seen, engine, lost, past>>
  <2>1. UNCHANGED <<run, prepared, holder, own, seen, budget, made, lost, past, happened>>
    BY <1>1, <1>2 DEF stored, engine
  <2>2. "counting" \in Stages /\ "counting" \in Staging /\ "writing" \in Staging
    BY DEF Stages, Staging
  <2>3. happened' \in [Event -> Nat] /\ seen' \in [Process -> Run]
    BY <1>1, <2>1 DEF StateTypes
  <2> QED
    BY <1>1, <1>2, <2>1, <2>2, <2>3, PassEffect
<1>3. CASE Raise(i)
  BY <1>1, <1>3, RaiseEffect
<1> QED
  BY <1>2, <1>3 DEF Gather

LEMMA CountCandidateEffect ==
  ASSUME Core, NEW i \in Invocation, CountCandidate(i)
  PROVE  Effect(i)
<1>1. /\ i \in Process /\ pc[i] = "counting"
      /\ Call(i, "token_counter", "rebalancing", turn[i])
  BY DEF CountCandidate, Process
<1>2. {"counting", "rebalancing"} \subseteq Staging /\ "token_counter" \in CycleRole
  BY DEF Staging, CycleRole
<1> QED
  BY <1>1, <1>2, CallEffect

LEMMA WriteSummaryEffect ==
  ASSUME Core, NEW i \in Invocation, WriteSummary(i)
  PROVE  Effect(i)
<1>1. /\ i \in Process /\ pc[i] = "rebalancing"
      /\ Call(i, "summarizer", "rebalancing", turn[i])
  BY DEF WriteSummary, Process
<1>2. "rebalancing" \in Staging /\ "summarizer" \in CycleRole
  BY DEF Staging, CycleRole
<1> QED
  BY <1>1, <1>2, CallEffect

LEMMA FinishArmEffect ==
  ASSUME Core, NEW i \in Invocation, FinishArm(i)
  PROVE  Effect(i)
<1> DEFINE then == IF turn[i] = Len(Order) THEN "storing" ELSE "counting"
<1>1. /\ StateTypes /\ i \in Process /\ pc[i] = "rebalancing"
      /\ pc' = [pc EXCEPT ![i] = then]
  BY DEF Core, Process, FinishArm
<1>2. UNCHANGED <<run, prepared, holder, own, seen, budget, made, lost, past, happened>>
  BY DEF FinishArm, stored, history
<1>3. then \in Stages /\ then \in Staging /\ "rebalancing" \in Staging
  BY DEF Stages, Staging
<1>4. happened' \in [Event -> Nat] /\ seen' \in [Process -> Run]
  BY <1>1, <1>2 DEF StateTypes
<1> HIDE DEF then
<1> QED
  BY <1>1, <1>2, <1>3, <1>4, PassEffect

-----------------------------------------------------------------------------
(* The steps of a checkpoint and of add_usage, faults.                     *)

LEMMA FireCheckpointEffect ==
  ASSUME Core, NEW p \in Process, FireCheckpoint(p)
  PROVE  Effect(p)
<1>1. StateTypes /\ pc[p] = "idle" /\ Track(p)
  BY DEF Core, Tracks, FireCheckpoint
<1>2. UNCHANGED <<run, prepared, holder, seen, budget, made, lost, staged, erased, stagings, happened>>
  BY DEF FireCheckpoint, stored, engine, history, past
<1>3. /\ pc' \in [Process -> Stages] /\ pc'[p] = "checkpoint"
      /\ own' \in [Process -> 0 .. MaxCycle] /\ Alone(p)
  BY <1>1, <1>2, BudgetOf DEF StateTypes, FireCheckpoint, Alone, Stages
<1>4. "checkpoint" \notin WorkStages /\ "checkpoint" \notin Staging
  BY DEF WorkStages, Staging
<1>5. Track(p)'
  BY <1>3, <1>4 DEF Track
<1>6. Core'
  BY <1>1, <1>2, <1>3, <1>5, MoveCore DEF StateTypes
<1>7. Mild
  BY <1>2, <1>3, <1>4, MoveMild
<1>8. Quiet(p)
  <2>1. UNCHANGED history
    BY <1>2 DEF history, past
  <2> QED
    BY <1>1, <1>2, <1>3, <2>1 DEF Quiet, Carried, Carrying, Staging, Asking
<1> QED
  BY <1>3, <1>6, <1>7, <1>8 DEF Effect

LEMMA EndEffectOfNothing ==
  ASSUME Core, NEW p \in Process, End(p), pc[p] \notin Staging \cup Asking,
         UNCHANGED <<stored, holder, history, happened>>
  PROVE  Effect(p)
<1>1. StateTypes
  BY DEF Core
<1>2. UNCHANGED <<stored, staged, erased, stagings>> /\ UNCHANGED <<run, prepared, made, lost, history>>
  BY DEF stored, history, past
<1>3. Core'
  BY <1>1, <1>2, EndCore DEF StateTypes
<1>4. Alone(p) /\ Mild /\ pc'[p] = "idle" /\ budget'[p].cycle = Unused
  BY <1>1, <1>2, EndEffect, EndIsMild
<1>5. Quiet(p)
  BY <1>2, <1>4 DEF Quiet, Carried, Carrying, Staging, Asking
<1> QED
  BY <1>3, <1>4, <1>5 DEF Effect

LEMMA BeginCheckpointEffect ==
  ASSUME Core, NEW p \in Process, BeginCheckpoint(p)
  PROVE  Effect(p)
<1>1. /\ StateTypes /\ pc[p] = "checkpoint"
      /\ UNCHANGED <<stored, holder, history, happened>>
  BY DEF Core, BeginCheckpoint
<1>2. CASE End(p)
  BY <1>1, <1>2, EndEffectOfNothing DEF Staging, Asking
<1>3. CASE /\ seen' = [seen EXCEPT ![p] = run]
           /\ budget' = [budget EXCEPT ![p] = OpenCycle(Fresh(run.usage), TRUE)]
           /\ pc' = [pc EXCEPT ![p] = "asking"]
           /\ UNCHANGED own
  <2> DEFINE b == OpenCycle(Fresh(run.usage), TRUE)
  <2>1. b \in Budget /\ b.spent = Unused /\ b.cycle = Unused
    BY <1>1, BudgetOf, FreshType
  <2>2. budget' = [budget EXCEPT ![p] = b]
    BY <1>3
  <2> HIDE DEF b
  <2>3. "asking" \notin WorkStages /\ "asking" \notin Staging /\ "asking" \in Stages
    BY DEF WorkStages, Staging, Stages, Asking
  <2>4. /\ pc' \in [Process -> Stages] /\ pc'[p] = "asking" /\ seen' \in [Process -> Run]
        /\ budget' \in [Process -> Budget] /\ budget'[p] = b /\ Alone(p)
    BY <1>1, <1>3, <2>1, <2>2, <2>3 DEF StateTypes, Alone
  <2>5. Track(p)'
    BY <2>3, <2>4 DEF Track
  <2>6. UNCHANGED <<run, prepared, made, lost, staged, erased, stagings>>
    BY <1>1 DEF stored, history, past
  <2>7. Core'
    BY <1>1, <1>3, <2>4, <2>5, <2>6, MoveCore DEF StateTypes
  <2>8. Mild
    BY <1>1, <2>3, <2>4, <2>6, MoveMild
  <2>9. Quiet(p)
    BY <1>1, <2>1, <2>4, <2>6, UnusedIsUsage DEF Quiet, Carried, Carrying, Staging, Asking
  <2> QED
    BY <2>4, <2>7, <2>8, <2>9 DEF Effect
<1> QED
  BY <1>2, <1>3 DEF BeginCheckpoint

LEMMA InterviewEffect ==
  ASSUME Core, NEW p \in Process, Interview(p)
  PROVE  Effect(p)
<1>1. pc[p] = "asking" /\ "interviewer" \in CycleRole
  BY DEF Interview, CycleRole
<1>2. /\ {"asking", "keeping"} \subseteq Asking
      /\ "asking" \notin Staging /\ "keeping" \notin Staging
  BY DEF Staging, Asking
<1>3. CASE Call(p, "interviewer", "keeping", turn[p])
  BY <1>1, <1>2, <1>3, CallEffect
<1>4. CASE Call(p, "interviewer", "asking", Min(Later(p)))
  BY <1>1, <1>2, <1>4, CallEffect
<1> QED
  BY <1>3, <1>4 DEF Interview

LEMMA StoreInterviewsEffect ==
  ASSUME Core, NEW p \in Process, StoreInterviews(p)
  PROVE  Effect(p)
<1>1. /\ StateTypes /\ pc[p] = "keeping" /\ pc' = [pc EXCEPT ![p] = "reading"]
      /\ UNCHANGED <<run, prepared, holder, own, seen, budget, made, lost, past, happened>>
  BY DEF Core, StoreInterviews, engine, history
<1>2. {"keeping", "reading"} \subseteq Asking /\ "reading" \in Stages
  BY DEF Asking, Stages
<1>3. happened' \in [Event -> Nat] /\ seen' \in [Process -> Run]
  BY <1>1 DEF StateTypes
<1> QED
  BY <1>1, <1>2, <1>3, PassEffect

LEMMA ReadUsageEffect ==
  ASSUME Core, NEW p \in Process, ReadUsage(p)
  PROVE  Effect(p)
<1>1. /\ StateTypes /\ pc[p] = "reading" /\ pc' = [pc EXCEPT ![p] = "adding"]
      /\ seen' = [seen EXCEPT ![p] = run]
      /\ UNCHANGED <<run, prepared, holder, own, budget, made, lost, past, happened>>
  BY DEF Core, ReadUsage, stored, engine, history
<1>2. {"adding", "reading"} \subseteq Asking /\ "adding" \in Stages
  BY DEF Asking, Stages
<1>3. /\ happened' \in [Event -> Nat] /\ seen' \in [Process -> Run]
      /\ \A q \in Process \ {p} : seen'[q] = seen[q]
  BY <1>1 DEF StateTypes
<1> QED
  BY <1>1, <1>2, <1>3, PassEffect

LEMMA ContendedEffect ==
  ASSUME Core, NEW p \in Process, Contended(p)
  PROVE  Effect(p)
<1>1. StateTypes /\ pc[p] = "adding" /\ UNCHANGED <<made, happened>>
  BY DEF Core, Contended
<1>2. CASE /\ pc' = [pc EXCEPT ![p] = "reading"]
           /\ UNCHANGED <<stored, holder, own, seen, engine, tries, lost, past>>
  <2>1. UNCHANGED <<run, prepared, holder, own, seen, budget, made, lost, past, happened>>
    BY <1>1, <1>2 DEF stored, engine
  <2>2. {"adding", "reading"} \subseteq Asking /\ "reading" \in Stages
    BY DEF Asking, Stages
  <2>3. happened' \in [Event -> Nat] /\ seen' \in [Process -> Run]
    BY <1>1, <2>1 DEF StateTypes
  <2> QED
    BY <1>1, <1>2, <2>1, <2>2, <2>3, PassEffect
<1>3. CASE Raise(p)
  BY <1>1, <1>3, RaiseEffect
<1> QED
  BY <1>2, <1>3 DEF Contended

LEMMA CrashEffect ==
  ASSUME Core, NEW p \in Process, Crash(p)
  PROVE  Effect(p)
<1>1. /\ StateTypes /\ End(p) /\ lost' = Merge(lost, Dropped(p))
      /\ UNCHANGED <<stored, holder, made, staged, erased, stagings>>
  BY DEF Core, Crash, past
<1>2. happened' \in [Event -> Nat] /\ happened'["expiry"] = happened["expiry"]
  BY <1>1 DEF StateTypes, Crash, Happens, Event
<1>3. lost' \in Usage /\ \A r \in Role : lost'[r] = lost[r] + Carried(pc, budget, p, r)
  BY <1>1, DroppedIsCarried, MergeIsUsage DEF StateTypes
<1>4. Core'
  BY <1>1, <1>2, <1>3, EndCore DEF StateTypes
<1>5. /\ Alone(p) /\ pc'[p] = "idle" /\ budget'[p].spent = Unused /\ budget'[p].cycle = Unused
  BY <1>1, EndEffect
<1>6. UNCHANGED <<run, prepared, staged, erased, stagings>>
  BY <1>1 DEF stored
<1>7. Mild
  BY <1>1, <1>2, <1>5, <1>6, EndIsMild
<1>8. \A r \in Role : /\ made'[r] = made[r] + Unused[r]
                      /\ lost'[r] = lost[r] + Carried(pc, budget, p, r) + Unused[r]
  <2>1. \A r \in Role : made[r] \in Nat /\ lost[r] \in Nat /\ Carried(pc, budget, p, r) \in Nat
    BY <1>1, UnusedIsUsage DEF StateTypes, Usage, Budget, Carried
  <2> QED
    BY <1>1, <1>3, <2>1, UnusedIsUsage
<1>9. Drops(p, Unused)
  BY <1>1, <1>3, <1>5, <1>6, <1>8 DEF Drops, StateTypes
<1> QED
  BY <1>4, <1>5, <1>7, <1>9, UnusedIsUsage DEF Effect

\* Reading and working, up to the three steps that write to the run.
WorkStep(p) ==
  \/ /\ p \in Invocation
     /\ \/ ReadRun(p) \/ TakeLock(p) \/ Prepare(p) \/ StartWriter(p) \/ Gather(p)
        \/ (\E a \in Arm : WriterReturns(p, a))
        \/ CountCandidate(p) \/ WriteSummary(p) \/ FinishArm(p)
  \/ Ask(p) \/ FireCheckpoint(p) \/ ReadUsage(p) \/ Contended(p) \/ Crash(p)

LEMMA WorkEffect ==
  ASSUME Core, NEW p \in Process, WorkStep(p)
  PROVE  Effect(p)
<1>1. CASE Ask(p)
  BY <1>1, BeginCheckpointEffect, InterviewEffect, StoreInterviewsEffect DEF Ask
<1>2. CASE ~ Ask(p)
  BY <1>2, ReadRunEffect, TakeLockEffect, PrepareEffect, StartWriterEffect, GatherEffect,
     WriterReturnsEffect, CountCandidateEffect, WriteSummaryEffect, FinishArmEffect,
     FireCheckpointEffect, ReadUsageEffect, ContendedEffect, CrashEffect DEF WorkStep
<1> QED
  BY <1>1, <1>2

-----------------------------------------------------------------------------
(* The books: what one step moves from one account to another.             *)

Balanced(p) ==
  \A r \in Role :
    made'[r] + run.usage[r] + Carried(pc, budget, p, r) + Staged[r] + lost[r] + erased[r]
      = made[r] + run'.usage[r] + Carried(pc', budget', p, r) + Staged'[r] + lost'[r] + erased'[r]

LEMMA StagedIsUsage ==
  ASSUME StateTypes
  PROVE  Staged \in Usage
<1>1. run.head \in 0 .. MaxCycle /\ MaxCycle \in Nat
  BY ConstantsAssumption DEF StateTypes, Run
<1>2. run.head < MaxCycle => run.head + 1 \in Cycle
  BY <1>1 DEF Cycle
<1>3. \A c \in Cycle : staged[c].own \in Usage
  BY DEF StateTypes
<1> QED
  BY <1>2, <1>3, UnusedIsUsage DEF Staged

LEMMA BooksAreNumbers ==
  ASSUME StateTypes, NEW r \in Role, NEW p \in Process
  PROVE  /\ made[r] \in Nat /\ run.usage[r] \in Nat /\ Staged[r] \in Nat /\ lost[r] \in Nat
         /\ erased[r] \in Int /\ Carried(pc, budget, p, r) \in Nat
<1>1. /\ made \in Usage /\ run.usage \in Usage /\ Staged \in Usage /\ lost \in Usage
      /\ erased \in [Role -> Int] /\ budget[p].spent \in Usage
  BY BudgetOf, StagedIsUsage DEF StateTypes
<1> QED
  BY <1>1 DEF Usage, Carried

LEMMA BooksStayNumbers ==
  ASSUME StateTypes', NEW r \in Role, NEW p \in Process
  PROVE  /\ made'[r] \in Nat /\ run'.usage[r] \in Nat /\ Staged'[r] \in Nat /\ lost'[r] \in Nat
         /\ erased'[r] \in Int /\ Carried(pc', budget', p, r) \in Nat
<1>1. /\ made' \in Usage /\ run'.usage \in Usage /\ lost' \in Usage
      /\ erased' \in [Role -> Int] /\ budget'[p].spent \in Usage
  BY DEF StateTypes, Budget, Run
<1>2. Staged' \in Usage
  <2>1. run'.head \in 0 .. MaxCycle /\ MaxCycle \in Nat
    BY ConstantsAssumption DEF StateTypes, Run
  <2>2. run'.head < MaxCycle => run'.head + 1 \in Cycle
    BY <2>1 DEF Cycle
  <2>3. \A c \in Cycle : staged'[c].own \in Usage
    BY DEF StateTypes
  <2> QED
    BY <2>2, <2>3, UnusedIsUsage DEF Staged
<1> QED
  BY <1>1, <1>2 DEF Usage, Carried

LEMMA AccountsMove ==
  ASSUME StateTypes, StateTypes', NEW p \in Process, Alone(p), Balanced(p), EveryCallAccounted
  PROVE  EveryCallAccounted'
<1> SUFFICES ASSUME NEW r \in Role
             PROVE  made'[r] = run'.usage[r] + Underway'[r] + Staged'[r] + lost'[r] + erased'[r]
  BY DEF EveryCallAccounted
<1> DEFINE u == Total(Load(pc, budget, r), Carrying(pc))
           v == Total(Load(pc', budget', r), Carrying(pc'))
<1>1. Underway[r] = u /\ Underway'[r] = v
  BY UnderwayNow, UnderwayThen
<1>2. /\ u \in Int /\ v \in Int
      /\ v + Carried(pc, budget, p, r) = u + Carried(pc', budget', p, r)
  <2>1. /\ budget \in [Process -> Budget] /\ budget' \in [Process -> Budget]
        /\ \A q \in Process \ {p} : pc'[q] = pc[q] /\ budget'[q] = budget[q]
    BY DEF StateTypes, Alone
  <2> QED
    BY <2>1, CarriedMoves
<1> HIDE DEF u, v
<1>3. made[r] = run.usage[r] + u + Staged[r] + lost[r] + erased[r]
  BY <1>1 DEF EveryCallAccounted
<1>4. made'[r] + run.usage[r] + Carried(pc, budget, p, r) + Staged[r] + lost[r] + erased[r]
        = made[r] + run'.usage[r] + Carried(pc', budget', p, r) + Staged'[r] + lost'[r] + erased'[r]
  BY DEF Balanced
<1>5. made'[r] = run'.usage[r] + v + Staged'[r] + lost'[r] + erased'[r]
  BY <1>2, <1>3, <1>4, BooksAreNumbers, BooksStayNumbers
<1> QED
  BY <1>1, <1>5

LEMMA EffectIsBalanced ==
  ASSUME Core, NEW p \in Process, Effect(p)
  PROVE  Balanced(p)
<1>1. StateTypes /\ StateTypes' /\ UNCHANGED <<run, staged, erased>>
  BY DEF Effect, Core, Quiet, Claims, Drops, history, past
<1>2. Staged' = Staged
  BY <1>1 DEF Staged
<1> SUFFICES ASSUME NEW r \in Role
             PROVE  made'[r] + run.usage[r] + Carried(pc, budget, p, r) + Staged[r] + lost[r] + erased[r]
                      = made[r] + run'.usage[r] + Carried(pc', budget', p, r) + Staged'[r]
                          + lost'[r] + erased'[r]
  BY DEF Balanced
<1>3. made'[r] + Carried(pc, budget, p, r) + lost[r] = made[r] + Carried(pc', budget', p, r) + lost'[r]
  <2>1. CASE Quiet(p)
    BY <1>1, <2>1, BooksAreNumbers DEF Quiet, history
  <2>2. ASSUME NEW q \in CycleRole, Claims(p, q)
        PROVE  made'[r] + Carried(pc, budget, p, r) + lost[r]
                 = made[r] + Carried(pc', budget', p, r) + lost'[r]
    <3>1. /\ q \in Role /\ budget[p] \in Budget /\ made \in Usage /\ lost' = lost
          /\ made' = [made EXCEPT ![q] = made[q] + 1] /\ budget'[p] = Claimed(budget[p], q)
      BY <1>1, <2>2, RolesAre, BudgetOf DEF Claims, StateTypes
    <3>2. /\ Carried(pc, budget, p, r) = budget[p].spent[r]
          /\ Carried(pc', budget', p, r) = budget'[p].spent[r]
      BY <2>2 DEF Claims, Carried, Carrying
    <3>3. CASE r = q
      <4>1. budget'[p].spent[q] = budget[p].spent[q] + 1
        BY <3>1, ClaimedType
      <4>2. made'[q] = made[q] + 1
        BY <3>1 DEF Usage
      <4> QED
        BY <1>1, <3>1, <3>2, <3>3, <4>1, <4>2, BooksAreNumbers
    <3>4. CASE r # q
      <4>1. budget'[p].spent[r] = budget[p].spent[r]
        BY <3>1, <3>4, ClaimedType
      <4>2. made'[r] = made[r]
        BY <3>1, <3>4 DEF Usage
      <4> QED
        BY <1>1, <3>1, <3>2, <4>1, <4>2, BooksAreNumbers
    <3> QED
      BY <3>3, <3>4
  <2>3. ASSUME NEW extra \in Usage, Drops(p, extra)
        PROVE  made'[r] + Carried(pc, budget, p, r) + lost[r]
                 = made[r] + Carried(pc', budget', p, r) + lost'[r]
    <3>1. Carried(pc', budget', p, r) = 0
      BY <2>3 DEF Drops, Carried, Carrying, Staging, Asking
    <3>2. /\ made'[r] = made[r] + extra[r] /\ extra[r] \in Nat
          /\ lost'[r] = lost[r] + Carried(pc, budget, p, r) + extra[r]
      BY <2>3 DEF Drops, Usage
    <3> QED
      BY <1>1, <3>1, <3>2, BooksAreNumbers
  <2> QED
    BY <2>1, <2>2, <2>3 DEF Effect
<1> QED
  BY <1>1, <1>2, <1>3, BooksAreNumbers, BooksStayNumbers

-----------------------------------------------------------------------------
(* Allowances.                                                             *)

\* p's budget is kept, opened anew, or charged with one call not refused; or
\* only what is no cycle's concern is charged.
Spends(p) ==
  \/ budget'[p].cycle = Unused
  \/ budget'[p].cycle = budget[p].cycle /\ budget'[p].checkpoint = budget[p].checkpoint
  \/ \E r \in CycleRole : ~ Refused(budget[p], r) /\ budget'[p] = Claimed(budget[p], r)

LEMMA AllowanceType ==
  ASSUME NEW b \in Budget, NEW r \in CycleRole
  PROVE  Allowance(b, r) \in Nat
BY ConstantsAssumption DEF Allowance, Budget, CycleRole

LEMMA AllowancesHold ==
  ASSUME StateTypes, StateTypes', NEW p \in Process, Alone(p), Spends(p), CycleWithinAllowance
  PROVE  CycleWithinAllowance'
<1>1. CycleRole \subseteq Role
  BY RolesAre
<1>2. ASSUME NEW r \in CycleRole
      PROVE  budget'[p].cycle[r] <= Allowance(budget'[p], r)
  <2>1. /\ budget[p] \in Budget /\ budget'[p] \in Budget /\ r \in Role
        /\ budget[p].cycle[r] \in Nat
    BY <1>1 DEF StateTypes, Budget, Usage
  <2>2. Allowance(budget[p], r) \in Nat /\ Allowance(budget'[p], r) \in Nat
    BY <2>1, AllowanceType
  <2>3. budget[p].cycle[r] <= Allowance(budget[p], r)
    BY DEF CycleWithinAllowance
  <2>4. CASE budget'[p].cycle = Unused
    BY <2>1, <2>2, <2>4, UnusedIsUsage
  <2>5. CASE budget'[p].cycle = budget[p].cycle /\ budget'[p].checkpoint = budget[p].checkpoint
    <3>1. Allowance(budget'[p], r) = Allowance(budget[p], r)
      BY <2>5 DEF Allowance
    <3> QED
      BY <2>3, <2>5, <3>1
  <2>6. ASSUME NEW q \in CycleRole, ~ Refused(budget[p], q), budget'[p] = Claimed(budget[p], q)
        PROVE  budget'[p].cycle[r] <= Allowance(budget'[p], r)
    <3>1. /\ budget'[p].checkpoint = budget[p].checkpoint
          /\ budget'[p].cycle[q] = budget[p].cycle[q] + 1
          /\ r # q => budget'[p].cycle[r] = budget[p].cycle[r]
      BY <1>1, <2>1, <2>6, ClaimedType
    <3>2. Allowance(budget'[p], r) = Allowance(budget[p], r)
      BY <3>1 DEF Allowance
    <3>3. ~ (budget[p].cycle[q] >= Allowance(budget[p], q))
      BY <2>6 DEF Refused
    <3> QED
      BY <2>1, <2>2, <2>3, <3>1, <3>2, <3>3
  <2> QED
    BY <2>4, <2>5, <2>6 DEF Spends
<1>3. ASSUME NEW q \in Process, q # p, NEW r \in CycleRole
      PROVE  budget'[q].cycle[r] <= Allowance(budget'[q], r)
  <2>1. budget'[q] = budget[q]
    BY <1>3 DEF Alone
  <2>2. budget[q].cycle[r] <= Allowance(budget[q], r)
    BY DEF CycleWithinAllowance
  <2> QED
    BY <2>1, <2>2
<1>4. ASSUME NEW q \in Process, NEW r \in CycleRole
      PROVE  budget'[q].cycle[r] <= Allowance(budget'[q], r)
  BY <1>2, <1>3
<1> QED
  BY <1>4 DEF CycleWithinAllowance

LEMMA EffectSpends ==
  ASSUME NEW p \in Process, Effect(p)
  PROVE  Spends(p)
BY DEF Effect, Spends, Quiet, Claims, Drops

-----------------------------------------------------------------------------
(* The steps that write to the run, and the judge's call.                  *)

\* What any step of a process comes to, but for locks and stagings.
Landing(p) == Core' /\ Alone(p) /\ Balanced(p) /\ Spends(p)

LEMMA JudgeLanding ==
  ASSUME Core, NEW p \in Process, Judge(p)
  PROVE  Landing(p) /\ Mild
<1> DEFINE b == [budget[p] EXCEPT !.spent = [budget[p].spent EXCEPT !["evaluator"] = 1]]
<1>1. /\ StateTypes /\ pc[p] = "idle" /\ Track(p) /\ budget[p].spent = Unused
      /\ pc' = [pc EXCEPT ![p] = "reading"]
      /\ made' = [made EXCEPT !["evaluator"] = made["evaluator"] + 1]
      /\ UNCHANGED <<run, prepared, holder, own, seen, lost, staged, erased, stagings, happened>>
  BY DEF Core, Tracks, Track, Judge, stored, past
<1>2. budget[p] \in Budget /\ "evaluator" \in Role /\ made \in Usage
  BY <1>1, BudgetOf, RolesAre DEF StateTypes
<1>3. /\ b \in Budget /\ b.cycle = budget[p].cycle /\ b.checkpoint = budget[p].checkpoint
      /\ b.spent["evaluator"] = 1 /\ \A r \in Role \ {"evaluator"} : b.spent[r] = 0
  BY <1>1, <1>2, UnusedIsUsage DEF Budget, Usage
<1>4. budget' = [budget EXCEPT ![p] = b]
  BY <1>1, <1>2 DEF Judge, StateTypes
<1> HIDE DEF b
<1>5. /\ pc' \in [Process -> Stages] /\ pc'[p] = "reading" /\ Alone(p)
      /\ budget' \in [Process -> Budget] /\ budget'[p] = b /\ made' \in Usage
  BY <1>1, <1>2, <1>3, <1>4 DEF StateTypes, Alone, Stages, Asking, Usage
<1>6. "reading" \notin WorkStages /\ "reading" \notin Staging /\ "reading" \in Asking
  BY DEF WorkStages, Staging, Asking
<1>7. Track(p)'
  BY <1>5, <1>6 DEF Track
<1>8. Core'
  BY <1>1, <1>5, <1>7, MoveCore DEF StateTypes
<1>9. Mild
  BY <1>1, <1>5, <1>6, MoveMild
<1>10. Balanced(p)
  <2> SUFFICES ASSUME NEW r \in Role
               PROVE  made'[r] + run.usage[r] + Carried(pc, budget, p, r) + Staged[r] + lost[r]
                          + erased[r]
                        = made[r] + run'.usage[r] + Carried(pc', budget', p, r) + Staged'[r]
                            + lost'[r] + erased'[r]
    BY DEF Balanced
  <2>1. Staged' = Staged
    BY <1>1 DEF Staged
  <2>2. Carried(pc, budget, p, r) = 0 /\ Carried(pc', budget', p, r) = b.spent[r]
    BY <1>1, <1>5, <1>6 DEF Carried, Carrying, Staging, Asking
  <2>3. made'[r] = made[r] + b.spent[r]
    BY <1>1, <1>2, <1>3 DEF Usage
  <2>4. b.spent[r] \in Nat
    BY <1>3
  <2> QED
    BY <1>1, <2>1, <2>2, <2>3, <2>4, BooksAreNumbers
<1>11. Spends(p)
  BY <1>3, <1>5 DEF Spends
<1> QED
  BY <1>5, <1>8, <1>9, <1>10, <1>11 DEF Landing

LEMMA WriteUsageLanding ==
  ASSUME Core, NEW p \in Process, WriteUsage(p)
  PROVE  Landing(p) /\ Mild
<1> DEFINE u == Merge(seen[p].usage, budget[p].spent)
           e == [r \in Role |-> erased[r] + run.usage[r] - seen[p].usage[r]]
<1>1. /\ StateTypes /\ pc[p] = "adding" /\ End(p)
      /\ UNCHANGED <<prepared, holder, made, lost, staged, stagings, happened>>
  BY DEF Core, WriteUsage
<1>2. /\ run \in Run /\ seen[p].usage \in Usage /\ budget[p].spent \in Usage
      /\ run.seq \in Nat /\ run.usage \in Usage /\ erased \in [Role -> Int]
  BY <1>1, BudgetOf DEF StateTypes
<1>3. u \in Usage /\ \A r \in Role : u[r] = seen[p].usage[r] + budget[p].spent[r]
  BY <1>2, MergeIsUsage
<1>4. e \in [Role -> Int] /\ \A r \in Role : e[r] = erased[r] + run.usage[r] - seen[p].usage[r]
  BY <1>2 DEF Usage
<1>5. run' = [run EXCEPT !.usage = u, !.seq = run.seq + 1] /\ erased' = e
  BY <1>2 DEF WriteUsage, Untouched, Unread, Run
<1> HIDE DEF u, e
<1>6. run' \in Run /\ run'.head = run.head /\ run'.usage = u /\ erased' = e /\ run.head <= run'.head
  <2>1. run.head \in 0 .. MaxCycle /\ MaxCycle \in Nat
    BY <1>1, BudgetOf
  <2>2. run' = [head |-> run.head, usage |-> u, seq |-> run.seq + 1]
    BY <1>2, <1>5 DEF Run
  <2>3. run' \in Run
    BY <1>2, <1>3, <2>1, <2>2 DEF Run
  <2>4. run'.head = run.head /\ run'.usage = u
    BY <2>2
  <2> QED
    BY <1>5, <2>1, <2>3, <2>4
<1>7. /\ pc' \in [Process -> Stages] /\ own' \in [Process -> 0 .. MaxCycle]
      /\ seen' \in [Process -> Run] /\ budget' \in [Process -> Budget]
      /\ pc'[p] = "idle" /\ budget'[p].spent = Unused /\ budget'[p].cycle = Unused /\ Alone(p)
  BY <1>1, EndEffect
<1>8. StateTypes'
  BY <1>1, <1>4, <1>6, <1>7 DEF StateTypes
<1>9. Tracks'
  BY <1>1, <1>6, <1>7, <1>8, IdleTracks, TracksMove
<1>10. StoreSound'
  BY <1>1, <1>6 DEF Core, StoreSound
<1>11. Mild
  BY <1>1, <1>7, EndIsMild
<1>12. Balanced(p)
  <2> SUFFICES ASSUME NEW r \in Role
               PROVE  made'[r] + run.usage[r] + Carried(pc, budget, p, r) + Staged[r] + lost[r]
                          + erased[r]
                        = made[r] + run'.usage[r] + Carried(pc', budget', p, r) + Staged'[r]
                            + lost'[r] + erased'[r]
    BY DEF Balanced
  <2>1. Staged' = Staged
    BY <1>1, <1>6 DEF Staged
  <2>2. Carried(pc, budget, p, r) = budget[p].spent[r] /\ Carried(pc', budget', p, r) = 0
    BY <1>1, <1>7 DEF Carried, Carrying, Staging, Asking
  <2>3. /\ run'.usage[r] = seen[p].usage[r] + budget[p].spent[r]
        /\ erased'[r] = erased[r] + run.usage[r] - seen[p].usage[r]
    BY <1>3, <1>4, <1>6
  <2>4. seen[p].usage[r] \in Nat /\ budget[p].spent[r] \in Nat
    BY <1>2 DEF Usage
  <2> QED
    BY <1>1, <2>1, <2>2, <2>3, <2>4, BooksAreNumbers
<1>13. Spends(p)
  BY <1>7 DEF Spends
<1> QED
  BY <1>7, <1>8, <1>9, <1>10, <1>11, <1>12, <1>13 DEF Landing, Core

\* The commit lands what the staging read and spent; the next cycle is not
\* prepared, so nothing else waits.
LEMMA CommitLanding ==
  ASSUME Core, NEW i \in Invocation, Commit(i), run.head = seen[i].head, holder = i
  PROVE  Landing(i) /\ Mild
<1> DEFINE c == own[i]
           e == [r \in Role |-> erased[r] + run.usage[r] - staged[c].read[r]]
<1>1. /\ StateTypes /\ i \in Process /\ pc[i] = "committing" /\ Track(i)
      /\ UNCHANGED <<made, happened, prepared, lost, staged, stagings>> /\ holder' = None
  BY DEF Core, Tracks, Commit, Process
<1>2. /\ run \in Run /\ run.head \in 0 .. MaxCycle /\ MaxCycle \in Nat
      /\ run.usage \in Usage /\ erased \in [Role -> Int]
  BY <1>1, BudgetOf DEF StateTypes
<1>3. c = run.head + 1 /\ c \in Cycle /\ prepared[c] # None
  BY <1>1, <1>2 DEF Track, WorkStages, StateTypes, Cycle
<1>4. /\ staged[c].read \in Usage /\ staged[c].own \in Usage
      /\ prepared[c] \in Usage /\ prepared[c] = Merge(staged[c].read, staged[c].own)
  BY <1>1, <1>3 DEF StateTypes, Core, StoreSound
<1>5. \A r \in Role : prepared[c][r] = staged[c].read[r] + staged[c].own[r]
  BY <1>4, MergeIsUsage
<1>6. e \in [Role -> Int] /\ \A r \in Role : e[r] = erased[r] + run.usage[r] - staged[c].read[r]
  BY <1>2, <1>4 DEF Usage
<1>7. run' = [run EXCEPT !.head = c, !.usage = prepared[c]] /\ erased' = e
  BY DEF Commit, Unread
<1>8. /\ run' \in Run /\ run'.head = c /\ run'.usage = prepared[c] /\ run.head <= run'.head
  <2> HIDE DEF c
  <2>1. c \in 0 .. MaxCycle /\ run.head <= c
    BY <1>2, <1>3 DEF Cycle
  <2>2. \A x, u : x \in 0 .. MaxCycle /\ u \in Usage =>
          LET n == [run EXCEPT !.head = x, !.usage = u]
          IN n \in Run /\ n.head = x /\ n.usage = u
    BY <1>2 DEF Run
  <2> QED
    BY <1>4, <1>7, <2>1, <2>2
<1>9. \/ pc' = [pc EXCEPT ![i] = "checkpoint"] /\ UNCHANGED <<own, seen, budget>>
      \/ End(i)
  BY DEF Commit, engine
<1> HIDE DEF c, e
<1>10. /\ pc' \in [Process -> Stages] /\ own' \in [Process -> 0 .. MaxCycle]
       /\ seen' \in [Process -> Run] /\ budget' \in [Process -> Budget]
       /\ pc'[i] \in {"idle", "checkpoint"} /\ Alone(i)
       /\ budget'[i] = budget[i] \/ budget'[i].cycle = Unused
       /\ pc'[i] = "idle" => budget'[i].spent = Unused
  <2>1. CASE pc' = [pc EXCEPT ![i] = "checkpoint"] /\ UNCHANGED <<own, seen, budget>>
    BY <1>1, <2>1 DEF StateTypes, Alone, Stages
  <2>2. CASE End(i)
    BY <1>1, <2>2, EndEffect
  <2> QED
    BY <1>9, <2>1, <2>2
<1>11. StateTypes'
  BY <1>1, <1>6, <1>7, <1>8, <1>10 DEF StateTypes
<1>12. pc'[i] \notin WorkStages \cup Staging \cup Asking
  BY <1>10 DEF WorkStages, Staging, Asking
<1>13. Track(i)'
  BY <1>10, <1>12 DEF Track
<1>14. Tracks'
  BY <1>1, <1>8, <1>10, <1>11, <1>13, TracksMove
<1>15. StoreSound'
  <2> SUFFICES ASSUME NEW d \in Cycle
               PROVE  IF prepared[d] = None
                      THEN c < d /\ staged[d].own = Unused /\ stagings[d] = 0
                      ELSE d <= c + 1 /\ prepared[d] = Merge(staged[d].read, staged[d].own)
    BY <1>1, <1>8 DEF StoreSound
  <2>1. IF prepared[d] = None
        THEN run.head < d /\ staged[d].own = Unused /\ stagings[d] = 0
        ELSE d <= run.head + 1 /\ prepared[d] = Merge(staged[d].read, staged[d].own)
    BY DEF Core, StoreSound
  <2>2. d \in Nat
    BY <1>2 DEF Cycle
  <2> QED
    BY <1>2, <1>3, <2>1, <2>2
<1>16. Mild
  BY <1>1, <1>10, <1>12, LeaveIsMild DEF Mild
<1>17. Balanced(i)
  <2> SUFFICES ASSUME NEW r \in Role
               PROVE  made'[r] + run.usage[r] + Carried(pc, budget, i, r) + Staged[r] + lost[r]
                          + erased[r]
                        = made[r] + run'.usage[r] + Carried(pc', budget', i, r) + Staged'[r]
                            + lost'[r] + erased'[r]
    BY DEF Balanced
  <2>1. Staged[r] = staged[c].own[r]
    BY <1>2, <1>3 DEF Staged, Cycle
  <2>2. Staged'[r] = 0
    <3>1. CASE c < MaxCycle
      <4>1. c + 1 \in Cycle /\ ~ (c + 1 <= run.head + 1)
        BY <1>2, <1>3, <3>1 DEF Cycle
      <4>2. staged[c + 1].own = Unused
        BY <4>1 DEF Core, StoreSound
      <4> QED
        BY <1>1, <1>8, <3>1, <4>2, UnusedIsUsage DEF Staged
    <3>2. CASE ~ (c < MaxCycle)
      BY <1>1, <1>8, <3>2, UnusedIsUsage DEF Staged
    <3> QED
      BY <3>1, <3>2
  <2>3. Carried(pc, budget, i, r) = 0 /\ Carried(pc', budget', i, r) = 0
    BY <1>1, <1>12 DEF Carried, Carrying, Staging, Asking
  <2>4. /\ run'.usage[r] = staged[c].read[r] + staged[c].own[r]
        /\ erased'[r] = erased[r] + run.usage[r] - staged[c].read[r]
    BY <1>5, <1>6, <1>7, <1>8
  <2>5. staged[c].read[r] \in Nat /\ staged[c].own[r] \in Nat
    BY <1>4 DEF Usage
  <2> QED
    BY <1>1, <2>1, <2>2, <2>3, <2>4, <2>5, BooksAreNumbers
<1>18. Spends(i)
  BY <1>10 DEF Spends
<1> QED
  BY <1>10, <1>11, <1>14, <1>15, <1>16, <1>17, <1>18 DEF Landing, Core

LEMMA CommitStep ==
  ASSUME Core, NEW i \in Invocation, Commit(i)
  PROVE  Landing(i) /\ Mild
<1>1. CASE run.head = seen[i].head /\ holder = i
  BY <1>1, CommitLanding
<1>2. CASE ~ (run.head = seen[i].head /\ holder = i)
  <2>1. i \in Process /\ Raise(i) /\ UNCHANGED <<made, happened>>
    BY <1>2 DEF Commit, Process
  <2>2. Effect(i)
    BY <2>1, RaiseEffect
  <2> QED
    BY <2>1, <2>2, EffectIsBalanced, EffectSpends DEF Effect, Landing
<1> QED
  BY <1>1, <1>2

-----------------------------------------------------------------------------
(* Storing what was staged, the expiry of a lock, and the leases.          *)

LEMMA LeasesAreFinite ==
  /\ IsFiniteSet(Lapsed) /\ IsFiniteSet(Lapsed')
  /\ \A c : IsFiniteSet(StagingFor(c)) /\ IsFiniteSet(StagingFor(c)')
<1>1. IsFiniteSet(Process) /\ Invocation \subseteq Process
  BY ConstantsAssumption DEF Process
<1>2. /\ Lapsed \subseteq Process /\ Lapsed' \subseteq Process
      /\ \A c : StagingFor(c) \subseteq Process /\ StagingFor(c)' \subseteq Process
  BY <1>1 DEF Lapsed, StagingFor
<1> QED
  BY <1>1, <1>2, FS_Subset

LEMMA SmallerSet ==
  ASSUME NEW S, NEW T, IsFiniteSet(T), S \subseteq T
  PROVE  Cardinality(S) \in Nat /\ Cardinality(T) \in Nat /\ Cardinality(S) <= Cardinality(T)
BY FS_Subset, FS_CardinalityType

LEMMA LeasedMove ==
  ASSUME StateTypes, Mild, Leased
  PROVE  Leased'
<1>1. /\ Lapsed' \subseteq Lapsed /\ happened'["expiry"] = happened["expiry"]
      /\ prepared' = prepared /\ stagings' = stagings
      /\ \A c \in Cycle : prepared[c] # None => StagingFor(c)' \subseteq StagingFor(c)
  BY DEF Mild
<1>2. happened["expiry"] \in Nat /\ \A c \in Cycle : stagings[c] \in Nat
  BY DEF StateTypes, Event
<1>3. Cardinality(Lapsed') <= happened'["expiry"]
  <2>1. Cardinality(Lapsed) <= happened["expiry"]
    BY DEF Leased
  <2>2. /\ Cardinality(Lapsed') \in Nat /\ Cardinality(Lapsed) \in Nat
        /\ Cardinality(Lapsed') <= Cardinality(Lapsed)
    BY <1>1, LeasesAreFinite, SmallerSet
  <2> QED
    BY <1>1, <1>2, <2>1, <2>2
<1>4. ASSUME NEW c \in Cycle, prepared'[c] # None
      PROVE  stagings'[c] + Cardinality(StagingFor(c)') <= 1 + happened'["expiry"]
  <2>1. stagings[c] + Cardinality(StagingFor(c)) <= 1 + happened["expiry"]
    BY <1>1, <1>4 DEF Leased
  <2>2. /\ Cardinality(StagingFor(c)') \in Nat /\ Cardinality(StagingFor(c)) \in Nat
        /\ Cardinality(StagingFor(c)') <= Cardinality(StagingFor(c))
    BY <1>1, <1>4, LeasesAreFinite, SmallerSet
  <2> QED
    BY <1>1, <1>2, <2>1, <2>2
<1> QED
  BY <1>3, <1>4 DEF Leased

\* The first to store: those that stage the same cycle with it, but for the
\* one that may hold the lock, each let a lock run out, and so did it if
\* another holds it.
LEMMA FirstStore ==
  ASSUME Core, Leased, NEW i \in Invocation, StorePrepared(i), prepared[own[i]] = None
  PROVE  Landing(i) /\ Leased' /\ happened' = happened
<1> DEFINE c == own[i]
           u == Merge(seen[i].usage, budget[i].spent)
           s == [own |-> budget[i].spent, read |-> seen[i].usage]
<1>1. /\ StateTypes /\ i \in Process /\ pc[i] = "storing" /\ Track(i)
      /\ pc' = [pc EXCEPT ![i] = "committing"]
      /\ prepared' = [prepared EXCEPT ![c] = u] /\ staged' = [staged EXCEPT ![c] = s]
      /\ stagings' = [stagings EXCEPT ![c] = stagings[c] + 1]
      /\ UNCHANGED <<run, holder, own, seen, budget, made, lost, erased, happened>>
  BY DEF Core, Tracks, StorePrepared, MergedUsage, engine, Process
<1>2. /\ run.head \in 0 .. MaxCycle /\ seen[i].head \in 0 .. MaxCycle /\ MaxCycle \in Nat
      /\ seen[i].usage \in Usage /\ budget[i].spent \in Usage
  BY <1>1, BudgetOf DEF StateTypes
<1>3. u \in Usage /\ u # None
  BY <1>2, MergeIsUsage, ConstantsAssumption
<1>4. c = seen[i].head + 1 /\ seen[i].head <= run.head /\ c \in Cycle
  BY <1>1, <1>2 DEF Track, WorkStages, Staging, StateTypes, Cycle
<1>5. run.head < c /\ staged[c].own = Unused /\ stagings[c] = 0
  BY <1>4 DEF Core, StoreSound
<1>6. c = run.head + 1
  BY <1>2, <1>4, <1>5
<1>7. s \in [own : Usage, read : Usage] /\ s.own = budget[i].spent /\ u = Merge(s.read, s.own)
  BY <1>2
<1> HIDE DEF c, u, s
<1>8. /\ pc' \in [Process -> Stages] /\ pc'[i] = "committing" /\ Alone(i)
  BY <1>1 DEF StateTypes, Alone, Stages
<1>9. /\ prepared' \in [Cycle -> Usage \cup {None}] /\ prepared'[c] = u
      /\ staged' \in [Cycle -> [own : Usage, read : Usage]] /\ staged'[c] = s
      /\ stagings' \in [Cycle -> Nat] /\ stagings'[c] = 1
      /\ \A d \in Cycle \ {c} : /\ prepared'[d] = prepared[d] /\ staged'[d] = staged[d]
                                /\ stagings'[d] = stagings[d]
  BY <1>1, <1>3, <1>4, <1>5, <1>7 DEF StateTypes
<1>10. StateTypes'
  BY <1>1, <1>8, <1>9 DEF StateTypes
<1>11. Track(i)'
  BY <1>1, <1>3, <1>8, <1>9 DEF Track, WorkStages, Staging, c
<1>12. Tracks'
  <2>1. run.head <= run'.head
    BY <1>1, <1>2
  <2>2. \A d \in Cycle : prepared[d] # None => prepared'[d] # None
    BY <1>3, <1>9
  <2> QED
    BY <1>1, <1>8, <1>10, <1>11, <2>1, <2>2, TracksMove
<1>13. StoreSound'
  <2> SUFFICES ASSUME NEW d \in Cycle
               PROVE  IF prepared'[d] = None
                      THEN run.head < d /\ staged'[d].own = Unused /\ stagings'[d] = 0
                      ELSE d <= run.head + 1 /\ prepared'[d] = Merge(staged'[d].read, staged'[d].own)
    BY <1>1 DEF StoreSound
  <2>1. CASE d = c
    BY <1>2, <1>3, <1>6, <1>7, <1>9, <2>1
  <2>2. CASE d # c
    BY <1>9, <2>2 DEF Core, StoreSound
  <2> QED
    BY <2>1, <2>2
<1>14. Balanced(i)
  <2> SUFFICES ASSUME NEW r \in Role
               PROVE  made'[r] + run.usage[r] + Carried(pc, budget, i, r) + Staged[r] + lost[r]
                          + erased[r]
                        = made[r] + run'.usage[r] + Carried(pc', budget', i, r) + Staged'[r]
                            + lost'[r] + erased'[r]
    BY DEF Balanced
  <2>1. c = run.head + 1 /\ run.head < MaxCycle
    BY <1>2, <1>4, <1>6 DEF Cycle
  <2>2. Staged = staged[c].own /\ Staged' = staged'[c].own
    BY <1>1, <2>1 DEF Staged
  <2>3. Staged[r] = 0 /\ Staged'[r] = budget[i].spent[r]
    BY <1>5, <1>7, <1>9, <2>2, UnusedIsUsage
  <2>4. Carried(pc, budget, i, r) = budget[i].spent[r] /\ Carried(pc', budget', i, r) = 0
    BY <1>1, <1>8 DEF Carried, Carrying, Staging, Asking
  <2>5. budget[i].spent[r] \in Nat
    BY <1>2 DEF Usage
  <2> QED
    BY <1>1, <2>3, <2>4, <2>5, BooksAreNumbers
<1>15. Spends(i)
  BY <1>1 DEF Spends
<1>16. /\ "storing" \in Staging /\ "committing" \notin Staging
       /\ "committing" \in WorkStages /\ Staging \subseteq WorkStages
  BY DEF Staging, WorkStages
<1>17. Lapsed' \subseteq Lapsed
  BY <1>1, <1>8, <1>16 DEF Lapsed, Alone, Process
<1>18. \A d : StagingFor(d)' \subseteq StagingFor(d) \ {i}
  BY <1>1, <1>8, <1>16 DEF StagingFor, Alone, Process
<1>19. ASSUME NEW d PROVE Cardinality(StagingFor(d)') <= Cardinality(Lapsed)
  <2>1. CASE holder = i
    <3>1. StagingFor(d)' \subseteq Lapsed
      BY <1>16, <1>18, <2>1 DEF Lapsed, StagingFor
    <3> QED
      BY <3>1, LeasesAreFinite, SmallerSet
  <2>2. CASE holder # i
    <3>1. i \in Lapsed /\ StagingFor(d)' \subseteq (Lapsed \ {i}) \cup {holder}
      BY <1>1, <1>16, <1>18, <2>2 DEF Lapsed, StagingFor
    <3>2. IsFiniteSet(Lapsed \ {i}) /\ Cardinality(Lapsed \ {i}) = Cardinality(Lapsed) - 1
      BY <3>1, LeasesAreFinite, FS_RemoveElement
    <3>3. /\ IsFiniteSet((Lapsed \ {i}) \cup {holder})
          /\ Cardinality((Lapsed \ {i}) \cup {holder}) <= Cardinality(Lapsed \ {i}) + 1
      <4> DEFINE l == Lapsed \ {i}
      <4>1. IsFiniteSet(l) /\ Cardinality(l) \in Nat
        BY <3>2, FS_CardinalityType
      <4> HIDE DEF l
      <4>2. IsFiniteSet(l \cup {holder}) /\ Cardinality(l \cup {holder}) <= Cardinality(l) + 1
        BY <4>1, FS_AddElement
      <4> QED
        BY <4>2 DEF l
    <3>4. /\ Cardinality(StagingFor(d)') \in Nat
          /\ Cardinality((Lapsed \ {i}) \cup {holder}) \in Nat
          /\ Cardinality(StagingFor(d)') <= Cardinality((Lapsed \ {i}) \cup {holder})
      BY <3>1, <3>3, SmallerSet
    <3>5. Cardinality(Lapsed) \in Nat
      BY LeasesAreFinite, FS_CardinalityType
    <3> QED
      BY <3>2, <3>3, <3>4, <3>5
  <2> QED
    BY <2>1, <2>2
<1>20. Leased'
  <2>1. happened["expiry"] \in Nat /\ \A d \in Cycle : stagings[d] \in Nat
    BY <1>1 DEF StateTypes, Event
  <2>2. Cardinality(Lapsed) \in Nat /\ Cardinality(Lapsed) <= happened["expiry"]
    BY LeasesAreFinite, FS_CardinalityType DEF Leased
  <2>3. Cardinality(Lapsed') \in Nat /\ Cardinality(Lapsed') <= Cardinality(Lapsed)
    BY <1>17, LeasesAreFinite, SmallerSet
  <2>4. ASSUME NEW d \in Cycle, prepared'[d] # None
        PROVE  stagings'[d] + Cardinality(StagingFor(d)') <= 1 + happened["expiry"]
    <3>1. Cardinality(StagingFor(d)') \in Nat
      BY LeasesAreFinite, FS_CardinalityType
    <3>2. CASE d = c
      <4>1. Cardinality(StagingFor(d)') <= Cardinality(Lapsed) /\ stagings'[d] = 1
        BY <1>9, <1>19, <3>2
      <4> QED
        BY <2>1, <2>2, <3>1, <4>1
    <3>3. CASE d # c
      <4>1. stagings[d] + Cardinality(StagingFor(d)) <= 1 + happened["expiry"]
        BY <1>9, <2>4, <3>3 DEF Leased
      <4>2. /\ Cardinality(StagingFor(d)) \in Nat
            /\ Cardinality(StagingFor(d)') <= Cardinality(StagingFor(d))
        BY <1>18, LeasesAreFinite, SmallerSet
      <4> QED
        BY <1>9, <2>1, <3>1, <3>3, <4>1, <4>2
    <3> QED
      BY <3>2, <3>3
  <2> QED
    BY <1>1, <2>1, <2>2, <2>3, <2>4 DEF Leased
<1> QED
  BY <1>1, <1>8, <1>10, <1>12, <1>13, <1>14, <1>15, <1>20 DEF Landing, Core

\* A second to store finds the cycle prepared: its claims drop, and it counts
\* as a staging instead of as one that stages.
LEMMA SecondStore ==
  ASSUME Core, Leased, NEW i \in Invocation, StorePrepared(i), prepared[own[i]] # None
  PROVE  Landing(i) /\ Leased' /\ happened' = happened
<1> DEFINE c == own[i]
<1>1. /\ StateTypes /\ i \in Process /\ pc[i] = "storing" /\ Track(i) /\ End(i)
      /\ stagings' = [stagings EXCEPT ![c] = stagings[c] + 1]
      /\ holder' = (IF holder = i THEN None ELSE holder) /\ lost' = Merge(lost, Dropped(i))
      /\ UNCHANGED <<run, prepared, staged, made, erased, happened>>
  BY DEF Core, Tracks, StorePrepared, Release, stored, Process
<1>2. /\ run.head \in 0 .. MaxCycle /\ seen[i].head \in 0 .. MaxCycle /\ MaxCycle \in Nat
  BY <1>1, BudgetOf
<1>3. c \in Cycle
  BY <1>1, <1>2 DEF Track, WorkStages, Staging, StateTypes, Cycle
<1>4. prepared[c] # None
  OBVIOUS
<1> HIDE DEF c
<1>5. /\ stagings' \in [Cycle -> Nat] /\ stagings'[c] = stagings[c] + 1
      /\ \A d \in Cycle \ {c} : stagings'[d] = stagings[d]
  BY <1>1, <1>3 DEF StateTypes
<1>6. lost' \in Usage /\ \A r \in Role : lost'[r] = lost[r] + Carried(pc, budget, i, r)
  <2>1. /\ Dropped(i) \in Usage
        /\ \A r \in Role : Dropped(i)[r] = Carried(pc, budget, i, r)
    BY <1>1, DroppedIsCarried
  <2>2. lost \in Usage
    BY <1>1 DEF StateTypes
  <2> QED
    BY <1>1, <2>1, <2>2, MergeIsUsage
<1>7. /\ pc' \in [Process -> Stages] /\ own' \in [Process -> 0 .. MaxCycle]
      /\ seen' \in [Process -> Run] /\ budget' \in [Process -> Budget]
      /\ pc'[i] = "idle" /\ budget'[i].spent = Unused /\ budget'[i].cycle = Unused /\ Alone(i)
  BY <1>1, EndEffect
<1>8. StateTypes'
  BY <1>1, <1>5, <1>6, <1>7 DEF StateTypes
<1>9. Tracks'
  <2>1. run.head <= run'.head
    BY <1>1, <1>2
  <2> QED
    BY <1>1, <1>7, <1>8, <2>1, IdleTracks, TracksMove
<1>10. StoreSound'
  BY <1>1, <1>4, <1>5 DEF Core, StoreSound
<1>11. Balanced(i)
  <2> SUFFICES ASSUME NEW r \in Role
               PROVE  made'[r] + run.usage[r] + Carried(pc, budget, i, r) + Staged[r] + lost[r]
                          + erased[r]
                        = made[r] + run'.usage[r] + Carried(pc', budget', i, r) + Staged'[r]
                            + lost'[r] + erased'[r]
    BY DEF Balanced
  <2>1. Staged' = Staged
    BY <1>1 DEF Staged
  <2>2. Carried(pc', budget', i, r) = 0
    BY <1>7 DEF Carried, Carrying, Staging, Asking
  <2> QED
    BY <1>1, <1>6, <2>1, <2>2, BooksAreNumbers
<1>12. Spends(i)
  BY <1>7 DEF Spends
<1>13. pc'[i] \notin WorkStages
  BY <1>7 DEF WorkStages, Staging
<1>14. /\ Lapsed' \subseteq Lapsed
       /\ \A d \in Cycle : StagingFor(d)' \subseteq StagingFor(d) \ {i}
  BY <1>1, <1>7, <1>13, LeaveIsMild
<1>15. i \in StagingFor(c)
  BY <1>1 DEF StagingFor, Staging, c
<1>16. Leased'
  <2>1. happened["expiry"] \in Nat /\ \A d \in Cycle : stagings[d] \in Nat
    BY <1>1 DEF StateTypes, Event
  <2>2. Cardinality(Lapsed') <= happened["expiry"]
    <3>1. /\ Cardinality(Lapsed) \in Nat /\ Cardinality(Lapsed') \in Nat
          /\ Cardinality(Lapsed') <= Cardinality(Lapsed)
      BY <1>14, LeasesAreFinite, SmallerSet
    <3>2. Cardinality(Lapsed) <= happened["expiry"]
      BY DEF Leased
    <3> QED
      BY <2>1, <3>1, <3>2
  <2>3. ASSUME NEW d \in Cycle, prepared[d] # None
        PROVE  stagings'[d] + Cardinality(StagingFor(d)') <= 1 + happened["expiry"]
    <3>1. stagings[d] + Cardinality(StagingFor(d)) <= 1 + happened["expiry"]
      BY <2>3 DEF Leased
    <3>2. IsFiniteSet(StagingFor(d)) /\ Cardinality(StagingFor(d)) \in Nat
      BY LeasesAreFinite, FS_CardinalityType
    <3>3. CASE d = c
      <4> DEFINE u == StagingFor(d)
                 v == StagingFor(d)'
      <4>1. i \in u /\ v \subseteq u \ {i} /\ IsFiniteSet(u)
        BY <1>14, <1>15, <3>2, <3>3
      <4> HIDE DEF u, v
      <4>2. IsFiniteSet(u \ {i}) /\ Cardinality(u \ {i}) = Cardinality(u) - 1
        BY <4>1, FS_RemoveElement
      <4>3. Cardinality(v) \in Nat /\ Cardinality(v) <= Cardinality(u \ {i})
        BY <4>1, <4>2, SmallerSet
      <4>4. stagings'[d] = stagings[d] + 1
        BY <1>5, <3>3
      <4>5. /\ Cardinality(StagingFor(d)') \in Nat
            /\ Cardinality(StagingFor(d)') <= Cardinality(StagingFor(d)) - 1
        BY <4>2, <4>3 DEF u, v
      <4> QED
        BY <2>1, <3>1, <3>2, <4>4, <4>5
    <3>4. CASE d # c
      <4>1. /\ Cardinality(StagingFor(d)') \in Nat
            /\ Cardinality(StagingFor(d)') <= Cardinality(StagingFor(d))
        BY <1>14, LeasesAreFinite, SmallerSet
      <4> QED
        BY <1>5, <2>1, <3>1, <3>2, <3>4, <4>1
    <3> QED
      BY <3>3, <3>4
  <2> QED
    BY <1>1, <2>2, <2>3 DEF Leased
<1> QED
  BY <1>1, <1>7, <1>8, <1>9, <1>10, <1>11, <1>12, <1>16 DEF Landing, Core

\* A lock that runs out on one that works adds it to those that lapsed.
LEMMA ExpireStep ==
  ASSUME Core, Leased, Expire, happened["expiry"] <= Bound["expiry"]
  PROVE  /\ Core' /\ Leased' /\ happened'["expiry"] <= Bound["expiry"]
         /\ UNCHANGED <<run, pc, budget, made, lost, staged, erased>>
<1>1. /\ StateTypes /\ holder # None /\ holder' = None
      /\ UNCHANGED <<run, prepared, pc, own, seen, budget, made, lost, staged, erased, stagings>>
  BY DEF Core, Expire, stored, engine, history, past
<1>2. holder \in Invocation /\ "expiry" \in Event
  BY <1>1 DEF StateTypes, Event
<1>3. /\ happened' \in [Event -> Nat] /\ happened["expiry"] \in Nat
      /\ happened'["expiry"] \in Nat /\ Bound["expiry"] \in Nat
      /\ IF Working(holder)
         THEN /\ happened'["expiry"] = happened["expiry"] + 1
              /\ happened["expiry"] < Bound["expiry"]
         ELSE happened'["expiry"] = happened["expiry"]
  <2>1. happened \in [Event -> Nat] /\ Bound \in [Event -> Nat]
    BY <1>1, ConstantsAssumption DEF StateTypes
  <2>2. CASE Working(holder)
    <3>1. /\ happened' = [happened EXCEPT !["expiry"] = happened["expiry"] + 1]
          /\ happened["expiry"] < Bound["expiry"]
      BY <2>2 DEF Expire, Happens
    <3> QED
      BY <1>2, <2>1, <2>2, <3>1
  <2>3. CASE ~ Working(holder)
    <3>1. happened' = happened
      BY <2>3 DEF Expire
    <3> QED
      BY <1>2, <2>1, <2>3, <3>1
  <2> QED
    BY <2>2, <2>3
<1>4. StateTypes'
  BY <1>1, <1>3 DEF StateTypes
<1>5. Tracks'
  BY <1>1 DEF Core, Tracks, Track
<1>6. StoreSound'
  BY <1>1 DEF Core, StoreSound
<1>7. Cardinality(Lapsed) \in Nat /\ Cardinality(Lapsed) <= happened["expiry"]
  BY LeasesAreFinite, FS_CardinalityType DEF Leased
<1>8. Cardinality(Lapsed') <= happened'["expiry"]
  <2> DEFINE l == Lapsed
             m == Lapsed'
  <2>1. IsFiniteSet(l) /\ IsFiniteSet(m) /\ Cardinality(l) \in Nat /\ Cardinality(l) <= happened["expiry"]
    BY <1>7, LeasesAreFinite
  <2>2. m \subseteq l \cup {holder} /\ (~ Working(holder) => m \subseteq l)
    BY <1>1 DEF Lapsed, Working, WorkStages
  <2> HIDE DEF l, m
  <2>3. IsFiniteSet(l \cup {holder}) /\ Cardinality(l \cup {holder}) <= Cardinality(l) + 1
    <3>1. IsFiniteSet(l) /\ Cardinality(l) \in Nat
      BY <2>1
    <3>2. /\ IsFiniteSet(l \cup {holder})
          /\ Cardinality(l \cup {holder}) \in {Cardinality(l), Cardinality(l) + 1}
      BY ONLY <3>1, FS_AddElement
    <3> QED
      BY ONLY <3>1, <3>2
  <2>4. CASE Working(holder)
    <3>1. /\ Cardinality(m) \in Nat /\ Cardinality(l \cup {holder}) \in Nat
          /\ Cardinality(m) <= Cardinality(l \cup {holder})
      BY <2>2, <2>3, SmallerSet
    <3>2. happened'["expiry"] = happened["expiry"] + 1
      BY <1>3, <2>4
    <3> QED
      BY <1>3, <2>1, <2>3, <3>1, <3>2 DEF m
  <2>5. CASE ~ Working(holder)
    <3>1. Cardinality(m) \in Nat /\ Cardinality(m) <= Cardinality(l)
      BY <2>1, <2>2, <2>5, SmallerSet
    <3> QED
      BY <1>3, <2>1, <2>5, <3>1 DEF m
  <2> QED
    BY <2>4, <2>5
<1>9. happened["expiry"] <= happened'["expiry"] /\ happened'["expiry"] <= Bound["expiry"]
  BY <1>3
<1>10. ASSUME NEW c \in Cycle, prepared[c] # None
       PROVE  stagings[c] + Cardinality(StagingFor(c)') <= 1 + happened'["expiry"]
  <2>1. StagingFor(c)' = StagingFor(c)
    BY <1>1 DEF StagingFor
  <2>2. stagings[c] + Cardinality(StagingFor(c)) <= 1 + happened["expiry"]
    BY <1>10 DEF Leased
  <2>3. stagings[c] \in Nat /\ Cardinality(StagingFor(c)) \in Nat
    BY <1>1, LeasesAreFinite, FS_CardinalityType DEF StateTypes
  <2> QED
    BY <1>3, <1>9, <2>1, <2>2, <2>3
<1>11. Leased'
  BY <1>1, <1>8, <1>10 DEF Leased
<1> QED
  BY <1>1, <1>4, <1>5, <1>6, <1>9, <1>11 DEF Core

-----------------------------------------------------------------------------
(* The invariant, and what follows from it.                                *)

Ledger ==
  /\ Core
  /\ EveryCallAccounted
  /\ CycleWithinAllowance
  /\ Leased
  /\ happened["expiry"] <= Bound["expiry"]

LEMMA LandingKeepsLedger ==
  ASSUME Ledger, NEW p \in Process, Landing(p), Leased',
         happened'["expiry"] = happened["expiry"]
  PROVE  Ledger'
<1>1. Core /\ Core' /\ StateTypes /\ StateTypes' /\ Alone(p) /\ Balanced(p) /\ Spends(p)
  BY DEF Ledger, Landing, Core
<1>2. EveryCallAccounted'
  BY <1>1, AccountsMove DEF Ledger
<1>3. CycleWithinAllowance'
  BY <1>1, AllowancesHold DEF Ledger
<1> QED
  BY <1>1, <1>2, <1>3 DEF Ledger

LEMMA MildKeepsLedger ==
  ASSUME Ledger, NEW p \in Process, Landing(p), Mild
  PROVE  Ledger'
<1>1. Leased' /\ happened'["expiry"] = happened["expiry"]
  BY LeasedMove DEF Ledger, Core, Mild
<1> QED
  BY <1>1, LandingKeepsLedger

LEMMA EffectLanding ==
  ASSUME Core, NEW p \in Process, Effect(p)
  PROVE  Landing(p) /\ Mild
BY EffectIsBalanced, EffectSpends DEF Landing, Effect

LEMMA ExpireKeepsLedger ==
  ASSUME Ledger, Expire
  PROVE  Ledger'
<1>1. /\ Core' /\ Leased' /\ happened'["expiry"] <= Bound["expiry"]
      /\ UNCHANGED <<run, pc, budget, made, lost, staged, erased>>
  BY ExpireStep DEF Ledger
<1>2. EveryCallAccounted'
  <2>1. Underway' = Underway /\ Staged' = Staged
    BY <1>1 DEF Underway, Processes, Staged
  <2> QED
    BY <1>1, <2>1 DEF Ledger, EveryCallAccounted
<1>3. CycleWithinAllowance'
  BY <1>1 DEF Ledger, CycleWithinAllowance
<1> QED
  BY <1>1, <1>2, <1>3 DEF Ledger

LEMMA LedgerStarts == Init => Ledger
<1> SUFFICES ASSUME Init PROVE Ledger
  OBVIOUS
<1> DEFINE fresh == Fresh(Unused)
<1>1. fresh \in Budget /\ fresh.spent = Unused /\ fresh.cycle = Unused
  BY UnusedIsUsage, FreshType
<1>2. /\ run = NewRun /\ seen = [p \in Process |-> run]
      /\ budget = [p \in Process |-> fresh] /\ pc = [p \in Process |-> "idle"]
      /\ own = [p \in Process |-> 0] /\ holder = None
      /\ prepared = [c \in Cycle |-> None] /\ made = Unused /\ lost = Unused /\ erased = Unused
      /\ staged = [c \in Cycle |-> [own |-> Unused, read |-> Unused]]
      /\ stagings = [c \in Cycle |-> 0] /\ happened = [k \in Event |-> 0]
  BY DEF Init
<1> HIDE DEF fresh
<1>3. NewRun \in Run /\ NewRun.head = 0 /\ NewRun.usage = Unused /\ 0 \in 0 .. MaxCycle
  BY UnusedIsUsage, ConstantsAssumption DEF NewRun, Run
<1>4. StateTypes
  <2>1. Unused \in [Role -> Int] /\ "idle" \in Stages
    BY DEF Unused, Stages
  <2> QED
    BY <1>1, <1>2, <1>3, <2>1, UnusedIsUsage DEF StateTypes
<1>5. Tracks
  BY <1>1, <1>2 DEF Tracks, Track, WorkStages, Staging
<1>6. StoreSound
  <2>1. \A c \in Cycle : c \in Nat /\ 0 < c
    BY ConstantsAssumption DEF Cycle
  <2> QED
    BY <1>2, <1>3, <2>1 DEF StoreSound
<1>7. EveryCallAccounted
  <2> SUFFICES ASSUME NEW r \in Role
               PROVE  made[r] = run.usage[r] + Underway[r] + Staged[r] + lost[r] + erased[r]
    BY DEF EveryCallAccounted
  <2>1. Carrying(pc) = {}
    BY <1>2 DEF Carrying, Staging, Asking
  <2>2. Underway[r] = 0
    <3>1. IsFiniteSet(Carrying(pc))
      BY CarryingIsFinite
    <3>2. Total(Load(pc, budget, r), Carrying(pc)) = 0
      BY <2>1, <3>1, TotalStep
    <3> QED
      BY <3>2, UnderwayNow
  <2>3. Staged = Unused
    BY <1>2, <1>3, ConstantsAssumption DEF Staged, Cycle
  <2> QED
    BY <1>2, <1>3, <2>2, <2>3, UnusedIsUsage
<1>8. CycleWithinAllowance
  <2> SUFFICES ASSUME NEW p \in Process, NEW r \in CycleRole
               PROVE  budget[p].cycle[r] <= Allowance(budget[p], r)
    BY DEF CycleWithinAllowance
  <2>1. budget[p] = fresh /\ Allowance(fresh, r) \in Nat /\ r \in Role
    BY <1>1, <1>2, AllowanceType, RolesAre
  <2> QED
    BY <1>1, <2>1, UnusedIsUsage
<1>9. happened["expiry"] = 0 /\ Bound["expiry"] \in Nat
  BY <1>2, ConstantsAssumption DEF Event
<1>10. Leased
  <2>1. Lapsed = {}
    BY <1>2 DEF Lapsed, WorkStages, Staging, Process
  <2> QED
    BY <1>2, <1>9, <2>1, FS_EmptySet DEF Leased
<1> QED
  BY <1>4, <1>5, <1>6, <1>7, <1>8, <1>9, <1>10 DEF Ledger, Core

LEMMA LedgerKept == Ledger /\ [Next]_vars => Ledger'
<1> SUFFICES ASSUME Ledger, [Next]_vars PROVE Ledger'
  OBVIOUS
<1>1. Core /\ Leased /\ happened["expiry"] <= Bound["expiry"]
  BY DEF Ledger
<1>2. ASSUME NEW p \in Process, WorkStep(p) PROVE Ledger'
  BY <1>1, <1>2, WorkEffect, EffectLanding, MildKeepsLedger
<1>3. ASSUME NEW i \in Invocation, StorePrepared(i) PROVE Ledger'
  <2>1. Landing(i) /\ Leased' /\ happened' = happened
    BY <1>1, <1>3, FirstStore, SecondStore
  <2>2. i \in Process
    BY DEF Process
  <2> QED
    BY <2>1, <2>2, LandingKeepsLedger
<1>4. ASSUME NEW i \in Invocation, Commit(i) PROVE Ledger'
  BY <1>1, <1>4, CommitStep, MildKeepsLedger DEF Process
<1>5. ASSUME NEW p \in Process, Judge(p) PROVE Ledger'
  BY <1>1, <1>5, JudgeLanding, MildKeepsLedger
<1>6. ASSUME NEW p \in Process, WriteUsage(p) PROVE Ledger'
  BY <1>1, <1>6, WriteUsageLanding, MildKeepsLedger
<1>7. ASSUME Expire PROVE Ledger'
  BY <1>7, ExpireKeepsLedger
<1>8. ASSUME UNCHANGED vars PROVE Ledger'
  <2>1. UNCHANGED <<run, prepared, holder, pc, own, seen, budget, made, lost, staged, erased,
                    stagings, happened>>
    BY <1>8 DEF vars
  <2>2. Core'
    BY <1>1, <2>1 DEF Core, StateTypes, Tracks, Track, StoreSound
  <2>3. Leased'
    BY <1>1, <2>1 DEF Leased, Lapsed, StagingFor
  <2>4. EveryCallAccounted'
    <3>1. Underway' = Underway /\ Staged' = Staged
      BY <2>1 DEF Underway, Processes, Staged
    <3> QED
      BY <2>1, <3>1 DEF Ledger, EveryCallAccounted
  <2>5. CycleWithinAllowance'
    BY <2>1 DEF Ledger, CycleWithinAllowance
  <2> QED
    BY <1>1, <2>1, <2>2, <2>3, <2>4, <2>5 DEF Ledger
<1>9. CASE Next
  <2>1. CASE \E i \in Invocation : Advance(i) \/ Ask(i)
    <3>1. PICK i \in Invocation : Advance(i) \/ Ask(i)
      BY <2>1
    <3>2. StorePrepared(i) \/ Commit(i) \/ WorkStep(i)
      BY <3>1 DEF Advance, WorkStep
    <3> QED
      BY <1>2, <1>3, <1>4, <3>2 DEF Process
  <2>2. CASE \E p \in Caller : FireCheckpoint(p) \/ Ask(p)
    BY <1>2, <2>2 DEF WorkStep, Process
  <2>3. CASE \E p \in Analyst : Judge(p)
    BY <1>5, <2>3 DEF Process
  <2>4. CASE \E p \in Process : Record(p) \/ Crash(p)
    BY <1>2, <1>6, <2>4 DEF Record, WorkStep
  <2> QED
    BY <1>7, <1>9, <2>1, <2>2, <2>3, <2>4 DEF Next
<1> QED
  BY <1>8, <1>9

LEMMA LedgerHolds == Spec => []Ledger
  BY LedgerStarts, LedgerKept, PTL DEF Spec

\* Whatever is interleaved, refused, failed, retried or abandoned, every call
\* claimed is in the run's usage, on its way, dropped, or written over
\* (service._merged_usage, repositories.merge_usage, add_usage).
THEOREM UsageBalances == Spec => []EveryCallAccounted
<1>1. Ledger => EveryCallAccounted
  BY DEF Ledger
<1> QED
  BY <1>1, LedgerHolds, PTL

\* No interleaving of the writer threads, and no refusal, takes a cycle past
\* the limits of the protocol (ModelCallBudget.spend).
THEOREM AllowanceHolds == Spec => []CycleWithinAllowance
<1>1. Ledger => CycleWithinAllowance
  BY DEF Ledger
<1> QED
  BY <1>1, LedgerHolds, PTL

\* How often a cycle is staged and stored is bounded by how often a lock ran
\* out on a holder still at work; until one does, a retry never pays the
\* writers of a stored cycle again (service._prepare, acquire_cycle_lock).
THEOREM StagingIsBounded ==
  Spec => [](/\ \A c \in Cycle : stagings[c] <= 1 + happened["expiry"]
             /\ happened["expiry"] = 0 => StagedOnce)
<1>1. Ledger => /\ \A c \in Cycle : stagings[c] <= 1 + happened["expiry"]
                /\ happened["expiry"] = 0 => StagedOnce
  <2> SUFFICES ASSUME Ledger
               PROVE  \A c \in Cycle : stagings[c] <= 1 + happened["expiry"]
    BY DEF StagedOnce
  <2> SUFFICES ASSUME NEW c \in Cycle PROVE stagings[c] <= 1 + happened["expiry"]
    OBVIOUS
  <2>1. stagings[c] \in Nat /\ happened["expiry"] \in Nat /\ Cardinality(StagingFor(c)) \in Nat
    BY LeasesAreFinite, FS_CardinalityType DEF Ledger, Core, StateTypes, Event
  <2>2. CASE prepared[c] = None
    BY <2>1, <2>2 DEF Ledger, Core, StoreSound
  <2>3. CASE prepared[c] # None
    BY <2>1, <2>3 DEF Ledger, Leased
  <2> QED
    BY <2>2, <2>3
<1> QED
  BY <1>1, LedgerHolds, PTL

=============================================================================
