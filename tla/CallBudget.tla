----------------------------- MODULE CallBudget -----------------------------
(***************************************************************************)
(* What a run spends on models: the budget every call is claimed from      *)
(* before it is made, the engine that makes the calls of a cycle and of a  *)
(* checkpoint, and the usage the run record keeps of them.                 *)
(*                                                                         *)
(* An engine lives for one operation.  It starts its budget from the usage *)
(* in the run record it read, its writers claim concurrently, everything   *)
(* after them in the order of the arms.  What it claimed reaches the store *)
(* by two roads: the commit of a cycle writes the totals the staging read, *)
(* plus its own; add_usage reads, merges and writes under a counter only   *)
(* add_usage moves.                                                        *)
(*                                                                         *)
(* Commits and locks are those of module CycleCommit, cut down to what     *)
(* usage depends on; prompts, answers and memories are left out.           *)
(***************************************************************************)
EXTENDS Integers, Sequences, FiniteSetsExt, Functions

CONSTANTS
  Order,         \* the arms of the experiment, in configured order
  Dreamer,       \* the one arm that compresses
  Invocation,    \* run-cycle invocations that may be in flight at once
  Caller,        \* callers of run_checkpoint other than these
  Analyst,       \* analysis passes, each adding its spend once
  MaxCycle,      \* maximum_cycles of the run
  Checkpoint,    \* the protocol's interview checkpoints
  Parallel,      \* max_parallel_model_calls
  Limits,        \* the protocol's ModelCallLimits
  Wanted,        \* compressions the Dreamer may ask for in a cycle
  Attempts,      \* _MAX_USAGE_ATTEMPTS
  Bound,         \* how often each of the bounded events may happen
  None           \* nothing stored, nobody holding

VARIABLES
  run,           \* the run record: head, usage, usage_seq
  prepared,      \* the usage the prepared cycle of each cycle carries
  interviewed,   \* arms whose interview each checkpoint holds
  holder,        \* who holds the cycle lock
  pc,            \* how far each process has come
  own,           \* the cycle each process works on
  seen,          \* the run record as each process last read it
  budget,        \* the ModelCallBudget of each process's engine
  writer,        \* the writer call of each arm, per process
  turn,          \* the arm being finalised or interviewed, as an index
  tries,         \* attempts of add_usage made so far
  made,          \* history: every call claimed, by role
  lost,          \* history: claims dropped with the work they were made for
  staged,        \* history: the calls of each prepared cycle, the usage it read
  erased,        \* history: usage written over by one that had not seen it
  stagings,      \* history: stagings of each cycle that reached the store
  happened         \* how often each of the bounded events has happened

stored  == <<run, prepared, interviewed>>
engine  == <<budget, writer, turn>>
past    == <<staged, erased, stagings>>
history == <<made, lost, past>>
vars == <<run, prepared, interviewed, holder, pc, own, seen, budget, writer,
          turn, tries, made, lost, staged, erased, stagings, happened>>

Process == Invocation \cup Caller \cup Analyst
Arm     == {Order[n] : n \in DOMAIN Order}
Cycle   == 1 .. MaxCycle
CycleRole == {"writer", "summarizer", "token_counter", "interviewer"}
Role      == CycleRole \cup {"evaluator"}

\* Calls by role, as a run keeps them and a ledger is summed up.
Usage  == [Role -> Nat]
Unused == [r \in Role |-> 0]
Merge(u, v) == [r \in Role |-> u[r] + v[r]]
Calls(u, roles) == MapThenSumSet(LAMBDA r : u[r], roles)

\* The calls charged to an arm: cycle work, as opposed to analysis.
CycleCalls(u) == Calls(u, CycleRole)

NewRun == [head |-> 0, usage |-> Unused, seq |-> 0]
Run == [head : 0 .. MaxCycle, usage : Usage, seq : Nat]

Budget == [prior : Nat, cycle : Usage, spent : Usage, checkpoint : BOOLEAN]

\* An engine's budget before its first cycle is opened.
Fresh(u) == [prior |-> CycleCalls(u), cycle |-> Unused, spent |-> Unused,
             checkpoint |-> FALSE]

OpenCycle(b, atCheckpoint) ==
  [b EXCEPT !.cycle = Unused, !.checkpoint = atCheckpoint]

\* The events a run has no bound on: starts of a cycle, and faults.
Event == {"start", "fault", "expiry"}

Staging == {"writing", "counting", "rebalancing", "storing"}
Asking  == {"asking", "keeping", "reading", "adding"}
Stages  == {"idle", "locking", "preparing", "committing", "checkpoint"}
             \cup Staging \cup Asking

ASSUME ConstantsAssumption ==
  /\ Len(Order) > 0 /\ Dreamer \in Arm
  /\ IsFiniteSet(Process) /\ None \notin Process /\ None \notin Usage
  /\ MaxCycle \in Nat /\ Checkpoint \subseteq 0 .. MaxCycle
  /\ Limits \in [writer : Nat, summarizer : Nat, token_counter : Nat, evaluator : Nat,
                 interviewer : Nat, at_checkpoint : Nat, run : Nat]
  /\ {Parallel, Wanted, Attempts} \subseteq Nat \ {0}
  /\ Bound \in [Event -> Nat]

TypeOK ==
  /\ run \in Run
  /\ prepared \in [Cycle -> Usage \cup {None}]
  /\ interviewed \in [Checkpoint -> SUBSET Arm]
  /\ holder \in Invocation \cup {None}
  /\ pc \in [Process -> Stages]
  /\ own \in [Process -> 0 .. MaxCycle]
  /\ seen \in [Process -> Run]
  /\ budget \in [Process -> Budget]
  /\ writer \in [Process -> [Arm -> {"queued", "calling", "written", "failed"}]]
  /\ turn \in [Process -> 1 .. Len(Order) + 1]
  /\ tries \in [Process -> 0 .. Attempts]
  /\ {made, lost} \subseteq Usage
  /\ erased \in [Role -> Int]
  /\ staged \in [Cycle -> [own : Usage, read : Usage]]
  /\ stagings \in [Cycle -> Nat]
  /\ happened \in [Event -> Nat]

Init ==
  /\ run = NewRun
  /\ prepared = [c \in Cycle |-> None]
  /\ interviewed = [c \in Checkpoint |-> {}]
  /\ holder = None
  /\ pc = [p \in Process |-> "idle"]
  /\ own = [p \in Process |-> 0]
  /\ seen = [p \in Process |-> run]
  /\ budget = [p \in Process |-> Fresh(Unused)]
  /\ writer = [p \in Process |-> [a \in Arm |-> "queued"]]
  /\ turn = [p \in Process |-> 1]
  /\ tries = [p \in Process |-> 0]
  /\ made = Unused
  /\ lost = Unused
  /\ erased = Unused
  /\ staged = [c \in Cycle |-> [own |-> Unused, read |-> Unused]]
  /\ stagings = [c \in Cycle |-> 0]
  /\ happened = [k \in Event |-> 0]

-----------------------------------------------------------------------------
(* The budget: one claim, decided and recorded under the budget's lock.    *)

Allowance(b, r) ==
  CASE r = "writer"        -> Limits.writer
    [] r = "summarizer"    -> Limits.summarizer
    [] r = "token_counter" -> Limits.token_counter
    [] r = "evaluator"     -> Limits.evaluator
    [] r = "interviewer" /\ b.checkpoint  -> Limits.at_checkpoint
    [] r = "interviewer" /\ ~b.checkpoint -> Limits.interviewer

AtCeiling(b) == b.prior + Calls(b.spent, Role) >= Limits.run

\* A slip: the limit is the last refused value instead of the first.
RefusedAboveAllowance(b, r) == b.cycle[r] > Allowance(b, r) \/ AtCeiling(b)

Refused(b, r) == b.cycle[r] >= Allowance(b, r) \/ AtCeiling(b)

Claimed(b, r) == [b EXCEPT !.cycle[r] = @ + 1, !.spent[r] = @ + 1]

Claim(p, r) ==
  /\ ~Refused(budget[p], r)
  /\ budget' = [budget EXCEPT ![p] = Claimed(budget[p], r)]
  /\ made' = [made EXCEPT ![r] = @ + 1]

Happens(k) ==
  /\ happened[k] < Bound[k]
  /\ happened' = [happened EXCEPT ![k] = @ + 1]

\* The claims that vanish when p's operation is abandoned.
Dropped(p) ==
  IF pc[p] \in Staging \cup Asking THEN budget[p].spent ELSE Unused

\* The operation of p ends, and with it its engine and all it has read.
End(p) ==
  /\ pc' = [pc EXCEPT ![p] = "idle"]
  /\ own' = [own EXCEPT ![p] = 0]
  /\ seen' = [seen EXCEPT ![p] = NewRun]
  /\ tries' = IF p \in Analyst THEN tries ELSE [tries EXCEPT ![p] = 0]
  /\ budget' = [budget EXCEPT ![p] = Fresh(Unused)]
  /\ writer' = [writer EXCEPT ![p] = [a \in Arm |-> "queued"]]
  /\ turn' = [turn EXCEPT ![p] = 1]

Release(p) == holder' = IF holder = p THEN None ELSE holder

\* An exception leaves the operation: the lock is released, the claims drop.
Raise(p) ==
  /\ End(p)
  /\ Release(p)
  /\ lost' = Merge(lost, Dropped(p))
  /\ UNCHANGED <<run, prepared, interviewed, past>>

-----------------------------------------------------------------------------
(* One cycle: run_next_cycle.                                              *)

ReadRun(i) ==
  /\ pc[i] = "idle" /\ run.head < MaxCycle
  /\ happened["start"] < Bound["start"]
  /\ pc' = [pc EXCEPT ![i] = "locking"]
  /\ own' = [own EXCEPT ![i] = run.head + 1]
  /\ seen' = [seen EXCEPT ![i] = run]
  /\ UNCHANGED <<stored, holder, engine, tries, history, happened>>

TakeLock(i) ==
  /\ pc[i] = "locking"
  /\ \/ /\ holder = None
        /\ holder' = i
        /\ Happens("start")
        /\ pc' = [pc EXCEPT ![i] = "preparing"]
        /\ UNCHANGED <<own, seen, engine, tries>>
     \/ /\ holder # None
        /\ End(i)
        /\ UNCHANGED <<holder, happened>>
  /\ UNCHANGED <<stored, history>>

\* A slip: a retry stages again instead of looking for what is prepared.
NeverReusable(c) == FALSE

\* A cycle already prepared is committed as it is; no writer is called again.
Reusable(c) == prepared[c] # None

Prepare(i) ==
  /\ pc[i] = "preparing"
  /\ IF Reusable(own[i])
     THEN /\ pc' = [pc EXCEPT ![i] = "committing"]
          /\ UNCHANGED budget
     ELSE /\ pc' = [pc EXCEPT ![i] = "writing"]
          /\ budget' = [budget EXCEPT ![i] = OpenCycle(Fresh(seen[i].usage), FALSE)]
  /\ UNCHANGED <<stored, holder, own, seen, writer, turn, tries, history, happened>>

\* The pool runs the arms in the order they were submitted, Parallel at once.
Waiting(i) == {n \in DOMAIN Order : writer[i][Order[n]] = "queued"}
Busy(i)  == Cardinality({a \in Arm : writer[i][a] = "calling"})

StartWriter(i) ==
  /\ pc[i] = "writing" /\ Waiting(i) # {} /\ Busy(i) < Parallel
  /\ LET a == Order[Min(Waiting(i))] IN
       \/ /\ Claim(i, "writer")
          /\ writer' = [writer EXCEPT ![i][a] = "calling"]
       \/ /\ Refused(budget[i], "writer")
          /\ writer' = [writer EXCEPT ![i][a] = "failed"]
          /\ UNCHANGED <<budget, made>>
  /\ UNCHANGED <<stored, holder, pc, own, seen, turn, tries, lost, past, happened>>

WriterReturns(i, a) ==
  /\ pc[i] = "writing" /\ writer[i][a] = "calling"
  /\ \/ /\ writer' = [writer EXCEPT ![i][a] = "written"]
        /\ UNCHANGED happened
     \/ /\ Happens("fault")
        /\ writer' = [writer EXCEPT ![i][a] = "failed"]
  /\ UNCHANGED <<stored, holder, pc, own, seen, budget, turn, tries, history>>

\* The pool is left only when every writer is through, whatever failed.
Gather(i) ==
  /\ pc[i] = "writing"
  /\ \A a \in Arm : writer[i][a] \in {"written", "failed"}
  /\ UNCHANGED <<happened, made>>
  /\ IF \A a \in Arm : writer[i][a] = "written"
     THEN /\ pc' = [pc EXCEPT ![i] = "counting"]
          /\ UNCHANGED <<stored, holder, own, seen, engine, tries, lost, past>>
     ELSE Raise(i)

\* One claimed call of a sequential phase: it succeeds, and p goes on to arm
\* n, or it fails, or it is refused.
Call(p, r, then, n) ==
  \/ /\ Claim(p, r)
     /\ pc' = [pc EXCEPT ![p] = then]
     /\ turn' = [turn EXCEPT ![p] = n]
     /\ UNCHANGED <<stored, holder, own, seen, writer, tries, lost, past, happened>>
  \/ /\ ~Refused(budget[p], r)
     /\ Happens("fault")
     /\ End(p) /\ Release(p)
     /\ made' = [made EXCEPT ![r] = @ + 1]
     /\ lost' = Merge(lost, Claimed(budget[p], r).spent)
     /\ UNCHANGED <<stored, past>>
  \/ /\ Refused(budget[p], r)
     /\ Raise(p)
     /\ UNCHANGED <<made, happened>>

\* Finalising an arm: its candidate is counted, then its policy rebalances.
CountCandidate(i) ==
  /\ pc[i] = "counting" /\ turn[i] \in DOMAIN Order
  /\ Call(i, "token_counter", "rebalancing", turn[i])

WriteSummary(i) ==
  /\ pc[i] = "rebalancing" /\ Order[turn[i]] = Dreamer
  /\ budget[i].cycle["summarizer"] < Wanted
  /\ Call(i, "summarizer", "rebalancing", turn[i])

FinishArm(i) ==
  /\ pc[i] = "rebalancing"
  /\ turn' = [turn EXCEPT ![i] = @ + 1]
  /\ pc' = [pc EXCEPT ![i] = IF turn[i] = Len(Order) THEN "storing" ELSE "counting"]
  /\ UNCHANGED <<stored, holder, own, seen, budget, writer, tries, history, happened>>

\* A slip: the prepared cycle carries its own calls only.
OwnUsage(i) == budget[i].spent

\* The totals the prepared cycle carries: those it was staged from, plus its own.
MergedUsage(i) == Merge(seen[i].usage, budget[i].spent)

StorePrepared(i) ==
  /\ pc[i] = "storing"
  /\ stagings' = [stagings EXCEPT ![own[i]] = @ + 1]
  /\ UNCHANGED <<made, erased, happened>>
  /\ IF prepared[own[i]] = None
     THEN /\ prepared' = [prepared EXCEPT ![own[i]] = MergedUsage(i)]
          /\ staged' = [staged EXCEPT ![own[i]] =
                           [own |-> budget[i].spent, read |-> seen[i].usage]]
          /\ pc' = [pc EXCEPT ![i] = "committing"]
          /\ UNCHANGED <<run, interviewed, holder, own, seen, engine, tries, lost>>
     ELSE /\ End(i) /\ Release(i)
          /\ lost' = Merge(lost, Dropped(i))
          /\ UNCHANGED <<stored, staged>>

\* What is written over: the run's usage, but for the part that was read.
Unread(read) == [r \in Role |-> erased[r] + run.usage[r] - read[r]]

\* The commit holds to the head it was staged from and to the lock; it does
\* not look at usage_seq, and it does not move it.
Commit(i) ==
  /\ pc[i] = "committing"
  /\ UNCHANGED <<made, happened>>
  /\ IF run.head = seen[i].head /\ holder = i
     THEN /\ run' = [run EXCEPT !.head = own[i], !.usage = prepared[own[i]]]
          /\ erased' = Unread(staged[own[i]].read)
          /\ holder' = None
          /\ IF own[i] \in Checkpoint
             THEN /\ pc' = [pc EXCEPT ![i] = "checkpoint"]
                  /\ UNCHANGED <<own, seen, engine, tries>>
             ELSE End(i)
          /\ UNCHANGED <<prepared, interviewed, lost, staged, stagings>>
     ELSE Raise(i)

-----------------------------------------------------------------------------
(* A checkpoint: run_checkpoint, by an invocation or by another caller.    *)

\* A slip: indices of arms that count from zero.
OutstandingFromZero(c) == {n \in 0 .. Len(Order) - 1 : Order[n + 1] \notin interviewed[c]}

Outstanding(c) == {n \in DOMAIN Order : Order[n] \notin interviewed[c]}

FireCheckpoint(p) ==
  /\ pc[p] = "idle" /\ run.head \in Checkpoint
  /\ Outstanding(run.head) # {}
  /\ pc' = [pc EXCEPT ![p] = "checkpoint"]
  /\ own' = [own EXCEPT ![p] = run.head]
  /\ UNCHANGED <<stored, holder, seen, engine, tries, history, happened>>

\* The engine is restored from the run as it is now, and refuses to interview
\* for any cycle but the run's own.
BeginCheckpoint(p) ==
  /\ pc[p] = "checkpoint"
  /\ IF run.head = own[p] /\ Outstanding(own[p]) # {}
     THEN /\ seen' = [seen EXCEPT ![p] = run]
          /\ budget' = [budget EXCEPT ![p] = OpenCycle(Fresh(run.usage), TRUE)]
          /\ turn' = [turn EXCEPT ![p] = Min(Outstanding(own[p]))]
          /\ pc' = [pc EXCEPT ![p] = "asking"]
          /\ UNCHANGED <<own, writer, tries>>
     ELSE End(p)
  /\ UNCHANGED <<stored, holder, history, happened>>

Later(p) == {n \in DOMAIN Order : n > turn[p] /\ n \in Outstanding(own[p])}

Interview(p) ==
  /\ pc[p] = "asking"
  /\ IF Later(p) = {}
     THEN Call(p, "interviewer", "keeping", turn[p])
     ELSE Call(p, "interviewer", "asking", Min(Later(p)))

StoreInterviews(p) ==
  /\ pc[p] = "keeping"
  /\ interviewed' = [interviewed EXCEPT ![own[p]] = Arm]
  /\ pc' = [pc EXCEPT ![p] = "reading"]
  /\ UNCHANGED <<run, prepared, holder, own, seen, engine, tries, history, happened>>

-----------------------------------------------------------------------------
(* add_usage: by a checkpoint, and by an analysis for its judge calls.     *)

Judge(p) ==
  /\ pc[p] = "idle" /\ tries[p] = 0
  /\ budget' = [budget EXCEPT ![p].spent["evaluator"] = 1]
  /\ made' = [made EXCEPT !["evaluator"] = @ + 1]
  /\ pc' = [pc EXCEPT ![p] = "reading"]
  /\ UNCHANGED <<stored, holder, own, seen, writer, turn, tries, lost, past, happened>>

ReadUsage(p) ==
  /\ pc[p] = "reading"
  /\ seen' = [seen EXCEPT ![p] = run]
  /\ tries' = [tries EXCEPT ![p] = @ + 1]
  /\ pc' = [pc EXCEPT ![p] = "adding"]
  /\ UNCHANGED <<stored, holder, own, engine, history, happened>>

\* A slip: a blind write.
AlwaysUntouched(p) == TRUE

\* The condition on the write.
Untouched(p) == run.seq = seen[p].seq

WriteUsage(p) ==
  /\ pc[p] = "adding" /\ Untouched(p)
  /\ run' = [run EXCEPT !.usage = Merge(seen[p].usage, budget[p].spent),
                        !.seq = @ + 1]
  /\ erased' = IF run.seq = seen[p].seq THEN Unread(seen[p].usage) ELSE erased
  /\ End(p)
  /\ UNCHANGED <<prepared, interviewed, holder, made, lost, staged, stagings, happened>>

Contended(p) ==
  /\ pc[p] = "adding" /\ ~Untouched(p)
  /\ UNCHANGED <<made, happened>>
  /\ IF tries[p] < Attempts
     THEN /\ pc' = [pc EXCEPT ![p] = "reading"]
          /\ UNCHANGED <<stored, holder, own, seen, engine, tries, lost, past>>
     ELSE Raise(p)

-----------------------------------------------------------------------------

\* A process that dies keeps its lock until the lock expires.
Crash(p) ==
  /\ pc[p] # "idle" /\ Happens("fault")
  /\ End(p)
  /\ lost' = Merge(lost, Dropped(p))
  /\ UNCHANGED <<stored, holder, made, past>>

\* The lock of a dead holder expires; so does that of one that takes too long.
Working(p) == pc[p] \in {"preparing", "committing"} \cup Staging

Expire ==
  /\ holder # None
  /\ holder' = None
  /\ IF Working(holder) THEN Happens("expiry") ELSE UNCHANGED happened
  /\ UNCHANGED <<stored, pc, own, seen, engine, tries, history>>

Advance(i) ==
  \/ ReadRun(i) \/ TakeLock(i) \/ Prepare(i) \/ StartWriter(i)
  \/ (\E a \in Arm : WriterReturns(i, a)) \/ Gather(i)
  \/ CountCandidate(i) \/ WriteSummary(i) \/ FinishArm(i)
  \/ StorePrepared(i) \/ Commit(i)

Ask(p) == BeginCheckpoint(p) \/ Interview(p) \/ StoreInterviews(p)

Record(p) == ReadUsage(p) \/ WriteUsage(p) \/ Contended(p)

Next ==
  \/ \E i \in Invocation : Advance(i) \/ Ask(i)
  \/ \E p \in Caller : FireCheckpoint(p) \/ Ask(p)
  \/ \E p \in Analyst : Judge(p)
  \/ \E p \in Process : Record(p) \/ Crash(p)
  \/ Expire

Spec == Init /\ [][Next]_vars

-----------------------------------------------------------------------------
(* What must hold.                                                         *)

Processes(stages) == {p \in Process : pc[p] \in stages}

Sum(f, S) == [r \in Role |-> MapThenSumSet(LAMBDA x : f[x][r], S)]

\* Claims on their way to the run record: with an engine at work, or in a
\* prepared cycle that waits for its commit.
Underway == Sum([p \in Process |-> budget[p].spent], Processes(Staging \cup Asking))
Staged == IF run.head < MaxCycle THEN staged[run.head + 1].own ELSE Unused

\* Every call ever claimed is in the run's usage, or still on its way there,
\* or was dropped with the staging or checkpoint it was made for, or was
\* written over by a commit staged, or past a commit made, in between: each
\* road for itself, and any number of add_usage, loses none and counts none
\* twice
\* (service._merged_usage, repositories.merge_usage, add_usage).
EveryCallAccounted ==
  \A r \in Role :
    made[r] = run.usage[r] + Underway[r] + Staged[r] + lost[r] + erased[r]

\* What the repository says of add_usage: it is not a blind write, because a
\* spend counter that undercounts is worse than one that fails.
NothingUndercounted == erased = Unused

\* The writers of a cycle that was staged to the end are never paid again: a
\* retry of its commit reuses what is prepared (service._prepare).
StagedOnce == \A c \in Cycle : stagings[c] <= 1

\* No two writers pass the last slot of an allowance, and the interviewer's
\* allowance is that of the checkpoint: what a whole cycle has claimed, over
\* all its arms and threads, is within the protocol's limits (budget.spend).
CycleWithinAllowance ==
  \A p \in Process : \A r \in CycleRole : budget[p].cycle[r] <= Allowance(budget[p], r)

=============================================================================
