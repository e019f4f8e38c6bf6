----------------------------- MODULE AfterCommit -----------------------------
(***************************************************************************)
(* What follows a commit: the checkpoint interviews, the one event the     *)
(* system publishes, and the analysis Lambda that the event starts.        *)
(*                                                                         *)
(*   commit -> interviews -> publish ~> deliver -> claim -> interviews     *)
(*                 -> snapshots -> score -> metrics -> status              *)
(*                 -> artefacts -> mark                                    *)
(*                                                                         *)
(* The commit is the single step that module CycleCommit is shown to make  *)
(* it (AtomicRun!Advance); everything here runs without its lock, so the   *)
(* run may move on between any two steps.  The bus delivers an event at    *)
(* least once, in any order, and again when its delivery failed.           *)
(*                                                                         *)
(* A memory state is named by the cycle that left it.  Answers, metrics    *)
(* and derived documents are abstracted to the cycles they were computed   *)
(* from.                                                                   *)
(***************************************************************************)
EXTENDS Integers, FiniteSetsExt

CONSTANTS
  Arm,           \* the arms, numbered in the order they are read and stored
  Invocation,    \* run-cycle invocations that may be in flight at once
  Worker,        \* analysis invocations that may be in flight at once
  Operator,      \* callers of run_checkpoint other than these two
  MaxCycle,      \* maximum_cycles of the run
  Checkpoint,    \* the protocol's interview checkpoints
  Artefact,      \* the names of the derived documents
  Retries,       \* how often a failed delivery is repeated
  MaxFaults,     \* how many faults may happen
  None           \* nothing stored, nothing held

VARIABLES
  head,          \* the last committed cycle
  interviews,    \* the interview stored for each checkpoint and arm
  marker,        \* the analysis marker of each cycle
  metrics,       \* per arm: the cycles 1 .. n that have stored metrics
  secondary,     \* per cycle and arm: the state its secondary metrics are of
  status,        \* the analysis status: the cycles 1 .. n it claims
  artefacts,     \* per name: how far into the run the stored document saw
  bus,           \* per cycle: its event, from the moment it is published
  pc,            \* how far each process has come
  own,           \* the cycle each process works on
  at,            \* the run's head as each process read it
  held,          \* per process and arm: the state, or the history, it read
  now,           \* per process: the states its secondary metrics are of
  todo,          \* per process: arms still to ask, documents still to write
  faults         \* how many faults have happened; cycles whose analysis died

store == <<interviews, marker, metrics, secondary, status, artefacts>>
local == <<pc, own, at, held, now, todo>>
vars  == <<head, interviews, marker, metrics, secondary, status, artefacts,
           bus, pc, own, at, held, now, todo, faults>>

Process == Invocation \cup Worker \cup Operator
Cycle   == 1 .. MaxCycle
Reached == 0 .. MaxCycle
Blank   == [a \in Arm |-> None]

\* An interview: the state it was asked of, and by whom.
Interview == [of : Reached, by : Process]

\* The payload of an analysis marker.
Marker == {"claim", "result"}

Event == [copies : 0 .. 1 + Retries + MaxFaults, retries : 0 .. Retries]

Asking    == {"begin", "look", "restoring", "keeping"}
Analysing == {"snapshots", "scoring", "metrics", "status", "artefacts"}
Stages    == {"idle", "publishing", "claiming", "marking"} \cup Asking \cup Analysing

ASSUME ConstantsAssumption ==
  /\ MaxCycle \in Nat \ {0}
  /\ Checkpoint \subseteq 0 .. MaxCycle
  /\ Arm \subseteq Nat /\ \E last \in Arm : \A a \in Arm : a <= last
  /\ Retries \in Nat
  /\ MaxFaults \in Nat

ASSUME ProcessAssumption ==
  /\ Invocation \cap Worker = {} /\ Invocation \cap Operator = {}
  /\ Worker \cap Operator = {} /\ Arm \cap Artefact = {}

ASSUME NothingAssumption ==
  /\ None \notin Interview /\ None \notin Marker
  /\ None \notin Event /\ None \notin Reached

-----------------------------------------------------------------------------

TypeOK ==
  /\ head \in Reached
  /\ interviews \in [Checkpoint -> [Arm -> Interview \cup {None}]]
  /\ marker \in [Cycle -> Marker \cup {None}]
  /\ metrics \in [Arm -> Reached]
  /\ secondary \in [Cycle -> [Arm -> Cycle \cup {None}]]
  /\ status \in Reached
  /\ artefacts \in [Artefact -> Reached]
  /\ bus \in [Cycle -> Event \cup {None}]
  /\ pc \in [Process -> Stages]
  /\ own \in [Process -> Reached]
  /\ at \in [Process -> Reached]
  /\ held \in [Process -> [Arm -> Reached \cup {None}]]
  /\ now \in [Process -> Reached]
  /\ todo \in [Process -> SUBSET (Arm \cup Artefact)]
  /\ faults \in [count : 0 .. MaxFaults, died : SUBSET Cycle]

Init ==
  /\ head = 0
  /\ interviews = [c \in Checkpoint |-> Blank]
  /\ marker = [c \in Cycle |-> None]
  /\ metrics = [a \in Arm |-> 0]
  /\ secondary = [c \in Cycle |-> Blank]
  /\ status = 0
  /\ artefacts = [n \in Artefact |-> 0]
  /\ bus = [c \in Cycle |-> None]
  /\ pc = [p \in Process |-> "idle"]
  /\ own = [p \in Process |-> 0]
  /\ at = [p \in Process |-> 0]
  /\ held = [p \in Process |-> Blank]
  /\ now = [p \in Process |-> 0]
  /\ todo = [p \in Process |-> {}]
  /\ faults = [count |-> 0, died |-> {}]

Goto(p, stage) == pc' = [pc EXCEPT ![p] = stage]

\* A process ends its work: nothing of it is kept in memory.
Forget(p) ==
  /\ Goto(p, "idle")
  /\ own' = [own EXCEPT ![p] = 0]
  /\ at' = [at EXCEPT ![p] = 0]
  /\ held' = [held EXCEPT ![p] = Blank]
  /\ now' = [now EXCEPT ![p] = 0]
  /\ todo' = [todo EXCEPT ![p] = {}]

Start(p, c, stage) ==
  /\ pc[p] = "idle"
  /\ Goto(p, stage)
  /\ own' = [own EXCEPT ![p] = c]
  /\ UNCHANGED <<at, held, now, todo>>

MayFail == faults.count < MaxFaults
Fault == MayFail /\ faults' = [faults EXCEPT !.count = @ + 1]

-----------------------------------------------------------------------------
(* The run-cycle handler, from its commit on. *)

\* Mutant: the event is published as soon as the cycle is committed.
StraightToPublish(c) == "publishing"

\* run_next_cycle interviews inline after a checkpoint cycle, then returns.
StageAfterCommit(c) == IF c \in Checkpoint THEN "begin" ELSE "publishing"

Commit(i) ==
  /\ head < MaxCycle
  /\ head' = head + 1
  /\ Start(i, head + 1, StageAfterCommit(head + 1))
  /\ UNCHANGED <<store, bus, faults>>

\* An operator fires a checkpoint by hand; one the run has not reached is
\* refused.
Fire(o, c) ==
  /\ c <= head
  /\ Start(o, c, "begin")
  /\ UNCHANGED <<head, store, bus, faults>>

\* The event reaches the bus.
Publish(i) ==
  /\ pc[i] = "publishing"
  /\ bus' = [bus EXCEPT ![own[i]] = [copies |-> 1, retries |-> Retries]]
  /\ Forget(i)
  /\ UNCHANGED <<head, store, faults>>

\* The bus did not take the event: put_events raised, or answered with a
\* failed entry, which nobody looks at.
PublishLost(i) ==
  /\ pc[i] = "publishing"
  /\ Fault
  /\ Forget(i)
  /\ UNCHANGED <<head, store, bus>>

-----------------------------------------------------------------------------
(* The bus: at least once, and again when a delivery failed. *)

Duplicate(c) ==
  /\ bus[c] # None
  /\ Fault
  /\ bus' = [bus EXCEPT ![c].copies = @ + 1]
  /\ UNCHANGED <<head, store, local>>

Deliver(w, c) ==
  /\ bus[c] # None /\ bus[c].copies > 0
  /\ bus' = [bus EXCEPT ![c].copies = @ - 1]
  /\ Start(w, c, "claiming")
  /\ UNCHANGED <<head, store, faults>>

\* A delivery that raised or died is repeated while attempts are left; the
\* last one goes to the dead-letter queue.
Redelivered(c) ==
  IF bus[c].retries > 0
  THEN [bus EXCEPT ![c] = [copies |-> @.copies + 1, retries |-> @.retries - 1]]
  ELSE bus

-----------------------------------------------------------------------------
(* run_checkpoint, for whoever calls it: the run record, the interviews    *)
(* already there, the arm states (a query that is not isolated from        *)
(* commits), the questions, and one conditional write per arm.             *)

\* Where a process goes on when its checkpoint is done.
AfterCheckpoint(p) ==
  IF p \in Worker THEN "snapshots" ELSE IF p \in Invocation THEN "publishing" ELSE "idle"

\* Mutant: a failed analysis keeps its claim.
Keep(p) == marker

\* A failed analysis drops its claim.
Released(p) == IF p \in Worker THEN [marker EXCEPT ![own[p]] = None] ELSE marker

\* An exception leaves the process: an analysis releases its claim and its
\* event is delivered again; everybody else just stops.
Raise(p) ==
  /\ marker' = Released(p)
  /\ bus' = IF p \in Worker THEN Redelivered(own[p]) ELSE bus
  /\ Forget(p)

BeginCheckpoint(p) ==
  /\ pc[p] = "begin"
  /\ at' = [at EXCEPT ![p] = head]
  /\ Goto(p, "look")
  /\ UNCHANGED <<head, store, bus, own, held, now, todo, faults>>

Outstanding(c) == {a \in Arm : interviews[c][a] = None}

LookForInterviews(p) ==
  /\ pc[p] = "look"
  /\ todo' = [todo EXCEPT ![p] = Outstanding(own[p])]
  /\ IF Outstanding(own[p]) = {}
     THEN Goto(p, AfterCheckpoint(p)) /\ at' = [at EXCEPT ![p] = 0]
     ELSE Goto(p, "restoring") /\ UNCHANGED at
  /\ UNCHANGED <<head, store, bus, own, held, now, faults>>

\* One arm after the other is read.
NextArm(p, a) == \A b \in Arm : held[p][b] = None <=> b >= a

ReadArmState(p, a) ==
  /\ pc[p] = "restoring"
  /\ NextArm(p, a)
  /\ held' = [held EXCEPT ![p][a] = head]
  /\ UNCHANGED <<head, store, bus, pc, own, at, now, todo, faults>>

\* The restored engine asks only at the cycle the run record was at.
Ask(p) ==
  /\ pc[p] = "restoring"
  /\ \A a \in Arm : held[p][a] # None
  /\ IF at[p] = own[p]
     THEN /\ Goto(p, "keeping")
          /\ UNCHANGED <<marker, bus, own, at, held, now, todo>>
     ELSE Raise(p)
  /\ UNCHANGED <<head, interviews, metrics, secondary, status, artefacts, faults>>

\* Mutant: an interview that is already there is replaced.
AlwaysStorable(c, a) == TRUE

\* One conditional write: an interview is a measurement and is not revised.
Storable(c, a) == interviews[c][a] = None

KeepInterview(p, a) ==
  /\ pc[p] = "keeping"
  /\ a \in todo[p] /\ a = Min(todo[p])
  /\ IF Storable(own[p], a)
     THEN /\ interviews' = [interviews EXCEPT ![own[p]][a] =
                              [of |-> held[p][a], by |-> p]]
          /\ todo' = [todo EXCEPT ![p] = @ \ {a}]
          /\ UNCHANGED <<marker, bus, pc, own, at, held, now>>
     ELSE /\ Raise(p)
          /\ UNCHANGED interviews
  /\ UNCHANGED <<head, metrics, secondary, status, artefacts, faults>>

EndCheckpoint(p) ==
  /\ pc[p] = "keeping"
  /\ todo[p] = {}
  /\ Goto(p, AfterCheckpoint(p))
  /\ at' = [at EXCEPT ![p] = 0]
  /\ held' = [held EXCEPT ![p] = Blank]
  /\ UNCHANGED <<head, store, bus, own, now, todo, faults>>

-----------------------------------------------------------------------------
(* The analysis handler. *)

\* Mutant: the marker is put without a condition.
AlwaysClaimable(c) == c <= head

\* _verify finds the announced cycle in the store, and the conditional put of
\* the marker goes through.
Claimable(c) == c <= head /\ marker[c] = None

Claim(w) ==
  /\ pc[w] = "claiming"
  /\ IF Claimable(own[w])
     THEN /\ marker' = [marker EXCEPT ![own[w]] = "claim"]
          /\ Goto(w, IF own[w] \in Checkpoint THEN "begin" ELSE "snapshots")
          /\ UNCHANGED <<own, at, held, now, todo>>
     ELSE /\ Forget(w)
          /\ UNCHANGED marker
  /\ UNCHANGED <<head, interviews, metrics, secondary, status, artefacts, bus, faults>>

\* analyse_run reads the run record first ...
ReadRun(w) ==
  /\ pc[w] = "snapshots"
  /\ held[w] = Blank /\ at[w] = 0
  /\ at' = [at EXCEPT ![w] = head]
  /\ UNCHANGED <<head, store, bus, pc, own, held, now, todo, faults>>

\* ... then the committed history of one arm after the other ...
ReadHistory(w, a) ==
  /\ pc[w] = "snapshots"
  /\ at[w] # 0
  /\ NextArm(w, a)
  /\ held' = [held EXCEPT ![w][a] = head]
  /\ Goto(w, IF a = Max(Arm) THEN "scoring" ELSE "snapshots")
  /\ UNCHANGED <<head, store, bus, own, at, now, todo, faults>>

\* ... and every arm's current state, for the metrics at the run's cycle.
\* All of it is computed before the first metric is stored.
Score(w) ==
  /\ pc[w] = "scoring"
  /\ now' = [now EXCEPT ![w] = head]
  /\ Goto(w, "metrics")
  /\ UNCHANGED <<head, store, bus, own, at, held, todo, faults>>

\* Metrics are keyed by cycle and arm: storing them again adds nothing.
StoreMetrics(w) ==
  /\ pc[w] = "metrics"
  /\ metrics' = [a \in Arm |-> Max({metrics[a], held[w][a]})]
  /\ secondary' = [secondary EXCEPT ![at[w]] = [a \in Arm |-> now[w]]]
  /\ Goto(w, "status")
  /\ UNCHANGED <<head, interviews, marker, status, artefacts, bus,
                 own, at, held, now, todo, faults>>

\* The cycles that have snapshots are 1 .. head.
list_completed_cycles == head

\* The status lists the cycles that are committed when it is written.
StoreStatus(w) ==
  /\ pc[w] = "status"
  /\ status' = list_completed_cycles
  /\ Goto(w, "artefacts")
  /\ todo' = [todo EXCEPT ![w] = Artefact]
  /\ UNCHANGED <<head, interviews, marker, metrics, secondary, artefacts, bus,
                 own, at, held, now, faults>>

\* A document is derived from what was read of every arm, whatever its name.
Payload(w) == Min({held[w][a] : a \in Arm})

\* Each document replaces the one stored under its name.
StoreArtefact(w, n) ==
  /\ pc[w] = "artefacts"
  /\ n \in todo[w]
  /\ artefacts' = [artefacts EXCEPT ![n] = Payload(w)]
  /\ todo' = [todo EXCEPT ![w] = @ \ {n}]
  /\ Goto(w, IF todo[w] = {n} THEN "marking" ELSE "artefacts")
  /\ UNCHANGED <<head, interviews, marker, metrics, secondary, status, bus,
                 own, at, held, now, faults>>

\* The same conditional put again, now with the counts in it.
Mark(w) ==
  /\ pc[w] = "marking"
  /\ marker' = IF marker[own[w]] = None
               THEN [marker EXCEPT ![own[w]] = "result"] ELSE marker
  /\ Forget(w)
  /\ UNCHANGED <<head, interviews, metrics, secondary, status, artefacts, bus, faults>>

-----------------------------------------------------------------------------
(* Faults. *)

Claims(w, c) == own[w] = c /\ pc[w] \in Asking \cup Analysing \cup {"marking"}

\* A model or a store call fails inside run_checkpoint or the analysis.
Failure(p) ==
  /\ pc[p] \in Asking \cup Analysing
  /\ Fault
  /\ Raise(p)
  /\ UNCHANGED <<head, interviews, metrics, secondary, status, artefacts>>

\* The process dies or is killed at its timeout: no except clause runs.
Crash(p) ==
  /\ pc[p] # "idle"
  /\ MayFail
  /\ faults' = [count |-> faults.count + 1,
                died |-> faults.died \cup {c \in Cycle : p \in Worker /\ Claims(p, c)}]
  /\ bus' = IF p \in Worker THEN Redelivered(own[p]) ELSE bus
  /\ Forget(p)
  /\ UNCHANGED <<head, store>>

-----------------------------------------------------------------------------

CheckpointStep(p) ==
  \/ BeginCheckpoint(p)
  \/ LookForInterviews(p)
  \/ Ask(p)
  \/ EndCheckpoint(p)
  \/ \E a \in Arm : ReadArmState(p, a) \/ KeepInterview(p, a)

AnalysisStep(w) ==
  \/ Claim(w)
  \/ ReadRun(w)
  \/ Score(w)
  \/ StoreMetrics(w)
  \/ StoreStatus(w)
  \/ Mark(w)
  \/ \E a \in Arm : ReadHistory(w, a)
  \/ \E n \in Artefact : StoreArtefact(w, n)

Next ==
  \/ \E i \in Invocation : Commit(i) \/ Publish(i) \/ PublishLost(i)
  \/ \E o \in Operator, c \in Checkpoint : Fire(o, c)
  \/ \E c \in Cycle : Duplicate(c)
  \/ \E w \in Worker, c \in Cycle : Deliver(w, c)
  \/ \E p \in Process : CheckpointStep(p)
  \/ \E w \in Worker : AnalysisStep(w)
  \/ \E p \in Process : Failure(p) \/ Crash(p)

Spec == Init /\ [][Next]_vars

(* A process that is running goes on, and a delivery that is due is made:  *)
(* Lambda runs an invocation to its end, the bus keeps delivering.         *)
Fairness ==
  /\ \A i \in Invocation : WF_vars(CheckpointStep(i)) /\ WF_vars(Publish(i))
  /\ \A w \in Worker : WF_vars(CheckpointStep(w)) /\ WF_vars(AnalysisStep(w))
  /\ \A c \in Cycle : WF_vars(\E w \in Worker : Deliver(w, c))

FairSpec == Spec /\ Fairness

-----------------------------------------------------------------------------
(* Properties. *)

Interviewed(c) == \A a \in Arm : interviews[c][a] # None
Covered(c)     == \A a \in Arm : metrics[a] >= c

(* However often an event is delivered, and however often its analysis     *)
(* fails and is retried, no two analyses of one cycle run at the same time *)
(* (mark_cycle_analysed, release_cycle_analysis), and one that runs holds  *)
(* the marker.                                                             *)
OneAnalysisPerCycle ==
  \A w \in Worker, c \in Cycle : Claims(w, c) =>
    /\ marker[c] # None
    /\ \A v \in Worker \ {w} : ~Claims(v, c)

(* What is announced is finished: the event of a checkpoint cycle is       *)
(* published only when every arm's interview is in the store, whatever     *)
(* failed or died before (run_next_cycle, _publish).                       *)
AnnouncedIsInterviewed ==
  \A c \in Cycle \cap Checkpoint : bus[c] # None => Interviewed(c)

(* An interview is never revised, by however many callers a checkpoint is  *)
(* fired at once (store_interview).                                        *)
InterviewsAreFinal ==
  [][\A c \in Checkpoint, a \in Arm :
       interviews[c][a] # None => interviews'[c][a] = interviews[c][a]]_vars

(* Every cycle that was announced ends up analysed, although deliveries    *)
(* are duplicated and reordered and an analysis may raise, and whatever    *)
(* died: the one thing that stops it is the claim of an analysis that died *)
(* holding it, which nobody can drop (analyse_cycle's except clause,       *)
(* mark_cycle_analysed).                                                   *)
EventuallyAnalysed ==
  \A c \in Cycle : bus[c] # None ~> Covered(c) \/ c \in faults.died

(* What the analysis module says of a handler that timed out in between: a *)
(* checkpoint is not lost.                                                 *)
CheckpointNotLost == \A c \in Checkpoint : head >= c ~> Interviewed(c)
=============================================================================
