----------------------------- MODULE CycleCommit -----------------------------
(***************************************************************************)
(* Advancing one pilot run by one cycle: the run-cycle handler, the        *)
(* application service (PilotService.run_next_cycle) and the store it      *)
(* writes through, with any number of invocations at once.                 *)
(*                                                                         *)
(*   check -> begin -> lock -> look -> read -> stage -> store -> commit    *)
(*                                                             -> release  *)
(*                                                                         *)
(* Each arrow is a place where another invocation may run, the lease may   *)
(* run out, an operator may pause the run, or the process may die.  A      *)
(* store operation is one step when the store makes it one (a conditional  *)
(* update, a transaction) and several when it is a read followed by a      *)
(* write.                                                                  *)
(*                                                                         *)
(* Memory contents are abstracted to who staged them and for which cycle;  *)
(* time is abstracted to the moment a lease runs out.  Checkpoints and     *)
(* the completion event, which follow the release, are not part of this    *)
(* module.                                                                 *)
(***************************************************************************)
EXTENDS Integers

CONSTANTS
  Arm,           \* the arms of the experiment
  Invocation,    \* invocations that may be in flight at the same time
  MaxCycle,      \* maximum_cycles of the run's configuration
  Ceiling,       \* the deployment's own ceiling on cycles
  Named,         \* cycles a manual invocation may name
  MaxFaults,     \* bound on crashes, failed stagings, stalls, pause switches
  Backend,       \* "dynamodb" or "sqlite"
  None,          \* no state, no record, no cycle named, nobody
  Gone           \* the token of a holder that died

VARIABLES
  head,          \* the run's head: current_cycle, version, paused
  lock,          \* the lease on the run, with whoever's token it carries
  prepared,      \* the prepared-cycle record of each cycle
  snapshots,     \* the snapshots committed for each cycle
  armState,      \* the current-state record of each arm
  pc,            \* how far each invocation has come
  named,         \* the cycle each invocation was asked for
  seen,          \* the head each invocation read before locking
  read,          \* the arm states each invocation has read so far
  offer,         \* the prepared cycle each invocation holds in memory
  faults         \* how many faults have happened

store == <<head, lock, prepared, snapshots, armState>>
local == <<pc, named, seen, read, offer>>
vars  == <<head, lock, prepared, snapshots, armState,
           pc, named, seen, read, offer, faults>>

Cycle == 1 .. MaxCycle

\* An arm's memory, named by the cycle that left it and by who staged it.
State   == [cycle : 0 .. MaxCycle, by : Invocation \cup {None}]
Seed    == [cycle |-> 0, by |-> None]

\* What six arms staged together: where each started and where it ended.
Content == [before : [Arm -> State], after : [Arm -> State]]

\* A prepared-cycle record: the staged content and whether it was committed.
Prepared == [content : Content, committed : BOOLEAN]

Head    == [cycle : 0 .. MaxCycle, version : Nat, paused : BOOLEAN]
Free    == [holder |-> None, expired |-> FALSE]
Blank   == [a \in Arm |-> None]

Stages == {"idle", "checked", "begun", "locked", "reading", "storing",
           "putting", "committing", "won", "lost"}

ASSUME ConstantsAssumption ==
  /\ MaxCycle \in Nat \ {0}
  /\ Ceiling \in 1 .. MaxCycle
  /\ Named \subseteq 1 .. MaxCycle
  /\ MaxFaults \in Nat
  /\ Backend \in {"dynamodb", "sqlite"}

ASSUME NobodyAssumption ==
  /\ None \notin Invocation /\ Gone \notin Invocation /\ None # Gone
  /\ None \notin State /\ None \notin Content /\ None \notin Prepared

-----------------------------------------------------------------------------

TypeOK ==
  /\ head \in Head
  /\ lock \in [holder : Invocation \cup {None, Gone}, expired : BOOLEAN]
  /\ prepared \in [Cycle -> Prepared \cup {None}]
  /\ snapshots \in [Cycle -> Content \cup {None}]
  /\ armState \in [Arm -> State]
  /\ pc \in [Invocation -> Stages]
  /\ named \in [Invocation -> Cycle \cup {None}]
  /\ seen \in [Invocation -> Head]
  /\ read \in [Invocation -> [Arm -> State \cup {None}]]
  /\ offer \in [Invocation -> Content \cup {None}]
  /\ faults \in 0 .. MaxFaults

\* A run that was just created: six seeded arms, no cycle, no lock.
Init ==
  /\ head = [cycle |-> 0, version |-> 0, paused |-> FALSE]
  /\ lock = Free
  /\ prepared = [c \in Cycle |-> None]
  /\ snapshots = [c \in Cycle |-> None]
  /\ armState = [a \in Arm |-> Seed]
  /\ pc = [i \in Invocation |-> "idle"]
  /\ named = [i \in Invocation |-> None]
  /\ seen = [i \in Invocation |-> head]
  /\ read = [i \in Invocation |-> Blank]
  /\ offer = [i \in Invocation |-> None]
  /\ faults = 0

Goto(i, stage) == pc' = [pc EXCEPT ![i] = stage]

\* The cycle an invocation is working on: the one after the head it read.
Target(i) == seen[i].cycle + 1

-----------------------------------------------------------------------------
(* The handler: is there anything to do?  It reads the head by itself, and *)
(* the service reads it again, so what is decided here may be stale there. *)

AlreadyCommitted(n) == n # None /\ n <= head.cycle

Check(i, n) ==
  /\ pc[i] = "idle"
  /\ IF AlreadyCommitted(n) \/ head.cycle >= Ceiling
     THEN UNCHANGED <<pc, named>>
     ELSE /\ named' = [named EXCEPT ![i] = n]
          /\ Goto(i, "checked")
  /\ UNCHANGED <<store, seen, read, offer, faults>>

\* Back to nothing in memory: the service keeps no state between calls.
Forget(i) ==
  /\ Goto(i, "idle")
  /\ named' = [named EXCEPT ![i] = None]
  /\ read' = [read EXCEPT ![i] = Blank]
  /\ offer' = [offer EXCEPT ![i] = None]

\* The service reads the head; a paused or a completed run is refused.
Begin(i) ==
  /\ pc[i] = "checked"
  /\ IF head.paused \/ head.cycle = MaxCycle
     THEN Forget(i) /\ UNCHANGED seen
     ELSE /\ seen' = [seen EXCEPT ![i] = head]
          /\ Goto(i, "begun")
          /\ UNCHANGED <<named, read, offer>>
  /\ UNCHANGED <<store, faults>>

\* Mutant: an expired lease is never taken over.
LeaseFree == lock.holder = None

\* One conditional write: an absent or expired lease is replaced.
LeaseAvailable == lock.holder = None \/ lock.expired

Acquire(i) ==
  /\ pc[i] = "begun"
  /\ IF LeaseAvailable
     THEN /\ lock' = [holder |-> i, expired |-> FALSE]
          /\ Goto(i, "locked")
          /\ UNCHANGED <<named, read, offer>>
     ELSE Forget(i) /\ UNCHANGED lock
  /\ UNCHANGED <<head, prepared, snapshots, armState, seen, faults>>

\* A prepared cycle that is already there is reused, never regenerated.
LookForPrepared(i) ==
  /\ pc[i] = "locked"
  /\ IF prepared[Target(i)] # None
     THEN /\ offer' = [offer EXCEPT ![i] = prepared[Target(i)].content]
          /\ Goto(i, "committing")
     ELSE Goto(i, "reading") /\ UNCHANGED offer
  /\ UNCHANGED <<store, named, seen, read, faults>>

-----------------------------------------------------------------------------
(* Staging.  The arm states are rehydrated from the store: with DynamoDB   *)
(* by a Query, which is not isolated from a transaction that commits while *)
(* it runs and may return some items from before it and some from after;   *)
(* with SQLite by one SELECT.                                              *)

ReadArmStates(i) ==
  /\ pc[i] = "reading"
  /\ \/ /\ Backend = "dynamodb"
        /\ \E a \in Arm :
             /\ read[i][a] = None
             /\ read' = [read EXCEPT ![i][a] = armState[a]]
     \/ /\ Backend = "sqlite"
        /\ read[i] = Blank
        /\ read' = [read EXCEPT ![i] = armState]
  /\ UNCHANGED <<store, pc, named, seen, offer, faults>>

\* Mutant: the engine stages from the seeds it was created with.
StagedFromSeeds(i) ==
  [before |-> [a \in Arm |-> Seed],
   after  |-> [a \in Arm |-> [cycle |-> Target(i), by |-> i]]]

\* The engine takes every arm from the state that was read to a new one.
StagedFrom(i) ==
  [before |-> read[i],
   after  |-> [a \in Arm |-> [cycle |-> Target(i), by |-> i]]]

\* Mutant: one arm's state is enough to restore the engine.
SomeArmRead(i) == \E a \in Arm : read[i][a] # None

AllArmsRead(i) == \A a \in Arm : read[i][a] # None

Stage(i) ==
  /\ pc[i] = "reading"
  /\ AllArmsRead(i)
  /\ offer' = [offer EXCEPT ![i] = StagedFrom(i)]
  /\ Goto(i, "storing")
  /\ UNCHANGED <<store, named, seen, read, faults>>

\* A model call, a ceiling or a validation failed: nothing was stored.
StageFails(i) ==
  /\ pc[i] = "reading"
  /\ faults < MaxFaults
  /\ faults' = faults + 1
  /\ Goto(i, "lost")
  /\ UNCHANGED <<store, named, seen, read, offer>>

\* Mutant: the record is written without looking for one first.
StoreBlindly(i) ==
  /\ pc[i] = "storing"
  /\ Goto(i, "putting")
  /\ UNCHANGED <<store, named, seen, read, offer, faults>>

\* store_prepared_cycle, first half: is a record already there?
StoreLook(i) ==
  /\ pc[i] = "storing"
  /\ Goto(i, IF prepared[Target(i)] = None THEN "putting"
             ELSE IF prepared[Target(i)].content = offer[i] THEN "committing"
             ELSE "lost")
  /\ UNCHANGED <<store, named, seen, read, offer, faults>>

\* Mutant: an insert that replaces what is there.
NeverRefused(i) == FALSE

\* Whether the write itself is refused when a record has appeared since:
\* SQLite's INSERT hits the primary key, DynamoDB's put has no condition.
PutRefused(i) == Backend = "sqlite" /\ prepared[Target(i)] # None

\* store_prepared_cycle, second half: the write.
StorePut(i) ==
  /\ pc[i] = "putting"
  /\ IF PutRefused(i)
     THEN Goto(i, "lost") /\ UNCHANGED prepared
     ELSE /\ prepared' = [prepared EXCEPT ![Target(i)] =
                            [content |-> offer[i], committed |-> FALSE]]
          /\ Goto(i, "committing")
  /\ UNCHANGED <<head, lock, snapshots, armState, named, seen, read, offer, faults>>

-----------------------------------------------------------------------------
(* The commit: one transaction, with every condition inside it. *)

\* Mutant: the commit trusts the caller's copy of what it commits.
CommitUnverified(i) ==
  /\ head.version = seen[i].version
  /\ head.cycle = seen[i].cycle
  /\ lock.holder = i
  /\ snapshots[Target(i)] = None
  /\ prepared[Target(i)] # None

\* Mutant: the commit is fenced by the cycle, not by the version.
CommitUnversioned(i) ==
  /\ head.cycle = seen[i].cycle
  /\ lock.holder = i
  /\ snapshots[Target(i)] = None
  /\ prepared[Target(i)] # None
  /\ prepared[Target(i)].content = offer[i]

\* Mutant: the lease is all that fences the commit.
CommitUnfenced(i) ==
  /\ lock.holder = i
  /\ prepared[Target(i)] # None
  /\ prepared[Target(i)].content = offer[i]

CommitConditions(i) ==
  /\ head.version = seen[i].version
  /\ head.cycle = seen[i].cycle
  /\ lock.holder = i
  /\ snapshots[Target(i)] = None
  /\ prepared[Target(i)] # None
  /\ prepared[Target(i)].content = offer[i]

\* Mutant: the current state of one arm is left out of the transaction.
CommitAllButOne(i) ==
  LET content == prepared[Target(i)].content
      missed  == CHOOSE a \in Arm : TRUE
  IN
  /\ head' = [head EXCEPT !.cycle = Target(i), !.version = @ + 1]
  /\ lock' = Free
  /\ snapshots' = [snapshots EXCEPT ![Target(i)] = content]
  /\ armState' = [content.after EXCEPT ![missed] = armState[missed]]
  /\ prepared' = [prepared EXCEPT ![Target(i)].committed = TRUE]

CommitWrites(i) ==
  LET content == prepared[Target(i)].content IN
  /\ head' = [head EXCEPT !.cycle = Target(i), !.version = @ + 1]
  /\ lock' = Free
  /\ snapshots' = [snapshots EXCEPT ![Target(i)] = content]
  /\ armState' = content.after
  /\ prepared' = [prepared EXCEPT ![Target(i)].committed = TRUE]

Commit(i) ==
  /\ pc[i] = "committing"
  /\ IF CommitConditions(i)
     THEN CommitWrites(i) /\ Goto(i, "won")
     ELSE UNCHANGED store /\ Goto(i, "lost")
  /\ UNCHANGED <<named, seen, read, offer, faults>>

\* The finally clause: release the lease if it still carries our token.
Release(i) ==
  /\ pc[i] \in {"won", "lost"}
  /\ lock' = IF lock.holder = i THEN Free ELSE lock
  /\ Forget(i)
  /\ UNCHANGED <<head, prepared, snapshots, armState, seen, faults>>

-----------------------------------------------------------------------------
(* The environment. *)

\* The process dies: no finally clause runs, and nobody will ever present
\* its token again.
Crash(i) ==
  /\ pc[i] # "idle"
  /\ faults < MaxFaults
  /\ faults' = faults + 1
  /\ lock' = IF lock.holder = i THEN [lock EXCEPT !.holder = Gone] ELSE lock
  /\ Forget(i)
  /\ UNCHANGED <<head, prepared, snapshots, armState, seen>>

\* The lease of a dead holder runs out; time is all it takes.
DeadLeaseExpires ==
  /\ lock.holder = Gone
  /\ ~lock.expired
  /\ lock' = [lock EXCEPT !.expired = TRUE]
  /\ UNCHANGED <<head, prepared, snapshots, armState, local, faults>>

\* The lease of a live holder runs out: it took longer than the lease lasts.
LiveLeaseExpires ==
  /\ lock.holder \in Invocation
  /\ ~lock.expired
  /\ faults < MaxFaults
  /\ faults' = faults + 1
  /\ lock' = [lock EXCEPT !.expired = TRUE]
  /\ UNCHANGED <<head, prepared, snapshots, armState, local>>

\* Mutant: the switch leaves the version alone.
SetPausedQuietly(p) ==
  /\ faults < MaxFaults
  /\ faults' = faults + 1
  /\ head' = [head EXCEPT !.paused = p]
  /\ UNCHANGED <<lock, prepared, snapshots, armState, local>>

\* An operator pauses or resumes the run, whatever it was before.
SetPaused(p) ==
  /\ faults < MaxFaults
  /\ faults' = faults + 1
  /\ head' = [head EXCEPT !.paused = p, !.version = @ + 1]
  /\ UNCHANGED <<lock, prepared, snapshots, armState, local>>

-----------------------------------------------------------------------------

\* What an invocation does when nothing goes wrong with it.
Step(i) ==
  \/ Begin(i) \/ Acquire(i) \/ LookForPrepared(i)
  \/ ReadArmStates(i) \/ Stage(i) \/ StoreLook(i) \/ StorePut(i)
  \/ Commit(i) \/ Release(i)

Next ==
  \/ \E i \in Invocation, n \in Named \cup {None} : Check(i, n)
  \/ \E i \in Invocation : Step(i) \/ StageFails(i) \/ Crash(i)
  \/ DeadLeaseExpires
  \/ LiveLeaseExpires
  \/ \E p \in BOOLEAN : SetPaused(p)

Spec == Init /\ [][Next]_vars

\* The scheduler keeps ticking, a started invocation that does not die is
\* not stopped for ever, and time passes for an orphaned lease.
Fairness ==
  /\ \A i \in Invocation : WF_vars(Check(i, None)) /\ WF_vars(Step(i))
  /\ WF_vars(DeadLeaseExpires)

FairSpec == Spec /\ Fairness

-----------------------------------------------------------------------------
(* Properties. *)

\* The arm states a cycle starts from: those the previous one ended with.
StateAt(c) == IF c = 0 THEN [a \in Arm |-> Seed] ELSE snapshots[c].after

(* Six arms, one cycle: the current states are exactly those the last      *)
(* committed cycle recorded, snapshots exist for exactly the committed     *)
(* cycles, and each records having started where the one before it ended,  *)
(* and ended where one single staging took all the arms,                   *)
(* although a staging may have read the states while another invocation    *)
(* was replacing them (commit_cycle, get_all_current_arm_states).          *)
ArmsTogether    == armState = StateAt(head.cycle)
HistoryComplete == \A c \in Cycle : snapshots[c] # None <=> c <= head.cycle
Together(content, c) ==
  \E i \in Invocation : content.after = [a \in Arm |-> [cycle |-> c, by |-> i]]
Chained         == \A c \in 1 .. head.cycle :
                     /\ snapshots[c].before = StateAt(c - 1)
                     /\ Together(snapshots[c], c)

CycleIntegrity == ArmsTogether /\ HistoryComplete /\ Chained

(* A staged cycle that is waiting to be committed was staged from the      *)
(* memories the run has now, so the retry that finds it may commit it      *)
(* (PilotService._prepare reuses it without looking).                      *)
ReusableStaging ==
  \A c \in Cycle :
    prepared[c] # None =>
      /\ c <= head.cycle + 1
      /\ prepared[c].content.before = StateAt(c - 1)

(* An invocation that believes it committed a cycle holds what the store   *)
(* recorded for it: the outcome and the event it goes on to publish carry  *)
(* the hashes of its own copy (run_next_cycle, _publish).                  *)
OutcomeIsCommitted ==
  \A i \in Invocation : pc[i] = "won" => snapshots[Target(i)] = offer[i]

(* The prepared record of a committed cycle is the content that was        *)
(* committed, and says so (store_prepared_cycle refuses a different one).  *)
PreparedIsCommitted ==
  \A c \in 1 .. head.cycle :
    prepared[c] = [content |-> snapshots[c], committed |-> TRUE]

(* A committed cycle is never rewritten, and the run never goes back or    *)
(* skips a cycle.                                                          *)
HistoryImmutable ==
  [][/\ \A c \in Cycle : snapshots[c] # None => snapshots'[c] = snapshots[c]
     /\ head'.cycle \in {head.cycle, head.cycle + 1}]_vars

(* No cycle is committed while the run is paused, not even by an           *)
(* invocation that was admitted before the pause (set_paused moves the     *)
(* version that commit_cycle is conditioned on).                           *)
NoAdvanceWhilePaused == [][head'.cycle # head.cycle => ~head.paused]_vars

(* The protocol implements the atomic run.                                 *)
Atomic == INSTANCE AtomicRun WITH
            Origin <- Invocation, cycle <- head.cycle, paused <- head.paused,
            arms <- armState, log <- snapshots

ImplementsAtomicRun == Atomic!Spec

(* Unless an operator leaves it paused, a run reaches its last cycle: no   *)
(* crash, failed staging or lost lease wedges it.                          *)
EventuallyComplete == <>(head.cycle = MaxCycle) \/ <>[](head.paused)

(* What the handler says of an invocation that names a cycle: one already  *)
(* committed is reported rather than followed by another.                  *)
NamedCycleIsIdempotent ==
  [][\A i \in Invocation :
       pc[i] = "committing" /\ pc'[i] = "won" /\ named[i] # None
         => head'.cycle <= named[i]]_vars

-----------------------------------------------------------------------------
(* The inductive invariant behind the safety properties. *)

Working == Stages \ {"idle", "checked"}

(* The fence: the head an invocation read is never ahead of the run, and   *)
(* as long as the version has not moved nothing else in the head has, and  *)
(* the run is not paused.                                                  *)
Fence ==
  \A i \in Invocation : pc[i] \in Working =>
    /\ seen[i].cycle <= head.cycle /\ seen[i].cycle < MaxCycle
    /\ seen[i].version <= head.version
    /\ seen[i].version = head.version =>
         seen[i].cycle = head.cycle /\ ~head.paused

Staged(content, c) ==
  /\ content.before = StateAt(c - 1)
  /\ Together(content, c)

(* What is prepared was staged from the state it follows, for the next     *)
(* cycle at most; and what was committed had been prepared.                *)
PreparedSound ==
  \A c \in Cycle :
    /\ prepared[c] # None => c <= head.cycle + 1 /\ Staged(prepared[c].content, c)
    /\ c <= head.cycle => prepared[c] # None

(* While nothing is prepared for the cycle an invocation works on, nobody  *)
(* can have committed it, so whatever it read is still current.            *)
ReadSound(i) ==
  /\ pc[i] \notin {"idle", "checked", "begun", "locked"} \/ read[i] = Blank
  /\ pc[i] = "reading" /\ prepared[Target(i)] = None =>
       \A a \in Arm : read[i][a] \in {None, armState[a]}

ReadsSound == \A i \in Invocation : ReadSound(i)

(* So what it staged is sound if it finds, after staging, that there is    *)
(* still nothing prepared: the look in store_prepared_cycle is what keeps  *)
(* a torn read from ever being stored.                                     *)
OfferSound(i) ==
  /\ pc[i] = "storing" =>
       /\ offer[i] # None
       /\ Together(offer[i], Target(i))
       /\ prepared[Target(i)] = None => Staged(offer[i], Target(i))
  /\ pc[i] = "putting" => offer[i] # None /\ Staged(offer[i], Target(i))
  /\ pc[i] = "won" => Target(i) <= head.cycle

OffersSound == \A i \in Invocation : OfferSound(i)

IInv ==
  /\ TypeOK
  /\ CycleIntegrity
  /\ Fence
  /\ PreparedSound
  /\ ReadsSound
  /\ OffersSound
  /\ OutcomeIsCommitted
=============================================================================
