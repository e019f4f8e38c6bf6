-------------------------- MODULE AfterCommitProofs --------------------------
(***************************************************************************)
(* Machine-checked proofs about AfterCommit, for every set of arms, of     *)
(* run-cycle invocations, of analysis workers and of operators, every      *)
(* number of cycles, checkpoints, retries and faults.                      *)
(***************************************************************************)
EXTENDS AfterCommit, FiniteSetTheorems, TLAPS

-----------------------------------------------------------------------------
(* The inductive invariant: what a process may rely on at each stage.      *)

\* Nothing runs, and nothing is announced, for a cycle that is not committed.
OnTime ==
  /\ \A p \in Process : own[p] <= head
  /\ \A c \in Cycle : bus[c] # None => c <= head

\* A run-cycle invocation works on a cycle; an analysis on an announced one.
Announced ==
  /\ \A i \in Invocation : pc[i] # "idle" => own[i] \in Cycle
  /\ \A w \in Worker : pc[w] # "idle" => own[w] \in Cycle /\ bus[own[w]] # None

\* Every copy of an event is its first delivery, a retry or a fault.
BusBounded ==
  \A c \in Cycle : bus[c] # None =>
    bus[c].copies + bus[c].retries <= 1 + Retries + faults.count

\* Interviews are only asked at a checkpoint; the arms a process does not
\* mean to ask have been, and it asks with every arm's state at hand.
AskingSound ==
  \A p \in Process :
    /\ pc[p] \in Asking => own[p] \in Checkpoint
    /\ pc[p] \in {"restoring", "keeping"} =>
         /\ todo[p] \subseteq Arm
         /\ \A a \in Arm \ todo[p] : interviews[own[p]][a] # None
    /\ pc[p] = "keeping" => \A a \in Arm : held[p][a] # None

\* Metrics are computed from a history of every arm.
HistoryRead ==
  \A w \in Worker :
    /\ pc[w] \in {"scoring", "metrics", "status", "artefacts"} =>
         \A a \in Arm : held[w][a] # None
    /\ pc[w] = "metrics" => now[w] # 0

\* Only an analysis is in an analysing stage.
StagesApart ==
  \A p \in Process \ Worker : pc[p] \notin Analysing

\* An invocation that is about to publish a checkpoint has every interview.
ClearToPublish ==
  \A i \in Invocation :
    pc[i] = "publishing" /\ own[i] \in Checkpoint => Interviewed(own[i])

Inv ==
  /\ TypeOK
  /\ OnTime
  /\ Announced
  /\ BusBounded
  /\ AskingSound
  /\ HistoryRead
  /\ StagesApart
  /\ ClearToPublish
  /\ AnnouncedIsInterviewed
  /\ OneAnalysisPerCycle

-----------------------------------------------------------------------------
(* Next, with the quantifiers the proofs case-split on, and with the two   *)
(* ways a checkpoint may go apart.                                         *)

\* Every arm's state is at hand, and the engine is at the checkpoint's cycle.
AskAll(p) ==
  /\ pc[p] = "restoring"
  /\ \A a \in Arm : held[p][a] # None
  /\ Goto(p, "keeping")
  /\ UNCHANGED <<head, store, bus, own, at, held, now, todo, faults>>

\* An interview is written.
KeepNew(p, a) ==
  /\ pc[p] = "keeping"
  /\ a \in todo[p]
  /\ Storable(own[p], a)
  /\ interviews' = [interviews EXCEPT ![own[p]][a] = [of |-> held[p][a], by |-> p]]
  /\ todo' = [todo EXCEPT ![p] = @ \ {a}]
  /\ UNCHANGED <<head, marker, metrics, secondary, status, artefacts, bus,
                 pc, own, at, held, now, faults>>

\* A checkpoint or an analysis ends in an exception, its own or a fault's.
GiveUp(p) ==
  /\ pc[p] \in Asking \cup Analysing
  /\ Raise(p)
  /\ UNCHANGED faults \/ Fault
  /\ UNCHANGED <<head, interviews, metrics, secondary, status, artefacts>>

(* Every step is one of these.                                             *)
LEMMA NextCases ==
  ASSUME [Next]_vars, NEW P,
         \A i \in Invocation : Commit(i) => P,
         \A i \in Invocation : Publish(i) => P,
         \A i \in Invocation : PublishLost(i) => P,
         \A o \in Operator, c \in Checkpoint : Fire(o, c) => P,
         \A c \in Cycle : Duplicate(c) => P,
         \A w \in Worker, c \in Cycle : Deliver(w, c) => P,
         \A p \in Process : BeginCheckpoint(p) => P,
         \A p \in Process : LookForInterviews(p) => P,
         \A p \in Process, a \in Arm : ReadArmState(p, a) => P,
         \A p \in Process : AskAll(p) => P,
         \A p \in Process, a \in Arm : KeepNew(p, a) => P,
         \A p \in Process : EndCheckpoint(p) => P,
         \A w \in Worker : Claim(w) => P,
         \A w \in Worker : ReadRun(w) => P,
         \A w \in Worker, a \in Arm : ReadHistory(w, a) => P,
         \A w \in Worker : Score(w) => P,
         \A w \in Worker : StoreMetrics(w) => P,
         \A w \in Worker : StoreStatus(w) => P,
         \A w \in Worker, n \in Artefact : StoreArtefact(w, n) => P,
         \A w \in Worker : Mark(w) => P,
         \A p \in Process : GiveUp(p) => P,
         \A p \in Process : Crash(p) => P,
         UNCHANGED vars => P
  PROVE  P
<1>1. ASSUME NEW p \in Process, Ask(p)
      PROVE  P
  BY <1>1 DEF Ask, AskAll, GiveUp, Asking, store
<1>2. ASSUME NEW p \in Process, NEW a \in Arm, KeepInterview(p, a)
      PROVE  P
  BY <1>2 DEF KeepInterview, KeepNew, GiveUp, Asking
<1>3. ASSUME NEW p \in Process, Failure(p)
      PROVE  P
  BY <1>3 DEF Failure, GiveUp
<1> QED BY <1>1, <1>2, <1>3 DEF Next, CheckpointStep, AnalysisStep


-----------------------------------------------------------------------------
(* Lemmas about the model's operators.                                     *)

\* An event stays what it is, up to where its deliveries are counted.
SameEvents ==
  /\ bus' \in [Cycle -> Event \cup {None}]
  /\ \A c \in Cycle :
       /\ bus'[c] # None <=> bus[c] # None
       /\ bus[c] # None =>
            bus'[c].copies + bus'[c].retries = bus[c].copies + bus[c].retries

(* A retry moves one attempt from those left to those under way: it loses  *)
(* no event, makes none up and keeps what is still to come of each.        *)
LEMMA RetryKeepsEvents ==
  ASSUME Inv, NEW w \in Worker, pc[w] # "idle", bus' = Redelivered(own[w])
  PROVE  SameEvents
<1> DEFINE c == own[w]
<1> USE ConstantsAssumption, NothingAssumption
<1>1. c \in Cycle /\ bus[c] # None /\ bus \in [Cycle -> Event \cup {None}]
  BY DEF Inv, Announced, TypeOK
<1>2. /\ bus[c].copies \in Nat /\ bus[c].retries \in 0 .. Retries
      /\ bus[c].copies + bus[c].retries <= 1 + Retries + MaxFaults
  BY <1>1 DEF Inv, BusBounded, Event, TypeOK
<1>3. CASE bus[c].retries > 0
  <2> DEFINE e == [copies |-> bus[c].copies + 1, retries |-> bus[c].retries - 1]
  <2>1. e \in Event
    BY <1>2, <1>3 DEF Event
  <2>2. bus' = [bus EXCEPT ![c] = e]
    BY <1>3 DEF Redelivered
  <2>3. e # None /\ e.copies + e.retries = bus[c].copies + bus[c].retries
    BY <1>2, <2>1
  <2> QED BY <1>1, <2>1, <2>2, <2>3 DEF SameEvents
<1>4. CASE ~(bus[c].retries > 0)
  BY <1>1, <1>4 DEF Redelivered, SameEvents
<1> QED BY <1>3, <1>4

(* An exception leaves every event that is due, and drops at most the      *)
(* claim of the analysis that raised it.                                   *)
LEMMA RaiseKeeps ==
  ASSUME Inv, NEW p \in Process, pc[p] \in Asking \cup Analysing, Raise(p)
  PROVE  /\ SameEvents
         /\ marker' \in [Cycle -> Marker \cup {None}]
         /\ \A c \in Cycle : marker'[c] = marker[c] \/ (p \in Worker /\ c = own[p])
<1>1. SameEvents
  <2>1. CASE p \in Worker
    BY <2>1, RetryKeepsEvents DEF Raise, Asking, Analysing
  <2>2. CASE p \notin Worker
    BY <2>2 DEF Raise, SameEvents, Inv, TypeOK
  <2> QED BY <2>1, <2>2
<1>2. marker' \in [Cycle -> Marker \cup {None}]
  BY DEF Raise, Released, Inv, TypeOK
<1>3. \A c \in Cycle : marker'[c] = marker[c] \/ (p \in Worker /\ c = own[p])
  <2>1. CASE p \in Worker
    BY <2>1 DEF Raise, Released, Inv, TypeOK
  <2>2. CASE p \notin Worker
    BY <2>2 DEF Raise, Released
  <2> QED BY <2>1, <2>2
<1> QED BY <1>1, <1>2, <1>3

(* So does a death.                                                        *)
LEMMA CrashKeeps ==
  ASSUME Inv, NEW p \in Process, Crash(p)
  PROVE  SameEvents
<1>1. CASE p \in Worker
  BY <1>1, RetryKeepsEvents DEF Crash
<1>2. CASE p \notin Worker
  BY <1>2 DEF Crash, SameEvents, Inv, TypeOK
<1> QED BY <1>1, <1>2

(* The one interview that is written is written where none was.            *)
LEMMA KeepAdds ==
  ASSUME Inv, NEW p \in Process, NEW a \in Arm, KeepNew(p, a)
  PROVE  /\ interviews' \in [Checkpoint -> [Arm -> Interview \cup {None}]]
         /\ \A c \in Checkpoint, b \in Arm :
              interviews[c][b] # None => interviews'[c][b] = interviews[c][b]
         /\ interviews'[own[p]][a] # None
<1> DEFINE new == [of |-> held[p][a], by |-> p]
<1>1. own[p] \in Checkpoint /\ held[p][a] # None
  BY DEF KeepNew, Inv, AskingSound, Asking
<1>2. new \in Interview
  BY <1>1 DEF Interview, Inv, TypeOK
<1>3. interviews' = [interviews EXCEPT ![own[p]] =
                       [interviews[own[p]] EXCEPT ![a] = new]]
  BY DEF KeepNew
<1>4. interviews[own[p]] \in [Arm -> Interview \cup {None}]
  BY <1>1 DEF Inv, TypeOK
<1> QED
  BY <1>1, <1>2, <1>3, <1>4, NothingAssumption DEF KeepNew, Storable, Inv, TypeOK

\* What a process keeps in memory.
LocalTypeOK ==
  /\ pc \in [Process -> Stages]
  /\ own \in [Process -> Reached]
  /\ at \in [Process -> Reached]
  /\ held \in [Process -> [Arm -> Reached \cup {None}]]
  /\ now \in [Process -> Reached]
  /\ todo \in [Process -> SUBSET (Arm \cup Artefact)]

(* A process that ends keeps nothing.                                      *)
LEMMA ForgetType ==
  ASSUME Inv, NEW p \in Process, Forget(p)
  PROVE  LocalTypeOK'
<1>1. Blank \in [Arm -> Reached \cup {None}] /\ 0 \in Reached
  BY ConstantsAssumption DEF Blank, Reached
<1>2. pc' \in [Process -> Stages]
  BY DEF Forget, Goto, Stages, Inv, TypeOK
<1>3. own' \in [Process -> Reached] /\ at' \in [Process -> Reached]
  BY <1>1 DEF Forget, Inv, TypeOK
<1>4. held' \in [Process -> [Arm -> Reached \cup {None}]]
  BY <1>1 DEF Forget, Inv, TypeOK
<1>5. now' \in [Process -> Reached] /\ todo' \in [Process -> SUBSET (Arm \cup Artefact)]
  BY <1>1 DEF Forget, Inv, TypeOK
<1> QED BY <1>2, <1>3, <1>4, <1>5 DEF LocalTypeOK

(* A fault is counted up to the bound.                                     *)
LEMMA FaultType ==
  ASSUME Inv, Fault
  PROVE  /\ faults' \in [count : 0 .. MaxFaults, died : SUBSET Cycle]
         /\ faults'.count = faults.count + 1
<1>1. faults.count \in 0 .. MaxFaults /\ faults.died \in SUBSET Cycle
  BY DEF Inv, TypeOK
<1>2. faults.count + 1 \in 0 .. MaxFaults
  BY <1>1, ConstantsAssumption DEF Fault, MayFail
<1>3. faults' = [count |-> faults.count + 1, died |-> faults.died]
  BY DEF Fault, Inv, TypeOK
<1> QED BY <1>1, <1>2, <1>3

(* An event with another number of copies is an event.                     *)
LEMMA CountedEvent ==
  ASSUME Inv, NEW c \in Cycle, bus[c] # None,
         NEW n \in Nat, n + bus[c].retries =< 1 + Retries + MaxFaults
  PROVE  [bus[c] EXCEPT !.copies = n] \in Event /\ [bus[c] EXCEPT !.copies = n] # None
<1>1. bus[c] \in Event /\ bus[c].retries \in 0 .. Retries
  BY DEF Inv, TypeOK, Event
<1>2. n \in 0 .. 1 + Retries + MaxFaults
  BY <1>1, ConstantsAssumption
<1> QED BY <1>1, <1>2, NothingAssumption DEF Event

(* How many copies of an event there may be, before and after a delivery   *)
(* or a duplicate.                                                         *)
LEMMA CopiesCounted ==
  ASSUME Inv, NEW c \in Cycle, bus[c] # None
  PROVE  /\ bus[c].copies > 0
            => /\ bus[c].copies - 1 \in Nat
               /\ bus[c].copies - 1 + bus[c].retries =< 1 + Retries + MaxFaults
         /\ MayFail
            => /\ bus[c].copies + 1 \in Nat
               /\ bus[c].copies + 1 + bus[c].retries =< 1 + Retries + MaxFaults
<1> DEFINE n == bus[c].copies
           k == bus[c].retries
           f == faults.count
<1>1. bus[c] \in Event
  BY DEF Inv, TypeOK
<1>2. n \in Nat /\ k \in Nat
  BY <1>1, ConstantsAssumption DEF Event
<1>3. f \in Nat /\ f <= MaxFaults /\ Retries \in Nat /\ MaxFaults \in Nat
  BY ConstantsAssumption DEF Inv, TypeOK
<1>4. n + k <= 1 + Retries + f
  BY DEF Inv, BusBounded
<1>5. MayFail => f < MaxFaults
  BY DEF MayFail
<1> HIDE DEF n, k, f
<1> QED
  BY <1>2, <1>3, <1>4, <1>5 DEF n, k, f

(* Numbers up to a bound have a first one.                                 *)
LEMMA FirstOf ==
  ASSUME NEW m \in Nat, NEW S \in SUBSET (0 .. m), S # {}
  PROVE  \E x \in S : \A y \in S : x =< y
<1> DEFINE Below == {k \in 0 .. m : \A y \in S : k =< y}
           n == Cardinality(Below)
<1>1. \A k \in Int : IsFiniteSet(0 .. k) /\ (k >= -1 => Cardinality(0 .. k) = k + 1)
  BY FS_Interval
<1>2. IsFiniteSet(Below)
  <2>1. Below \in SUBSET (0 .. m)
    OBVIOUS
  <2>2. IsFiniteSet(0 .. m)
    BY <1>1
  <2> HIDE DEF Below
  <2> QED BY <2>1, <2>2, FS_Subset
<1>3. n \in Nat
  BY <1>2, FS_CardinalityType
<1>4. \A k \in 0 .. m : 0 .. k \subseteq Below => k + 1 =< n
  <2> SUFFICES ASSUME NEW k \in 0 .. m, 0 .. k \subseteq Below PROVE k + 1 =< n
      OBVIOUS
  <2>1. Cardinality(0 .. k) =< n
    BY <1>2, FS_Subset
  <2> QED BY <1>1, <2>1
<1>5. \A k \in Below : 0 .. k \subseteq Below
  <2> SUFFICES ASSUME NEW k \in Below, NEW j \in 0 .. k PROVE j \in Below
      OBVIOUS
  <2> QED OBVIOUS
<1>6. 0 \in Below
  OBVIOUS
<1>7. n >= 1 /\ n =< m + 1
  <2>1. n =< Cardinality(0 .. m)
    <3>1. Below \in SUBSET (0 .. m)
      OBVIOUS
    <3>2. IsFiniteSet(0 .. m)
      BY <1>1
    <3> HIDE DEF Below
    <3> QED BY <3>1, <3>2, FS_Subset DEF n
  <2> HIDE DEF n, Below
  <2>2. 0 .. 0 \subseteq Below
    BY <1>5, <1>6
  <2>3. n >= 1
    BY <1>3, <1>4, <2>2, 0 \in 0 .. m
  <2>4. Cardinality(0 .. m) = m + 1
    BY <1>1
  <2> QED BY <1>3, <2>1, <2>3, <2>4
<1>8. n - 1 \in Below
  <2> SUFFICES ASSUME n - 1 \notin Below PROVE FALSE
      OBVIOUS
  <2>1. Below \subseteq 0 .. (n - 2)
    <3> SUFFICES ASSUME NEW k \in Below, k >= n - 1 PROVE FALSE
        BY <1>3
    <3> HIDE DEF n
    <3> QED BY <1>3, <1>5, <1>7
  <2>2. Cardinality(0 .. (n - 2)) = n - 1 /\ IsFiniteSet(0 .. (n - 2))
    <3> HIDE DEF n
    <3> QED BY <1>1, <1>3, <1>7
  <2>3. n =< Cardinality(0 .. (n - 2))
    BY <2>1, <2>2, FS_Subset
  <2> HIDE DEF n
  <2> QED BY <1>3, <2>2, <2>3
<1>9. n \notin Below
  <2> HIDE DEF n, Below
  <2> QED BY <1>3, <1>4, <1>5, Below \subseteq 0 .. m DEF Below
<1>10. PICK y \in S : ~(n =< y)
  <2>1. CASE n \in 0 .. m
    BY <1>9, <2>1
  <2>2. CASE n \notin 0 .. m
    <3> PICK y \in S : y \in 0 .. m
        OBVIOUS
    <3> HIDE DEF n
    <3> QED BY <1>3, <2>2
  <2> QED BY <2>1, <2>2
<1>11. y = n - 1
  <2> HIDE DEF n
  <2> QED BY <1>3, <1>8, <1>10
<1> QED BY <1>8, <1>11

(* The greater of two numbers is one of them.                              *)
LEMMA MaxOfTwo ==
  ASSUME NEW m \in Int, NEW n \in Int
  PROVE  Max({m, n}) \in {m, n} /\ Max({m, n}) >= m /\ Max({m, n}) >= n
<1>1. \E x \in {m, n} : \A y \in {m, n} : x >= y
  BY m >= n \/ n >= m
<1> QED BY <1>1 DEF Max

(* The last arm to be read is the last arm.                                *)
LEMMA LastArm == Max(Arm) \in Arm /\ \A a \in Arm : a =< Max(Arm)
<1>1. \E x \in Arm : \A y \in Arm : x >= y
  BY ConstantsAssumption
<1> QED BY <1>1, ConstantsAssumption DEF Max

(* What a document is computed from is one of the histories that were read. *)
LEMMA PayloadType ==
  ASSUME Inv, NEW w \in Worker, pc[w] = "artefacts"
  PROVE  Payload(w) \in Reached
<1> DEFINE Read == {held[w][a] : a \in Arm}
<1>1. Read # {} /\ Read \in SUBSET Reached
  BY ConstantsAssumption DEF Inv, HistoryRead, TypeOK, Process
<1>2. \E x \in Read : \A y \in Read : x =< y
  BY <1>1, FirstOf, ConstantsAssumption DEF Reached
<1> QED BY <1>1, <1>2 DEF Payload, Min

-----------------------------------------------------------------------------
(* Each part of the invariant is kept by every step.                       *)

(* An interview that is stored stays what it is (store_interview).         *)
LEMMA InterviewsStay == Inv /\ [Next]_vars => \A k \in Checkpoint, b \in Arm :
         interviews[k][b] # None => interviews'[k][b] = interviews[k][b]
<1> SUFFICES ASSUME Inv, [Next]_vars PROVE \A k \in Checkpoint, b \in Arm :
         interviews[k][b] # None => interviews'[k][b] = interviews[k][b]
    OBVIOUS
<1> USE DEF store, local
<1>1. ASSUME NEW i \in Invocation, Commit(i)
      PROVE  \A k \in Checkpoint, b \in Arm :
         interviews[k][b] # None => interviews'[k][b] = interviews[k][b]
  BY <1>1 DEF Commit, Start, StageAfterCommit, Goto
<1>2. ASSUME NEW i \in Invocation, Publish(i)
      PROVE  \A k \in Checkpoint, b \in Arm :
         interviews[k][b] # None => interviews'[k][b] = interviews[k][b]
  BY <1>2 DEF Publish, Forget, Goto, Blank
<1>3. ASSUME NEW i \in Invocation, PublishLost(i)
      PROVE  \A k \in Checkpoint, b \in Arm :
         interviews[k][b] # None => interviews'[k][b] = interviews[k][b]
  BY <1>3 DEF PublishLost, Fault, Forget, MayFail, Goto, Blank
<1>4. ASSUME NEW o \in Operator, NEW c \in Checkpoint, Fire(o, c)
      PROVE  \A k \in Checkpoint, b \in Arm :
         interviews[k][b] # None => interviews'[k][b] = interviews[k][b]
  BY <1>4 DEF Fire, Start, Goto
<1>5. ASSUME NEW c \in Cycle, Duplicate(c)
      PROVE  \A k \in Checkpoint, b \in Arm :
         interviews[k][b] # None => interviews'[k][b] = interviews[k][b]
  BY <1>5 DEF Duplicate, Fault, MayFail
<1>6. ASSUME NEW w \in Worker, NEW c \in Cycle, Deliver(w, c)
      PROVE  \A k \in Checkpoint, b \in Arm :
         interviews[k][b] # None => interviews'[k][b] = interviews[k][b]
  BY <1>6 DEF Deliver, Start, Goto
<1>7. ASSUME NEW p \in Process, BeginCheckpoint(p)
      PROVE  \A k \in Checkpoint, b \in Arm :
         interviews[k][b] # None => interviews'[k][b] = interviews[k][b]
  BY <1>7 DEF BeginCheckpoint, Goto
<1>8. ASSUME NEW p \in Process, LookForInterviews(p)
      PROVE  \A k \in Checkpoint, b \in Arm :
         interviews[k][b] # None => interviews'[k][b] = interviews[k][b]
  BY <1>8 DEF LookForInterviews, Outstanding, Goto, AfterCheckpoint
<1>9. ASSUME NEW p \in Process, NEW a \in Arm, ReadArmState(p, a)
      PROVE  \A k \in Checkpoint, b \in Arm :
         interviews[k][b] # None => interviews'[k][b] = interviews[k][b]
  BY <1>9 DEF ReadArmState, NextArm
<1>10. ASSUME NEW p \in Process, AskAll(p)
      PROVE  \A k \in Checkpoint, b \in Arm :
         interviews[k][b] # None => interviews'[k][b] = interviews[k][b]
  BY <1>10 DEF AskAll, Goto
<1>11. ASSUME NEW p \in Process, NEW a \in Arm, KeepNew(p, a)
      PROVE  \A k \in Checkpoint, b \in Arm :
         interviews[k][b] # None => interviews'[k][b] = interviews[k][b]
  BY <1>11, KeepAdds
<1>12. ASSUME NEW p \in Process, EndCheckpoint(p)
      PROVE  \A k \in Checkpoint, b \in Arm :
         interviews[k][b] # None => interviews'[k][b] = interviews[k][b]
  BY <1>12 DEF EndCheckpoint, Goto, AfterCheckpoint, Blank
<1>13. ASSUME NEW w \in Worker, Claim(w)
      PROVE  \A k \in Checkpoint, b \in Arm :
         interviews[k][b] # None => interviews'[k][b] = interviews[k][b]
  BY <1>13 DEF Claim, Claimable, Goto, Forget, Blank
<1>14. ASSUME NEW w \in Worker, ReadRun(w)
      PROVE  \A k \in Checkpoint, b \in Arm :
         interviews[k][b] # None => interviews'[k][b] = interviews[k][b]
  BY <1>14 DEF ReadRun, Blank
<1>15. ASSUME NEW w \in Worker, NEW a \in Arm, ReadHistory(w, a)
      PROVE  \A k \in Checkpoint, b \in Arm :
         interviews[k][b] # None => interviews'[k][b] = interviews[k][b]
  BY <1>15 DEF ReadHistory, NextArm, Goto
<1>16. ASSUME NEW w \in Worker, Score(w)
      PROVE  \A k \in Checkpoint, b \in Arm :
         interviews[k][b] # None => interviews'[k][b] = interviews[k][b]
  BY <1>16 DEF Score, Goto
<1>17. ASSUME NEW w \in Worker, StoreMetrics(w)
      PROVE  \A k \in Checkpoint, b \in Arm :
         interviews[k][b] # None => interviews'[k][b] = interviews[k][b]
  BY <1>17 DEF StoreMetrics, Goto
<1>18. ASSUME NEW w \in Worker, StoreStatus(w)
      PROVE  \A k \in Checkpoint, b \in Arm :
         interviews[k][b] # None => interviews'[k][b] = interviews[k][b]
  BY <1>18 DEF StoreStatus, list_completed_cycles, Goto
<1>19. ASSUME NEW w \in Worker, NEW n \in Artefact, StoreArtefact(w, n)
      PROVE  \A k \in Checkpoint, b \in Arm :
         interviews[k][b] # None => interviews'[k][b] = interviews[k][b]
  BY <1>19 DEF StoreArtefact, Payload, Goto
<1>20. ASSUME NEW w \in Worker, Mark(w)
      PROVE  \A k \in Checkpoint, b \in Arm :
         interviews[k][b] # None => interviews'[k][b] = interviews[k][b]
  BY <1>20 DEF Mark, Forget, Goto, Blank
<1>21. ASSUME NEW p \in Process, GiveUp(p)
      PROVE  \A k \in Checkpoint, b \in Arm :
         interviews[k][b] # None => interviews'[k][b] = interviews[k][b]
  BY <1>21 DEF GiveUp, Asking, Analysing, Raise, Fault, Released, Redelivered,
               Forget, MayFail, Goto, Blank
<1>22. ASSUME NEW p \in Process, Crash(p)
      PROVE  \A k \in Checkpoint, b \in Arm :
         interviews[k][b] # None => interviews'[k][b] = interviews[k][b]
  BY <1>22 DEF Crash, MayFail, Cycle, Claims, Redelivered, Forget, Asking,
               Analysing, Goto, Blank
<1>23. CASE UNCHANGED vars
  BY <1>23 DEF vars, store, local
<1> QED BY ONLY [Next]_vars, <1>1, <1>2, <1>3, <1>4, <1>5, <1>6, <1>7, <1>8,
                             <1>9, <1>10, <1>11, <1>12, <1>13, <1>14, <1>15,
                             <1>16, <1>17, <1>18, <1>19, <1>20, <1>21, <1>22,
                             <1>23, NextCases

(* Type correctness.                                                       *)
LEMMA NextType == Inv /\ [Next]_vars => TypeOK'
<1> SUFFICES ASSUME Inv, [Next]_vars PROVE TypeOK'
    OBVIOUS
<1> USE ConstantsAssumption, NothingAssumption DEF Inv, TypeOK, Process,
                                                   Reached, Cycle, Stages,
                                                   Asking, Analysing
<1>1. ASSUME NEW i \in Invocation, Commit(i)
      PROVE  TypeOK'
  <2>1. head' \in Reached
    BY <1>1 DEF Commit
  <2>2. own' \in [Process -> Reached]
    BY <1>1, <2>1 DEF Commit, Start
  <2>3. StageAfterCommit(head + 1) \in Stages
    BY DEF StageAfterCommit
  <2>4. pc' \in [Process -> Stages]
    BY <1>1, <2>3 DEF Commit, Start, Goto
  <2> QED BY <1>1, <2>1, <2>2, <2>4 DEF Commit, Start, store
<1>2. ASSUME NEW i \in Invocation, Publish(i)
      PROVE  TypeOK'
  <2>1. LocalTypeOK'
    BY <1>2, ForgetType DEF Publish
  <2>2. [copies |-> 1, retries |-> Retries] \in Event
    BY DEF Event
  <2>3. bus' \in [Cycle -> Event \cup {None}]
    BY <1>2, <2>2 DEF Publish
  <2> QED BY <1>2, <2>1, <2>3 DEF Publish, LocalTypeOK, store
<1>3. ASSUME NEW i \in Invocation, PublishLost(i)
      PROVE  TypeOK'
  <2>1. LocalTypeOK'
    BY <1>3, ForgetType DEF PublishLost
  <2>2. faults' \in [count : 0 .. MaxFaults, died : SUBSET Cycle]
    BY <1>3, FaultType DEF PublishLost
  <2> QED BY <1>3, <2>1, <2>2 DEF PublishLost, LocalTypeOK, store
<1>4. ASSUME NEW o \in Operator, NEW c \in Checkpoint, Fire(o, c)
      PROVE  TypeOK'
  BY <1>4 DEF Fire, Start, store, Goto
<1>5. ASSUME NEW c \in Cycle, Duplicate(c)
      PROVE  TypeOK'
  <2>1. faults' \in [count : 0 .. MaxFaults, died : SUBSET Cycle]
    BY <1>5, FaultType DEF Duplicate
  <2>2. bus[c].copies + 1 \in Nat
        /\ bus[c].copies + 1 + bus[c].retries =< 1 + Retries + MaxFaults
    BY <1>5, CopiesCounted DEF Duplicate, Fault
  <2>3. [bus[c] EXCEPT !.copies = bus[c].copies + 1] \in Event
    BY <1>5, <2>2, CountedEvent DEF Duplicate
  <2>4. bus' \in [Cycle -> Event \cup {None}]
    BY <1>5, <2>3 DEF Duplicate
  <2> QED BY <1>5, <2>1, <2>4 DEF Duplicate, store, local
<1>6. ASSUME NEW w \in Worker, NEW c \in Cycle, Deliver(w, c)
      PROVE  TypeOK'
  <2>1. bus[c].copies - 1 \in Nat
        /\ bus[c].copies - 1 + bus[c].retries =< 1 + Retries + MaxFaults
    BY <1>6, CopiesCounted DEF Deliver
  <2>2. [bus[c] EXCEPT !.copies = bus[c].copies - 1] \in Event
    BY <1>6, <2>1, CountedEvent DEF Deliver
  <2>3. bus' \in [Cycle -> Event \cup {None}]
    BY <1>6, <2>2 DEF Deliver
  <2>4. own' \in [Process -> Reached] /\ pc' \in [Process -> Stages]
    BY <1>6 DEF Deliver, Start, Goto
  <2> QED BY <1>6, <2>3, <2>4 DEF Deliver, Start, store
<1>7. ASSUME NEW p \in Process, BeginCheckpoint(p)
      PROVE  TypeOK'
  BY <1>7 DEF BeginCheckpoint, Goto, store
<1>8. ASSUME NEW p \in Process, LookForInterviews(p)
      PROVE  TypeOK'
  <2>1. AfterCheckpoint(p) \in Stages
    BY DEF AfterCheckpoint
  <2>2. todo' \in [Process -> SUBSET (Arm \cup Artefact)]
    BY <1>8 DEF LookForInterviews, Outstanding
  <2>3. pc' \in [Process -> Stages]
    <3>1. Goto(p, AfterCheckpoint(p)) \/ Goto(p, "restoring")
      BY <1>8 DEF LookForInterviews
    <3> QED BY <2>1, <3>1 DEF Goto
  <2>4. at' \in [Process -> Reached]
    <3>1. 0 \in Reached
      OBVIOUS
    <3> QED BY <1>8, <3>1 DEF LookForInterviews
  <2> QED BY <1>8, <2>2, <2>3, <2>4 DEF LookForInterviews, store
<1>9. ASSUME NEW p \in Process, NEW a \in Arm, ReadArmState(p, a)
      PROVE  TypeOK'
  BY <1>9 DEF ReadArmState, NextArm, store
<1>10. ASSUME NEW p \in Process, AskAll(p)
      PROVE  TypeOK'
  BY <1>10 DEF AskAll, Goto, store
<1>11. ASSUME NEW p \in Process, NEW a \in Arm, KeepNew(p, a)
      PROVE  TypeOK'
  <2>1. interviews' \in [Checkpoint -> [Arm -> Interview \cup {None}]]
    BY <1>11, KeepAdds
  <2> QED BY <1>11, <2>1 DEF KeepNew
<1>12. ASSUME NEW p \in Process, EndCheckpoint(p)
      PROVE  TypeOK'
  BY <1>12 DEF EndCheckpoint, Goto, AfterCheckpoint, Blank, store
<1>13. ASSUME NEW w \in Worker, Claim(w)
      PROVE  TypeOK'
  <2>1. CASE Claimable(own[w])
    BY <1>13, <2>1 DEF Claim, Goto, Marker
  <2>2. CASE ~Claimable(own[w])
    <3>1. LocalTypeOK'
      BY <1>13, <2>2, ForgetType DEF Claim
    <3> QED BY <1>13, <2>2, <3>1 DEF Claim, LocalTypeOK
  <2> QED BY <2>1, <2>2
<1>14. ASSUME NEW w \in Worker, ReadRun(w)
      PROVE  TypeOK'
  BY <1>14 DEF ReadRun, Blank, store
<1>15. ASSUME NEW w \in Worker, NEW a \in Arm, ReadHistory(w, a)
      PROVE  TypeOK'
  BY <1>15 DEF ReadHistory, NextArm, Goto, store
<1>16. ASSUME NEW w \in Worker, Score(w)
      PROVE  TypeOK'
  BY <1>16 DEF Score, Goto, store
<1>17. ASSUME NEW w \in Worker, StoreMetrics(w)
      PROVE  TypeOK'
  <2>1. held[w] \in [Arm -> Reached]
    BY <1>17 DEF StoreMetrics, HistoryRead
  <2>2. \A a \in Arm : Max({metrics[a], held[w][a]}) \in Reached
    <3> TAKE a \in Arm
    <3>1. metrics[a] \in Reached /\ held[w][a] \in Reached
      BY <2>1
    <3>2. metrics[a] \in Int /\ held[w][a] \in Int
      BY <3>1
    <3>3. Max({metrics[a], held[w][a]}) \in {metrics[a], held[w][a]}
      BY ONLY <3>2, MaxOfTwo
    <3> QED BY ONLY <3>1, <3>3
  <2>3. metrics' \in [Arm -> Reached]
    BY <1>17, <2>2 DEF StoreMetrics
  <2>4. now[w] \in Cycle
    BY <1>17 DEF StoreMetrics, HistoryRead
  <2>5. secondary' \in [Cycle -> [Arm -> Cycle \cup {None}]]
    BY <1>17, <2>4 DEF StoreMetrics
  <2> QED BY <1>17, <2>3, <2>5 DEF StoreMetrics, Goto
<1>18. ASSUME NEW w \in Worker, StoreStatus(w)
      PROVE  TypeOK'
  BY <1>18 DEF StoreStatus, list_completed_cycles, Goto
<1>19. ASSUME NEW w \in Worker, NEW n \in Artefact, StoreArtefact(w, n)
      PROVE  TypeOK'
  <2>1. Payload(w) \in Reached
    BY <1>19, PayloadType DEF StoreArtefact
  <2> QED BY <1>19, <2>1 DEF StoreArtefact, Goto
<1>20. ASSUME NEW w \in Worker, Mark(w)
      PROVE  TypeOK'
  <2>1. LocalTypeOK'
    BY <1>20, ForgetType DEF Mark
  <2>2. marker' \in [Cycle -> Marker \cup {None}]
    BY <1>20 DEF Mark, Marker
  <2> QED BY <1>20, <2>1, <2>2 DEF Mark, LocalTypeOK
<1>21. ASSUME NEW p \in Process, GiveUp(p)
      PROVE  TypeOK'
  <2>1. LocalTypeOK'
    BY <1>21, ForgetType DEF GiveUp, Raise
  <2>2. SameEvents /\ marker' \in [Cycle -> Marker \cup {None}]
    BY <1>21, RaiseKeeps DEF GiveUp
  <2>3. faults' \in [count : 0 .. MaxFaults, died : SUBSET Cycle]
    BY <1>21, FaultType DEF GiveUp
  <2> QED BY <1>21, <2>1, <2>2, <2>3 DEF GiveUp, SameEvents, LocalTypeOK
<1>22. ASSUME NEW p \in Process, Crash(p)
      PROVE  TypeOK'
  <2>1. LocalTypeOK'
    BY <1>22, ForgetType DEF Crash
  <2>2. SameEvents
    BY <1>22, CrashKeeps
  <2>3. faults' \in [count : 0 .. MaxFaults, died : SUBSET Cycle]
    BY <1>22 DEF Crash, MayFail
  <2> QED BY <1>22, <2>1, <2>2, <2>3 DEF Crash, SameEvents, LocalTypeOK, store
<1>23. CASE UNCHANGED vars
  BY <1>23 DEF vars, store, local
<1> QED BY ONLY [Next]_vars, <1>1, <1>2, <1>3, <1>4, <1>5, <1>6, <1>7, <1>8,
                             <1>9, <1>10, <1>11, <1>12, <1>13, <1>14, <1>15,
                             <1>16, <1>17, <1>18, <1>19, <1>20, <1>21, <1>22,
                             <1>23, NextCases

(* No process and no event is ahead of the run.                            *)
LEMMA NextOnTime == Inv /\ [Next]_vars => OnTime'
<1> SUFFICES ASSUME Inv, [Next]_vars PROVE OnTime'
    OBVIOUS
<1> USE ConstantsAssumption DEF Inv, TypeOK, OnTime, Process, Cycle, Reached
<1>1. ASSUME NEW i \in Invocation, Commit(i)
      PROVE  OnTime'
  BY <1>1 DEF Commit, Start, StageAfterCommit, store, Goto
<1>2. ASSUME NEW i \in Invocation, Publish(i)
      PROVE  OnTime'
  BY <1>2 DEF Publish, Forget, store, Goto, Blank
<1>3. ASSUME NEW i \in Invocation, PublishLost(i)
      PROVE  OnTime'
  BY <1>3 DEF PublishLost, Fault, Forget, store, MayFail, Goto, Blank
<1>4. ASSUME NEW o \in Operator, NEW c \in Checkpoint, Fire(o, c)
      PROVE  OnTime'
  BY <1>4 DEF Fire, Start, store, Goto
<1>5. ASSUME NEW c \in Cycle, Duplicate(c)
      PROVE  OnTime'
  BY <1>5 DEF Duplicate, Fault, store, local, MayFail
<1>6. ASSUME NEW w \in Worker, NEW c \in Cycle, Deliver(w, c)
      PROVE  OnTime'
  BY <1>6 DEF Deliver, Start, store, Goto
<1>7. ASSUME NEW p \in Process, BeginCheckpoint(p)
      PROVE  OnTime'
  BY <1>7 DEF BeginCheckpoint, Goto, store
<1>8. ASSUME NEW p \in Process, LookForInterviews(p)
      PROVE  OnTime'
  BY <1>8 DEF LookForInterviews, Outstanding, Goto, AfterCheckpoint, store
<1>9. ASSUME NEW p \in Process, NEW a \in Arm, ReadArmState(p, a)
      PROVE  OnTime'
  BY <1>9 DEF ReadArmState, NextArm, store
<1>10. ASSUME NEW p \in Process, AskAll(p)
      PROVE  OnTime'
  BY <1>10 DEF AskAll, Goto, store
<1>11. ASSUME NEW p \in Process, NEW a \in Arm, KeepNew(p, a)
      PROVE  OnTime'
  BY <1>11 DEF KeepNew, Storable
<1>12. ASSUME NEW p \in Process, EndCheckpoint(p)
      PROVE  OnTime'
  BY <1>12 DEF EndCheckpoint, Goto, AfterCheckpoint, Blank, store
<1>13. ASSUME NEW w \in Worker, Claim(w)
      PROVE  OnTime'
  BY <1>13 DEF Claim, Claimable, Goto, Forget, Blank
<1>14. ASSUME NEW w \in Worker, ReadRun(w)
      PROVE  OnTime'
  BY <1>14 DEF ReadRun, Blank, store
<1>15. ASSUME NEW w \in Worker, NEW a \in Arm, ReadHistory(w, a)
      PROVE  OnTime'
  BY <1>15 DEF ReadHistory, NextArm, Goto, store
<1>16. ASSUME NEW w \in Worker, Score(w)
      PROVE  OnTime'
  BY <1>16 DEF Score, Goto, store
<1>17. ASSUME NEW w \in Worker, StoreMetrics(w)
      PROVE  OnTime'
  BY <1>17 DEF StoreMetrics, Goto
<1>18. ASSUME NEW w \in Worker, StoreStatus(w)
      PROVE  OnTime'
  BY <1>18 DEF StoreStatus, list_completed_cycles, Goto
<1>19. ASSUME NEW w \in Worker, NEW n \in Artefact, StoreArtefact(w, n)
      PROVE  OnTime'
  BY <1>19 DEF StoreArtefact, Payload, Goto
<1>20. ASSUME NEW w \in Worker, Mark(w)
      PROVE  OnTime'
  BY <1>20 DEF Mark, Forget, Goto, Blank
<1>21. ASSUME NEW p \in Process, GiveUp(p)
      PROVE  OnTime'
  <2>1. SameEvents /\ marker' \in [Cycle -> Marker \cup {None}]
        /\ \A k \in Cycle : marker'[k] = marker[k] \/ (p \in Worker /\ k = own[p])
    BY <1>21, RaiseKeeps DEF GiveUp
  <2> QED BY <1>21, <2>1 DEF GiveUp, Raise, Forget, Goto, SameEvents, Fault,
                         MayFail
<1>22. ASSUME NEW p \in Process, Crash(p)
      PROVE  OnTime'
  <2>1. SameEvents
    BY <1>22, CrashKeeps
  <2> QED BY <1>22, <2>1 DEF Crash, MayFail, Forget, Goto, store, SameEvents
<1>23. CASE UNCHANGED vars
  BY <1>23 DEF vars, store, local
<1> QED BY ONLY [Next]_vars, <1>1, <1>2, <1>3, <1>4, <1>5, <1>6, <1>7, <1>8,
                             <1>9, <1>10, <1>11, <1>12, <1>13, <1>14, <1>15,
                             <1>16, <1>17, <1>18, <1>19, <1>20, <1>21, <1>22,
                             <1>23, NextCases

(* Who runs has a cycle to run for.                                        *)
LEMMA NextAnnounced == Inv /\ [Next]_vars => Announced'
<1> SUFFICES ASSUME Inv, [Next]_vars PROVE Announced'
    OBVIOUS
<1> USE ConstantsAssumption, ProcessAssumption, NothingAssumption DEF Inv,
                                                                      TypeOK,
                                                                      Announced,
                                                                      Process,
                                                                      Cycle,
                                                                      Reached
<1>1. ASSUME NEW i \in Invocation, Commit(i)
      PROVE  Announced'
  BY <1>1 DEF Commit, Start, StageAfterCommit, store, Goto
<1>2. ASSUME NEW i \in Invocation, Publish(i)
      PROVE  Announced'
  <2>1. \A k \in Cycle : bus[k] # None => bus'[k] # None
    <3>1. [copies |-> 1, retries |-> Retries] \in Event
      BY DEF Event
    <3> QED BY <1>2, <3>1 DEF Publish, Event
  <2> QED BY <1>2, <2>1 DEF Publish, Forget, Goto, store
<1>3. ASSUME NEW i \in Invocation, PublishLost(i)
      PROVE  Announced'
  BY <1>3 DEF PublishLost, Fault, Forget, store, MayFail, Goto, Blank
<1>4. ASSUME NEW o \in Operator, NEW c \in Checkpoint, Fire(o, c)
      PROVE  Announced'
  <2>1. bus' = bus /\ o \notin Invocation /\ o \notin Worker
    BY <1>4 DEF Fire
  <2>2. \A p \in Process \ {o} : pc'[p] = pc[p] /\ own'[p] = own[p]
    BY <1>4 DEF Fire, Start, Goto
  <2> QED BY <2>1, <2>2
<1>5. ASSUME NEW c \in Cycle, Duplicate(c)
      PROVE  Announced'
  <2>1. bus[c].copies + 1 \in Nat
        /\ bus[c].copies + 1 + bus[c].retries =< 1 + Retries + MaxFaults
    BY <1>5, CopiesCounted DEF Duplicate, Fault
  <2>2. [bus[c] EXCEPT !.copies = bus[c].copies + 1] # None
    BY <1>5, <2>1, CountedEvent DEF Duplicate
  <2> QED BY <1>5, <2>2 DEF Duplicate, store, local
<1>6. ASSUME NEW w \in Worker, NEW c \in Cycle, Deliver(w, c)
      PROVE  Announced'
  <2>1. bus[c].copies - 1 \in Nat
        /\ bus[c].copies - 1 + bus[c].retries =< 1 + Retries + MaxFaults
    BY <1>6, CopiesCounted DEF Deliver
  <2>2. [bus[c] EXCEPT !.copies = bus[c].copies - 1] # None
    BY <1>6, <2>1, CountedEvent DEF Deliver
  <2> QED BY <1>6, <2>2 DEF Deliver, Start, Goto, store
<1>7. ASSUME NEW p \in Process, BeginCheckpoint(p)
      PROVE  Announced'
  BY <1>7 DEF BeginCheckpoint, Goto, store
<1>8. ASSUME NEW p \in Process, LookForInterviews(p)
      PROVE  Announced'
  BY <1>8 DEF LookForInterviews, Outstanding, Goto, AfterCheckpoint, store
<1>9. ASSUME NEW p \in Process, NEW a \in Arm, ReadArmState(p, a)
      PROVE  Announced'
  BY <1>9 DEF ReadArmState, NextArm, store
<1>10. ASSUME NEW p \in Process, AskAll(p)
      PROVE  Announced'
  BY <1>10 DEF AskAll, Goto, store
<1>11. ASSUME NEW p \in Process, NEW a \in Arm, KeepNew(p, a)
      PROVE  Announced'
  BY <1>11 DEF KeepNew, Storable
<1>12. ASSUME NEW p \in Process, EndCheckpoint(p)
      PROVE  Announced'
  BY <1>12 DEF EndCheckpoint, Goto, AfterCheckpoint, Blank, store
<1>13. ASSUME NEW w \in Worker, Claim(w)
      PROVE  Announced'
  <2>1. bus' = bus /\ own[w] \in Cycle /\ bus[own[w]] # None
    BY <1>13 DEF Claim
  <2>2. CASE own' = own /\ \A p \in Process \ {w} : pc'[p] = pc[p]
    BY <2>1, <2>2
  <2>3. CASE Forget(w)
    BY <2>1, <2>3 DEF Forget, Goto
  <2> QED BY <1>13, <2>2, <2>3 DEF Claim, Goto
<1>14. ASSUME NEW w \in Worker, ReadRun(w)
      PROVE  Announced'
  BY <1>14 DEF ReadRun, Blank, store
<1>15. ASSUME NEW w \in Worker, NEW a \in Arm, ReadHistory(w, a)
      PROVE  Announced'
  BY <1>15 DEF ReadHistory, NextArm, Goto, store
<1>16. ASSUME NEW w \in Worker, Score(w)
      PROVE  Announced'
  BY <1>16 DEF Score, Goto, store
<1>17. ASSUME NEW w \in Worker, StoreMetrics(w)
      PROVE  Announced'
  BY <1>17 DEF StoreMetrics, Goto
<1>18. ASSUME NEW w \in Worker, StoreStatus(w)
      PROVE  Announced'
  BY <1>18 DEF StoreStatus, list_completed_cycles, Goto
<1>19. ASSUME NEW w \in Worker, NEW n \in Artefact, StoreArtefact(w, n)
      PROVE  Announced'
  BY <1>19 DEF StoreArtefact, Payload, Goto
<1>20. ASSUME NEW w \in Worker, Mark(w)
      PROVE  Announced'
  BY <1>20 DEF Mark, Forget, Goto, Blank
<1>21. ASSUME NEW p \in Process, GiveUp(p)
      PROVE  Announced'
  <2>1. SameEvents /\ marker' \in [Cycle -> Marker \cup {None}]
        /\ \A k \in Cycle : marker'[k] = marker[k] \/ (p \in Worker /\ k = own[p])
    BY <1>21, RaiseKeeps DEF GiveUp
  <2> QED BY <1>21, <2>1 DEF GiveUp, Raise, Forget, Goto, SameEvents, Asking,
                         Analysing
<1>22. ASSUME NEW p \in Process, Crash(p)
      PROVE  Announced'
  <2>1. SameEvents
    BY <1>22, CrashKeeps
  <2> QED BY <1>22, <2>1 DEF Crash, MayFail, Forget, Goto, store, SameEvents
<1>23. CASE UNCHANGED vars
  BY <1>23 DEF vars, store, local
<1> QED BY ONLY [Next]_vars, <1>1, <1>2, <1>3, <1>4, <1>5, <1>6, <1>7, <1>8,
                             <1>9, <1>10, <1>11, <1>12, <1>13, <1>14, <1>15,
                             <1>16, <1>17, <1>18, <1>19, <1>20, <1>21, <1>22,
                             <1>23, NextCases

(* Deliveries are bounded by the retries and the faults.                   *)
LEMMA NextBus == Inv /\ [Next]_vars => BusBounded'
<1> SUFFICES ASSUME Inv, [Next]_vars PROVE BusBounded'
    OBVIOUS
<1> USE ConstantsAssumption DEF Inv, TypeOK, BusBounded, Event, Cycle
<1>1. ASSUME NEW i \in Invocation, Commit(i)
      PROVE  BusBounded'
  BY <1>1 DEF Commit, Start, StageAfterCommit, store, Goto
<1>2. ASSUME NEW i \in Invocation, Publish(i)
      PROVE  BusBounded'
  BY <1>2 DEF Publish, Forget, store, Goto, Blank
<1>3. ASSUME NEW i \in Invocation, PublishLost(i)
      PROVE  BusBounded'
  BY <1>3 DEF PublishLost, Fault, Forget, store, MayFail, Goto, Blank
<1>4. ASSUME NEW o \in Operator, NEW c \in Checkpoint, Fire(o, c)
      PROVE  BusBounded'
  BY <1>4 DEF Fire, Start, store, Goto
<1>5. ASSUME NEW c \in Cycle, Duplicate(c)
      PROVE  BusBounded'
  <2>1. \A k \in Cycle \ {c} : bus'[k] = bus[k]
    BY <1>5 DEF Duplicate
  <2>2. /\ bus'[c].copies = bus[c].copies + 1 /\ bus'[c].retries = bus[c].retries
        /\ bus[c] # None
    BY <1>5 DEF Duplicate
  <2>3. faults'.count = faults.count + 1 /\ faults.count \in Nat
    <3>1. Fault
      BY <1>5 DEF Duplicate
    <3>2. faults'.count = faults.count + 1
      BY ONLY Inv, <3>1, FaultType
    <3> QED BY <3>2
  <2>4. \A k \in Cycle : bus[k] # None =>
          /\ bus[k].copies \in Nat /\ bus[k].retries \in Nat
          /\ bus[k].copies + bus[k].retries <= 1 + Retries + faults.count
    OBVIOUS
  <2>5. Retries \in Nat
    OBVIOUS
  <2>6. ASSUME NEW k \in Cycle, bus'[k] # None
        PROVE  bus'[k].copies + bus'[k].retries <= 1 + Retries + faults'.count
    <3>1. CASE k = c
      BY ONLY <2>2, <2>3, <2>4, <2>5, <3>1
    <3>2. CASE k # c
      BY ONLY <2>1, <2>3, <2>4, <2>5, <2>6, <3>2
    <3> QED BY ONLY <3>1, <3>2
  <2> QED BY ONLY <2>6 DEF BusBounded
<1>6. ASSUME NEW w \in Worker, NEW c \in Cycle, Deliver(w, c)
      PROVE  BusBounded'
  <2>1. /\ \A k \in Cycle \ {c} : bus'[k] = bus[k]
        /\ faults' = faults
    BY <1>6 DEF Deliver
  <2>2. /\ bus'[c].copies = bus[c].copies - 1 /\ bus'[c].retries = bus[c].retries
        /\ bus[c] # None
    BY <1>6 DEF Deliver
  <2>3. \A k \in Cycle : bus[k] # None =>
          bus[k].copies \in Nat /\ bus[k].retries \in Nat
    OBVIOUS
  <2> QED BY <2>1, <2>2, <2>3
<1>7. ASSUME NEW p \in Process, BeginCheckpoint(p)
      PROVE  BusBounded'
  BY <1>7 DEF BeginCheckpoint, Goto, store
<1>8. ASSUME NEW p \in Process, LookForInterviews(p)
      PROVE  BusBounded'
  BY <1>8 DEF LookForInterviews, Outstanding, Goto, AfterCheckpoint, store
<1>9. ASSUME NEW p \in Process, NEW a \in Arm, ReadArmState(p, a)
      PROVE  BusBounded'
  BY <1>9 DEF ReadArmState, NextArm, store
<1>10. ASSUME NEW p \in Process, AskAll(p)
      PROVE  BusBounded'
  BY <1>10 DEF AskAll, Goto, store
<1>11. ASSUME NEW p \in Process, NEW a \in Arm, KeepNew(p, a)
      PROVE  BusBounded'
  BY <1>11 DEF KeepNew, Storable
<1>12. ASSUME NEW p \in Process, EndCheckpoint(p)
      PROVE  BusBounded'
  BY <1>12 DEF EndCheckpoint, Goto, AfterCheckpoint, Blank, store
<1>13. ASSUME NEW w \in Worker, Claim(w)
      PROVE  BusBounded'
  BY <1>13 DEF Claim, Claimable, Goto, Forget, Blank
<1>14. ASSUME NEW w \in Worker, ReadRun(w)
      PROVE  BusBounded'
  BY <1>14 DEF ReadRun, Blank, store
<1>15. ASSUME NEW w \in Worker, NEW a \in Arm, ReadHistory(w, a)
      PROVE  BusBounded'
  BY <1>15 DEF ReadHistory, NextArm, Goto, store
<1>16. ASSUME NEW w \in Worker, Score(w)
      PROVE  BusBounded'
  BY <1>16 DEF Score, Goto, store
<1>17. ASSUME NEW w \in Worker, StoreMetrics(w)
      PROVE  BusBounded'
  BY <1>17 DEF StoreMetrics, Goto
<1>18. ASSUME NEW w \in Worker, StoreStatus(w)
      PROVE  BusBounded'
  BY <1>18 DEF StoreStatus, list_completed_cycles, Goto
<1>19. ASSUME NEW w \in Worker, NEW n \in Artefact, StoreArtefact(w, n)
      PROVE  BusBounded'
  BY <1>19 DEF StoreArtefact, Payload, Goto
<1>20. ASSUME NEW w \in Worker, Mark(w)
      PROVE  BusBounded'
  BY <1>20 DEF Mark, Forget, Goto, Blank
<1>21. ASSUME NEW p \in Process, GiveUp(p)
      PROVE  BusBounded'
  <2>1. SameEvents /\ marker' \in [Cycle -> Marker \cup {None}]
        /\ \A k \in Cycle : marker'[k] = marker[k] \/ (p \in Worker /\ k = own[p])
    BY <1>21, RaiseKeeps DEF GiveUp
  <2> QED BY <1>21, <2>1 DEF GiveUp, Raise, Forget, Goto, SameEvents, Fault,
                         MayFail
<1>22. ASSUME NEW p \in Process, Crash(p)
      PROVE  BusBounded'
  <2>1. SameEvents
    BY <1>22, CrashKeeps
  <2> QED BY <1>22, <2>1 DEF Crash, MayFail, Forget, Goto, store, SameEvents
<1>23. CASE UNCHANGED vars
  BY <1>23 DEF vars, store, local
<1> QED BY ONLY [Next]_vars, <1>1, <1>2, <1>3, <1>4, <1>5, <1>6, <1>7, <1>8,
                             <1>9, <1>10, <1>11, <1>12, <1>13, <1>14, <1>15,
                             <1>16, <1>17, <1>18, <1>19, <1>20, <1>21, <1>22,
                             <1>23, NextCases

(* What a process knows while it asks stays true.                          *)
LEMMA NextAsking == Inv /\ [Next]_vars => AskingSound'
<1> SUFFICES ASSUME Inv, [Next]_vars PROVE AskingSound'
    OBVIOUS
<1> USE ProcessAssumption DEF Inv, TypeOK, AskingSound, Process, Asking
<1>1. ASSUME NEW i \in Invocation, Commit(i)
      PROVE  AskingSound'
  BY <1>1 DEF Commit, Start, StageAfterCommit, store, Goto
<1>2. ASSUME NEW i \in Invocation, Publish(i)
      PROVE  AskingSound'
  BY <1>2 DEF Publish, Forget, store, Goto, Blank
<1>3. ASSUME NEW i \in Invocation, PublishLost(i)
      PROVE  AskingSound'
  BY <1>3 DEF PublishLost, Fault, Forget, store, MayFail, Goto, Blank
<1>4. ASSUME NEW o \in Operator, NEW c \in Checkpoint, Fire(o, c)
      PROVE  AskingSound'
  BY <1>4 DEF Fire, Start, store, Goto
<1>5. ASSUME NEW c \in Cycle, Duplicate(c)
      PROVE  AskingSound'
  BY <1>5 DEF Duplicate, Fault, store, local, MayFail
<1>6. ASSUME NEW w \in Worker, NEW c \in Cycle, Deliver(w, c)
      PROVE  AskingSound'
  BY <1>6 DEF Deliver, Start, store, Goto
<1>7. ASSUME NEW p \in Process, BeginCheckpoint(p)
      PROVE  AskingSound'
  BY <1>7 DEF BeginCheckpoint, Goto, store
<1>8. ASSUME NEW p \in Process, LookForInterviews(p)
      PROVE  AskingSound'
  BY <1>8 DEF LookForInterviews, Outstanding, Goto, AfterCheckpoint, store
<1>9. ASSUME NEW p \in Process, NEW a \in Arm, ReadArmState(p, a)
      PROVE  AskingSound'
  BY <1>9 DEF ReadArmState, NextArm, store
<1>10. ASSUME NEW p \in Process, AskAll(p)
      PROVE  AskingSound'
  BY <1>10 DEF AskAll, Goto, store
<1>11. ASSUME NEW p \in Process, NEW a \in Arm, KeepNew(p, a)
      PROVE  AskingSound'
  <2>1. interviews'[own[p]][a] # None
    BY <1>11, KeepAdds
  <2> QED BY <1>11, <2>1, InterviewsStay DEF KeepNew
<1>12. ASSUME NEW p \in Process, EndCheckpoint(p)
      PROVE  AskingSound'
  BY <1>12 DEF EndCheckpoint, Goto, AfterCheckpoint, Blank, store
<1>13. ASSUME NEW w \in Worker, Claim(w)
      PROVE  AskingSound'
  BY <1>13 DEF Claim, Claimable, Goto, Forget, Blank
<1>14. ASSUME NEW w \in Worker, ReadRun(w)
      PROVE  AskingSound'
  BY <1>14 DEF ReadRun, Blank, store
<1>15. ASSUME NEW w \in Worker, NEW a \in Arm, ReadHistory(w, a)
      PROVE  AskingSound'
  BY <1>15 DEF ReadHistory, NextArm, Goto, store
<1>16. ASSUME NEW w \in Worker, Score(w)
      PROVE  AskingSound'
  BY <1>16 DEF Score, Goto, store
<1>17. ASSUME NEW w \in Worker, StoreMetrics(w)
      PROVE  AskingSound'
  BY <1>17 DEF StoreMetrics, Goto
<1>18. ASSUME NEW w \in Worker, StoreStatus(w)
      PROVE  AskingSound'
  BY <1>18 DEF StoreStatus, list_completed_cycles, Goto
<1>19. ASSUME NEW w \in Worker, NEW n \in Artefact, StoreArtefact(w, n)
      PROVE  AskingSound'
  BY <1>19 DEF StoreArtefact, Payload, Goto
<1>20. ASSUME NEW w \in Worker, Mark(w)
      PROVE  AskingSound'
  BY <1>20 DEF Mark, Forget, Goto, Blank
<1>21. ASSUME NEW p \in Process, GiveUp(p)
      PROVE  AskingSound'
  <2>1. SameEvents /\ marker' \in [Cycle -> Marker \cup {None}]
        /\ \A k \in Cycle : marker'[k] = marker[k] \/ (p \in Worker /\ k = own[p])
    BY <1>21, RaiseKeeps DEF GiveUp
  <2> QED BY <1>21, <2>1 DEF GiveUp, Raise, Forget, Goto, SameEvents, Fault,
                         MayFail
<1>22. ASSUME NEW p \in Process, Crash(p)
      PROVE  AskingSound'
  <2>1. SameEvents
    BY <1>22, CrashKeeps
  <2> QED BY <1>22, <2>1 DEF Crash, MayFail, Forget, Goto, store, SameEvents
<1>23. CASE UNCHANGED vars
  BY <1>23 DEF vars, store, local
<1> QED BY ONLY [Next]_vars, <1>1, <1>2, <1>3, <1>4, <1>5, <1>6, <1>7, <1>8,
                             <1>9, <1>10, <1>11, <1>12, <1>13, <1>14, <1>15,
                             <1>16, <1>17, <1>18, <1>19, <1>20, <1>21, <1>22,
                             <1>23, NextCases

(* What an analysis has read is complete.                                  *)
LEMMA NextHistory == Inv /\ [Next]_vars => HistoryRead'
<1> SUFFICES ASSUME Inv, [Next]_vars PROVE HistoryRead'
    OBVIOUS
<1> USE ConstantsAssumption, NothingAssumption DEF Inv, TypeOK, HistoryRead,
                                                   Process, Reached
<1>1. ASSUME NEW i \in Invocation, Commit(i)
      PROVE  HistoryRead'
  BY <1>1 DEF Commit, Start, StageAfterCommit, store, Goto
<1>2. ASSUME NEW i \in Invocation, Publish(i)
      PROVE  HistoryRead'
  BY <1>2 DEF Publish, Forget, store, Goto, Blank
<1>3. ASSUME NEW i \in Invocation, PublishLost(i)
      PROVE  HistoryRead'
  BY <1>3 DEF PublishLost, Fault, Forget, store, MayFail, Goto, Blank
<1>4. ASSUME NEW o \in Operator, NEW c \in Checkpoint, Fire(o, c)
      PROVE  HistoryRead'
  BY <1>4 DEF Fire, Start, store, Goto
<1>5. ASSUME NEW c \in Cycle, Duplicate(c)
      PROVE  HistoryRead'
  BY <1>5 DEF Duplicate, Fault, store, local, MayFail
<1>6. ASSUME NEW w \in Worker, NEW c \in Cycle, Deliver(w, c)
      PROVE  HistoryRead'
  BY <1>6 DEF Deliver, Start, store, Goto
<1>7. ASSUME NEW p \in Process, BeginCheckpoint(p)
      PROVE  HistoryRead'
  BY <1>7 DEF BeginCheckpoint, Goto, store
<1>8. ASSUME NEW p \in Process, LookForInterviews(p)
      PROVE  HistoryRead'
  BY <1>8 DEF LookForInterviews, Outstanding, Goto, AfterCheckpoint, store
<1>9. ASSUME NEW p \in Process, NEW a \in Arm, ReadArmState(p, a)
      PROVE  HistoryRead'
  BY <1>9 DEF ReadArmState, NextArm, store
<1>10. ASSUME NEW p \in Process, AskAll(p)
      PROVE  HistoryRead'
  BY <1>10 DEF AskAll, Goto, store
<1>11. ASSUME NEW p \in Process, NEW a \in Arm, KeepNew(p, a)
      PROVE  HistoryRead'
  BY <1>11 DEF KeepNew, Storable
<1>12. ASSUME NEW p \in Process, EndCheckpoint(p)
      PROVE  HistoryRead'
  BY <1>12 DEF EndCheckpoint, Goto, AfterCheckpoint, Blank, store
<1>13. ASSUME NEW w \in Worker, Claim(w)
      PROVE  HistoryRead'
  BY <1>13 DEF Claim, Claimable, Goto, Forget, Blank
<1>14. ASSUME NEW w \in Worker, ReadRun(w)
      PROVE  HistoryRead'
  BY <1>14 DEF ReadRun, Blank, store
<1>15. ASSUME NEW w \in Worker, NEW a \in Arm, ReadHistory(w, a)
      PROVE  HistoryRead'
  <2>1. CASE a = Max(Arm)
    <3>0. \A b \in Arm : b =< a
      BY <2>1, LastArm
    <3>1. \A b \in Arm : b = a \/ held[w][b] # None
      BY <1>15, <3>0 DEF ReadHistory, NextArm
    <3>2. \A b \in Arm : held'[w][b] # None
      BY <1>15, <3>1 DEF ReadHistory
    <3> QED BY <1>15, <2>1, <3>2 DEF ReadHistory, Goto, store
  <2>2. CASE a # Max(Arm)
    BY <1>15, <2>2 DEF ReadHistory, Goto, store
  <2> QED BY <2>1, <2>2
<1>16. ASSUME NEW w \in Worker, Score(w)
      PROVE  HistoryRead'
  <2>1. head # 0
    <3>1. own[w] \in Cycle
      BY <1>16 DEF Score, Announced
    <3>2. own[w] <= head
      BY DEF OnTime
    <3> QED BY <3>1, <3>2 DEF Cycle
  <2> QED BY <1>16, <2>1 DEF Score, Goto, store
<1>17. ASSUME NEW w \in Worker, StoreMetrics(w)
      PROVE  HistoryRead'
  BY <1>17 DEF StoreMetrics, Goto
<1>18. ASSUME NEW w \in Worker, StoreStatus(w)
      PROVE  HistoryRead'
  BY <1>18 DEF StoreStatus, list_completed_cycles, Goto
<1>19. ASSUME NEW w \in Worker, NEW n \in Artefact, StoreArtefact(w, n)
      PROVE  HistoryRead'
  BY <1>19 DEF StoreArtefact, Payload, Goto
<1>20. ASSUME NEW w \in Worker, Mark(w)
      PROVE  HistoryRead'
  BY <1>20 DEF Mark, Forget, Goto, Blank
<1>21. ASSUME NEW p \in Process, GiveUp(p)
      PROVE  HistoryRead'
  <2>1. SameEvents /\ marker' \in [Cycle -> Marker \cup {None}]
        /\ \A k \in Cycle : marker'[k] = marker[k] \/ (p \in Worker /\ k = own[p])
    BY <1>21, RaiseKeeps DEF GiveUp
  <2> QED BY <1>21, <2>1 DEF GiveUp, Raise, Forget, Goto, SameEvents, Fault,
                         MayFail
<1>22. ASSUME NEW p \in Process, Crash(p)
      PROVE  HistoryRead'
  <2>1. SameEvents
    BY <1>22, CrashKeeps
  <2> QED BY <1>22, <2>1 DEF Crash, MayFail, Forget, Goto, store, SameEvents
<1>23. CASE UNCHANGED vars
  BY <1>23 DEF vars, store, local
<1> QED BY ONLY [Next]_vars, <1>1, <1>2, <1>3, <1>4, <1>5, <1>6, <1>7, <1>8,
                             <1>9, <1>10, <1>11, <1>12, <1>13, <1>14, <1>15,
                             <1>16, <1>17, <1>18, <1>19, <1>20, <1>21, <1>22,
                             <1>23, NextCases

(* Nobody else gets into an analysing stage.                               *)
LEMMA NextApart == Inv /\ [Next]_vars => StagesApart'
<1> SUFFICES ASSUME Inv, [Next]_vars PROVE StagesApart'
    OBVIOUS
<1> USE ProcessAssumption DEF Inv, TypeOK, StagesApart, Process, Analysing
<1>1. ASSUME NEW i \in Invocation, Commit(i)
      PROVE  StagesApart'
  BY <1>1 DEF Commit, Start, StageAfterCommit, store, Goto
<1>2. ASSUME NEW i \in Invocation, Publish(i)
      PROVE  StagesApart'
  BY <1>2 DEF Publish, Forget, store, Goto, Blank
<1>3. ASSUME NEW i \in Invocation, PublishLost(i)
      PROVE  StagesApart'
  BY <1>3 DEF PublishLost, Fault, Forget, store, MayFail, Goto, Blank
<1>4. ASSUME NEW o \in Operator, NEW c \in Checkpoint, Fire(o, c)
      PROVE  StagesApart'
  BY <1>4 DEF Fire, Start, store, Goto
<1>5. ASSUME NEW c \in Cycle, Duplicate(c)
      PROVE  StagesApart'
  BY <1>5 DEF Duplicate, Fault, store, local, MayFail
<1>6. ASSUME NEW w \in Worker, NEW c \in Cycle, Deliver(w, c)
      PROVE  StagesApart'
  BY <1>6 DEF Deliver, Start, store, Goto
<1>7. ASSUME NEW p \in Process, BeginCheckpoint(p)
      PROVE  StagesApart'
  BY <1>7 DEF BeginCheckpoint, Goto, store
<1>8. ASSUME NEW p \in Process, LookForInterviews(p)
      PROVE  StagesApart'
  BY <1>8 DEF LookForInterviews, Outstanding, Goto, AfterCheckpoint, store
<1>9. ASSUME NEW p \in Process, NEW a \in Arm, ReadArmState(p, a)
      PROVE  StagesApart'
  BY <1>9 DEF ReadArmState, NextArm, store
<1>10. ASSUME NEW p \in Process, AskAll(p)
      PROVE  StagesApart'
  BY <1>10 DEF AskAll, Goto, store
<1>11. ASSUME NEW p \in Process, NEW a \in Arm, KeepNew(p, a)
      PROVE  StagesApart'
  BY <1>11 DEF KeepNew, Storable
<1>12. ASSUME NEW p \in Process, EndCheckpoint(p)
      PROVE  StagesApart'
  BY <1>12 DEF EndCheckpoint, Goto, AfterCheckpoint, Blank, store
<1>13. ASSUME NEW w \in Worker, Claim(w)
      PROVE  StagesApart'
  BY <1>13 DEF Claim, Claimable, Goto, Forget, Blank
<1>14. ASSUME NEW w \in Worker, ReadRun(w)
      PROVE  StagesApart'
  BY <1>14 DEF ReadRun, Blank, store
<1>15. ASSUME NEW w \in Worker, NEW a \in Arm, ReadHistory(w, a)
      PROVE  StagesApart'
  BY <1>15 DEF ReadHistory, NextArm, Goto, store
<1>16. ASSUME NEW w \in Worker, Score(w)
      PROVE  StagesApart'
  BY <1>16 DEF Score, Goto, store
<1>17. ASSUME NEW w \in Worker, StoreMetrics(w)
      PROVE  StagesApart'
  BY <1>17 DEF StoreMetrics, Goto
<1>18. ASSUME NEW w \in Worker, StoreStatus(w)
      PROVE  StagesApart'
  BY <1>18 DEF StoreStatus, list_completed_cycles, Goto
<1>19. ASSUME NEW w \in Worker, NEW n \in Artefact, StoreArtefact(w, n)
      PROVE  StagesApart'
  BY <1>19 DEF StoreArtefact, Payload, Goto
<1>20. ASSUME NEW w \in Worker, Mark(w)
      PROVE  StagesApart'
  BY <1>20 DEF Mark, Forget, Goto, Blank
<1>21. ASSUME NEW p \in Process, GiveUp(p)
      PROVE  StagesApart'
  <2>1. SameEvents /\ marker' \in [Cycle -> Marker \cup {None}]
        /\ \A k \in Cycle : marker'[k] = marker[k] \/ (p \in Worker /\ k = own[p])
    BY <1>21, RaiseKeeps DEF GiveUp
  <2> QED BY <1>21, <2>1 DEF GiveUp, Raise, Forget, Goto, SameEvents, Fault,
                         MayFail
<1>22. ASSUME NEW p \in Process, Crash(p)
      PROVE  StagesApart'
  <2>1. SameEvents
    BY <1>22, CrashKeeps
  <2> QED BY <1>22, <2>1 DEF Crash, MayFail, Forget, Goto, store, SameEvents
<1>23. CASE UNCHANGED vars
  BY <1>23 DEF vars, store, local
<1> QED BY ONLY [Next]_vars, <1>1, <1>2, <1>3, <1>4, <1>5, <1>6, <1>7, <1>8,
                             <1>9, <1>10, <1>11, <1>12, <1>13, <1>14, <1>15,
                             <1>16, <1>17, <1>18, <1>19, <1>20, <1>21, <1>22,
                             <1>23, NextCases

(* Who is about to publish a checkpoint has its interviews.                *)
LEMMA NextClear == Inv /\ [Next]_vars => ClearToPublish'
<1> SUFFICES ASSUME Inv, [Next]_vars PROVE ClearToPublish'
    OBVIOUS
<1> USE ProcessAssumption DEF Inv, TypeOK, ClearToPublish, Interviewed,
                              AskingSound, Process
<1>1. ASSUME NEW i \in Invocation, Commit(i)
      PROVE  ClearToPublish'
  BY <1>1 DEF Commit, Start, StageAfterCommit, store, Goto
<1>2. ASSUME NEW i \in Invocation, Publish(i)
      PROVE  ClearToPublish'
  BY <1>2 DEF Publish, Forget, store, Goto, Blank
<1>3. ASSUME NEW i \in Invocation, PublishLost(i)
      PROVE  ClearToPublish'
  BY <1>3 DEF PublishLost, Fault, Forget, store, MayFail, Goto, Blank
<1>4. ASSUME NEW o \in Operator, NEW c \in Checkpoint, Fire(o, c)
      PROVE  ClearToPublish'
  BY <1>4 DEF Fire, Start, store, Goto
<1>5. ASSUME NEW c \in Cycle, Duplicate(c)
      PROVE  ClearToPublish'
  BY <1>5 DEF Duplicate, Fault, store, local, MayFail
<1>6. ASSUME NEW w \in Worker, NEW c \in Cycle, Deliver(w, c)
      PROVE  ClearToPublish'
  BY <1>6 DEF Deliver, Start, store, Goto
<1>7. ASSUME NEW p \in Process, BeginCheckpoint(p)
      PROVE  ClearToPublish'
  BY <1>7 DEF BeginCheckpoint, Goto, store
<1>8. ASSUME NEW p \in Process, LookForInterviews(p)
      PROVE  ClearToPublish'
  BY <1>8 DEF LookForInterviews, Outstanding, Goto, AfterCheckpoint, store
<1>9. ASSUME NEW p \in Process, NEW a \in Arm, ReadArmState(p, a)
      PROVE  ClearToPublish'
  BY <1>9 DEF ReadArmState, NextArm, store
<1>10. ASSUME NEW p \in Process, AskAll(p)
      PROVE  ClearToPublish'
  BY <1>10 DEF AskAll, Goto, store
<1>11. ASSUME NEW p \in Process, NEW a \in Arm, KeepNew(p, a)
      PROVE  ClearToPublish'
  <2>1. interviews'[own[p]][a] # None
    BY <1>11, KeepAdds
  <2> QED BY <1>11, <2>1, InterviewsStay DEF KeepNew
<1>12. ASSUME NEW p \in Process, EndCheckpoint(p)
      PROVE  ClearToPublish'
  BY <1>12 DEF EndCheckpoint, Goto, AfterCheckpoint, Blank, store
<1>13. ASSUME NEW w \in Worker, Claim(w)
      PROVE  ClearToPublish'
  <2>1. interviews' = interviews /\ w \notin Invocation
    BY <1>13 DEF Claim
  <2>2. \A p \in Process \ {w} : pc'[p] = pc[p] /\ own'[p] = own[p]
    BY <1>13 DEF Claim, Forget, Goto
  <2> QED BY <2>1, <2>2
<1>14. ASSUME NEW w \in Worker, ReadRun(w)
      PROVE  ClearToPublish'
  BY <1>14 DEF ReadRun, Blank, store
<1>15. ASSUME NEW w \in Worker, NEW a \in Arm, ReadHistory(w, a)
      PROVE  ClearToPublish'
  BY <1>15 DEF ReadHistory, NextArm, Goto, store
<1>16. ASSUME NEW w \in Worker, Score(w)
      PROVE  ClearToPublish'
  BY <1>16 DEF Score, Goto, store
<1>17. ASSUME NEW w \in Worker, StoreMetrics(w)
      PROVE  ClearToPublish'
  BY <1>17 DEF StoreMetrics, Goto
<1>18. ASSUME NEW w \in Worker, StoreStatus(w)
      PROVE  ClearToPublish'
  BY <1>18 DEF StoreStatus, list_completed_cycles, Goto
<1>19. ASSUME NEW w \in Worker, NEW n \in Artefact, StoreArtefact(w, n)
      PROVE  ClearToPublish'
  BY <1>19 DEF StoreArtefact, Payload, Goto
<1>20. ASSUME NEW w \in Worker, Mark(w)
      PROVE  ClearToPublish'
  BY <1>20 DEF Mark, Forget, Goto, Blank
<1>21. ASSUME NEW p \in Process, GiveUp(p)
      PROVE  ClearToPublish'
  <2>1. SameEvents /\ marker' \in [Cycle -> Marker \cup {None}]
        /\ \A k \in Cycle : marker'[k] = marker[k] \/ (p \in Worker /\ k = own[p])
    BY <1>21, RaiseKeeps DEF GiveUp
  <2> QED BY <1>21, <2>1 DEF GiveUp, Raise, Forget, Goto, SameEvents, Fault,
                         MayFail
<1>22. ASSUME NEW p \in Process, Crash(p)
      PROVE  ClearToPublish'
  <2>1. SameEvents
    BY <1>22, CrashKeeps
  <2> QED BY <1>22, <2>1 DEF Crash, MayFail, Forget, Goto, store, SameEvents
<1>23. CASE UNCHANGED vars
  BY <1>23 DEF vars, store, local
<1> QED BY ONLY [Next]_vars, <1>1, <1>2, <1>3, <1>4, <1>5, <1>6, <1>7, <1>8,
                             <1>9, <1>10, <1>11, <1>12, <1>13, <1>14, <1>15,
                             <1>16, <1>17, <1>18, <1>19, <1>20, <1>21, <1>22,
                             <1>23, NextCases

(* Who publishes a checkpoint publishes what is interviewed.               *)
LEMMA NextAnnouncedIsInterviewed == Inv /\ [Next]_vars => AnnouncedIsInterviewed'
<1> SUFFICES ASSUME Inv, [Next]_vars PROVE AnnouncedIsInterviewed'
    OBVIOUS
<1> USE DEF Inv, TypeOK, AnnouncedIsInterviewed, ClearToPublish, Interviewed
<1>1. ASSUME NEW i \in Invocation, Commit(i)
      PROVE  AnnouncedIsInterviewed'
  BY <1>1 DEF Commit, Start, StageAfterCommit, store, Goto
<1>2. ASSUME NEW i \in Invocation, Publish(i)
      PROVE  AnnouncedIsInterviewed'
  BY <1>2 DEF Publish, Forget, store, Goto, Blank
<1>3. ASSUME NEW i \in Invocation, PublishLost(i)
      PROVE  AnnouncedIsInterviewed'
  BY <1>3 DEF PublishLost, Fault, Forget, store, MayFail, Goto, Blank
<1>4. ASSUME NEW o \in Operator, NEW c \in Checkpoint, Fire(o, c)
      PROVE  AnnouncedIsInterviewed'
  BY <1>4 DEF Fire, Start, store, Goto
<1>5. ASSUME NEW c \in Cycle, Duplicate(c)
      PROVE  AnnouncedIsInterviewed'
  BY <1>5 DEF Duplicate, Fault, store, local, MayFail
<1>6. ASSUME NEW w \in Worker, NEW c \in Cycle, Deliver(w, c)
      PROVE  AnnouncedIsInterviewed'
  BY <1>6 DEF Deliver, Start, store, Goto
<1>7. ASSUME NEW p \in Process, BeginCheckpoint(p)
      PROVE  AnnouncedIsInterviewed'
  BY <1>7 DEF BeginCheckpoint, Goto, store
<1>8. ASSUME NEW p \in Process, LookForInterviews(p)
      PROVE  AnnouncedIsInterviewed'
  BY <1>8 DEF LookForInterviews, Outstanding, Goto, AfterCheckpoint, store
<1>9. ASSUME NEW p \in Process, NEW a \in Arm, ReadArmState(p, a)
      PROVE  AnnouncedIsInterviewed'
  BY <1>9 DEF ReadArmState, NextArm, store
<1>10. ASSUME NEW p \in Process, AskAll(p)
      PROVE  AnnouncedIsInterviewed'
  BY <1>10 DEF AskAll, Goto, store
<1>11. ASSUME NEW p \in Process, NEW a \in Arm, KeepNew(p, a)
      PROVE  AnnouncedIsInterviewed'
  <2>1. interviews'[own[p]][a] # None
    BY <1>11, KeepAdds
  <2> QED BY <1>11, <2>1, InterviewsStay DEF KeepNew
<1>12. ASSUME NEW p \in Process, EndCheckpoint(p)
      PROVE  AnnouncedIsInterviewed'
  BY <1>12 DEF EndCheckpoint, Goto, AfterCheckpoint, Blank, store
<1>13. ASSUME NEW w \in Worker, Claim(w)
      PROVE  AnnouncedIsInterviewed'
  BY <1>13 DEF Claim, Claimable, Goto, Forget, Blank
<1>14. ASSUME NEW w \in Worker, ReadRun(w)
      PROVE  AnnouncedIsInterviewed'
  BY <1>14 DEF ReadRun, Blank, store
<1>15. ASSUME NEW w \in Worker, NEW a \in Arm, ReadHistory(w, a)
      PROVE  AnnouncedIsInterviewed'
  BY <1>15 DEF ReadHistory, NextArm, Goto, store
<1>16. ASSUME NEW w \in Worker, Score(w)
      PROVE  AnnouncedIsInterviewed'
  BY <1>16 DEF Score, Goto, store
<1>17. ASSUME NEW w \in Worker, StoreMetrics(w)
      PROVE  AnnouncedIsInterviewed'
  BY <1>17 DEF StoreMetrics, Goto
<1>18. ASSUME NEW w \in Worker, StoreStatus(w)
      PROVE  AnnouncedIsInterviewed'
  BY <1>18 DEF StoreStatus, list_completed_cycles, Goto
<1>19. ASSUME NEW w \in Worker, NEW n \in Artefact, StoreArtefact(w, n)
      PROVE  AnnouncedIsInterviewed'
  BY <1>19 DEF StoreArtefact, Payload, Goto
<1>20. ASSUME NEW w \in Worker, Mark(w)
      PROVE  AnnouncedIsInterviewed'
  BY <1>20 DEF Mark, Forget, Goto, Blank
<1>21. ASSUME NEW p \in Process, GiveUp(p)
      PROVE  AnnouncedIsInterviewed'
  <2>1. SameEvents /\ marker' \in [Cycle -> Marker \cup {None}]
        /\ \A k \in Cycle : marker'[k] = marker[k] \/ (p \in Worker /\ k = own[p])
    BY <1>21, RaiseKeeps DEF GiveUp
  <2> QED BY <1>21, <2>1 DEF GiveUp, Raise, Forget, Goto, SameEvents, Fault,
                         MayFail
<1>22. ASSUME NEW p \in Process, Crash(p)
      PROVE  AnnouncedIsInterviewed'
  <2>1. SameEvents
    BY <1>22, CrashKeeps
  <2> QED BY <1>22, <2>1 DEF Crash, MayFail, Forget, Goto, store, SameEvents
<1>23. CASE UNCHANGED vars
  BY <1>23 DEF vars, store, local
<1> QED BY ONLY [Next]_vars, <1>1, <1>2, <1>3, <1>4, <1>5, <1>6, <1>7, <1>8,
                             <1>9, <1>10, <1>11, <1>12, <1>13, <1>14, <1>15,
                             <1>16, <1>17, <1>18, <1>19, <1>20, <1>21, <1>22,
                             <1>23, NextCases

(* Only the one that holds the marker runs.                                *)
LEMMA NextOneAnalysis == Inv /\ [Next]_vars => OneAnalysisPerCycle'
<1> SUFFICES ASSUME Inv, [Next]_vars PROVE OneAnalysisPerCycle'
    OBVIOUS
<1> USE ProcessAssumption, NothingAssumption DEF Inv, TypeOK,
                                                 OneAnalysisPerCycle, Claims,
                                                 Process, Asking, Analysing
<1>1. ASSUME NEW i \in Invocation, Commit(i)
      PROVE  OneAnalysisPerCycle'
  BY <1>1 DEF Commit, Start, StageAfterCommit, store, Goto
<1>2. ASSUME NEW i \in Invocation, Publish(i)
      PROVE  OneAnalysisPerCycle'
  BY <1>2 DEF Publish, Forget, store, Goto, Blank
<1>3. ASSUME NEW i \in Invocation, PublishLost(i)
      PROVE  OneAnalysisPerCycle'
  BY <1>3 DEF PublishLost, Fault, Forget, store, MayFail, Goto, Blank
<1>4. ASSUME NEW o \in Operator, NEW c \in Checkpoint, Fire(o, c)
      PROVE  OneAnalysisPerCycle'
  BY <1>4 DEF Fire, Start, store, Goto
<1>5. ASSUME NEW c \in Cycle, Duplicate(c)
      PROVE  OneAnalysisPerCycle'
  BY <1>5 DEF Duplicate, Fault, store, local, MayFail
<1>6. ASSUME NEW w \in Worker, NEW c \in Cycle, Deliver(w, c)
      PROVE  OneAnalysisPerCycle'
  BY <1>6 DEF Deliver, Start, store, Goto
<1>7. ASSUME NEW p \in Process, BeginCheckpoint(p)
      PROVE  OneAnalysisPerCycle'
  BY <1>7 DEF BeginCheckpoint, Goto, store
<1>8. ASSUME NEW p \in Process, LookForInterviews(p)
      PROVE  OneAnalysisPerCycle'
  BY <1>8 DEF LookForInterviews, Outstanding, Goto, AfterCheckpoint, store
<1>9. ASSUME NEW p \in Process, NEW a \in Arm, ReadArmState(p, a)
      PROVE  OneAnalysisPerCycle'
  BY <1>9 DEF ReadArmState, NextArm, store
<1>10. ASSUME NEW p \in Process, AskAll(p)
      PROVE  OneAnalysisPerCycle'
  BY <1>10 DEF AskAll, Goto, store
<1>11. ASSUME NEW p \in Process, NEW a \in Arm, KeepNew(p, a)
      PROVE  OneAnalysisPerCycle'
  BY <1>11 DEF KeepNew, Storable
<1>12. ASSUME NEW p \in Process, EndCheckpoint(p)
      PROVE  OneAnalysisPerCycle'
  BY <1>12 DEF EndCheckpoint, Goto, AfterCheckpoint, Blank, store
<1>13. ASSUME NEW w \in Worker, Claim(w)
      PROVE  OneAnalysisPerCycle'
  <2>1. CASE Claimable(own[w])
    <3>1. marker[own[w]] = None
      BY <2>1 DEF Claimable
    <3>2. marker' = [marker EXCEPT ![own[w]] = "claim"]
      BY <1>13, <2>1 DEF Claim
    <3>3. \A k \in Cycle : marker[k] # None => marker'[k] # None
      BY <3>2, "claim" # None DEF Marker
    <3>4. \A v \in Worker, k \in Cycle \ {own[w]} : Claims(v, k)' => Claims(v, k)
      BY <1>13, <2>1 DEF Claim, Goto
    <3> QED BY <1>13, <2>1, <3>1, <3>2, <3>3 DEF Claim, Goto, Marker
  <2>2. CASE ~Claimable(own[w])
    <3>1. marker' = marker /\ pc' = [pc EXCEPT ![w] = "idle"] /\ own' = [own EXCEPT ![w] = 0]
      BY <1>13, <2>2 DEF Claim, Forget, Goto
    <3>2. \A v \in Worker, k \in Cycle : Claims(v, k)' => Claims(v, k)
      BY <3>1
    <3> QED BY <3>1, <3>2
  <2> QED BY <2>1, <2>2
<1>14. ASSUME NEW w \in Worker, ReadRun(w)
      PROVE  OneAnalysisPerCycle'
  BY <1>14 DEF ReadRun, Blank, store
<1>15. ASSUME NEW w \in Worker, NEW a \in Arm, ReadHistory(w, a)
      PROVE  OneAnalysisPerCycle'
  BY <1>15 DEF ReadHistory, NextArm, Goto, store
<1>16. ASSUME NEW w \in Worker, Score(w)
      PROVE  OneAnalysisPerCycle'
  BY <1>16 DEF Score, Goto, store
<1>17. ASSUME NEW w \in Worker, StoreMetrics(w)
      PROVE  OneAnalysisPerCycle'
  BY <1>17 DEF StoreMetrics, Goto
<1>18. ASSUME NEW w \in Worker, StoreStatus(w)
      PROVE  OneAnalysisPerCycle'
  BY <1>18 DEF StoreStatus, list_completed_cycles, Goto
<1>19. ASSUME NEW w \in Worker, NEW n \in Artefact, StoreArtefact(w, n)
      PROVE  OneAnalysisPerCycle'
  BY <1>19 DEF StoreArtefact, Payload, Goto
<1>20. ASSUME NEW w \in Worker, Mark(w)
      PROVE  OneAnalysisPerCycle'
  BY <1>20 DEF Mark, Forget, Goto, Blank
<1>21. ASSUME NEW p \in Process, GiveUp(p)
      PROVE  OneAnalysisPerCycle'
  <2>1. SameEvents /\ marker' \in [Cycle -> Marker \cup {None}]
        /\ \A k \in Cycle : marker'[k] = marker[k] \/ (p \in Worker /\ k = own[p])
    BY <1>21, RaiseKeeps DEF GiveUp
  <2> QED BY <1>21, <2>1 DEF GiveUp, Raise, Forget, Goto, SameEvents, Fault,
                         MayFail
<1>22. ASSUME NEW p \in Process, Crash(p)
      PROVE  OneAnalysisPerCycle'
  <2>1. SameEvents
    BY <1>22, CrashKeeps
  <2> QED BY <1>22, <2>1 DEF Crash, MayFail, Forget, Goto, store, SameEvents
<1>23. CASE UNCHANGED vars
  BY <1>23 DEF vars, store, local
<1> QED BY ONLY [Next]_vars, <1>1, <1>2, <1>3, <1>4, <1>5, <1>6, <1>7, <1>8,
                             <1>9, <1>10, <1>11, <1>12, <1>13, <1>14, <1>15,
                             <1>16, <1>17, <1>18, <1>19, <1>20, <1>21, <1>22,
                             <1>23, NextCases

-----------------------------------------------------------------------------
(* Theorems.                                                               *)

LEMMA InitInv == Init => Inv
<1> SUFFICES ASSUME Init PROVE Inv
    OBVIOUS
<1>1. TypeOK
  <2>1. 0 \in Reached /\ Blank \in [Arm -> Reached \cup {None}]
        /\ Blank \in [Arm -> Interview \cup {None}] /\ Blank \in [Arm -> Cycle \cup {None}]
    BY ConstantsAssumption DEF Reached, Blank
  <2>2. faults \in [count : 0 .. MaxFaults, died : SUBSET Cycle]
    BY ConstantsAssumption DEF Init
  <2> QED BY <2>1, <2>2 DEF Init, TypeOK, Stages
<1>2. OnTime /\ Announced /\ BusBounded
  BY DEF Init, OnTime, Announced, BusBounded, Process
<1>3. AskingSound /\ HistoryRead /\ StagesApart /\ ClearToPublish
  BY DEF Init, AskingSound, HistoryRead, StagesApart, ClearToPublish, Process,
         Asking, Analysing
<1>4. AnnouncedIsInterviewed /\ OneAnalysisPerCycle
  BY DEF Init, AnnouncedIsInterviewed, OneAnalysisPerCycle, Claims, Process,
         Asking, Analysing
<1> QED BY <1>1, <1>2, <1>3, <1>4 DEF Inv

(* The inductive invariant holds in every reachable state.                 *)
LEMMA Invariance == Spec => []Inv
<1>1. Inv /\ [Next]_vars => Inv'
  <2> SUFFICES ASSUME Inv, [Next]_vars PROVE Inv'
      OBVIOUS
  <2>1. TypeOK' /\ OnTime' /\ Announced' /\ BusBounded'
    BY NextType, NextOnTime, NextAnnounced, NextBus
  <2>2. AskingSound' /\ HistoryRead' /\ StagesApart' /\ ClearToPublish'
    BY NextAsking, NextHistory, NextApart, NextClear
  <2>3. AnnouncedIsInterviewed' /\ OneAnalysisPerCycle'
    BY NextAnnouncedIsInterviewed, NextOneAnalysis
  <2> QED BY <2>1, <2>2, <2>3 DEF Inv
<1> QED BY InitInv, <1>1, PTL DEF Spec

(* Every variable keeps its type: among the rest, an event is never due    *)
(* more often than its first delivery, its retries and the faults allow,   *)
(* and a derived document always describes a state the run was in.         *)
THEOREM TypeSafety == Spec => []TypeOK
BY Invariance, PTL DEF Inv

(* However often events are delivered, and whatever raises or dies, no two *)
(* analyses of one cycle run at once, and one that runs holds the marker   *)
(* (mark_cycle_analysed, release_cycle_analysis).                          *)
THEOREM OneAnalysisAtATime == Spec => []OneAnalysisPerCycle
BY Invariance, PTL DEF Inv

(* A checkpoint cycle is announced only when every arm's interview is in   *)
(* the store, whoever asked it (run_next_cycle, _publish).                 *)
THEOREM AnnouncedAfterInterviews == Spec => []AnnouncedIsInterviewed
BY Invariance, PTL DEF Inv

(* No step of anybody revises an interview (store_interview).              *)
THEOREM InterviewsStayFinal == Spec => InterviewsAreFinal
<1>1. Inv /\ [Next]_vars =>
        [\A c \in Checkpoint, a \in Arm :
           interviews[c][a] # None => interviews'[c][a] = interviews[c][a]]_vars
  BY InterviewsStay
<1> QED BY <1>1, Invariance, PTL DEF Spec, InterviewsAreFinal
=============================================================================
