-------------------------- MODULE CycleCommitProofs --------------------------
(***************************************************************************)
(* Machine-checked proofs about CycleCommit, for every set of arms and of  *)
(* invocations, every number of cycles, faults and pause switches, and     *)
(* both stores.                                                            *)
(***************************************************************************)
EXTENDS CycleCommit, TLAPS

USE DEF Cycle

(* Next, with the quantifiers the proofs case-split on.                    *)
LEMMA NextCases ==
  ASSUME [Next]_vars, NEW P,
         \A i \in Invocation, n \in Named \cup {None} : Check(i, n) => P,
         \A i \in Invocation : Begin(i) => P,
         \A i \in Invocation : Acquire(i) => P,
         \A i \in Invocation : LookForPrepared(i) => P,
         \A i \in Invocation : ReadArmStates(i) => P,
         \A i \in Invocation : Stage(i) => P,
         \A i \in Invocation : StageFails(i) => P,
         \A i \in Invocation : StoreLook(i) => P,
         \A i \in Invocation : StorePut(i) => P,
         \A i \in Invocation : Commit(i) => P,
         \A i \in Invocation : Release(i) => P,
         \A i \in Invocation : Crash(i) => P,
         DeadLeaseExpires => P,
         LiveLeaseExpires => P,
         \A p \in BOOLEAN : SetPaused(p) => P,
         UNCHANGED vars => P
  PROVE  P
BY DEF Next, Step

-----------------------------------------------------------------------------
(* Type correctness. *)

LEMMA InitType == Init => TypeOK
BY ConstantsAssumption, NobodyAssumption
   DEF Init, TypeOK, Head, State, Seed, Free, Blank, Stages

LEMMA TargetType ==
  ASSUME TypeOK, Fence, NEW i \in Invocation, pc[i] \in Working
  PROVE  Target(i) \in Cycle /\ Target(i) - 1 = seen[i].cycle
BY ConstantsAssumption DEF TypeOK, Fence, Target, Head

LEMMA GotoType ==
  ASSUME TypeOK, NEW i \in Invocation, NEW stage \in Stages, Goto(i, stage)
  PROVE  pc' \in [Invocation -> Stages]
BY DEF TypeOK, Goto

LocalTypeOK ==
  /\ pc \in [Invocation -> Stages]
  /\ named \in [Invocation -> Cycle \cup {None}]
  /\ read \in [Invocation -> [Arm -> State \cup {None}]]
  /\ offer \in [Invocation -> Content \cup {None}]

LEMMA ForgetType ==
  ASSUME TypeOK, NEW i \in Invocation, Forget(i)
  PROVE  LocalTypeOK'
<1>1. pc' \in [Invocation -> Stages]
  BY DEF TypeOK, Forget, Goto, Stages
<1>2. named' \in [Invocation -> Cycle \cup {None}]
  BY DEF TypeOK, Forget
<1>3. read' \in [Invocation -> [Arm -> State \cup {None}]]
  <2>1. Blank \in [Arm -> State \cup {None}]
    BY DEF Blank
  <2> QED BY <2>1 DEF TypeOK, Forget
<1>4. offer' \in [Invocation -> Content \cup {None}]
  BY DEF TypeOK, Forget
<1> QED BY <1>1, <1>2, <1>3, <1>4 DEF LocalTypeOK

LEMMA NextType == TypeOK /\ Fence /\ OffersSound /\ [Next]_vars => TypeOK'
<1> SUFFICES ASSUME TypeOK, Fence, OffersSound, [Next]_vars PROVE TypeOK'
    OBVIOUS
<1> USE ConstantsAssumption, NobodyAssumption DEF TypeOK, Stages
<1>1. ASSUME NEW i \in Invocation, NEW n \in Named \cup {None}, Check(i, n)
      PROVE  TypeOK'
  <2>1. CASE AlreadyCommitted(n) \/ head.cycle >= Ceiling
    BY <1>1, <2>1 DEF Check, store
  <2>2. CASE ~(AlreadyCommitted(n) \/ head.cycle >= Ceiling)
    <3>1. pc' \in [Invocation -> Stages]
      BY <1>1, <2>2 DEF Check, Goto
    <3>2. n \in Cycle \cup {None}
      BY <1>1
    <3>3. named' \in [Invocation -> Cycle \cup {None}]
      BY <1>1, <2>2, <3>2 DEF Check
    <3> QED BY <1>1, <2>2, <3>1, <3>3 DEF Check, store
  <2> QED BY <2>1, <2>2
<1>2. ASSUME NEW i \in Invocation, Begin(i) PROVE TypeOK'
  <2>1. CASE head.paused \/ head.cycle = MaxCycle
    BY <1>2, <2>1, ForgetType DEF Begin, store, LocalTypeOK
  <2>2. CASE ~(head.paused \/ head.cycle = MaxCycle)
    <3>1. pc' \in [Invocation -> Stages]
      BY <1>2, <2>2 DEF Begin, Goto
    <3>2. seen' \in [Invocation -> Head]
      BY <1>2, <2>2 DEF Begin
    <3> QED BY <1>2, <2>2, <3>1, <3>2 DEF Begin, store
  <2> QED BY <2>1, <2>2
<1>3. ASSUME NEW i \in Invocation, Acquire(i) PROVE TypeOK'
  <2>1. CASE LeaseAvailable
    <3>1. pc' \in [Invocation -> Stages]
      BY <1>3, <2>1 DEF Acquire, Goto
    <3>2. lock' = [holder |-> i, expired |-> FALSE]
      BY <1>3, <2>1 DEF Acquire
    <3> QED BY <1>3, <2>1, <3>1, <3>2 DEF Acquire
  <2>2. CASE ~LeaseAvailable
    BY <1>3, <2>2, ForgetType DEF Acquire, LocalTypeOK
  <2> QED BY <2>1, <2>2
<1>4. ASSUME NEW i \in Invocation, LookForPrepared(i) PROVE TypeOK'
  <2>1. Target(i) \in Cycle
    BY <1>4, TargetType DEF LookForPrepared, Working
  <2>2. CASE prepared[Target(i)] # None
    <3>1. prepared[Target(i)].content \in Content
      BY <2>1, <2>2 DEF Prepared
    <3>2. /\ offer' = [offer EXCEPT ![i] = prepared[Target(i)].content]
          /\ Goto(i, "committing")
      BY <1>4, <2>2 DEF LookForPrepared
    <3> QED BY <1>4, <3>1, <3>2 DEF LookForPrepared, store, Goto
  <2>3. CASE prepared[Target(i)] = None
    BY <1>4, <2>3 DEF LookForPrepared, store, Goto
  <2> QED BY <2>2, <2>3
<1>5. ASSUME NEW i \in Invocation, ReadArmStates(i) PROVE TypeOK'
  <2>1. read' \in [Invocation -> [Arm -> State \cup {None}]]
    <3>1. CASE Backend = "dynamodb"
      <4>1. PICK a \in Arm : read' = [read EXCEPT ![i][a] = armState[a]]
        BY <1>5, <3>1 DEF ReadArmStates
      <4>2. armState[a] \in State
        OBVIOUS
      <4>3. [read[i] EXCEPT ![a] = armState[a]] \in [Arm -> State \cup {None}]
        BY <4>2
      <4> QED BY <4>1, <4>3
    <3>2. CASE Backend = "sqlite"
      <4>1. read' = [read EXCEPT ![i] = armState]
        BY <1>5, <3>2 DEF ReadArmStates
      <4>2. armState \in [Arm -> State \cup {None}]
        OBVIOUS
      <4> QED BY <4>1, <4>2
    <3> QED BY <3>1, <3>2
  <2> QED BY <1>5, <2>1 DEF ReadArmStates, store
<1>6. ASSUME NEW i \in Invocation, Stage(i) PROVE TypeOK'
  <2>1. Target(i) \in Cycle
    BY <1>6, TargetType DEF Stage, Working
  <2>2. read[i] \in [Arm -> State]
    BY <1>6 DEF Stage, AllArmsRead
  <2>3. StagedFrom(i) \in Content
    BY <2>1, <2>2 DEF StagedFrom, Content, State
  <2> QED BY <1>6, <2>3 DEF Stage, store, Goto
<1>7. ASSUME NEW i \in Invocation, StageFails(i) PROVE TypeOK'
  BY <1>7 DEF StageFails, store, Goto
<1>8. ASSUME NEW i \in Invocation, StoreLook(i) PROVE TypeOK'
  BY <1>8 DEF StoreLook, store, Goto
<1>9. ASSUME NEW i \in Invocation, StorePut(i) PROVE TypeOK'
  <2>1. Target(i) \in Cycle
    BY <1>9, TargetType DEF StorePut, Working
  <2>2. offer[i] \in Content
    BY <1>9 DEF StorePut, OffersSound, OfferSound
  <2>3. [content |-> offer[i], committed |-> FALSE] \in Prepared
    BY <2>2 DEF Prepared
  <2>4. prepared' \in [Cycle -> Prepared \cup {None}]
    BY <1>9, <2>1, <2>3 DEF StorePut
  <2>5. pc' \in [Invocation -> Stages]
    <3>1. Goto(i, "lost") \/ Goto(i, "committing")
      BY <1>9 DEF StorePut
    <3> QED BY <3>1, GotoType
  <2> QED BY <1>9, <2>4, <2>5 DEF StorePut
<1>10. ASSUME NEW i \in Invocation, Commit(i) PROVE TypeOK'
  <2>0. pc' \in [Invocation -> Stages]
    <3>1. Goto(i, "lost") \/ Goto(i, "won")
      BY <1>10 DEF Commit
    <3> QED BY <3>1, GotoType
  <2>1. CASE CommitConditions(i)
    <3>1. Target(i) \in Cycle
      BY <1>10, TargetType DEF Commit, Working
    <3>2. prepared[Target(i)] \in Prepared
      BY <2>1, <3>1 DEF CommitConditions
    <3>3. prepared[Target(i)].content \in Content
      BY <3>2 DEF Prepared
    <3>4. CommitWrites(i)
      BY <1>10, <2>1 DEF Commit
    <3>5. head' \in Head
      <4>1. head' = [head EXCEPT !.cycle = Target(i), !.version = @ + 1]
        BY <3>4 DEF CommitWrites
      <4>2. head.version + 1 \in Nat /\ Target(i) \in 0 .. MaxCycle
        BY <3>1 DEF Head
      <4> QED BY <4>1, <4>2 DEF Head
    <3>6. lock' \in [holder : Invocation \cup {None, Gone}, expired : BOOLEAN]
      BY <3>4 DEF CommitWrites, Free
    <3>7. snapshots' \in [Cycle -> Content \cup {None}]
      BY <3>1, <3>3, <3>4 DEF CommitWrites
    <3>8. armState' \in [Arm -> State]
      BY <3>3, <3>4 DEF CommitWrites, Content
    <3>9. [prepared[Target(i)] EXCEPT !.committed = TRUE] \in Prepared
      BY <3>2 DEF Prepared
    <3>10. prepared' \in [Cycle -> Prepared \cup {None}]
      BY <3>1, <3>4, <3>9 DEF CommitWrites
    <3> QED BY <1>10, <2>0, <3>5, <3>6, <3>7, <3>8, <3>10 DEF Commit
  <2>2. CASE ~CommitConditions(i)
    BY <1>10, <2>0, <2>2 DEF Commit, store
  <2> QED BY <2>1, <2>2
<1>11. ASSUME NEW i \in Invocation, Release(i) PROVE TypeOK'
  <2>1. lock' \in [holder : Invocation \cup {None, Gone}, expired : BOOLEAN]
    BY <1>11 DEF Release, Free
  <2> QED BY <1>11, <2>1, ForgetType DEF Release, LocalTypeOK
<1>12. ASSUME NEW i \in Invocation, Crash(i) PROVE TypeOK'
  <2>1. lock' \in [holder : Invocation \cup {None, Gone}, expired : BOOLEAN]
    BY <1>12 DEF Crash
  <2>2. faults' \in 0 .. MaxFaults
    BY <1>12 DEF Crash
  <2> QED BY <1>12, <2>1, <2>2, ForgetType DEF Crash, LocalTypeOK
<1>13. ASSUME DeadLeaseExpires PROVE TypeOK'
  BY <1>13 DEF DeadLeaseExpires, local
<1>14. ASSUME LiveLeaseExpires PROVE TypeOK'
  <2>1. faults' \in 0 .. MaxFaults
    BY <1>14 DEF LiveLeaseExpires
  <2>2. lock' \in [holder : Invocation \cup {None, Gone}, expired : BOOLEAN]
    BY <1>14 DEF LiveLeaseExpires
  <2> QED BY <1>14, <2>1, <2>2 DEF LiveLeaseExpires, local
<1>15. ASSUME NEW p \in BOOLEAN, SetPaused(p) PROVE TypeOK'
  <2>1. head' = [head EXCEPT !.paused = p, !.version = @ + 1]
    BY <1>15 DEF SetPaused
  <2>2. head.version + 1 \in Nat
    BY DEF Head
  <2>3. head' \in Head
    BY <2>1, <2>2 DEF Head
  <2>4. faults' \in 0 .. MaxFaults
    BY <1>15 DEF SetPaused
  <2> QED BY <1>15, <2>3, <2>4 DEF SetPaused, local
<1>16. ASSUME UNCHANGED vars PROVE TypeOK'
  BY <1>16 DEF vars
<1> QED
  BY <1>1, <1>2, <1>3, <1>4, <1>5, <1>6, <1>7, <1>8, <1>9, <1>10, <1>11,
     <1>12, <1>13, <1>14, <1>15, <1>16, NextCases

-----------------------------------------------------------------------------
(* What the actions leave alone. *)

LEMMA GotoMoves ==
  ASSUME TypeOK, NEW i \in Invocation, NEW stage, Goto(i, stage)
  PROVE  /\ pc'[i] = stage
         /\ \A j \in Invocation \ {i} : pc'[j] = pc[j]
BY DEF TypeOK, Goto

LEMMA ForgetMoves ==
  ASSUME TypeOK, NEW i \in Invocation, Forget(i)
  PROVE  /\ pc'[i] = "idle" /\ read'[i] = Blank
         /\ \A j \in Invocation \ {i} :
              pc'[j] = pc[j] /\ read'[j] = read[j] /\ offer'[j] = offer[j]
BY GotoMoves DEF TypeOK, Forget

\* Begin is the only action that makes an invocation a working one.
LEMMA WorkingFrame ==
  ASSUME TypeOK, NEW i \in Invocation,
         \/ LookForPrepared(i) \/ ReadArmStates(i) \/ Stage(i) \/ StageFails(i)
         \/ StoreLook(i) \/ StorePut(i) \/ Commit(i) \/ Release(i) \/ Crash(i)
         \/ Acquire(i) \/ \E n \in Named \cup {None} : Check(i, n)
  PROVE  /\ \A j \in Invocation : pc'[j] \in Working => pc[j] \in Working
         /\ seen' = seen
<1>1. CASE LookForPrepared(i)
  BY <1>1, GotoMoves DEF LookForPrepared, Working, Stages
<1>2. CASE ReadArmStates(i)
  BY <1>2 DEF ReadArmStates
<1>3. CASE Stage(i)
  BY <1>3, GotoMoves DEF Stage, Working, Stages
<1>4. CASE StageFails(i)
  BY <1>4, GotoMoves DEF StageFails, Working, Stages
<1>5. CASE StoreLook(i)
  BY <1>5, GotoMoves DEF StoreLook, Working, Stages
<1>6. CASE StorePut(i)
  <2>1. Goto(i, "lost") \/ Goto(i, "committing")
    BY <1>6 DEF StorePut
  <2> QED BY <1>6, <2>1, GotoMoves DEF StorePut, Working, Stages
<1>7. CASE Commit(i)
  <2>1. Goto(i, "lost") \/ Goto(i, "won")
    BY <1>7 DEF Commit
  <2> QED BY <1>7, <2>1, GotoMoves DEF Commit, Working, Stages
<1>8. CASE Release(i)
  BY <1>8, ForgetMoves DEF Release, Working
<1>9. CASE Crash(i)
  BY <1>9, ForgetMoves DEF Crash, Working
<1>10. CASE Acquire(i)
  <2>1. CASE LeaseAvailable
    BY <1>10, <2>1, GotoMoves DEF Acquire, Working, Stages
  <2>2. CASE ~LeaseAvailable
    BY <1>10, <2>2, ForgetMoves DEF Acquire, Working
  <2> QED BY <2>1, <2>2
<1>11. CASE \E n \in Named \cup {None} : Check(i, n)
  <2> PICK n \in Named \cup {None} : Check(i, n)
    BY <1>11
  <2>1. CASE AlreadyCommitted(n) \/ head.cycle >= Ceiling
    BY <2>1 DEF Check
  <2>2. CASE ~(AlreadyCommitted(n) \/ head.cycle >= Ceiling)
    BY <2>2, GotoMoves DEF Check, Working
  <2> QED BY <2>1, <2>2
<1> QED BY <1>1, <1>2, <1>3, <1>4, <1>5, <1>6, <1>7, <1>8, <1>9, <1>10, <1>11

-----------------------------------------------------------------------------
(* The fence. *)

LEMMA FenceFrame ==
  ASSUME Fence, head' = head, seen' = seen,
         \A j \in Invocation : pc'[j] \in Working => pc[j] \in Working
  PROVE  Fence'
BY DEF Fence, Working, Stages

\* What a successful commit does to the head.
LEMMA CommitHead ==
  ASSUME TypeOK, Fence, NEW i \in Invocation, Commit(i), CommitConditions(i)
  PROVE  /\ Target(i) \in Cycle
         /\ Target(i) = head.cycle + 1
         /\ head'.cycle = Target(i)
         /\ head'.version = head.version + 1
         /\ head'.paused = head.paused
         /\ ~head.paused
         /\ CommitWrites(i)
         /\ UNCHANGED <<seen, read, offer>>
         /\ pc'[i] = "won"
         /\ \A j \in Invocation \ {i} : pc'[j] = pc[j]
<1>1. Target(i) \in Cycle
  BY TargetType DEF Commit, Working, Stages
<1>2. CommitWrites(i) /\ Goto(i, "won")
  BY DEF Commit
<1>3. head' = [head EXCEPT !.cycle = Target(i), !.version = @ + 1]
  BY <1>2 DEF CommitWrites
<1>4. head'.cycle = Target(i) /\ head'.version = head.version + 1
      /\ head'.paused = head.paused
  BY <1>3 DEF TypeOK, Head
<1>5. Target(i) = head.cycle + 1
  BY DEF CommitConditions, Target
<1>6. ~head.paused
  BY DEF CommitConditions, Fence, Commit, Working, Stages
<1> QED BY <1>1, <1>2, <1>4, <1>5, <1>6, GotoMoves DEF Commit

LEMMA NextFence == TypeOK /\ Fence /\ [Next]_vars => Fence'
<1> SUFFICES ASSUME TypeOK, Fence, [Next]_vars PROVE Fence'
    OBVIOUS
<1>1. ASSUME NEW i \in Invocation, NEW n \in Named \cup {None}, Check(i, n)
      PROVE  Fence'
  BY <1>1, WorkingFrame, FenceFrame DEF Check, store
<1>2. ASSUME NEW i \in Invocation, Begin(i) PROVE Fence'
  <2>1. CASE head.paused \/ head.cycle = MaxCycle
    <3>1. \A j \in Invocation : pc'[j] \in Working => pc[j] \in Working
      BY <1>2, <2>1, ForgetMoves DEF Begin, Working
    <3> QED BY <1>2, <2>1, <3>1, FenceFrame DEF Begin, store
  <2>2. CASE ~(head.paused \/ head.cycle = MaxCycle)
    <3>1. /\ seen' = [seen EXCEPT ![i] = head]
          /\ head' = head
          /\ \A j \in Invocation \ {i} : pc'[j] = pc[j]
      BY <1>2, <2>2, GotoMoves DEF Begin, store
    <3>2. head.cycle < MaxCycle /\ head.cycle \in Nat /\ head.version \in Nat
      BY <2>2, ConstantsAssumption DEF TypeOK, Head
    <3>3. seen'[i] = head /\ \A j \in Invocation \ {i} : seen'[j] = seen[j]
      BY <3>1 DEF TypeOK
    <3> QED BY <2>2, <3>1, <3>2, <3>3 DEF Fence, Working, Stages
  <2> QED BY <2>1, <2>2
<1>3. ASSUME NEW i \in Invocation, Acquire(i) PROVE Fence'
  BY <1>3, WorkingFrame, FenceFrame DEF Acquire
<1>4. ASSUME NEW i \in Invocation, LookForPrepared(i) PROVE Fence'
  BY <1>4, WorkingFrame, FenceFrame DEF LookForPrepared, store
<1>5. ASSUME NEW i \in Invocation, ReadArmStates(i) PROVE Fence'
  BY <1>5, WorkingFrame, FenceFrame DEF ReadArmStates, store
<1>6. ASSUME NEW i \in Invocation, Stage(i) PROVE Fence'
  BY <1>6, WorkingFrame, FenceFrame DEF Stage, store
<1>7. ASSUME NEW i \in Invocation, StageFails(i) PROVE Fence'
  BY <1>7, WorkingFrame, FenceFrame DEF StageFails, store
<1>8. ASSUME NEW i \in Invocation, StoreLook(i) PROVE Fence'
  BY <1>8, WorkingFrame, FenceFrame DEF StoreLook, store
<1>9. ASSUME NEW i \in Invocation, StorePut(i) PROVE Fence'
  BY <1>9, WorkingFrame, FenceFrame DEF StorePut
<1>10. ASSUME NEW i \in Invocation, Commit(i) PROVE Fence'
  <2>1. CASE CommitConditions(i)
    <3>1. \A j \in Invocation : pc'[j] \in Working => pc[j] \in Working
      BY <1>10, WorkingFrame
    <3>2. \A j \in Invocation : pc'[j] \in Working =>
            seen[j].version < head'.version /\ seen[j].cycle <= head'.cycle
      BY <1>10, <2>1, <3>1, CommitHead DEF Fence, TypeOK, Head
    <3>3. \A j \in Invocation : pc'[j] \in Working => seen[j].cycle < MaxCycle
      BY <3>1 DEF Fence
    <3>4. \A j \in Invocation : seen[j].version \in Nat
      BY DEF TypeOK, Head
    <3>5. head'.version \in Nat
      BY <1>10, <2>1, CommitHead DEF TypeOK, Head
    <3>6. seen' = seen
      BY <1>10, WorkingFrame
    <3> QED BY <3>2, <3>3, <3>4, <3>5, <3>6 DEF Fence, Working
  <2>2. CASE ~CommitConditions(i)
    BY <1>10, <2>2, WorkingFrame, FenceFrame DEF Commit, store
  <2> QED BY <2>1, <2>2
<1>11. ASSUME NEW i \in Invocation, Release(i) PROVE Fence'
  BY <1>11, WorkingFrame, FenceFrame DEF Release
<1>12. ASSUME NEW i \in Invocation, Crash(i) PROVE Fence'
  BY <1>12, WorkingFrame, FenceFrame DEF Crash
<1>13. ASSUME DeadLeaseExpires PROVE Fence'
  BY <1>13, FenceFrame DEF DeadLeaseExpires, local
<1>14. ASSUME LiveLeaseExpires PROVE Fence'
  BY <1>14, FenceFrame DEF LiveLeaseExpires, local
<1>15. ASSUME NEW p \in BOOLEAN, SetPaused(p) PROVE Fence'
  <2>1. /\ head'.cycle = head.cycle /\ head'.version = head.version + 1
        /\ UNCHANGED <<pc, seen>>
    BY <1>15 DEF SetPaused, local, TypeOK, Head
  <2>2. head.version \in Nat /\ \A j \in Invocation : seen[j].version \in Nat
    BY DEF TypeOK, Head
  <2> QED BY <2>1, <2>2 DEF Fence, Working
<1>16. ASSUME UNCHANGED vars PROVE Fence'
  BY <1>16, FenceFrame DEF vars
<1> QED
  BY <1>1, <1>2, <1>3, <1>4, <1>5, <1>6, <1>7, <1>8, <1>9, <1>10, <1>11,
     <1>12, <1>13, <1>14, <1>15, <1>16, NextCases

-----------------------------------------------------------------------------
(* The records. *)

LEMMA StateAtFrame ==
  ASSUME snapshots' = snapshots, NEW c
  PROVE  StateAt(c)' = StateAt(c)
BY DEF StateAt

\* A commit adds to the history and leaves what was there.
LEMMA StateAtCommit ==
  ASSUME TypeOK, Fence, CycleIntegrity,
         NEW i \in Invocation, Commit(i), CommitConditions(i)
  PROVE  /\ \A c \in 0 .. head.cycle : StateAt(c)' = StateAt(c)
         /\ snapshots'[Target(i)] = prepared[Target(i)].content
         /\ \A c \in Cycle \ {Target(i)} : snapshots'[c] = snapshots[c]
<1>1. /\ snapshots' = [snapshots EXCEPT ![Target(i)] = prepared[Target(i)].content]
      /\ Target(i) \in Cycle /\ Target(i) = head.cycle + 1
  BY CommitHead DEF CommitWrites
<1>2. /\ snapshots'[Target(i)] = prepared[Target(i)].content
      /\ \A c \in Cycle \ {Target(i)} : snapshots'[c] = snapshots[c]
  BY <1>1 DEF TypeOK
<1>3. head.cycle \in 0 .. MaxCycle
  BY DEF TypeOK, Head
<1>4. ASSUME NEW c \in 0 .. head.cycle PROVE StateAt(c)' = StateAt(c)
  <2>1. CASE c = 0
    BY <2>1 DEF StateAt
  <2>2. CASE c # 0
    <3>1. c \in Cycle \ {Target(i)}
      BY <1>1, <1>3, <2>2, ConstantsAssumption
    <3> QED BY <1>2, <2>2, <3>1 DEF StateAt
  <2> QED BY <2>1, <2>2
<1> QED BY <1>2, <1>4

LEMMA IntegrityFrame ==
  ASSUME CycleIntegrity, head'.cycle = head.cycle,
         snapshots' = snapshots, armState' = armState
  PROVE  CycleIntegrity'
BY DEF CycleIntegrity, ArmsTogether, HistoryComplete, Chained, StateAt

LEMMA CommitIntegrity ==
  ASSUME TypeOK, Fence, CycleIntegrity, PreparedSound,
         NEW i \in Invocation, Commit(i), CommitConditions(i)
  PROVE  CycleIntegrity'
<1> DEFINE t == Target(i)
<1>1. /\ t \in Cycle /\ t = head.cycle + 1 /\ head'.cycle = t
      /\ armState' = prepared[t].content.after
  BY CommitHead DEF CommitWrites
<1>2. prepared[t] \in Prepared /\ prepared[t].content \in Content
  BY <1>1 DEF CommitConditions, TypeOK, Prepared
<1>3. Staged(prepared[t].content, t)
  BY <1>1 DEF PreparedSound, CommitConditions
<1>4. head.cycle \in 0 .. MaxCycle
  BY DEF TypeOK, Head
<1> HIDE DEF t
<1>5. ArmsTogether'
  <2>1. snapshots'[t].after = armState' /\ t # 0
    BY <1>1, StateAtCommit, ConstantsAssumption DEF t
  <2>2. StateAt(head.cycle)' = snapshots'[t].after
    BY <1>1, <2>1 DEF StateAt
  <2> QED BY <2>1, <2>2 DEF ArmsTogether
<1>6. HistoryComplete'
  <2>1. snapshots'[t] # None
    BY <1>2, StateAtCommit, NobodyAssumption DEF t
  <2>2. ASSUME NEW c \in Cycle, c # t
        PROVE  snapshots'[c] # None <=> c <= head'.cycle
    <3>1. snapshots'[c] = snapshots[c]
      BY <2>2, StateAtCommit DEF t
    <3>2. c <= head.cycle <=> c <= head'.cycle
      BY <1>1, <1>4, <2>2, ConstantsAssumption
    <3> QED BY <3>1, <3>2 DEF CycleIntegrity, HistoryComplete
  <2> QED BY <1>1, <2>1, <2>2 DEF HistoryComplete
<1>7. Chained'
  <2> SUFFICES ASSUME NEW c \in 1 .. head'.cycle
               PROVE  /\ snapshots'[c].before = StateAt(c - 1)'
                      /\ Together(snapshots'[c], c)
    BY DEF Chained
  <2>0. c - 1 \in 0 .. head.cycle
    BY <1>1, <1>4
  <2>1. CASE c = t
    <3>1. StateAt(c - 1)' = StateAt(c - 1)
      BY <2>0, StateAtCommit
    <3>2. snapshots'[c] = prepared[t].content
      BY <2>1, StateAtCommit DEF t
    <3> QED BY <1>3, <2>1, <3>1, <3>2 DEF Staged
  <2>2. CASE c # t
    <3>1. c \in 1 .. head.cycle /\ c \in Cycle
      BY <1>1, <1>4, <2>2, ConstantsAssumption
    <3>2. snapshots'[c] = snapshots[c]
      BY <2>2, <3>1, StateAtCommit DEF t
    <3>3. StateAt(c - 1)' = StateAt(c - 1)
      BY <2>0, StateAtCommit
    <3> QED BY <3>1, <3>2, <3>3 DEF CycleIntegrity, Chained
  <2> QED BY <2>1, <2>2
<1> QED BY <1>5, <1>6, <1>7 DEF CycleIntegrity

\* Every step but a successful commit leaves the committed records alone.
LEMMA CommittedSame ==
  ASSUME TypeOK, [Next]_vars,
         \A i \in Invocation : ~(Commit(i) /\ CommitConditions(i))
  PROVE  /\ head'.cycle = head.cycle
         /\ snapshots' = snapshots /\ armState' = armState
<1> DEFINE P == /\ head'.cycle = head.cycle
                /\ snapshots' = snapshots /\ armState' = armState
<1>1. \A i \in Invocation, n \in Named \cup {None} : Check(i, n) => P
  BY DEF Check, store
<1>2. \A i \in Invocation : Begin(i) => P
  BY DEF Begin, store
<1>3. \A i \in Invocation : Acquire(i) => P
  BY DEF Acquire
<1>4. \A i \in Invocation : LookForPrepared(i) => P
  BY DEF LookForPrepared, store
<1>5. \A i \in Invocation : ReadArmStates(i) => P
  BY DEF ReadArmStates, store
<1>6. \A i \in Invocation : Stage(i) => P
  BY DEF Stage, store
<1>7. \A i \in Invocation : StageFails(i) => P
  BY DEF StageFails, store
<1>8. \A i \in Invocation : StoreLook(i) => P
  BY DEF StoreLook, store
<1>9. \A i \in Invocation : StorePut(i) => P
  BY DEF StorePut
<1>10. \A i \in Invocation : Commit(i) => P
  BY DEF Commit, store
<1>11. \A i \in Invocation : Release(i) => P
  BY DEF Release
<1>12. \A i \in Invocation : Crash(i) => P
  BY DEF Crash
<1>13. DeadLeaseExpires => P
  BY DEF DeadLeaseExpires
<1>14. LiveLeaseExpires => P
  BY DEF LiveLeaseExpires
<1>15. \A p \in BOOLEAN : SetPaused(p) => P
  BY DEF SetPaused, TypeOK, Head
<1>16. UNCHANGED vars => P
  BY DEF vars
<1> HIDE DEF P
<1>17. P
  BY <1>1, <1>2, <1>3, <1>4, <1>5, <1>6, <1>7, <1>8, <1>9, <1>10, <1>11,
     <1>12, <1>13, <1>14, <1>15, <1>16, NextCases
<1> QED BY <1>17 DEF P

LEMMA NextIntegrity ==
  TypeOK /\ Fence /\ CycleIntegrity /\ PreparedSound /\ [Next]_vars => CycleIntegrity'
<1> SUFFICES ASSUME TypeOK, Fence, CycleIntegrity, PreparedSound, [Next]_vars
             PROVE  CycleIntegrity'
    OBVIOUS
<1>1. CASE \E i \in Invocation : Commit(i) /\ CommitConditions(i)
  BY <1>1, CommitIntegrity
<1>2. CASE \A i \in Invocation : ~(Commit(i) /\ CommitConditions(i))
  BY <1>2, CommittedSame, IntegrityFrame
<1> QED BY <1>1, <1>2

-----------------------------------------------------------------------------
(* What is prepared. *)

\* What a commit does to the prepared records: it marks one, changes none.
LEMMA CommitPrepared ==
  ASSUME TypeOK, Fence, NEW i \in Invocation, Commit(i), CommitConditions(i)
  PROVE  \A c \in Cycle : /\ prepared'[c] = None <=> prepared[c] = None
                          /\ prepared'[c].content = prepared[c].content
<1> DEFINE t == Target(i)
<1>1. /\ prepared' = [prepared EXCEPT ![t].committed = TRUE]
      /\ t \in Cycle
  BY CommitHead DEF CommitWrites
<1>2. prepared[t] \in Prepared
  BY <1>1 DEF TypeOK, CommitConditions
<1> HIDE DEF t
<1>3. \A c \in Cycle \ {t} : prepared'[c] = prepared[c]
  BY <1>1 DEF TypeOK
<1>4. prepared'[t] = [prepared[t] EXCEPT !.committed = TRUE]
  BY <1>1 DEF TypeOK
<1>5. /\ prepared'[t].content = prepared[t].content
      /\ prepared'[t] \in Prepared
  BY <1>2, <1>4 DEF Prepared
<1>6. prepared'[t] # None /\ prepared[t] # None
  BY <1>2, <1>5, NobodyAssumption
<1> QED BY <1>3, <1>5, <1>6

\* Whatever else happens, the only other way into prepared is StorePut.
LEMMA PreparedSame ==
  ASSUME TypeOK, [Next]_vars,
         \A i \in Invocation : ~(Commit(i) /\ CommitConditions(i)),
         \A i \in Invocation : ~StorePut(i)
  PROVE  prepared' = prepared
<1> DEFINE P == prepared' = prepared
<1>1. \A i \in Invocation, n \in Named \cup {None} : Check(i, n) => P
  BY DEF Check, store
<1>2. \A i \in Invocation : Begin(i) => P
  BY DEF Begin, store
<1>3. \A i \in Invocation : Acquire(i) => P
  BY DEF Acquire
<1>4. \A i \in Invocation : LookForPrepared(i) => P
  BY DEF LookForPrepared, store
<1>5. \A i \in Invocation : ReadArmStates(i) => P
  BY DEF ReadArmStates, store
<1>6. \A i \in Invocation : Stage(i) => P
  BY DEF Stage, store
<1>7. \A i \in Invocation : StageFails(i) => P
  BY DEF StageFails, store
<1>8. \A i \in Invocation : StoreLook(i) => P
  BY DEF StoreLook, store
<1>9. \A i \in Invocation : StorePut(i) => P
  OBVIOUS
<1>10. \A i \in Invocation : Commit(i) => P
  BY DEF Commit, store
<1>11. \A i \in Invocation : Release(i) => P
  BY DEF Release
<1>12. \A i \in Invocation : Crash(i) => P
  BY DEF Crash
<1>13. DeadLeaseExpires => P
  BY DEF DeadLeaseExpires
<1>14. LiveLeaseExpires => P
  BY DEF LiveLeaseExpires
<1>15. \A p \in BOOLEAN : SetPaused(p) => P
  BY DEF SetPaused
<1>16. UNCHANGED vars => P
  BY DEF vars
<1> HIDE DEF P
<1>17. P
  BY <1>1, <1>2, <1>3, <1>4, <1>5, <1>6, <1>7, <1>8, <1>9, <1>10, <1>11,
     <1>12, <1>13, <1>14, <1>15, <1>16, NextCases
<1> QED BY <1>17 DEF P

\* A write either is refused or puts the offer there, and nothing else.
LEMMA PutWrites ==
  ASSUME TypeOK, Fence, OffersSound, NEW i \in Invocation, StorePut(i)
  PROVE  /\ Target(i) \in Cycle /\ Target(i) <= head.cycle + 1
         /\ offer[i] # None /\ Staged(offer[i], Target(i))
         /\ UNCHANGED <<head, snapshots, armState, offer, seen, read>>
         /\ \A c \in Cycle \ {Target(i)} : prepared'[c] = prepared[c]
         /\ \/ prepared'[Target(i)] = prepared[Target(i)] /\ pc'[i] = "lost"
            \/ /\ prepared'[Target(i)] # None
               /\ prepared'[Target(i)].content = offer[i]
               /\ pc'[i] = "committing"
         /\ \A j \in Invocation \ {i} : pc'[j] = pc[j]
<1>1. pc[i] = "putting" /\ UNCHANGED <<head, snapshots, armState, offer, seen, read>>
  BY DEF StorePut
<1>2. offer[i] # None /\ Staged(offer[i], Target(i))
  BY <1>1 DEF OffersSound, OfferSound
<1>3. Target(i) \in Cycle
  BY <1>1, TargetType DEF Working, Stages
<1>4. Target(i) <= head.cycle + 1
  <2>1. seen[i].cycle <= head.cycle
    BY <1>1 DEF Fence, Working, Stages
  <2>2. seen[i].cycle \in Nat /\ head.cycle \in Nat
    BY DEF TypeOK, Head
  <2> QED BY <2>1, <2>2 DEF Target
<1>5. \A j \in Invocation \ {i} : pc'[j] = pc[j]
  BY DEF StorePut, Goto, TypeOK
<1>6. CASE PutRefused(i)
  <2>1. prepared' = prepared /\ pc'[i] = "lost"
    BY <1>6 DEF StorePut, Goto, TypeOK
  <2> QED BY <1>1, <1>2, <1>3, <1>4, <1>5, <2>1
<1>7. CASE ~PutRefused(i)
  <2>1. /\ prepared' = [prepared EXCEPT ![Target(i)] =
                          [content |-> offer[i], committed |-> FALSE]]
        /\ pc'[i] = "committing"
    BY <1>7 DEF StorePut, Goto, TypeOK
  <2>2. offer[i] \in Content
    BY <1>2 DEF TypeOK
  <2>3. [content |-> offer[i], committed |-> FALSE] \in Prepared
    BY <2>2 DEF Prepared
  <2>4. prepared'[Target(i)] = [content |-> offer[i], committed |-> FALSE]
    BY <1>3, <2>1 DEF TypeOK
  <2>5. /\ prepared'[Target(i)] # None
        /\ prepared'[Target(i)].content = offer[i]
    <3>1. prepared'[Target(i)] # None
      BY <2>3, <2>4, NobodyAssumption
    <3>2. prepared'[Target(i)].content = offer[i]
      BY <2>4
    <3> QED BY <3>1, <3>2
  <2>6. \A c \in Cycle \ {Target(i)} : prepared'[c] = prepared[c]
    BY <2>1 DEF TypeOK
  <2> QED BY <1>1, <1>2, <1>3, <1>4, <1>5, <2>1, <2>5, <2>6
<1> QED BY <1>6, <1>7

LEMMA NextPrepared ==
  TypeOK /\ Fence /\ CycleIntegrity /\ PreparedSound /\ OffersSound /\ [Next]_vars
    => PreparedSound'
<1> SUFFICES ASSUME TypeOK, Fence, CycleIntegrity, PreparedSound, OffersSound,
                    [Next]_vars
             PROVE  PreparedSound'
    OBVIOUS
<1>1. CASE \E i \in Invocation : Commit(i) /\ CommitConditions(i)
  <2>1. PICK i \in Invocation : Commit(i) /\ CommitConditions(i)
    BY <1>1
  <2>2. head'.cycle = Target(i) /\ Target(i) = head.cycle + 1 /\ head.cycle \in Nat
    BY <2>1, CommitHead DEF TypeOK, Head
  <2> SUFFICES ASSUME NEW c \in Cycle
               PROVE  /\ prepared'[c] # None =>
                           c <= head'.cycle + 1 /\ Staged(prepared[c].content, c)'
                      /\ c <= head'.cycle => prepared'[c] # None
      BY DEF PreparedSound
  <2>3. /\ prepared'[c] = None <=> prepared[c] = None
        /\ prepared'[c].content = prepared[c].content
    BY <2>1, CommitPrepared
  <2>4. c \in Nat \ {0}
    BY ConstantsAssumption
  <2>5. ASSUME prepared[c] # None PROVE Staged(prepared[c].content, c)'
    <3>1. c - 1 \in 0 .. head.cycle /\ Staged(prepared[c].content, c)
      BY <2>2, <2>4, <2>5 DEF PreparedSound
    <3>2. StateAt(c - 1)' = StateAt(c - 1)
      BY <2>1, <3>1, StateAtCommit
    <3> QED BY <2>3, <3>1, <3>2 DEF Staged
  <2>6. prepared[c] # None => c <= head.cycle + 1
    BY DEF PreparedSound
  <2>7. c <= head'.cycle => prepared[c] # None
    <3>1. CASE c <= head.cycle
      BY <3>1 DEF PreparedSound
    <3>2. CASE c = Target(i)
      BY <2>1, <3>2 DEF CommitConditions
    <3> QED BY <2>2, <2>4, <3>1, <3>2
  <2> QED BY <2>2, <2>3, <2>4, <2>5, <2>6, <2>7
<1>2. CASE \E i \in Invocation : StorePut(i)
  <2>1. PICK i \in Invocation : StorePut(i)
    BY <1>2
  <2>2. UNCHANGED <<head, snapshots>>
    BY <2>1, PutWrites
  <2> SUFFICES ASSUME NEW c \in Cycle
               PROVE  /\ prepared'[c] # None =>
                           c <= head'.cycle + 1 /\ Staged(prepared[c].content, c)'
                      /\ c <= head'.cycle => prepared'[c] # None
      BY DEF PreparedSound
  <2>3. StateAt(c - 1)' = StateAt(c - 1)
    BY <2>2, StateAtFrame
  <2>4. CASE prepared'[c] = prepared[c]
    BY <2>2, <2>3, <2>4 DEF PreparedSound, Staged
  <2>5. CASE c = Target(i) /\ prepared'[c] # None /\ prepared'[c].content = offer[i]
    <3>1. c <= head'.cycle + 1 /\ Staged(offer[i], c)
      BY <2>1, <2>2, <2>5, PutWrites
    <3> QED BY <2>3, <2>5, <3>1 DEF Staged
  <2> QED BY <2>1, <2>4, <2>5, PutWrites
<1>3. CASE /\ \A i \in Invocation : ~(Commit(i) /\ CommitConditions(i))
           /\ \A i \in Invocation : ~StorePut(i)
  <2>1. /\ head'.cycle = head.cycle /\ prepared' = prepared
        /\ snapshots' = snapshots
    BY <1>3, CommittedSame, PreparedSame
  <2>2. \A c \in Cycle : StateAt(c - 1)' = StateAt(c - 1)
    BY <2>1, StateAtFrame
  <2> QED BY <2>1, <2>2 DEF PreparedSound, Staged
<1> QED BY <1>1, <1>2, <1>3

-----------------------------------------------------------------------------
(* What every step preserves of the records, and of the other invocations. *)

LEMMA RecordsGrow ==
  ASSUME TypeOK, Fence, CycleIntegrity, PreparedSound, OffersSound, [Next]_vars
  PROVE  /\ head'.cycle \in {head.cycle, head.cycle + 1}
         /\ \A c \in 0 .. head.cycle : StateAt(c)' = StateAt(c)
         /\ \A c \in Cycle : snapshots[c] # None => snapshots'[c] = snapshots[c]
         /\ \A c \in Cycle : prepared[c] # None => prepared'[c] # None
         /\ \/ armState' = armState /\ head'.cycle = head.cycle
            \/ /\ head.cycle + 1 \in Cycle /\ prepared[head.cycle + 1] # None
               /\ head'.cycle = head.cycle + 1 /\ ~head.paused
<1>1. CASE \E i \in Invocation : Commit(i) /\ CommitConditions(i)
  <2>1. PICK i \in Invocation : Commit(i) /\ CommitConditions(i)
    BY <1>1
  <2>2. /\ Target(i) = head.cycle + 1 /\ Target(i) \in Cycle
        /\ head'.cycle = Target(i) /\ ~head.paused
    BY <2>1, CommitHead
  <2>3. \A c \in Cycle : prepared[c] # None => prepared'[c] # None
    BY <2>1, CommitPrepared
  <2>4. snapshots[Target(i)] = None /\ prepared[Target(i)] # None
    BY <2>1 DEF CommitConditions
  <2>5. \A c \in Cycle : snapshots[c] # None => snapshots'[c] = snapshots[c]
    BY <2>1, <2>4, StateAtCommit
  <2>6. \A c \in 0 .. head.cycle : StateAt(c)' = StateAt(c)
    BY <2>1, StateAtCommit
  <2> QED BY <2>2, <2>3, <2>4, <2>5, <2>6
<1>2. CASE \A i \in Invocation : ~(Commit(i) /\ CommitConditions(i))
  <2>1. UNCHANGED <<head.cycle, snapshots, armState>>
    BY <1>2, CommittedSame
  <2>2. \A c \in Cycle : prepared[c] # None => prepared'[c] # None
    <3>1. CASE \E i \in Invocation : StorePut(i)
      <4>1. PICK i \in Invocation : StorePut(i)
        BY <3>1
      <4> QED BY <4>1, PutWrites
    <3>2. CASE \A i \in Invocation : ~StorePut(i)
      BY <1>2, <3>2, PreparedSame
    <3> QED BY <3>1, <3>2
  <2>3. \A c : StateAt(c)' = StateAt(c)
    BY <2>1, StateAtFrame
  <2> QED BY <2>1, <2>2, <2>3
<1> QED BY <1>1, <1>2

\* A step is one invocation's, or the environment's.
Moves(i) == \/ \E n \in Named \cup {None} : Check(i, n)
            \/ Step(i) \/ StageFails(i) \/ Crash(i)

Still(i) == /\ pc'[i] = pc[i] /\ seen'[i] = seen[i]
            /\ read'[i] = read[i] /\ offer'[i] = offer[i]

LEMMA StillOrMoves ==
  ASSUME TypeOK, [Next]_vars, NEW j \in Invocation
  PROVE  Still(j) \/ Moves(j)
<1>1. ASSUME NEW i \in Invocation, i # j, Forget(i), UNCHANGED seen PROVE Still(j)
  BY <1>1, ForgetMoves DEF Still
<1>2. ASSUME NEW i \in Invocation, i # j, NEW s, Goto(i, s), seen'[j] = seen[j],
             read'[j] = read[j], offer'[j] = offer[j] PROVE Still(j)
  BY <1>2, GotoMoves DEF Still
<1>3. ASSUME NEW i \in Invocation, i # j,
             NEW n \in Named \cup {None}, Check(i, n) PROVE Still(j)
  BY <1>2, <1>3 DEF Check, Still
<1>4. ASSUME NEW i \in Invocation, i # j, Begin(i) PROVE Still(j)
  <2>1. CASE Forget(i) /\ UNCHANGED seen
    BY <1>1, <1>4, <2>1
  <2>2. CASE /\ seen' = [seen EXCEPT ![i] = head] /\ Goto(i, "begun")
             /\ UNCHANGED <<named, read, offer>>
    BY <1>2, <1>4, <2>2 DEF TypeOK
  <2> QED BY <1>4, <2>1, <2>2 DEF Begin
<1>5. ASSUME NEW i \in Invocation, i # j, Acquire(i) PROVE Still(j)
  BY <1>1, <1>2, <1>5 DEF Acquire
<1>6. ASSUME NEW i \in Invocation, i # j, LookForPrepared(i) PROVE Still(j)
  <2>1. \/ Goto(i, "committing") \/ Goto(i, "reading")
    BY <1>6 DEF LookForPrepared
  <2>2. offer'[j] = offer[j] /\ UNCHANGED <<seen, read>>
    BY <1>6 DEF LookForPrepared, TypeOK
  <2> QED BY <1>2, <1>6, <2>1, <2>2
<1>7. ASSUME NEW i \in Invocation, i # j, ReadArmStates(i) PROVE Still(j)
  BY <1>7 DEF ReadArmStates, Still, TypeOK
<1>8. ASSUME NEW i \in Invocation, i # j, Stage(i) PROVE Still(j)
  <2>1. offer'[j] = offer[j] /\ UNCHANGED <<seen, read>> /\ Goto(i, "storing")
    BY <1>8 DEF Stage, AllArmsRead, TypeOK
  <2> QED BY <1>2, <1>8, <2>1
<1>9. ASSUME NEW i \in Invocation, i # j, StageFails(i) PROVE Still(j)
  BY <1>2, <1>9 DEF StageFails
<1>10. ASSUME NEW i \in Invocation, i # j, StoreLook(i) PROVE Still(j)
  BY <1>2, <1>10 DEF StoreLook
<1>11. ASSUME NEW i \in Invocation, i # j, StorePut(i) PROVE Still(j)
  BY <1>2, <1>11 DEF StorePut
<1>12. ASSUME NEW i \in Invocation, i # j, Commit(i) PROVE Still(j)
  BY <1>2, <1>12 DEF Commit
<1>13. ASSUME NEW i \in Invocation, i # j, Release(i) PROVE Still(j)
  BY <1>1, <1>13 DEF Release
<1>14. ASSUME NEW i \in Invocation, i # j, Crash(i) PROVE Still(j)
  BY <1>1, <1>14 DEF Crash
<1>15. ASSUME UNCHANGED local PROVE Still(j)
  BY <1>15 DEF local, Still
<1>16. \A i \in Invocation \ {j} : Moves(i) => Still(j)
  BY <1>3, <1>4, <1>5, <1>6, <1>7, <1>8, <1>9, <1>10, <1>11, <1>12, <1>13, <1>14
     DEF Moves, Step
<1>17. \/ \E i \in Invocation : Moves(i)
       \/ UNCHANGED local
  BY DEF Next, Moves, DeadLeaseExpires, LiveLeaseExpires, SetPaused, vars, local
<1> QED BY <1>15, <1>16, <1>17

-----------------------------------------------------------------------------
(* The reads, the offers and the outcome of each invocation. *)

\* As long as nothing is prepared for a cycle, no step can move the arms
\* away from where an invocation working on that cycle reads them.
LEMMA UnpreparedIsCurrent ==
  ASSUME TypeOK, Fence, CycleIntegrity, PreparedSound, OffersSound, [Next]_vars,
         NEW j \in Invocation, pc[j] \in Working, prepared'[Target(j)] = None
  PROVE  prepared[Target(j)] = None /\ armState' = armState
<1>1. Target(j) \in Cycle /\ Target(j) = seen[j].cycle + 1
  BY TargetType DEF Target
<1>2. prepared[Target(j)] = None
  BY <1>1, RecordsGrow
<1>3. ~(Target(j) <= head.cycle)
  BY <1>1, <1>2 DEF PreparedSound
<1>4. seen[j].cycle <= head.cycle /\ seen[j].cycle \in Nat /\ head.cycle \in Nat
  BY DEF Fence, TypeOK, Head
<1>5. Target(j) = head.cycle + 1
  BY <1>1, <1>3, <1>4
<1> QED BY <1>2, <1>5, RecordsGrow

\* An invocation with nothing read, or past reading, has no read to be wrong.
LEMMA ReadTrivially ==
  ASSUME NEW j \in Invocation,
         \/ read'[j] = Blank
         \/ pc'[j] \in {"storing", "putting", "committing", "won", "lost"}
  PROVE  ReadSound(j)'
BY DEF ReadSound, Blank

LEMMA NextReads ==
  /\ TypeOK /\ Fence /\ CycleIntegrity /\ PreparedSound /\ ReadsSound /\ OffersSound
  /\ [Next]_vars
  => ReadsSound'
<1> SUFFICES ASSUME TypeOK, Fence, CycleIntegrity, PreparedSound, ReadsSound,
                    OffersSound, [Next]_vars, NEW j \in Invocation
             PROVE  ReadSound(j)'
    BY DEF ReadsSound
<1>0. ReadSound(j)
  BY DEF ReadsSound
<1>1. ASSUME Still(j) PROVE ReadSound(j)'
  <2>1. Target(j)' = Target(j)
    BY <1>1 DEF Still, Target
  <2>2. CASE pc[j] = "reading"
    <3>1. prepared'[Target(j)] = None =>
            prepared[Target(j)] = None /\ armState' = armState
      BY <2>2, UnpreparedIsCurrent DEF Working, Stages
    <3> QED BY <1>0, <1>1, <2>1, <2>2, <3>1 DEF ReadSound, Still
  <2>3. CASE pc[j] # "reading"
    BY <1>0, <1>1, <2>3 DEF ReadSound, Still
  <2> QED BY <2>2, <2>3
<1>2. ASSUME pc[j] \in {"idle", "checked", "begun", "locked"}, read'[j] = read[j]
      PROVE  ReadSound(j)'
  BY <1>0, <1>2, ReadTrivially DEF ReadSound
<1>3. ASSUME NEW n \in Named \cup {None}, Check(j, n) PROVE ReadSound(j)'
  BY <1>2, <1>3 DEF Check
<1>4. ASSUME Begin(j) PROVE ReadSound(j)'
  BY <1>2, <1>4, ForgetMoves, ReadTrivially DEF Begin
<1>5. ASSUME Acquire(j) PROVE ReadSound(j)'
  BY <1>2, <1>5, ForgetMoves, ReadTrivially DEF Acquire
<1>6. ASSUME LookForPrepared(j) PROVE ReadSound(j)'
  BY <1>2, <1>6 DEF LookForPrepared
<1>7. ASSUME ReadArmStates(j) PROVE ReadSound(j)'
  <2>1. /\ pc[j] = "reading" /\ pc'[j] = pc[j]
        /\ prepared' = prepared /\ armState' = armState /\ Target(j)' = Target(j)
    BY <1>7 DEF ReadArmStates, store, Target
  <2>2. \A a \in Arm : read'[j][a] \in {read[j][a], armState[a]}
    <3>1. CASE \E a \in Arm : read' = [read EXCEPT ![j][a] = armState[a]]
      BY <3>1 DEF TypeOK
    <3>2. CASE read' = [read EXCEPT ![j] = armState]
      BY <3>2 DEF TypeOK
    <3> QED BY <1>7, <3>1, <3>2 DEF ReadArmStates
  <2> QED BY <1>0, <2>1, <2>2 DEF ReadSound
<1>8. ASSUME Stage(j) PROVE ReadSound(j)'
  BY <1>8, GotoMoves, ReadTrivially DEF Stage
<1>9. ASSUME StageFails(j) PROVE ReadSound(j)'
  BY <1>9, GotoMoves, ReadTrivially DEF StageFails
<1>10. ASSUME StoreLook(j) PROVE ReadSound(j)'
  <2>1. Goto(j, "putting") \/ Goto(j, "committing") \/ Goto(j, "lost")
    BY <1>10 DEF StoreLook
  <2> QED BY <2>1, GotoMoves, ReadTrivially
<1>11. ASSUME StorePut(j) PROVE ReadSound(j)'
  BY <1>11, GotoMoves, ReadTrivially DEF StorePut
<1>12. ASSUME Commit(j) PROVE ReadSound(j)'
  BY <1>12, GotoMoves, ReadTrivially DEF Commit
<1>13. ASSUME Release(j) PROVE ReadSound(j)'
  BY <1>13, ForgetMoves, ReadTrivially DEF Release
<1>14. ASSUME Crash(j) PROVE ReadSound(j)'
  BY <1>14, ForgetMoves, ReadTrivially DEF Crash
<1> QED
  BY <1>1, <1>3, <1>4, <1>5, <1>6, <1>7, <1>8, <1>9, <1>10, <1>11, <1>12,
     <1>13, <1>14, StillOrMoves DEF Moves, Step

\* What one invocation's staging rests on, and what it believes it committed.
OutcomeSound(j) == pc[j] = "won" => snapshots[Target(j)] = offer[j]

LEMMA NextOffers ==
  IInv /\ [Next]_vars => OffersSound' /\ OutcomeIsCommitted'
<1> SUFFICES ASSUME TypeOK, Fence, CycleIntegrity, PreparedSound, ReadsSound,
                    OffersSound, OutcomeIsCommitted, [Next]_vars,
                    NEW j \in Invocation
             PROVE  OfferSound(j)' /\ OutcomeSound(j)'
    BY DEF OffersSound, OutcomeIsCommitted, OutcomeSound, IInv
<1>0. OfferSound(j) /\ OutcomeSound(j) /\ ReadSound(j)
  BY DEF OffersSound, OutcomeIsCommitted, OutcomeSound, ReadsSound
<1>a. ASSUME pc'[j] \in {"idle", "checked", "begun", "locked", "reading",
                         "committing", "lost"}
      PROVE  OfferSound(j)' /\ OutcomeSound(j)'
  BY <1>a DEF OfferSound, OutcomeSound
\* A staging that was sound stays so: the state it follows is committed.
<1>b. ASSUME pc[j] \in Working, Staged(offer[j], Target(j)),
             offer'[j] = offer[j], seen'[j] = seen[j]
      PROVE  Staged(offer[j], Target(j))'
  <2>1. Target(j)' = Target(j)
    BY <1>b DEF Target
  <2>2. Target(j) - 1 = seen[j].cycle /\ seen[j].cycle \in 0 .. head.cycle
    BY <1>b, TargetType DEF Fence, TypeOK, Head
  <2>3. StateAt(Target(j) - 1)' = StateAt(Target(j) - 1)
    <3>1. \A c \in 0 .. head.cycle : StateAt(c)' = StateAt(c)
      BY RecordsGrow
    <3>2. StateAt(seen[j].cycle)' = StateAt(seen[j].cycle)
      BY <2>2, <3>1, <1>b DEF StateAt
    <3> QED BY <2>1, <2>2, <3>2, <1>b DEF StateAt
  <2> QED BY <1>b, <2>1, <2>3 DEF Staged
<1>1. ASSUME Still(j) PROVE OfferSound(j)' /\ OutcomeSound(j)'
  <2>1. Target(j)' = Target(j)
    BY <1>1 DEF Still, Target
  <2>2. CASE pc[j] = "storing"
    <3>1. prepared'[Target(j)] = None => Staged(offer[j], Target(j))'
      BY <1>0, <1>1, <1>b, <2>2, UnpreparedIsCurrent
         DEF Still, OfferSound, Working, Stages
    <3> QED BY <1>0, <1>1, <2>1, <2>2, <3>1 DEF OfferSound, OutcomeSound, Still
  <2>3. CASE pc[j] = "putting"
    <3>1. Staged(offer[j], Target(j))' /\ offer[j] # None
      BY <1>0, <1>1, <1>b, <2>3 DEF Still, OfferSound, Working, Stages
    <3> QED BY <1>1, <2>3, <3>1 DEF OfferSound, OutcomeSound, Still
  <2>4. CASE pc[j] = "won"
    <3>1. Target(j) <= head.cycle /\ Target(j) \in Cycle
      BY <1>0, <2>4, TargetType DEF OfferSound, Working, Stages
    <3>2. snapshots'[Target(j)] = snapshots[Target(j)]
      BY <3>1, RecordsGrow DEF CycleIntegrity, HistoryComplete
    <3>3. Target(j) <= head'.cycle
      BY <3>1, RecordsGrow DEF TypeOK, Head
    <3> QED BY <1>0, <1>1, <2>1, <2>4, <3>2, <3>3
            DEF OfferSound, OutcomeSound, Still
  <2> QED BY <1>a, <1>1, <2>2, <2>3, <2>4 DEF Still, TypeOK, Stages
<1>2. ASSUME NEW n \in Named \cup {None}, Check(j, n)
      PROVE  OfferSound(j)' /\ OutcomeSound(j)'
  BY <1>2, <1>a, GotoMoves DEF Check
<1>3. ASSUME Begin(j) PROVE OfferSound(j)' /\ OutcomeSound(j)'
  BY <1>3, <1>a, GotoMoves, ForgetMoves DEF Begin
<1>4. ASSUME Acquire(j) PROVE OfferSound(j)' /\ OutcomeSound(j)'
  BY <1>4, <1>a, GotoMoves, ForgetMoves DEF Acquire
<1>5. ASSUME LookForPrepared(j) PROVE OfferSound(j)' /\ OutcomeSound(j)'
  BY <1>5, <1>a, GotoMoves DEF LookForPrepared
<1>6. ASSUME ReadArmStates(j) PROVE OfferSound(j)' /\ OutcomeSound(j)'
  BY <1>6, <1>a DEF ReadArmStates
<1>7. ASSUME Stage(j) PROVE OfferSound(j)' /\ OutcomeSound(j)'
  <2>1. /\ pc[j] = "reading" /\ pc'[j] = "storing"
        /\ offer'[j] = StagedFrom(j) /\ Target(j)' = Target(j)
        /\ UNCHANGED <<head, prepared, snapshots, armState>>
    BY <1>7, GotoMoves DEF Stage, store, TypeOK, Target
  <2>2. /\ StagedFrom(j).before = read[j]
        /\ Together(StagedFrom(j), Target(j))
    BY DEF StagedFrom, Together
  <2>3. StagedFrom(j) # None
    <3>1. TypeOK'
      BY NextType
    <3>2. read[j] \in [Arm -> State]
      BY <1>7 DEF Stage, AllArmsRead, TypeOK
    <3>3. Target(j) \in 0 .. MaxCycle
      BY <2>1, TargetType, ConstantsAssumption DEF Working, Stages
    <3>4. StagedFrom(j) \in Content
      BY <3>2, <3>3 DEF StagedFrom, Content, State
    <3> QED BY <3>4, NobodyAssumption
  <2>4. ASSUME prepared[Target(j)] = None PROVE StagedFrom(j).before = StateAt(Target(j) - 1)
    <3>1. \A a \in Arm : read[j][a] = armState[a]
      BY <1>0, <1>7, <2>1, <2>4 DEF ReadSound, Stage, AllArmsRead
    <3>2. read[j] = armState
      BY <1>7, <3>1 DEF TypeOK
    <3>3. Target(j) - 1 = head.cycle
      <4>1. Target(j) - 1 = seen[j].cycle /\ Target(j) \in Cycle
        BY <2>1, TargetType DEF Working, Stages
      <4>2. ~(Target(j) <= head.cycle)
        BY <2>4, <4>1 DEF PreparedSound
      <4>3. seen[j].cycle <= head.cycle /\ head.cycle \in Nat /\ seen[j].cycle \in Nat
        <5>1. seen[j].cycle <= head.cycle
          BY <2>1 DEF Fence, Working, Stages
        <5>2. head.cycle \in Nat /\ seen[j].cycle \in Nat
          BY DEF TypeOK, Head
        <5> QED BY <5>1, <5>2
      <4> QED BY <4>1, <4>2, <4>3, ConstantsAssumption DEF Target
    <3> QED BY <2>2, <3>2, <3>3 DEF CycleIntegrity, ArmsTogether
  <2>5. \A c : StateAt(c)' = StateAt(c)
    BY <2>1, StateAtFrame
  <2>6. prepared[Target(j)] = None => Staged(StagedFrom(j), Target(j))
    BY <2>2, <2>4 DEF Staged
  <2>7. prepared[Target(j)] = None => Staged(offer[j], Target(j))'
    BY <2>1, <2>5, <2>6 DEF Staged, StateAt
  <2> QED BY <2>1, <2>2, <2>3, <2>7 DEF OfferSound, OutcomeSound
<1>8. ASSUME StageFails(j) PROVE OfferSound(j)' /\ OutcomeSound(j)'
  BY <1>8, <1>a, GotoMoves DEF StageFails
<1>9. ASSUME StoreLook(j) PROVE OfferSound(j)' /\ OutcomeSound(j)'
  <2>1. pc[j] = "storing" /\ UNCHANGED <<prepared, offer, seen>>
    BY <1>9 DEF StoreLook, store
  <2>2. CASE prepared[Target(j)] = None
    <3>1. pc'[j] = "putting"
      BY <1>9, <2>2, GotoMoves DEF StoreLook
    <3>2. Staged(offer[j], Target(j))' /\ offer[j] # None
      BY <1>0, <1>b, <2>1, <2>2 DEF OfferSound, Working, Stages
    <3> QED BY <2>1, <3>1, <3>2 DEF OfferSound, OutcomeSound
  <2>3. CASE prepared[Target(j)] # None
    <3>1. Goto(j, "committing") \/ Goto(j, "lost")
      BY <1>9, <2>3 DEF StoreLook
    <3> QED BY <3>1, <1>a, GotoMoves
  <2> QED BY <2>2, <2>3
<1>10. ASSUME StorePut(j) PROVE OfferSound(j)' /\ OutcomeSound(j)'
  BY <1>10, <1>a, GotoMoves DEF StorePut
<1>11. ASSUME Commit(j) PROVE OfferSound(j)' /\ OutcomeSound(j)'
  <2>1. CASE CommitConditions(j)
    <3>1. /\ head'.cycle = Target(j) /\ pc'[j] = "won"
          /\ UNCHANGED <<seen, offer>> /\ head'.cycle \in Nat
      BY <1>11, <2>1, CommitHead, ConstantsAssumption
    <3>2. snapshots'[Target(j)] = offer[j]
      BY <1>11, <2>1, StateAtCommit DEF CommitConditions
    <3> QED BY <3>1, <3>2 DEF OfferSound, OutcomeSound, Target
  <2>2. CASE ~CommitConditions(j)
    BY <1>11, <2>2, <1>a, GotoMoves DEF Commit
  <2> QED BY <2>1, <2>2
<1>12. ASSUME Release(j) PROVE OfferSound(j)' /\ OutcomeSound(j)'
  BY <1>12, <1>a, ForgetMoves DEF Release
<1>13. ASSUME Crash(j) PROVE OfferSound(j)' /\ OutcomeSound(j)'
  BY <1>13, <1>a, ForgetMoves DEF Crash
<1> QED
  BY <1>1, <1>2, <1>3, <1>4, <1>5, <1>6, <1>7, <1>8, <1>9, <1>10, <1>11,
     <1>12, <1>13, StillOrMoves DEF Moves, Step

-----------------------------------------------------------------------------
(* The theorems. *)

LEMMA InitInvariant == Init => IInv
<1> SUFFICES ASSUME Init PROVE IInv
    OBVIOUS
<1>1. TypeOK
  BY InitType
<1>2. head.cycle = 0 /\ \A i \in Invocation : pc[i] = "idle" /\ read[i] = Blank
  BY DEF Init
<1>3. CycleIntegrity
  BY <1>2, ConstantsAssumption
     DEF Init, CycleIntegrity, ArmsTogether, HistoryComplete, Chained, StateAt
<1>4. Fence
  BY <1>2 DEF Fence, Working
<1>5. PreparedSound
  BY <1>2, ConstantsAssumption DEF Init, PreparedSound
<1>6. ReadsSound /\ OffersSound /\ OutcomeIsCommitted
  BY <1>2 DEF ReadsSound, ReadSound, OffersSound, OfferSound, OutcomeIsCommitted
<1> QED BY <1>1, <1>3, <1>4, <1>5, <1>6 DEF IInv

LEMMA NextInvariant == IInv /\ [Next]_vars => IInv'
BY NextType, NextFence, NextIntegrity, NextPrepared, NextReads, NextOffers DEF IInv

\* The inductive invariant: the fence around the head an invocation read,
\* and the soundness of whatever is prepared, read, staged or won.
THEOREM Invariance == Spec => []IInv
<1>1. Init => IInv
  BY InitInvariant
<1>2. IInv /\ [Next]_vars => IInv'
  BY NextInvariant
<1> QED BY <1>1, <1>2, PTL DEF Spec

\* Every variable keeps its type.
THEOREM TypeCorrect == Spec => []TypeOK
<1>1. IInv => TypeOK
  BY DEF IInv
<1> QED BY <1>1, Invariance, PTL

\* Whatever the interleaving of run_next_cycle calls, torn reads, crashes,
\* expired leases and pauses, the arms are where the last committed cycle
\* left them and every committed cycle starts where the one before it ended.
THEOREM Integrity == Spec => []CycleIntegrity
<1>1. IInv => CycleIntegrity
  BY DEF IInv
<1> QED BY <1>1, Invariance, PTL

\* A prepared cycle that PilotService._prepare finds may be committed as is.
THEOREM Reusable == Spec => []ReusableStaging
<1>1. IInv => ReusableStaging
  BY DEF IInv, PreparedSound, Staged, ReusableStaging
<1> QED BY <1>1, Invariance, PTL

\* The outcome run_next_cycle returns, and the event _publish sends, carry
\* the content the store committed.
THEOREM Outcome == Spec => []OutcomeIsCommitted
<1>1. IInv => OutcomeIsCommitted
  BY DEF IInv
<1> QED BY <1>1, Invariance, PTL

\* commit_cycle never rewrites a committed cycle, skips one or goes back.
THEOREM Immutable == Spec => HistoryImmutable
<1>1. IInv /\ [Next]_vars =>
        [/\ \A c \in Cycle : snapshots[c] # None => snapshots'[c] = snapshots[c]
         /\ head'.cycle \in {head.cycle, head.cycle + 1}]_vars
  BY RecordsGrow DEF IInv
<1> QED BY <1>1, Invariance, PTL DEF Spec, HistoryImmutable

\* set_paused fences every invocation that was admitted before it.
THEOREM PausedStandsStill == Spec => NoAdvanceWhilePaused
<1>1. IInv /\ [Next]_vars => [head'.cycle # head.cycle => ~head.paused]_vars
  BY RecordsGrow DEF IInv
<1> QED BY <1>1, Invariance, PTL DEF Spec, NoAdvanceWhilePaused

\* The protocol implements the atomic run: every step is one cycle of all
\* the arms at once, a pause switch, or nothing a reader can see.
THEOREM Refinement == Spec => ImplementsAtomicRun
<1>1. Init => Atomic!Init
  BY DEF Init, Atomic!Init, Atomic!Seed, Seed
<1>2. IInv /\ [Next]_vars => [Atomic!Next]_(Atomic!vars)
  <2> SUFFICES ASSUME IInv, [Next]_vars
               PROVE  Atomic!Next \/ UNCHANGED Atomic!vars
      OBVIOUS
  <2>0. TypeOK /\ Fence /\ CycleIntegrity /\ PreparedSound /\ OffersSound
    BY DEF IInv
  <2>1. CASE \E i \in Invocation : Commit(i) /\ CommitConditions(i)
    <3>1. PICK i \in Invocation : Commit(i) /\ CommitConditions(i)
      BY <2>1
    <3> DEFINE t == Target(i)
               p == prepared[t].content
    <3>2. /\ t \in Cycle /\ t = head.cycle + 1 /\ head'.cycle = t
          /\ head'.paused = head.paused /\ ~head.paused
          /\ snapshots' = [snapshots EXCEPT ![t] = p] /\ armState' = p.after
      BY <2>0, <3>1, CommitHead DEF CommitWrites
    <3>3. p \in Content /\ Staged(p, t)
      BY <2>0, <3>1, <3>2 DEF TypeOK, Prepared, CommitConditions, PreparedSound
    <3>4. p.before = armState
      <4>1. t - 1 = head.cycle
        BY <2>0, <3>2 DEF TypeOK, Head
      <4> QED BY <2>0, <3>3, <4>1 DEF Staged, CycleIntegrity, ArmsTogether
    <3>5. PICK o \in Invocation :
            p.after = [a \in Arm |-> [cycle |-> head.cycle + 1, by |-> o]]
      BY <3>2, <3>3 DEF Staged, Together
    <3>6. p = [before |-> armState, after |-> armState']
      BY <3>2, <3>3, <3>4 DEF Content
    <3>7. head.cycle < MaxCycle
      BY <2>0, <3>2, ConstantsAssumption DEF TypeOK, Head
    <3> HIDE DEF t, p
    <3> QED BY <3>2, <3>5, <3>6, <3>7 DEF Atomic!Next, Atomic!Advance
  <2>2. CASE \A i \in Invocation : ~(Commit(i) /\ CommitConditions(i))
    <3>1. UNCHANGED <<head.cycle, snapshots, armState>>
      BY <2>0, <2>2, CommittedSame
    <3>2. head'.paused \in BOOLEAN
      BY <2>0, NextType DEF TypeOK, Head
    <3> QED BY <3>1, <3>2 DEF Atomic!Next, Atomic!SetPaused
  <2> QED BY <2>1, <2>2
<1> QED BY <1>1, <1>2, Invariance, PTL DEF Spec, ImplementsAtomicRun, Atomic!Spec

\* With SQLite, whose insert is refused when a record has appeared since the
\* look, the prepared record of a committed cycle stays what was committed.
\* (With DynamoDB it does not: module MCCycleCommit shows how.)
LEMMA NextPreparedIsCommitted ==
  ASSUME Backend = "sqlite", IInv, PreparedIsCommitted, [Next]_vars
  PROVE  PreparedIsCommitted'
<1>0. /\ TypeOK /\ Fence /\ CycleIntegrity /\ PreparedSound /\ OffersSound
      /\ head.cycle \in 0 .. MaxCycle
  BY DEF IInv, TypeOK, Head
<1>1. CASE \E i \in Invocation : Commit(i) /\ CommitConditions(i)
  <2>1. PICK i \in Invocation : Commit(i) /\ CommitConditions(i)
    BY <1>1
  <2> DEFINE t == Target(i)
  <2>2. /\ t \in Cycle /\ t = head.cycle + 1 /\ head'.cycle = t
        /\ prepared' = [prepared EXCEPT ![t].committed = TRUE]
        /\ snapshots'[t] = prepared[t].content
        /\ \A c \in Cycle \ {t} : snapshots'[c] = snapshots[c]
        /\ prepared[t] \in Prepared
    <3>1. /\ t \in Cycle /\ t = head.cycle + 1 /\ head'.cycle = t /\ CommitWrites(i)
      BY <1>0, <2>1, CommitHead
    <3>2. /\ snapshots'[t] = prepared[t].content
          /\ \A c \in Cycle \ {t} : snapshots'[c] = snapshots[c]
      BY <1>0, <2>1, StateAtCommit
    <3>3. prepared[t] \in Prepared
      BY <1>0, <2>1, <3>1 DEF CommitConditions, TypeOK
    <3>4. prepared' = [prepared EXCEPT ![t].committed = TRUE]
      BY <3>1 DEF CommitWrites
    <3> QED BY <3>1, <3>2, <3>3, <3>4
  <2> HIDE DEF t
  <2>3. prepared'[t] = [content |-> snapshots'[t], committed |-> TRUE]
    <3>1. prepared'[t] = [prepared[t] EXCEPT !.committed = TRUE]
      <4>1. DOMAIN prepared = Cycle
        BY <1>0 DEF TypeOK
      <4> QED BY <2>2, <4>1
    <3> DEFINE x == prepared[t]
             y == prepared'[t]
    <3>2. x \in [content : Content, committed : BOOLEAN] /\ snapshots'[t] = x.content
      BY <2>2 DEF Prepared
    <3>3. y = [x EXCEPT !.committed = TRUE]
      BY <3>1
    <3> HIDE DEF x, y
    <3>4. y = [content |-> x.content, committed |-> TRUE]
      BY ONLY <3>2, <3>3, Zenon
    <3> QED BY ONLY <3>2, <3>4 DEF y
  <2>4. ASSUME NEW c \in 1 .. head'.cycle, c # t
        PROVE  prepared'[c] = [content |-> snapshots'[c], committed |-> TRUE]
    <3>1. c \in 1 .. head.cycle /\ c \in Cycle
      BY <1>0, <2>2, <2>4, ConstantsAssumption
    <3>2. prepared'[c] = prepared[c] /\ snapshots'[c] = snapshots[c]
      BY <1>0, <2>2, <2>4, <3>1 DEF TypeOK
    <3> QED BY <3>1, <3>2 DEF PreparedIsCommitted
  <2> QED BY <2>2, <2>3, <2>4 DEF PreparedIsCommitted
<1>2. CASE \A i \in Invocation : ~(Commit(i) /\ CommitConditions(i))
  <2>1. head'.cycle = head.cycle /\ snapshots' = snapshots
    BY <1>0, <1>2, CommittedSame
  <2>2. \A c \in 1 .. head.cycle : prepared'[c] = prepared[c]
    <3>1. CASE \E i \in Invocation : StorePut(i)
      <4>1. PICK i \in Invocation : StorePut(i)
        BY <3>1
      <4>2. CASE prepared[Target(i)] = None
        <5>1. ~(Target(i) <= head.cycle) /\ Target(i) \in Cycle
          BY <1>0, <4>1, <4>2, PutWrites DEF PreparedSound
        <5>2. \A c \in 1 .. head.cycle : c \in Cycle \ {Target(i)}
          BY <1>0, <5>1, ConstantsAssumption
        <5> QED BY <1>0, <4>1, <5>2, PutWrites
      <4>3. CASE prepared[Target(i)] # None
        BY <4>1, <4>3 DEF StorePut, PutRefused
      <4> QED BY <4>2, <4>3
    <3>2. CASE \A i \in Invocation : ~StorePut(i)
      BY <1>0, <1>2, <3>2, PreparedSame
    <3> QED BY <3>1, <3>2
  <2> QED BY <2>1, <2>2 DEF PreparedIsCommitted
<1> QED BY <1>1, <1>2

THEOREM InsertOnlyStore == Backend = "sqlite" /\ Spec => []PreparedIsCommitted
<1> SUFFICES ASSUME Backend = "sqlite" PROVE Spec => []PreparedIsCommitted
    OBVIOUS
<1>1. Init => PreparedIsCommitted
  BY DEF Init, PreparedIsCommitted
<1>2. IInv /\ PreparedIsCommitted /\ [Next]_vars => PreparedIsCommitted'
  BY NextPreparedIsCommitted
<1> QED BY <1>1, <1>2, Invariance, PTL DEF Spec
=============================================================================
