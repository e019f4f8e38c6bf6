------------------------------ MODULE AtomicRun ------------------------------
(***************************************************************************)
(* What a pilot run promises to its readers, whatever the number of        *)
(* invocations that advance it, their crashes and their retries: all arms  *)
(* take each cycle together, every cycle starts from exactly the memories  *)
(* the previous one ended with, what a cycle recorded never changes, and a *)
(* paused run stands still.                                                *)
(*                                                                         *)
(* Module CycleCommit, the lock / stage / prepare / commit protocol of     *)
(* PilotService.run_next_cycle, implements this specification.             *)
(***************************************************************************)
EXTENDS Integers

CONSTANTS
  Arm,         \* the arms of the experiment
  Origin,      \* who may have produced a memory state
  MaxCycle,    \* maximum_cycles of the run
  None         \* "nothing here"

VARIABLES
  cycle,       \* the last committed cycle
  paused,      \* whether the run is paused
  arms,        \* the current memory state of each arm
  log          \* per cycle: the states it started from and ended with

vars == <<cycle, paused, arms, log>>

\* An arm's memory, named by the cycle that left it and by who produced it.
State == [cycle : 0 .. MaxCycle, by : Origin \cup {None}]
Seed  == [cycle |-> 0, by |-> None]

Record == [before : [Arm -> State], after : [Arm -> State]]

Init ==
  /\ cycle = 0
  /\ paused = FALSE
  /\ arms = [a \in Arm |-> Seed]
  /\ log = [c \in 1 .. MaxCycle |-> None]

(* One cycle: every arm moves, from the state it is in, at once. *)
Advance ==
  /\ ~paused
  /\ cycle < MaxCycle
  /\ \E o \in Origin :
       /\ arms' = [a \in Arm |-> [cycle |-> cycle + 1, by |-> o]]
       /\ log' = [log EXCEPT ![cycle + 1] = [before |-> arms, after |-> arms']]
  /\ cycle' = cycle + 1
  /\ UNCHANGED paused

SetPaused ==
  /\ paused' \in BOOLEAN
  /\ UNCHANGED <<cycle, arms, log>>

Next == Advance \/ SetPaused

Spec == Init /\ [][Next]_vars
=============================================================================
