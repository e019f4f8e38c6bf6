----------------------------- MODULE MemoryLife -----------------------------
(***************************************************************************)
(* What an arm's memory promises whichever policy governs it: every cycle  *)
(* a new experience is born and survives it; what leaves is lost for good  *)
(* or folded into a summary born in the same cycle; every summary replaces *)
(* at least two memories; nothing comes back.                              *)
(*                                                                         *)
(* Module ArmMemory implements this specification.                         *)
(***************************************************************************)
EXTENDS Integers, FiniteSets

CONSTANT SeedCount   \* memories every arm starts with

VARIABLES
  next,      \* the next creation slot
  live,      \* the memories the arm holds
  lost,      \* the memories it evicted
  folded     \* the summary that replaced each compressed memory

vars == <<next, live, lost, folded>>

Init ==
  /\ next = SeedCount
  /\ live = 0 .. SeedCount - 1
  /\ lost = {}
  /\ folded = [m \in {} |-> 0]

(* One cycle: slot next goes to the experience, the ones after it to       *)
(* summaries.                                                              *)
Cycle ==
  LET left == live \ live'
      summaries == next + 1 .. next' - 1
      compressed == DOMAIN folded' \ DOMAIN folded
  IN /\ next' > next
     /\ live' = (live \ left) \cup next .. next' - 1
     /\ compressed \subseteq left
     /\ folded' = [m \in DOMAIN folded \cup compressed |->
                     IF m \in compressed THEN folded'[m] ELSE folded[m]]
     /\ \A m \in compressed : folded'[m] \in summaries
     /\ \A k \in summaries : Cardinality({m \in compressed : folded'[m] = k}) >= 2
     /\ lost' = lost \cup (left \ compressed)

Spec == Init /\ [][Cycle]_vars
=============================================================================
