---------------------------- MODULE MCCycleCommit ----------------------------
(* Instances of CycleCommit for TLC. *)
EXTENDS CycleCommit, TLC

CONSTANTS a1, a2, i1, i2, i3

Arms == {a1, a2}
TwoInvocations == {i1, i2}

Symmetry2 == Permutations(Arms) \cup Permutations(TwoInvocations)
=============================================================================
