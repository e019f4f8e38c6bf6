----------------------------- MODULE MCArmMemory -----------------------------
(* Instances of ArmMemory for TLC. *)
EXTENDS ArmMemory

ThreeSeeds == <<2, 1, 2>>
FourSeeds  == <<2, 1, 2, 1>>
=============================================================================
