---------------------------- MODULE MCAfterCommit ----------------------------
(* Instances of AfterCommit for TLC: two arms, one document. *)
EXTENDS AfterCommit

CONSTANTS i1, w1, w2, o1, d1
=============================================================================
