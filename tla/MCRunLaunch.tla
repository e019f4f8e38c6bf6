----------------------------- MODULE MCRunLaunch -----------------------------
(* Four files, one edit of each, two arms, two creators and one invocation.   *)
EXTENDS RunLaunch

Symmetry == Permutations(Creator)
=============================================================================
