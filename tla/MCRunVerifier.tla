---------------------------- MODULE MCRunVerifier ----------------------------
(* An instance of RunVerifier for TLC. *)
EXTENDS RunVerifier

ThreeSeeds == <<2, 1, 2>>
TwoQuestions == <<[facts |-> {0}, factual_recall |-> TRUE],
                  [facts |-> {0, 2}, factual_recall |-> FALSE]>>
Weights == [f \in 0 .. 2 |-> IF f = 0 THEN 4 ELSE 2]
MCManners == [c \in {0, 2} |-> IF c = 0 THEN {"unsure"} ELSE {"faithful"}]
MCLikeness(x, y) == ((7 * x + 3 * y) % 5) * 10
=============================================================================
