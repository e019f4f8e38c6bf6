---------------------------- MODULE MCModelCalls ----------------------------
(* Small instances of ModelCalls. *)
EXTENDS ModelCalls

CONSTANTS Short, Long, Blank

\* One text that fits the plan, one a single token too long, one of nothing.
Costs == [t \in Text |-> IF t = Blank THEN 0 ELSE IF t = Short THEN Limit ELSE Limit + 1]

=============================================================================
