---------------------------- MODULE MCCallBudget ----------------------------
(* Small instances of CallBudget. *)
EXTENDS CallBudget

CONSTANTS A1, A2

TwoArms == <<A1, A2>>

\* One writer and one count per arm, two summaries, one interview per arm.
Shape(ceiling) ==
  [writer |-> 2, summarizer |-> 2, token_counter |-> 2, evaluator |-> 0,
   interviewer |-> 0, at_checkpoint |-> 2, run |-> ceiling]

\* Room for one cycle and some of the next.
Tight    == Shape(9)

\* Starts of a cycle, crashes and failing calls, early expiries of the lock.
Happening(starts, faults, expiries) ==
  [start |-> starts, fault |-> faults, expiry |-> expiries]
Calm     == Happening(3, 0, 0)
OneFault == Happening(3, 1, 0)

=============================================================================
