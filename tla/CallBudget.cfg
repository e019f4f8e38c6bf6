SPECIFICATION Spec
CONSTANTS
  A1 = a1
  A2 = a2
  None = none
  Order <- TwoArms
  Dreamer = a2
  Invocation = {i1}
  Caller = {p1}
  Analyst = {e1}
  MaxCycle = 2
  Checkpoint = {1}
  Parallel = 2
  Limits <- Tight
  Wanted = 3
  Attempts = 2
  Bound <- OneFault
INVARIANTS EveryCallAccounted StagedOnce CycleWithinAllowance
CHECK_DEADLOCK FALSE
