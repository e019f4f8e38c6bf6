CONSTANTS
  i1 = i1
  w1 = w1
  w2 = w2
  o1 = o1
  d1 = d1
  None = None
  Arm = {1, 2}
  Invocation = {i1}
  Worker = {w1, w2}
  Operator = {}
  Checkpoint = {1}
  Artefact = {d1}
  Retries = 1
  MaxFaults = 1
  MaxCycle = 1
SPECIFICATION FairSpec
PROPERTY CheckpointNotLost
CHECK_DEADLOCK FALSE
