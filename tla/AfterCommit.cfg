CONSTANTS
  i1 = i1
  w1 = w1
  w2 = w2
  o1 = o1
  d1 = d1
  None = None
  Arm = {1, 2}
  Invocation = {i1}
  Worker = {w1, w2}
  Operator = {o1}
  Checkpoint = {1}
  Artefact = {d1}
  Retries = 1
  MaxFaults = 1
  MaxCycle = 2
SPECIFICATION FairSpec
INVARIANTS OneAnalysisPerCycle AnnouncedIsInterviewed
PROPERTIES  InterviewsAreFinal
CHECK_DEADLOCK FALSE
