CONSTANTS
  a1 = a1
  a2 = a2
  i1 = i1
  i2 = i2
  i3 = i3
  None = None
  Gone = Gone
  Arm <- Arms
  Invocation <- TwoInvocations
  Backend = "dynamodb"
  Ceiling = 2
  Named = {1}
  MaxFaults = 0
  MaxCycle = 2
SPECIFICATION FairSpec
PROPERTIES NamedCycleIsIdempotent
