CONSTANTS
  a1 = a1
  a2 = a2
  i1 = i1
  i2 = i2
  i3 = i3
  None = None
  Gone = Gone
  Arm <- Arms
  Invocation <- TwoInvocations
  Backend = "sqlite"
  Ceiling = 2
  Named = {1, 2}
  MaxFaults = 3
  MaxCycle = 3
SPECIFICATION Spec
SYMMETRY Symmetry2
INVARIANT PreparedIsCommitted
