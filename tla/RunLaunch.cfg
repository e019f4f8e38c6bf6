SPECIFICATION Spec
CONSTANTS
    Doc = {"protocol", "seeds", "stimuli"}
    Gateway = {"fixture", "exact"}
    MaxEdits = 1
    MaxCommands = 3
    Arm = {1, 2}
    Creator = {p1, p2}
    Invocation = {i1}
    MaxCycle = 1
SYMMETRY Symmetry
INVARIANTS
    CanonicalIsRegistered
    CountedAsFrozen
    ArmsStartAlike
    
CHECK_DEADLOCK FALSE
