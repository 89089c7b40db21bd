CONSTANTS
    n1 = n1
    n2 = n2
    Nodes = {n1, n2}
    MaxTime = 4
    MaxEdits = 2
    MaxFaults = 1
    MaxRestarts = 1
SPECIFICATION Spec
SYMMETRY NodeSymmetry
INVARIANTS TypeOK MarkedConfIsRolledOut MarkedPluginsAreSet
CHECK_DEADLOCK FALSE
