CONSTANTS
    n1 = n1
    n2 = n2
    Nodes = {n1, n2}
    MaxTime = 4
    MaxEdits = 2
    MaxFaults = 0
    MaxRestarts = 1
SPECIFICATION Spec
SYMMETRY NodeSymmetry
INVARIANTS ConfIsRolledOut
CHECK_DEADLOCK FALSE
