CONSTANTS
    p1 = p1
    p2 = p2
    Pods = {p1, p2}
    MaxClusters = 2
    MaxSts = 3
    MaxTries = 2
    MaxFaults = 1
    MaxRestarts = 1
SPECIFICATION MCFairSpec
INVARIANTS TypeOK MarkedIsDeleted
PROPERTIES NoMisdelete BuiltForExisting ChosenImageKept DeletionCompletes EndsConsistent
CHECK_DEADLOCK FALSE
