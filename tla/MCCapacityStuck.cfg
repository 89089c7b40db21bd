CONSTANTS
    MaxReplicas = 1
    MaxStorage = 2
    MaxEdits = 3
    MaxFaults = 0
    MaxRestarts = 1
SPECIFICATION FairSpec

PROPERTIES CapacityReached
CHECK_DEADLOCK FALSE
