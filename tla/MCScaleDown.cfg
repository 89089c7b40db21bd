CONSTANTS
    MaxReplicas = 2
    MaxStorage = 2
    MaxEdits = 2
    MaxFaults = 1
    MaxRestarts = 0
SPECIFICATION Spec
PROPERTIES NeverScaledDown
CHECK_DEADLOCK FALSE
