CONSTANTS
    MaxReplicas = 2
    MaxStorage = 2
    MaxEdits = 2
    MaxFaults = 1
    MaxRestarts = 1
SPECIFICATION FairSpec
INVARIANTS TypeOK SettledIsDecided
PROPERTIES ClaimsNeverShrink StatefulSetComesBack
CHECK_DEADLOCK FALSE
