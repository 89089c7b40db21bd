CONSTANTS
    p1 = p1
    p2 = p2
    CA = CA
    NY = NY
    Ids = {a}
    Types = {t}
    States = {CA, NY}
    Partitions <- MCPartitions
    PartitionOf <- MCPartitionOf
    StreamPartition = p1
    Deployments <- MCLastDeployments
    NoId = NoId
    NoType = NoType
    NoLocation = NoLocation
    Empty = Empty
    NoValue = NoValue
    Instances = {i1, i2}
    MaxSinkCrashes = 2
    MaxSinkDrops = 0
    MaxDbFaults = 1
    MaxLog = 3
    MaxSuperLog = 2
SPECIFICATION MCSpec
INVARIANTS LastIsHandled
CHECK_DEADLOCK FALSE
