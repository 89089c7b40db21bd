CONSTANTS
    p1 = p1
    p2 = p2
    t1 = t1
    t2 = t2
    CA = CA
    Ids = {a}
    Types = {t1, t2}
    States = {CA}
    Partitions <- MCPartitions
    PartitionOf <- MCPartitionOf
    StreamPartition = p1
    Deployments <- MCDeployments
    NoId = NoId
    NoType = NoType
    NoLocation = NoLocation
    Empty = Empty
    NoValue = NoValue
    MaxPosts = 3
    MaxReconnects = 2
    MaxSourceCrashes = 1
    MaxSinkPosts = 2
    Instances = {i1, i2}
    MaxSinkCrashes = 1
    MaxSinkDrops = 1
    MaxDbFaults = 0
SPECIFICATION MCFairSpec
INVARIANTS SourceTypeInv AcceptedDurable FirstCopiesInOrder FilterEndToEnd AcceptedNotPassedOver
PROPERTY EveryRequestAnswered
CHECK_DEADLOCK FALSE
