CONSTANTS
    Ids = {a}
    NotJson = NotJson
    Properties = {"accountType", "stateProvince"}
    Inputs <- MCInputs
    Rank <- MCRank
    AccountType = "accountType"
    Credits = 2
    Offsets = {"FIRST", "NEXT"}
    MaxInput = 3
    MaxRefusals = 1
    MaxCrashes = 1
    MaxSinkCrashes = 1
SPECIFICATION FairSpec
INVARIANTS TypeOK AcceptedIsForwarded CreditAccounted
PROPERTIES ForwardsUnlessStarved TableSettlesOnLatest
CHECK_DEADLOCK FALSE
