CONSTANTS
    active = active
    closed = closed
    some = some
    wrong = wrong
    Accounts = {active, closed}
    ConsumerSelector = {active}
    Selectors = {some, wrong}
    Selected <- MCSelected
    Invalid = {wrong}
    MaxSends = 2
    MaxQueries = 2
    MaxFaults = 1
SPECIFICATION FairSpec
INVARIANTS TypeOK PageShowsAQuery AnswerMatchesQueue IdleIsStyled
PROPERTY EveryQueryShown
CHECK_DEADLOCK FALSE
