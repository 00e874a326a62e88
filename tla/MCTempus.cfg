SPECIFICATION FairSpec
CONSTANTS
    NumVms = 3
    Iterations <- Rates
INVARIANTS
    TypeOK
    ClockCondition
PROPERTIES
    Exchanges
    Stops
CHECK_DEADLOCK FALSE
