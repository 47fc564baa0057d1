SPECIFICATION Spec
CONSTANTS
    DepositMilli = 3
    RetryCostMilli = 5
    MaxMilli = 11
    MaxEvents = 9
INVARIANTS TypeOK GrantsWithinBudget
PROPERTY DeniedOnlyWhenSpent
