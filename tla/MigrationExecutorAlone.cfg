SPECIFICATION LiveSpec
CONSTANTS
    E1 = e1
    E2 = e2
    MaxPlan = 3
    Executors <- MCOne
    Keys <- MCKeys
    Migrations <- MCMigrations
    Apps <- MCApps
    AppOf <- MCAppOf
    Elements <- MCElements
    TableOf <- MCTableOf
    OpsOf <- MCOpsOf
    Plans <- MCAnyPlans
    InitApplied <- MCHistories
    MaxConns = 1
    MaxCalls = 2
INVARIANTS
    DurablePrefix
    ResultHonest
    CleanRunSucceeds
PROPERTIES
    EveryRunReturns
CHECK_DEADLOCK FALSE
