SPECIFICATION SameWaySpec
CONSTANTS
    E1 = e1
    E2 = e2
    MaxPlan = 2
    Executors <- MCTwo
    Keys <- MCKeys
    Migrations <- MCMigrations
    Apps <- MCApps
    AppOf <- MCAppOf
    Elements <- MCElements
    TableOf <- MCTableOf
    OpsOf <- MCOpsOf
    Plans <- MCDefinedPlans
    InitApplied <- MCRaceHistories
    MaxConns = 2
    MaxCalls = 1
INVARIANTS
    SchemaMatchesRecorder
    EachStepOnce
CHECK_DEADLOCK FALSE
SYMMETRY Symmetry
