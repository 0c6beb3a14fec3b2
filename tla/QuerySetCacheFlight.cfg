SPECIFICATION Spec
CONSTANTS
    c1 = c1
    c2 = c2
    c3 = c3
    s1 = s1
    s2 = s2
    f1 = f1
    f2 = f2
    f3 = f3
    NoFlight = NoFlight
    Callers = {c1, c2, c3}
    States = {s1}
    Flights = {f1, f2, f3}
    MaxVersion = 1
    RowsOf <- MCRowsOf
    PlanLimit <- MCPlanLimit
    Indexes <- MCSomeIndex
    Ops = {"All"}
    MaxConns = 3
    MaxCalls = 1
    Panics = TRUE
SYMMETRY MCSymmetry
INVARIANTS
    TypeOK
    SingleOwner
    AllReturnsCache
    CacheComplete
    NoForeignCancellation
    CanceledWaiterNeverOwns
PROPERTIES
    CacheStable
    ImplementsCell
CHECK_DEADLOCK FALSE
