SPECIFICATION LiveSpec
CONSTANTS
    c1 = c1
    c2 = c2
    c3 = c3
    s1 = s1
    s2 = s2
    f1 = f1
    f2 = f2
    f3 = f3
    NoFlight = NoFlight
    Callers = {c1, c2}
    States = {s1}
    Flights = {f1, f2}
    MaxVersion = 0
    RowsOf <- MCOneRow
    PlanLimit <- MCPlanLimit
    Indexes <- MCSomeIndex
    Ops <- MCAllOps
    MaxConns = 1
    MaxCalls = 1
    Panics = TRUE
PROPERTIES
    EveryCallReturns
    CanceledCallReturns
CHECK_DEADLOCK FALSE
