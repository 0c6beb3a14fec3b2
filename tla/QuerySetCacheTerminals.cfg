SPECIFICATION Spec
CONSTANTS
    c1 = c1
    c2 = c2
    c3 = c3
    s1 = s1
    s2 = s2
    f1 = f1
    f2 = f2
    f3 = f3
    NoFlight = NoFlight
    Callers = {c1, c2}
    States = {s1, s2}
    Flights = {f1, f2}
    MaxVersion = 1
    RowsOf <- MCRowsOf
    PlanLimit <- MCPlanLimit
    Indexes <- MCIndexes
    Ops <- MCAllOps
    MaxConns = 2
    MaxCalls = 1
    Panics = FALSE
SYMMETRY MCSymmetry
INVARIANTS
    NotOlderThanState
    AnswersAgree
CHECK_DEADLOCK FALSE
