SPECIFICATION Spec
CONSTANTS
    N = 4
    Nodes <- MCNodes
    Apps <- MCApps
    AppOf <- MCAppOf
    UnknownKey = 0
    MaxTargets = 2
INVARIANTS
    WorkingClosed
    EmitNeverStuck
    TargetExact
    PlanSound
CHECK_DEADLOCK FALSE
