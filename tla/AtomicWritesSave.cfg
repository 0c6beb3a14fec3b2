SPECIFICATION Spec
CONSTANTS
    w1 = w1
    w2 = w2
    Writers = {w1, w2}
    Fields <- MCFields
    MaxKey = 5
    ExplicitKeys <- MCFirst
    Masks <- MCMasks
    Kinds = {"create", "save", "update", "delete"}
    Direct = {w1, w2}
    Atomic = {}
    Sharers = {}
    MaxConns = 2
    MaxCalls = 3
    MaxOps = 0
INVARIANTS
    OneRowOrNone
PROPERTIES
    MaskedSavesMerge
CHECK_DEADLOCK FALSE
SYMMETRY Symmetry
