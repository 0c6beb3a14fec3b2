SPECIFICATION Spec
CONSTANTS
    w1 = w1
    w2 = w2
    Writers = {w1, w2}
    Fields <- MCOneField
    MaxKey = 2
    ExplicitKeys <- MCFirst
    Masks = {}
    Kinds = {"save", "delete"}
    Direct = {w2}
    Atomic = {w1}
    Sharers = {w1}
    MaxConns = 2
    MaxCalls = 2
    MaxOps = 1
INVARIANTS
    AllOrNothing
    LateCallRefused
    ConnectionReleased
    OwnRowOnly
    SaveTwiceOneRow
CHECK_DEADLOCK FALSE
