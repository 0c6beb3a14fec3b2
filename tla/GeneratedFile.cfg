SPECIFICATION Spec
CONSTANTS
    Calls = {c1, c2}
    a = a
    b = b
    broken = broken
    unparsable = unparsable
    Sources <- MCSources
    Parses <- MCParses
    Compiles <- MCCompiles
    Original = original
    NoFile = nofile
SYMMETRY Symmetric
CHECK_DEADLOCK FALSE
INVARIANTS
    TargetWhole
    AnswersTrue
    NothingLeftBehind
