SPECIFICATION Spec
CONSTANTS
    Identifiers <- MCIdentifiers
    GoIdentifiers <- MCGoIdentifiers
    Texts <- MCTexts
    Inputs <- MCInputs
    AppOf <- MCAppOf
    UnknownKey <- MCUnknownKey
    Requests <- MCRequests
CHECK_DEADLOCK FALSE
INVARIANTS
    DiagnosisExact
    HistoryIndependent
    Reversible
    ProjectionExact
