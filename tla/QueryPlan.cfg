SPECIFICATION Spec
CONSTANTS
    Metadata <- MCMetadata
    Models <- MCModels
    Code <- MCCode
    Folded <- MCFolded
    Vocabularies <- MCVocabularies
    Limits = {0, 2}
    MaxSpare = 1
INVARIANTS
    PlansIndependent
    RowsMeant
CHECK_DEADLOCK FALSE
