CONSTANTS
    Words <- Vocabulary
    MaxWords = 16
    MaxVocabulary = 2
SPECIFICATION Spec
CHECK_DEADLOCK FALSE
INVARIANTS
    LoopsAreCaught
PROPERTIES
    FaultsPersist
