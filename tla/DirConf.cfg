SPECIFICATION Spec
CONSTANTS
    MaxSections = 3
    MaxWords = 2
CHECK_DEADLOCK FALSE
INVARIANTS
    MostSpecificWins
    NoneDisablesAll
    NamedTypesServed
