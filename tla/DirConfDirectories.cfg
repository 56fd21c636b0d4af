SPECIFICATION Spec
CONSTANTS
    MaxSections = 2
    MaxWords = 2
CHECK_DEADLOCK FALSE
INVARIANTS
    DirectoriesServed
