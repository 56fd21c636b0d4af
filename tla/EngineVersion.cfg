SPECIFICATION SpecEngine
CONSTANTS
    Versions = {v1, v2, v4}
    CLR2 = v2
    CLR4 = v4
CHECK_DEADLOCK FALSE
PROPERTIES
    VersionForced
