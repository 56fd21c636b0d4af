SPECIFICATION InstallerSpec
CONSTANTS
    MAX_PATH = 10
    FindFile <- const_FindFile
    Depth = 2
    Drives <- const_Drives
    Fixed = {"C"}
    Chars <- const_Chars
    Names <- const_Names
    Tree <- const_Tree
CHECK_DEADLOCK FALSE
INVARIANTS
    WithinBuffer
    PrefixIntact
    FoundExactly
    BadPathTells
