SPECIFICATION SpecPasses
CONSTANTS
    Servers = {main, vhost}
    Main = main
    VPaths <- const_VPaths
    Dirs = {d1, d2}
    Uris <- const_Uris
    Lower <- const_Lower
    MaxPasses = 3
    MaxMounts = 2
    Versions = {v2, v4}
    CLR2 = v2
    CLR4 = v4
CHECK_DEADLOCK FALSE
INVARIANTS
    KeysIdentify
    CreatedOnce
    ServesMountedApplication
    LiveWhileServing
    StopReleasesEngine
    TransientsReleased
PROPERTIES
    ImplementsModConfig
