SPECIFICATION Spec
CONSTANTS
    Threads = {t1, t2}
    Main = Main
    Disposer = Disposer
    DisposerStuck = DisposerStuck
    NoThread = NoThread
    Hosts = {h1, h2, h3}
    NoHost = NoHost
    NumHosts = 2
    HostsDisposed = TRUE
SYMMETRY Symmetry
CHECK_DEADLOCK FALSE
INVARIANTS
    TypeOK
    MonitorDiscipline
    OneConnectAtATime
    OwnApplication
    DeadHostEvicted
    UnconfiguredIsTransient
PROPERTIES
    LiveHostKept
    ImplementsService
