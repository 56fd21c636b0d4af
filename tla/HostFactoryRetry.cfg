SPECIFICATION Spec
CONSTANTS
    Threads = {t1, t2}
    Main = Main
    Disposer = Disposer
    DisposerStuck = DisposerStuck
    NoThread = NoThread
    Hosts = {h1, h2, h3}
    NoHost = NoHost
    NumHosts = 1
    HostsDisposed = FALSE
SYMMETRY Symmetry
CHECK_DEADLOCK FALSE
INVARIANTS
    RetriesOnRecreatedHost
