SPECIFICATION FairSpec
CONSTANTS
    Threads = {t1, t2}
    Main = Main
    Disposer = Disposer
    DisposerStuck = DisposerStuck
    NoThread = NoThread
    Hosts = {h1, h2}
    NoHost = NoHost
    NumHosts = 1
    HostsDisposed = FALSE
CHECK_DEADLOCK FALSE
PROPERTIES
    RequestAnswered
