CONSTANTS
    Tasks = {"t1", "t2", "t3"}
    Hosts = {"h1", "h2"}
    HostOf <- MCHostOf
    Workstations = {"t3"}
    Incremental = {"t1"}
    Encrypted = {"t1", "t3"}
    PreHooked = {"t1"}
    PostHooked = {"t1"}
    PoolSize = 1
    MaxTriggers = 3

SPECIFICATION Spec

INVARIANT TypeOK
INVARIANT AtMostOneRunPerTask
PROPERTY ImplementsTaskLease
