CONSTANTS
    Tasks = {"t1", "t2"}
    Hosts = {"h1"}
    HostOf <- MCHostOf
    MaxTriggers = 3
    Quiet = {}
    Handles = {"t1", "t2"}
    HandleOf <- MCHandleIsId
    MaxDrops = 1

SPECIFICATION Spec
CHECK_DEADLOCK FALSE
PROPERTY SpinnerClears
