CONSTANTS
    Tasks = {"t1", "t2"}
    Hosts = {"h1"}
    HostOf <- MCHostOf
    MaxTriggers = 2
    Quiet = {}
    Handles = {"t1", "t2"}
    HandleOf <- MCHandleIsId
    MaxDrops = 1

SPECIFICATION Spec

\* Every run ends and every response arrives: the page then idles.
CHECK_DEADLOCK FALSE
PROPERTY SpinnerClearsUnlessLost

