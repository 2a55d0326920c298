CONSTANTS
    MaxMounts = 2
    MaxDrops = 2

SPECIFICATION Spec

\* The page may idle with an open socket, or unmounted, forever.
CHECK_DEADLOCK FALSE

INVARIANT TypeOK
INVARIANT AtMostOneLiveSocket
INVARIANT NoLiveSocketWhileUnmounted
PROPERTY EventuallyConnected
