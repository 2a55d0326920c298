CONSTANTS
    MaxBlurs = 2

SPECIFICATION Spec

\* After the last blur every poll and timeout ends: the form idles.
CHECK_DEADLOCK FALSE
PROPERTY MeasuringEnds
