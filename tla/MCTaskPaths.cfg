CONSTANTS
    Chars <- MCChars
    AlNum <- MCAlNum
    Lower <- MCLower
    Root <- MCRoot
    Names <- MCNames
    HostPathInputs <- MCHostPathInputs
    SourceInputs <- MCSourceInputs
    DestInputs <- MCDestInputs
    MaxHosts = 2
    MaxTasks = 2
    MaxMounts = 3

SPECIFICATION Spec

\* Every form waits for the user once its requests are answered.
CHECK_DEADLOCK FALSE
INVARIANT DestinationsDisjoint
