CONSTANTS
    Providers = {"gotify", "smtp", "pushbullet"}
    ServerInit <- MCServerInit
    MaxTokenRequests = 2
    MaxMounts = 2
    MaxSaves = 2

SPECIFICATION Spec

\* The page waits for the user once every request is answered.
CHECK_DEADLOCK FALSE
PROPERTY SettingsKeepServerState
