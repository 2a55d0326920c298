CONSTANTS
    Hosts = {h1, h2}
    Backups = {b1, b2}
    MaxSelects = 2
    MaxOpens = 2
    MaxDeletes = 1
    MaxHostChanges = 2
    MaxChanges = 2
    Workers = {1, 2}
    MaxToggles = 2
    Listed = {"/a", "/b"}
    TargetInputs = {"/t"}
    MaxMounts = 2
    MaxPosts = 1
    MaxHostLoads = 2
    EditPaths = {"/srv/app"}
    MaxSaves = 1
    HookCount <- MCHookCount
    MaxHooks = 1

SPECIFICATION Spec

\* After the user's last selection and click the views idle.
CHECK_DEADLOCK FALSE
INVARIANT ListsShowSelection
