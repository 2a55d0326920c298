CONSTANTS
    Backups = {"b1", "b2"}
    Paths = {"/srv/app"}
    MaxSaves = 2
    HookCount <- MCHookCount
    MaxHooks = 2

SPECIFICATION Spec

INVARIANT TypeOK PlaceholderWhileEphemeral OpenedShowsRow
