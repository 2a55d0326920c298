CONSTANTS
    Hosts = {h1, h2}
    Backups = {b1, b2}
    MaxSelects = 2
    MaxOpens = 2
    MaxDeletes = 1

SPECIFICATION Spec

\* After the user's last selection and click the views idle.
CHECK_DEADLOCK FALSE
INVARIANT TypeOK

