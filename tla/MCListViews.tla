----------------------------- MODULE MCListViews -----------------------------
(* Two hosts and two backups: a host switch can overtake the first host's  *)
(* getBackups, a second opening of the sheet the first one's fetch, a      *)
(* backup event's fetchHosts the mount's, and an edit of the second host   *)
(* the first host's failing updateHost.                                    *)
EXTENDS ListViews

\* One backup has a hook, the other none (as in MCEditBackup).
MCHookCount == [b \in Backups |-> IF b = CHOOSE x \in Backups : TRUE
                                  THEN 1 ELSE 0]

=============================================================================
