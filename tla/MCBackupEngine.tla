--------------------------- MODULE MCBackupEngine ---------------------------
(* Two hosts, one of them a workstation; three tasks that cover the step   *)
(* combinations: t1 incremental + encrypted with both hook phases, t2 plain *)
(* on the same host, t3 encrypted on the workstation; a pool of one worker *)
(* so that runs queue behind each other.                                   *)
EXTENDS BackupEngine

MCHostOf == [t \in Tasks |-> IF t = "t3" THEN "h2" ELSE "h1"]

=============================================================================
