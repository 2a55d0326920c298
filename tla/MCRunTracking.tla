--------------------------- MODULE MCRunTracking ----------------------------
(* Two tasks of one host, so that "Run All" fans out to both and a single  *)
(* "Run" can race a scheduled run of the same task.                        *)
EXTENDS RunTracking

\* runAllForHost returns the backup ids themselves.
MCHandleIsId == [t \in Tasks |-> t]

MCHostOf == [t \in Tasks |-> "h1"]

=============================================================================
