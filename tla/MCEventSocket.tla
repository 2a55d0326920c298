--------------------------- MODULE MCEventSocket ----------------------------
(* Two mounts (a StrictMode remount, or leaving and re-entering the        *)
(* dashboard) and two drops: enough for a drop to race the cleanup and a    *)
(* reconnect to race the remount.                                           *)
EXTENDS EventSocket

=============================================================================
