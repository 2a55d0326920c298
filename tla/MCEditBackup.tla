---------------------------- MODULE MCEditBackup ----------------------------
(* Two backups, so the dialog can be reopened for a backup whose path is   *)
(* the placeholder after one whose path is not, and the reverse; b1 has a  *)
(* hook and a second one can be added, so a removal can shift the         *)
(* expanded position onto another hook.                                    *)
EXTENDS EditBackup

MCHookCount == [b \in Backups |-> IF b = "b1" THEN 1 ELSE 0]

=============================================================================
