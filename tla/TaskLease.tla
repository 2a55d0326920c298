----------------------------- MODULE TaskLease -----------------------------
(***************************************************************************)
(* What the task orchestrator promises about runs of backup tasks (spec    *)
(* sections 4.7 and 5), with no pool, no steps and no files: a trigger     *)
(* either makes a set of idle tasks busy or is coalesced; a busy task      *)
(* eventually finishes, and finishing publishes one terminal event about  *)
(* it, except that a run of a Quiet task (a workstation host's, whose      *)
(* failures are suppressed) may end silently.  BackupEngine implements     *)
(* this specification; RunTracking uses it as the server the UI talks to.  *)
(***************************************************************************)
EXTENDS Sequences

CONSTANTS
    Tasks,  \* backup task ids
    Quiet   \* tasks whose run may end without an event

VARIABLES busy, events

vars == <<busy, events>>

TerminalEvents == {"backup_completed", "backup_failed"}

Init ==
    /\ busy = {}
    /\ events = <<>>

\* Some idle tasks start a run; triggers for busy tasks are coalesced,
\* which is a stuttering step here.
Accept(S) ==
    /\ S # {}
    /\ S \cap busy = {}
    /\ busy' = busy \cup S
    /\ UNCHANGED events

\* A run of t ends with one terminal event, or silently if t is Quiet.
Finish(t) ==
    /\ t \in busy
    /\ busy' = busy \ {t}
    /\ \/ \E ty \in TerminalEvents :
             events' = Append(events, [type |-> ty, backup_id |-> t])
       \/ t \in Quiet /\ UNCHANGED events

Next ==
    \/ \E S \in SUBSET Tasks : Accept(S)
    \/ \E t \in Tasks : Finish(t)

Spec == Init /\ [][Next]_vars /\ \A t \in Tasks : WF_vars(Finish(t))

=============================================================================
