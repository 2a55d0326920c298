---------------------------- MODULE BackupEngine ----------------------------
(***************************************************************************)
(* The backup execution engine: the task orchestrator (spec 4.7), its      *)
(* bounded worker pool with a FIFO backlog and the per-task run lease      *)
(* (spec 5), and the steps of one run: pre-hooks (4.4), transfer (4.2),    *)
(* versioning (4.3), encryption (4.5), post-hooks (4.4), then the report   *)
(* that updates the task, appends Backup Errors and publishes the event    *)
(* (4.7, 7).  The engine is not part of this repository (the repository is *)
(* its web dashboard), so every definition here is modelled from spec.md.  *)
(*                                                                         *)
(* Data is abstracted to what the properties tell apart: a task's files    *)
(* are two flags (a plaintext payload is on disk, a sealed archive is on   *)
(* disk), the error log is a count, lastRun is "never" or "set".           *)
(***************************************************************************)
EXTENDS Integers, Sequences, FiniteSets, SequencesExt

CONSTANTS
    Tasks,          \* backup task ids
    Hosts,          \* host ids
    HostOf,         \* HostOf[t]: the host task t belongs to
    Workstations,   \* tasks whose host has isWorkstation = true
    Incremental,    \* tasks with incremental = true
    Encrypted,      \* tasks with encrypted = true
    PreHooked,      \* tasks with at least one enabled pre-hook
    PostHooked,     \* tasks with at least one enabled post-hook
    PoolSize,       \* size of the worker pool
    MaxTriggers     \* bound on scheduler ticks and manual triggers

ASSUME
    /\ HostOf \in [Tasks -> Hosts]
    /\ Workstations \cup Incremental \cup Encrypted \subseteq Tasks
    /\ PreHooked \cup PostHooked \subseteq Tasks
    /\ PoolSize \in Nat \ {0}
    /\ MaxTriggers \in Nat

VARIABLES
    lease,      \* lease[t]: t holds its run lease (queued or running)
    queue,      \* runs submitted and waiting for a free worker, in order
    phase,      \* phase[t]: where the run of t is
    outcome,    \* outcome[t]: result of the run of t, read by its report
    status,     \* status[t]: the task's persisted status
    errors,     \* errors[t]: number of Backup Error rows of t
    lastRun,    \* lastRun[t]: "never" (the year-1 sentinel) or "set"
    plain,      \* plain[t]: an unencrypted payload of t is on disk
    sealed,     \* sealed[t]: an encrypted archive of t is on disk
    events,     \* the outbound event stream, in publication order
    triggers    \* number of triggers so far (bounded by MaxTriggers)

vars == <<lease, queue, phase, outcome, status, errors, lastRun, plain,
          sealed, events, triggers>>

WorkerPhases == {"pre", "transfer", "version", "encrypt", "post", "done"}
Phases == {"idle", "queued"} \cup WorkerPhases
Statuses == {"pending", "running", "completed", "failed"}
Outcomes == {"none", "ok", "failed", "skipped"}
EventTypes == {"backup_completed", "backup_failed"}

\* Tasks a worker is executing.
Active == {t \in Tasks : phase[t] \in WorkerPhases}

TypeOK ==
    /\ lease \in [Tasks -> BOOLEAN]
    /\ queue \in Seq(Tasks)
    /\ phase \in [Tasks -> Phases]
    /\ outcome \in [Tasks -> Outcomes]
    /\ status \in [Tasks -> Statuses]
    /\ errors \in [Tasks -> 0..MaxTriggers]
    /\ lastRun \in [Tasks -> {"never", "set"}]
    /\ plain \in [Tasks -> BOOLEAN]
    /\ sealed \in [Tasks -> BOOLEAN]
    /\ events \in Seq([type : EventTypes, backup_id : Tasks])
    /\ triggers \in 0..MaxTriggers

Init ==
    /\ lease = [t \in Tasks |-> FALSE]
    /\ queue = <<>>
    /\ phase = [t \in Tasks |-> "idle"]
    /\ outcome = [t \in Tasks |-> "none"]
    /\ status = [t \in Tasks |-> "pending"]
    /\ errors = [t \in Tasks |-> 0]
    /\ lastRun = [t \in Tasks |-> "never"]
    /\ plain = [t \in Tasks |-> FALSE]
    /\ sealed = [t \in Tasks |-> FALSE]
    /\ events = <<>>
    /\ triggers = 0

-----------------------------------------------------------------------------
(* Submission: the scheduler, "run now" and "run all for host".           *)

\* Mutant: the lease is not tried, a busy task is queued a second time.
SubmitUnleased(S) ==
    /\ triggers < MaxTriggers
    /\ triggers' = triggers + 1
    /\ lease' = [t \in Tasks |-> lease[t] \/ t \in S]
    /\ phase' = [t \in Tasks |-> IF t \in S THEN "queued" ELSE phase[t]]
    /\ queue' = queue \o SetToSeq(S)
    /\ UNCHANGED <<outcome, status, errors, lastRun, plain, sealed, events>>

\* Submit a run of every task of S: a task whose lease is free takes it and
\* joins the backlog; a trigger for a task already queued or running is
\* coalesced (try-lock, spec 9).  A full pool queues, it never drops.
Submit(S) ==
    LET fresh == {t \in S : ~lease[t]} IN
    /\ triggers < MaxTriggers
    /\ triggers' = triggers + 1
    /\ lease' = [t \in Tasks |-> lease[t] \/ t \in fresh]
    /\ phase' = [t \in Tasks |-> IF t \in fresh THEN "queued" ELSE phase[t]]
    /\ queue' = queue \o SetToSeq(fresh)
    /\ UNCHANGED <<outcome, status, errors, lastRun, plain, sealed, events>>

\* runBackupTask(id), and the cron scheduler finding t due.
RunBackupTask(t) == Submit({t})

\* runAllForHost(hostId): one independent run per task of the host.
RunAllForHost(h) == Submit({t \in Tasks : HostOf[t] = h})

\* A free worker takes the oldest submitted run: pending -> running.
StartRun ==
    /\ queue # <<>>
    /\ Cardinality(Active) < PoolSize
    /\ LET t == Head(queue) IN
         /\ queue' = Tail(queue)
         /\ phase' = [phase EXCEPT ![t] = "pre"]
         /\ status' = [status EXCEPT ![t] = "running"]
    /\ UNCHANGED <<lease, outcome, errors, lastRun, plain, sealed, events,
                   triggers>>

-----------------------------------------------------------------------------
(* The steps of a run.  A step that fails records its Backup Error and     *)
(* sends the run to its report; Skip is the workstation case of 4.2.      *)

Fail(t) ==
    /\ errors' = [errors EXCEPT ![t] = @ + 1]
    /\ outcome' = [outcome EXCEPT ![t] = "failed"]
    /\ phase' = [phase EXCEPT ![t] = "done"]

Skip(t) ==
    /\ outcome' = [outcome EXCEPT ![t] = "skipped"]
    /\ phase' = [phase EXCEPT ![t] = "done"]
    /\ UNCHANGED errors

Advance(t, next) ==
    /\ phase' = [phase EXCEPT ![t] = next]
    /\ UNCHANGED <<outcome, errors>>

\* Enabled pre-hooks run in order; a failure aborts before the transfer.
RunPreHooks(t) ==
    /\ phase[t] = "pre"
    /\ \/ Advance(t, "transfer")
       \/ t \in PreHooked /\ Fail(t)
    /\ UNCHANGED <<lease, queue, status, lastRun, plain, sealed, events,
                   triggers>>

AfterTransfer(t) ==
    IF t \in Incremental THEN "version"
    ELSE IF t \in Encrypted THEN "encrypt"
    ELSE "post"

\* rsync of the source into the staging path or version directory.  A
\* failed transfer may leave a partly written payload; on a workstation
\* host it is skipped without an error.
Transfer(t) ==
    /\ phase[t] = "transfer"
    /\ \/ /\ plain' = [plain EXCEPT ![t] = TRUE]
          /\ Advance(t, AfterTransfer(t))
       \/ /\ \E partial \in BOOLEAN :
                plain' = [plain EXCEPT ![t] = plain[t] \/ partial]
          /\ IF t \in Workstations THEN Skip(t) ELSE Fail(t)
    /\ UNCHANGED <<lease, queue, status, lastRun, sealed, events, triggers>>

\* Repoint `latest` and prune to the retention count (VersionStore has the
\* detail); a prune failure is not fatal, a failed swap is.
Version(t) ==
    /\ phase[t] = "version"
    /\ \/ Advance(t, IF t \in Encrypted THEN "encrypt" ELSE "post")
       \/ Fail(t)
    /\ UNCHANGED <<lease, queue, status, lastRun, plain, sealed, events,
                   triggers>>

\* tar + gzip + AES-GCM into <destination>.tar.gz.enc, then the unencrypted
\* payload is deleted.  On failure the payload stays where it is.
Encrypt(t) ==
    /\ phase[t] = "encrypt"
    /\ \/ /\ sealed' = [sealed EXCEPT ![t] = TRUE]
          /\ plain' = [plain EXCEPT ![t] = FALSE]
          /\ Advance(t, "post")
       \/ Fail(t) /\ UNCHANGED <<plain, sealed>>
    /\ UNCHANGED <<lease, queue, status, lastRun, events, triggers>>

\* Enabled post-hooks run in order; a failure is logged, not fatal.
RunPostHooks(t) ==
    /\ phase[t] = "post"
    /\ outcome' = [outcome EXCEPT ![t] = "ok"]
    /\ phase' = [phase EXCEPT ![t] = "done"]
    /\ \/ UNCHANGED errors
       \/ t \in PostHooked /\ errors' = [errors EXCEPT ![t] = @ + 1]
    /\ UNCHANGED <<lease, queue, status, lastRun, plain, sealed, events,
                   triggers>>

\* Mutant: the run's outcome is written as the status verbatim.
NewStatusVerbatim(o) == IF o = "ok" THEN "completed" ELSE o

NewStatus(o) ==
    CASE o = "ok"     -> "completed"
      [] o = "failed" -> "failed"
      [] o = "skipped" -> "pending"

\* Mutant: a skipped workstation run keeps its lease.
ReportKeepsLeaseOnSkip(t) ==
    /\ phase[t] = "done"
    /\ phase' = [phase EXCEPT ![t] = "idle"]
    /\ outcome' = [outcome EXCEPT ![t] = "none"]
    /\ lease' = [lease EXCEPT ![t] = outcome[t] = "skipped"]
    /\ status' = [status EXCEPT ![t] = NewStatus(outcome[t])]
    /\ lastRun' = IF outcome[t] = "ok"
                  THEN [lastRun EXCEPT ![t] = "set"] ELSE lastRun
    /\ events' =
         IF outcome[t] = "skipped" THEN events
         ELSE Append(events, [type |-> IF outcome[t] = "ok"
                                       THEN "backup_completed"
                                       ELSE "backup_failed",
                              backup_id |-> t])
    /\ UNCHANGED <<queue, errors, plain, sealed, triggers>>

\* The worker reports: status and lastRun are written, the lease is
\* released, and backup_completed or backup_failed is published (a
\* skipped workstation run publishes nothing).
Report(t) ==
    /\ phase[t] = "done"
    /\ phase' = [phase EXCEPT ![t] = "idle"]
    /\ outcome' = [outcome EXCEPT ![t] = "none"]
    /\ lease' = [lease EXCEPT ![t] = FALSE]
    /\ status' = [status EXCEPT ![t] = NewStatus(outcome[t])]
    /\ lastRun' = IF outcome[t] = "ok"
                  THEN [lastRun EXCEPT ![t] = "set"] ELSE lastRun
    /\ events' =
         IF outcome[t] = "skipped" THEN events
         ELSE Append(events, [type |-> IF outcome[t] = "ok"
                                       THEN "backup_completed"
                                       ELSE "backup_failed",
                              backup_id |-> t])
    /\ UNCHANGED <<queue, errors, plain, sealed, triggers>>

\* clearBackupErrors(backupId): the task's error rows are deleted in bulk.
ClearBackupErrors(t) ==
    /\ errors' = [errors EXCEPT ![t] = 0]
    /\ UNCHANGED <<lease, queue, phase, outcome, status, lastRun, plain,
                   sealed, events, triggers>>

-----------------------------------------------------------------------------

\* Steps a worker takes on its own: these are the actions with fairness.
WorkerStep(t) ==
    \/ RunPreHooks(t)
    \/ Transfer(t)
    \/ Version(t)
    \/ Encrypt(t)
    \/ RunPostHooks(t)
    \/ Report(t)

\* All triggers used and every run reported: the engine waits for a tick.
Quiescent ==
    /\ triggers = MaxTriggers
    /\ \A t \in Tasks : phase[t] = "idle"
    /\ UNCHANGED vars

Next ==
    \/ \E t \in Tasks : RunBackupTask(t)
    \/ \E h \in Hosts : RunAllForHost(h)
    \/ StartRun
    \/ \E t \in Tasks : WorkerStep(t)
    \/ \E t \in Tasks : ClearBackupErrors(t)
    \/ Quiescent

\* Workers run independently of the scheduler tick loop (spec 5): each
\* started step completes or fails, and a free worker takes queued work.
Fairness ==
    /\ WF_vars(StartRun)
    /\ \A t \in Tasks : WF_vars(WorkerStep(t))

Spec == Init /\ [][Next]_vars /\ Fairness

-----------------------------------------------------------------------------
(* Properties                                                              *)

\* Number of runs of t in flight: its entries in the backlog plus the one a
\* worker executes.
RunsInFlight(t) ==
    Len(SelectSeq(queue, LAMBDA x : x = t))
      + (IF phase[t] \in WorkerPhases THEN 1 ELSE 0)

\* At most one run per Backup Task at any time (spec 5, 8): whatever mix of
\* scheduler ticks, "run now" and "run all for host" arrives while a run of
\* the task is queued or executing, it is coalesced, never run twice.
AtMostOneRunPerTask == \A t \in Tasks : RunsInFlight(t) <= 1

\* The engine implements the abstract lease: the busy tasks are those that
\* hold a lease, and events are the engine's published stream.  This also
\* says that every run eventually ends (the abstract WF on Finish) and
\* that only a workstation task's run ends without an event.
Abstract == INSTANCE TaskLease
    WITH busy <- {t \in Tasks : lease[t]}, Quiet <- Workstations

ImplementsTaskLease == Abstract!Spec

=============================================================================
