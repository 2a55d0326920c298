---------------------------- MODULE RunTracking -----------------------------
(***************************************************************************)
(* How the dashboard shows that a backup is running.  BackupsTable's "Run" *)
(* button and HostsTable's "Run All" button put ids into a runningBackups  *)
(* set, which renders spinners and disables the buttons; the only thing    *)
(* that takes an id out again is a backup_completed / backup_failed event  *)
(* from the WebSocket with that backup_id (or, for "Run", the POST         *)
(* failing).                                                               *)
(*                                                                         *)
(* The server is the abstract orchestrator TaskLease (which BackupEngine   *)
(* implements), so every engine behaviour is covered.  The socket is       *)
(* abstracted to "connected or not": EventSocket shows that a dropped      *)
(* connection comes back; an event published while it is down is never    *)
(* sent to this client.  The client reads the stream in order: seen is the *)
(* number of events it has received or missed.                             *)
(***************************************************************************)
EXTENDS Naturals, Sequences

CONSTANTS
    Tasks,       \* backup task ids
    Hosts,       \* host ids
    HostOf,      \* HostOf[t]: the host of task t
    Quiet,       \* tasks of workstation hosts (runs may end silently)
    Handles,     \* values runAllForHost may return as run handles
    HandleOf,    \* HandleOf[t]: the run handle returned for task t
    MaxTriggers, \* bound on scheduler ticks and button clicks
    MaxDrops     \* bound on connection drops

ASSUME
    /\ HostOf \in [Tasks -> Hosts]
    /\ Quiet \subseteq Tasks
    /\ HandleOf \in [Tasks -> Handles]

VARIABLES
    busy,           \* server: tasks with a run in flight
    events,         \* server: published event stream
    connected,      \* the client's socket is open
    seen,           \* events the client has received or missed
    runningB,       \* BackupsTable runningBackups
    runRequests,    \* BackupsTable: runBackup(id) POSTs awaiting a response
    runningH,       \* HostsTable runningBackups
    hostToBackups,  \* HostsTable hostToBackups (a host -> its task_ids)
    runAllRequests, \* HostsTable: runHostBackups(id) POSTs in flight, each
                    \* with whether the server has accepted it
    missed,         \* backup_ids of events the client never received
    triggers,
    drops

server == <<busy, events>>
ui == <<connected, seen, runningB, runRequests, runningH, hostToBackups,
        runAllRequests>>
vars == <<server, ui, missed, triggers, drops, missed>>

Server == INSTANCE TaskLease

Ids == Tasks \cup Handles
RunAllReqs == [n : 1..MaxTriggers, h : Hosts, accepted : BOOLEAN]
NoHandles == {}

TypeOK ==
    /\ busy \subseteq Tasks
    /\ connected \in BOOLEAN
    /\ seen \in 0..Len(events)
    /\ runningB \subseteq Tasks
    /\ runRequests \subseteq Tasks
    /\ runningH \subseteq Ids
    /\ hostToBackups \in [Hosts -> SUBSET Handles]
    /\ runAllRequests \subseteq RunAllReqs
    /\ missed \subseteq Tasks
    /\ triggers \in 0..MaxTriggers
    /\ drops \in 0..MaxDrops

Init ==
    /\ Server!Init
    /\ connected = TRUE
    /\ seen = 0
    /\ runningB = {}
    /\ runRequests = {}
    /\ runningH = {}
    /\ hostToBackups = [h \in Hosts |-> NoHandles]
    /\ runAllRequests = {}
    /\ missed = {}
    /\ triggers = 0
    /\ drops = 0

\* The server accepts a run of t unless it is busy (coalesced).
StartIfIdle(S) ==
    LET fresh == S \ busy IN
    IF fresh = {} THEN UNCHANGED server ELSE Server!Accept(fresh)

-----------------------------------------------------------------------------
(* Server side                                                             *)

\* The cron scheduler finds t due.
ScheduledRun(t) ==
    /\ triggers < MaxTriggers
    /\ triggers' = triggers + 1
    /\ StartIfIdle({t})
    /\ UNCHANGED <<ui, drops, missed>>

\* A run ends, publishing its event (or not, for a Quiet task).
RunEnds(t) ==
    /\ Server!Finish(t)
    /\ UNCHANGED <<ui, triggers, drops, missed>>

-----------------------------------------------------------------------------
(* BackupsTable "Run" (backups-table.tsx)                                  *)

\* onClick on an enabled button: add the id, then await runBackup(id).
ClickRun(t) ==
    /\ t \notin runningB
    /\ triggers < MaxTriggers
    /\ triggers' = triggers + 1
    /\ runningB' = runningB \cup {t}
    /\ runRequests' = runRequests \cup {t}
    /\ UNCHANGED <<server, connected, seen, runningH, hostToBackups,
                   runAllRequests, drops, missed>>

\* Mutant: a failed POST leaves the id in runningBackups.
RunResponseKeepsSpinner(t) ==
    /\ t \in runRequests
    /\ runRequests' = runRequests \ {t}
    /\ \/ StartIfIdle({t})
       \/ UNCHANGED server
    /\ UNCHANGED <<runningB, connected, seen, runningH, hostToBackups,
                   runAllRequests, triggers, drops, missed>>

\* The POST is answered: on success nothing (the refresh waits for the
\* event); on error the id is removed again.
RunResponse(t) ==
    /\ t \in runRequests
    /\ runRequests' = runRequests \ {t}
    /\ \/ StartIfIdle({t}) /\ UNCHANGED runningB
       \/ runningB' = runningB \ {t} /\ UNCHANGED server
    /\ UNCHANGED <<connected, seen, runningH, hostToBackups, runAllRequests,
                   triggers, drops, missed>>

-----------------------------------------------------------------------------
(* HostsTable "Run All" (hosts-table.tsx)                                  *)

TasksOf(h) == {t \in Tasks : HostOf[t] = h}

\* onClick: handleRunAll awaits runHostBackups(host.id).  The button is
\* disabled while isHostRunning.
HostRunning(h) == hostToBackups[h] \cap runningH # {}

\* The button is not disabled while a POST of the host is in flight.
ClickRunAll(h) ==
    /\ ~HostRunning(h)
    /\ triggers < MaxTriggers
    /\ triggers' = triggers + 1
    /\ runAllRequests' = runAllRequests \cup
                          {[n |-> triggers + 1, h |-> h, accepted |-> FALSE]}
    /\ UNCHANGED <<server, connected, seen, runningB, runRequests, runningH,
                   hostToBackups, drops, missed>>

\* The server handles the POST: it starts every idle task of the host
\* before it answers; the runs may end, and publish, before the answer
\* reaches the browser.
RunAllAccept(r) ==
    /\ r \in runAllRequests /\ ~r.accepted
    /\ StartIfIdle(TasksOf(r.h))
    /\ runAllRequests' =
           (runAllRequests \ {r}) \cup {[r EXCEPT !.accepted = TRUE]}
    /\ UNCHANGED <<connected, seen, runningB, runRequests, runningH,
                   hostToBackups, triggers, drops, missed>>

\* The answer: after the await every returned task_id is added to
\* runningBackups and the host's list is replaced by them; a failed
\* request (not accepted, or its answer lost) only logs.
RunAllResponse(r) ==
    /\ r \in runAllRequests
    /\ runAllRequests' = runAllRequests \ {r}
    /\ \/ LET ids == {HandleOf[t] : t \in TasksOf(r.h)} IN
          /\ r.accepted
          /\ runningH' = runningH \cup ids
          /\ hostToBackups' = [hostToBackups EXCEPT ![r.h] = ids]
       \/ UNCHANGED <<runningH, hostToBackups>>
    /\ UNCHANGED <<server, connected, seen, runningB, runRequests, triggers,
                   drops, missed>>

-----------------------------------------------------------------------------
(* The event stream (websocket-context + use-websocket)                    *)

\* The next event reaches both tables' handleWebSocketMessage: each
\* deletes data.backup_id from its runningBackups and refreshes its data.
Receive ==
    /\ connected
    /\ seen < Len(events)
    /\ LET id == events[seen + 1].backup_id IN
         /\ runningB' = runningB \ {id}
         /\ runningH' = runningH \ {id}
    /\ seen' = seen + 1
    /\ UNCHANGED <<server, connected, runRequests, hostToBackups,
                   runAllRequests, triggers, drops, missed>>

\* An event published while the socket is down is not sent to the client.
Miss ==
    /\ ~connected
    /\ seen < Len(events)
    /\ seen' = seen + 1
    /\ missed' = missed \cup {events[seen + 1].backup_id}
    /\ UNCHANGED <<server, connected, runningB, runRequests, runningH,
                   hostToBackups, runAllRequests, triggers, drops>>

Disconnect ==
    /\ connected
    /\ drops < MaxDrops
    /\ drops' = drops + 1
    /\ connected' = FALSE
    /\ UNCHANGED <<server, seen, runningB, runRequests, runningH,
                   hostToBackups, runAllRequests, triggers, missed>>

\* The reconnect timer opens a new socket; nothing is re-fetched.
Reconnect ==
    /\ ~connected
    /\ connected' = TRUE
    /\ UNCHANGED <<server, seen, runningB, runRequests, runningH,
                   hostToBackups, runAllRequests, triggers, drops, missed>>

Next ==
    \/ \E t \in Tasks : ScheduledRun(t) \/ RunEnds(t)
    \/ \E t \in Tasks : ClickRun(t) \/ RunResponse(t)
    \/ \E h \in Hosts : ClickRunAll(h)
    \/ \E r \in runAllRequests : RunAllAccept(r) \/ RunAllResponse(r)
    \/ Receive \/ Miss \/ Disconnect \/ Reconnect

\* Runs end (TaskLease), responses arrive, the browser dispatches events
\* and the reconnect timer fires; clicks, ticks and drops are not forced.
Fairness ==
    /\ \A t \in Tasks : WF_vars(RunEnds(t)) /\ WF_vars(RunResponse(t))
    /\ \A r \in RunAllReqs : WF_vars(RunAllResponse(r))
    /\ WF_vars(Receive) /\ WF_vars(Miss) /\ WF_vars(Reconnect)

Spec == Init /\ [][Next]_vars /\ Fairness

-----------------------------------------------------------------------------
(* Properties                                                              *)

\* A "Run" spinner of BackupsTable does not spin forever: once the run it
\* started has ended, the row's button is enabled again.
SpinnerClears == \A t \in Tasks : (t \in runningB) ~> (t \notin runningB)

\* Without the socket the same holds except for lost events: a "Run"
\* spinner clears unless an event about its task was published while the
\* socket was down.
SpinnerClearsUnlessLost ==
    \A t \in Tasks : (t \in runningB) ~> (t \notin runningB \/ t \in missed)

\* A "Run All" spinner clears unless an event about one of the host's
\* returned ids was lost.
RunAllSpinnerClearsUnlessLost ==
    \A h \in Hosts :
        HostRunning(h) ~> (~HostRunning(h) \/ hostToBackups[h] \cap missed # {})

=============================================================================
