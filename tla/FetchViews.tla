----------------------------- MODULE FetchViews -----------------------------
(***************************************************************************)
(* Two views that fetch a list for what the user selected, and apply each  *)
(* reply as it arrives.                                                    *)
(*                                                                         *)
(* The restore page (app/(dashboard)/restore/page.tsx with RestoreForm):   *)
(* choosing a host runs an effect that empties the list and fetches that   *)
(* host's backups; choosing a backup of the list shows RestoreForm, whose  *)
(* submit POSTs the restore.                                               *)
(*                                                                         *)
(* The backup details sheet (backup-details-sheet.tsx with                 *)
(* DeleteBackupLogsDialog): opening it for a backup fetches that backup's  *)
(* error rows; "Clear Logs" deletes them and fetches again.                *)
(*                                                                         *)
(* Backups are abstracted to the host they belong to, error rows to the    *)
(* backup they belong to: listOf is the host whose backups the page lists, *)
(* errors the set of backups whose rows the sheet lists.  A request is a   *)
(* record numbered in issue order; the server answers with the data as it  *)
(* was when the request reached it.                                        *)
(***************************************************************************)
EXTENDS Naturals, FiniteSets

CONSTANTS
    Hosts,        \* host ids
    Backups,      \* backup task ids (of the sheet's table)
    MaxSelects,   \* bound on getBackups requests of the restore page
    MaxOpens,     \* bound on openings of the details sheet
    MaxDeletes    \* bound on "Clear Logs" confirmations

None == "none"
MaxFetches == MaxOpens + MaxDeletes
BackupsReqs == [n : 1..MaxSelects, h : Hosts]
ErrorsReqs == [n : 1..MaxFetches, b : Backups, some : BOOLEAN]

VARIABLES
    \* restore page
    loadingHosts,   \* loadingHosts
    selHost,        \* selectedHostId ("" is None)
    listOf,         \* the host whose backups are in backups (None: [])
    selBackup,      \* selectedBackupId, as the host of that backup
    loadingBackups, \* loadingBackups
    pageError,      \* error ("Failed to load ...") is set
    bReqs,          \* getBackups requests awaiting their reply
    nSel,           \* getBackups requests issued
    restoring,      \* hosts whose backup's restoreBackup POST is in flight
    restored,       \* restorationTaskId is set
    \* details sheet
    open,           \* selectedBackupForDetails (None: closed)
    errors,         \* backups whose error rows are in errors
    loading,        \* loading
    errorMessage,   \* errorMessage is set
    eReqs,          \* getBackupErrors requests awaiting their reply
    nFetch,         \* getBackupErrors requests issued
    nOpen,          \* openings of the sheet
    stored,         \* server: backups that have Backup Error rows
    showDelete,     \* showDeleteDialog
    isDeleting,     \* the dialog's isDeleting (its POST is in flight)
    nDel            \* deletions confirmed

page == <<loadingHosts, selHost, listOf, selBackup, loadingBackups, pageError,
          bReqs, nSel, restoring, restored>>
sheet == <<open, errors, loading, errorMessage, eReqs, nFetch, nOpen, stored,
           showDelete, isDeleting, nDel>>
vars == <<page, sheet>>

TypeOK ==
    /\ {loadingHosts, loadingBackups, pageError, restored} \subseteq BOOLEAN
    /\ selHost \in Hosts \cup {None}
    /\ listOf \in Hosts \cup {None}
    /\ selBackup \in Hosts \cup {None}
    /\ bReqs \subseteq BackupsReqs
    /\ nSel \in 0..MaxSelects
    /\ restoring \subseteq Hosts
    /\ open \in Backups \cup {None}
    /\ errors \subseteq Backups
    /\ {loading, errorMessage, showDelete, isDeleting} \subseteq BOOLEAN
    /\ eReqs \subseteq ErrorsReqs
    /\ nFetch \in 0..MaxFetches
    /\ nOpen \in 0..MaxOpens
    /\ stored \subseteq Backups
    /\ nDel \in 0..MaxDeletes

\* The server may hold error rows for any backup when the page loads.
Init ==
    /\ loadingHosts = TRUE
    /\ selHost = None /\ listOf = None /\ selBackup = None
    /\ loadingBackups = FALSE /\ pageError = FALSE
    /\ bReqs = {} /\ nSel = 0
    /\ restoring = {} /\ restored = FALSE
    /\ open = None /\ errors = {} /\ loading = FALSE /\ errorMessage = FALSE
    /\ eReqs = {} /\ nFetch = 0 /\ nOpen = 0
    /\ stored \in SUBSET Backups
    /\ showDelete = FALSE /\ isDeleting = FALSE /\ nDel = 0

-----------------------------------------------------------------------------
(* Restore page                                                            *)

\* getHosts() answers: setHosts or setError; finally loadingHosts = false.
HostsReply ==
    /\ loadingHosts
    /\ loadingHosts' = FALSE
    /\ \/ UNCHANGED pageError
       \/ pageError' = TRUE
    /\ UNCHANGED <<selHost, listOf, selBackup, loadingBackups, bReqs, nSel,
                   restoring, restored, sheet>>

\* The host select (rendered once hosts are loaded) changes, and the effect
\* on [selectedHostId] runs: for a host, loading on, the list and the
\* backup emptied, getBackups(host) sent; for "Select a host..." nothing.
SelectHost(h) ==
    /\ ~loadingHosts
    /\ h # selHost
    /\ selHost' = h
    /\ IF h = None
       THEN UNCHANGED <<listOf, selBackup, loadingBackups, bReqs, nSel>>
       ELSE /\ nSel < MaxSelects
            /\ nSel' = nSel + 1
            /\ bReqs' = bReqs \cup {[n |-> nSel + 1, h |-> h]}
            /\ loadingBackups' = TRUE
            /\ listOf' = None
            /\ selBackup' = None
    /\ UNCHANGED <<loadingHosts, pageError, restoring, restored, sheet>>

\* A getBackups reply, whichever host it was for: .then(setBackups) or
\* .catch(setError), .finally(setLoadingBackups(false)).
BackupsReply(r) ==
    /\ r \in bReqs
    /\ bReqs' = bReqs \ {r}
    /\ loadingBackups' = FALSE
    /\ \/ listOf' = r.h /\ UNCHANGED pageError
       \/ pageError' = TRUE /\ UNCHANGED listOf
    /\ UNCHANGED <<loadingHosts, selHost, selBackup, nSel, restoring,
                   restored, sheet>>

\* The backup select is rendered for a host, not loading, with a non-empty
\* list; it offers the listed backups and "Select a backup task...".
SelectBackup(c) ==
    /\ selHost # None /\ ~loadingBackups /\ listOf # None
    /\ c \in {None, listOf}
    /\ c # selBackup
    /\ selBackup' = c
    /\ UNCHANGED <<loadingHosts, selHost, listOf, loadingBackups, pageError,
                   bReqs, nSel, restoring, restored, sheet>>

\* selectedBackup = backups.find(b => b.id === selectedBackupId): the
\* RestoreForm is shown for it while no restoration was triggered.
FormShown == selBackup # None /\ selBackup = listOf /\ ~restored

\* RestoreForm onSubmit: restoreBackup({backup_id, ...}) is awaited; the
\* submit button is disabled while that form's POST is in flight.
Submit ==
    /\ FormShown
    /\ selBackup \notin restoring
    /\ restoring' = restoring \cup {selBackup}
    /\ UNCHANGED <<loadingHosts, selHost, listOf, selBackup, loadingBackups,
                   pageError, bReqs, nSel, restored, sheet>>

\* The POST answers: onSuccess(task_id) sets restorationTaskId, even if
\* the form was unmounted meanwhile; an error only shows in the form.
RestoreReply(h) ==
    /\ h \in restoring
    /\ restoring' = restoring \ {h}
    /\ \/ restored' = TRUE
       \/ UNCHANGED restored
    /\ UNCHANGED <<loadingHosts, selHost, listOf, selBackup, loadingBackups,
                   pageError, bReqs, nSel, sheet>>

\* "Start Another Restoration".
StartAnother ==
    /\ restored
    /\ restored' = FALSE
    /\ selBackup' = None
    /\ UNCHANGED <<loadingHosts, selHost, listOf, loadingBackups, pageError,
                   bReqs, nSel, restoring, sheet>>

-----------------------------------------------------------------------------
(* Backup details sheet                                                    *)

\* fetchErrors(): loading on, message cleared, getBackupErrors(b) sent.
FetchErrors(b) ==
    /\ nFetch' = nFetch + 1
    /\ eReqs' = eReqs \cup {[n |-> nFetch + 1, b |-> b, some |-> b \in stored]}
    /\ loading' = TRUE
    /\ errorMessage' = FALSE

\* A row is clicked: the sheet opens for it and the effect on
\* [backup, open] calls fetchErrors().
OpenSheet(b) ==
    /\ open = None
    /\ nOpen < MaxOpens
    /\ nOpen' = nOpen + 1
    /\ open' = b
    /\ FetchErrors(b)
    /\ UNCHANGED <<errors, stored, showDelete, isDeleting, nDel, page>>

\* The sheet is closed (the dialog, a modal, is not open): backup becomes
\* null and the effect's else branch empties errors and the message.
CloseSheet ==
    /\ open # None
    /\ ~showDelete
    /\ open' = None
    /\ errors' = {}
    /\ errorMessage' = FALSE
    /\ UNCHANGED <<loading, eReqs, nFetch, stored, showDelete, isDeleting,
                   nDel, nOpen, page>>

\* Mutant: the response object itself, not the backup's rows, is stored.
ErrorsReplyWholeResponse(r) ==
    /\ r \in eReqs
    /\ eReqs' = eReqs \ {r}
    /\ loading' = FALSE
    /\ \/ errors' = (IF r.some THEN {r} ELSE {}) /\ UNCHANGED errorMessage
       \/ errorMessage' = TRUE /\ UNCHANGED errors
    /\ UNCHANGED <<open, nFetch, stored, showDelete, isDeleting, nDel, nOpen, page>>

\* A getBackupErrors reply, whichever backup it was for: setErrors(data)
\* or setErrorMessage, finally loading = false.
ErrorsReply(r) ==
    /\ r \in eReqs
    /\ eReqs' = eReqs \ {r}
    /\ loading' = FALSE
    /\ \/ errors' = (IF r.some THEN {r.b} ELSE {}) /\ UNCHANGED errorMessage
       \/ errorMessage' = TRUE /\ UNCHANGED errors
    /\ UNCHANGED <<open, nFetch, stored, showDelete, isDeleting, nDel, nOpen, page>>

\* "Clear Logs" is rendered while errors is non-empty.
ClickClearLogs ==
    /\ open # None /\ errors # {} /\ ~showDelete
    /\ showDelete' = TRUE
    /\ UNCHANGED <<open, errors, loading, errorMessage, eReqs, nFetch, stored,
                   isDeleting, nDel, nOpen, page>>

\* Cancel (disabled while deleting).
CancelDelete ==
    /\ showDelete /\ ~isDeleting
    /\ showDelete' = FALSE
    /\ UNCHANGED <<open, errors, loading, errorMessage, eReqs, nFetch, stored,
                   isDeleting, nDel, nOpen, page>>

\* handleDelete: isDeleting on, deleteBackupErrors(backupId) awaited.
HandleDelete ==
    /\ showDelete /\ ~isDeleting
    /\ nDel < MaxDeletes
    /\ nDel' = nDel + 1
    /\ isDeleting' = TRUE
    /\ UNCHANGED <<open, errors, loading, errorMessage, eReqs, nFetch, stored,
                   showDelete, nOpen, page>>

\* The DELETE answers: on success the rows are gone, the dialog closes and
\* onSuccess = fetchErrors runs; on error a console message; finally
\* isDeleting = false.
DeleteReply ==
    /\ isDeleting
    /\ isDeleting' = FALSE
    /\ \/ /\ stored' = stored \ {open}
          /\ showDelete' = FALSE
          /\ FetchErrors(open)
       \/ UNCHANGED <<stored, showDelete, loading, errorMessage, eReqs, nFetch>>
    /\ UNCHANGED <<open, errors, nDel, nOpen, page>>

Next ==
    \/ HostsReply
    \/ \E h \in Hosts \cup {None} : SelectHost(h) \/ SelectBackup(h)
    \/ \E r \in bReqs : BackupsReply(r)
    \/ Submit \/ StartAnother
    \/ \E h \in restoring : RestoreReply(h)
    \/ \E b \in Backups : OpenSheet(b)
    \/ CloseSheet \/ ClickClearLogs \/ CancelDelete \/ HandleDelete
    \/ \E r \in eReqs : ErrorsReply(r)
    \/ DeleteReply

\* Replies arrive; the user's selections and clicks are not forced.
Fairness ==
    /\ WF_vars(HostsReply) /\ WF_vars(DeleteReply)
    /\ \A r \in BackupsReqs : WF_vars(BackupsReply(r))
    /\ \A r \in ErrorsReqs : WF_vars(ErrorsReply(r))
    /\ \A h \in Hosts : WF_vars(RestoreReply(h))

Spec == Init /\ [][Next]_vars /\ Fairness

-----------------------------------------------------------------------------
(* Properties                                                              *)

\* Each view shows the data of what is selected: the backup list shown for
\* a host (not loading) is that host's, and an open sheet lists (and counts,
\* and offers to clear) only the open backup's error rows.
ShownDataOfSelection ==
    /\ (selHost # None /\ ~loadingBackups) => listOf \in {None, selHost}
    /\ open # None => errors \subseteq {open}

=============================================================================
