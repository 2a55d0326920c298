---------------------------- MODULE BackupsPages ----------------------------
(***************************************************************************)
(* The two pages that render BackupsTable and hand it their re-fetch as    *)
(* onRefresh, which the table calls on every backup_completed or          *)
(* backup_failed event (handleWebSocketMessage), after a saved edit and    *)
(* after a delete (the dialogs' onSuccess).                                *)
(*                                                                         *)
(*   Page = "all":  app/(dashboard)/backups/page.tsx, BackupsContent.      *)
(*                  fetchBackups sets loading, so the page renders the     *)
(*                  spinner instead of the table until a reply: the table  *)
(*                  and its dialogs unmount, and with them the table's     *)
(*                  WebSocket subscription.  A failed reply sets error.    *)
(*   Page = "host": app/(dashboard)/hosts/[id]/host-backups-client.tsx.    *)
(*                  The mount loads backups and host with Promise.all;     *)
(*                  the refresh does not touch isLoading, and a failed     *)
(*                  refresh is only logged.                                *)
(*                                                                         *)
(* The server's backup list is abstracted to a revision number that every  *)
(* change of it (a run ending, a saved edit, a delete) increments; a       *)
(* getBackups request carries the revision it is answered with.  The      *)
(* table is subscribed to events only while it is rendered; an event      *)
(* published while it is not still changes the server.                     *)
(***************************************************************************)
EXTENDS Naturals

CONSTANTS
    Page,        \* "all" or "host"
    MaxChanges   \* bound on changes of the server's backup list

MaxFetches == MaxChanges + 1
Reqs == [n : 1..MaxFetches, ver : 0..MaxChanges]

VARIABLES
    rev,        \* server: revision of the backup list
    nChg,       \* changes made so far
    loading,    \* loading (Page "all") or isLoading (Page "host")
    error,      \* error is set
    shown,      \* the revision of the list in backups
    reqs,       \* getBackups requests awaiting their reply
    nReq,       \* getBackups requests issued
    toDelete,   \* the table's backupToDelete is set (the dialog is open)
    deleting    \* a deleteBackup is in flight (the dialog's isDeleting)

vars == <<rev, nChg, loading, error, shown, reqs, nReq, toDelete, deleting>>

TypeOK ==
    /\ {rev, shown, nChg} \subseteq 0..MaxChanges
    /\ {loading, error, toDelete, deleting} \subseteq BOOLEAN
    /\ reqs \subseteq Reqs /\ nReq \in 0..MaxFetches

\* The mount effect's request (fetchBackups, or the Promise.all) is in
\* flight and the page shows its loading state.
Init ==
    /\ rev = 0 /\ nChg = 0
    /\ loading = TRUE /\ error = FALSE /\ shown = 0
    /\ reqs = {[n |-> 1, ver |-> 0]} /\ nReq = 1
    /\ toDelete = FALSE /\ deleting = FALSE

\* The page renders BackupsTable (neither loading nor failed).
TableMounted == ~loading /\ ~error

\* onRefresh: getBackups sent, answered with revision v.  On Page "all"
\* setLoading(true) replaces the table by the spinner.
Refresh(v) ==
    /\ nReq' = nReq + 1
    /\ reqs' = reqs \cup {[n |-> nReq + 1, ver |-> v]}
    /\ loading' = (Page = "all" \/ loading)

\* What the table's backupToDelete becomes on a refresh: lost with the
\* unmounted table on Page "all".
KeptToDelete == Page # "all" /\ toDelete

\* The request that sets loading ends it: fetchBackups' .then(setBackups),
\* .catch(setError), .finally(setLoading(false)), or the mount's
\* Promise.all (a failure of either call sets error), then isLoading = false.
LoadReply(r) ==
    /\ loading' = FALSE
    /\ \/ shown' = r.ver /\ UNCHANGED error
       \/ error' = TRUE /\ UNCHANGED shown

\* onRefresh of the host page: setBackups(data), or console.error only.
RefreshReply(r) ==
    /\ \/ shown' = r.ver
       \/ UNCHANGED shown
    /\ UNCHANGED <<loading, error>>

\* A getBackups reply, whichever request it answers.
FetchReply(r) ==
    /\ r \in reqs
    /\ reqs' = reqs \ {r}
    /\ IF Page = "all" \/ r.n = 1 THEN LoadReply(r) ELSE RefreshReply(r)
    /\ UNCHANGED <<rev, nChg, nReq, toDelete, deleting>>

\* A run ends on the server and its event is published: the mounted table's
\* handleWebSocketMessage calls onRefresh; with no table, nobody listens.
BackupEnds ==
    /\ nChg < MaxChanges
    /\ nChg' = nChg + 1
    /\ rev' = rev + 1
    /\ IF TableMounted
       THEN Refresh(rev + 1) /\ toDelete' = KeptToDelete
       ELSE UNCHANGED <<reqs, nReq, loading, toDelete>>
    /\ UNCHANGED <<error, shown, deleting>>

\* EditBackupDialog saved (updateBackup answered): its onSuccess is onRefresh.
EditSaved ==
    /\ TableMounted /\ ~toDelete
    /\ nChg < MaxChanges
    /\ nChg' = nChg + 1
    /\ rev' = rev + 1
    /\ Refresh(rev + 1)
    /\ toDelete' = KeptToDelete
    /\ UNCHANGED <<error, shown, deleting>>

\* The row's Delete action: setBackupToDelete(backup).
ClickDelete ==
    /\ TableMounted /\ ~toDelete
    /\ toDelete' = TRUE
    /\ UNCHANGED <<rev, nChg, loading, error, shown, reqs, nReq, deleting>>

\* onOpenChange(false): Escape, or Cancel while not deleting.
CloseDelete ==
    /\ toDelete
    /\ toDelete' = FALSE
    /\ UNCHANGED <<rev, nChg, loading, error, shown, reqs, nReq, deleting>>

\* handleDelete: isDeleting on, deleteBackup(backup.id) awaited.
HandleDelete ==
    /\ toDelete /\ ~deleting
    /\ nChg < MaxChanges
    /\ nChg' = nChg + 1
    /\ deleting' = TRUE
    /\ UNCHANGED <<rev, loading, error, shown, reqs, nReq, toDelete>>

\* deleteBackup answers.  Success: onOpenChange(false) and onSuccess, i.e.
\* onRefresh (the page's closure, which runs even if the table has been
\* unmounted meanwhile).  Failure: a console message.  Finally isDeleting
\* off.
DeleteReply ==
    /\ deleting
    /\ deleting' = FALSE
    /\ \/ /\ rev' = rev + 1
          /\ Refresh(rev + 1)
          /\ toDelete' = FALSE
       \/ UNCHANGED <<rev, reqs, nReq, loading, toDelete>>
    /\ UNCHANGED <<nChg, error, shown>>

Next ==
    \/ \E r \in reqs : FetchReply(r)
    \/ BackupEnds \/ EditSaved
    \/ ClickDelete \/ CloseDelete \/ HandleDelete \/ DeleteReply

\* Replies arrive; runs ending and the user's clicks are not forced.
Fairness ==
    /\ \A r \in Reqs : WF_vars(FetchReply(r))
    /\ WF_vars(DeleteReply)

Spec == Init /\ [][Next]_vars /\ Fairness

-----------------------------------------------------------------------------
(* Properties                                                              *)

\* The page lists the server's current backups: once every getBackups it
\* sent has answered (and none failed), the table shows the latest
\* revision, whatever order the refreshes were answered in, whether a
\* refresh failed, and whether a run ended while the table was unmounted.
BackupsShownCurrent == (reqs = {} /\ ~loading /\ ~error) => shown = rev

=============================================================================
