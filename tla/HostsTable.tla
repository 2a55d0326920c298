----------------------------- MODULE HostsTable -----------------------------
(***************************************************************************)
(* The hosts page's table (host/components/hosts-table.tsx) with its       *)
(* EditHostDialog and DeleteHostDialog.  fetchHosts() runs on mount, on    *)
(* every backup_completed or backup_failed event, and after a successful   *)
(* edit or delete; each reply replaces the table, in the order the replies *)
(* arrive.  Both dialogs stay mounted: their state (the edit dialog's      *)
(* error, isSubmitting, isDeleting) outlives a close and a reopen.         *)
(*                                                                         *)
(* The server's host list is abstracted to a revision number that every    *)
(* change of it increments; a getHosts request carries the revision it     *)
(* will be answered with.  A host's fields are not modelled: the dialogs   *)
(* only need which host they are about.  The Run All button and the        *)
(* runningBackups spinners of the same table are modelled in RunTracking.  *)
(***************************************************************************)
EXTENDS Naturals

CONSTANTS
    Hosts,          \* host ids
    MaxHostChanges  \* bound on host edits, host deletes and backup events

None == "none"
MaxHostFetches == MaxHostChanges + 1
HostsReqs == [n : 1..MaxHostFetches, ver : 0..MaxHostChanges]

VARIABLES
    rev,            \* server: revision of the host list
    nChg,           \* changes of the host list started (edits, deletes, events)
    hLoading,       \* isLoading
    hError,         \* error is set
    shown,          \* the revision of the host list in hosts
    hReqs,          \* getHosts requests awaiting their reply
    nHF,            \* getHosts requests issued
    editing,        \* editingHost (None: the edit dialog is closed)
    submitting,     \* the host whose updateHost is in flight (isSubmitting)
    editErr,        \* the host whose failed update the dialog's error is about
    toDelete,       \* hostToDelete (None: the delete dialog is closed)
    deleting        \* the host whose deleteHost is in flight (isDeleting)

vars == <<rev, nChg, hLoading, hError, shown, hReqs, nHF, editing, submitting,
          editErr, toDelete, deleting>>

TypeOK ==
    /\ {rev, shown} \subseteq 0..MaxHostChanges /\ nChg \in 0..MaxHostChanges
    /\ {hLoading, hError} \subseteq BOOLEAN
    /\ hReqs \subseteq HostsReqs /\ nHF \in 0..MaxHostFetches
    /\ {editing, submitting, editErr, toDelete, deleting} \subseteq Hosts \cup {None}

\* useEffect(() => fetchHosts(), []): the first getHosts is in flight.
Init ==
    /\ rev = 0 /\ nChg = 0
    /\ hLoading = TRUE /\ hError = FALSE /\ shown = 0
    /\ hReqs = {[n |-> 1, ver |-> 0]} /\ nHF = 1
    /\ editing = None /\ submitting = None /\ editErr = None
    /\ toDelete = None /\ deleting = None

\* fetchHosts(): getHosts() sent; the server answers with the host list of
\* revision v, the one it holds once the step is done.
FetchHosts(v) ==
    /\ nHF' = nHF + 1
    /\ hReqs' = hReqs \cup {[n |-> nHF + 1, ver |-> v]}

\* A getHosts reply, whichever fetch it answers: setHosts(data) or
\* setError, finally isLoading = false.  Nothing clears error again.
HostsFetchReply(r) ==
    /\ r \in hReqs
    /\ hReqs' = hReqs \ {r}
    /\ hLoading' = FALSE
    /\ \/ shown' = r.ver /\ UNCHANGED hError
       \/ hError' = TRUE /\ UNCHANGED shown
    /\ UNCHANGED <<rev, nChg, nHF, editing, submitting, editErr, toDelete,
                   deleting>>

\* The table, and its rows' buttons, are rendered when neither loading nor
\* failed; a dialog, a modal, hides them while open.
RowsClickable == ~hLoading /\ ~hError /\ editing = None /\ toDelete = None

\* handleWebSocketMessage: a backup_completed or backup_failed event (the
\* host's failed-backup count may have changed) calls fetchHosts().
BackupEvent ==
    /\ nChg < MaxHostChanges
    /\ nChg' = nChg + 1
    /\ rev' = rev + 1
    /\ FetchHosts(rev + 1)
    /\ UNCHANGED <<hLoading, hError, shown, editing, submitting, editErr,
                   toDelete, deleting>>

\* "Edit": setEditingHost(host); the dialog's effect resets the form to the
\* host's fields.  Its error state is left as it was.
ClickEdit(h) ==
    /\ RowsClickable
    /\ editing' = h
    /\ UNCHANGED <<rev, nChg, hLoading, hError, shown, hReqs, nHF, submitting,
                   editErr, toDelete, deleting>>

\* onOpenChange(false), by Escape or a click outside: the dialog closes
\* (only its Cancel button is disabled while submitting).
CloseEdit ==
    /\ editing # None
    /\ editing' = None
    /\ UNCHANGED <<rev, nChg, hLoading, hError, shown, hReqs, nHF, submitting,
                   editErr, toDelete, deleting>>

\* onSubmit (the form passed zod): isSubmitting on, error cleared,
\* updateHost(host.id) awaited.  Save is disabled while submitting.
SubmitEdit ==
    /\ editing # None /\ submitting = None
    /\ nChg < MaxHostChanges
    /\ nChg' = nChg + 1
    /\ submitting' = editing
    /\ editErr' = None
    /\ UNCHANGED <<rev, hLoading, hError, shown, hReqs, nHF, editing,
                   toDelete, deleting>>

\* updateHost answers.  Success: onOpenChange(false) closes the dialog,
\* whichever host it now shows, and onSuccess runs fetchHosts() and
\* setEditingHost(null).  Failure: setError.  Finally isSubmitting off.
EditReply ==
    /\ submitting # None
    /\ submitting' = None
    /\ \/ /\ rev' = rev + 1
          /\ editing' = None
          /\ FetchHosts(rev + 1)
          /\ UNCHANGED editErr
       \/ /\ editErr' = submitting
          /\ UNCHANGED <<rev, editing, hReqs, nHF>>
    /\ UNCHANGED <<nChg, hLoading, hError, shown, toDelete, deleting>>

\* "Delete": setHostToDelete(host) opens the confirmation.
ClickDeleteHost(h) ==
    /\ RowsClickable
    /\ toDelete' = h
    /\ UNCHANGED <<rev, nChg, hLoading, hError, shown, hReqs, nHF, editing,
                   submitting, editErr, deleting>>

\* onOpenChange(false) by Escape, or Cancel while not deleting.
CloseDeleteHost ==
    /\ toDelete # None
    /\ toDelete' = None
    /\ UNCHANGED <<rev, nChg, hLoading, hError, shown, hReqs, nHF, editing,
                   submitting, editErr, deleting>>

\* handleDelete: isDeleting on, deleteHost(host.id) awaited.
HandleDeleteHost ==
    /\ toDelete # None /\ deleting = None
    /\ nChg < MaxHostChanges
    /\ nChg' = nChg + 1
    /\ deleting' = toDelete
    /\ UNCHANGED <<rev, hLoading, hError, shown, hReqs, nHF, editing,
                   submitting, editErr, toDelete>>

\* deleteHost answers.  Success: onOpenChange(false) and onSuccess, i.e.
\* fetchHosts() and setHostToDelete(null).  Failure: a console message.
\* Finally isDeleting off.
DeleteHostReply ==
    /\ deleting # None
    /\ deleting' = None
    /\ \/ /\ rev' = rev + 1
          /\ toDelete' = None
          /\ FetchHosts(rev + 1)
       \/ UNCHANGED <<rev, toDelete, hReqs, nHF>>
    /\ UNCHANGED <<nChg, hLoading, hError, shown, editing, submitting, editErr>>

Next ==
    \/ \E r \in hReqs : HostsFetchReply(r)
    \/ BackupEvent
    \/ \E h \in Hosts : ClickEdit(h) \/ ClickDeleteHost(h)
    \/ CloseEdit \/ SubmitEdit \/ EditReply
    \/ CloseDeleteHost \/ HandleDeleteHost \/ DeleteHostReply

\* Replies arrive; the user's clicks and the backup events are not forced.
Fairness ==
    /\ \A r \in HostsReqs : WF_vars(HostsFetchReply(r))
    /\ WF_vars(EditReply) /\ WF_vars(DeleteHostReply)

Spec == Init /\ [][Next]_vars /\ Fairness

-----------------------------------------------------------------------------
(* Properties                                                              *)

\* The table shows what the server holds: once every fetchHosts() has
\* answered (and none failed), the hosts listed are the server's current
\* host list, whatever order an edit's, a delete's and an event's refreshes
\* were answered in; and an open edit dialog's error message is about the
\* host it edits.
HostsShownCurrent ==
    /\ (hReqs = {} /\ ~hLoading /\ ~hError) => shown = rev
    /\ (editing # None /\ editErr # None) => editErr = editing

=============================================================================
