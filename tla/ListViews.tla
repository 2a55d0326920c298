------------------------------ MODULE ListViews ------------------------------
(***************************************************************************)
(* The dashboard's list views side by side: the restore page and the       *)
(* backup details sheet (FetchViews), the hosts table (HostsTable), and    *)
(* the backups page and a host's backups page (BackupsPages, once each),   *)
(* the dashboard with its worker memory chart (Dashboard), and the        *)
(* restore page's RestoreForm over one host's backups (RestoreForm), and   *)
(* the edit-backup dialog with its table's refresh (EditBackup).           *)
(* They share no state, so every behaviour of this composition projects    *)
(* onto a behaviour of each view, and a view's invariant is violated here  *)
(* exactly when it is violated in that view alone.  The composition asks   *)
(* one question of all of them: does a list view ever show data that is   *)
(* not that of its selection, or not current, because its replies are      *)
(* applied in the order they arrive?                                       *)
(***************************************************************************)
CONSTANTS Hosts, Backups, MaxSelects, MaxOpens, MaxDeletes, MaxHostChanges,
          MaxChanges, Workers, MaxToggles, Listed, TargetInputs, MaxMounts,
          MaxPosts, MaxHostLoads, EditPaths, MaxSaves, HookCount, MaxHooks

VARIABLES
    loadingHosts, selHost, listOf, selBackup, loadingBackups, pageError,
    bReqs, nSel, restoring, restored,
    open, errors, loading, errorMessage, eReqs, nFetch, nOpen, stored,
    showDelete, isDeleting, nDel,
    rev, nChg, hLoading, hError, shown, hReqs, nHF, editing, submitting,
    editErr, toDelete, deleting,
    aRev, aChg, aLoading, aError, aShown, aReqs, aReq, aToDelete, aDeleting,
    hRev, hChg, hIsLoading, hErr, hShown, hBReqs, hReq, hToDelete, hDeleting,
    dRev, dWorkers, dChg, dLoading, dError, dShown, dReqs, dReq, dMounted,
    dcLoading, dData, dActive, dcReqs, dcReq, dTog,
    fSel, fDone, fMount, fType, fPathOK, fTarget, fTyped, fLoading, fReqs,
    fHosts, fSubmitting, fError, fPosts, fSent,
    eBackup, ePath, eEphemeral, eOpenedWith, eEdited, eSubmitting, eError,
    eUpd, eSrv, eRows, eRefreshing, eSaves, eTab, eHooks, eExpanded,
    eShowParams, eJsonError

Views == INSTANCE FetchViews
Table == INSTANCE HostsTable
AllPage == INSTANCE BackupsPages
    WITH Page <- "all", rev <- aRev, nChg <- aChg, loading <- aLoading,
         error <- aError, shown <- aShown, reqs <- aReqs, nReq <- aReq,
         toDelete <- aToDelete, deleting <- aDeleting
HostPage == INSTANCE BackupsPages
    WITH Page <- "host", rev <- hRev, nChg <- hChg, loading <- hIsLoading,
         error <- hErr, shown <- hShown, reqs <- hBReqs, nReq <- hReq,
         toDelete <- hToDelete, deleting <- hDeleting
Dash == INSTANCE Dashboard
    WITH rev <- dRev, workers <- dWorkers, nChg <- dChg, loading <- dLoading,
         error <- dError, shown <- dShown, reqs <- dReqs, nReq <- dReq,
         mounted <- dMounted, cLoading <- dcLoading, data <- dData,
         active <- dActive, cReqs <- dcReqs, nCReq <- dcReq, nTog <- dTog
Form == INSTANCE RestoreForm
    WITH Backups <- Listed, selected <- fSel, restored <- fDone,
         mount <- fMount, restoreType <- fType, pathOK <- fPathOK,
         targetPath <- fTarget, typed <- fTyped, loadingHosts <- fLoading,
         hReqs <- fReqs, nHosts <- fHosts, isSubmitting <- fSubmitting,
         error <- fError, posts <- fPosts, sent <- fSent
Edit == INSTANCE EditBackup
    WITH Paths <- EditPaths, backup <- eBackup, path <- ePath,
         ephemeral <- eEphemeral, openedWith <- eOpenedWith,
         edited <- eEdited, isSubmitting <- eSubmitting, error <- eError,
         upd <- eUpd, srv <- eSrv, rows <- eRows, refreshing <- eRefreshing,
         saves <- eSaves, tab <- eTab, hooks <- eHooks,
         expanded <- eExpanded, showParams <- eShowParams,
         jsonError <- eJsonError

viewVars == <<loadingHosts, selHost, listOf, selBackup, loadingBackups,
              pageError, bReqs, nSel, restoring, restored, open, errors,
              loading, errorMessage, eReqs, nFetch, nOpen, stored, showDelete,
              isDeleting, nDel>>
tableVars == <<rev, nChg, hLoading, hError, shown, hReqs, nHF, editing,
               submitting, editErr, toDelete, deleting>>
allVars == <<aRev, aChg, aLoading, aError, aShown, aReqs, aReq, aToDelete,
             aDeleting>>
hostVars == <<hRev, hChg, hIsLoading, hErr, hShown, hBReqs, hReq, hToDelete,
              hDeleting>>
dashVars == <<dRev, dWorkers, dChg, dLoading, dError, dShown, dReqs, dReq,
              dMounted, dcLoading, dData, dActive, dcReqs, dcReq, dTog>>
formVars == <<fSel, fDone, fMount, fType, fPathOK, fTarget, fTyped, fLoading,
              fReqs, fHosts, fSubmitting, fError, fPosts, fSent>>
editVars == <<eBackup, ePath, eEphemeral, eOpenedWith, eEdited, eSubmitting,
              eError, eUpd, eSrv, eRows, eRefreshing, eSaves, eTab, eHooks,
              eExpanded, eShowParams, eJsonError>>
vars == <<viewVars, tableVars, allVars, hostVars, dashVars, formVars,
          editVars>>

Init ==
    /\ Views!Init /\ Table!Init /\ AllPage!Init /\ HostPage!Init /\ Dash!Init
    /\ Form!Init /\ Edit!Init

\* The user works in one view at a time; replies of all views interleave.
Next ==
    \/ Views!Next /\ UNCHANGED <<tableVars, allVars, hostVars, dashVars,
                                formVars, editVars>>
    \/ Table!Next /\ UNCHANGED <<viewVars, allVars, hostVars, dashVars,
                                formVars, editVars>>
    \/ AllPage!Next /\ UNCHANGED <<viewVars, tableVars, hostVars, dashVars,
                                  formVars, editVars>>
    \/ HostPage!Next /\ UNCHANGED <<viewVars, tableVars, allVars, dashVars,
                                   formVars, editVars>>
    \/ Dash!Next /\ UNCHANGED <<viewVars, tableVars, allVars, hostVars,
                               formVars, editVars>>
    \/ Form!Next /\ UNCHANGED <<viewVars, tableVars, allVars, hostVars,
                               dashVars, editVars>>
    \/ Edit!Next /\ UNCHANGED <<viewVars, tableVars, allVars, hostVars,
                               dashVars, formVars>>

Spec == Init /\ [][Next]_vars

\* Every list view shows the data of what is selected, and current: the
\* restore page lists the selected host's backups, the details sheet only
\* the open backup's error rows, the hosts table, both backups pages and
\* the dashboard the server's current data once their refreshes have
\* answered, the edit-host dialog an error about the host it edits, and
\* the worker chart at least one line of the workers it holds, and the
\* restore form the target path of the backup it restores, and the edit
\* dialog what the server stores for the backup it opens.
ListsShowSelection ==
    /\ Views!ShownDataOfSelection
    /\ Table!HostsShownCurrent
    /\ AllPage!BackupsShownCurrent
    /\ HostPage!BackupsShownCurrent
    /\ Dash!DashboardShownCurrent
    /\ Form!RestoreTargetsItsBackup
    /\ Edit!OpenedShowsStored

=============================================================================
