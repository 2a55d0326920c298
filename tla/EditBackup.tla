----------------------------- MODULE EditBackup -----------------------------
(***************************************************************************)
(* The "Edit Backup Task" dialog (backup/components/edit-backup-dialog.tsx)*)
(* as BackupsTable uses it: "Edit" sets selectedBackup to the row, which   *)
(* opens the dialog; closing it sets selectedBackup to null.  The dialog   *)
(* component stays mounted, so its form values, error and isSubmitting     *)
(* outlive a closing.                                                      *)
(*                                                                         *)
(* Two effects meet in the form: one resets the values from the backup     *)
(* whenever the backup prop changes, the other reacts to the "Use          *)
(* Ephemeral Source" switch by putting the placeholder path in, or taking  *)
(* it out.  "Save Changes" awaits updateBackup, then closes the dialog and *)
(* calls onSuccess, the table's onRefresh.                                 *)
(*                                                                         *)
(* The "Hooks" tab is HookManager (hook-manager.tsx): a field array of     *)
(* hooks, one expanded at a time by position, each with its params JSON    *)
(* text.  Radix Dialog and Tabs unmount closed content, so HookManager's   *)
(* and HookItem's own state starts afresh when the dialog is reopened or   *)
(* the hooks tab is left.  A hook is its field id; its name, phase and     *)
(* params values are left out, as are the general and advanced fields no  *)
(* effect or guard reads.                                                  *)
(***************************************************************************)
EXTENDS Naturals, Sequences, FiniteSets

CONSTANTS
    Backups,   \* backup task ids
    Paths,     \* source paths a user may type (besides the placeholder)
    MaxSaves,  \* bound on "Save Changes" submissions
    HookCount, \* HookCount[b]: the number of hooks backup b has
    MaxHooks   \* bound on hooks in the form

EPHEMERAL_PATH == "{{SESSION_TEMP_DIR}}"
Empty == ""
None == "none"
Stored == Paths \cup {EPHEMERAL_PATH}
Updates == [b : Backups, path : Stored]
Tabs == {"general", "advanced", "hooks"}
HookIds == 1..MaxHooks

VARIABLES
    backup,       \* the backup prop (selectedBackup), None when closed
    path,         \* the form's path value
    ephemeral,    \* the form's useEphemeralSource value
    openedWith,   \* the row's path when the dialog was last opened
    edited,       \* the user changed the path or the switch since then
    isSubmitting, \* isSubmitting
    error,        \* error ("Failed to update backup") is set
    upd,          \* the updateBackup request in flight ({} or one)
    srv,          \* server: each backup's stored path
    rows,         \* the table's copy of each backup's path
    refreshing,   \* an onRefresh fetch is in flight
    saves,        \* submissions so far
    tab,          \* the active tab
    hooks,        \* the hooks field array, as a sequence of field ids
    expanded,     \* {expandedIndex} (a position), {} for null
    showParams,   \* ids of the HookItems whose params are shown
    jsonError     \* ids of the HookItems with a jsonError

hm == <<tab, hooks, expanded, showParams, jsonError>>
vars == <<backup, path, ephemeral, openedWith, edited, isSubmitting, error,
          upd, srv, rows, refreshing, saves, hm>>

TypeOK ==
    /\ backup \in Backups \cup {None}
    /\ path \in Stored \cup {Empty}
    /\ ephemeral \in BOOLEAN
    /\ openedWith \in Stored \cup {None}
    /\ {edited, isSubmitting, error, refreshing} \subseteq BOOLEAN
    /\ upd \subseteq Updates
    /\ srv \in [Backups -> Stored]
    /\ rows \in [Backups -> Stored]
    /\ saves \in 0..MaxSaves
    /\ tab \in Tabs
    /\ hooks \in Seq(HookIds) /\ Len(hooks) <= MaxHooks
    /\ expanded \subseteq 1..MaxHooks /\ Cardinality(expanded) <= 1
    /\ showParams \subseteq HookIds /\ jsonError \subseteq HookIds

\* The table has loaded the backups as the server has them; the form has
\* its defaultValues (path "", switch off).
Init ==
    /\ backup = None
    /\ path = Empty /\ ephemeral = FALSE
    /\ openedWith = None /\ edited = FALSE
    /\ isSubmitting = FALSE /\ error = FALSE /\ upd = {}
    /\ srv \in [Backups -> Stored]
    /\ rows = srv
    /\ refreshing = FALSE
    /\ saves = 0
    /\ tab = "general" /\ hooks = <<>>
    /\ expanded = {} /\ showParams = {} /\ jsonError = {}

\* Mutant: switching off clears the path whatever it holds.
EphemeralEffectClears(on, p) ==
    IF on /\ p # EPHEMERAL_PATH THEN EPHEMERAL_PATH
    ELSE IF ~on THEN Empty
    ELSE p

\* The effect on [useEphemeralSource]: the path it leaves, given the new
\* switch value and getValues("path").
EphemeralEffect(on, p) ==
    IF on /\ p # EPHEMERAL_PATH THEN EPHEMERAL_PATH
    ELSE IF ~on /\ p = EPHEMERAL_PATH THEN Empty
    ELSE p

\* The switch value after a render: when it changed, the effect runs.
AfterSwitch(old, on, p) == IF on # old THEN EphemeralEffect(on, p) ELSE p

\* The dialog content unmounts: HookManager and its HookItems lose their
\* state, and Tabs returns to its defaultValue when mounted again.
Unmount ==
    /\ tab' = "general" /\ expanded' = {}
    /\ showParams' = {} /\ jsonError' = {}

\* "Edit" on a row: the backup prop changes and the effect on [backup]
\* resets the form from it (useEphemeralSource = path === EPHEMERAL_PATH,
\* hooks with fresh field ids); the re-render then runs the switch effect
\* if the switch changed.
Open(b) ==
    /\ backup = None
    /\ backup' = b
    /\ LET on == rows[b] = EPHEMERAL_PATH IN
         /\ ephemeral' = on
         /\ path' = AfterSwitch(ephemeral, on, rows[b])
    /\ openedWith' = rows[b]
    /\ edited' = FALSE
    /\ hooks' = [i \in 1..HookCount[b] |-> i]
    /\ UNCHANGED <<isSubmitting, error, upd, srv, rows, refreshing, saves,
                   tab, expanded, showParams, jsonError>>

\* Cancel (disabled while submitting) or Esc / the overlay (never
\* disabled): onOpenChange(false), selectedBackup = null.  The form values
\* are not reset.
Close ==
    /\ backup # None
    /\ backup' = None
    /\ Unmount
    /\ UNCHANGED <<path, ephemeral, openedWith, edited, isSubmitting, error,
                   upd, srv, rows, refreshing, saves, hooks>>

\* A tab trigger is clicked; leaving "hooks" unmounts HookManager.
SwitchTab(t) ==
    /\ backup # None
    /\ t # tab
    /\ tab' = t
    /\ IF tab = "hooks"
       THEN expanded' = {} /\ showParams' = {} /\ jsonError' = {}
       ELSE UNCHANGED <<expanded, showParams, jsonError>>
    /\ UNCHANGED <<backup, path, ephemeral, openedWith, edited, isSubmitting,
                   error, upd, srv, rows, refreshing, saves, hooks>>

\* Mutant: the path input is not disabled while the switch is on.
TypePathAlways(v) ==
    /\ backup # None /\ tab = "general"
    /\ v # path
    /\ path' = v
    /\ edited' = TRUE
    /\ UNCHANGED <<backup, ephemeral, openedWith, isSubmitting, error, upd,
                   srv, rows, refreshing, saves, hm>>

\* The user types in the source path input, disabled={useEphemeralSource}.
TypePath(v) ==
    /\ backup # None /\ tab = "general"
    /\ ~ephemeral
    /\ v # path
    /\ path' = v
    /\ edited' = TRUE
    /\ UNCHANGED <<backup, ephemeral, openedWith, isSubmitting, error, upd,
                   srv, rows, refreshing, saves, hm>>

\* The switch is flipped (field.onChange), and the effect runs.
ToggleEphemeral ==
    /\ backup # None /\ tab = "general"
    /\ ephemeral' = ~ephemeral
    /\ path' = EphemeralEffect(~ephemeral, path)
    /\ edited' = TRUE
    /\ UNCHANGED <<backup, openedWith, isSubmitting, error, upd, srv, rows,
                   refreshing, saves, hm>>

HookManagerShown == backup # None /\ tab = "hooks"

\* addHookFromTemplate: append a hook with the template's params, then
\* setExpandedIndex(fields.length), the new hook's position.
AddHook ==
    /\ HookManagerShown
    /\ Len(hooks) < MaxHooks
    /\ LET id == CHOOSE x \in HookIds : \A i \in DOMAIN hooks : hooks[i] # x
       IN hooks' = Append(hooks, id)
    /\ expanded' = {Len(hooks) + 1}
    /\ UNCHANGED <<backup, path, ephemeral, openedWith, edited, isSubmitting,
                   error, upd, srv, rows, refreshing, saves, tab, showParams,
                   jsonError>>

\* toggleExpand(index): a click on the hook's header.
ToggleExpand(i) ==
    /\ HookManagerShown
    /\ i \in DOMAIN hooks
    /\ expanded' = IF i \in expanded THEN {} ELSE {i}
    /\ UNCHANGED <<backup, path, ephemeral, openedWith, edited, isSubmitting,
                   error, upd, srv, rows, refreshing, saves, tab, hooks,
                   showParams, jsonError>>

\* The trash button: remove(index).  The HookItem of that field unmounts;
\* expandedIndex is left as it is.
RemoveHook(i) ==
    /\ HookManagerShown
    /\ i \in DOMAIN hooks
    /\ hooks' = SubSeq(hooks, 1, i - 1) \o SubSeq(hooks, i + 1, Len(hooks))
    /\ showParams' = showParams \ {hooks[i]}
    /\ jsonError' = jsonError \ {hooks[i]}
    /\ UNCHANGED <<backup, path, ephemeral, openedWith, edited, isSubmitting,
                   error, upd, srv, rows, refreshing, saves, tab, expanded>>

\* Show / Hide on the params of an expanded hook.
ToggleShowParams(i) ==
    /\ HookManagerShown
    /\ i \in expanded /\ i \in DOMAIN hooks
    /\ showParams' = IF hooks[i] \in showParams
                     THEN showParams \ {hooks[i]}
                     ELSE showParams \cup {hooks[i]}
    /\ UNCHANGED <<backup, path, ephemeral, openedWith, edited, isSubmitting,
                   error, upd, srv, rows, refreshing, saves, tab, hooks,
                   expanded, jsonError>>

\* handleJsonChange on the shown textarea: empty text sets params {};
\* a JSON object sets the stringified params (and the effect on
\* hookData.params re-syncs the text); anything else only sets jsonError
\* and leaves the params as they were.
EditParams(i, text) ==
    /\ HookManagerShown
    /\ i \in expanded /\ i \in DOMAIN hooks /\ hooks[i] \in showParams
    /\ jsonError' = IF text = "invalid" THEN jsonError \cup {hooks[i]}
                    ELSE jsonError \ {hooks[i]}
    /\ UNCHANGED <<backup, path, ephemeral, openedWith, edited, isSubmitting,
                   error, upd, srv, rows, refreshing, saves, tab, hooks,
                   expanded, showParams>>

\* Mutant: the schema's path.min(1) is missing.
SubmitUnvalidated ==
    /\ backup # None
    /\ ~isSubmitting
    /\ saves < MaxSaves
    /\ saves' = saves + 1
    /\ isSubmitting' = TRUE
    /\ error' = FALSE
    /\ upd' = {[b |-> backup, path |-> path]}
    /\ UNCHANGED <<backup, path, ephemeral, openedWith, edited, srv, rows,
                   refreshing, hm>>

\* "Save Changes" (disabled while submitting): the schema requires a
\* non-empty path; onSubmit sets isSubmitting, clears the error and
\* awaits updateBackup({id: backup.id, path, ..., hooks}).  A hook whose
\* text has a jsonError is sent with its last valid params.
Submit ==
    /\ backup # None
    /\ ~isSubmitting
    /\ path # Empty
    /\ saves < MaxSaves
    /\ saves' = saves + 1
    /\ isSubmitting' = TRUE
    /\ error' = FALSE
    /\ upd' = {[b |-> backup, path |-> path]}
    /\ UNCHANGED <<backup, path, ephemeral, openedWith, edited, srv, rows,
                   refreshing, hm>>

\* updateBackup answers: on success onOpenChange(false) (whichever backup
\* the dialog shows by now) and onSuccess(); on error setError; finally
\* isSubmitting = false.
UpdateReply(u) ==
    /\ u \in upd
    /\ upd' = {}
    /\ isSubmitting' = FALSE
    /\ \/ /\ srv' = [srv EXCEPT ![u.b] = u.path]
          /\ backup' = None /\ Unmount
          /\ refreshing' = TRUE
          /\ UNCHANGED error
       \/ error' = TRUE
          /\ UNCHANGED <<srv, backup, refreshing, tab, expanded, showParams,
                         jsonError>>
    /\ UNCHANGED <<path, ephemeral, openedWith, edited, rows, saves, hooks>>

\* The page's fetch answers and the table gets the backups as stored; or
\* it fails (the backups page sets error, a host's page only logs it) and
\* the rows stay as they were.
RefreshReply ==
    /\ refreshing
    /\ refreshing' = FALSE
    /\ \/ rows' = srv
       \/ UNCHANGED rows
    /\ UNCHANGED <<backup, path, ephemeral, openedWith, edited, isSubmitting,
                   error, upd, srv, saves, hm>>

Next ==
    \/ \E b \in Backups : Open(b)
    \/ Close
    \/ \E t \in Tabs : SwitchTab(t)
    \/ \E v \in Paths \cup {Empty} : TypePath(v)
    \/ ToggleEphemeral
    \/ AddHook
    \/ \E i \in 1..MaxHooks :
         \/ ToggleExpand(i) \/ RemoveHook(i) \/ ToggleShowParams(i)
         \/ \E text \in {"empty", "valid", "invalid"} : EditParams(i, text)
    \/ Submit
    \/ \E u \in upd : UpdateReply(u)
    \/ RefreshReply

Fairness ==
    /\ \A u \in Updates : WF_vars(UpdateReply(u))
    /\ WF_vars(RefreshReply)

Spec == Init /\ [][Next]_vars /\ Fairness

-----------------------------------------------------------------------------
(* Properties                                                              *)

\* While the switch is on the source path is the placeholder, across
\* openings of backups with and without one, typing and toggling: the
\* switch effect puts it in, the reset derives the switch from the path,
\* and the input is disabled.
PlaceholderWhileEphemeral == ephemeral => path = EPHEMERAL_PATH

\* A freshly opened dialog shows the row it was opened for: the reset's
\* values survive the switch effect that the reset itself triggers.
OpenedShowsRow ==
    (backup # None /\ ~edited) =>
        /\ path = openedWith
        /\ ephemeral = (openedWith = EPHEMERAL_PATH)

\* A dialog opened for a backup starts from what the server stores for it:
\* the reset on [backup] reads the table's row, which must not be older
\* than the last save.  About reopening a backup after its save, before
\* (or without) the table's refresh.
OpenedShowsStored == backup # None => openedWith = srv[backup]

=============================================================================
