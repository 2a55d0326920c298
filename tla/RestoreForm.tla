----------------------------- MODULE RestoreForm -----------------------------
(***************************************************************************)
(* The restore page's backup select and the RestoreForm it shows for the   *)
(* selected backup (app/(dashboard)/restore/page.tsx, restore-form.tsx),   *)
(* within the list of one host's backups.  A host change empties the       *)
(* selection, so it acts on the form as choosing "Select a backup          *)
(* task..." does; FetchViews models the fetching of the list.              *)
(*                                                                         *)
(* The form is rendered without a key: it is mounted when a backup gets    *)
(* selected, keeps its state (react-hook-form's values among it) while the *)
(* selection moves from one backup to another, and is unmounted when none  *)
(* is selected or a restoration was triggered.  react-hook-form reads      *)
(* defaultValues at mount only.  A backup is abstracted to its path: the   *)
(* default target_path of the form mounted for backup b is b.  A mount is  *)
(* numbered; a reply reaching an unmounted instance changes nothing of it. *)
(***************************************************************************)
EXTENDS Naturals, FiniteSets

CONSTANTS
    Backups,       \* the listed backups of the selected host (their paths)
    TargetInputs,  \* target paths the user may type
    MaxMounts,     \* bound on mounts of the form
    MaxPosts,      \* bound on restoreBackup POSTs
    MaxHostLoads   \* bound on the form's getHosts requests

None == "none"
Empty == ""
Paths == Backups \cup TargetInputs \cup {Empty}
PostReqs == [n : 1..MaxPosts, mount : 1..MaxMounts, backup_id : Backups,
             target_path : Paths, typed : BOOLEAN]

VARIABLES
    selected,      \* selectedBackupId (None: "")
    restored,      \* restorationTaskId is set
    mount,         \* number of the mounted (or last mounted) form
    restoreType,   \* watch("restore_type")
    pathOK,        \* the "path" field is non-empty
    targetPath,    \* the "target_path" field
    typed,         \* the user edited target_path in this form
    loadingHosts,  \* the form's loadingHosts
    hReqs,         \* the form's getHosts requests awaiting their reply
    nHosts,        \* getHosts requests issued by forms
    isSubmitting,  \* isSubmitting
    error,         \* the form's error is set
    posts,         \* restoreBackup POSTs awaiting their reply
    sent           \* restoreBackup requests the server received

vars == <<selected, restored, mount, restoreType, pathOK, targetPath, typed,
          loadingHosts, hReqs, nHosts, isSubmitting, error, posts, sent>>
formVars == <<restoreType, pathOK, targetPath, typed, loadingHosts,
              isSubmitting, error>>

TypeOK ==
    /\ selected \in Backups \cup {None}
    /\ {restored, pathOK, typed, loadingHosts, isSubmitting, error}
           \subseteq BOOLEAN
    /\ mount \in 0..MaxMounts
    /\ restoreType \in {"remote", "local"}
    /\ targetPath \in Paths
    /\ hReqs \subseteq [n : 1..MaxHostLoads, mount : 1..MaxMounts]
    /\ nHosts \in 0..MaxHostLoads
    /\ posts \subseteq PostReqs /\ sent \subseteq PostReqs

Init ==
    /\ selected = None /\ restored = FALSE /\ mount = 0
    /\ restoreType = "remote" /\ pathOK = TRUE /\ targetPath = Empty
    /\ typed = FALSE /\ loadingHosts = FALSE /\ hReqs = {} /\ nHosts = 0
    /\ isSubmitting = FALSE /\ error = FALSE /\ posts = {} /\ sent = {}

\* {selectedBackup && !restorationTaskId && <RestoreForm .../>}
FormShown(sel, done) == sel # None /\ ~done

\* The effect on [restoreType]: for "remote", loadingHosts on and
\* getHosts() sent by form number m.
LoadHosts(m) ==
    /\ nHosts < MaxHostLoads
    /\ nHosts' = nHosts + 1
    /\ hReqs' = hReqs \cup {[n |-> nHosts + 1, mount |-> m]}
    /\ loadingHosts' = TRUE

\* A new RestoreForm for backup b: fresh useState values, useForm with
\* defaultValues {path: "/", restore_type: "remote", target_path:
\* backup.path}, and the [restoreType] effect run at mount.
Mount(b) ==
    /\ mount < MaxMounts
    /\ mount' = mount + 1
    /\ restoreType' = "remote" /\ pathOK' = TRUE
    /\ targetPath' = b /\ typed' = FALSE
    /\ isSubmitting' = FALSE /\ error' = FALSE
    /\ LoadHosts(mount + 1)

\* The backup select's onChange: setSelectedBackupId.  The form is mounted
\* when it appears and keeps all its state while it stays.
SelectBackup(c) ==
    /\ c # selected
    /\ selected' = c
    /\ IF FormShown(c, restored) /\ ~FormShown(selected, restored)
       THEN Mount(c)
       ELSE UNCHANGED <<mount, formVars, hReqs, nHosts>>
    /\ UNCHANGED <<restored, posts, sent>>

\* A getHosts reply: setHosts or setError("Failed to load hosts"), finally
\* loadingHosts off; only the form that sent it, if still mounted, sees it.
HostsReply(r) ==
    /\ r \in hReqs
    /\ hReqs' = hReqs \ {r}
    /\ IF r.mount = mount /\ FormShown(selected, restored)
       THEN /\ loadingHosts' = FALSE
            /\ \/ UNCHANGED error
               \/ error' = TRUE
       ELSE UNCHANGED <<loadingHosts, error>>
    /\ UNCHANGED <<selected, restored, mount, restoreType, pathOK, targetPath,
                   typed, nHosts, isSubmitting, posts, sent>>

\* The Remote / Local radios; switching to "remote" reruns the effect.
SetRestoreType(t) ==
    /\ FormShown(selected, restored)
    /\ t # restoreType
    /\ restoreType' = t
    /\ IF t = "remote" THEN LoadHosts(mount)
       ELSE UNCHANGED <<loadingHosts, hReqs, nHosts>>
    /\ UNCHANGED <<selected, restored, mount, pathOK, targetPath, typed,
                   isSubmitting, error, posts, sent>>

\* The "path" input: emptied or filled in.
SetPath(ok) ==
    /\ FormShown(selected, restored)
    /\ ok # pathOK
    /\ pathOK' = ok
    /\ UNCHANGED <<selected, restored, mount, restoreType, targetPath, typed,
                   loadingHosts, hReqs, nHosts, isSubmitting, error, posts,
                   sent>>

\* The "target_path" input, rendered for a remote restore.
TypeTarget(t) ==
    /\ FormShown(selected, restored)
    /\ restoreType = "remote"
    /\ t # targetPath
    /\ targetPath' = t /\ typed' = TRUE
    /\ UNCHANGED <<selected, restored, mount, restoreType, pathOK,
                   loadingHosts, hReqs, nHosts, isSubmitting, error, posts,
                   sent>>

\* restoreSchema: path of at least one character; target_path optional.
RestoreSchemaValid == pathOK

\* The submit button (disabled while submitting and for a local restore)
\* runs handleSubmit(onSubmit): isSubmitting on, error cleared; an empty
\* target_path of a remote restore throws before the POST, and finally
\* turns isSubmitting off; otherwise restoreBackup({backup_id: backup.id,
\* ..., target_path}) is sent and awaited.
Submit ==
    /\ FormShown(selected, restored)
    /\ ~isSubmitting /\ restoreType = "remote"
    /\ RestoreSchemaValid
    /\ IF targetPath = Empty
       THEN /\ error' = TRUE
            /\ UNCHANGED <<isSubmitting, posts, sent>>
       ELSE LET r == [n |-> Cardinality(sent) + 1, mount |-> mount,
                      backup_id |-> selected, target_path |-> targetPath,
                      typed |-> typed]
            IN  /\ Cardinality(sent) < MaxPosts
                /\ isSubmitting' = TRUE /\ error' = FALSE
                /\ posts' = posts \cup {r}
                /\ sent' = sent \cup {r}
    /\ UNCHANGED <<selected, restored, mount, restoreType, pathOK, targetPath,
                   typed, loadingHosts, hReqs, nHosts>>

\* The POST answers: onSuccess(task_id) sets the page's restorationTaskId
\* whether or not the form is still mounted; an error is shown by the form
\* that sent it; finally isSubmitting off in that form.
RestoreReply(r) ==
    /\ r \in posts
    /\ posts' = posts \ {r}
    /\ \/ restored' = TRUE /\ UNCHANGED error
       \/ /\ error' = (IF r.mount = mount /\ FormShown(selected, restored)
                       THEN TRUE ELSE error)
          /\ UNCHANGED restored
    /\ isSubmitting' = (IF r.mount = mount /\ FormShown(selected, restored)
                        THEN FALSE ELSE isSubmitting)
    /\ UNCHANGED <<selected, mount, restoreType, pathOK, targetPath, typed,
                   loadingHosts, hReqs, nHosts, sent>>

\* "Start Another Restoration": restorationTaskId and selectedBackupId
\* cleared.
StartAnother ==
    /\ restored
    /\ restored' = FALSE /\ selected' = None
    /\ UNCHANGED <<mount, formVars, hReqs, nHosts, posts, sent>>

Next ==
    \/ \E c \in Backups \cup {None} : SelectBackup(c)
    \/ \E r \in hReqs : HostsReply(r)
    \/ \E t \in {"remote", "local"} : SetRestoreType(t)
    \/ \E ok \in BOOLEAN : SetPath(ok)
    \/ \E t \in TargetInputs \cup {Empty} : TypeTarget(t)
    \/ Submit
    \/ \E r \in posts : RestoreReply(r)
    \/ StartAnother

Spec == Init /\ [][Next]_vars

\* Every restoreBackup request whose target_path the user did not edit
\* restores its backup to that backup's own path, the default RestoreForm
\* gives target_path; about the form kept mounted across a change of the
\* selected backup.
RestoreTargetsItsBackup ==
    \A r \in sent : ~r.typed => r.target_path = r.backup_id

=============================================================================
