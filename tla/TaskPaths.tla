----------------------------- MODULE TaskPaths ------------------------------
(***************************************************************************)
(* Where new hosts and backup tasks put their files: the add-host form     *)
(* (host/components/add-host-form.tsx), the new-backup page               *)
(* (create-backup-form-client.tsx around backup/components/               *)
(* create-backup-form.tsx) and computeBackupFullPath                       *)
(* (backup/utils/backup-path.ts), which the form shows as "Full path on    *)
(* backup server".  Spec section 2: a host's path is a slug of its name,   *)
(* a task's full destination is backupRoot/hostPath/destination, and      *)
(* (section 5) no two tasks' destination subtrees overlap.                 *)
(*                                                                         *)
(* Strings are sequences of one-character strings over a small alphabet:   *)
(* the slug and the path cleaning are about characters, so they are       *)
(* modelled on characters.  The server (not in this repository) is taken   *)
(* to store what the forms send, or to fail.  Hostname, user, port,        *)
(* schedule, excludes, retention, encryption and hooks only ever block a   *)
(* submission when invalid; they are left out.                             *)
(***************************************************************************)
EXTENDS Naturals, Sequences, SequencesExt, FiniteSets

CONSTANTS
    Chars,          \* the alphabet, "/" and "-" included
    AlNum,          \* the characters matching [a-z0-9]
    Lower,          \* Lower[c]: c.toLowerCase()
    Root,           \* BACKUP_ROOT
    Names,          \* what the user may type as a host's name
    HostPathInputs, \* what the user may type over the host path (slug) field
    SourceInputs,   \* what the user may type as a task's source path
    DestInputs,     \* what the user may type as a task's destination
    MaxHosts,       \* bound on hosts created
    MaxTasks,       \* bound on tasks created
    MaxMounts       \* bound on form pages opened

Empty == <<>>

\* The placeholder path of an ephemeral source.
EPHEMERAL_PATH == <<"{">>

-----------------------------------------------------------------------------
(* String helpers                                                          *)

\* s without its leading characters c.
RECURSIVE DropLeading(_, _)
DropLeading(s, c) ==
    IF s # <<>> /\ Head(s) = c THEN DropLeading(Tail(s), c) ELSE s

\* s without its trailing characters c.
DropTrailing(s, c) == Reverse(DropLeading(Reverse(s), c))

\* s with its leading characters outside AlNum removed.
RECURSIVE DropNonAlNum(_)
DropNonAlNum(s) ==
    IF s # <<>> /\ Head(s) \notin AlNum THEN DropNonAlNum(Tail(s)) ELSE s

\* path.split("/").filter(Boolean): the non-empty segments of s.
RECURSIVE Segments(_)
Segments(s) ==
    LET t == DropLeading(s, "/")
        n == IF \E i \in 1..Len(t) : t[i] = "/"
             THEN CHOOSE i \in 1..Len(t) : t[i] = "/" /\
                      \A j \in 1..i - 1 : t[j] # "/"
             ELSE Len(t) + 1
    IN IF t = <<>> THEN <<>>
       ELSE <<SubSeq(t, 1, n - 1)>> \o Segments(SubSeq(t, n, Len(t)))

\* parts.join("/").
Join(parts) ==
    IF parts = <<>> THEN <<>>
    ELSE FoldLeft(LAMBDA acc, p : acc \o <<"/">> \o p, Head(parts), Tail(parts))

-----------------------------------------------------------------------------
(* The add-host form's slug effect:                                        *)
(*   nameValue.toLowerCase().replace(/[^a-z0-9]+/g, "-")                   *)
(*            .replace(/(^-|-$)+/g, "")                                    *)

\* replace(/[^a-z0-9]+/g, "-"): every maximal run outside [a-z0-9] becomes
\* one "-".
RECURSIVE CollapseRuns(_)
CollapseRuns(s) ==
    IF s = <<>> THEN <<>>
    ELSE IF Head(s) \in AlNum THEN <<Head(s)>> \o CollapseRuns(Tail(s))
    ELSE <<"-">> \o CollapseRuns(DropNonAlNum(Tail(s)))

\* replace(/(^-|-$)+/g, ""): a "-" at the start and one at the end go.
StripDashes(s) ==
    LET a == IF s # <<>> /\ Head(s) = "-" THEN Tail(s) ELSE s
    IN IF a # <<>> /\ Last(a) = "-" THEN Front(a) ELSE a

Slug(name) == StripDashes(CollapseRuns([i \in 1..Len(name) |-> Lower[name[i]]]))

-----------------------------------------------------------------------------
(* computeBackupFullPath(backupRoot, hostPath, destination)                *)

FullPath(backupRoot, hostPath, destination) ==
    LET cleanRoot == DropTrailing(backupRoot, "/")
        cleanHostPath == DropTrailing(DropLeading(hostPath, "/"), "/")
        cleanDest == DropLeading(destination, "/")
    IN Join(<<cleanRoot>>
            \o (IF cleanHostPath # <<>> THEN <<cleanHostPath>> ELSE <<>>)
            \o (IF cleanDest # <<>> THEN <<cleanDest>> ELSE <<>>))

\* handlePathBlur's autofill: the last segment of the source path.
LastSegment(path) ==
    LET segments == Segments(path)
    IN IF Len(segments) > 0 THEN Last(segments) ELSE <<>>

-----------------------------------------------------------------------------
(* The pages.  page is "list" (any page without a form: the hosts list, a  *)
(* host's page), "addHost" (/hosts/new) or "newBackup"                     *)
(* (/hosts/[id]/backups/new).  Each opening mounts fresh components: mount *)
(* numbers it, and a reply to an older mount finds its component gone and  *)
(* its setState a no-op; the request itself still reaches the server.      *)

VARIABLES
    hosts,       \* server: the hosts, as [id, path]
    tasks,       \* server: the backup tasks, as [id, host, src, dest]
    reqs,        \* requests awaiting their reply
    page, mount, forHost,
    name, hPath, isLoading, hError,            \* AddHostForm
    cwLoading, cwError, hostPath,              \* CreateBackupFormClient
    path, destination, useEphemeralSource,     \* CreateBackupForm fields
    isSubmitting, error                        \* CreateBackupForm state

vars == <<hosts, tasks, reqs, page, mount, forHost, name, hPath, isLoading,
          hError, cwLoading, cwError, hostPath, path, destination,
          useEphemeralSource, isSubmitting, error>>

HostIds == 1..MaxHosts
PathOf(h) == (CHOOSE x \in hosts : x.id = h).path
Pending(kind) == {r \in reqs : r.kind = kind}

TypeOK ==
    /\ page \in {"list", "addHost", "newBackup"} /\ mount \in 0..MaxMounts
    /\ {isLoading, hError, cwLoading, cwError, useEphemeralSource,
        isSubmitting, error} \subseteq BOOLEAN
    /\ Cardinality(hosts) <= MaxHosts /\ Cardinality(tasks) <= MaxTasks

Init ==
    /\ hosts = {} /\ tasks = {} /\ reqs = {}
    /\ page = "list" /\ mount = 0 /\ forHost = 0
    /\ name = Empty /\ hPath = Empty /\ isLoading = FALSE /\ hError = FALSE
    /\ cwLoading = FALSE /\ cwError = FALSE /\ hostPath = Empty
    /\ path = Empty /\ destination = Empty /\ useEphemeralSource = FALSE
    /\ isSubmitting = FALSE /\ error = FALSE

AddHostVars == <<name, hPath, isLoading, hError>>
NewBackupVars == <<forHost, cwLoading, cwError, hostPath, path, destination,
                   useEphemeralSource, isSubmitting, error>>

\* "Add Host" on the hosts list: AddHostForm mounts with its defaultValues.
OpenAddHost ==
    /\ page = "list" /\ mount < MaxMounts
    /\ mount' = mount + 1 /\ page' = "addHost"
    /\ name' = Empty /\ hPath' = Empty /\ isLoading' = FALSE /\ hError' = FALSE
    /\ UNCHANGED <<hosts, tasks, reqs, NewBackupVars>>

\* Typing the name; the effect on [nameValue] then sets path to its slug
\* when the name is not empty.
TypeName(n) ==
    /\ page = "addHost" /\ n # name
    /\ name' = n
    /\ hPath' = IF n # Empty THEN Slug(n) ELSE hPath
    /\ UNCHANGED <<hosts, tasks, reqs, page, mount, isLoading, hError,
                   NewBackupVars>>

\* Typing over the "Host Path (Slug)" field.
TypeHostPath(p) ==
    /\ page = "addHost"
    /\ hPath' = p
    /\ UNCHANGED <<hosts, tasks, reqs, page, mount, name, isLoading, hError,
                   NewBackupVars>>

\* hostSchema: name and path min(1) (the fields left out taken valid).
HostSchemaValid == name # Empty /\ hPath # Empty

\* "Add Host" (disabled while isLoading): handleSubmit validates, then
\* onSubmit: isLoading, error cleared, createHost(data) awaited.
SubmitHost ==
    /\ page = "addHost" /\ ~isLoading /\ HostSchemaValid
    /\ Cardinality(hosts) + Cardinality(Pending("host")) < MaxHosts
    /\ isLoading' = TRUE /\ hError' = FALSE
    /\ reqs' = reqs \cup {[kind |-> "host", mount |-> mount, path |-> hPath]}
    /\ UNCHANGED <<hosts, tasks, page, mount, name, hPath, NewBackupVars>>

\* createHost answers.  Success: the server stores the host, then
\* router.push("/hosts") starts a navigation and finally clears isLoading;
\* the form stays until the navigation lands (Leave).  Failure: setError,
\* then isLoading off.
HostReply(r) ==
    /\ r.kind = "host"
    /\ reqs' = reqs \ {r}
    /\ LET here == page = "addHost" /\ r.mount = mount IN
       \/ /\ hosts' = hosts \cup {[id |-> Cardinality(hosts) + 1,
                                   path |-> r.path]}
          /\ isLoading' = (isLoading /\ ~here)
          /\ UNCHANGED hError
       \/ /\ UNCHANGED hosts
          /\ hError' = (hError \/ here)
          /\ isLoading' = (isLoading /\ ~here)
    /\ UNCHANGED <<tasks, page, mount, name, hPath, NewBackupVars>>

\* "New backup" on host h's page: CreateBackupFormClient mounts with
\* isLoading and fetches the host.
OpenNewBackup(h) ==
    /\ page = "list" /\ mount < MaxMounts /\ \E x \in hosts : x.id = h
    /\ mount' = mount + 1 /\ page' = "newBackup" /\ forHost' = h
    /\ cwLoading' = TRUE /\ cwError' = FALSE /\ hostPath' = Empty
    /\ path' = Empty /\ destination' = Empty /\ useEphemeralSource' = FALSE
    /\ isSubmitting' = FALSE /\ error' = FALSE
    /\ reqs' = reqs \cup {[kind |-> "getHost", mount |-> mount + 1, host |-> h]}
    /\ UNCHANGED <<hosts, tasks, AddHostVars>>

\* getHost answers: the form renders with hostPath = host.path, or the
\* page shows the error instead of the form.
GetHostReply(r) ==
    /\ r.kind = "getHost"
    /\ reqs' = reqs \ {r}
    /\ IF page = "newBackup" /\ r.mount = mount
       THEN /\ cwLoading' = FALSE
            /\ \/ hostPath' = PathOf(r.host) /\ UNCHANGED cwError
               \/ cwError' = TRUE /\ UNCHANGED hostPath
       ELSE UNCHANGED <<cwLoading, cwError, hostPath>>
    /\ UNCHANGED <<hosts, tasks, page, mount, forHost, AddHostVars, path,
                   destination, useEphemeralSource, isSubmitting, error>>

FormShown == page = "newBackup" /\ ~cwLoading /\ ~cwError

\* Typing in "Source Path" (disabled while useEphemeralSource).
TypePath(p) ==
    /\ FormShown /\ ~useEphemeralSource
    /\ path' = p
    /\ UNCHANGED <<hosts, tasks, reqs, page, mount, AddHostVars, forHost,
                   cwLoading, cwError, hostPath, destination,
                   useEphemeralSource, isSubmitting, error>>

\* Leaving "Source Path": handlePathBlur with a non-empty path fills an
\* empty destination with the path's last segment (the size measurement it
\* then starts is SizeEstimation's).
BlurPath ==
    /\ FormShown /\ ~useEphemeralSource /\ path # Empty
    /\ destination' = IF destination = Empty /\ LastSegment(path) # Empty
                      THEN LastSegment(path) ELSE destination
    /\ UNCHANGED <<hosts, tasks, reqs, page, mount, AddHostVars, forHost,
                   cwLoading, cwError, hostPath, path, useEphemeralSource,
                   isSubmitting, error>>

\* Typing in "Destination Name".
TypeDestination(d) ==
    /\ FormShown
    /\ destination' = d
    /\ UNCHANGED <<hosts, tasks, reqs, page, mount, AddHostVars, forHost,
                   cwLoading, cwError, hostPath, path, useEphemeralSource,
                   isSubmitting, error>>

\* The "Use Ephemeral Source" switch, and the render that follows it: on,
\* path becomes the placeholder; off, a placeholder path is cleared.
ToggleEphemeral ==
    /\ FormShown
    /\ useEphemeralSource' = ~useEphemeralSource
    /\ path' = IF ~useEphemeralSource THEN EPHEMERAL_PATH
               ELSE IF path = EPHEMERAL_PATH THEN Empty ELSE path
    /\ UNCHANGED <<hosts, tasks, reqs, page, mount, AddHostVars, forHost,
                   cwLoading, cwError, hostPath, destination, isSubmitting,
                   error>>

\* backupSchema: path and destination min(1) (the schedule is
\* CronSchedule's; the fields left out taken valid).
BackupSchemaValid == path # Empty /\ destination # Empty

\* "Create Backup Task" (disabled while isSubmitting): handleSubmit
\* validates, then onSubmit: isSubmitting, error cleared, createBackup
\* awaited.
SubmitTask ==
    /\ FormShown /\ ~isSubmitting /\ BackupSchemaValid
    /\ Cardinality(tasks) + Cardinality(Pending("task")) < MaxTasks
    /\ isSubmitting' = TRUE /\ error' = FALSE
    /\ reqs' = reqs \cup {[kind |-> "task", mount |-> mount, host |-> forHost,
                           src |-> path, dest |-> destination]}
    /\ UNCHANGED <<hosts, tasks, page, mount, AddHostVars, forHost, cwLoading,
                   cwError, hostPath, path, destination, useEphemeralSource>>

\* createBackup answers.  Success: the server stores the task, then
\* router.push(`/hosts/${hostId}`) and router.refresh() start a navigation
\* and finally clears isSubmitting; the form stays until it lands.
\* Failure: setError, then isSubmitting off.
TaskReply(r) ==
    /\ r.kind = "task"
    /\ reqs' = reqs \ {r}
    /\ LET here == page = "newBackup" /\ r.mount = mount IN
       \/ /\ tasks' = tasks \cup {[id |-> Cardinality(tasks) + 1, host |-> r.host,
                                   src |-> r.src, dest |-> r.dest]}
          /\ isSubmitting' = (isSubmitting /\ ~here)
          /\ UNCHANGED error
       \/ /\ UNCHANGED tasks
          /\ error' = (error \/ here)
          /\ isSubmitting' = (isSubmitting /\ ~here)
    /\ UNCHANGED <<hosts, page, mount, AddHostVars, forHost, cwLoading,
                   cwError, hostPath, path, destination, useEphemeralSource>>

\* A navigation lands (a router.push, or a sidebar link): the form
\* unmounts.
Leave ==
    /\ page # "list"
    /\ page' = "list"
    /\ UNCHANGED <<hosts, tasks, reqs, mount, AddHostVars, NewBackupVars>>

Next ==
    \/ OpenAddHost \/ SubmitHost \/ Leave
    \/ \E n \in Names \cup {Empty} : TypeName(n)
    \/ \E p \in HostPathInputs : TypeHostPath(p)
    \/ \E h \in HostIds : OpenNewBackup(h)
    \/ \E p \in SourceInputs \cup {Empty} : TypePath(p)
    \/ BlurPath \/ ToggleEphemeral \/ SubmitTask
    \/ \E d \in DestInputs \cup {Empty} : TypeDestination(d)
    \/ \E r \in reqs : HostReply(r) \/ GetHostReply(r) \/ TaskReply(r)

Spec == Init /\ [][Next]_vars

-----------------------------------------------------------------------------
(* Properties                                                              *)

\* The directory a task writes to, as the form showed it ("Full path on
\* backup server"), split into its segments.
TaskDir(t) == Segments(FullPath(Root, PathOf(t.host), t.dest))

\* Spec section 5: each task's destination subtree is its own; no task's
\* directory is, or lies inside, another's.  About the forms letting the
\* user create such tasks: handlePathBlur's autofill, the slug effect and
\* the free-text path and destination fields, and a submit button enabled
\* again before router.push lands.
DestinationsDisjoint ==
    \A t1, t2 \in tasks :
        t1.id # t2.id => ~IsPrefix(TaskDir(t1), TaskDir(t2))

=============================================================================
