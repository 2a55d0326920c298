---------------------------- MODULE SettingsPage ----------------------------
(***************************************************************************)
(* The settings page (app/(dashboard)/settings/page.tsx) and the           *)
(* notification form of its "Notifications" tab                           *)
(* (notification/components/notification-settings-form.tsx), against the  *)
(* server state they read and write.                                       *)
(*                                                                         *)
(* The page loads the SSH key and the CLI token status, then offers        *)
(* Generate / Regenerate and Revoke for the token.  None of these buttons  *)
(* is disabled while a request is in flight, and each reply is applied as  *)
(* it arrives.  A generated token is named by the number of the request    *)
(* that created it; the server accepts one token at a time, and            *)
(* generating replaces the old one ("This will invalidate your current     *)
(* token immediately").                                                    *)
(*                                                                         *)
(* The notification form is mounted while the Notifications tab is shown  *)
(* (Radix TabsContent unmounts inactive content).  On mount it fetches the *)
(* three providers' settings with Promise.allSettled and resets the form   *)
(* with the ones that arrived; on submit it PUTs all three providers with  *)
(* Promise.all.  A provider's configuration is abstracted to whether it is *)
(* enabled and whether its required fields are filled.                     *)
(***************************************************************************)
EXTENDS Integers, FiniteSets

CONSTANTS
    Providers,         \* "gotify", "smtp", "pushbullet"
    ServerInit,        \* ServerInit[p]: the configuration stored at start
    MaxTokenRequests,  \* bound on generate and revoke clicks
    MaxMounts,         \* bound on openings of the Notifications tab
    MaxSaves           \* bound on submits of the notification form

None == "none"
NoToken == -1      \* null token (token ids are 0..MaxTokenRequests)
Tabs == {"general", "notifications"}
Statuses == {None, "success", "error"}

\* A provider's form values: enabled, and the required fields filled or not.
Configs == [enabled : BOOLEAN, fields : {"empty", "full"}]

\* defaultValues of useForm: every provider disabled with empty fields.
Default == [enabled |-> FALSE, fields |-> "empty"]

\* The three .refine checks of notificationSchema: an enabled provider
\* needs all of its required fields.
Valid(c) == c.enabled => c.fields = "full"

TokenIds == 0..MaxTokenRequests
TokenReqs == [kind : {"generate", "revoke"}, n : 1..MaxTokenRequests]
TokenReplies == [kind : {"generate", "revoke"}, n : 1..MaxTokenRequests,
                 ok : BOOLEAN]
Puts == [m : 1..MaxMounts, s : 1..MaxSaves, p : Providers, c : Configs,
         known : BOOLEAN]

VARIABLES
    \* server
    srvToken,     \* the accepted CLI token (NoToken: none)
    srvConfig,    \* srvConfig[p]: provider p's stored settings
    \* SettingsPage
    isLoading,    \* isLoading
    error,        \* error is set: the page shows only "Error: ..."
    tokenExists,  \* tokenStatus?.exists
    newToken,     \* newToken (NoToken: null)
    tab,          \* the Tabs' active value
    tokReqs,      \* token requests not yet handled by the server
    tokReplies,   \* handled token requests whose reply is in flight
    nTok,         \* token requests sent
    \* NotificationSettingsForm
    mounted,      \* the form is mounted
    mount,        \* number of the current (or last) mount
    isFetching,   \* isFetching
    form,         \* form[p]: provider p's form values
    known,        \* providers whose form values were loaded or typed
    nfIsLoading,  \* the form's isLoading (a save is in flight)
    status,       \* status.type (None: null)
    pending,      \* providers whose PUT of the current save is unanswered
    puts,         \* PUTs in flight
    nSave         \* submits sent

server == <<srvToken, srvConfig>>
page == <<isLoading, error, tokenExists, newToken, tab, tokReqs, tokReplies,
          nTok>>
nf == <<mounted, mount, isFetching, form, known, nfIsLoading, status,
        pending, puts, nSave>>
vars == <<server, page, nf>>

TypeOK ==
    /\ srvToken \in TokenIds \cup {NoToken}
    /\ srvConfig \in [Providers -> Configs]
    /\ {isLoading, error, tokenExists, mounted, isFetching, nfIsLoading}
          \subseteq BOOLEAN
    /\ newToken \in TokenIds \cup {NoToken}
    /\ tab \in Tabs
    /\ tokReqs \subseteq TokenReqs
    /\ tokReplies \subseteq TokenReplies
    /\ nTok \in 0..MaxTokenRequests
    /\ mount \in 0..MaxMounts
    /\ form \in [Providers -> Configs]
    /\ known \subseteq Providers
    /\ status \in Statuses
    /\ pending \subseteq Providers
    /\ puts \subseteq Puts
    /\ nSave \in 0..MaxSaves

Init ==
    /\ srvToken \in {NoToken, 0}
    /\ srvConfig = ServerInit
    /\ isLoading = TRUE
    /\ error = FALSE
    /\ tokenExists = FALSE
    /\ newToken = NoToken
    /\ tab = "general"
    /\ tokReqs = {}
    /\ tokReplies = {}
    /\ nTok = 0
    /\ mounted = FALSE
    /\ mount = 0
    /\ isFetching = TRUE
    /\ form = [p \in Providers |-> Default]
    /\ known = {}
    /\ nfIsLoading = FALSE
    /\ status = None
    /\ pending = {}
    /\ puts = {}
    /\ nSave = 0

\* The page's content (tabs, token card, form) is rendered.
Shown == ~isLoading /\ ~error

-----------------------------------------------------------------------------
(* SettingsPage                                                            *)

\* fetchData: Promise.all of getSSHKey and getTokenStatus settles; a
\* failure of either sets error, and finally clears isLoading.
PageLoadReply ==
    /\ isLoading
    /\ \/ tokenExists' = (srvToken # NoToken) /\ UNCHANGED error
       \/ error' = TRUE /\ UNCHANGED tokenExists
    /\ isLoading' = FALSE
    /\ UNCHANGED <<server, newToken, tab, tokReqs, tokReplies, nTok, nf>>

\* handleGenerateToken, from "Generate Token" (no token) or from the
\* Regenerate dialog's action (a token exists): POST /api/settings/token.
ClickGenerate ==
    /\ Shown
    /\ tab = "general"
    /\ nTok < MaxTokenRequests
    /\ tokReqs' = tokReqs \cup {[kind |-> "generate", n |-> nTok + 1]}
    /\ nTok' = nTok + 1
    /\ UNCHANGED <<server, isLoading, error, tokenExists, newToken, tab,
                   tokReplies, nf>>

\* handleRevokeToken, from the Revoke dialog, which is rendered only while
\* tokenStatus.exists: DELETE /api/settings/token.
ClickRevoke ==
    /\ Shown
    /\ tab = "general"
    /\ tokenExists
    /\ nTok < MaxTokenRequests
    /\ tokReqs' = tokReqs \cup {[kind |-> "revoke", n |-> nTok + 1]}
    /\ nTok' = nTok + 1
    /\ UNCHANGED <<server, isLoading, error, tokenExists, newToken, tab,
                   tokReplies, nf>>

\* The server handles a token request, in any order relative to the others,
\* and succeeds or fails.
ServeToken(r) ==
    /\ r \in tokReqs
    /\ \E ok \in BOOLEAN :
         /\ srvToken' = IF ~ok THEN srvToken
                        ELSE IF r.kind = "generate" THEN r.n ELSE NoToken
         /\ tokReplies' = tokReplies \cup {[kind |-> r.kind, n |-> r.n, ok |-> ok]}
    /\ tokReqs' = tokReqs \ {r}
    /\ UNCHANGED <<srvConfig, isLoading, error, tokenExists, newToken, tab,
                   nTok, nf>>

\* The rest of handleGenerateToken / handleRevokeToken after the await.  A
\* failure sets error, which replaces the whole page (and unmounts the
\* notification form) for good.
TokenReply(rep) ==
    /\ rep \in tokReplies
    /\ \/ /\ rep.ok /\ rep.kind = "generate"
          /\ tokenExists' = TRUE
          /\ newToken' = rep.n
          /\ UNCHANGED <<error, mounted>>
       \/ /\ rep.ok /\ rep.kind = "revoke"
          /\ tokenExists' = FALSE
          /\ newToken' = NoToken
          /\ UNCHANGED <<error, mounted>>
       \/ /\ ~rep.ok
          /\ error' = TRUE
          /\ mounted' = FALSE
          /\ UNCHANGED <<tokenExists, newToken>>
    /\ tokReplies' = tokReplies \ {rep}
    /\ UNCHANGED <<server, isLoading, tab, tokReqs, nTok, mount, isFetching,
                   form, known, nfIsLoading, status, pending, puts, nSave>>

-----------------------------------------------------------------------------
(* NotificationSettingsForm                                                *)

\* NotificationSettingsForm mounts: useForm with defaultValues, isFetching
\* true, isLoading false, status null, and the effect starts loadSettings.
MountForm ==
    /\ mount < MaxMounts
    /\ mounted' = TRUE
    /\ mount' = mount + 1
    /\ isFetching' = TRUE
    /\ form' = [p \in Providers |-> Default]
    /\ known' = {}
    /\ nfIsLoading' = FALSE
    /\ status' = None
    /\ pending' = {}
    /\ UNCHANGED <<puts, nSave>>

\* The form unmounts: its state is gone, its requests stay in flight and
\* their replies reach no component.
UnmountForm ==
    /\ mounted' = FALSE
    /\ UNCHANGED <<mount, isFetching, form, known, nfIsLoading, status,
                   pending, puts, nSave>>

\* A tab trigger: Radix TabsContent renders only the active tab, so
\* showing Notifications mounts the form and showing General unmounts it.
SelectTab(t) ==
    /\ Shown
    /\ t # tab
    /\ tab' = t
    /\ IF t = "notifications" THEN MountForm ELSE UnmountForm
    /\ UNCHANGED <<server, isLoading, error, tokenExists, newToken, tokReqs,
                   tokReplies, nTok>>

\* loadSettings: Promise.allSettled of the three getSettings calls; reset
\* merges the providers that arrived into the current values (the others
\* keep their defaults), then isFetching is cleared.
LoadReply ==
    /\ mounted
    /\ isFetching
    /\ \E arrived \in SUBSET Providers :
         /\ form' = [p \in Providers |->
                       IF p \in arrived THEN srvConfig[p] ELSE form[p]]
         /\ known' = arrived
    /\ isFetching' = FALSE
    /\ UNCHANGED <<server, page, mounted, mount, nfIsLoading, status, pending,
                   puts, nSave>>

\* The user types into a provider's inputs or flips its switches
\* (register / setValue), nothing disabled while a save is in flight.
Edit(p, c) ==
    /\ mounted
    /\ ~isFetching
    /\ c # form[p]
    /\ form' = [form EXCEPT ![p] = c]
    /\ known' = known \cup {p}
    /\ UNCHANGED <<server, page, mounted, mount, isFetching, nfIsLoading,
                   status, pending, puts, nSave>>

\* handleSubmit(onSubmit) from a "Save Configuration" button (disabled
\* while isLoading).  zodResolver rejects the whole form if any provider
\* fails its refine, and onSubmit is not called; otherwise onSubmit clears
\* status and PUTs every provider's values.
Submit ==
    /\ mounted
    /\ ~isFetching
    /\ ~nfIsLoading
    /\ nSave < MaxSaves
    /\ \A p \in Providers : Valid(form[p])
    /\ nfIsLoading' = TRUE
    /\ status' = None
    /\ pending' = Providers
    /\ puts' = puts \cup
         {[m |-> mount, s |-> nSave + 1, p |-> p, c |-> form[p],
           known |-> p \in known] : p \in Providers}
    /\ nSave' = nSave + 1
    /\ UNCHANGED <<server, page, mounted, mount, isFetching, form, known>>

\* The current save: sent by this mount, and the last one sent.
Current(r) == mounted /\ r.m = mount /\ r.s = nSave /\ nfIsLoading

\* The server handles a PUT (stores it, or fails) and the reply reaches
\* Promise.all: the first rejection sets the error status, the last
\* fulfilment the success status, and finally clears isLoading.
PutReply(r) ==
    /\ r \in puts
    /\ puts' = puts \ {r}
    /\ \E ok \in BOOLEAN :
         /\ srvConfig' = IF ok THEN [srvConfig EXCEPT ![r.p] = r.c]
                         ELSE srvConfig
         /\ IF ~Current(r)
              THEN UNCHANGED <<nfIsLoading, status, pending>>
            ELSE IF ~ok
              THEN /\ status' = "error"
                   /\ nfIsLoading' = FALSE
                   /\ pending' = {}
            ELSE /\ pending' = pending \ {r.p}
                 /\ status' = IF pending' = {} THEN "success" ELSE status
                 /\ nfIsLoading' = (pending' # {})
    /\ UNCHANGED <<srvToken, page, mounted, mount, isFetching, form, known,
                   nSave>>

-----------------------------------------------------------------------------
Next ==
    \/ PageLoadReply
    \/ ClickGenerate
    \/ ClickRevoke
    \/ \E r \in tokReqs : ServeToken(r)
    \/ \E rep \in tokReplies : TokenReply(rep)
    \/ \E t \in Tabs : SelectTab(t)
    \/ LoadReply
    \/ \E p \in Providers, c \in Configs : Edit(p, c)
    \/ Submit
    \/ \E r \in puts : PutReply(r)

\* Requests, replies and the browser's callbacks are handled eventually;
\* the user is never forced to act.
Fairness ==
    /\ WF_vars(PageLoadReply)
    /\ WF_vars(LoadReply)
    /\ \A r \in TokenReqs : WF_vars(ServeToken(r))
    /\ \A rep \in TokenReplies : WF_vars(TokenReply(rep))
    /\ \A r \in Puts : WF_vars(PutReply(r))

Spec == Init /\ [][Next]_vars /\ Fairness

-----------------------------------------------------------------------------
(* Properties                                                              *)

\* Once every token request is answered, the token card shows what the
\* server holds: "Active Token" exactly when a token exists, and a token
\* offered as "copy your token now" is the one the server accepts.  About
\* handleGenerateToken / handleRevokeToken applying replies as they arrive.
ShownTokenIsServers ==
    (Shown /\ tokReqs = {} /\ tokReplies = {}) =>
        /\ tokenExists = (srvToken # NoToken)
        /\ newToken # NoToken => newToken = srvToken

\* A save changes a provider's stored settings only to values the form
\* loaded from the server or the user typed: a provider whose getSettings
\* failed in loadSettings is not overwritten with the form's defaults.
\* About onSubmit PUTting all three providers whatever loadSettings got.
NoBlindOverwrite ==
    [][\A p \in Providers :
         srvConfig'[p] # srvConfig[p] =>
             \E r \in puts : r.p = p /\ r.c = srvConfig'[p] /\ r.known]_vars

\* The settings page never misstates or clobbers what the server stores:
\* ShownTokenIsServers holds in every state, and every step keeps
\* NoBlindOverwrite.  About the token card and the notification form
\* acting on replies and load results as they are.
SettingsKeepServerState == []ShownTokenIsServers /\ NoBlindOverwrite

=============================================================================
