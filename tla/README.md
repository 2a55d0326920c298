# TLA+ models of justbackup

This directory holds TLA+ models of justbackup, with the TLC configurations that check them.
The repository's `src/` is the web dashboard (Next.js, under `src/web/src`) and its end-to-end
tests. The backup engine (scheduler, orchestrator, workers, rsync, encryption) is described only by
`spec.md`, so its modules are modelled from the spec and marked `spec_modelled` in
`PROJECT.json`. Every other definition is translated from the dashboard's code, and
`PROJECT.json` gives the lines for each one.

## The system and how its parts interact

* **Engine (spec only).** A cron scheduler and manual triggers ("run now" `POST
  /api/backups/{id}/run`, "run all for host" `POST /api/hosts/{id}/run`) submit runs into a
  bounded worker pool. A per-task lease coalesces a trigger for a task that is already queued or
  running. A run goes through pre-hooks, rsync transfer, versioning (incremental), encryption,
  post-hooks and a report. The report sets the status, appends Backup Errors and publishes
  `backup_completed` or `backup_failed` on one event stream. A workstation host's transfer failure
  is a silent `pending`: no error, no event.
* **WebSocket provider** (`shared/contexts/websocket-context.tsx`, `shared/hooks/use-websocket.ts`).
  The dashboard layout opens one socket to the event stream. It reconnects 3 s after every close.
  On unmount it cancels the pending reconnect, detaches `onclose` and closes the socket.
  Components subscribe handlers.
* **Run tracking** (`backup/components/backups-table.tsx`, `host/components/hosts-table.tsx`).
  "Run" and "Run All" put ids into a `runningBackups` set. That set shows spinners and disables
  the buttons. Only an event whose `backup_id` is in the set takes the id out again, or, for
  "Run", a failed POST.
* **Size estimation** (`backup/components/create-backup-form.tsx`, `edit-backup-dialog.tsx`).
  Leaving the source-path field POSTs `measure`. The form then polls `GET /api/tasks/{id}` every
  second, and a 30 s timeout stops the polling.
* **Pages** that fetch lists (host backups, backups, restore, backup details, the hosts table)
  and re-fetch on events. The hosts table (`host/components/hosts-table.tsx`) opens
  `EditHostDialog` and `DeleteHostDialog`. Both stay mounted while closed, and a successful save
  or delete re-fetches the hosts. The **route guard** `proxy.ts`. The **API client** and session storage.
* **Creating hosts and tasks.** `AddHostForm` (`host/components/add-host-form.tsx`) fills the
  host path with a slug of the name. The new-backup page (`create-backup-form-client.tsx`) fetches
  the host and renders `CreateBackupForm`, which fills an empty destination with the source
  path's last segment and shows `computeBackupFullPath(backupRoot, host.path, destination)`.
  Both forms `router.push` away after a successful create. Spec 2 and 5: a task writes to
  `backupRoot/hostPath/destination`, and no two tasks' directories overlap.
* **Settings page** (`app/(dashboard)/settings/page.tsx`). It loads the SSH key and the CLI token
  status, and offers Generate/Regenerate and Revoke for the token. Its Notifications tab holds
  `NotificationSettingsForm` (`notification/components/notification-settings-form.tsx`). That
  form loads the Gotify, SMTP and Pushbullet settings on mount and PUTs all three on save.
* **Schedule validation.** Both backup forms check the schedule with the same zod regex before
  anything is sent. Per spec 4.1 the scheduler accepts a 5-field cron expression or an @alias.

## Modules

| Module | Models | State ↔ code |
|---|---|---|
| `TaskLease` | The orchestrator's promise (abstract): a trigger makes idle tasks busy or is coalesced. A busy task eventually finishes with one terminal event. Only a `Quiet` (workstation) task may finish silently. | `busy`, `events` |
| `BackupEngine` | The orchestrator, the pool and the run steps (spec 4.2–4.5, 4.7, 5, 7). | `lease` is the try-lock. `queue` is the FIFO backlog. `phase` is the step a worker is on. `outcome` is the step result the report reads. `status`, `errors` (count of Backup Error rows), `lastRun` (sentinel or set). `plain`/`sealed`: an unencrypted payload / an encrypted archive is on disk. `events`. |
| `EventSocket` | `WebSocketProvider`. | `ready[s]` is the browser readyState of socket `s`. `onclose[s]`: the provider's handler is still attached. `cur` is `ws.current`, `timer` is `reconnectTimeout.current`, `isConnected` is the state of that name. |
| `RunTracking` | Both tables' run tracking against `TaskLease` as the server. | `runningB`/`runningH` are the two `runningBackups`. `hostToBackups` is the host → task_ids map. `runRequests`/`runAllRequests` are POSTs in flight. `connected`/`seen` abstract the socket. `missed` records the ids of lost events. |
| `FetchViews` | The restore page with `RestoreForm`, and the backup details sheet with `DeleteBackupLogsDialog`. | Page: `loadingHosts`, `selHost` (`selectedHostId`), `listOf` (the host whose backups are listed), `selBackup` (`selectedBackupId`, as its host), `loadingBackups`, `pageError`, `bReqs` (getBackups requests in flight), `restoring` (restore POSTs in flight), `restored` (`restorationTaskId`). Sheet: `open` (`selectedBackupForDetails`), `errors` (the backups whose error rows are listed), `loading`, `errorMessage`, `eReqs` (getBackupErrors requests, each with the rows as the server had them), `stored` (server), `showDelete`, `isDeleting`. |
| `HostsTable` | `HostsTable`'s data with `EditHostDialog` and `DeleteHostDialog`. | `rev` (the server's host list, as a revision), `shown` (the revision the table lists), `hLoading`/`hError` (`isLoading`/`error`), `hReqs` (`getHosts` in flight, each with the revision it answers), `editing`/`toDelete` (`editingHost`/`hostToDelete`), `submitting`/`deleting` (the host whose PUT/DELETE is in flight), `editErr` (the host whose failed save the dialog's `error` is about). |
| `BackupsPages` | The two pages that render `BackupsTable` and pass it their re-fetch as `onRefresh`: the backups page (`Page = "all"`) and a host's backups page (`Page = "host"`). | `rev` (the server's backup list, as a revision), `shown` (the revision listed), `loading`/`error`, `reqs` (`getBackups` in flight), `toDelete` (`backupToDelete`), `deleting` (`isDeleting`). `TableMounted` is the page rendering the table, which is also when the table hears events. |
| `Dashboard` | The dashboard page and `WorkerMemoryChart`. | `rev`/`shown`/`loading`/`error`/`reqs` as in the other views. `workers` is the set of reporting workers, `data` the workers of the chart's stats, `active` its `activeWorkers` (keys are positions in the sorted ids, `Key`), `mounted` the chart being rendered, `cReqs` its requests, each with the `activeWorkers.size === 0` its closure saw. |
| `RestoreForm` | The restore page's backup select with the `RestoreForm` it shows (no `key`), within one host's backups. | `selected` (`selectedBackupId`), `restored` (`restorationTaskId`), `mount` (the form instance), the form's `restoreType`, `pathOK` (path non-empty), `targetPath` (a backup is abstracted to its path, the default of `target_path`), `typed` (the user edited it), `loadingHosts`/`hReqs` (its own `getHosts`), `isSubmitting`, `error`, `posts`/`sent` (`restoreBackup` requests in flight / received). |
| `ListViews` | `FetchViews`, `HostsTable`, `BackupsPages` (once per page), `Dashboard`, `RestoreForm` and `EditBackup` side by side (no shared state), for the one question asked of every list view. | Each view's variables, unchanged by the others' steps. |
| `EditBackup` | `EditBackupDialog` with its hooks tab (`HookManager`, `HookItem`). | `backup` (the prop), `path`/`ephemeral` (the form's path and `useEphemeralSource`), `openedWith` (the row's path at opening), `edited`, `isSubmitting`, `error`, `upd` (the `updateBackup` in flight), `srv`/`rows` (server and table copies of each path), `refreshing` (the table's `onRefresh` fetch), `tab`, `hooks` (the field array as field ids), `expanded` (`expandedIndex`), `showParams`/`jsonError` (each `HookItem`'s state). |
| `SettingsPage` | The settings page's token card and the notification form, with the server state they read and write. | `srvToken` (the token the server accepts, named by the request that made it), `srvConfig` (each provider's stored settings: enabled, fields filled). Page: `isLoading`, `error`, `tokenExists` (`tokenStatus.exists`), `newToken`, `tab`, `tokReqs`/`tokReplies` (token requests before and after the server handled them). Form: `mounted`, `mount`, `isFetching`, `form`, `nfIsLoading` (its `isLoading`), `status`, `pending` (providers whose PUT of this save is unanswered), `puts`. `known` is a ghost: the providers whose form values were loaded or typed. |
| `CronSchedule` | The schedule check of `backupSchema`, against the spec 4.1 grammar. | `schedule` (the input's text, over abstract characters), `typed`. `FormAccepts` is the regex, `SpecAccepts` the grammar. |
| `TaskPaths` | `AddHostForm`, the new-backup page with `CreateBackupForm`, and `computeBackupFullPath`, with the hosts and tasks the server stores. | Strings are sequences of characters. `hosts` ([id, path]) and `tasks` ([id, host, src, dest]) are the server's; `reqs` are requests in flight, each tagged with the `mount` of the form that sent it. `page` is `list`, `addHost` or `newBackup`. Host form: `name`, `hPath`, `isLoading`, `hError`. Page: `cwLoading`, `cwError`, `hostPath`. Task form: `path`, `destination`, `useEphemeralSource`, `isSubmitting`, `error`. `Slug`, `FullPath`, `Segments` and `LastSegment` are the string code. |
| `SizeEstimation` | `handlePathBlur` with its interval and timeout. | `isMeasuring`, `measuredSize` (which measurement's size is shown), `req`, `task` (server), `polling` (interval active), `inflight` (a `getTaskResult` awaiting its reply), `timer`, `captured` (the value of `isMeasuring` that the blur's closures see). |

Each `MC*.tla` extends its module and defines the constant functions the `.cfg` files
substitute.

Correspondence of actions to code:

* `BackupEngine`: `RunBackupTask`/`RunAllForHost` → `Submit`, the try-lock. `StartRun` is the pool
  taking the oldest run. `RunPreHooks`, `Transfer` (success, or failure with a possibly partial
  payload, then `Skip` on a workstation, `Fail` otherwise), `Version`, `Encrypt` (the archive is
  written, then the plaintext is deleted), `RunPostHooks` (a failure is logged, not fatal).
  `Report` writes the status and `lastRun`, releases the lease and publishes the event. Then
  `ClearBackupErrors`. `Quiescent` is the idle engine once the trigger bound is used up.
* `EventSocket`: `Mount` and `Cleanup` are the effect and its cleanup. `Connect` is `connect()`
  with its OPEN guard. `SocketOpen` is `onopen`. `Drop` is a failed connection or a server close
  (`onerror` calls `close()`). `SocketClosed` is the close event, which runs `onclose` only if it
  is still attached. `ReconnectTimerFires` is the 3 s timer.
* `RunTracking`: `ClickRun`/`RunResponse` are the Run button's `onClick` before and after
  `await runBackup`. `ClickRunAll` is the Run All click (the button is disabled only while `isHostRunning`). `RunAllAccept` is the server starting the host's runs before it answers. `RunAllResponse` is the rest of `handleRunAll` after `await runHostBackups`: the ids are added, or a failure is logged. `Receive` is both tables'
  `handleWebSocketMessage`. `Miss` is an event published while the socket is down. `Disconnect`
  and `Reconnect` are `onerror`/`onclose`. `ScheduledRun` and `RunEnds` are the server.
* `SizeEstimation`: `PathBlur`, `MeasureReply` (try/catch around `measureSize`), `PollSend`/
  `PollReply` (one interval tick and its async reply), `Timeout`, and the server's `TaskEnds`.
  `Answers` is what `getTaskResult` can yield: `ApiClient.request` throws on a non-2xx answer, and
  a JSON object is truthy whatever its status.

* `FetchViews`: `HostsReply` is the hosts effect. `SelectHost` is the host select with the effect on
  `[selectedHostId]` (which does nothing for "Select a host..."). `BackupsReply` is the `then`/
  `catch`/`finally` of whichever `getBackups` answers. `SelectBackup`, `Submit`/`RestoreReply`
  (`RestoreForm.onSubmit` before and after `await restoreBackup`), `StartAnother`. In the sheet,
  `OpenSheet`/`CloseSheet` are the two branches of the effect on `[backup, open]`, `FetchErrors`
  is `fetchErrors`, `ErrorsReply` its reply, and `ClickClearLogs`, `CancelDelete`, `HandleDelete`,
  `DeleteReply` the dialog (whose `onSuccess` is `fetchErrors`).
* `RestoreForm`: `SelectBackup` is the backup select's `onChange`; `Mount` is a new form instance
  (fresh `useState`, `useForm` `defaultValues`, the `[restoreType]` effect as `LoadHosts`), taken
  only when the form appears (`FormShown` goes from false to true), not when the selection moves
  between backups. `HostsReply` is the form's `getHosts` reply, `SetRestoreType`/`SetPath`/
  `TypeTarget` the radios and inputs, `Submit` `onSubmit` up to `await restoreBackup` (or its
  throw for an empty remote target path), `RestoreReply` the rest, `StartAnother` the button.
  A reply reaching a form instance that is gone changes nothing of the form, but `onSuccess`
  still sets the page's `restorationTaskId`.
* `HostsTable`: `FetchHosts` is `fetchHosts` up to its `await`, `HostsFetchReply` the rest.
  `BackupEvent` is `handleWebSocketMessage` for a `backup_completed`/`backup_failed` event (the
  server's list changed, e.g. a failed-backup count). `ClickEdit`/`ClickDeleteHost` are the row
  buttons, `CloseEdit`/`CloseDeleteHost` the dialogs' `onOpenChange(false)` (Escape works while
  the buttons are disabled). `SubmitEdit`/`EditReply` are `onSubmit` around `await updateHost`,
  with the table's `onSuccess`. `HandleDeleteHost`/`DeleteHostReply` are `handleDelete` around
  `await deleteHost`.
* `BackupsPages`: `Refresh` is the page's re-fetch (`fetchBackups`, or the host page's
  `onRefresh`) up to its `await`, and `FetchReply` the rest: `LoadReply` for the request that set
  `loading`, `RefreshReply` for a host-page refresh. `BackupEnds` is a run ending on the server,
  with the table's `handleWebSocketMessage` if the table is rendered. `EditSaved` is the edit
  dialog's `onSuccess`. `ClickDelete`, `CloseDelete`, `HandleDelete` and `DeleteReply` are the
  row's Delete action and `DeleteBackupDialog`.
* `Dashboard`: `FetchStats`/`StatsReply` are the page's `fetchStats`, `BackupEvent` and
  `WorkerStatsUpdated` its event handler (the latter also the chart's). `ChartMount` is the
  chart's first render with its mount effect, `ChartFetch`/`ChartReply` its `fetchStats`, and
  `ToggleWorker` a legend click. A change of `activeWorkers.size` recreates `fetchStats`, so
  the effect on `[fetchStats]` fetches again.
* `EditBackup`: `Open` is "Edit" with the reset effect, followed by the switch effect when the
  reset changed the switch (`AfterSwitch`, `EphemeralEffect`). `Close` is Cancel or Esc, and
  `Unmount` is Radix unmounting the dialog content. `SwitchTab`, `TypePath` (the input is disabled
  while the switch is on), `ToggleEphemeral`, `AddHook` (`addHookFromTemplate`), `ToggleExpand`,
  `RemoveHook`, `ToggleShowParams`, `EditParams` (`handleJsonChange`: empty, a JSON object, or
  invalid text), `Submit`/`UpdateReply` (`onSubmit` around `await updateBackup`), and
  `RefreshReply` (the page's re-fetch that `onSuccess` starts, which may fail and leave the rows
  as they were: the backups page sets `error`, a host's page only logs it).

* `SettingsPage`: `PageLoadReply` is `fetchData`. `ClickGenerate`/`ClickRevoke` are the two
  handlers before their `await`, `ServeToken` is the server, and `TokenReply` is the rest of each
  handler. `SelectTab` is the tab trigger, with `MountForm`/`UnmountForm`. `LoadReply` is
  `loadSettings` (allSettled, then `reset`). `Edit` is any input or switch of a provider card.
  `Submit` is `handleSubmit(onSubmit)`; an invalid form never reaches `onSubmit`. `PutReply` is
  one PUT handled by the server and its reply reaching `Promise.all`.
* `TaskPaths`: `OpenAddHost` and `OpenNewBackup` mount a form. `TypeName` is typing the name
  with the slug effect after it, and `TypeHostPath` is typing over the slug. `SubmitHost` and
  `HostReply` are `onSubmit` around `await createHost`. `GetHostReply` is `fetchHost`. Then
  come `TypePath`, `BlurPath` (`handlePathBlur` up to its `await`), `TypeDestination`, and
  `ToggleEphemeral` (the switch and the render-time path update). `SubmitTask` and `TaskReply`
  are `onSubmit` around `await createBackup`. `Leave` is a navigation landing: the
  `router.push` a success started, or a sidebar link. A reply for a form that is no longer
  mounted still changes the server.
* `CronSchedule`: `Type` adds one token to the input. The property compares the two operators on
  every text reached.

Every browser callback runs to completion (JavaScript is single-threaded), so each handler is one
atomic action. Each `await` splits a handler into two actions.

## Runs

| Run | Expect | What it shows |
|---|---|---|
| `engine` | pass | Any mix of ticks, run-now and run-all triggers on a one-worker pool never runs a task twice (`AtMostOneRunPerTask`). The engine refines `TaskLease` (`ImplementsTaskLease`): every run ends, and only workstation runs end silently. |
| `socket` | pass | At most one live socket across remounts and reconnects (`AtMostOneLiveSocket`). No live socket after unmount, however the unmount races a pending reconnect or a close event (`NoLiveSocketWhileUnmounted`). A mounted provider gets back to an open socket (`EventuallyConnected`). |
| `run_tracking` | pass | A Run spinner clears after its run ends, unless an event was lost (`SpinnerClearsUnlessLost`). The id is added before the `await`, so the order of the event and the reply does not matter. |
| `run_tracking_lost_event` | violation | `SpinnerClears`: an event published during the 3 s reconnect window is lost, nothing re-fetches on reconnect, and the Run spinner spins forever. |
| `run_all_spinner` | violation | `RunAllSpinnerClearsUnlessLost`, with the socket never dropping: the server starts Run All's runs before it answers, the runs end and their events arrive first, and `handleRunAll` then adds ids that no later event removes. The host's spinner stays on (9 steps). |
| `size_stuck` | violation | `MeasuringEnds`: with no result within 30 s, the timeout reads the stale `isMeasuring` (false) and "Measuring size..." stays on. |
| `fetch_views` | pass | `TypeOK` only: it exercises every action and branch of the restore page and the details sheet. What these views show is asked in `list_views_stale`. |
| `list_views_stale` | violation | `ListsShowSelection` (on `ListViews`), one conjunct per view. TLC reports the backups page: a run ends while the first load is in flight, with no table to hear the event, and the list keeps the run's old status (2 steps). Each conjunct alone also fails. On the backups page, the same happens to an event during a refresh (4 steps). On a host's backups page, a failed refresh is only logged (3 steps). On the dashboard, the mount's reply arrives after an event's (3 steps). In the worker chart, once a worker stops reporting, a stale key lets the user hide the last line (7 steps). In the hosts table, a backup event's `fetchHosts` answers before the mount's, which then replaces the newer list (3 steps). On the restore page, after host A then host B is chosen, A's late reply ends the loading and lists A's backups under B (4 steps). After a failed save of host A, the edit dialog opened for host B shows A's error (6 steps). After backup A and then backup B of one host are selected, the still-mounted `RestoreForm` sends B's restore to A's path (4 steps). After a save, the edit dialog reopened before the table's refresh (or after a failed one) starts from the old row (5 steps). In the sheet, an earlier opening's reply lists another backup's error rows. |
| `edit_backup` | pass | The switch is never on without the placeholder path (`PlaceholderWhileEphemeral`). A freshly opened dialog shows the row it was opened for, even though the reset triggers the switch effect (`OpenedShowsRow`). |
| `settings_server_state` | violation | `SettingsKeepServerState` = `[]ShownTokenIsServers /\ NoBlindOverwrite`. TLC reports the form: SMTP's settings fail to load, and saving a Gotify change writes SMTP's defaults over the stored SMTP settings (6 steps). The token card alone also fails: two generate requests whose replies arrive in the reverse order leave the page offering, as "copy your token now", a token the server has already replaced (7 steps). |
| `task_paths` | violation | `DestinationsDisjoint`: two tasks write to the same directory. TLC reports the create button enabled again after `createBackup` succeeds and before `router.push` lands: a second click creates the same task (14 states). With one submit per form, two sources `/x/d` and `/y/d/` both get the autofilled destination `d` (19 states). With one task per host, hosts named "Web" and "web!" get the same slug `web` (21 states). |
| `cron_schedule` | violation | `FormAcceptsSpecSchedules`: the form accepts "@daily *" and "x 0 0 * * *", and it rejects "0 */2 * * *". |

The findings in `PROJECT.json` explain each violation. The step counts given for a single conjunct of a composite property (`ListsShowSelection`, `SettingsKeepServerState`) come from checking that conjunct alone. To do that, define it in a module that extends the MC module, for example `EInv == Edit!OpenedShowsStored`, and name it as the `INVARIANT` of a copy of the run's cfg. Those checks are not runs of their own. Each property of a passing run has a mutant
in `PROJECT.json`: a plausible bug in the mapped definition, which TLC then catches.

## Bounds and why they are enough

* `engine`: 3 tasks on 2 hosts. t1 is incremental and encrypted, with hooks. t2 is plain. t3 is
  encrypted, on a workstation. The pool has 1 worker, and there are 3 triggers. With 3 triggers
  a duplicate trigger can hit a queued or a running task, and a run-all can fan out behind a
  busy worker. An encrypted task can fail and then complete. Every step fails on some path.
* `socket`: 2 mounts and 2 drops. A drop can race the cleanup, and a reconnect can race the
  remount. Socket ids are bounded by mounts + drops, since each socket comes from one or the
  other.
* `run_tracking`: 2 tasks on one host, 2 triggers and 1 drop. A Run and a scheduled run of the
  same task can overlap, or a Run and a Run All. `run_all_spinner`: the same with no drop, so no
  event is lost and the stuck spinner comes only from the order of the event and the reply.
* `fetch_views`: 2 hosts, 2 backups, 2 host selections, 2 sheet openings, 1 Clear Logs. Two
  selections are what a reply needs to overtake another. The sheet's second opening, or the
  re-fetch after Clear Logs, can race the first fetch. The stored error rows start as any subset.
* `list_views_stale`: the `fetch_views` bounds, plus 2 host-list changes (edits, deletes, backup
  events), 2 changes of each backups page's list, and 2 workers, 2 events and 2 legend clicks
  on the dashboard. Two workers are the least for a stale key, and two events let the worker set
  grow and then shrink. Two changes give two refreshes that can answer in either order, and a save that
  fails while the dialog is dismissed and reopened for the other host. The restore form gets two
  backups (two are the least for a switch), one typed target path, 2 mounts, 1 POST and
  2 `getHosts`. The edit dialog gets one typed path, 1 save and 1 hook.
* `edit_backup`: 2 backups (with and without a placeholder path, in any combination the server
  holds), one typed path, 2 saves, up to 2 hooks (b1 starts with one). This is enough to reopen
  across a switch change, to save twice before a refresh returns, and to remove a hook above the
  expanded one.
* `settings_server_state`: the three providers, with SMTP stored and the other two not.
  There are 2 token requests, 2 mounts of the form and 2 saves. Two requests are what a reordered
  reply needs. The two violations are found in 7 and 6 steps.
* `cron_schedule`: up to 6 tokens from `*`, a number, `*/n`, `n-n`, `n,n`, `@alias` and another
  character. That gives five fields plus one stray token, in every order.
* `task_paths`: 2 hosts, 2 tasks and 3 form mounts, which is one host form and two new-backup
  forms. The names are "Web", "web!" (the same slug) and "!" (no slug). The sources `/x/d` and
  `/y/d/` share their last segment, and the typed destination `/d` has a leading slash. The
  backup root is `/b`.
* `size_stuck`: 2 blurs. The second blur captures `isMeasuring = TRUE`, and the first poll can answer
  late.

## Fairness

Fairness is weak, and only on what the runtime does by itself: worker steps and the pool taking
queued work (spec 5: workers run independently of the tick loop), browser event dispatch, timers
firing, HTTP replies arriving, and the server's size task ending. User actions (clicks,
navigation, blurs), scheduler ticks and network failures get no fairness. Runs set
`CHECK_DEADLOCK FALSE` only where the program really idles: an open socket waiting, a page after
its last click. The engine run keeps deadlock checking. Its `Quiescent` step is the engine idling
after the last trigger.

## Not modelled (yet), and the plan

* The version store (latest swap, retention prune, swap-then-prune ordering). Planned as
  `VersionStore`, refining the engine's `Version` step.
* Cron next-fire computation (date arithmetic, beyond TLC's reach over real calendars). It
  enters only as nondeterministic ticks.
* Hazards that are reachable in a module but not yet stated as a property: saving closes
  another backup's (or host's) dialog, a failed background `fetchHosts` replacing the hosts
  table with an error that nothing clears, the same sticky error on the dashboard, the edit dialog's `error` outlives a closing, the hook manager's
  `expandedIndex` after `remove`, invalid hook JSON saved as the last valid params, and the
  restore form staying on "Select a host...". `PROJECT.json` lists them.
* The hook "Enabled" switch calls `control._fields["hooks.i.enabled"]._f.onChange`. No input is
  registered under that name, so the handler changes nothing. `EditBackup` leaves it out because
  it has no effect. A unit test would show this directly; it needs no model.
* The settings page's SSH-key copy buttons (clipboard and a 2 s icon timer) and the notification
  cards' expand state. They change nothing that a property reads.
* Slow size measurements answering out of order. `SizeEstimation` reaches it: two blurs keep two
  intervals polling, and any answer is applied. Its run checks only that the
  spinner ends.
* A workstation task's silent end. `RunTracking` can let a `Quiet` task's run end without an
  event, and `SpinnerClears` then fails just as it does for a lost event. The runs keep `Quiet`
  empty, and the engine run checks the silent end itself.
* What `runAllForHost` returns. The hosts table stores the returned `task_ids` and clears them by
  event `backup_id`. The repository does not show whether the two agree, so every run takes them
  to be the same ids (`HandleOf` is the identity).
* The backups page unmounts `BackupsTable` while it refreshes. `BackupsPages` models the events
  lost with it, but not the loss of `runningBackups`: `RunTracking`'s table stays mounted.
* The `proxy.ts` routing decision. It is a pure function of the path, the cookie and the setup
  status, with no state of its own. The repository has no login page to route to, and nothing
  in `src/` calls `SessionService.setSession`.
* The details sheet's inline copy of `computeBackupFullPath` (`getFullDestination`). It keeps an
  empty destination, so `/` as a destination shows a trailing slash, and with no backup root it
  shows the bare destination. Both are cosmetic.
* Cryptography, SSH/rsync, the API client's I/O, the charts' drawing (point bucketing,
  colours; `DiskUsageChart`, which fetches once and only logs errors), the stat cards and the e2e
  harness are out of scope.
  They are I/O or presentation, with no state a property tells apart.
* Most source lines that the map does not name are markup. They include the `cli` page, which is
  static documentation with no state. They also include the JSX of the tables, sheets and dialogs,
  the imports, the hook templates and the `fetch` wrappers of `*-api.ts`. The modules cover every
  handler, effect and render guard that changes or reads state a property depends on. Mapping the
  markup would add lines that no definition translates.
