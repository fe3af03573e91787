# A TLA+ model of the TierModel service

ActiveDirectoryTierModel has two halves. The *framework* is a PowerShell module (`src/modules/TierModel`)
with scripts that build, audit and watch a tiered Active Directory. The *service* (`src/service`, ASP.NET Core
with PostgreSQL) keeps the framework's configuration, runs its scripts under approval, maintenance windows and a
schedule, grants memberships for a limited time, mirrors the configuration to Git and logs every change.

The framework is sequential: one script, one directory, one pass. What is hard to test is in the service, where
request handlers and seven background workers share database rows, in-memory queues, a clone of a repository,
PowerShell processes and the directory, and where any of them may fail or die between two steps; and in its web
interface, where one browser tab holds drafts, caches, dialogs and requests on their way while other people change
what they are about. This directory models both: four components of the server and ten of the web interface, their
interleavings, failures and restarts, checked by TLC on small instances. For all four components of the server, the
configuration editor and eight of the nine other parts of the web interface the safety properties are proved with TLAPS for every
value of the constants, and so is that the run pipeline implements its contract (section 5).

Paths below are relative to `src/service/src/TierModel.Service/`, those of the web interface (`.ts`, `.tsx`) to
`src/service/web/src/`, unless they start with `src/`.

## 1. Inventory

### Components, their state and their operations

| Component | State | Operations | Status |
|---|---|---|---|
| Run pipeline: `Runs/RunService`, `RunWorker`, `RunQueue`, `DeployPlan`, `Endpoints/RunEndpoints` | table `runs`; in memory the registered runs, their token sources, cancellations that came early; one PowerShell process | submit, approve, reject, expire, cancel, claim, defer, execute, store the result, recover | modelled |
| Maintenance calendar: `Maintenance/*` | tables of windows and freezes; `ScheduledFor` of runs | edit, reschedule all, promote due runs | partly |
| Schedule worker: `Runs/ScheduleWorker` | table `schedules` | fire schedules, expire approvals, promote scheduled runs | partly |
| Just-in-time access: `Jit/*`, `Grant-`/`Revoke-TierModelJitAccess.ps1` | table `jit_requests`; the directory's memberships with a time to live | create, approve, reject, withdraw, revoke, start a run, complete a run, maintain | partly |
| Git mirror: `GitSync/*`, `Transfer/TransferEndpoints` | bounded queue, deferred sections, flags, retry time; `gitState`; the local clone; the remote branch | enqueue, batch, fetch, catch up, commit, push, conflict, take over the remote, retry | partly |
| Configuration versions and change log: `Config/ConfigService`, `Transfer/ImportService`, `Services/ChangeLogChain` | `config_sections`, `config_versions`, `change_log` with its hash chain | save, restore, create, import, log, verify | partly |
| Domains, notifications, SIEM forwarder, run log writer | tables, in-memory channels | create, delete, deliver, flush | planned |
| Privileged-group monitoring, tier rules, configuration validator | none (pure functions over snapshots and documents) | evaluate, compare, validate | candidates for checks of operators |
| Sign-in and sessions: `Auth/*`; `features/auth/*`, `api/client.ts` | accounts with their security stamp; the tab's cookie, antiforgery token, answer of `auth/me`, page | sign in and out, change and reset a password, change an account, any request with a cookie that has become old | partly |
| Configuration editor: `features/config/draft-store.ts`, `config-page`, `save-dialog`, `list-editor`, `versions-sheet`, `domains/domain-context` | per domain: loaded sections, drafts, their base versions, undo and redo; the queries' cache; dialogs; requests on their way | load, edit, undo, save, resolve a conflict, restore, discard, switch the domain, lose and regain the session | partly |
| Review of changes: `lib/structured-diff.ts` | none: a comparison of two contents | compare | partly |
| GPO editor: `features/config/gpo-editor`, `gpo-model` | the draft of the section; one dialog with a copy and an index | add, edit, duplicate, link, move, remove, refetch below a dialog | partly |
| Assistants, renaming of an OU: `features/config/wizards/*`, `ou-rename-dialog`, `lib/ou.ts` | the draft of six sections; the inputs of the steps | open, fill in, go back, finish, rename, move | partly |
| Import page: `features/config/import/import-page`, `Transfer/ImportService` | previews in the service; source, preview, selection, rules, problems on the page | load, compute anew, select, validate, apply, expire | partly |
| Run page: `features/runs/run-detail-page`, `run-log`, `approval-panel` | query of the run, poller of the log, question and decision that are open | show, poll, navigate, cancel, approve, reject | partly |
| Deploy page: `features/runs/deploy-page`, `run-request-form`, `plan-apply`, `components/*` | form, offer of a plan, the one question of the application, selected domain | plan, apply, confirm, switch the domain | partly |
| Settings forms: `features/admin/*-page`, `git-settings-card` | stored settings with secrets, the answer seen, inputs, the request on its way | show, type, clear, save, refetch | partly |
| Administration lists: users, windows, freezes, schedules, domains, tokens, groups, requests, instances | rows in the service, rows shown, changes on their way, sheet and question | add, edit, switch (also ahead of the answer), remove, refetch | partly |
| Directory view, reports, settings of the service, set-up, health, lookups, archive format, command line, texts, the remaining pages, installer, PowerShell client, framework scripts | display, I/O, wiring, or sequential calls into Active Directory | | not modelled |

`PROJECT.json` lists every component with its sources.

### How they interact

* An HTTP handler, a hosted worker and the completion of a run each hold a row they *read*, await something, and
  *write* it. A write is either an `ExecuteUpdate` with a `Where` on the status (conditional, atomic) or
  `SaveChanges` of a tracked row (unconditional). Most errors this model looks for live between the two.
* `RunService` inserts into `runs` and wakes `RunWorker`, which claims one queued run at a time and starts PowerShell.
  `RunQueue` is the only link back: a cancellation reaches the process through it.
* `MaintenanceService` moves runs between Scheduled and Queued, called by the administrators' edits and by
  `ScheduleWorker`, while `RunWorker` may be claiming them.
* `JitService` starts runs of kind Jit; `RunWorker` calls `JitService.CompleteRunAsync` with their outcome; `JitWorker`
  expires and repairs requests; the directory removes the membership by itself.
* `ConfigService` commits a version and then enqueues it for `GitSyncWorker`, whose clone meets a remote
  branch that other people change.
* The browser sees the service only through answers, which arrive late, in any order or never. React Query's cache is
  shared by the pages, the draft store by all editors of a domain; a dialog holds a copy of what it was opened for.
  `ConfigService` refuses a save whose base version is not the newest one: what the browser sends as that base is
  the editor's half of "no lost update".
* Every change that is logged goes through `ChangeLogChain.SaveChainedAsync`, which serialises all writers with one
  advisory lock.

### What is hard

Concurrency of handlers and workers over rows read earlier; cancellation that meets a run at any point of its
life; deadlines that pass while a decision is written; a crash at any await (nothing in memory survives, the
PowerShell process may); results the database refuses; pushes whose answer is lost or that somebody else overtook;
retries that have forgotten what they were for; lock order and sequence gaps in the chained log. In the browser: an answer for the domain, run or selection that was
left; a copy in a dialog whose original has moved; a question answered after what it asked about has changed; two
requests of one form on their way; a session that ends while requests with its cookie are in flight. The
`hazards` of `PROJECT.json` name the line where each bites and the properties that cover it, or why none does yet.

### What makes each component correct

* *Run pipeline*: an outcome is final; no run that needs approval starts without a timely decision of a second
  person; a run is called running only while somebody works on it; at most one process changes the directory; a run
  uses the configuration that was reviewed; every run ends; a confirmed cancellation is one.
* *JIT access*: four eyes; the request and the directory agree about who is a member until when; every request ends;
  a rejected request gives no access.
* *Git mirror*: listing and files of a commit belong together; other people's files are left alone; a conflict stops
  pushing; every save arrives or the state says why not.
* *Versions and log*: no lost update; the chain follows the Ids; a verification of an untouched log succeeds; the log
  tells a section's history in order; nobody waits for ever.

* *Drafts*: no save replaces a version its author has not seen; a late answer takes no newer edit away; each draft knows
  the version it started from; domains do not mix.
* *Dialogs and pages*: what is carried out is what was shown, asked or opened, or nothing; references in the draft lead
  somewhere and names are unique; a stored secret is kept, replaced or removed as the form says; a list catches up with
  the service; a log is that of its run and complete; a review hides no difference.
* *Sessions*: a session never outlives what its account was; the token the application sends fits its cookie.

## 2. Modules

| Module | What it is |
|---|---|
| `RunLifecycle` | the run pipeline with calendar and scheduler; its properties |
| `RunContract` | abstract: the life of a run as users see it |
| `RunRefinement` | the mapping from `RunLifecycle` to `RunContract` |
| `RunLifecycleProofs` | theorems about all three |
| `JitAccess` | requests, their runs, the directory, the JitWorker |
| `GitMirror` | queue, worker, clone and remote |
| `JitAccessProofs`, `GitMirrorProofs` | theorems about them |
| `ConfigHistory` | versions, row locks, chained log, verification |
| `ConfigHistoryProofs` | theorems about `ConfigHistory` |
| `NaturalExtrema` | least and greatest elements of sets of numbers, for the proofs |
| `DraftStore` | the store of drafts, as operators from one state of it to the next |
| `ConfigEditing` | pages, dialogs, queries, saves and the session around `DraftStore`, with the server and other sessions |
| `ConfigEditingProofs` | theorems about both |
| `SectionDiff` | the comparison behind every review |
| `GpoEditor`, `Assistants`, `ConfigImport`, `RunPage`, `DeployPage`, `SettingsForms`, `AdminLists`, `Session` | one page or group of pages each |
| `Web` | composes these eight: a behaviour visits one of the pages |
| `Browser` | the same with the review as one more place |
| `PageProofs`, `WebProofs` | theorems about the run page, deploy page, forms, lists, session and import page; about the assistants, the GPO editor and `Web` |
| `RunLifecycleMC`, `JitAccessMC`, `GitMirrorMC`, `ConfigHistoryMC`, `ConfigEditingMC`, `WebMC` | small instances for TLC |

Definitions marked *mutant* are plausible mistakes in the operator that follows them; nothing uses them. Replacing
the operator's body by one of them makes TLC violate the property `PROJECT.json` names for it: the property depends on that code.

### RunLifecycle

`runs` is the table, `proc[p]` what a handler or the scheduler carries from a read to a write, `worker` the program
counter of `RunWorker.ExecuteRunAsync`, `queue` is `RunQueue`, `ad` the living PowerShell processes.

| Code | Actions |
|---|---|
| `RunEndpoints` POST, `RunService.EnqueueAsync`, `MaintenanceService.StartStatusAsync` | `Submit`, `Insert` |
| `RunService.DecideAsync` | `Decide`, `SaveDecision` |
| `RunService.ExpireAsync`, `ExpireOverdueAsync` | `Expire`, `ExpireOverdue` |
| `RunService.CancelAsync`, `RunQueue.Cancel` | `CancelPending`, `CancelMissed`, `CancelCheck`, `CancelLookup`, `CancelSignal` |
| `MaintenanceEndpoints`, `RescheduleAllAsync`, `PromoteDueAsync` | `SaveCalendar`, `Reschedule`, `SaveStart`, `ReadDueAfterEdit`, `PromoteScheduled`, `Promote` |
| `RunWorker.ClaimNextAsync` | `ReadQueue`, `Claim`, `Defer` |
| `RunWorker.ExecuteRunAsync`, `RunQueue.Register`/`Unregister` | `Register`, `StartProcess`, `PrepareFails`, `CancelledBeforeStart`, `ProcessExits`, `Unregister`, `SaveResult`, `DatabaseFails`, `MarkFailed` |
| `RunWorker.RecoverAsync` | `Recover` |
| surroundings | `Tick`, `EditConfig`, `Crash`, `Restart`, `OrphanExits`, `Rest` |

Reductions. One domain. All sections of the configuration are one version. `Notify`/`WaitAsync` only shorten a sleep
and are dropped. The scheduler's passes over overdue and due runs are actions without an order between them. The read
of the queue and of the calendar in `ClaimNextAsync` are one step. `FinishedAt` is kept for planning runs only, the
only rows it is read from. A graceful stop kills the process and ends the run as Failed, like a time-out. The calendar
is the set of moments inside a window and the set inside a freeze; when the next start is, is the least allowed moment,
or the next unit of time when there is none within the horizon. `cancelled` records only confirmed cancellations of
running runs. Runs are submitted while their deadline is within the clock's bound.

### JitAccess

`requests` and `runs` are the tables, `proc` as above, `worker` the part of `RunWorker` that matters here, `script` what
the PowerShell process has done, `members` the directory.

| Code | Actions |
|---|---|
| `JitService.CreateAsync` | `Create`, `Store`, `AutoApprove` |
| `DecideAsync`, `ExpireApprovalAsync` | `Decide`, `SaveDecision`, `ExpireApproval` |
| `WithdrawAsync`, `RevokeAsync` | `Withdraw`, `Revoke` |
| `StartRunAsync` | `InsertRun`, `LinkRun` |
| `RunService.CancelAsync`, `RunWorker` | `CancelRun`, `Recover`, `Claim`, `ScriptExits`, `ScriptKilled`, `SaveResult` |
| the two PowerShell functions | `ScriptGrants`, `ScriptRevokes`, `ScriptFails` |
| `JitService.CompleteRunAsync` | `CompleteRead`, `CompleteSave`, `CompleteFails` |
| `JitService.MaintainAsync` | `MaintainRead`, `MaintainSave` |
| surroundings | `Tick` (time, and the directory's own expiry), `Crash`, `Restart`, `OrphanEnds`, `Rest` |

Reductions. The four queries of `MaintainAsync` see one state. A script's result is what it did and the end of the
membership it read back. Whether an account may have a group, and the state of the forest's optional feature, are left out: a
script may fail at any time. A target is an account in a group. Runs have only the states this component looks at;
the five attempts to store a result belong to `RunLifecycle`.

### GitMirror

A commit is the tree it stores: per section the version of its file and the version `versions.json` lists, and a count of
changes to other paths. `local`, `tracked` and `remote` are histories; a merge base is their longest common prefix.

| Code | Actions |
|---|---|
| `ConfigService.SaveAsync` and then `GitSyncQueue.Enqueue` | `Save`, `Enqueue` |
| `TransferEndpoints` (sync, resolve, settings) | `SyncNow`, `Resolve`, `SaveSettings` |
| `GitSyncService.ProcessAsync` | `SkipBatch`, `Begin`, `Fetch`, `FetchConflict`, `ResetToRemote`, `CommitAll`, `CommitSection`, `SyncFails`, `SaveState` |
| `GitRepositorySync.Push` | `NothingToPush`, `Push`, `PushAgain`, `PushConflict`, `PushFails` |
| `GitSyncWorker.ExecuteAsync` | `Begin`/`SkipBatch` (taking a batch), `Finish`, `WorkerError` |
| surroundings | `ForeignCommit`, `Crash` |

Reductions. One domain, and one repository: the settings may be switched but keep address, branch and folder.
Nobody rewrites the remote's history, and other people leave `versions.json` alone, so the fallback for an unreadable
listing is never taken. Fields only displayed are dropped. Settings and state row are read in one step. The retry
timer may go off at any time once it is set. Commits are compared by their trees at the same place of the history.

### ConfigHistory

`versions[s]` are the versions of a section with the base each was made from, `log` the rows of the change log,
`nextId` its sequence, `rowLock` and `chainLock` the two kinds of locks, `req[h]` a handler's request and open
transaction, `check` the verification. The hash of an entry is the sequence of all items up to it: it
differs whenever the histories differ, which is what the code relies on SHA-256 for.

| Code | Actions |
|---|---|
| `ConfigEndpoints` PUT and restore, `ImportService.ApplyAsync`, other logged changes | `PutSection`, `RestoreVersion`, `ApplyImport`, `LogChange` |
| `ConfigService.SaveAsync`, `CreateAsync` | `LockRow`, `Conflict`, `NothingNew`, `Create`, `KeyTaken` |
| `ChangeLogChain.SaveChainedAsync` | `TakeChainLock`, `ReadPrev`, `TakeIds`, `Insert` |
| failure of a transaction | `Abort` |
| `ChangeLogChain.VerifyAsync` | `StartCheck`, `ReadPage`, `EndCheck` |

Reductions. Transactions are read committed, as PostgreSQL runs them by default, and release their locks when they end. The
backfill of hashes for entries older than the chain has been done. A crash of the service is an abort of each open
transaction. Contents are abstract; two saves with the same content are told apart by their base.

### DraftStore and ConfigEditing

`server` holds the versions of every section of every domain, `store` the drafts of the selected domain and `parked` those of
the others, `cached` what the queries have answered, `fetches`, `loops` and `restores` the requests on their way,
`dialog`, `saveDialog` and `conflict` what is open.

| Code | Actions |
|---|---|
| `queries.ts`, `draftStore.setBase` | `Fetch`, `FetchArrives`, `FetchFails` |
| fields, assistants; `draftStore.apply` | `Edit` |
| `list-editor.tsx`: sheet, question before a deletion | `OpenItem`, `Submit`, `ConfirmDelete`, `CloseItem` |
| `draftStore.undo`, `redo`, `discard` | `Undo`, `Redo`, `Discard` |
| `save-dialog.tsx` | `OpenSave`, `StartSave`, `SavedNext`, `SavedLast`, `NotSaved`, `CloseSave`, `KeepEditing`, `Reload`, `DismissConflict` |
| `versions-sheet.tsx` | `Restore`, `RestoreArrives`, `RestoreLost` |
| `domain-context.tsx`, `command-menu.tsx` | `SwitchDomain`, `Navigate` |
| `login-page.tsx`, `client.ts` | `SessionEnds`, `Login`, `LoadTab` |
| other sessions | `OtherSave` |

Reductions. A content is one value and carries, as history, where its editor had read it. The history of undo has one place in the runs.
The domains that are modelled are known to the user; a domain's removal is not.

### SectionDiff

A content is a tree of scalars, lists and objects. `DiffSection` is `diffSection`: collections by identity and occurrence
(`ItemGroups`), their order (`OrderGroup`), all the rest member by member (`DiffValue`). The page around it edits, opens, closes and
saves (`EditReviewed`, `OpenReview`, `CloseReview`, `SaveReviewed`). Of the collections one section of each form is there: items with several
keys as identity (`acls`), a map (`admx`), two lists with names (`authsilos`), and a list outside any collection (`tiers`). What an added
item shows is its summary; wording, clipping and grouping are left out. By design the code compares identities and keys of a map
up to case, shows a missing and an empty collection as the same, conflates a number with its text in a list of scalars and
shows the order of a list only when nothing else in it changed; `ReviewTells` counts none of these as a difference hidden.

### The other pages

| Module | State | Code and actions |
|---|---|---|
| `RunPage` | `run` in the service; `cache`, `reading` (query), `log`, `poll` (poller), `question`, `decision` | `run-detail-page.tsx`: `Open`, `Leave`, `ReadDetail`, `DetailArrives`, `Ask`, `ConfirmQuestion`; `run-log.tsx`: `PollArrives`, `PollFails`, `TimerFires`; `approval-panel.tsx`: `OpenDecision`, `Decide`, `OrderAnswered`; the service: `ServiceMoves`, `WritesLine` |
| `DeployPage` | `form`, `offer`, `asks` (the one question), `order`, `here` (domain) | `run-request-form.tsx`: `SelectMode`, `Choose`, `Submit`; `plan-apply.tsx`: `ApplyThisPlan`, `ConfirmApply`, `ApplyAnswered`; `command-menu.tsx`, `domain-switcher.tsx`: `OpenPage`, `SwitchTo`, `ConfirmSwitch` |
| `Assistants` | `draft` (OUs, groups, users, delegations, links, silos), `wizard`, `rename` | `wizard-model.ts`: `OpenWizard`, `TakeInput`, `GoTo`, `Finish`; `ou-rename-dialog.tsx`, `lib/ou.ts`: `OpenRename`, `TypeRename`, `ApplyRename` |
| `SettingsForms` | `stored`, `seen` (answer of the query), `inputs`, `sending` | one action for the inputs of each form and one for its save; `QueryArrives`, `SaveAnswered`, `SaveRefused` |
| `AdminLists` | `items` (service), `rows` (shown), `fetch`, `calls`, `dialog`, `ask` | one action for rows, sheet and save of each of the nine lists; `ToggleSchedule` shows the change ahead of the answer |
| `ConfigImport` | `versions`, `previews` (service), `source`, `preview`, `selected`, `issues`, `importCalls`, `checks` | `ImportService`: `MakePreview`, `Recompute`, `CheckImport`, `SaveNext`, `ExpirePreview`; `import-page.tsx`: the others |
| `Session` | `account` (service), `cookie`, `token`, `me`, `place`, `flights` | `AuthSetup.cs`, `AuthEndpoints.cs`, `UserService.cs`: `Handle`, `HandleChange`, `ServiceAnswers`, `UpdateUser`, `ResetPassword`; `auth.tsx`, `login-page.tsx`, `change-password-page.tsx`, `client.ts`: the others |
| `GpoEditor` | `gposStored`, `gposBase` (loaded), `gpos` (draft), `gpoDialog` | rows: `OpenGpo`, `NewGpoFor`, `DuplicateGpo`, `ToggleLink`, `AskRemove`; sheet: `Touch`, `SubmitGpo`; `MoveDialog`: `MoveKind`, `ChooseDestination`, `SubmitMove`; below them: `Refetch` |

The pages share nothing in the browser that a property is about but drafts (in `ConfigEditing`) and the session (in `Session`), so `Web` lets a
behaviour visit one of them and leaves the variables of the others empty: it composes them into one checked instance, it does not
claim anything about two of them at once. `Browser` adds the review, during which all of them rest, so that what holds of `WebSpec` holds
of `BrowserSpec`; the two are apart because `SectionDiff` is recursive, which the prover does not take. Plain fields of a form, and fields of a row nobody computes with, are one value.
A role only decides which controls are there; the models have those of the roles their actions need.

## 3. Runs

Every run is in `PROJECT.json` with its configuration. Nine pass; three are violated, each by a disagreement
between the code and what it says of itself (section 6).

| Run | Instance | What it shows |
|---|---|---|
| `approvals` | 1 apply, 2 operators, 2 handlers, scheduler, time 0..3, deadline after 1, calendar open or open late with one edit, 1 crash | decisions, expiry, cancellation and calendar race for one row: `FourEyes`, `FinalIsFinal`; the run ends whatever happens: `EveryRunEnds` |
| `two_runs` | 2 runs (apply or other), 1 operator, 1 handler, time 0..2, one calendar edit, 1 crash | `OneAtATime`, `DirectoryExclusive`, `EarlyCancelDelivered`; each step is a step of `RunContract` |
| `plans` | a plan and an apply of it (or two of either), 2 operators, 2 versions of the configuration | the reviewed configuration is the executed one |
| `cancel_race` | as `approvals`, smaller | violated: `ConfirmedCancelHolds` |
| `jit_two` | 2 requests of 2 people, 2 runs, 2 handlers, JitWorker, time 0..3, 1 crash, 1 refused completion | `FourEyesGrant`, `DirectoryAgrees` |
| `jit_ends` | 1 request, 2 runs, with and without approval, time 0..4 | `EveryRequestEnds` |
| `jit_deadline_race` | 1 request | violated: `RejectedHasNoAccess` |
| `git_mirror` | 2 sections, 1 handler, queue of 3, batches of 2, 2 versions, one each of: administrator's action, foreign commit, failing network, crash or database error | `FilesMatchListing`, `OthersUntouched`, `ConflictStopsPushing`, `EverySaveMirrored` |
| `config_history` | 2 sections (one exists from the start), 2 contents, 2 handlers, 3 requests, 1 abort, pages of 2 | `ChainIntact`, `VerifyFindsNoBreak`, `NoLostUpdate`, `LogFollowsHistory`, `RequestsEnd` |
| `drafts` | 1 tab, another session; 2 sections of a domain or 1 in two domains, 2 contents, up to 3 versions, 2 edits, 1 save loop, 1 query at a time, 1 sign-in | `ConflictIsNoticed`, `DraftsKnowTheirVersion`, `EachDomainItsOwnBases`, `AnswersTakeWhatWasSaved` |
| `draft_delete` | as `drafts`, with answers arriving while a dialog of an item is open | violated: `ConflictIsNoticed` |
| `web` | each page by itself, see below | `PagesCatchUp`, `DeployOrders`, `DraftsHangTogether`, `ShowsWhatItDoes`, `SessionsFit`, `ReviewsTell`, `AssistantsKeepTiers`, `SecretAsShown`, `EditsWhatWasOpened` |

The parts of `web`: two runs (one of the user, one that writes a log of two lines in pages of one) and two steps of the user; two domains and every
form of a request; four OUs of two tiers with groups, users, delegations, links and silos, two inputs and two changes, others removing an OU before
or behind the one being renamed; six
forms with two values, two secrets and two saves of the user or of others; nine lists of two rows with two changes on their
way; two sections, two sources, two previews, one save by others; one account that changes twice, two requests in flight; two
targets, two GPOs, two changes; a review of every pair of contents of four sections.

### Why the bounds are enough

*Clock.* The models compare times, they do not add them up: before, at and after a deadline, in and out of a window.
With a deadline one unit after the request a clock to 2 has all of these; one more unit lets a run submitted later
meet a calendar that opens late. `JitEnds` needs 4 for approval, grant, membership and its end. Time does not leave its
bound, and from then on deadlines in reach have passed.

*Actors.* The races of a row are between two writers that have both read it: two handlers, and the scheduler or the
JitWorker as a third. Four eyes needs two people, and symmetry among more adds no distinction. Two runs
are enough for "one at a time" and for a plan with its apply; a third would wait in the queue behind the second.

*Failures.* One crash, one failed call, one abort: each is possible at every step, so each window of two writes is hit;
`EveryRunEnds` and `EverySaveMirrored` then ask for recovery from the one. Bugs that need two crashes in a row are out
of reach of the runs, not of the theorems, which hold for every bound.

*Queue of the mirror.* Three places and batches of two give a batch that fills up, one that leaves something behind, and a
queue that is full while the worker is away; the run bounds the saves so that nothing is dropped. *Pages of two* over up to six entries give a page whose first entry follows the
previous page, one whose entries are linked inside it, and a short last one.

*Browser.* The races are between one thing a person has opened and one answer, or two answers: two requests, two objects and two
values show each order. `ConfigEditing` adds a second section (a save loop goes from one to the next) or a second
domain; `Scopes` says which, since both at once multiply states without a new order of two answers. With two contents every
second save restores the first one; what a third one could show of conflicts is covered by the theorem (section 5).

*Quiet bounds.* Some windows are closed in the passing runs; each is a constant that opens the window, and what happens behind it
is in section 6. Behind the first five the code does not keep the property, and the theorems have them as hypotheses. The other four
only keep the runs small: the theorems hold with those windows open.

| Constant | With TRUE | Otherwise |
|---|---|---|
| `ConfigEditing!QuietLeave` | no dialog, page or domain is left while an answer is on its way | answers of the former page reach the store |
| `ConfigEditing!QuietDialogs` | no section is loaded or given up while the dialog of an item is open | run `draft_delete` |
| `DeployPage!QuietDialogs` | the domain stays while the question is open | the deployment goes to the new domain |
| `GpoEditor!QuietMoves` | no refetch or save while the dialog that moves a GPO is open | another GPO is moved |
| `Assistants!QuietRename` | nobody removes the OU the dialog names as the new parent | the OU is moved below one that is gone |
| `RunPage!QuietPages` | no run is left while its question is open | the question hits the run shown at its answer |
| `AdminLists!Patient` | no dialog is opened or typed in while something is on its way | the answer to one save closes the sheet of another |
| `ConfigImport!QuietImport` | the source stays while an answer is on its way | the preview of the left source comes back |
| `Session!QuietSignIn` | nobody signs in, or changes a password, while another answer is on its way | an old answer deletes the new cookie |

*Symmetry* is used where only safety is checked and the permuted values occur in no other constant.

Deadlock is checked in the run pipeline and in JIT access, where `Rest` is the state in which nothing is left to do.
It is off for `GitMirror`, `ConfigHistory`, `ConfigEditing` and `Browser`: bounds on saves, requests and steps end their behaviours anywhere; what must go
on in the first two is stated by `EverySaveMirrored` and `RequestsEnd`. The browser has no liveness property: whether a person
goes on is up to them.

### Fairness and why the code justifies it

| Specification | Weak fairness of | Because |
|---|---|---|
| `RunLifecycle!FairSpec` | a handler's started request | an awaited call returns or throws |
| | `ExpireOverdue`, `PromoteScheduled` | `ScheduleWorker` calls both at every tick of its timer and survives exceptions |
| | the worker's step | `RunWorker` loops until it is stopped; a script has a time-out |
| | `Restart` | the installer tells the service manager to restart it (`src/docs/service/betrieb.md:8`) |
| | `Tick` | time passes |
| `JitAccess!FairSpec` | handlers, `Maintain`, the worker, scripts, `Restart`, `Tick` | as above; `JitWorker` has a timer of its own |
| `GitMirror!FairSpec` | the worker's step, `Enqueue` | one loop; `Enqueue` follows the commit of a save without an await between |
| `ConfigHistory!FairSpec` | each handler's transaction | statements return; PostgreSQL grants a lock that stays free |

Nothing is assumed of people, foreign commits, failures or crashes. No strong fairness is used. `EverySaveMirrored` and
`EveryRequestEnds` name what they excuse: a version that waits in memory only is lost by a crash, and with a crash
between its two saves `JitService.StartRunAsync` leaves a request Approved for ever (`Jit/JitService.cs:368`), which is why
`jit_ends` has none.

## 4. Contract and refinement

`RunContract` is what the manual tells the users: a run waits, is decided, is executed alone and ends once. It has no
handlers, queues, tokens or reads before writes. `RunRefinement` maps the status column to its `status`, and the run the
worker holds between claim and stored result to `executing`. So a decision that was read before the run expired, a late cancellation,
or the unconditional last write of the worker could each break it. A crash or a lost result is `CLose`: the contract
knows that the service may lose track of a run and recovers it on start.

## 5. Proofs

TLAPS proves these for every value of the constants: any number of runs, users, handlers, sections, requests, calendars,
deadlines, crashes and page sizes that the assumptions of the modules allow.

| Module | Theorems |
|---|---|
| `RunLifecycleProofs` | `TypeCorrect`, `FourEyesHolds`, `OneAtATimeHolds`, `EndsAreFinal`, `DirectoryIsExclusive`, `EarlyCancelIsDelivered`, `ConfigurationIsReviewed`, `ConfigurationIsPinned`, `ContractHolds` |
| `JitAccessProofs` | `TypeCorrect`, `FourEyesGrantHolds`, `DirectoryAgreement`, `ApprovedRequestsAgree` |
| `GitMirrorProofs` | `TypeCorrect`, `FilesMatch`, `OthersStay`, `ConflictHolds` |
| `ConfigHistoryProofs` | `TypeCorrect`, `ChainStaysIntact`, `NoFalseAlarm`, `NoUpdateIsLost`, `LogTellsHistory` |
| `ConfigEditingProofs` | `TypeCorrect`, `VersionsKnown`, `OwnBases`, `ConflictNoticed`, `AnswersTake` |
| `PageProofs` | the invariants of six pages, on which the next ones rest |
| `WebProofs` | `WebTypes`, `PagesAlwaysCatchUp`, `OrdersAsConfirmed`, `AlwaysShowsWhatItDoes`, `SessionsAlwaysFit`, `SecretsAreSavedAsShown`, `DraftsAlwaysHangTogether`, `AssistantsAlwaysKeepTiers`, `AlwaysEditsWhatWasOpened` |
| `NaturalExtrema` | two lemmas the others cite: least and greatest elements of sets of numbers |

The assumptions are those named in the modules: bounds are natural numbers, deadlines positive, names distinct, sections
finitely many; the catalogs of sections and of areas have an order without ties; there is somebody to ask access for; what stands for
"no run" or "no account" is none; the configuration and the sections a behaviour begins with are of their type. Some theorems have
hypotheses of their own, which the run of the same property meets and without which the code does not keep the property (section 6):

| Theorem | Hypothesis |
|---|---|
| `DirectoryAgreement` | every group needs approval |
| `OwnBases`; `ConflictNoticed` | `QuietLeave`; that and `ConfigEditing!QuietDialogs` |
| `AnswersTake` | `QuietLeave`, one save loop at a time (`MaxSaves = 1`; Ctrl+Enter can start a second one) |
| `OrdersAsConfirmed` | `DeployPage!QuietDialogs` |
| `AssistantsAlwaysKeepTiers` | `QuietRename`; the configuration to begin with hangs together |
| `DraftsAlwaysHangTogether` | the same, and no section of the service has a name twice in a target |
| `AlwaysEditsWhatWasOpened` | `QuietMoves` |
| `WebTypes` | `DeployPage!QuietDialogs`, and those of the assistants |

That the service's configuration hangs together and has no name twice is what its validator sees to; nothing else is taken on trust.

**Run pipeline.** `FourEyes` speaks of rows, but a row becomes approved by a write of what a handler has read before.
`IInv` therefore also says what is carried between read and write:
* `HandlerInv`: a decision in flight has another person's name and a time before the deadline of the row it will be
  written to, and a row in flight to the table starts out pending. It is stable because deadline and
  requester of a row never change once it exists, and `FreshInv` (ids are handed out in order) makes a new row's id free.
* `WorkerInv`: from the claim to the stored result the row the worker holds says Running. No other actor can change
  it, for every other write is conditional on a waiting status; that makes the worker's unconditional write harmless.
* `RunningInv`: a row that says Running is the worker's, or lost, or about to be recovered. `OneAtATime` follows.

`FinalIsFinal` is then a case split over actions: conditional writes by their guards, the unconditional one by `WorkerInv`.

**Process, registration, configuration.** Three additions to `IInv`, each inductive together with it:
* `ProcessInv`: until the service crashes, a process that is alive is that of the run the worker executes. With `WorkerInv`
  its row says Running, so `DirectoryExclusive` follows.
* `QueueInv`: from `Register` to `Unregister` the run is in `active` and not in `pending`. A cancellation looks both up under
  the lock `Register` takes, so one that comes too early is in `pending` when `Register` empties it, a later one finds `active`.
* `PlanInv`: every row, in the table or on its way there, that names a plan has that plan's configuration. It rests on
  `RowPinned`: no write but the insert touches the columns about the plan, and the version of a row is only ever filled in,
  by the worker, while the row is Running. The plan itself has ended, and `EndsAreFinal` keeps its status.

**Refinement.** From the same invariant each action is mapped to a step of the contract or to a stutter; `WorkerInv` gives
`executing = r` its Running row, and with `RunningInv` a claim finds nothing else executing.

**Versions and log.** `IInv` says what each open transaction knows at its step (`RequestOk`): from the row lock on, the
base is the current version (not so for a creation, which has no row to lock: there the primary key decides); from the
chain lock on, nobody else writes, so the hash read is that of the last entry, and the numbers taken are higher
than all in the log, although the sequence has gaps left by aborts. Without the last part the chain would not be provable: an entry with
a lower Id could appear behind one that was read. `ChainedEntries` and `AppendEntry` show that one or two entries linked
that way keep the chain; `LogFollowsHistory` needs both locks, since the row lock orders the versions and the chain lock the Ids.
`NoFalseAlarm` rests on two facts: a page is a beginning of what is left (`PageIsPrefix`), and an entry in flight
has a number above the one the verification has got to, so nothing ever appears behind it.

**JIT access.** A membership is written by a script from a run that was inserted from a request a handler had read.
`IInv` follows that way: `ProcInv` (what a handler will write was approved by another person in time, or needed no approval),
`RunInv`, `ScriptInv`, `WorkerInv` and `MemberInv` say at each station that the request is `Granted`, which is
stable because `by`, `target`, `approvalRequired` and `approvalExpires` of a row never change and a decided row is never
undecided. `FourEyesGrant` is its last station.

`DirectoryAgrees` needs more than that: a request that is called expired or revoked while its grant still runs would get its
member afterwards. `AgreeInv` says of each request that needs approval that it has one grant run at most (`OneGrant`: `SaveDecision` is
conditional on Pending, and the handler that won it inserts the run), that what the worker read from a script is what the directory
says until another script of that request is done (`OutcomeInv`), and that a request becomes Active, Expired or Revoked
after its grant is `Settled`: no handler will insert one, and the one there is has neither a script nor the worker (`SettledInv`). A request without
approval can have two grant runs, hence the hypothesis; `ApprovedRequestsAgree` says what is left without it.

**Mirror.** `Matching` and `Growing` say of both histories, the clone's and the remote's, what `FilesMatchListing` and
`OthersUntouched` say; both are needed on both sides since either may become the other by a fetch, a reset or a push. The work is in `CatchUp`, which
replays the commits that are ahead of the longest common history: `MergeBaseType`, `AheadType` and `CatchUpKeeps` show that a replayed commit takes
its sections from one tree and everything else from the tree below it. `ConflictStopsPushing` needs `WorkInv`: the worker is at
work with a conflict reported only if it was asked to take over the remote.

**Drafts.** The lemmas `AppliedKeeps` to `LoadedKeeps` say of each method of the store that it keeps the type of the store, and that
the present drafts and all snapshots in `past` and `future` stay in a set `T` that held the old ones (`Holds`). Two such sets make
the properties: `SoundOver(K)`, drafts that have their versions, in sections that were loaded, and `BegunIn(d)`, drafts whose origin, the version the author
had before them, is the one they will claim to replace. `DraftsKnowTheirVersion` is the first, without any quiet bound.
`ConflictIsNoticed` is the second with `PlaceInv` (everything shown or on its way is of the selected domain, so that `rebase` and `setBase` put no version
of another domain under a draft): the service accepts a save when the claimed version is the newest one, and then the author had that one.

The attempt to prove `ConflictIsNoticed` failed at first for a good reason: with a question about a deletion open, a conflict after Ctrl+S and its
answer "reload" discard the draft, and when the load fails the question is answered over a newer base. `Reload` is therefore under
`QuietDialogs` like the other ways to move a section under an open item; the former bounds, with two contents, could
not show it: it takes three contents and three writes of one section.

`AnswersTakeWhatWasSaved` is a matter of who can still write while an answer is on its way. `LoopWait`: a save that was stored carries the content
the draft still has, for as long as a loop runs nobody is at the page (the dialog says "saving", or the session has ended), and what arrives meanwhile,
a load, a rebase, a restored version, changes no content (`LoadedSays`, `SavedSays`). A load that would close the dialog would
open the page again: `FetchWait` says that one is on its way only while a conflict is shown, and no loop runs then.

**Pages.** `PagesInv` is one invariant per page under `at = "<page>"`: a step of a page is one of its module (`RunSteps` and its
like), and the page stays. What each page needs beyond its property is what is on its way:
* *Run page*: what the poller was told when it asked (`PollInv`) and that the log of a run that has ended, once complete, stays so
  (`EndInv`), for the run writes no more; without the first an answer could end the log too early.
* *Deploy page*: what the open question was asked about and what the offer was made for (`AskFits`, `OfferFits`). Only the switch of the domain
  breaks the first, hence `QuietDialogs`.
* *Forms*: a request on its way carries what the form showed when it was sent, with a type that takes the secret.
* *Lists*: a list with nothing on its way has been read since the last change, so each answer, refusal and failure has to leave a reading
  behind; for the one switch that shows its change ahead of the answer also where a refused one is taken back.
* *Import*: every preview that is still known anywhere, in the service, on the page or in a call, is the only one with its number
  (`KnownInv`), and only the check of the present selection is still followed (`ChecksInv`).
* *Session*: a cookie is what its account is, or its stamp is older (`Fresh`), and so is every cookie an answer will set; an
  answer that begins a session brings the token of its cookie (`AnswerFits`); the rest says which answers can be on their way at which place.

**Assistants.** `HangsTogether` is inductive together with what the open dialog holds: inputs of a step are chosen from the draft (`Wizards`), and the
dialog that renames knows every OU of the draft and a parent that is there (`Renames`); only one of the two is open. The work is in the renaming:
`RebasedIs`, `RebasedDn` and the lemmas behind them show on sequences that an OU and all below it move together, that no two OUs end
up at one place, and that every reference moves along. `AssistantsKeepTiers` then follows for the plan of each assistant from the guard of its last
step, since the tiers of the draft are read at the moment it is written.

**GPO editor.** `GpoInv` says what a sheet may hold: in particular it never loses a list the GPO had, which makes `NothingNeedless` provable
(`NothingToApply`). The changes of a list are three: replace, append, remove (`ReplaceKeeps`, `AppendKeeps`, `RemovalKeeps`), each with what it leaves, which
GPO is gone and that names stay unique; a draft that equals its base is dropped, so sections are compared up to the identity of objects (`Alike`).
`EditsWhatWasOpened` holds of sheet and question because they look for the object they opened (`PlaceIs`). The move dialog goes by its place:
`MoveInv` says that the GPO is still there, and is inductive with `QuietMoves` only.

Two proofs failed at first for a good reason. The condition of `QuietRename` was written one column to the left of the list it
belongs to and so weakened the whole guard. And the check for a clash in the move dialog compared GPOs by their values, while the code
compares objects: of two equal GPOs in two targets one could be moved to the other, which the instance for TLC does not contain. Both are mended.

### What is only model-checked

Liveness (`EveryRunEnds`, `EveryRequestEnds`, `EverySaveMirrored`, `RequestsEnd`): out of reach of the prover with
`ENABLED`.
`ReviewsTell`: `SectionDiff` is recursive over the tree of a content, and what a recursive definition computes is out of reach as well.

## 6. Where the code disagrees with what it says

* `cancel_race`: after the process has ended and before its result is stored, `CancelAsync` still finds the row Running,
  leaves the cancellation where nobody looks any more, logs it and answers true; the run is stored as Succeeded
  (`Runs/RunService.cs:197`).
* `jit_deadline_race`: `MaintainAsync` rejects overdue requests it has read some time ago without a condition; an
  approval saved in between is overwritten while its grant run is queued. The account becomes a member under a Rejected
  request, which nobody can revoke in the application (`Jit/JitService.cs:469`).
* `draft_delete`: the question before an item is deleted closes over the list it was asked for. When the section was loaded anew
  meanwhile, the answer writes that list with the new version as its base, and the save replaces the version without the conflict
  the manual promises (`features/config/list-editor.tsx:154`). "Reload" in the dialog of a conflict does the same to a question that is open under it.

Seen while modelling, without a run of its own:

* *JIT.* A request whose group needs no approval is stored as Pending and approved by a second save (`Jit/JitService.cs:255`). A
  withdrawal in between is overwritten, and an operator's approval in between starts a second grant, which prolongs the
  membership beyond what the request says. `jit_two` therefore has only requests that need approval.
* *Mirror.* With nothing to push, a foreign change of a section's file is fast-forwarded over and overwritten by the next save, without
  the conflict `src/docs/service/betrieb.md:210` promises (`GitSync/GitRepositorySync.cs:177`). A full export that fails before its commit is
  forgotten by its retry (`GitSync/GitSyncService.cs:264`). A channel with `DropWrite` answers true for what it drops, so the branch that would
  ask for a full export is never taken (`GitSync/GitSyncService.cs:36`).
* *Domains.* Deleting a domain empties the `DomainIds` of windows and freezes that were for it alone, which then are for all domains
  (`Domains/DomainEndpoints.cs:137`, `Maintenance/MaintenanceService.cs:20`).
* *Drafts.* `cancelQueries` does not stop the query function, whose answer fills the store of the domain selected by then
  (`features/domains/domain-context.tsx:85`). "Never carry unsaved drafts of a previous session over to another account"
  (`features/auth/login-page.tsx:130`), but `discardAll` (`features/config/draft-store.ts:158`) empties the store of the selected domain only; a switch
  of domain brings back what was drafted in another. After Escape or a navigation the answer of a save removes a newer draft; Ctrl+Enter has
  no guard against a second save loop (`features/config/save-dialog.tsx:171`). A save whose answer is lost conflicts with itself.
* *Search.* A hit in a list opens the item at its index of the saved list, in the list of the draft (`components/layout/command-menu.tsx:111`).
* *GPO.* The dialog that moves a GPO finds it by its index alone (`features/config/gpo-editor.tsx:800`), and its check for a clash does not trim names.
* *OU.* Renaming looks for duplicates, and for the new parent, in the OUs it was opened with (`features/config/ou-rename-dialog.tsx:81`): when others
  remove the parent meanwhile, the OU is moved below one that is gone (`QuietRename`). It leaves silos alone, although its text
  says that all references are adjusted (`i18n/en.ts:3741`).
* *Questions.* A second question replaces the first (`components/ui/confirm-dialog.tsx:28`); the question of a run hits the run shown when it is
  answered (`features/runs/run-detail-page.tsx:80`), the one of a deployment the domain selected by then (`features/runs/plan-apply.tsx:125`).
* *Run page.* The poller gives up at Scheduled and does not begin again by itself (`features/runs/run-log.tsx:68`).
* *Forms.* Any changed refetch resets the forms for settings, SMTP, Windows and Entra; the form of the mirror never refetches.
* *Lists.* A switch sends the whole row as it was when the list was drawn; the token of a dialog that was closed early is never shown
  (`features/auth/api-tokens-page.tsx:187`).
* *Import.* The answer after "other source" brings the left preview back (`features/config/import/import-page.tsx:117`).
* *Session.* The answer to a request with the old cookie, arriving after a change of the password, deletes the new cookie; the queries' cache survives the
  sign-in of another account.

## 7. What is not modelled

* Framework scripts and the PowerShell client: sequential, and what they do is in Active Directory. A script is its
  result here.
* Contents of configuration sections beyond what the assistants, the GPO editor and the review tell apart; plans, reports, health and directory views: data without a protocol. Their pure rules (validator,
  tier rules, comparison of privileged groups) are candidates for operators checked against definitions.
* Roles and set-up: who may do something is a guard on a person, not a state; an operator of a model is one who may. `Session` has
  sign-in by password only: Entra and Windows sign-in end in the same cookie, API tokens have no session.
* Web pages that only show (dashboard, directory, reports, privileged groups, change log), the set-up assistant, and the editors of
  the other sections, whose protocol is that of `ConfigEditing` with other fields; translations and layout.
* Several domains: rows, queue and mirror are per domain, one worker serves them in turn. The creation and removal of a domain next to
  running work is planned.
* The calendar's arithmetic (weekdays, time zones, daylight saving): the models take the set of allowed moments as given.
* Database failures other than those named, clock changes, and two instances of the service on one database, which the
  installer does not create.

## 8. Plan

1. *Done*: run pipeline with contract, refinement and proofs; JIT access; Git mirror; versions and log with proofs; the draft store
   and configuration editor; nine parts of the web interface; the theorems of section 5.
2. *Next models*, by weight: creation and removal of a domain against runs, schedules and requests
   (`Domains/DomainEndpoints.cs:69`: a lock order opposite to that of the writers); `SiemForwarder` and `NotificationService`
   (cursor, bounded channel, retry: at least once, in order); schedules (`Runs/ScheduleWorker.cs:106`: a crash between
   firing and storing the next date); the run log writer; the calendar's next start and cron's next date as recursive functions
   against reference definitions.
3. *Next composition*: `ConfigEditing` with `ConfigHistory`: the editor's base version is the token the service compares, so that
   `NoLostUpdate` and `ConflictIsNoticed` together say that nobody's change is lost from keyboard to table.
4. *Next theorems*: that `DraftStore` implements an abstract store with one draft per section; `NoLostUpdate` from keyboard to table for the
   composition of item 3.
