# A verification project for RoleFit

RoleFit is a local job-application workbench. A browser client talks to a
loopback server that keeps the user's work in one workspace directory; an
Electron companion starts that server, and an MCP server and a browser extension
are further clients of it. This directory holds TLA+ models of the parts where
that work could be lost, the TLC runs that check them on small instances, and
proofs that TLAPS checks for every instance.

Paths below are relative to `src/apps/role-fit-ai/` unless they say otherwise.

## 1. The system

### Inventory

| Component | State it keeps | Operations | What is hard about it | What makes it correct |
| --- | --- | --- | --- | --- |
| Tracker transaction: `server/applications/{storage,trackerRoutes,documentService,attachmentRoutes,statusService,updateService,commitService}.ts` | `applications.json`, a folder of documents per application, the cached `snapshot`, the promise queue `applicationsWriteQueue` | list, save (upserts and deletes), document and attachment save or removal, status change, record update, commit | two stores without a common commit; a cache keyed by file identity while other programs edit the file; rollbacks that can fail; `Promise.all` that leaves work running; crashes | the cache is what a read would return; no lost update; unreadable records are never erased; tracked documents are on disk; a failed request leaves no trace; every request is answered |
| Tracker record rules: `reconcile.ts`, `schema.ts`, `eventService.ts`, `answerService.ts`, `src/lib/application{StatusTransitions,StageHistory}.ts` | one record: stage, dates, history, answers, artifacts | the guards every write passes | several entry points with different guards on the same record | dates are never dropped, stage changes are recorded, saved answers never change |
| Workspace replacement: `server/workspaceRestoreGate.ts`, `workspaceBackup.ts` | generation, `restoreActive`, `presenceAttempted`; directories beside the workspace | create a backup, restore one | nested locks; four renames each of which may fail; tabs that show up meanwhile; crashes between renames | no workspace is deleted; no request from before the restore writes after it; the answers are true; the gate opens again |
| Presence: `server/presence.ts`, `src/hooks/useTabPresence.ts` | map of live tabs | beacon, gone beacon, expiry | beacons race a restore; frozen tabs expire | a restore never runs under a live tab |
| Workspace files: `server/workspace.ts`, `coverLetterWorkspace.ts` | base resumes, cover letters, `.trash` | open, save, rename, delete, restore | archive then replace, with failures in between | no version of a document is ever lost |
| Workspace preferences: `server/workspacePreferences.ts`, `src/lib/workspacePreferences{Sync,Rebase}.ts` | a revisioned preferences file; each tab's pending changes | read, write with a base revision, rebase | several tabs, conflicts, retries | every tab converges and no change is silently dropped |
| Tracker client: `src/hooks/useApplications.ts`, `src/lib/applicationMutation.ts` | optimistic and confirmed tracker, revision, save queue | edit, delete, refresh | answers out of order, sparse replies, conflicts, edits while a save is pending | the confirmed tracker is the server's at its revision |
| Tab registry and drafts: `src/lib/tabPresence.ts`, `src/hooks/useWorkspaceResume.ts` | heartbeats and drafts in localStorage | heartbeat, claim of a dead tab's draft | duplicate tab ids, throttled timers | one owner per draft |
| Intake, fit, apply: `src/hooks/use{JobIntake,ApplyFlow,AutoGhosting}.ts` | flow state per tab | fetch, assess, apply, skip | stale AI answers, single-flight Apply | an answer is used only for the posting it was asked for |
| Extension inbox: `server/extension/*.ts`, `src/hooks/useExtensionInbox.ts` | captures waiting for a tab | capture, claim, discard | two tabs claim one capture | each capture is delivered once |
| AI routes and providers: `server/ai`, `server/ai-cli`, `server/provider-connections.ts` | running jobs, connections | run, cancel, connect | external processes | limits and cancellation |
| Desktop companion: `desktop/*.cts` | server child process, settings, vault | start, stop, restart | exits that race restarts | one server at a time |
| MCP server: `mcp/*.ts`; runtime and network guard: `server/{runtime,network}.ts` | none that matters | dispatch | - | - |
| Document engine and editor: `src/packages/{engine,editor}`, `src/apps/typeset` | document model, undo history | edit, lay out, encode | large data | codecs are inverse to each other |

### How they interact

Every HTTP handler that touches the tracker appends its task to one promise
chain (`withApplicationsLock`); the handlers of resumes, cover letters and
preferences append to another (`withWorkspaceLock`). Both take a
generation capture when they are called and assert it when the task starts.
Backups and restores take the workspace chain and, from inside it, the tracker
chain. Beacons and the restore share the gate's flags without a lock. Tabs only
share files through the server and their registry through localStorage.

## 2. The models

| Module | Models | Uses | Instance |
| --- | --- | --- | --- |
| `TrackerStore` | the tracker transaction | Integers, FiniteSets, Sequences; `AtomicTracker` | `MCTrackerStore` |
| `AtomicTracker` | what the tracker promises: requests that take effect in one step | Naturals | |
| `TrackerTab` | the browser's tracker client against an atomic tracker | Naturals, Sequences | `MCTrackerTab` |
| `ApplicationRecord` | the life of one record: every form and route that writes it | Naturals, FiniteSets | `MCApplicationRecord` |
| `WorkspaceRestore` | replacement, backup, presence, the two locks | Naturals, Sequences; `AtomicWorkspace` | `MCWorkspaceRestore` |
| `AtomicWorkspace` | what replacing the workspace promises: one workspace, replaced in one step or not at all | | |
| `WorkspacePreferences` | the preferences file, browser storage and the tabs that share them | Naturals, FiniteSets | `MCWorkspacePreferences` |
| `ExtensionInbox` | the import queue and the tabs that poll it | Naturals, Sequences, FiniteSets | `MCExtensionInbox` |
| `TrackerStore_proofs`, `TrackerStore_files_proofs`, `TrackerStore_atomic_proofs`, `TrackerTab_proofs`, `ApplicationRecord_proofs`, `WorkspaceRestore_proofs`, `WorkspacePreferences_proofs`, `ExtensionInbox_proofs` | theorems about the module they are named for | that module, TLAPS | |

The modules meet at their interfaces: `AtomicTracker` is what `TrackerStore` is shown to implement and what
`TrackerTab` and `ApplicationRecord` take the server to be (one write, one new revision, or a refusal that changes
nothing). `WorkspaceRestore` leaves out what a save writes and `TrackerStore` leaves out the gate before its lock.

### TrackerStore

`disk` is `applications.json` (identity, form, records, which records are
unreadable), `files` the document folders, `cache` the module variable
`snapshot`, `queue` the promise chain, `op` and `reply` the requests. The task at
the head of the queue is `pc`, `local` and `todo`: what the handler keeps across
its awaits. One action is one stretch of code between two awaits:

* `Submit` - a handler calls `withApplicationsLock`;
* `TakeLock`, `ReadFile`, `ReadFails` - `readTrackerFile`: the stat, the cache
  test, the read, the upgrade of a version 0 file;
* `AnswerList`, `RefuseUnreadable`, `AnswerWithoutWriting`, `PreviousReadFails`,
  `Begin` - the decision of each handler: 304 or list, refusal, unchanged retry,
  dry run, or the next tracker and the previous bytes. `Accepts` holds the guards;
* `WriteFile`, `FileFails`, `RestoreFile`, `RestoreFails`, `WipeFolder`,
  `StrayLands` - file by file, in the order of the code, or in any order under a
  `Promise.all`; `strays` are the operations a rejected `Promise.all` leaves running;
* `WriteTracker`, `WriteFails`, `Confirm`, `TrashFolder` - the rename, the second
  stat, the folders of deleted records one by one;
* `OutsideEdit`, `Crash` - the environment.

Ids may be used again: a tab that still shows a record another client deleted saves it under its old id (`CanCreate`), and the
folder of that record may have stayed behind. Only a commit makes up an id nobody has (`FreshId`).

A record is its revision, the class of its stage and the bytes its artifacts
describe. `torn` names the files a crash, a failed rollback or a stray left
wrong: the safety properties except exactly these, and the run `failedsave` shows
why one of the exceptions is needed. `raced` says that another program has edited the tracker since the task at the head read it:
the server replaces the file without looking again, so `NoLostUpdate`, `UnreadableKept` and `NotModifiedIsTrue` are about tasks
that were not raced.

Simplifications: timestamps, revisions and identities come from one counter, so
two edits never share a timestamp tick (the code's comment at
`storage.ts` 57-62 concedes that case); the folder of a deleted record becomes
empty instead of moving to `.trash`; a client echoes the artifacts of the record
it edits, as the browser does; "sent" stands for all submitted stages and for the
submitted record's date; empty folders are not distinguished from missing ones;
an update's other fields and the limit on a record's attachments are left out; a request is sent once (a retry is another
request with the same content).

### AtomicTracker

The tracker as its clients see it: a map from ids to revisions, requests that are `Call`ed, change what they name from the
revisions they sent (`Change`) or look without changing (`Read`), and are then `Answer`ed; `Lose` is the process going away.
`TrackerStore` instantiates it with the records of `disk`: the rename that puts a written tracker in place is a
request's `Change`, the two stats, the file writes and the upgrade of an old file are stutters. `TrackerIsAtomic` says
that every behaviour of the handlers is one of this map: a request answered as saved has changed only what it named, once; any
other answer changed nothing. It is stated without outside edits (`MaxEdits = 0`): another program that edits
the file during a task may be overwritten, which `NoLostUpdate` describes by `raced`.

### WorkspaceRestore

`generation`, `restoreActive` and `presenceAttempted` are the variables of
`workspaceRestoreGate.ts`; the two queues are the two promise chains; `capture` is
each job's `captureWorkspaceAccess()`. A directory tree is named by its origin
(the Original workspace, the tree of a restore, a Fresh one made where none was)
and `place` says whether it is active, staged, kept as the previous one, or gone.
Each rename of `restoreWorkspaceBackup` is an action with its failure
(`MoveAside`, `Install`, `TakeOut`, `ReturnPrevious`), and each test for a live
tab is taken with the code that follows it, since nothing else runs between two
awaits. `Unwind` settles the inner promise, the outer one, and then runs the
outermost `finally`. Tabs open, load, beat, freeze, wake and close; `FreezeTab` is the browser
suspending a background tab.

Simplifications: each tree is used once and a Fresh tree is made at most once;
the map's cap of 200 tabs and lost beacons are left out; a running tab never goes
90 s without a beacon (its heartbeat is 4 s); a restore's backup is valid or
invalid as a whole.

### AtomicWorkspace

What saves, restores and tabs meet: one `workspace`, the `state` of each request, the `base` each save was asked for or each
restore found, and what each tab was `shown`. A save asked while a restore is under way is `late`, one asked before it
`overtaken`; only these may be refused, and a save that is carried out writes to its base. A restore is let in alone, begins, and
swaps the workspace in one step, keeps it, or strands it when a roll-back fails; its answer says which.

`WorkspaceRestore` instantiates it. From the rename that moves the old tree aside to the check after the one that installs the new
one a restore may still go back, and the workspace (`Visible`) is the tree it found; at any other time it is the active tree.
The states of the requests are read off `pc`, the captured generation and the answer. Beacons, backups, the locks and the renames are
stutters, except that a backup makes the workspace it finds missing (`Make`), and the check after the last rename is the `Swap`. Only a crash in the middle of a restore shows another tree: the new one, an
empty one or none. `WorkspaceIsAtomic` says that every behaviour of the gate, the locks and the renames is one of these.

### TrackerTab

Each tab of `useApplications.ts`: `shown` is `applicationsRef`, `confirmed` and
`known` are `confirmedApplications` and `confirmedRevision`, `queue` is
`persistQueue`, `version` is `persistVersion`; `mount` and `refresh` are the two
kinds of list request. The server is the sequence `versions` of the trackers it
has held, a revision is an index into it, and its routes are the guards of
`reconcile.ts` and the three replies of `trackerRoutes.ts` (sparse, full, 409).

* `CreateApplication`, `UpdateApplications`, `Remove`, `MergeApplications` - `persist`
  with the changes its callers make;
* `SendWrite`, `AcceptWrite`, `RefuseWrite`, `AcceptUnconfirmed`, `LateSave` - the request
  reaches the server now, or after its tab gave up on it;
* `SettleSaved`, `SettleConflict`, `SettleFailed` - what `persist` does with the answer;
* `HandleMount`, `FinishMount`, `DropMount`, `FailMount` - the first read;
* `Refresh`, `AutoRefresh`, `AskRefresh`, `HandleRefresh`, `FinishRefresh`,
  `RepeatRefresh`, `FailRefresh` - `refresh`, asked by the user or by `useAutoGhosting`;
* `SavedElsewhere`, `OutsideEdit` - the routes and other clients, and other programs.

A record is its `updatedAt` and the set of edits it contains. An edit of a copy contains the
edits of that copy, so "whose work does this step remove" is a
question about sets.

Simplifications: a request refused with another error is one that fails in the browser;
order is not kept; records the server leaves out of a list (`trackerNotice`) and a newer tracker file are left out; the
fallback read after a sparse reply that cannot be placed is left out because
`ConfirmedIsTrue` shows that every reply fits; the answer saves' own queue is not modelled and the detail form that
holds an older copy of a record is in `ApplicationRecord`; with `ClockRuns` no two edits
share a millisecond.

### ApplicationRecord

One record `app` (or `Gone`), reduced to its stage, whether it has a submission date, whether it names documents, its
history as a set of entries, its answers and its revision. `held` is each tab's copy, `seen` the version its open
detail form was built from, `asked` the form that waits for the user's answer to a question (discard the unsaved timeline
entry? unlink or merge a related record?), and `outcome` what the last save came to.

* `StatusRoute`, `EventRoute`, `UpdateRoute`, `AnswerRoute` - the four services of the server, each with its own order of guards;
* `ForeignStage`, `ForeignAnswers`, `Delete` - other clients that send a whole record through `reconcile.ts`;
* `Menu`, `Ghost`, `FormSave`, `FormRecreate`, `FormAsk`, `FormConfirmed`, `EntrySave`, `EntryRemove`, `Merge`,
  `ApplyPrepared`, `SkipPrepared`, `SaveAnswer`, `SaveDocuments`, `Refresh` - what a tab offers and the record it then sends.

`Accepted` is the sanitizer and the guards every whole-record write passes (`DateKept`, `StageRecorded`, `AnswersKept`,
`SkipDropsDocuments`); `FormsAgreeWithServer` says that a form never offers what they refuse; `ForeignStage` gives no undated
record a timeline, since the server would accept that and then refuse a form's skip. `SubmissionIsHistory` and `AnswersAreFixed`
relate each saved record to the one it replaces: the server compares a write with the record it has, so a record deleted and created
again, or an answer removed and later added under its id, starts anew.

Simplifications: a save and its answer are one step (`TrackerTab` has the time between them); a date is there or not;
entries are added, removed and merged but not edited in place; a saved answer is its number and text; job fields, notes and prices are left out.

### WorkspacePreferences

`file` and `revs` are `workspace-preferences.json` and the revisions it has had, `marker` the restore generation the server
reports with it, `storage` what the tabs of one browser share (the cached settings, the last restore adopted, the edits not
yet posted), `tab` the module variables of `workspacePreferencesSync.ts` in each tab, and `net` the posts whose tab gave up
on them but that may still arrive. A value is the number of the edit that made it, so that the properties can say whose edit a step removes.

* `Open`, `Mount`, `Close`, `Edit`, `TimerFires`, `Focus` - the tab's life, the debounce timer and the adoption on focus;
* `SettleSaved`, `SettleStale`, `SettleFailed`, `FinishGet`, `FailGet`, `FailPush` - what a push or an adoption read does with its answer:
  release, rebase and retry once, keep pending;
* `ServerWrites`, `ServerExplains`, `ServerReads`, `LatePost` - the route under its lock, and the second lock of the refusal's snapshot;
* `SavedElsewhere`, `Damage`, `Restore` - other clients, a file that does not parse, a restored workspace.

Simplifications: a file of a newer format is treated as one that does not parse; a restore happens under open tabs only
because these may be frozen (section above); a tab has a bounded number of pushes under way; the UI's 400 ms debounce
before a setting reaches the module is part of `Edit`, so that what the page saves when it goes away is in storage already.

### ExtensionInbox

`inbox` is the queue of `extensionInbox.ts` as a set of entries, since ids are in order of arrival; `running` is
`extensionPreparing`, `arrived` is `extensionImportSeq` (it goes on after a restart, when queue and preparation are lost, while the code's starts again), `tab` the variables of `useExtensionInbox.ts`, `given` the history
of what was handed to whom.

* `Import`, `PrepareEnds`, `ServerPoll`, `OwnerQuiet`, `Expire`, `Restart` - the server: a posting arrives and evicts, its preparation
  ends and starts the next, a poll claims or renews, an owner goes quiet, an entry expires, the process restarts;
* `OpenTab`, `DuplicateTab`, `Rename`, `Start`, `TimerFires`, `Wake`, `Hide`, `SettleNull`, `SettlePreparing`, `SettleImport`, `Imported`,
  `FailPoll`, `RefusePoll`, `Reload`, `Close` - a tab and its polling loop.

That a tab which shows "receiving" will eventually get or lose its posting is a liveness property; it is stated as the invariant
`ReceivingAwake` (a poll or a timer is under way), which is what the loop can get wrong.

## 3. The runs

| Run | Bounds | Properties | States |
| --- | --- | --- | --- |
| `docs` | 2 applications and a limit of 1, 2 files in one slot, 2 contents, 2 requests (list, save, document, commit), 2 faults, 1 crash, a current or a version 0 workspace, or the folder of a deleted record | `TypeOK`, `TrackedFilesOnDisk`, `FailureLeavesNoTrace`, `EveryRequestAnswered`, `TrackerIsAtomic` | 733 thousand |
| `edits` | 2 applications, 2 requests (list, save, first submission, update), 2 outside edits of every form, a current or a version 0 workspace | `CacheTruth`, `NoLostUpdate`, `UnreadableKept`, `NotModifiedIsTrue` | 5.1 million |
| `routes` | 2 applications, 2 sources, 2 requests (commit, first submission, update), 1 fault, 1 crash | `TrackedFilesOnDisk`, `FailureLeavesNoTrace` | 1.8 million |
| `move` | a saver, 2 restores, a tab, 1 fault, 1 crash | `WorkspaceNeverDeleted`, `StaleSaveRefused`, `WorkspaceIsAtomic` | 920 thousand |
| `live_restore` | a saver, a backup, a restore, a tab, 2 faults, 1 freeze | `TypeOK`, `WholeWorkspaceAlone`, `RestoreAnswersAreTrue`, `EveryJobAnswered`, `GateReopens` | 254 thousand |
| `tab` | a tab, 2 applications, 3 changes by the tab, other clients or programs, 2 faults, 3 moves in all | `TypeOK`, `ConfirmedIsTrue`, `NoPhantomEdit`, `LossIsShown`, `NeverGoesBack`, `UnseenEditsAreKept`, `TabNeverStalls` | 425 thousand |
| `prefs` | 2 tabs with 2 pushes each and a setting of their own, 2 edits, 3 openings, 1 focus, 1 fault, 1 restore, 4 moves in all | `TypeOK`, `NoEditForgotten`, `PendingIsShown`, `NoUnseenOverwriteInTurn`, `RestoreWins` | 122 thousand |
| `inbox` | 2 tabs, 2 imports of which one has no token, one place in the queue, 2 faults, 3 moves | `TypeOK`, `ImportsReachTheirTab`, `PreparesInTurn`, `ReceivingAwake`, `PreparingIsKept` | 1.3 million |
| `record` | a tab, 3 writes, a history of 2, an answer, the stages draft, not_applying and three submitted ones | `TypeOK`, `FormsAgreeWithServer`, `SubmissionIsHistory`, `AnswersAreFixed` | 1.2 million |
| `failedsave`, `overlap`, `modal` | as small as shows it | one promise each, violated | |

The bounds are chosen so that each hazard has its actors: two requests are what a lost
update, a stale base or a stray landing in another request's files take; two
faults are a failed write with a failed rollback; two outside edits change the
file before the read and between the rename and the stat; two restores are a
refused one next to a running one, and one after another; three
changes are an edit of another client and two edits of the tab, the second queued behind a refused first;
one place in the inbox makes every second import an eviction, and a duplicated tab is a second claimant with the first one's
name; three writes of a record are a submission, a change somebody else makes to it, and the save of a form opened in between; two tabs
with settings of their own rebase on each other's revision. "Moves" bounds what users and the environment start in all, so that the
single limits may be generous. Every action of every module is taken
by a passing run. The safety runs of `TrackerStore`, and `move`, `prefs` and `inbox`, use symmetry; the liveness runs do not.

`edits` has no crash, which would take it past what TLC explores in a few minutes: that a 304 is still true after a restart is shown
by `NotModifiedMeansSame` alone. Two hazards of section 1's parts have no property, because none of the properties depends on them:
the second look at the gate in the beacon handler (`presence.ts` 62, modelled by `BeaconApplied`), without which only the
beacon of a tab already gone would be treated differently, and two clients that make the same revision in one millisecond (`useApplications.ts` 186),
which `ClockRuns` excludes.

Deadlock is not checked: when every request is answered the system rightly stops.

Fairness: `FairSpec` of `TrackerStore` is weak fairness of `TaskStep`, the task at
the head of the queue; the event loop runs it and every await settles with a result or an error.
`FairSpec` of `WorkspaceRestore` is weak fairness of each job's server steps, for the same reason. Clients,
tabs, outside programs and faults are never forced. `FairSpec` of `TrackerTab` is weak fairness of each tab's saves,
refreshes and first read: the browser runs its promises and the server answers a request its tab still waits for. A failed
request is never forced, nor is one that arrives late.

### What the violation runs show

* `failedsave` - a removal whose first `rm` fails answers "No file was replaced."
  (`documentRoutes.ts` 139) while the second `rm` is still running; it lands after the rollback.
* `overlap` - `workspacePreferencesSync.ts` 4-5 says that a client never replaces a newer record it has not seen. When the debounce
  timer and an adoption read both push the same edit, the answer to one of them gives the tab a revision whose values it does not
  hold, and its next write, based on that revision, puts older values back. `NoUnseenOverwriteInTurn` holds of
  tabs whose pushes never overlapped.
* `modal` - `useApplications.ts` 411-413 says that a stale edit of the same record is refused. `ApplicationModal.tsx` 644-651 builds the
  record from before its question (as `changeRelatedRecord` does, 741-771), and `updateApplicationById` takes the revision after it; a change that arrived
  in between is replaced without a refusal.

### Met while modelling

Behaviour that a reader of the models may wonder about and for which no run is kept:

* A document save is not atomic over the death of the process (`documentService.ts` 62): `torn` is what it may leave.
* Two clients make the same revision when the clock is behind `updatedAt` or in one millisecond (`max(now, updatedAt + 1 ms)`);
  an edit queued behind a refused one may then be accepted over the other client's. `UnseenEditsAreKept` assumes `ClockRuns`.
* `useAutoGhosting`'s re-read drains an edit made meanwhile and clears the notice of its refusal; `LossIsShown` counts that notice as shown.
* A tab the browser froze expires after 90 s, a restore succeeds, and the tab's base-resume save, which names no revision,
  replaces the restored file when it wakes.
* A restored workspace without a preferences file is not taken over by a tab that rebases on it (`HoldsPreferences = FALSE`),
  which `RestoreWins` and `NoUnseenOverwriteInTurn` therefore leave out.
* `workspacePreferencesSync.ts` 112-113 says that a tab's edits are merged "without dropping another tab's". A tab that took over an
  edit another tab had pending records it again with its own next edit, over a newer one of that other tab; if this tab
  is closed before its push the newer edit is gone. `NoEditForgotten` is about edits made while no other tab had the setting pending.
* With two restores and a tab frozen over both, an answer from between them takes the adopted generation back, and edits
  recorded under the second are no longer read. `prefs` has one restore.
* `updateService.ts` 78-80 says its retry test comes "before the revision check, as the status route does"; the
  status route checks the revision first. An event sent again without a revision is entered twice.
* Another client may give an undated record a history; a skip of it is then refused.

## 4. The proofs

Eight modules prove 44 theorems for all constants that satisfy the assumptions named in the modules (finitely many ids,
natural bounds, constants that stand for "none" outside the set they complete, well-formed start states). In each module an inductive invariant
strengthens the properties; the initial states satisfy it, one lemma per action shows that the action preserves it, and
the temporal step combines them. TLC checked the strengthenings on the runs' instances before they were proved.

| Module | Theorems |
| --- | --- |
| `TrackerStore_proofs` | `TypeCorrect` (`TypeOK`), `CacheIsTrue` (`CacheTruth`), `UpdatesAreNotLost` (`NoLostUpdate`), `UnreadableIsKept` (`UnreadableKept`), `NotModifiedMeansSame` (`NotModifiedIsTrue`), `NobodyIsForgotten`, `AnswersComeNearer` |
| `TrackerStore_files_proofs` | `DocumentsAreOnDisk` (`TrackedFilesOnDisk`), `FailuresLeaveNoTrace` (`FailureLeavesNoTrace`) |
| `TrackerStore_atomic_proofs` | `ImplementsAtomicTracker` (`TrackerIsAtomic`) |
| `TrackerTab_proofs` | `TypeCorrect` (`TypeOK`), `SavedTrackerIsTrue` (`ConfirmedIsTrue`), `NothingPhantom` (`NoPhantomEdit`), `LossesAreShown` (`LossIsShown`), `TabsNeverGoBack` (`NeverGoesBack`), `UnseenIsKept` (`UnseenEditsAreKept`), `TabsAreNotStuck`, `SavesComeNearer`, `RefreshesComeNearer` |
| `ApplicationRecord_proofs` | `TypeCorrect` (`TypeOK`), `SubmissionsAreHistory` (`SubmissionIsHistory`), `AnswersStayFixed` (`AnswersAreFixed`), `FormsAgree` (`FormsAgreeWithServer`) |
| `WorkspaceRestore_proofs` | `TypeCorrect` (`TypeOK`), `GateStaysClosed`, `AloneWithTheFiles` (`WholeWorkspaceAlone`), `StaleSavesAreRefused` (`StaleSaveRefused`), `NothingIsDeleted` (`WorkspaceNeverDeleted`), `AnswersAreTrue` (`RestoreAnswersAreTrue`), `ImplementsAtomicWorkspace` (`WorkspaceIsAtomic`), `NobodyWaitsInACircle`, `NobodyIsOvertaken`, `AnswersComeNearer`, `AClosedGateHasAnOwner` |
| `WorkspacePreferences_proofs` | `TypeCorrect` (`TypeOK`), `PendingShown` (`PendingIsShown`), `SeenBeforeOverwrite` (`NoUnseenOverwriteInTurn`), `RestoredStays` (`RestoreWins`), `NothingForgotten` (`NoEditForgotten`) |
| `ExtensionInbox_proofs` | `TypeCorrect` (`TypeOK`), `PreparesOneByOne` (`PreparesInTurn`), `ReceivingNeverSleeps` (`ReceivingAwake`), `PreparingSurvives` (`PreparingIsKept`), `EachReachesItsTab` (`ImportsReachTheirTab`) |

### TrackerStore

`TypeOK` is not inductive: a task at `files` must have files to
write and a request that names exactly one record, so `TypeInv` adds `TaskShape` and `QueueShape` (what requests look like
and that the queue holds each unanswered request once). `CacheTruth` needs to know that identities are never
used twice (`Identities`: nothing anybody remembers is above `mint`) and what a task is about to put in the
cache (`WrittenInv`: at `confirm`, while the file still has the identity written, the file is what was written; an upgrade
that fails caches what the old file reads as). Together they are `CacheIInv`. `NoLostUpdate` also needs
`SnapshotInv`: from the read to the write, unless another program has edited the file in between (`raced`), what the task
read is the file, and `next` differs from it only in records the request may change. `NotModifiedIsTrue` needs
`RevisionInv`: no revision is given twice, so that the cache, the task at the lock and every client that knows a
revision hold the same tracker with it.

The folders (`FilesIInv = CacheIInv /\ FilesInv`): `next` describes what the task writes, `prev` is what the files were before,
the files not yet written are still as they were and the rest is never touched; the folder a commit writes is new and therefore
empty. A rollback then ends where the request began, except for the files in `torn`.

The refinement: initial states map to initial states and every action maps to a step of `AtomicTracker` or a stutter.
`TaskAnswers` says what the task at the head will answer: past the rename it has changed the map once; before it, not at all.
The theorem assumes `MaxEdits = 0`, as the property does.

### TrackerTab

`TabInv` is about one tab: the edits wait in the order they were made, reads under way began with nothing waiting (`ReadsAreQuiet`) and
return what the server held (`ReadsAreTrue`), an answer under way is the server's (`AnswerIsTrue`), the confirmed tracker
is the server's at the known revision (`KnownIsTrue`), a dropped edit leaves a message (`LossIsNoted`), and a tab with nothing waiting
shows the confirmed tracker. The lemma `TabStands` carries it over the steps of others: a tab's invariant survives
whatever happens elsewhere as long as the server's versions only grow. `UnseenEditsAreKept` needs `RevisionsTell`:
of the copies in the tabs, on the wire and on the server, those with equal revisions contain equal edits, and a change contains the edits of the
revision it was made from. This is where `ClockRuns` is used, and the theorem names it.

### The others

`ApplicationRecord`: `Made` says what a form's record keeps of the copy it was built from, `Kept` what the server's record has;
`AcceptedWrite` is the one lemma about everything that passes `Accepted`. That a new id exists is a cardinality argument.
`FormsAgreeWithServer` needs `FormsInv`: a copy with the revision of the saved record is that record, since revisions are new
(`HeldAgrees`), an edit that waits for its question passes the server's checks unless the record has changed
(`AskedAgrees`), and a record without a date has no timeline (`Plain`). One lemma per form shows that what it builds is `Lawful`, and
`RecordMoves` carries `FormsInv` over whatever the record turns into.
`ExtensionInbox`: `QueueInv` and `RunningInv` relate the queue to the preparation under way, `TabsInv` the loop's call and timer to what the tab shows.
`ImportsReachTheirTab` needs four parts more (`Delivery`): a token that has left a tab's address, or whose poll was answered with nothing or a posting, names
nothing that is queued (`Told`); a name is used by its own tab before any copy (`Names`); tabs of one name carry
the same posting, the one the name has claimed (`Carries`); and a posting is in the queue, in one answer, or handed over (`Once`).
`QueueLoses`, `Claims` and `TabTurns` carry them over what the queue loses, what it claims and what a tab turns into; a poll is all three in turn.

### WorkspaceRestore

Where each job stands (`PcInv`, `RestInv`) determines who holds the locks (`LockInv`), whether the gate is closed
(`GateInv`: exactly while one restore is busy), where each tree is (`TreeInv`: `RestoreInv` names, for each stretch between two awaits,
where the restored and the previous tree are, and `Truth` what its answer then says) and which tree a save may write (`SavesInv`).

The refinement rests on the same invariant. Lemmas say what of the mapped state each group of steps leaves alone (`StatesStay`,
`BasesStay`, `VisibleStays`) and what `Visible` is while a restore works and after (`WorkingOn`, `WorkedOn`); then there is one lemma
per group. `MovingIsAtomic` treats all steps between the first check and the clean-up at once: if the answer is not yet known
`Visible` is the tree found, and once it is, `Truth` decides between a stutter, `Swap` and `Strand`. A queued save that is refused
is late or overtaken because its captured generation is never ahead of the gate's (`SaveInv`).

### WorkspacePreferences

`TypeInv` is about one tab at a time (`TabGood`): one adoption at most is still to take over what it reads (`OneAdoption`), a push
sent since the timer was set carries every pending edit as it is now (`FreshCarries`), and what is pending has a timer or a push that
will write it, or the tab shows an error (`Waits`). `TruthInv` relates tabs, posts and answers to the file: settings based
on the file's revision differ from its record only where their user changed them (`Agrees`), an answer that names the file's revision
holds its record (`SnapTrue`), and in a tab whose pushes were one after the other (`InTurn`) the push the server may still accept
agrees with what the tab shows. `FileMoves` carries all of it over every write, restore and damage, because revisions only grow; a
restore without a preferences file starts them again, which is where `HoldsPreferences` is used.

`RestoreWins` needs `RestoreInv`: with `r0` the revision the restored file has (or, before the restore, would have), whoever knows a
revision from `r0` on has taken the restore over (`TabEra`, `PushEra`, `SnapEra`), and what such a tab, its posts and the storage
hold as changed was edited after it (`Since`). A write into the restored file names such a revision. The theorem
assumes `MaxRestores <= 1`: the adopted restore is one number, and a late answer that names an older restore can put it back.

`NoEditForgotten` needs `KeptInv`, under the same assumption: browser storage has every edit that is not saved (`Has`), a tab with
its setting pending shows that very edit (`TabKept`), a push answered as saved carries none of them (`PushKept`), no value
under way is newer than the last edit (`Below`), and a tab that has taken the restore over finds it adopted.

### What liveness rests on

The prover has neither fairness nor ENABLED, so the leads-to properties themselves stay with TLC. The safety facts that make them true
under the fairness assumed are theorems: what waits can go on, its steps are bounded, and nobody takes it back.

* `WorkspaceRestore`. `WaitInv`: each queue holds once exactly the requests that wait for its lock or hold it. `Ready(j)`
  says in terms of the state when the server can take a step for `j`. Since a task that needs both locks always takes the workspace's
  first, whoever heads the tracker's queue is ready, and whoever heads the workspace's is ready or waits for the tracker's:
  `NobodyWaitsInACircle`. `StepsLeft` bounds the steps to the answer by a constant, and only steps of the request itself lower it
  (`AnswersComeNearer`). With `NobodyIsOvertaken`, weak fairness of each request's steps gives `EveryJobAnswered`, and with
  `AClosedGateHasAnOwner` also `GateReopens`.
* `TrackerStore`. `ChainInv`: an unanswered request is in the queue, and a phase that settles files has one left. `CanGoOn` says when
  some await of the task at the head can settle. `PhasesLeft` counts its phases; inside a phase the set of files shrinks, and
  the files are finitely many. That another program cannot make a file of version 0 again is why the upgrade happens once.
* `TrackerTab`. `WayInv`: a request is on the wire for the first edit of a queue exactly while that edit was sent and has no answer.
  That no second request carries the same edit (`OneRequest`) follows from the order of edit numbers in `TabInv`. An edit at the head
  is at most three steps from its end, and a refresh at most five, counted from the last edit of its tab.

### What is only model-checked

Every safety invariant, action property and refinement that a run checks has a theorem. The four leads-to properties have none
(`EveryRequestAnswered`, `EveryJobAnswered`, `GateReopens`, `TabNeverStalls`): the step from the theorems above to them needs fairness and
ENABLED, which the prover does not handle, and induction on the place in the queue. No run compares
`Ready`, `CanGoOn`, `SaveCanGoOn` and `RefreshCanGoOn` with ENABLED; they repeat the guards of the actions.

## 5. What is left

Plan, most important first:

1. `WorkspaceFiles`: base resumes and cover letters, archive and restore (the hazard at `server/workspace.ts` 619 has no property yet).
2. The tab registry and the ownership of autosaved drafts.
3. The intake, fit and apply flows: an answer is used only for the posting it was asked for.
4. The companion's server process; the limits and cancellation of command-line AI jobs.

Not modelled, and not planned: the document engine and editor, which are most of the repository's lines (layout, codecs and text
editing: data a model checker cannot enumerate), prompts and remote models, the job-page extractors, the landing site, the
MCP server and HTTP dispatch (translations that keep no state).
