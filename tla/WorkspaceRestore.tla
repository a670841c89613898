-------------------------- MODULE WorkspaceRestore --------------------------
(***************************************************************************)
(* Replacing the whole workspace directory while the server is running     *)
(* (server/workspaceRestoreGate.ts, workspaceBackup.ts, presence.ts and    *)
(* the two promise queues of workspace.ts and applications/storage.ts).    *)
(*                                                                         *)
(* Ordinary requests take one of two locks: "workspace" requests (resumes, *)
(* cover letters, preferences) or "tracker" requests.  Backups and         *)
(* restores take both, the workspace lock first.  A restore stages the     *)
(* backup beside the workspace, renames the workspace aside and the stage  *)
(* into its place, and goes back when a browser tab shows up on the way.   *)
(* A generation counter refuses the requests that were queued before or    *)
(* during a restore.                                                       *)
(*                                                                         *)
(* A directory tree is named by where it came from: the Original workspace,*)
(* the tree a restore stages, or a Fresh one made where none was.          *)
(***************************************************************************)
EXTENDS Naturals, Sequences

CONSTANTS
    Tabs,           \* browser tabs, each opened at most once
    Savers,         \* requests that write one workspace file or the tracker
    Backups,        \* requests to create a backup
    Restores,       \* requests to restore a backup
    Lock,           \* the lock each saver takes, "workspace" or "tracker"
    Original, Fresh, NoTree,
    MaxFaults, MaxFreezes, MaxCrashes

Jobs == Savers \cup Backups \cup Restores
Trees == {Original, Fresh} \cup Restores

ASSUME RestoreAssumption ==
    /\ Lock \in [Savers -> {"workspace", "tracker"}]
    /\ Savers \cap (Backups \cup Restores \cup Tabs) = {} /\ Backups \cap Restores = {}
    /\ {Original, Fresh, NoTree} \cap Restores = {}
    /\ Original # Fresh /\ NoTree \notin {Original, Fresh}
    /\ MaxFaults \in Nat /\ MaxFreezes \in Nat /\ MaxCrashes \in Nat

VARIABLES
    generation, restoreActive, presenceAttempted,   \* workspaceRestoreGate.ts
    presence,     \* the tabs in presence.ts's map
    workspaceQueue, applicationsWriteQueue,
    pc,           \* where each job stands
    capture,      \* captureWorkspaceAccess() of each job's last enqueue
    kept,         \* the tree a restore has renamed aside (previousWorkspaceKept)
    reply,        \* what each job was answered
    place,        \* where each tree is
    tab,          \* what each tab is doing
    loaded,       \* the tree each tab, and each request of a tab, has seen
    beacons,      \* presence beacons on their way
    faults, freezes, crashes,   \* how much of the bounds is used
    wrote,        \* history: the tree each saver wrote to
    queuedOn,     \* history: the active tree when each job was last queued
    began         \* history: the active tree when each restore held both locks

gateVars == <<generation, restoreActive, presenceAttempted>>
queueVars == <<workspaceQueue, applicationsWriteQueue>>
jobVars == <<pc, capture, kept, reply>>
tabVars == <<tab, beacons, presence>>
boundVars == <<faults, freezes, crashes>>
historyVars == <<wrote, queuedOn, began>>
vars == <<gateVars, queueVars, jobVars, place, tabVars, loaded, boundVars, historyVars>>

Capture == [generation : Nat, blockedAtCapture : BOOLEAN]
Beacon == [tab : Tabs, gone : BOOLEAN, read : BOOLEAN]

ActiveTree == IF \E t \in Trees : place[t] = "active"
              THEN CHOOSE t \in Trees : place[t] = "active" ELSE NoTree

Init ==
    /\ generation = 0 /\ restoreActive = FALSE /\ presenceAttempted = FALSE
    /\ workspaceQueue = <<>> /\ applicationsWriteQueue = <<>>
    /\ pc = [j \in Jobs |-> "idle"]
    /\ capture = [j \in Jobs |-> [generation |-> 0, blockedAtCapture |-> FALSE]]
    /\ kept = [r \in Restores |-> NoTree]
    /\ reply = [j \in Jobs |-> "none"]
    /\ place = [t \in Trees |-> IF t = Original THEN "active" ELSE "none"]
    /\ tab = [t \in Tabs |-> "unopened"]
    /\ loaded = [x \in Tabs \cup Savers |-> NoTree]
    /\ beacons = {} /\ presence = {}
    /\ faults = 0 /\ freezes = 0 /\ crashes = 0
    /\ wrote = [j \in Savers |-> NoTree]
    /\ queuedOn = [j \in Jobs |-> NoTree]
    /\ began = [r \in Restores |-> NoTree]

-----------------------------------------------------------------------------
(* The gate and the two queues *)

captureWorkspaceAccess == [generation |-> generation, blockedAtCapture |-> restoreActive]

\* Mutant: only a restore under way refuses, not one that came and went.
AllowedWhenOpen(j) == ~restoreActive

\* assertWorkspaceAccessAllowed
Allowed(j) ==
    /\ ~capture[j].blockedAtCapture /\ ~restoreActive
    /\ capture[j].generation = generation

TakesWorkspaceLock(j) == j \notin Savers \/ Lock[j] = "workspace"
HoldsWorkspace(j) == workspaceQueue # <<>> /\ Head(workspaceQueue) = j
HoldsTracker(j) == applicationsWriteQueue # <<>> /\ Head(applicationsWriteQueue) = j
HoldsItsLock(j) == IF TakesWorkspaceLock(j) THEN HoldsWorkspace(j) ELSE HoldsTracker(j)

\* withWorkspaceLock / withApplicationsLock: capture, then join the chain.
Enqueue(j) ==
    /\ capture' = [capture EXCEPT ![j] = captureWorkspaceAccess]
    /\ queuedOn' = [queuedOn EXCEPT ![j] = ActiveTree]
    /\ IF TakesWorkspaceLock(j)
       THEN workspaceQueue' = Append(workspaceQueue, j) /\ UNCHANGED applicationsWriteQueue
       ELSE applicationsWriteQueue' = Append(applicationsWriteQueue, j) /\ UNCHANGED workspaceQueue

\* The task has settled: each chain it is at the head of goes on.
Leave(j) ==
    /\ workspaceQueue' = IF HoldsWorkspace(j) THEN Tail(workspaceQueue) ELSE workspaceQueue
    /\ applicationsWriteQueue' =
            IF HoldsTracker(j) THEN Tail(applicationsWriteQueue) ELSE applicationsWriteQueue

\* ensureJobWorkspace: mkdir when there is no workspace (once, in this model).
MakeWorkspace ==
    place' = IF ActiveTree = NoTree /\ place[Fresh] = "none"
             THEN [place EXCEPT ![Fresh] = "active"] ELSE place

Fault == faults < MaxFaults /\ faults' = faults + 1

Answer(j, text) ==
    reply' = [reply EXCEPT ![j] = text] /\ pc' = [pc EXCEPT ![j] = "done"]

-----------------------------------------------------------------------------
(* Tabs: useTabPresence.ts beacons on mount, on every heartbeat and, with     *)
(* gone, when the page goes away.  Beacons are fire and forget.               *)

Send(t, gone) == beacons' = beacons \cup {[tab |-> t, gone |-> gone, read |-> FALSE]}

OpenTab(t) ==
    /\ tab[t] = "unopened" /\ tab' = [tab EXCEPT ![t] = "opening"]
    /\ Send(t, FALSE)
    /\ UNCHANGED <<gateVars, queueVars, jobVars, place, presence, loaded, boundVars, historyVars>>

\* The tab's first reads go through the gate like any other request.
LoadTab(t) ==
    /\ tab[t] = "opening" /\ ~restoreActive /\ ActiveTree # NoTree
    /\ tab' = [tab EXCEPT ![t] = "open"]
    /\ loaded' = [loaded EXCEPT ![t] = ActiveTree]
    /\ UNCHANGED <<gateVars, queueVars, jobVars, place, beacons, presence, boundVars, historyVars>>

\* Heartbeats are seconds apart: the last one has arrived when the next is sent.
Beat(t) ==
    /\ tab[t] \in {"opening", "open"} /\ ~\E b \in beacons : b.tab = t
    /\ Send(t, FALSE)
    /\ UNCHANGED <<gateVars, queueVars, jobVars, place, tab, presence, loaded, boundVars, historyVars>>

CloseTab(t) ==
    /\ tab[t] \in {"opening", "open"} /\ tab' = [tab EXCEPT ![t] = "closed"]
    /\ Send(t, TRUE)
    /\ UNCHANGED <<gateVars, queueVars, jobVars, place, presence, loaded, boundVars, historyVars>>

\* The browser freezes a background tab: its timers stop, its state stays.
FreezeTab(t) ==
    /\ freezes < MaxFreezes /\ freezes' = freezes + 1
    /\ tab[t] = "open" /\ tab' = [tab EXCEPT ![t] = "frozen"]
    /\ UNCHANGED <<gateVars, queueVars, jobVars, place, beacons, presence, loaded, faults, crashes, historyVars>>
WakeTab(t) ==
    /\ tab[t] = "frozen" /\ tab' = [tab EXCEPT ![t] = "open"]
    /\ UNCHANGED <<gateVars, queueVars, jobVars, place, beacons, presence, loaded, boundVars, historyVars>>

\* prunePresence: 90 seconds without a beacon, which a running tab never lets pass.
ExpireTab(t) ==
    /\ t \in presence /\ tab[t] \in {"frozen", "closed"}
    /\ ~\E b \in beacons : b.tab = t
    /\ presence' = presence \ {t}
    /\ UNCHANGED <<gateVars, queueVars, jobVars, place, tab, beacons, loaded, boundVars, historyVars>>

\* handlePresence up to the await of the body, and after it.
BeaconArrives(b) ==
    /\ b \in beacons /\ ~b.read
    /\ IF restoreActive
       THEN presenceAttempted' = TRUE /\ beacons' = beacons \ {b}
       ELSE /\ beacons' = (beacons \ {b}) \cup {[b EXCEPT !.read = TRUE]}
            /\ UNCHANGED presenceAttempted
    /\ UNCHANGED <<generation, restoreActive, queueVars, jobVars, place, tab, presence,
                   loaded, boundVars, historyVars>>
\* Mutant: the map is keyed by the beacon, not by its tab id.
BeaconAppliedWhole(b) ==
    /\ b \in beacons /\ b.read
    /\ beacons' = beacons \ {b}
    /\ presence' = presence \cup {b}
    /\ UNCHANGED <<gateVars, queueVars, jobVars, place, tab, loaded, boundVars, historyVars>>

BeaconApplied(b) ==
    /\ b \in beacons /\ b.read
    /\ beacons' = beacons \ {b}
    /\ IF restoreActive
       THEN presenceAttempted' = TRUE /\ UNCHANGED presence
       ELSE /\ presence' = IF b.gone THEN presence \ {b.tab} ELSE presence \cup {b.tab}
            /\ UNCHANGED presenceAttempted
    /\ UNCHANGED <<generation, restoreActive, queueVars, jobVars, place, tab,
                   loaded, boundVars, historyVars>>

-----------------------------------------------------------------------------
(* Ordinary requests and backups *)

\* A tab sends a save of what it has loaded; the server awaits the body first.
SendSave(j, t) ==
    /\ pc[j] = "idle" /\ tab[t] = "open"
    /\ pc' = [pc EXCEPT ![j] = "sent"]
    /\ loaded' = [loaded EXCEPT ![j] = loaded[t]]
    /\ UNCHANGED <<gateVars, queueVars, capture, kept, reply, place, tabVars, boundVars, historyVars>>

ReceiveSave(j) ==
    /\ j \in Savers /\ pc[j] = "sent"
    /\ pc' = [pc EXCEPT ![j] = "queued"]
    /\ Enqueue(j)
    /\ UNCHANGED <<gateVars, kept, reply, place, tabVars, loaded, boundVars, wrote, began>>

\* Mutant: the refused task is answered and never leaves its queue.
StartSaveStuck(j) ==
    /\ j \in Savers /\ pc[j] = "queued"
    /\ HoldsItsLock(j)
    /\ IF Allowed(j)
       THEN pc' = [pc EXCEPT ![j] = "running"] /\ UNCHANGED reply
       ELSE Answer(j, "conflict")
    /\ UNCHANGED <<gateVars, queueVars, capture, kept, place, tabVars, loaded, boundVars, historyVars>>

StartSave(j) ==
    /\ j \in Savers /\ pc[j] = "queued"
    /\ HoldsItsLock(j)
    /\ IF Allowed(j)
       THEN pc' = [pc EXCEPT ![j] = "running"] /\ UNCHANGED <<queueVars, reply>>
       ELSE Answer(j, "conflict") /\ Leave(j)
    /\ UNCHANGED <<gateVars, capture, kept, place, tabVars, loaded, boundVars, historyVars>>

\* The write lands in the tree at the workspace path, made first if absent.
FinishSave(j) ==
    /\ j \in Savers /\ pc[j] = "running"
    /\ MakeWorkspace
    /\ wrote' = [wrote EXCEPT ![j] = ActiveTree']
    /\ Answer(j, "ok") /\ Leave(j)
    /\ UNCHANGED <<gateVars, capture, kept, tabVars, loaded, boundVars, queuedOn, began>>

RequestBackup(j) ==
    /\ j \in Backups /\ pc[j] = "idle"
    /\ pc' = [pc EXCEPT ![j] = "queued"]
    /\ Enqueue(j)
    /\ UNCHANGED <<gateVars, kept, reply, place, tabVars, loaded, boundVars, wrote, began>>

\* Mutant: a backup reads under the workspace lock alone.
StartBackupOneLock(j) ==
    /\ j \in Backups /\ pc[j] = "queued" /\ HoldsWorkspace(j)
    /\ IF Allowed(j)
       THEN pc' = [pc EXCEPT ![j] = "reading"] /\ UNCHANGED <<queueVars, reply>>
       ELSE Answer(j, "conflict") /\ Leave(j)
    /\ UNCHANGED <<gateVars, capture, kept, place, tabVars, loaded, boundVars, historyVars>>

\* The inner withApplicationsLock captures again once the outer lock is held.
StartBackup(j) ==
    /\ j \in Backups /\ pc[j] = "queued" /\ HoldsWorkspace(j)
    /\ IF Allowed(j)
       THEN /\ pc' = [pc EXCEPT ![j] = "nested"]
            /\ capture' = [capture EXCEPT ![j] = captureWorkspaceAccess]
            /\ applicationsWriteQueue' = Append(applicationsWriteQueue, j)
            /\ UNCHANGED <<workspaceQueue, reply>>
       ELSE Answer(j, "conflict") /\ Leave(j) /\ UNCHANGED capture
    /\ UNCHANGED <<gateVars, kept, place, tabVars, loaded, boundVars, historyVars>>

ReadBackup(j) ==
    /\ j \in Backups /\ pc[j] = "nested" /\ HoldsTracker(j)
    /\ IF Allowed(j)
       THEN pc' = [pc EXCEPT ![j] = "reading"] /\ UNCHANGED <<queueVars, reply>>
       ELSE Answer(j, "conflict") /\ Leave(j)
    /\ UNCHANGED <<gateVars, capture, kept, place, tabVars, loaded, boundVars, historyVars>>

\* The files are read, from a workspace made first if there was none.
FinishBackup(j) ==
    /\ j \in Backups /\ pc[j] = "reading"
    /\ MakeWorkspace
    /\ Answer(j, "ok") /\ Leave(j)
    /\ UNCHANGED <<gateVars, capture, kept, tabVars, loaded, boundVars, historyVars>>

-----------------------------------------------------------------------------
(* restoreWorkspaceBackup.  Between two awaits only this task runs, so each    *)
(* check for a live tab is taken with what follows it; a rename takes effect   *)
(* while it is awaited.                                                        *)

liveTabArrived == presence # {} \/ presenceAttempted

Goto(r, label) == pc' = [pc EXCEPT ![r] = label] /\ UNCHANGED reply
Stop(r, text) == pc' = [pc EXCEPT ![r] = "cleanup"] /\ reply' = [reply EXCEPT ![r] = text]
Others == UNCHANGED <<tabVars, loaded, freezes, crashes, wrote>>
HoldingLocks == Others /\ UNCHANGED <<gateVars, queueVars, capture, queuedOn>>

\* Mutant: the refused second restore also runs endWorkspaceRestore.
BeginRestoreInTry(r) ==
    /\ pc[r] = "idle"
    /\ IF restoreActive
       THEN /\ Answer(r, "conflict") /\ restoreActive' = FALSE
            /\ UNCHANGED <<generation, presenceAttempted, queueVars, capture, queuedOn>>
       ELSE /\ generation' = generation + 1
            /\ restoreActive' = TRUE /\ presenceAttempted' = FALSE
            /\ Enqueue(r) /\ Goto(r, "queued")
    /\ UNCHANGED <<kept, place, faults, began>> /\ Others

\* beginWorkspaceRestore: a second restore is refused; the outer lock is joined
\* with allowDuringRestore, so its capture is never asserted.
BeginRestore(r) ==
    /\ pc[r] = "idle"
    /\ IF restoreActive
       THEN Answer(r, "conflict") /\ UNCHANGED <<gateVars, queueVars, capture, queuedOn>>
       ELSE /\ generation' = generation + 1
            /\ restoreActive' = TRUE /\ presenceAttempted' = FALSE
            /\ Enqueue(r) /\ Goto(r, "queued")
    /\ UNCHANGED <<kept, place, faults, began>> /\ Others

EnterRestore(r) ==
    /\ r \in Restores /\ pc[r] = "queued" /\ HoldsWorkspace(r)
    /\ applicationsWriteQueue' = Append(applicationsWriteQueue, r)
    /\ Goto(r, "nested")
    /\ UNCHANGED <<gateVars, workspaceQueue, capture, kept, place, faults, queuedOn, began>>
    /\ Others

CheckTabs(r) ==
    /\ r \in Restores /\ pc[r] = "nested" /\ HoldsTracker(r)
    /\ began' = [began EXCEPT ![r] = ActiveTree]
    /\ IF liveTabArrived THEN Stop(r, "tabs") ELSE Goto(r, "staging")
    /\ UNCHANGED <<kept, place, faults>> /\ HoldingLocks

\* writeStagedBackup and the marker, which may refuse the backup or fail.
StageBackup(r) ==
    /\ pc[r] = "staging"
    /\ place' = [place EXCEPT ![r] = "stage"]
    /\ \/ Stop(r, "invalid") /\ UNCHANGED faults
       \/ Fault /\ Stop(r, "kept")
       \/ /\ IF liveTabArrived THEN Stop(r, "tabs") ELSE Goto(r, "aside")
          /\ UNCHANGED faults
    /\ UNCHANGED <<kept, began>> /\ HoldingLocks

\* rename(workspaceDir, previousDir); a missing workspace is no error.
MoveAside(r) ==
    /\ pc[r] = "aside"
    /\ \/ /\ place' = IF ActiveTree = NoTree THEN place
                      ELSE [place EXCEPT ![ActiveTree] = "previous"]
          /\ kept' = [kept EXCEPT ![r] = ActiveTree]
          /\ Goto(r, "moved") /\ UNCHANGED faults
       \/ ActiveTree # NoTree /\ Fault /\ Stop(r, "kept") /\ UNCHANGED <<place, kept>>
    /\ UNCHANGED began /\ HoldingLocks

\* Mutant: the workspace is not put back for a tab that arrived.
CheckMovedAndStop(r) ==
    /\ pc[r] = "moved"
    /\ IF ~liveTabArrived THEN Goto(r, "install") ELSE Stop(r, "tabs")
    /\ UNCHANGED <<kept, place, faults, began>> /\ HoldingLocks

CheckMoved(r) ==
    /\ pc[r] = "moved"
    /\ IF ~liveTabArrived THEN Goto(r, "install")
       ELSE IF kept[r] # NoTree THEN Goto(r, "return") ELSE Stop(r, "tabs")
    /\ UNCHANGED <<kept, place, faults, began>> /\ HoldingLocks

\* rename(stageDir, workspaceDir)
Install(r) ==
    /\ pc[r] = "install"
    /\ \/ place' = [place EXCEPT ![r] = "active"] /\ Goto(r, "installed") /\ UNCHANGED faults
       \/ /\ Fault /\ UNCHANGED place
          /\ IF kept[r] # NoTree THEN Goto(r, "returnFailed") ELSE Stop(r, "kept")
    /\ UNCHANGED <<kept, began>> /\ HoldingLocks

\* rename() yields: a beacon may have come in while it was pending.
CheckInstalled(r) ==
    /\ pc[r] = "installed"
    /\ IF liveTabArrived THEN Goto(r, "takeOut") ELSE Stop(r, "restored")
    /\ UNCHANGED <<kept, place, faults, began>> /\ HoldingLocks

\* rename(workspaceDir, stageDir)
TakeOut(r) ==
    /\ pc[r] = "takeOut"
    /\ \/ /\ place' = [place EXCEPT ![r] = "stage"]
          /\ IF kept[r] # NoTree THEN Goto(r, "return") ELSE Stop(r, "tabs")
          /\ UNCHANGED faults
       \/ Fault /\ Stop(r, "stranded") /\ UNCHANGED place
    /\ UNCHANGED <<kept, began>> /\ HoldingLocks

\* rename(previousDir, workspaceDir), for a tab or after a failed install
ReturnPrevious(r) ==
    /\ pc[r] \in {"return", "returnFailed"}
    /\ \/ /\ place' = [place EXCEPT ![kept[r]] = "active"]
          /\ Stop(r, IF pc[r] = "return" THEN "tabs" ELSE "kept") /\ UNCHANGED faults
       \/ Fault /\ Stop(r, "stranded") /\ UNCHANGED place
    /\ UNCHANGED <<kept, began>> /\ HoldingLocks

\* Mutant: the clean-up takes the safety copy along with the stage.
CleanupAll(r) ==
    /\ pc[r] = "cleanup"
    /\ place' = [t \in Trees |-> IF t = kept[r] \/ (t = r /\ place[r] = "stage")
                                 THEN "gone" ELSE place[t]]
    /\ pc' = [pc EXCEPT ![r] = "unwind"]
    /\ UNCHANGED <<reply, kept, faults, began>> /\ HoldingLocks

\* The inner finally: rm -r of what is at the stage path, its failure ignored.
Cleanup(r) ==
    /\ pc[r] = "cleanup"
    /\ \/ /\ place' = [place EXCEPT ![r] = IF @ = "stage" THEN "gone" ELSE @]
          /\ UNCHANGED faults
       \/ Fault /\ place[r] = "stage" /\ UNCHANGED place
    /\ pc' = [pc EXCEPT ![r] = "unwind"]
    /\ UNCHANGED <<reply, kept, began>> /\ HoldingLocks

\* Mutant: the gate opens again only after a restore that succeeded.
UnwindOnSuccess(r) ==
    /\ \/ /\ pc[r] = "unwind" /\ pc' = [pc EXCEPT ![r] = "unwound"]
          /\ applicationsWriteQueue' = Tail(applicationsWriteQueue)
          /\ UNCHANGED <<workspaceQueue, restoreActive>>
       \/ /\ pc[r] = "unwound" /\ pc' = [pc EXCEPT ![r] = "ending"]
          /\ workspaceQueue' = Tail(workspaceQueue)
          /\ UNCHANGED <<applicationsWriteQueue, restoreActive>>
       \/ /\ pc[r] = "ending" /\ pc' = [pc EXCEPT ![r] = "done"]
          /\ restoreActive' = (reply[r] # "restored")
          /\ UNCHANGED queueVars
    /\ UNCHANGED <<generation, presenceAttempted, reply, capture, kept, place, faults,
                   queuedOn, began>> /\ Others

\* The inner promise settles, then the outer one, then the outer finally runs:
\* endWorkspaceRestore opens the gate for whoever asks from then on.
Unwind(r) ==
    /\ \/ /\ pc[r] = "unwind" /\ pc' = [pc EXCEPT ![r] = "unwound"]
          /\ applicationsWriteQueue' = Tail(applicationsWriteQueue)
          /\ UNCHANGED <<workspaceQueue, restoreActive>>
       \/ /\ pc[r] = "unwound" /\ pc' = [pc EXCEPT ![r] = "ending"]
          /\ workspaceQueue' = Tail(workspaceQueue)
          /\ UNCHANGED <<applicationsWriteQueue, restoreActive>>
       \/ /\ pc[r] = "ending" /\ pc' = [pc EXCEPT ![r] = "done"]
          /\ restoreActive' = FALSE
          /\ UNCHANGED queueVars
    /\ UNCHANGED <<generation, presenceAttempted, reply, capture, kept, place, faults,
                   queuedOn, began>> /\ Others

-----------------------------------------------------------------------------
\* The server dies and starts again: its memory is new, the directories stay,
\* and startup makes a workspace if there is none.  Tabs live on.
Crash ==
    /\ crashes < MaxCrashes /\ crashes' = crashes + 1
    /\ generation' = 0 /\ restoreActive' = FALSE /\ presenceAttempted' = FALSE
    /\ workspaceQueue' = <<>> /\ applicationsWriteQueue' = <<>>
    /\ presence' = {} /\ beacons' = {}
    /\ pc' = [j \in Jobs |-> IF pc[j] = "idle" THEN "idle" ELSE "done"]
    /\ reply' = [j \in Jobs |-> IF pc[j] \in {"idle", "done"} THEN reply[j] ELSE "lost"]
    /\ MakeWorkspace
    /\ UNCHANGED <<capture, kept, tab, loaded, faults, freezes, historyVars>>

RestoreStep(r) ==
    \/ EnterRestore(r) \/ CheckTabs(r) \/ StageBackup(r) \/ MoveAside(r) \/ CheckMoved(r)
    \/ Install(r) \/ CheckInstalled(r) \/ TakeOut(r) \/ ReturnPrevious(r)
    \/ Cleanup(r) \/ Unwind(r)

ServerStep(j) ==
    \/ ReceiveSave(j) \/ StartSave(j) \/ FinishSave(j)
    \/ StartBackup(j) \/ ReadBackup(j) \/ FinishBackup(j)
    \/ j \in Restores /\ RestoreStep(j)

TabStep ==
    \/ \E t \in Tabs : \/ OpenTab(t) \/ LoadTab(t) \/ Beat(t) \/ CloseTab(t)
                       \/ FreezeTab(t) \/ WakeTab(t) \/ ExpireTab(t)
    \/ \E b \in beacons : BeaconArrives(b) \/ BeaconApplied(b)

Next ==
    \/ TabStep
    \/ \E j \in Savers, t \in Tabs : SendSave(j, t)
    \/ \E j \in Backups : RequestBackup(j)
    \/ \E r \in Restores : BeginRestore(r)
    \/ \E j \in Jobs : ServerStep(j)
    \/ Crash

Spec == Init /\ [][Next]_vars

\* Every await of the server settles, and each queue runs its head.
FairSpec == Spec /\ \A j \in Jobs : WF_vars(ServerStep(j))

-----------------------------------------------------------------------------
(* Properties *)

Labels == {"idle", "sent", "queued", "nested", "running", "reading", "staging", "aside",
           "moved", "install", "installed", "takeOut", "return", "returnFailed", "cleanup",
           "unwind", "unwound", "ending", "done"}

\* Every variable ranges over the values the code can store in it.
TypeOK ==
    /\ generation \in Nat /\ restoreActive \in BOOLEAN /\ presenceAttempted \in BOOLEAN
    /\ presence \subseteq Tabs /\ beacons \subseteq Beacon
    /\ workspaceQueue \in Seq(Jobs) /\ applicationsWriteQueue \in Seq(Jobs)
    /\ pc \in [Jobs -> Labels] /\ capture \in [Jobs -> Capture]
    /\ kept \in [Restores -> Trees \cup {NoTree}]
    /\ reply \in [Jobs -> {"none", "ok", "conflict", "tabs", "invalid", "kept", "stranded",
                           "restored", "lost"}]
    /\ place \in [Trees -> {"none", "active", "stage", "previous", "gone"}]
    /\ tab \in [Tabs -> {"unopened", "opening", "open", "frozen", "closed"}]
    /\ loaded \in [Tabs \cup Savers -> Trees \cup {NoTree}]
    /\ faults \in Nat /\ freezes \in Nat /\ crashes \in Nat
    /\ wrote \in [Savers -> Trees \cup {NoTree}]
    /\ queuedOn \in [Jobs -> Trees \cup {NoTree}]
    /\ began \in [Restores -> Trees \cup {NoTree}]

\* What the generation gate is for (workspaceRestoreGate.ts 1): a request that
\* was queued before or during a restore never writes over the restored files;
\* a save lands in the tree that was active when it was queued, or in a
\* new one where there was none.
StaleSaveRefused ==
    \A j \in Savers : \/ wrote[j] \in {NoTree, queuedOn[j]}
                      \/ queuedOn[j] = NoTree /\ wrote[j] = Fresh

\* A backup or a restore sees applications.json and its artifacts as one
\* consistent state (storage.ts 35): while it reads or moves files, no save is
\* half way and no other backup or restore is at work.
Touching == {j \in Jobs : pc[j] \in {"running", "reading", "staging", "aside", "moved", "install",
                                     "installed", "takeOut", "return", "returnFailed", "cleanup"}}
WholeWorkspaceAlone ==
    \A j \in Touching \ Savers : Touching = {j}

\* The gate is closed for as long as any restore moves directories, even when a
\* second restore was refused meanwhile.
GateClosedDuringRestore ==
    \A r \in Restores : pc[r] \notin {"idle", "done"} => restoreActive

\* No directory that ever was the workspace is deleted, whatever fails or
\* whenever the process dies: the safety copy is only ever renamed.
WorkspaceNeverDeleted ==
    /\ place[Original] # "gone" /\ place[Fresh] # "gone"
    /\ \A r \in Restores : reply[r] = "restored" => place[r] # "gone"
    /\ \A t, u \in Trees : place[t] = "active" /\ place[u] = "active" => t = u

\* The answer of a restore is true when it is given: "restored" means its tree
\* is the workspace, a conflict with a tab, an invalid backup or "The current
\* workspace was kept" (workspaceBackup.ts 534) that the workspace is the one
\* it began with, and "remains in the local restore-backup safety directory"
\* that the workspace it began with is there.
RestoreAnswersAreTrue ==
    [][\A r \in Restores : pc[r] # "done" /\ pc'[r] = "done" =>
          /\ reply'[r] = "restored" => ActiveTree' = r
          /\ reply'[r] \in {"tabs", "invalid", "kept"} => ActiveTree' = began[r]
          /\ reply'[r] = "stranded" /\ began[r] # NoTree =>
                place'[began[r]] = "previous"]_vars

\* Every request is answered, whatever fails: the two locks are taken in one
\* order and every queued task lets the next one run.
EveryJobAnswered ==
    \A j \in Jobs : (pc[j] \notin {"idle", "done"}) ~> (pc[j] = "done")

\* A restore that fails anywhere, its roll-backs included, opens the gate again
\* (the finally at workspaceBackup.ts 541): no request is refused for ever.
GateReopens == restoreActive ~> ~restoreActive
-----------------------------------------------------------------------------
(* The promise of AtomicWorkspace.  Between its first rename and its check     *)
(* after the second, a restore may still go back: the workspace is the one it  *)
(* found.                                                                      *)

Swapping == {"moved", "install", "installed", "takeOut", "return", "returnFailed"}
Visible == IF \E r \in Restores : pc[r] \in Swapping
           THEN began[CHOOSE r \in Restores : pc[r] \in Swapping] ELSE ActiveTree

Told(j) ==
    IF reply[j] = "ok" THEN "saved"
    ELSE IF reply[j] = "conflict" THEN "refused"
    ELSE IF reply[j] \in {"tabs", "invalid", "kept"} THEN "kept"
    ELSE reply[j]
SaveState(j) ==
    IF pc[j] \in {"idle", "sent"} THEN "idle"
    ELSE IF pc[j] = "done" THEN Told(j)
    ELSE IF capture[j].blockedAtCapture THEN "late"
    ELSE IF capture[j].generation = generation THEN "asked" ELSE "overtaken"
RestoreState(r) ==
    IF pc[r] = "idle" THEN "idle"
    ELSE IF pc[r] \in {"queued", "nested"} THEN "asked"
    ELSE IF pc[r] = "done" THEN Told(r)
    ELSE IF reply[r] = "restored" THEN "swapped"
    ELSE IF reply[r] = "stranded" THEN "stranding" ELSE "begun"

Atomic == INSTANCE AtomicWorkspace WITH
    workspace <- Visible,
    state     <- [j \in Savers \cup Restores |->
                     IF j \in Savers THEN SaveState(j) ELSE RestoreState(j)],
    base      <- [j \in Savers \cup Restores |->
                     IF j \in Restores THEN began[j]
                     ELSE IF capture[j].blockedAtCapture THEN NoTree ELSE queuedOn[j]],
    shown     <- [t \in Tabs |-> loaded[t]]

\* A user has one workspace that a restore replaces at once or not at all
\* (workspaceBackup.ts 476-486): whatever renames fail, whichever tabs show up and
\* wherever the process dies, saves and tabs meet only that workspace, a save is
\* refused only on account of a restore, and each answer says what happened.
WorkspaceIsAtomic == Atomic!Spec

=============================================================================
