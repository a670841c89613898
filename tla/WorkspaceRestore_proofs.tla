------------------------ MODULE WorkspaceRestore_proofs ------------------------
(***************************************************************************)
(* Proofs about WorkspaceRestore, for any tabs, requests, faults, freezes   *)
(* and crashes.                                                             *)
(***************************************************************************)
EXTENDS WorkspaceRestore, SequenceTheorems, TLAPS

-----------------------------------------------------------------------------
(* The strengthening *)

\* Where a request stands: it moves directories, or has moved them.
Moving == {"staging", "aside", "moved", "install", "installed", "takeOut", "return",
           "returnFailed", "cleanup"}
Settled == {"cleanup", "unwind", "unwound", "ending"}
Entered == Moving \cup {"unwind", "unwound", "ending"}

\* Which steps each kind of request takes.
SaverPc == {"idle", "sent", "queued", "running", "done"}
BackupPc == {"idle", "queued", "nested", "reading", "done"}
RestorePc == {"idle", "queued", "nested", "done"} \cup Entered
PcInv ==
    /\ \A j \in Savers : pc[j] \in SaverPc
    /\ \A j \in Backups : pc[j] \in BackupPc
    /\ \A r \in Restores : pc[r] \in RestorePc

\* A task that has started is at the head of the queues it has joined.
InWorkspace == {"running", "nested", "reading", "unwind", "unwound"} \cup Moving
InTracker == {"reading", "unwind"} \cup Moving
Started(j) ==
    /\ TakesWorkspaceLock(j) /\ pc[j] \in InWorkspace => HoldsWorkspace(j)
    /\ pc[j] \in InTracker => HoldsTracker(j)
    /\ ~TakesWorkspaceLock(j) /\ pc[j] = "running" => HoldsTracker(j)
LockInv ==
    /\ workspaceQueue \in Seq(Jobs) /\ applicationsWriteQueue \in Seq(Jobs)
    /\ \A j \in Jobs : Started(j)

\* One restore at a time, behind a closed gate, with no save or backup at work.
Busy(r) == pc[r] \notin {"idle", "done"}
GateInv ==
    /\ restoreActive \in BOOLEAN /\ generation \in Nat
    /\ restoreActive <=> \E r \in Restores : Busy(r)
    /\ \A r, s \in Restores : Busy(r) /\ Busy(s) => r = s
    /\ \A r \in Restores : pc[r] \in Entered =>
          \A j \in Savers \cup Backups : pc[j] \notin {"running", "reading"}

\* The workspace is tree b.
Workspace(b) ==
    IF b = NoTree THEN \A t \in Trees : place[t] # "active" ELSE place[b] = "active"
Unique == \A t, u \in Trees : place[t] = "active" /\ place[u] = "active" => t = u

\* Where the trees are while restore r is at work.  began[r] is the workspace it
\* found.
SafeCopy(r) == began[r] # NoTree => place[began[r]] = "previous"
Truth(r) ==
    /\ reply[r] \in {"tabs", "invalid", "kept", "stranded", "restored"}
    /\ reply[r] = "restored" => place[r] = "active"
    /\ reply[r] \in {"tabs", "invalid", "kept"} => Workspace(began[r])
    /\ reply[r] = "stranded" => SafeCopy(r) /\ (place[r] = "active" \/ Workspace(NoTree))
RestoreInv(r) ==
    /\ pc[r] \in {"idle", "queued", "nested", "staging"} => place[r] = "none"
    /\ pc[r] \in RestorePc \ (Settled \cup {"done"}) => reply[r] = "none"
    /\ pc[r] \in {"staging", "aside"} => Workspace(began[r])
    /\ pc[r] \in {"aside", "moved", "install", "return", "returnFailed"} => place[r] = "stage"
    /\ pc[r] \in {"moved", "install", "return", "returnFailed"} =>
          Workspace(NoTree) /\ kept[r] = began[r] /\ SafeCopy(r)
    /\ pc[r] \in {"return", "returnFailed"} => kept[r] # NoTree
    /\ pc[r] \in {"installed", "takeOut"} =>
          place[r] = "active" /\ kept[r] = began[r] /\ SafeCopy(r)
    /\ pc[r] \in Settled => Truth(r)
    /\ reply[r] = "restored" => place[r] \in {"active", "previous"}
TreeInv ==
    /\ place \in [Trees -> {"none", "active", "stage", "previous", "gone"}]
    /\ kept \in [Restores -> Trees \cup {NoTree}]
    /\ began \in [Restores -> Trees \cup {NoTree}]
    /\ Unique
    /\ place[Original] \in {"active", "previous"}
    /\ place[Fresh] \in {"none", "active", "previous"}
    /\ \A r \in Restores : RestoreInv(r)

\* A save that will be let through was queued on the tree it will write to.
Current(j) == ActiveTree = queuedOn[j] \/ (queuedOn[j] = NoTree /\ ActiveTree = Fresh)
SaveInv(j) ==
    /\ pc[j] \in {"idle", "sent"} => queuedOn[j] = NoTree
    /\ pc[j] \in {"queued", "running"} => capture[j].generation <= generation
    /\ pc[j] = "queued" /\ ~capture[j].blockedAtCapture /\ capture[j].generation = generation
          => ~restoreActive /\ Current(j)
    /\ pc[j] = "running" => Current(j) /\ ~capture[j].blockedAtCapture
    /\ pc[j] # "done" => wrote[j] = NoTree
    /\ wrote[j] \in {NoTree, queuedOn[j]} \/ (queuedOn[j] = NoTree /\ wrote[j] = Fresh)
SavesInv ==
    /\ wrote \in [Savers -> Trees \cup {NoTree}]
    /\ queuedOn \in [Jobs -> Trees \cup {NoTree}]
    /\ \A j \in Savers : SaveInv(j)

\* The remaining types.
RestInv ==
    /\ pc \in [Jobs -> Labels] /\ capture \in [Jobs -> Capture]
    /\ reply \in [Jobs -> {"none", "ok", "conflict", "tabs", "invalid", "kept", "stranded",
                           "restored", "lost"}]
    /\ presenceAttempted \in BOOLEAN
    /\ presence \subseteq Tabs /\ beacons \subseteq Beacon
    /\ tab \in [Tabs -> {"unopened", "opening", "open", "frozen", "closed"}]
    /\ loaded \in [Tabs \cup Savers -> Trees \cup {NoTree}]
    /\ faults \in Nat /\ freezes \in Nat /\ crashes \in Nat

\* Whoever is done has an answer.
AnswerInv == \A j \in Jobs : pc[j] = "done" => reply[j] # "none"

Inv == RestInv /\ PcInv /\ AnswerInv /\ LockInv /\ GateInv /\ TreeInv /\ SavesInv

-----------------------------------------------------------------------------
(* The workspace as a tree *)

LEMMA TreeNames == NoTree \notin Trees /\ Original \in Trees /\ Fresh \in Trees /\ Fresh \notin Restores
                   /\ Original \notin Restores /\ Fresh # Original /\ \A r \in Restores : r \in Trees
BY RestoreAssumption DEF Trees

LEMMA JobKinds ==
    /\ Savers \subseteq Jobs /\ Backups \subseteq Jobs /\ Restores \subseteq Jobs
    /\ \A j \in Savers : j \notin Backups /\ j \notin Restores
    /\ \A j \in Backups : j \notin Savers /\ j \notin Restores
    /\ \A j \in Restores : j \notin Savers /\ j \notin Backups /\ TakesWorkspaceLock(j)
BY RestoreAssumption DEF Jobs, TakesWorkspaceLock

ActiveIn(p) == IF \E t \in Trees : p[t] = "active"
               THEN CHOOSE t \in Trees : p[t] = "active" ELSE NoTree

LEMMA ActiveNow == ActiveTree = ActiveIn(place) /\ ActiveTree' = ActiveIn(place')
BY DEF ActiveTree, ActiveIn

LEMMA ActiveIs ==
    ASSUME NEW p,
           \A t, u \in Trees : p[t] = "active" /\ p[u] = "active" => t = u
    PROVE  /\ ActiveIn(p) \in Trees \cup {NoTree}
           /\ \A t \in Trees : p[t] = "active" => ActiveIn(p) = t
           /\ ActiveIn(p) # NoTree => p[ActiveIn(p)] = "active"
           /\ ActiveIn(p) = NoTree => \A t \in Trees : p[t] # "active"
           /\ (\A t \in Trees : p[t] # "active") => ActiveIn(p) = NoTree
<1>1. CASE \E t \in Trees : p[t] = "active"
  <2> DEFINE a == CHOOSE t \in Trees : p[t] = "active"
  <2>1. a \in Trees /\ p[a] = "active"
    BY <1>1
  <2>2. ActiveIn(p) = a
    BY <1>1 DEF ActiveIn
  <2> HIDE DEF a
  <2> QED BY <2>1, <2>2, TreeNames
<1>2. CASE ~\E t \in Trees : p[t] = "active"
  BY <1>2, TreeNames DEF ActiveIn
<1> QED BY <1>1, <1>2

LEMMA ActiveTreeIs ==
    ASSUME Unique
    PROVE  /\ ActiveTree \in Trees \cup {NoTree}
           /\ \A b \in Trees \cup {NoTree} : Workspace(b) <=> ActiveTree = b
<1> DEFINE p == place
<1>1. /\ ActiveIn(p) \in Trees \cup {NoTree}
      /\ \A t \in Trees : p[t] = "active" => ActiveIn(p) = t
      /\ ActiveIn(p) # NoTree => p[ActiveIn(p)] = "active"
      /\ ActiveIn(p) = NoTree => \A t \in Trees : p[t] # "active"
      /\ (\A t \in Trees : p[t] # "active") => ActiveIn(p) = NoTree
  <2>1. \A t, u \in Trees : p[t] = "active" /\ p[u] = "active" => t = u
    BY DEF Unique
  <2> HIDE DEF p
  <2> QED BY <2>1, ActiveIs
<1> QED BY <1>1, ActiveNow, TreeNames DEF Workspace

\* The same after a step.
LEMMA ActiveTreeBecomes ==
    ASSUME Unique'
    PROVE  /\ ActiveTree' \in Trees \cup {NoTree}
           /\ \A b \in Trees \cup {NoTree} : Workspace(b)' <=> ActiveTree' = b
<1> DEFINE p == place'
<1>1. /\ ActiveIn(p) \in Trees \cup {NoTree}
      /\ \A t \in Trees : p[t] = "active" => ActiveIn(p) = t
      /\ ActiveIn(p) # NoTree => p[ActiveIn(p)] = "active"
      /\ ActiveIn(p) = NoTree => \A t \in Trees : p[t] # "active"
      /\ (\A t \in Trees : p[t] # "active") => ActiveIn(p) = NoTree
  <2>1. \A t, u \in Trees : p[t] = "active" /\ p[u] = "active" => t = u
    BY DEF Unique
  <2> HIDE DEF p
  <2> QED BY <2>1, ActiveIs
<1> QED BY <1>1, ActiveNow, TreeNames DEF Workspace

\* ensureJobWorkspace makes a tree only where there is none.
LEMMA WorkspaceMade ==
    ASSUME TreeInv, MakeWorkspace
    PROVE  \/ UNCHANGED place
           \/ /\ Workspace(NoTree) /\ place[Fresh] = "none"
              /\ place' = [place EXCEPT ![Fresh] = "active"]
<1>1. ActiveTree = NoTree <=> Workspace(NoTree)
  BY ActiveTreeIs DEF TreeInv
<1> QED BY <1>1 DEF MakeWorkspace

-----------------------------------------------------------------------------
(* Steps in groups.  The code of a tab touches none of what the server keeps of  *)
(* its requests.                                                             *)

core == <<pc, capture, kept, reply, place, queueVars, generation, restoreActive, historyVars>>

LEMMA TabFrame == TabStep => UNCHANGED core
<1>1. ASSUME NEW t \in Tabs
      PROVE  (OpenTab(t) \/ LoadTab(t) \/ Beat(t) \/ CloseTab(t) \/ FreezeTab(t) \/ WakeTab(t)
              \/ ExpireTab(t)) => UNCHANGED core
  BY DEF OpenTab, LoadTab, Beat, CloseTab, FreezeTab, WakeTab, ExpireTab, core, gateVars, queueVars,
         jobVars, historyVars
<1>2. ASSUME NEW b \in beacons
      PROVE  (BeaconArrives(b) \/ BeaconApplied(b)) => UNCHANGED core
  BY DEF BeaconArrives, BeaconApplied, core, gateVars, queueVars, jobVars, historyVars
<1> QED BY <1>1, <1>2 DEF TabStep

\* A step of a restore that holds both locks.
Inside(r) ==
    \/ CheckTabs(r) \/ StageBackup(r) \/ MoveAside(r) \/ CheckMoved(r) \/ Install(r)
    \/ CheckInstalled(r) \/ TakeOut(r) \/ ReturnPrevious(r) \/ Cleanup(r)

\* What all of them have in common.
Advance(r) ==
    /\ pc[r] \in Moving \/ (pc[r] = "nested" /\ HoldsTracker(r))
    /\ \E l \in Moving \cup {"unwind"} : pc' = [pc EXCEPT ![r] = l]
    /\ UNCHANGED <<tabVars, loaded, freezes, crashes, wrote, gateVars, queueVars, capture, queuedOn>>
    /\ faults' = faults \/ (faults' = faults + 1)
    /\ reply' = reply \/ \E x \in {"tabs", "invalid", "kept", "stranded", "restored"} :
                            reply' = [reply EXCEPT ![r] = x]

LEMMA InsideAdvances ==
    ASSUME NEW r \in Restores, Inside(r)
    PROVE  Advance(r)
<1> USE DEF Advance, Moving, HoldingLocks, Others, Goto, Stop, Fault
<1>1. CASE CheckTabs(r)
  BY <1>1 DEF CheckTabs
<1>2. CASE StageBackup(r)
  BY <1>2 DEF StageBackup
<1>3. CASE MoveAside(r)
  BY <1>3 DEF MoveAside
<1>4. CASE CheckMoved(r)
  BY <1>4 DEF CheckMoved
<1>5. CASE Install(r)
  BY <1>5 DEF Install
<1>6. CASE CheckInstalled(r)
  BY <1>6 DEF CheckInstalled
<1>7. CASE TakeOut(r)
  BY <1>7 DEF TakeOut
<1>8. CASE ReturnPrevious(r)
  BY <1>8 DEF ReturnPrevious
<1>9. CASE Cleanup(r)
  BY <1>9 DEF Cleanup
<1> QED BY <1>1, <1>2, <1>3, <1>4, <1>5, <1>6, <1>7, <1>8, <1>9 DEF Inside

\* Every step, by the part of the code that takes it.
Steps ==
    \/ TabStep
    \/ \E j \in Savers : \/ \E t \in Tabs : SendSave(j, t)
                         \/ ReceiveSave(j) \/ StartSave(j) \/ FinishSave(j)
    \/ \E j \in Backups : RequestBackup(j) \/ StartBackup(j) \/ ReadBackup(j) \/ FinishBackup(j)
    \/ \E r \in Restores : BeginRestore(r) \/ EnterRestore(r) \/ Inside(r) \/ Unwind(r)
    \/ Crash

LEMMA NextIsSteps == Next => Steps
BY JobKinds DEF Next, Steps, ServerStep, RestoreStep, Inside, ReceiveSave, StartSave, FinishSave,
   StartBackup, ReadBackup, FinishBackup

-----------------------------------------------------------------------------
(* Types, and which steps a request takes *)

LEMMA InitInv == Init => Inv
<1> SUFFICES ASSUME Init PROVE Inv
  OBVIOUS
<1>1. RestInv
  BY RestoreAssumption DEF Init, RestInv, Labels, Capture
<1>2. PcInv
  BY JobKinds DEF Init, PcInv, SaverPc, BackupPc, RestorePc
<1>3. LockInv
  BY DEF Init, LockInv, Started, InWorkspace, InTracker, Moving
<1>4. GateInv
  BY JobKinds DEF Init, GateInv, Busy, Entered, Moving
<1>5. TreeInv
  BY JobKinds, TreeNames
     DEF Init, TreeInv, Unique, RestoreInv, Settled, Trees
<1>6. SavesInv
  BY JobKinds DEF Init, SavesInv, SaveInv
<1>7. AnswerInv
  BY DEF Init, AnswerInv
<1> QED BY <1>1, <1>2, <1>3, <1>4, <1>5, <1>6, <1>7 DEF Inv

LEMMA RestPreserved ==
    ASSUME Inv, Steps
    PROVE  RestInv'
<1> USE DEF Inv, RestInv
<1>0. ActiveTree \in Trees \cup {NoTree}
  BY ActiveTreeIs DEF TreeInv
<1>1. CASE TabStep
  <2>1. pc' = pc /\ capture' = capture /\ reply' = reply
    BY <1>1, TabFrame DEF core
  <2>2. ASSUME NEW t \in Tabs, OpenTab(t) \/ LoadTab(t) \/ Beat(t) \/ CloseTab(t) \/ FreezeTab(t)
                               \/ WakeTab(t) \/ ExpireTab(t)
        PROVE  RestInv'
    <3> DEFINE told(gone) == [tab |-> t, gone |-> gone, read |-> FALSE]
    <3>1. \A gone \in BOOLEAN : told(gone) \in Beacon
      BY DEF Beacon
    <3>2. beacons' = beacons \/ \E gone \in BOOLEAN : beacons' = beacons \cup {told(gone)}
      BY <2>2 DEF OpenTab, LoadTab, Beat, CloseTab, FreezeTab, WakeTab, ExpireTab, Send
    <3>3. tab' = tab \/ \E x \in {"opening", "open", "frozen", "closed"} : tab' = [tab EXCEPT ![t] = x]
      BY <2>2 DEF OpenTab, LoadTab, Beat, CloseTab, FreezeTab, WakeTab, ExpireTab
    <3>4. loaded' = loaded \/ loaded' = [loaded EXCEPT ![t] = ActiveTree]
      BY <2>2 DEF OpenTab, LoadTab, Beat, CloseTab, FreezeTab, WakeTab, ExpireTab
    <3>5. /\ presence' \subseteq presence /\ UNCHANGED <<presenceAttempted, faults, crashes>>
          /\ freezes' = freezes \/ freezes' = freezes + 1
      BY <2>2 DEF OpenTab, LoadTab, Beat, CloseTab, FreezeTab, WakeTab, ExpireTab, gateVars, boundVars
    <3> HIDE DEF told
    <3>6. beacons' \subseteq Beacon /\ loaded' \in [Tabs \cup Savers -> Trees \cup {NoTree}]
      BY <3>1, <3>2, <3>4, <1>0
    <3>7. tab' \in [Tabs -> {"unopened", "opening", "open", "frozen", "closed"}]
      BY <3>3
    <3> QED BY <2>1, <3>5, <3>6, <3>7
  <2>3. ASSUME NEW b \in beacons, BeaconArrives(b)
        PROVE  RestInv'
    <3>1. [b EXCEPT !.read = TRUE] \in Beacon
      BY DEF Beacon
    <3> DEFINE c == [b EXCEPT !.read = TRUE]
    <3>2. beacons' \subseteq beacons \cup {c} /\ presenceAttempted' \in BOOLEAN
      BY <2>3 DEF BeaconArrives
    <3>3. UNCHANGED <<tab, presence, loaded, faults, freezes, crashes>>
      BY <2>3 DEF BeaconArrives, boundVars
    <3> HIDE DEF c
    <3>4. beacons' \subseteq Beacon
      BY <3>1, <3>2 DEF c
    <3> QED BY <2>1, <3>2, <3>3, <3>4
  <2>4. ASSUME NEW b \in beacons, BeaconApplied(b)
        PROVE  RestInv'
    <3>1. b.tab \in Tabs
      BY DEF Beacon
    <3> QED BY <2>1, <2>4, <3>1 DEF BeaconApplied, boundVars
  <2> QED BY <1>1, <2>2, <2>3, <2>4 DEF TabStep
<1>2. ASSUME NEW j \in Savers, \/ \E t \in Tabs : SendSave(j, t)
                               \/ ReceiveSave(j) \/ StartSave(j) \/ FinishSave(j)
      PROVE  RestInv'
  <2>1. ASSUME NEW t \in Tabs, SendSave(j, t) PROVE RestInv'
    BY <2>1, JobKinds DEF SendSave, Labels, gateVars, tabVars, boundVars
  <2>2. CASE ReceiveSave(j)
    BY <2>2, JobKinds DEF ReceiveSave, Labels, Enqueue, captureWorkspaceAccess, Capture, GateInv,
       gateVars, tabVars, boundVars
  <2>3. CASE StartSave(j)
    BY <2>3, JobKinds DEF StartSave, Labels, Answer, gateVars, tabVars, boundVars
  <2>4. CASE FinishSave(j)
    BY <2>4, JobKinds DEF FinishSave, Labels, Answer, gateVars, tabVars, boundVars
  <2> QED BY <1>2, <2>1, <2>2, <2>3, <2>4
<1>3. ASSUME NEW j \in Backups, RequestBackup(j) \/ StartBackup(j) \/ ReadBackup(j) \/ FinishBackup(j)
      PROVE  RestInv'
  <2>1. captureWorkspaceAccess \in Capture
    BY DEF captureWorkspaceAccess, Capture, GateInv
  <2> QED BY <1>3, <2>1, JobKinds
        DEF RequestBackup, StartBackup, ReadBackup, FinishBackup, Labels, Answer, Enqueue,
            gateVars, tabVars, boundVars
<1>4. ASSUME NEW r \in Restores, BeginRestore(r) \/ EnterRestore(r) \/ Unwind(r)
      PROVE  RestInv'
  <2>1. captureWorkspaceAccess \in Capture
    BY DEF captureWorkspaceAccess, Capture, GateInv
  <2> QED BY <1>4, <2>1, JobKinds
        DEF BeginRestore, EnterRestore, Unwind, Labels, Answer, Enqueue, Goto, Others,
            gateVars, tabVars, boundVars
<1>5. ASSUME NEW r \in Restores, Inside(r)
      PROVE  RestInv'
  BY <1>5, InsideAdvances, JobKinds DEF Advance, Labels, Moving, gateVars, tabVars
<1>6. CASE Crash
  <2>1. pc' \in [Jobs -> Labels]
    BY <1>6 DEF Crash, Labels
  <2>2. reply' \in [Jobs -> {"none", "ok", "conflict", "tabs", "invalid", "kept", "stranded",
                             "restored", "lost"}]
    BY <1>6 DEF Crash
  <2>3. presenceAttempted' = FALSE /\ presence' = {} /\ beacons' = {} /\ crashes' = crashes + 1
    BY <1>6 DEF Crash
  <2>4. UNCHANGED <<capture, tab, loaded, faults, freezes>>
    BY <1>6 DEF Crash
  <2>5. presenceAttempted' \in BOOLEAN
    BY <2>3, Zenon
  <2>6. crashes' \in Nat
    BY <2>3
  <2> QED BY <2>1, <2>2, <2>3, <2>4, <2>5, <2>6
<1> QED BY <1>1, <1>2, <1>3, <1>4, <1>5, <1>6 DEF Steps

LEMMA AnswerPreserved ==
    ASSUME Inv, Steps
    PROVE  AnswerInv'
<1>t. pc \in [Jobs -> Labels] /\ DOMAIN reply = Jobs /\ AnswerInv
  BY DEF Inv, RestInv
<1> USE DEF AnswerInv
<1>1. CASE TabStep
  BY <1>1, <1>t, TabFrame DEF core
<1>2. ASSUME NEW j \in Savers, \/ \E t \in Tabs : SendSave(j, t)
                               \/ ReceiveSave(j) \/ StartSave(j) \/ FinishSave(j)
      PROVE  AnswerInv'
  BY <1>2, <1>t, JobKinds DEF SendSave, ReceiveSave, StartSave, FinishSave, Answer
<1>3. ASSUME NEW j \in Backups, RequestBackup(j) \/ StartBackup(j) \/ ReadBackup(j) \/ FinishBackup(j)
      PROVE  AnswerInv'
  BY <1>3, <1>t, JobKinds DEF RequestBackup, StartBackup, ReadBackup, FinishBackup, Answer
<1>4. ASSUME NEW r \in Restores, BeginRestore(r) \/ EnterRestore(r)
      PROVE  AnswerInv'
  BY <1>4, <1>t, JobKinds DEF BeginRestore, EnterRestore, Answer, Goto
<1>5. ASSUME NEW r \in Restores, Unwind(r)
      PROVE  AnswerInv'
  <2>1. Truth(r)
    BY <1>5 DEF Unwind, Inv, TreeInv, RestoreInv, Settled
  <2> QED BY <1>5, <2>1, <1>t, JobKinds DEF Unwind, Truth
<1>6. ASSUME NEW r \in Restores, Inside(r)
      PROVE  AnswerInv'
  BY <1>6, <1>t, InsideAdvances, JobKinds DEF Advance, Moving
<1>7. CASE Crash
  BY <1>7, <1>t DEF Crash
<1> QED BY <1>1, <1>2, <1>3, <1>4, <1>5, <1>6, <1>7 DEF Steps

LEMMA PcPreserved ==
    ASSUME Inv, Steps
    PROVE  PcInv'
<1> USE DEF Inv, RestInv, PcInv, SaverPc, BackupPc
<1>1. CASE TabStep
  BY <1>1, TabFrame DEF core
<1>2. ASSUME NEW j \in Savers, \/ \E t \in Tabs : SendSave(j, t)
                               \/ ReceiveSave(j) \/ StartSave(j) \/ FinishSave(j)
      PROVE  PcInv'
  BY <1>2, JobKinds DEF SendSave, ReceiveSave, StartSave, FinishSave, Answer
<1>3. ASSUME NEW j \in Backups, RequestBackup(j) \/ StartBackup(j) \/ ReadBackup(j) \/ FinishBackup(j)
      PROVE  PcInv'
  BY <1>3, JobKinds DEF RequestBackup, StartBackup, ReadBackup, FinishBackup, Answer
<1>4. ASSUME NEW r \in Restores, BeginRestore(r) \/ EnterRestore(r) \/ Unwind(r)
      PROVE  PcInv'
  BY <1>4, JobKinds DEF BeginRestore, EnterRestore, Unwind, Answer, Goto, RestorePc, Entered
<1>5. ASSUME NEW r \in Restores, Inside(r)
      PROVE  PcInv'
  BY <1>5, InsideAdvances, JobKinds DEF Advance, RestorePc, Entered
<1>6. CASE Crash
  BY <1>6, JobKinds DEF Crash, RestorePc
<1> QED BY <1>1, <1>2, <1>3, <1>4, <1>5, <1>6 DEF Steps

-----------------------------------------------------------------------------
(* The locks and the gate *)

\* What a task does to a queue: it joins, or it leaves from the head.
Change(q, p, j) == p = q \/ p = Append(q, j) \/ (q # <<>> /\ Head(q) = j /\ p = Tail(q))

LEMMA ChangeKeepsHead ==
    ASSUME NEW q \in Seq(Jobs), NEW p, NEW j \in Jobs, Change(q, p, j)
    PROVE  /\ p \in Seq(Jobs)
           /\ \A k \in Jobs : k # j /\ q # <<>> /\ Head(q) = k => p # <<>> /\ Head(p) = k
<1>1. CASE p = Append(q, j)
  BY <1>1, AppendProperties, HeadTailAppend
<1>2. CASE q # <<>> /\ Head(q) = j /\ p = Tail(q)
  BY <1>2
<1> QED BY <1>1, <1>2 DEF Change

\* A step of one task leaves the others where they are.
LEMMA OthersKeepTheirLocks ==
    ASSUME Inv, NEW j \in Jobs,
           \A k \in Jobs : k # j => pc'[k] = pc[k],
           Change(workspaceQueue, workspaceQueue', j),
           Change(applicationsWriteQueue, applicationsWriteQueue', j),
           Started(j)'
    PROVE  LockInv'
<1>1. workspaceQueue' \in Seq(Jobs) /\ applicationsWriteQueue' \in Seq(Jobs)
  BY ChangeKeepsHead DEF Inv, LockInv
<1>2. ASSUME NEW k \in Jobs, k # j
      PROVE  Started(k)'
  <2>1. HoldsWorkspace(k) => HoldsWorkspace(k)'
    BY <1>2, ChangeKeepsHead DEF Inv, LockInv, HoldsWorkspace
  <2>2. HoldsTracker(k) => HoldsTracker(k)'
    BY <1>2, ChangeKeepsHead DEF Inv, LockInv, HoldsTracker
  <2>3. Started(k)
    BY DEF Inv, LockInv
  <2> QED BY <1>2, <2>1, <2>2, <2>3 DEF Started, TakesWorkspaceLock
<1> QED BY <1>1, <1>2 DEF LockInv

\* Two started tasks never share a queue.
LEMMA HoldersAreAlone ==
    ASSUME LockInv, NEW j \in Jobs, NEW k \in Jobs, j # k
    PROVE  /\ TakesWorkspaceLock(j) /\ pc[j] \in InWorkspace
              /\ TakesWorkspaceLock(k) => pc[k] \notin InWorkspace
           /\ HoldsTracker(j) => pc[k] \notin InTracker
           /\ HoldsTracker(j) /\ ~TakesWorkspaceLock(k) => pc[k] # "running"
           /\ HoldsWorkspace(j) /\ TakesWorkspaceLock(k) => pc[k] \notin InWorkspace
BY DEF LockInv, Started, HoldsWorkspace, HoldsTracker

\* Where tasks join and leave the queues.
LEMMA QueueSteps ==
    ASSUME NEW j \in Jobs
    PROVE  /\ Enqueue(j) \/ Leave(j) \/ UNCHANGED queueVars =>
                /\ Change(workspaceQueue, workspaceQueue', j)
                /\ Change(applicationsWriteQueue, applicationsWriteQueue', j)
BY DEF Enqueue, Leave, Change, HoldsWorkspace, HoldsTracker, queueVars

LEMMA LockPreserved ==
    ASSUME Inv, Steps
    PROVE  LockInv'
<1> DEFINE Quiet(j) ==
        /\ \A k \in Jobs : k # j => pc'[k] = pc[k]
        /\ Change(workspaceQueue, workspaceQueue', j)
        /\ Change(applicationsWriteQueue, applicationsWriteQueue', j)
<1> USE DEF InWorkspace, InTracker, Moving
<1>1. CASE TabStep
  BY <1>1, TabFrame
     DEF core, queueVars, Inv, LockInv, Started, TakesWorkspaceLock, HoldsWorkspace, HoldsTracker
<1>2. ASSUME NEW j \in Savers, \/ \E t \in Tabs : SendSave(j, t)
                               \/ ReceiveSave(j) \/ StartSave(j) \/ FinishSave(j)
      PROVE  LockInv'
  <2>1. Quiet(j)
    BY <1>2, QueueSteps, JobKinds
       DEF SendSave, ReceiveSave, StartSave, FinishSave, Answer, Inv, RestInv
  <2>2. pc'[j] \in {"sent", "queued", "done"} \/ (StartSave(j) /\ Allowed(j))
    BY <1>2, JobKinds DEF SendSave, ReceiveSave, StartSave, FinishSave, Answer, Inv, RestInv
  <2>3. CASE StartSave(j) /\ Allowed(j)
    <3>1. pc'[j] = "running" /\ UNCHANGED queueVars /\ HoldsItsLock(j)
      BY <2>3, JobKinds DEF StartSave, Inv, RestInv
    <3>2. Started(j)'
      BY <3>1 DEF Started, HoldsItsLock, HoldsWorkspace, HoldsTracker, TakesWorkspaceLock, queueVars
    <3> QED BY <2>1, <3>2, JobKinds, OthersKeepTheirLocks
  <2>4. CASE pc'[j] \in {"sent", "queued", "done"}
    <3>1. Started(j)'
      BY <2>4 DEF Started
    <3> QED BY <2>1, <3>1, JobKinds, OthersKeepTheirLocks
  <2> QED BY <2>2, <2>3, <2>4
<1>3. ASSUME NEW j \in Backups, RequestBackup(j)
      PROVE  LockInv'
  <2>1. Quiet(j) /\ pc'[j] = "queued"
    BY <1>3, QueueSteps, JobKinds DEF RequestBackup, Inv, RestInv
  <2>2. Started(j)'
    BY <2>1 DEF Started
  <2> QED BY <2>1, <2>2, JobKinds, OthersKeepTheirLocks
<1>4. ASSUME NEW j \in Backups, StartBackup(j) \/ ReadBackup(j), Allowed(j)
      PROVE  LockInv'
  <2>1. Quiet(j)
    BY <1>4, JobKinds DEF StartBackup, ReadBackup, Change, queueVars, Inv, RestInv
  <2>2. HoldsWorkspace(j)'
    <3>1. HoldsWorkspace(j)
      BY <1>4, JobKinds DEF StartBackup, ReadBackup, Inv, LockInv, Started, TakesWorkspaceLock
    <3> QED BY <1>4, <3>1 DEF StartBackup, ReadBackup, HoldsWorkspace, queueVars
  <2>3. \/ pc'[j] = "nested"
        \/ pc'[j] = "reading" /\ HoldsTracker(j) /\ UNCHANGED queueVars
    BY <1>4, JobKinds DEF StartBackup, ReadBackup, Inv, RestInv
  <2>4. Started(j)'
    BY <2>2, <2>3, JobKinds DEF Started, HoldsTracker, TakesWorkspaceLock, queueVars
  <2> QED BY <2>1, <2>4, JobKinds, OthersKeepTheirLocks
<1>5. ASSUME NEW j \in Backups, ((StartBackup(j) \/ ReadBackup(j)) /\ ~Allowed(j)) \/ FinishBackup(j)
      PROVE  LockInv'
  <2>1. Quiet(j) /\ pc'[j] = "done"
    BY <1>5, QueueSteps, JobKinds DEF StartBackup, ReadBackup, FinishBackup, Answer, Inv, RestInv
  <2>2. Started(j)'
    BY <2>1 DEF Started
  <2> QED BY <2>1, <2>2, JobKinds, OthersKeepTheirLocks
<1>6. ASSUME NEW r \in Restores, BeginRestore(r)
      PROVE  LockInv'
  <2>1. Quiet(r) /\ pc'[r] \in {"queued", "done"}
    BY <1>6, QueueSteps, JobKinds DEF BeginRestore, Goto, Answer, Inv, RestInv
  <2>2. Started(r)'
    BY <2>1 DEF Started
  <2> QED BY <2>1, <2>2, JobKinds, OthersKeepTheirLocks
<1>7. ASSUME NEW r \in Restores, EnterRestore(r)
      PROVE  LockInv'
  <2>1. Quiet(r) /\ pc'[r] = "nested" /\ HoldsWorkspace(r) /\ workspaceQueue' = workspaceQueue
    BY <1>7, JobKinds DEF EnterRestore, Goto, Change, Inv, RestInv
  <2>2. Started(r)'
    BY <2>1, JobKinds DEF Started, HoldsWorkspace
  <2> QED BY <2>1, <2>2, JobKinds, OthersKeepTheirLocks
<1>8. ASSUME NEW r \in Restores, Inside(r)
      PROVE  LockInv'
  <2>1. Advance(r)
    BY <1>8, InsideAdvances
  <2>2. Quiet(r)
    BY <2>1, QueueSteps, JobKinds DEF Advance, Inv, RestInv
  <2>3. HoldsWorkspace(r) /\ HoldsTracker(r) /\ UNCHANGED queueVars
    BY <2>1, JobKinds DEF Advance, Inv, LockInv, Started
  <2>4. Started(r)'
    BY <2>3, JobKinds DEF Started, HoldsWorkspace, HoldsTracker, TakesWorkspaceLock, queueVars
  <2> QED BY <2>2, <2>4, JobKinds, OthersKeepTheirLocks
<1>9. ASSUME NEW r \in Restores, Unwind(r)
      PROVE  LockInv'
  <2>1. /\ pc[r] \in {"unwind", "unwound"} => HoldsWorkspace(r)
        /\ pc[r] = "unwind" => HoldsTracker(r)
    BY JobKinds DEF Inv, LockInv, Started
  <2>2. Quiet(r)
    BY <1>9, <2>1, JobKinds DEF Unwind, Change, HoldsWorkspace, HoldsTracker, Inv, RestInv, queueVars
  <2>3. \/ pc'[r] = "unwound" /\ HoldsWorkspace(r) /\ workspaceQueue' = workspaceQueue
        \/ pc'[r] \in {"ending", "done"}
    BY <1>9, <2>1, JobKinds DEF Unwind, Inv, RestInv
  <2>4. Started(r)'
    BY <2>3, JobKinds DEF Started, HoldsWorkspace
  <2> QED BY <2>2, <2>4, JobKinds, OthersKeepTheirLocks
<1>10. CASE Crash
  <2>1. \A j \in Jobs : pc'[j] \in {"idle", "done"}
    BY <1>10 DEF Crash
  <2>2. workspaceQueue' = <<>> /\ applicationsWriteQueue' = <<>>
    BY <1>10 DEF Crash
  <2>3. workspaceQueue' \in Seq(Jobs) /\ applicationsWriteQueue' \in Seq(Jobs)
    BY <2>2
  <2>4. \A j \in Jobs : Started(j)'
    BY <2>1 DEF Started
  <2> QED BY <2>3, <2>4 DEF LockInv
<1> QED BY <1>1, <1>2, <1>3, <1>4, <1>5, <1>6, <1>7, <1>8, <1>9, <1>10 DEF Steps

LEMMA GatePreserved ==
    ASSUME Inv, Steps
    PROVE  GateInv'
<1> USE DEF Inv, RestInv, PcInv, GateInv, Busy
<1>1. CASE TabStep
  BY <1>1, TabFrame DEF core
<1>2. ASSUME NEW j \in Savers, (\E t \in Tabs : SendSave(j, t)) \/ ReceiveSave(j) \/ FinishSave(j)
      PROVE  GateInv'
  BY <1>2, JobKinds DEF SendSave, ReceiveSave, FinishSave, Answer, gateVars
<1>3. ASSUME NEW j \in Savers, StartSave(j)
      PROVE  GateInv'
  BY <1>3, JobKinds DEF StartSave, Answer, Allowed, Entered, Moving, gateVars
<1>4. ASSUME NEW j \in Backups, RequestBackup(j) \/ StartBackup(j) \/ ReadBackup(j) \/ FinishBackup(j)
      PROVE  GateInv'
  BY <1>4, JobKinds
     DEF RequestBackup, StartBackup, ReadBackup, FinishBackup, Answer, Allowed, Entered, Moving, gateVars
<1>5. ASSUME NEW r \in Restores, BeginRestore(r)
      PROVE  GateInv'
  <2>1. CASE restoreActive
    BY <1>5, <2>1, JobKinds DEF BeginRestore, Answer, Entered, Moving, gateVars
  <2>2. CASE ~restoreActive
    <3>1. restoreActive' = TRUE /\ generation' = generation + 1 /\ pc' = [pc EXCEPT ![r] = "queued"]
      BY <1>5, <2>2 DEF BeginRestore, Goto
    <3>2. restoreActive' \in BOOLEAN
      BY <3>1, Zenon
    <3>3. \A s \in Restores : ~Busy(s)
      BY <2>2
    <3> QED BY <3>1, <3>2, <3>3, JobKinds DEF Entered, Moving
  <2> QED BY <2>1, <2>2
<1>6. ASSUME NEW r \in Restores, EnterRestore(r)
      PROVE  GateInv'
  BY <1>6, JobKinds DEF EnterRestore, Goto, Entered, Moving, gateVars
<1>7. ASSUME NEW r \in Restores, Inside(r)
      PROVE  GateInv'
  <2>1. \A j \in Savers \cup Backups : pc[j] \notin {"running", "reading"}
    <3> SUFFICES ASSUME NEW j \in Savers \cup Backups PROVE pc[j] \notin {"running", "reading"}
      OBVIOUS
    <3>1. CASE pc[r] \in Moving
      BY <3>1 DEF Entered
    <3>2. CASE pc[r] = "nested" /\ HoldsTracker(r)
      BY <3>2, JobKinds, HoldersAreAlone DEF InWorkspace, InTracker, SaverPc
    <3> QED BY <3>1, <3>2, <1>7, InsideAdvances DEF Advance
  <2>2. UNCHANGED <<generation, restoreActive>>
    BY <1>7, InsideAdvances DEF Advance, gateVars
  <2>3. Busy(r) /\ \E l \in Moving \cup {"unwind"} : pc' = [pc EXCEPT ![r] = l]
    BY <1>7, InsideAdvances DEF Advance, Moving
  <2>4. Busy(r)' /\ \A j \in Jobs : j # r => pc'[j] = pc[j]
    BY <2>3, JobKinds DEF Moving
  <2>5. /\ restoreActive' /\ \A s, t \in Restores : Busy(s)' /\ Busy(t)' => s = t
        /\ \A j \in Savers \cup Backups : pc'[j] \notin {"running", "reading"}
    BY <2>1, <2>2, <2>3, <2>4, JobKinds
  <2> QED BY <2>2, <2>4, <2>5
<1>8. ASSUME NEW r \in Restores, Unwind(r)
      PROVE  GateInv'
  <2>1. CASE pc[r] = "ending"
    <3>1. restoreActive' = FALSE /\ generation' = generation /\ pc' = [pc EXCEPT ![r] = "done"]
      BY <1>8, <2>1 DEF Unwind
    <3>2. restoreActive' \in BOOLEAN
      BY <3>1, Zenon
    <3>3. \A s \in Restores : s # r => ~Busy(s)
      BY <2>1
    <3> QED BY <3>1, <3>2, <3>3, JobKinds DEF Entered, Moving
  <2>2. CASE pc[r] # "ending"
    <3>1. /\ UNCHANGED <<restoreActive, generation>> /\ pc[r] \in Entered
          /\ \E l \in {"unwound", "ending"} : pc' = [pc EXCEPT ![r] = l]
      BY <1>8, <2>2 DEF Unwind, Entered, Moving
    <3> QED BY <3>1, JobKinds DEF Entered, Moving
  <2> QED BY <2>1, <2>2
<1>9. CASE Crash
  BY <1>9, JobKinds DEF Crash, Entered, Moving
<1> QED BY <1>1, <1>2, <1>3, <1>4, <1>5, <1>6, <1>7, <1>8, <1>9 DEF Steps

-----------------------------------------------------------------------------
(* The trees *)

Places == {"none", "active", "stage", "previous", "gone"}

\* Renaming or deleting one tree.
LEMMA OneTreeMoves ==
    ASSUME TreeInv, NEW t \in Trees, NEW x \in Places,
           place' = [place EXCEPT ![t] = x],
           x = "active" => Workspace(NoTree),
           t \in {Original, Fresh} => x \in {"active", "previous"}
    PROVE  /\ place' \in [Trees -> Places] /\ Unique'
           /\ place'[Original] \in {"active", "previous"}
           /\ place'[Fresh] \in {"none", "active", "previous"}
<1>1. place \in [Trees -> Places]
  BY DEF TreeInv, Places
<1>2. place'[t] = x /\ \A u \in Trees : u # t => place'[u] = place[u]
  BY <1>1
<1>3. place' \in [Trees -> Places]
  BY <1>1
<1>4. Unique'
  <2> SUFFICES ASSUME NEW u \in Trees, NEW v \in Trees, place'[u] = "active", place'[v] = "active"
               PROVE  u = v
    BY DEF Unique
  <2>1. CASE x = "active"
    BY <2>1, <1>2 DEF Workspace
  <2>2. CASE x # "active"
    BY <2>2, <1>2 DEF TreeInv, Unique
  <2> QED BY <2>1, <2>2
<1>5. /\ place'[Original] \in {"active", "previous"}
      /\ place'[Fresh] \in {"none", "active", "previous"}
  BY <1>2, TreeNames DEF TreeInv
<1> QED BY <1>3, <1>4, <1>5

\* While restore r is at work the others rest, and their trees are at most
\* renamed between the workspace and a safety copy.
LEMMA OthersRest ==
    ASSUME Inv, NEW r \in Restores, Busy(r), NEW s \in Restores, s # r,
           pc'[s] = pc[s], reply'[s] = reply[s],
           \/ place'[s] = place[s]
           \/ place[s] \in {"active", "previous"} /\ place'[s] \in {"active", "previous"}
    PROVE  RestoreInv(s)'
<1>1. pc[s] \in {"idle", "done"}
  BY DEF Inv, GateInv, Busy
<1>2. RestoreInv(s)
  BY DEF Inv, TreeInv
<1> QED BY <1>1, <1>2 DEF RestoreInv, RestorePc, Settled, Entered, Moving

LEMMA TreesAfter ==
    ASSUME Inv, NEW r \in Restores, Busy(r),
           \A s \in Restores : s # r =>
              /\ pc'[s] = pc[s] /\ reply'[s] = reply[s]
              /\ \/ place'[s] = place[s]
                 \/ place[s] \in {"active", "previous"} /\ place'[s] \in {"active", "previous"},
           \/ UNCHANGED place
           \/ \E t \in Trees, x \in Places :
                 /\ place' = [place EXCEPT ![t] = x]
                 /\ x = "active" => Workspace(NoTree)
                 /\ t \in {Original, Fresh} => x \in {"active", "previous"},
           kept' = kept \/ \E b \in Trees \cup {NoTree} : kept' = [kept EXCEPT ![r] = b],
           began' = began \/ \E b \in Trees \cup {NoTree} : began' = [began EXCEPT ![r] = b],
           RestoreInv(r)'
    PROVE  TreeInv'
<1>1. /\ place' \in [Trees -> Places] /\ Unique'
      /\ place'[Original] \in {"active", "previous"}
      /\ place'[Fresh] \in {"none", "active", "previous"}
  <2>1. CASE UNCHANGED place
    BY <2>1 DEF Inv, TreeInv, Unique, Places
  <2>2. CASE ~UNCHANGED place
    BY <2>2, OneTreeMoves DEF Inv
  <2> QED BY <2>1, <2>2
<1>2. /\ kept' \in [Restores -> Trees \cup {NoTree}]
      /\ began' \in [Restores -> Trees \cup {NoTree}]
  BY DEF Inv, TreeInv
<1>3. \A s \in Restores : RestoreInv(s)'
  BY OthersRest
<1> QED BY <1>1, <1>2, <1>3 DEF TreeInv, Places

\* A step that moves no tree and is no step of a restore.
LEMMA TreesUntouched ==
    ASSUME Inv, UNCHANGED <<place, kept, began>>,
           \A r \in Restores : pc'[r] = pc[r] /\ reply'[r] = reply[r]
    PROVE  TreeInv'
BY DEF Inv, TreeInv, RestoreInv, Unique, Workspace, SafeCopy, Truth

\* The workspace as restore r knows it.
LEMMA KnownTrees ==
    ASSUME Inv, NEW r \in Restores
    PROVE  /\ RestoreInv(r) /\ r \in Trees /\ r # NoTree /\ r \notin {Original, Fresh}
           /\ began[r] \in Trees \cup {NoTree} /\ kept[r] \in Trees \cup {NoTree}
           /\ place \in [Trees -> Places] /\ Unique
           /\ ActiveTree \in Trees \cup {NoTree}
           /\ \A b \in Trees \cup {NoTree} : Workspace(b) <=> ActiveTree = b
           /\ pc \in [Jobs -> Labels] /\ r \in Jobs
           /\ DOMAIN reply = Jobs /\ DOMAIN kept = Restores /\ DOMAIN began = Restores
           /\ NoTree \notin Trees
BY ActiveTreeIs, TreeNames, JobKinds DEF Inv, TreeInv, RestInv, Places

\* The steps of a restore one by one.
LEMMA CheckTabsKeepsTrees ==
    ASSUME Inv, NEW r \in Restores, CheckTabs(r)
    PROVE  TreeInv'
<1> USE KnownTrees
<1>1. /\ pc[r] = "nested" /\ place' = place /\ kept' = kept
      /\ began' = [began EXCEPT ![r] = ActiveTree]
      /\ \/ pc' = [pc EXCEPT ![r] = "cleanup"] /\ reply' = [reply EXCEPT ![r] = "tabs"]
         \/ pc' = [pc EXCEPT ![r] = "staging"] /\ reply' = reply
  BY DEF CheckTabs, Stop, Goto
<1>2. began'[r] = ActiveTree /\ Workspace(began'[r])
  BY <1>1
<1>3. Workspace(began[r])'
  BY <1>1, <1>2 DEF Workspace
<1>4. RestoreInv(r)'
  BY <1>1, <1>3 DEF RestoreInv, Truth, Settled, RestorePc, Entered, Moving
<1> QED BY <1>1, <1>4, TreesAfter, JobKinds DEF Busy

LEMMA StageBackupKeepsTrees ==
    ASSUME Inv, NEW r \in Restores, StageBackup(r)
    PROVE  TreeInv'
<1> USE KnownTrees
<1>1. /\ pc[r] = "staging" /\ place' = [place EXCEPT ![r] = "stage"]
      /\ kept' = kept /\ began' = began
      /\ \/ /\ pc' = [pc EXCEPT ![r] = "cleanup"]
            /\ \E x \in {"invalid", "kept", "tabs"} : reply' = [reply EXCEPT ![r] = x]
         \/ pc' = [pc EXCEPT ![r] = "aside"] /\ reply' = reply
  BY DEF StageBackup, Stop, Goto
<1>2. place[r] = "none" /\ Workspace(began[r]) /\ reply[r] = "none"
  BY <1>1 DEF RestoreInv, RestorePc, Settled, Entered, Moving
<1>3. place'[r] = "stage" /\ \A t \in Trees : t # r => place'[t] = place[t]
  BY <1>1
<1>4. Workspace(began[r])'
  BY <1>1, <1>2, <1>3 DEF Workspace
<1>5. RestoreInv(r)'
  BY <1>1, <1>2, <1>3, <1>4 DEF RestoreInv, Truth, Settled, RestorePc, Entered, Moving
<1> QED BY <1>1, <1>3, <1>5, TreesAfter, JobKinds DEF Busy, Places, Trees

LEMMA MoveAsideKeepsTrees ==
    ASSUME Inv, NEW r \in Restores, MoveAside(r)
    PROVE  TreeInv'
<1> USE KnownTrees
<1>1. /\ pc[r] = "aside" /\ began' = began /\ place[r] = "stage" /\ reply[r] = "none"
      /\ ActiveTree = began[r]
  BY DEF MoveAside, RestoreInv, RestorePc, Settled, Entered, Moving
<1>2. CASE ActiveTree = NoTree
  <2>1. /\ place' = place /\ kept' = [kept EXCEPT ![r] = NoTree] /\ reply' = reply
        /\ pc' = [pc EXCEPT ![r] = "moved"]
    BY <1>2 DEF MoveAside, Goto
  <2>2. Workspace(NoTree)' /\ SafeCopy(r)'
    BY <1>1, <1>2, <2>1 DEF Workspace, SafeCopy
  <2>3. RestoreInv(r)'
    BY <1>1, <1>2, <2>1, <2>2 DEF RestoreInv, Settled, RestorePc, Entered, Moving
  <2> QED BY <1>1, <2>1, <2>3, TreesAfter, JobKinds DEF Busy
<1>3. CASE ActiveTree # NoTree /\ pc'[r] = "moved"
  <2>1. /\ place' = [place EXCEPT ![ActiveTree] = "previous"]
        /\ kept' = [kept EXCEPT ![r] = ActiveTree] /\ reply' = reply
        /\ pc' = [pc EXCEPT ![r] = "moved"]
    BY <1>3 DEF MoveAside, Goto, Stop
  <2>2. place[ActiveTree] = "active" /\ ActiveTree # r
    BY <1>1, <1>3 DEF Workspace
  <2>3. place'[ActiveTree] = "previous" /\ \A t \in Trees : t # ActiveTree => place'[t] = place[t]
    BY <1>3, <2>1
  <2>4. Workspace(NoTree)'
    BY <2>2, <2>3, <1>3 DEF Workspace, Unique
  <2>5. SafeCopy(r)'
    BY <1>1, <2>3 DEF SafeCopy
  <2>6. RestoreInv(r)'
    BY <1>1, <2>1, <2>2, <2>3, <2>4, <2>5 DEF RestoreInv, Settled, RestorePc, Entered, Moving
  <2>7. \A s \in Restores : s # r =>
              /\ pc'[s] = pc[s] /\ reply'[s] = reply[s]
              /\ \/ place'[s] = place[s]
                 \/ place[s] \in {"active", "previous"} /\ place'[s] \in {"active", "previous"}
    BY <2>1, <2>2, <2>3, JobKinds, TreeNames
  <2> QED BY <1>1, <1>3, <2>1, <2>6, <2>7, TreesAfter DEF Busy, Places
<1>4. CASE ActiveTree # NoTree /\ pc'[r] # "moved"
  <2>1. /\ place' = place /\ kept' = kept /\ pc' = [pc EXCEPT ![r] = "cleanup"]
        /\ reply' = [reply EXCEPT ![r] = "kept"]
    BY <1>4 DEF MoveAside, Goto, Stop
  <2>2. Workspace(began[r])'
    BY <1>1, <2>1 DEF Workspace
  <2>3. RestoreInv(r)'
    BY <1>1, <2>1, <2>2 DEF RestoreInv, Truth, Settled, RestorePc, Entered, Moving
  <2> QED BY <1>1, <2>1, <2>3, TreesAfter, JobKinds DEF Busy
<1> QED BY <1>2, <1>3, <1>4

LEMMA CheckMovedKeepsTrees ==
    ASSUME Inv, NEW r \in Restores, CheckMoved(r)
    PROVE  TreeInv'
<1> USE KnownTrees
<1>1. /\ pc[r] = "moved" /\ UNCHANGED <<place, kept, began>>
      /\ \/ pc' = [pc EXCEPT ![r] = "install"] /\ reply' = reply
         \/ kept[r] # NoTree /\ pc' = [pc EXCEPT ![r] = "return"] /\ reply' = reply
         \/ /\ kept[r] = NoTree /\ pc' = [pc EXCEPT ![r] = "cleanup"]
            /\ reply' = [reply EXCEPT ![r] = "tabs"]
  BY DEF CheckMoved, Stop, Goto
<1>2. /\ place[r] = "stage" /\ Workspace(NoTree) /\ kept[r] = began[r] /\ SafeCopy(r)
      /\ reply[r] = "none"
  BY <1>1 DEF RestoreInv, RestorePc, Settled, Entered, Moving
<1>3. Workspace(NoTree)' /\ SafeCopy(r)'
  BY <1>1, <1>2 DEF Workspace, SafeCopy
<1>4. kept[r] = NoTree => Workspace(began[r])'
  BY <1>1, <1>2, <1>3 DEF Workspace
<1>5. RestoreInv(r)'
  BY <1>1, <1>2, <1>3, <1>4 DEF RestoreInv, Truth, Settled, RestorePc, Entered, Moving
<1> QED BY <1>1, <1>5, TreesAfter, JobKinds DEF Busy

LEMMA InstallKeepsTrees ==
    ASSUME Inv, NEW r \in Restores, Install(r)
    PROVE  TreeInv'
<1> USE KnownTrees
<1>1. /\ pc[r] = "install" /\ kept' = kept /\ began' = began
      /\ place[r] = "stage" /\ Workspace(NoTree) /\ kept[r] = began[r] /\ SafeCopy(r)
      /\ reply[r] = "none"
  BY DEF Install, RestoreInv, RestorePc, Settled, Entered, Moving
<1>2. CASE pc'[r] = "installed"
  <2>1. /\ place' = [place EXCEPT ![r] = "active"] /\ reply' = reply
        /\ pc' = [pc EXCEPT ![r] = "installed"]
    BY <1>2 DEF Install, Goto, Stop
  <2>2. place'[r] = "active" /\ \A t \in Trees : t # r => place'[t] = place[t]
    BY <2>1
  <2>3. SafeCopy(r)'
    BY <1>1, <2>2 DEF SafeCopy
  <2>4. RestoreInv(r)'
    BY <1>1, <2>1, <2>2, <2>3 DEF RestoreInv, Settled, RestorePc, Entered, Moving
  <2> QED BY <1>1, <2>1, <2>2, <2>4, TreesAfter, JobKinds DEF Busy, Places, Trees
<1>3. CASE pc'[r] # "installed"
  <2>1. /\ place' = place
        /\ \/ kept[r] # NoTree /\ pc' = [pc EXCEPT ![r] = "returnFailed"] /\ reply' = reply
           \/ /\ kept[r] = NoTree /\ pc' = [pc EXCEPT ![r] = "cleanup"]
              /\ reply' = [reply EXCEPT ![r] = "kept"]
    BY <1>3 DEF Install, Goto, Stop
  <2>2. Workspace(NoTree)' /\ SafeCopy(r)'
    BY <1>1, <2>1 DEF Workspace, SafeCopy
  <2>3. kept[r] = NoTree => Workspace(began[r])'
    BY <1>1, <2>1, <2>2 DEF Workspace
  <2>4. RestoreInv(r)'
    BY <1>1, <2>1, <2>2, <2>3 DEF RestoreInv, Truth, Settled, RestorePc, Entered, Moving
  <2> QED BY <1>1, <2>1, <2>4, TreesAfter, JobKinds DEF Busy
<1> QED BY <1>2, <1>3

LEMMA CheckInstalledKeepsTrees ==
    ASSUME Inv, NEW r \in Restores, CheckInstalled(r)
    PROVE  TreeInv'
<1> USE KnownTrees
<1>1. /\ pc[r] = "installed" /\ UNCHANGED <<place, kept, began>>
      /\ \/ pc' = [pc EXCEPT ![r] = "takeOut"] /\ reply' = reply
         \/ pc' = [pc EXCEPT ![r] = "cleanup"] /\ reply' = [reply EXCEPT ![r] = "restored"]
  BY DEF CheckInstalled, Stop, Goto
<1>2. place[r] = "active" /\ kept[r] = began[r] /\ SafeCopy(r) /\ reply[r] = "none"
  BY <1>1 DEF RestoreInv, RestorePc, Settled, Entered, Moving
<1>3. SafeCopy(r)'
  BY <1>1, <1>2 DEF SafeCopy
<1>4. RestoreInv(r)'
  BY <1>1, <1>2, <1>3 DEF RestoreInv, Truth, Settled, RestorePc, Entered, Moving
<1> QED BY <1>1, <1>4, TreesAfter, JobKinds DEF Busy

LEMMA TakeOutKeepsTrees ==
    ASSUME Inv, NEW r \in Restores, TakeOut(r)
    PROVE  TreeInv'
<1> USE KnownTrees
<1>1. /\ pc[r] = "takeOut" /\ kept' = kept /\ began' = began
      /\ place[r] = "active" /\ kept[r] = began[r] /\ SafeCopy(r) /\ reply[r] = "none"
  BY DEF TakeOut, RestoreInv, RestorePc, Settled, Entered, Moving
<1>2. CASE place' = place
  <2>1. pc' = [pc EXCEPT ![r] = "cleanup"] /\ reply' = [reply EXCEPT ![r] = "stranded"]
    <3>1. [place EXCEPT ![r] = "stage"] # place
      BY <1>1
    <3> QED BY <1>2, <3>1 DEF TakeOut, Goto, Stop
  <2>2. SafeCopy(r)' /\ (place[r] = "active" \/ Workspace(NoTree))'
    BY <1>1, <1>2 DEF SafeCopy, Workspace
  <2>3. RestoreInv(r)'
    BY <1>1, <1>2, <2>1, <2>2 DEF RestoreInv, Truth, Settled, RestorePc, Entered, Moving
  <2> QED BY <1>1, <1>2, <2>1, <2>3, TreesAfter, JobKinds DEF Busy
<1>3. CASE place' # place
  <2>1. /\ place' = [place EXCEPT ![r] = "stage"]
        /\ \/ kept[r] # NoTree /\ pc' = [pc EXCEPT ![r] = "return"] /\ reply' = reply
           \/ /\ kept[r] = NoTree /\ pc' = [pc EXCEPT ![r] = "cleanup"]
              /\ reply' = [reply EXCEPT ![r] = "tabs"]
    BY <1>3 DEF TakeOut, Goto, Stop
  <2>2. place'[r] = "stage" /\ \A t \in Trees : t # r => place'[t] = place[t]
    BY <2>1
  <2>3. Workspace(NoTree)'
    BY <1>1, <2>2 DEF Workspace, Unique
  <2>4. SafeCopy(r)'
    BY <1>1, <2>2 DEF SafeCopy
  <2>5. kept[r] = NoTree => Workspace(began[r])'
    BY <1>1, <2>3 DEF Workspace
  <2>6. RestoreInv(r)'
    BY <1>1, <2>1, <2>2, <2>3, <2>4, <2>5 DEF RestoreInv, Truth, Settled, RestorePc, Entered, Moving
  <2> QED BY <1>1, <2>1, <2>2, <2>6, TreesAfter, JobKinds DEF Busy, Places, Trees
<1> QED BY <1>2, <1>3

LEMMA ReturnPreviousKeepsTrees ==
    ASSUME Inv, NEW r \in Restores, ReturnPrevious(r)
    PROVE  TreeInv'
<1> USE KnownTrees
<1>1. /\ pc[r] \in {"return", "returnFailed"} /\ kept' = kept /\ began' = began
      /\ place[r] = "stage" /\ Workspace(NoTree) /\ kept[r] = began[r] /\ SafeCopy(r)
      /\ kept[r] # NoTree /\ reply[r] = "none" /\ place[kept[r]] = "previous"
  BY DEF ReturnPrevious, RestoreInv, SafeCopy, RestorePc, Settled, Entered, Moving
<1>2. CASE place' = place
  <2>1. pc' = [pc EXCEPT ![r] = "cleanup"] /\ reply' = [reply EXCEPT ![r] = "stranded"]
    <3>1. [place EXCEPT ![kept[r]] = "active"] # place
      BY <1>1
    <3> QED BY <1>2, <3>1 DEF ReturnPrevious, Goto, Stop
  <2>2. SafeCopy(r)' /\ (place[r] = "active" \/ Workspace(NoTree))'
    BY <1>1, <1>2 DEF SafeCopy, Workspace
  <2>3. RestoreInv(r)'
    BY <1>1, <1>2, <2>1, <2>2 DEF RestoreInv, Truth, Settled, RestorePc, Entered, Moving
  <2> QED BY <1>1, <1>2, <2>1, <2>3, TreesAfter, JobKinds DEF Busy
<1>3. CASE place' # place
  <2>1. /\ place' = [place EXCEPT ![kept[r]] = "active"]
        /\ pc' = [pc EXCEPT ![r] = "cleanup"]
        /\ \E x \in {"tabs", "kept"} : reply' = [reply EXCEPT ![r] = x]
    BY <1>3 DEF ReturnPrevious, Stop
  <2>2. place'[kept[r]] = "active" /\ \A t \in Trees : t # kept[r] => place'[t] = place[t]
    BY <1>1, <2>1
  <2>3. Workspace(began[r])'
    BY <1>1, <2>2 DEF Workspace
  <2>4. RestoreInv(r)'
    BY <1>1, <2>1, <2>2, <2>3 DEF RestoreInv, Truth, Settled, RestorePc, Entered, Moving
  <2>5. \A s \in Restores : s # r =>
              /\ pc'[s] = pc[s] /\ reply'[s] = reply[s]
              /\ \/ place'[s] = place[s]
                 \/ place[s] \in {"active", "previous"} /\ place'[s] \in {"active", "previous"}
    BY <1>1, <2>1, <2>2, JobKinds, TreeNames
  <2> QED BY <1>1, <2>1, <2>4, <2>5, TreesAfter DEF Busy, Places
<1> QED BY <1>2, <1>3

LEMMA CleanupKeepsTrees ==
    ASSUME Inv, NEW r \in Restores, Cleanup(r)
    PROVE  TreeInv'
<1> USE KnownTrees
<1>1. /\ pc[r] = "cleanup" /\ kept' = kept /\ began' = began /\ reply' = reply
      /\ pc' = [pc EXCEPT ![r] = "unwind"]
      /\ place' = place \/ (place[r] = "stage" /\ place' = [place EXCEPT ![r] = "gone"])
  <2>1. place[r] # "stage" => [place EXCEPT ![r] = IF @ = "stage" THEN "gone" ELSE @] = place
    OBVIOUS
  <2> QED BY <2>1 DEF Cleanup
<1>2. Truth(r)
  BY <1>1 DEF RestoreInv, Settled
<1>3. CASE place' = place
  <2>1. Truth(r)'
    BY <1>1, <1>2, <1>3 DEF Truth, SafeCopy, Workspace
  <2>2. RestoreInv(r)'
    BY <1>1, <1>3, <2>1 DEF RestoreInv, Settled, RestorePc, Entered, Moving
  <2> QED BY <1>1, <1>3, <2>2, TreesAfter, JobKinds DEF Busy
<1>4. CASE place[r] = "stage" /\ place' = [place EXCEPT ![r] = "gone"]
  <2>1. place'[r] = "gone" /\ \A t \in Trees : t # r => place'[t] = place[t]
    BY <1>4
  <2>2. reply[r] \in {"tabs", "invalid", "kept"} => Workspace(began[r])'
    BY <1>1, <1>2, <1>4, <2>1 DEF Truth, Workspace
  <2>3. SafeCopy(r) => SafeCopy(r)'
    BY <1>1, <1>4, <2>1 DEF SafeCopy
  <2>n. Workspace(NoTree) => Workspace(NoTree)'
    BY <1>4, <2>1 DEF Workspace
  <2>4. Truth(r)'
    BY <1>1, <1>2, <1>4, <2>1, <2>2, <2>3, <2>n DEF Truth
  <2>5. RestoreInv(r)'
    BY <1>1, <1>2, <1>4, <2>1, <2>4 DEF RestoreInv, Truth, Settled, RestorePc, Entered, Moving
  <2> QED BY <1>1, <1>4, <2>1, <2>5, TreesAfter, JobKinds DEF Busy, Places, Trees
<1> QED BY <1>1, <1>3, <1>4

\* A step that moves no tree.
LEMMA TreesStay ==
    ASSUME Inv, NEW r \in Restores, UNCHANGED <<place, kept, began>>,
           \A s \in Restores : s # r => pc'[s] = pc[s] /\ reply'[s] = reply[s],
           RestoreInv(r)'
    PROVE  TreeInv'
<1>1. ASSUME NEW s \in Restores, s # r
      PROVE  RestoreInv(s)'
  BY <1>1 DEF Inv, TreeInv, RestoreInv, Workspace, SafeCopy, Truth
<1>2. \A s \in Restores : RestoreInv(s)'
  BY <1>1
<1>3. Unique' /\ place' \in [Trees -> {"none", "active", "stage", "previous", "gone"}]
  BY DEF Inv, TreeInv, Unique
<1> QED BY <1>2, <1>3 DEF Inv, TreeInv

\* A tree made where there was no workspace.
LEMMA TreeMade ==
    ASSUME Inv, MakeWorkspace, UNCHANGED <<kept, began>>,
           \A r \in Restores : pc[r] \notin Entered \/ pc'[r] = "done",
           \A r \in Restores : \/ pc'[r] = pc[r] /\ reply'[r] = reply[r]
                               \/ pc'[r] = "done" /\ reply'[r] = "lost"
    PROVE  TreeInv'
<1>1. /\ place' \in [Trees -> Places] /\ Unique'
      /\ place'[Original] \in {"active", "previous"}
      /\ place'[Fresh] \in {"none", "active", "previous"}
      /\ \A r \in Restores : place'[r] = place[r]
  <2>1. CASE UNCHANGED place
    BY <2>1 DEF Inv, TreeInv, Unique, Places
  <2>2. CASE Workspace(NoTree) /\ place' = [place EXCEPT ![Fresh] = "active"]
    BY <2>2, OneTreeMoves, TreeNames DEF Inv, Places, TreeInv
  <2> QED BY <2>1, <2>2, WorkspaceMade DEF Inv
<1>2. ASSUME NEW r \in Restores
      PROVE  RestoreInv(r)'
  <2>1. RestoreInv(r) /\ pc[r] \in RestorePc
    BY DEF Inv, TreeInv, PcInv
  <2>2. CASE pc'[r] = "done" /\ reply'[r] = "lost"
    BY <2>2 DEF RestoreInv, Settled
  <2>3. CASE pc'[r] = pc[r] /\ reply'[r] = reply[r]
    <3>1. pc[r] \in {"idle", "queued", "nested", "done"}
      BY <2>1, <2>3 DEF RestorePc, Entered
    <3> QED BY <3>1, <2>1, <2>3, <1>1 DEF RestoreInv, Settled
  <2> QED BY <2>2, <2>3
<1> QED BY <1>1, <1>2 DEF Inv, TreeInv, Places

LEMMA TreePreserved ==
    ASSUME Inv, Steps
    PROVE  TreeInv'
<1>1. CASE TabStep
  BY <1>1, TabFrame, TreesUntouched DEF core, historyVars
<1>2. ASSUME NEW j \in Savers, (\E t \in Tabs : SendSave(j, t)) \/ ReceiveSave(j) \/ StartSave(j)
      PROVE  TreeInv'
  <2>1. UNCHANGED <<place, kept, began>>
    BY <1>2 DEF SendSave, ReceiveSave, StartSave, historyVars
  <2>2. \A r \in Restores : pc'[r] = pc[r] /\ reply'[r] = reply[r]
    BY <1>2, JobKinds DEF SendSave, ReceiveSave, StartSave, Answer, Inv, RestInv
  <2> QED BY <2>1, <2>2, TreesUntouched
<1>3. ASSUME NEW j \in Savers, FinishSave(j)
      PROVE  TreeInv'
  <2>1. MakeWorkspace /\ UNCHANGED <<kept, began>> /\ pc[j] = "running"
    BY <1>3 DEF FinishSave
  <2>2. \A r \in Restores : pc'[r] = pc[r] /\ reply'[r] = reply[r]
    BY <1>3, JobKinds DEF FinishSave, Answer, Inv, RestInv
  <2>3. \A r \in Restores : pc[r] \notin Entered
    BY <2>1 DEF Inv, GateInv
  <2> QED BY <2>1, <2>2, <2>3, TreeMade
<1>4. ASSUME NEW j \in Backups, RequestBackup(j) \/ StartBackup(j) \/ ReadBackup(j) \/ FinishBackup(j)
      PROVE  TreeInv'
  <2>1. \A r \in Restores : pc'[r] = pc[r] /\ reply'[r] = reply[r]
    BY <1>4, JobKinds
       DEF RequestBackup, StartBackup, ReadBackup, FinishBackup, Answer, Inv, RestInv
  <2>2. CASE UNCHANGED <<place, kept, began>>
    BY <2>1, <2>2, TreesUntouched
  <2>3. CASE FinishBackup(j)
    <3>1. MakeWorkspace /\ UNCHANGED <<kept, began>> /\ pc[j] = "reading"
      BY <2>3 DEF FinishBackup, historyVars
    <3>2. \A r \in Restores : pc[r] \notin Entered
      BY <3>1 DEF Inv, GateInv
    <3> QED BY <2>1, <3>1, <3>2, TreeMade
  <2> QED BY <1>4, <2>2, <2>3 DEF RequestBackup, StartBackup, ReadBackup, historyVars
<1>5. ASSUME NEW r \in Restores, BeginRestore(r) \/ EnterRestore(r) \/ Unwind(r)
      PROVE  TreeInv'
  <2>1. UNCHANGED <<place, kept, began>>
    BY <1>5 DEF BeginRestore, EnterRestore, Unwind
  <2>2. \A s \in Restores : s # r => pc'[s] = pc[s] /\ reply'[s] = reply[s]
    BY <1>5, JobKinds DEF BeginRestore, EnterRestore, Unwind, Answer, Goto, Inv, RestInv
  <2>3. \/ pc[r] = "idle" /\ pc'[r] = "done" /\ reply'[r] = "conflict"
        \/ /\ reply'[r] = reply[r]
           /\ \/ pc[r] = "idle" /\ pc'[r] = "queued"
              \/ pc[r] = "queued" /\ pc'[r] = "nested"
              \/ /\ pc[r] \in {"unwind", "unwound", "ending"}
                 /\ pc'[r] \in {"unwound", "ending", "done"}
    BY <1>5, JobKinds DEF BeginRestore, EnterRestore, Unwind, Answer, Goto, Inv, RestInv
  <2>4. RestoreInv(r)
    BY DEF Inv, TreeInv
  <2>5. Truth(r) /\ reply'[r] = reply[r] => Truth(r)'
    BY <2>1 DEF Truth, Workspace, SafeCopy
  <2>6. RestoreInv(r)'
    BY <2>1, <2>3, <2>4, <2>5 DEF RestoreInv, Truth, RestorePc, Settled, Entered, Moving
  <2> QED BY <2>1, <2>2, <2>6, TreesStay
<1>6. ASSUME NEW r \in Restores, Inside(r)
      PROVE  TreeInv'
  BY <1>6, CheckTabsKeepsTrees, StageBackupKeepsTrees, MoveAsideKeepsTrees, CheckMovedKeepsTrees,
     InstallKeepsTrees, CheckInstalledKeepsTrees, TakeOutKeepsTrees, ReturnPreviousKeepsTrees,
     CleanupKeepsTrees DEF Inside
<1>7. CASE Crash
  <2>1. MakeWorkspace /\ UNCHANGED <<kept, began>>
    BY <1>7 DEF Crash, historyVars
  <2>2. \A r \in Restores : \/ pc'[r] = pc[r] /\ reply'[r] = reply[r]
                            \/ pc'[r] = "done" /\ reply'[r] = "lost"
    BY <1>7, JobKinds DEF Crash
  <2>3. \A r \in Restores : pc[r] \notin Entered \/ pc'[r] = "done"
    BY <1>7, JobKinds DEF Crash, Entered, Moving
  <2> QED BY <2>1, <2>2, <2>3, TreeMade
<1> QED BY <1>1, <1>2, <1>3, <1>4, <1>5, <1>6, <1>7 DEF Steps

-----------------------------------------------------------------------------
(* The saves *)

\* The workspace stays, or a fresh one is made where there was none.
MadeAtMost == ActiveTree' = ActiveTree \/ (ActiveTree = NoTree /\ ActiveTree' = Fresh)

LEMMA MadeOnce ==
    ASSUME Inv, TreeInv', MakeWorkspace
    PROVE  MadeAtMost
<1>1. /\ ActiveTree \in Trees \cup {NoTree} /\ ActiveTree' \in Trees \cup {NoTree}
      /\ \A b \in Trees \cup {NoTree} : Workspace(b) <=> ActiveTree = b
      /\ \A b \in Trees \cup {NoTree} : Workspace(b)' <=> ActiveTree' = b
  BY ActiveTreeIs, ActiveTreeBecomes DEF Inv, TreeInv
<1>2. CASE UNCHANGED place
  BY <1>2 DEF MadeAtMost, ActiveTree
<1>3. CASE Workspace(NoTree) /\ place' = [place EXCEPT ![Fresh] = "active"]
  <2>1. place'[Fresh] = "active" /\ ActiveTree = NoTree
    BY <1>1, <1>3, TreeNames DEF Inv, TreeInv
  <2> QED BY <1>1, <2>1, TreeNames DEF Workspace, MadeAtMost
<1> QED BY <1>2, <1>3, WorkspaceMade DEF Inv

\* A save that another request's step leaves alone: the workspace it was queued
\* on can only give way behind the gate.
LEMMA SaveStays ==
    ASSUME Inv, NEW j \in Savers, pc'[j] = pc[j], capture'[j] = capture[j],
           wrote'[j] = wrote[j], queuedOn'[j] = queuedOn[j],
           \/ UNCHANGED <<generation, restoreActive>> /\ MadeAtMost
           \/ generation' = generation + 1 /\ place' = place
           \/ \E r \in Restores : pc[r] \in Entered /\ generation' = generation
    PROVE  SaveInv(j)'
<1>1. SaveInv(j) /\ capture[j].generation \in Nat /\ generation \in Nat
  BY JobKinds DEF Inv, SavesInv, RestInv, Capture, GateInv
<1>2. CASE UNCHANGED <<generation, restoreActive>> /\ MadeAtMost
  BY <1>1, <1>2, TreeNames DEF SaveInv, Current, MadeAtMost
<1>3. CASE generation' = generation + 1 /\ place' = place
  <2>1. ActiveTree' = ActiveTree
    BY <1>3 DEF ActiveTree
  <2> QED BY <1>1, <1>3, <2>1 DEF SaveInv, Current
<1>4. ASSUME NEW r \in Restores, pc[r] \in Entered, generation' = generation
      PROVE  SaveInv(j)'
  <2>1. restoreActive /\ pc[j] # "running"
    BY <1>4 DEF Inv, GateInv, Busy, Entered, Moving
  <2> QED BY <1>1, <1>4, <2>1 DEF SaveInv
<1> QED BY <1>2, <1>3, <1>4

LEMMA SavesPreserved ==
    ASSUME Inv, Steps, TreeInv'
    PROVE  SavesInv'
<1> DEFINE SameTree == place' = place => ActiveTree' = ActiveTree
<1>0. SameTree
  BY DEF ActiveTree
<1>t. /\ wrote \in [Savers -> Trees \cup {NoTree}] /\ queuedOn \in [Jobs -> Trees \cup {NoTree}]
      /\ pc \in [Jobs -> Labels] /\ capture \in [Jobs -> Capture]
      /\ \A j \in Savers : SaveInv(j)
  BY DEF Inv, SavesInv, RestInv
<1>u. /\ ActiveTree \in Trees \cup {NoTree} /\ ActiveTree' \in Trees \cup {NoTree}
      /\ \A b \in Trees \cup {NoTree} : Workspace(b) <=> ActiveTree = b
      /\ \A b \in Trees \cup {NoTree} : Workspace(b)' <=> ActiveTree' = b
  BY ActiveTreeIs, ActiveTreeBecomes DEF Inv, TreeInv
<1>m. MakeWorkspace => MadeAtMost
  BY MadeOnce
<1> HIDE DEF SameTree
<1>1. CASE TabStep
  BY <1>1, <1>0, <1>t, TabFrame, SaveStays, JobKinds DEF core, historyVars, SavesInv, SameTree, MadeAtMost
<1>2. ASSUME NEW j \in Savers, NEW t \in Tabs, SendSave(j, t)
      PROVE  SavesInv'
  <2>1. /\ pc' = [pc EXCEPT ![j] = "sent"] /\ pc[j] = "idle"
        /\ UNCHANGED <<capture, generation, restoreActive, wrote, queuedOn, place>>
    BY <1>2 DEF SendSave, gateVars, historyVars
  <2>2. SaveInv(j)'
    BY <2>1, <1>t, JobKinds DEF SaveInv
  <2>3. \A k \in Savers : k # j => SaveInv(k)'
    BY <2>1, <1>0, <1>t, JobKinds, SaveStays DEF SameTree, MadeAtMost
  <2> QED BY <2>1, <2>2, <2>3, <1>t DEF SavesInv
<1>3. ASSUME NEW j \in Savers, ReceiveSave(j)
      PROVE  SavesInv'
  <2>1. /\ pc' = [pc EXCEPT ![j] = "queued"] /\ pc[j] = "sent"
        /\ capture' = [capture EXCEPT ![j] = captureWorkspaceAccess]
        /\ queuedOn' = [queuedOn EXCEPT ![j] = ActiveTree]
        /\ UNCHANGED <<generation, restoreActive, wrote, place>>
    BY <1>3 DEF ReceiveSave, Enqueue, gateVars
  <2>2. SaveInv(j)'
    <3>1. wrote[j] = NoTree
      BY <2>1, <1>t DEF SaveInv
    <3>2. /\ capture'[j].generation = generation
          /\ capture'[j].blockedAtCapture = restoreActive
      BY <2>1, <1>t, JobKinds DEF captureWorkspaceAccess
    <3>3. pc'[j] = "queued" /\ queuedOn'[j] = ActiveTree /\ ActiveTree' = ActiveTree
      BY <2>1, <1>0, <1>t, JobKinds DEF SameTree
    <3>4. generation \in Nat
      BY DEF Inv, GateInv
    <3> QED BY <2>1, <3>1, <3>2, <3>3, <3>4 DEF SaveInv, Current
  <2>3. \A k \in Savers : k # j => SaveInv(k)'
    BY <2>1, <1>0, <1>t, JobKinds, SaveStays DEF SameTree, MadeAtMost
  <2> QED BY <2>1, <2>2, <2>3, <1>t, <1>u DEF SavesInv
<1>4. ASSUME NEW j \in Savers, StartSave(j)
      PROVE  SavesInv'
  <2>1. /\ UNCHANGED <<capture, generation, restoreActive, wrote, queuedOn, place>> /\ pc[j] = "queued"
        /\ \/ Allowed(j) /\ pc' = [pc EXCEPT ![j] = "running"]
           \/ pc' = [pc EXCEPT ![j] = "done"]
    BY <1>4 DEF StartSave, Answer, gateVars, historyVars
  <2>2. SaveInv(j)'
    BY <2>1, <1>0, <1>t, JobKinds DEF SaveInv, Allowed, Current, SameTree
  <2>3. \A k \in Savers : k # j => SaveInv(k)'
    BY <2>1, <1>0, <1>t, JobKinds, SaveStays DEF SameTree, MadeAtMost
  <2> QED BY <2>1, <2>2, <2>3, <1>t DEF SavesInv
<1>5. ASSUME NEW j \in Savers, FinishSave(j)
      PROVE  SavesInv'
  <2>1. /\ UNCHANGED <<capture, generation, restoreActive, queuedOn>> /\ pc[j] = "running"
        /\ pc' = [pc EXCEPT ![j] = "done"] /\ MakeWorkspace
        /\ wrote' = [wrote EXCEPT ![j] = ActiveTree']
    BY <1>5 DEF FinishSave, Answer, gateVars
  <2>2. ActiveTree' = queuedOn[j] \/ (queuedOn[j] = NoTree /\ ActiveTree' = Fresh)
    BY <2>1, <1>t, <1>m, TreeNames DEF SaveInv, Current, MadeAtMost
  <2>3. SaveInv(j)'
    BY <2>1, <2>2, <1>t, JobKinds DEF SaveInv
  <2>4. \A k \in Savers : k # j => SaveInv(k)'
    BY <2>1, <1>m, <1>t, JobKinds, SaveStays
  <2>5. wrote' \in [Savers -> Trees \cup {NoTree}]
    BY <2>1, <1>t, <1>u
  <2> QED BY <2>1, <2>3, <2>4, <2>5, <1>t DEF SavesInv
<1>6. ASSUME NEW j \in Backups, RequestBackup(j) \/ StartBackup(j) \/ ReadBackup(j) \/ FinishBackup(j)
      PROVE  SavesInv'
  <2>1. UNCHANGED <<generation, restoreActive, wrote>> /\ MadeAtMost
    BY <1>6, <1>0, <1>m
       DEF RequestBackup, StartBackup, ReadBackup, FinishBackup, gateVars, historyVars, SameTree, MadeAtMost
  <2>2. \A k \in Jobs : k # j => pc'[k] = pc[k] /\ capture'[k] = capture[k] /\ queuedOn'[k] = queuedOn[k]
    BY <1>6, <1>t
       DEF RequestBackup, StartBackup, ReadBackup, FinishBackup, Answer, Enqueue, historyVars
  <2>3. queuedOn' \in [Jobs -> Trees \cup {NoTree}]
    BY <1>6, <1>t, <1>u DEF RequestBackup, StartBackup, ReadBackup, FinishBackup, Enqueue, historyVars
  <2>4. \A k \in Savers : SaveInv(k)'
    BY <2>1, <2>2, JobKinds, SaveStays
  <2> QED BY <2>1, <2>3, <2>4, <1>t DEF SavesInv
<1>7. ASSUME NEW r \in Restores, BeginRestore(r)
      PROVE  SavesInv'
  <2>1. wrote' = wrote /\ place' = place
    BY <1>7 DEF BeginRestore, Others
  <2>2. \/ UNCHANGED <<generation, restoreActive>>
        \/ generation' = generation + 1
    BY <1>7 DEF BeginRestore, gateVars
  <2>3. \A k \in Jobs : k # r => pc'[k] = pc[k] /\ capture'[k] = capture[k] /\ queuedOn'[k] = queuedOn[k]
    BY <1>7, <1>t DEF BeginRestore, Answer, Goto, Enqueue
  <2>4. queuedOn' \in [Jobs -> Trees \cup {NoTree}]
    BY <1>7, <1>t, <1>u DEF BeginRestore, Enqueue
  <2>5. \A k \in Savers : SaveInv(k)'
    BY <2>1, <2>2, <2>3, <1>0, JobKinds, SaveStays DEF SameTree, MadeAtMost
  <2> QED BY <2>1, <2>4, <2>5, <1>t DEF SavesInv
<1>8. ASSUME NEW r \in Restores, EnterRestore(r) \/ Inside(r) \/ Unwind(r)
      PROVE  SavesInv'
  <2>1. UNCHANGED <<wrote, queuedOn, capture, generation>>
    BY <1>8, InsideAdvances DEF EnterRestore, Unwind, Advance, Others, gateVars
  <2>2. \A k \in Jobs : k # r => pc'[k] = pc[k]
    BY <1>8, <1>t, InsideAdvances DEF EnterRestore, Unwind, Advance, Goto
  <2>3. \/ EnterRestore(r) /\ UNCHANGED <<place, restoreActive>>
        \/ CheckTabs(r) /\ UNCHANGED <<place, restoreActive>>
        \/ pc[r] \in Entered
    <3>1. CASE EnterRestore(r)
      BY <3>1 DEF EnterRestore, gateVars
    <3>2. CASE Unwind(r)
      BY <3>2 DEF Unwind, Entered
    <3>3. CASE CheckTabs(r)
      BY <3>3 DEF CheckTabs, HoldingLocks, gateVars
    <3>4. CASE Inside(r) /\ ~CheckTabs(r)
      BY <3>4 DEF Inside, StageBackup, MoveAside, CheckMoved, Install, CheckInstalled, TakeOut,
         ReturnPrevious, Cleanup, Entered, Moving
    <3> QED BY <1>8, <3>1, <3>2, <3>3, <3>4
  <2>4. \A k \in Savers : SaveInv(k)'
    BY <2>1, <2>2, <2>3, <1>0, JobKinds, SaveStays DEF SameTree, MadeAtMost
  <2> QED BY <2>1, <2>4, <1>t DEF SavesInv
<1>9. CASE Crash
  <2>1. UNCHANGED <<wrote, queuedOn>> /\ \A j \in Jobs : (pc'[j] = "idle" /\ pc[j] = "idle") \/ pc'[j] = "done"
    BY <1>9 DEF Crash, historyVars
  <2>2. \A j \in Savers : SaveInv(j)'
    BY <2>1, <1>t, JobKinds DEF SaveInv
  <2> QED BY <2>1, <2>2, <1>t DEF SavesInv
<1> QED BY <1>1, <1>2, <1>3, <1>4, <1>5, <1>6, <1>7, <1>8, <1>9 DEF Steps

-----------------------------------------------------------------------------
(* The theorems *)

LEMMA StepInv == Inv /\ [Next]_vars => Inv'
<1>1. ASSUME Inv, Next
      PROVE  Inv'
  <2>1. Steps
    BY <1>1, NextIsSteps
  <2>2. TreeInv'
    BY <1>1, <2>1, TreePreserved
  <2> QED BY <1>1, <2>1, <2>2, RestPreserved, PcPreserved, AnswerPreserved, LockPreserved, GatePreserved,
             SavesPreserved DEF Inv
<1>2. ASSUME Inv, UNCHANGED vars
      PROVE  Inv'
  <2>1. UNCHANGED core /\ UNCHANGED <<presenceAttempted, tabVars, loaded, boundVars>>
    BY <1>2 DEF vars, core, gateVars, jobVars
  <2>2. RestInv'
    BY <1>2, <2>1 DEF Inv, RestInv, core, tabVars, boundVars
  <2>3. PcInv' /\ AnswerInv' /\ LockInv'
    BY <1>2, <2>1 DEF Inv, PcInv, AnswerInv, LockInv, Started, HoldsWorkspace, HoldsTracker, TakesWorkspaceLock,
       core, queueVars
  <2>4. GateInv'
    BY <1>2, <2>1 DEF Inv, GateInv, Busy, core
  <2>5. TreeInv'
    BY <1>2, <2>1, TreesUntouched DEF core, historyVars
  <2>6. ActiveTree' = ActiveTree
    BY <2>1 DEF ActiveTree, core
  <2>7. SavesInv'
    BY <1>2, <2>1, <2>6 DEF Inv, SavesInv, SaveInv, Current, core, historyVars
  <2> QED BY <2>2, <2>3, <2>4, <2>5, <2>7 DEF Inv
<1> QED BY <1>1, <1>2

\* Every variable stays in the range of what the code stores in it.
THEOREM TypeCorrect == Spec => []TypeOK
<1>1. Inv => TypeOK
  BY DEF Inv, RestInv, LockInv, GateInv, TreeInv, SavesInv, TypeOK
<1> QED BY <1>1, InitInv, StepInv, PTL DEF Spec

\* While a restore moves directories the gate stays closed, whatever other
\* restores are asked for and refused.
THEOREM GateStaysClosed == Spec => []GateClosedDuringRestore
<1>1. Inv => GateClosedDuringRestore
  BY DEF Inv, GateInv, Busy, GateClosedDuringRestore
<1> QED BY <1>1, InitInv, StepInv, PTL DEF Spec

\* A backup or a restore is alone with the files, for any number of requests in
\* either queue.
THEOREM AloneWithTheFiles == Spec => []WholeWorkspaceAlone
<1>1. Inv => WholeWorkspaceAlone
  <2> SUFFICES ASSUME Inv, NEW j \in Touching \ Savers, NEW k \in Touching, k # j
               PROVE  FALSE
    BY DEF WholeWorkspaceAlone
  <2>1. j \in Jobs /\ k \in Jobs /\ TakesWorkspaceLock(j) /\ pc[j] \in InTracker /\ pc[j] \in InWorkspace
    BY JobKinds DEF Touching, TakesWorkspaceLock, InTracker, InWorkspace, Moving, Inv, PcInv,
       Jobs, BackupPc, RestorePc, Entered
  <2>2. pc[k] \in InTracker \/ pc[k] = "running"
    BY DEF Touching, InTracker, Moving
  <2>3. HoldsTracker(j)
    BY <2>1 DEF Inv, LockInv, Started
  <2> QED BY <2>1, <2>2, <2>3, HoldersAreAlone DEF Inv, InWorkspace
<1> QED BY <1>1, InitInv, StepInv, PTL DEF Spec

\* A save that was queued before or during a restore never lands in the restored
\* workspace.
THEOREM StaleSavesAreRefused == Spec => []StaleSaveRefused
<1>1. Inv => StaleSaveRefused
  BY DEF Inv, SavesInv, SaveInv, StaleSaveRefused
<1> QED BY <1>1, InitInv, StepInv, PTL DEF Spec

\* No directory that was the workspace is deleted, through any failures, crashes
\* and repeated restores.
THEOREM NothingIsDeleted == Spec => []WorkspaceNeverDeleted
<1>1. Inv => WorkspaceNeverDeleted
  BY DEF Inv, TreeInv, RestoreInv, Unique, WorkspaceNeverDeleted
<1> QED BY <1>1, InitInv, StepInv, PTL DEF Spec

\* What a restore answers about the workspace is so at that moment.
AnswersTrue ==
    \A r \in Restores : pc[r] # "done" /\ pc'[r] = "done" =>
        /\ reply'[r] = "restored" => ActiveTree' = r
        /\ reply'[r] \in {"tabs", "invalid", "kept"} => ActiveTree' = began[r]
        /\ reply'[r] = "stranded" /\ began[r] # NoTree => place'[began[r]] = "previous"

LEMMA StepsAnswerTruly ==
    ASSUME Inv, Steps
    PROVE  AnswersTrue
<1> SUFFICES ASSUME NEW r \in Restores, pc[r] # "done", pc'[r] = "done"
             PROVE  /\ reply'[r] = "restored" => ActiveTree' = r
                    /\ reply'[r] \in {"tabs", "invalid", "kept"} => ActiveTree' = began[r]
                    /\ reply'[r] = "stranded" /\ began[r] # NoTree => place'[began[r]] = "previous"
  BY DEF AnswersTrue
<1>t. pc \in [Jobs -> Labels] /\ DOMAIN reply = Jobs
  BY DEF Inv, RestInv
<1>1. CASE Unwind(r)
  <2>1. pc[r] = "ending" /\ reply' = reply /\ place' = place
    BY <1>1, <1>t, JobKinds DEF Unwind
  <2>2. ActiveTree' = ActiveTree
    BY <2>1 DEF ActiveTree
  <2>3. Truth(r)
    BY <2>1 DEF Inv, TreeInv, RestoreInv, Settled
  <2>4. reply[r] = "restored" => Workspace(r)
    BY <2>3, TreeNames DEF Truth, Workspace
  <2> QED BY <2>1, <2>2, <2>3, <2>4, KnownTrees DEF Truth, SafeCopy
<1>2. CASE BeginRestore(r)
  <2>1. reply'[r] = "conflict"
    BY <1>2, <1>t, JobKinds DEF BeginRestore, Answer, Goto
  <2> QED BY <2>1
<1>3. CASE Crash
  <2>1. reply'[r] = "lost"
    BY <1>3, <1>t, JobKinds DEF Crash
  <2> QED BY <2>1
<1>4. CASE ~Unwind(r) /\ ~BeginRestore(r) /\ ~Crash
  <2>1. CASE TabStep
    BY <2>1, TabFrame DEF core
  <2>2. ASSUME NEW j \in Savers, \/ \E t \in Tabs : SendSave(j, t)
                                 \/ ReceiveSave(j) \/ StartSave(j) \/ FinishSave(j)
        PROVE  pc'[r] = pc[r]
    BY <2>2, <1>t, JobKinds DEF SendSave, ReceiveSave, StartSave, FinishSave, Answer
  <2>3. ASSUME NEW j \in Backups, RequestBackup(j) \/ StartBackup(j) \/ ReadBackup(j) \/ FinishBackup(j)
        PROVE  pc'[r] = pc[r]
    BY <2>3, <1>t, JobKinds DEF RequestBackup, StartBackup, ReadBackup, FinishBackup, Answer
  <2>4. ASSUME NEW s \in Restores, s # r, BeginRestore(s) \/ EnterRestore(s) \/ Inside(s) \/ Unwind(s)
        PROVE  pc'[r] = pc[r]
    BY <2>4, <1>t, InsideAdvances, JobKinds
       DEF BeginRestore, EnterRestore, Unwind, Advance, Answer, Goto
  <2>5. ASSUME EnterRestore(r) \/ Inside(r)
        PROVE  FALSE
    BY <2>5, <1>t, InsideAdvances, JobKinds DEF EnterRestore, Advance, Goto, Moving
  <2> QED BY <1>4, <2>1, <2>2, <2>3, <2>4, <2>5 DEF Steps
<1> QED BY <1>1, <1>2, <1>3, <1>4

\* Each answer of a restore about the workspace is true when it is given, for any
\* number of restores, faults and tabs.
THEOREM AnswersAreTrue == Spec => RestoreAnswersAreTrue
<1>1. Inv /\ [Next]_vars =>
        [\A r \in Restores : pc[r] # "done" /\ pc'[r] = "done" =>
            /\ reply'[r] = "restored" => ActiveTree' = r
            /\ reply'[r] \in {"tabs", "invalid", "kept"} => ActiveTree' = began[r]
            /\ reply'[r] = "stranded" /\ began[r] # NoTree =>
                  place'[began[r]] = "previous"]_vars
  BY NextIsSteps, StepsAnswerTruly DEF AnswersTrue
<1> QED BY <1>1, InitInv, StepInv, PTL DEF Spec, RestoreAnswersAreTrue

-----------------------------------------------------------------------------
(* The refinement of AtomicWorkspace: what its clients see of each step.       *)

Clients == Savers \cup Restores
StateOf(j) == IF j \in Savers THEN SaveState(j) ELSE RestoreState(j)
BaseOf(j) == IF j \in Restores THEN began[j]
             ELSE IF capture[j].blockedAtCapture THEN NoTree ELSE queuedOn[j]

LEMMA MappedState ==
    /\ Atomic!Requests = Clients
    /\ \A j \in Clients : (j \in Savers => StateOf(j) = SaveState(j) /\ j \notin Restores)
                       /\ (j \in Restores => StateOf(j) = RestoreState(j) /\ j \notin Savers)
BY JobKinds DEF Clients, StateOf, Atomic!Requests

\* While a restore may still go back, the workspace is the one it found.
VisibleIn(p, b, a) == IF \E r \in Restores : p[r] \in Swapping
                      THEN b[CHOOSE r \in Restores : p[r] \in Swapping] ELSE a

LEMMA VisibleFrom ==
    ASSUME NEW p, NEW b, NEW a,
           \A r, s \in Restores : p[r] \in Swapping /\ p[s] \in Swapping => r = s
    PROVE  /\ \A r \in Restores : p[r] \in Swapping => VisibleIn(p, b, a) = b[r]
           /\ (\A r \in Restores : p[r] \notin Swapping) => VisibleIn(p, b, a) = a
<1>1. ASSUME NEW r \in Restores, p[r] \in Swapping
      PROVE  VisibleIn(p, b, a) = b[r]
  <2> DEFINE s == CHOOSE q \in Restores : p[q] \in Swapping
  <2>1. s \in Restores /\ p[s] \in Swapping
    BY <1>1
  <2>2. VisibleIn(p, b, a) = b[s]
    BY <1>1 DEF VisibleIn
  <2> HIDE DEF s
  <2> QED BY <1>1, <2>1, <2>2
<1>2. (\A r \in Restores : p[r] \notin Swapping) => VisibleIn(p, b, a) = a
  BY DEF VisibleIn
<1> QED BY <1>1, <1>2

LEMMA VisibleIs ==
    ASSUME GateInv
    PROVE  /\ \A r \in Restores : pc[r] \in Swapping => Visible = began[r]
           /\ (\A r \in Restores : pc[r] \notin Swapping) => Visible = ActiveTree
<1> DEFINE p == pc b == began a == ActiveTree
<1>1. \A r, s \in Restores : p[r] \in Swapping /\ p[s] \in Swapping => r = s
  BY DEF GateInv, Busy, Swapping
<1>2. Visible = VisibleIn(p, b, a)
  BY DEF Visible, VisibleIn
<1> HIDE DEF p, b, a
<1>3. /\ \A r \in Restores : p[r] \in Swapping => VisibleIn(p, b, a) = b[r]
      /\ (\A r \in Restores : p[r] \notin Swapping) => VisibleIn(p, b, a) = a
  BY <1>1, VisibleFrom
<1> QED BY <1>2, <1>3 DEF p, b, a

\* The same after a step.
LEMMA VisibleBecomes ==
    ASSUME GateInv'
    PROVE  /\ \A r \in Restores : pc'[r] \in Swapping => Visible' = began'[r]
           /\ (\A r \in Restores : pc'[r] \notin Swapping) => Visible' = ActiveTree'
<1> DEFINE p == pc' b == began' a == ActiveTree'
<1>1. \A r, s \in Restores : p[r] \in Swapping /\ p[s] \in Swapping => r = s
  BY DEF GateInv, Busy, Swapping
<1>2. Visible' = VisibleIn(p, b, a)
  BY DEF Visible, VisibleIn
<1> HIDE DEF p, b, a
<1>3. /\ \A r \in Restores : p[r] \in Swapping => VisibleIn(p, b, a) = b[r]
      /\ (\A r \in Restores : p[r] \notin Swapping) => VisibleIn(p, b, a) = a
  BY <1>1, VisibleFrom
<1> QED BY <1>2, <1>3 DEF p, b, a

\* An answer is none of the states on the way to it.
LEMMA ToldApart ==
    ASSUME Inv, NEW j \in Clients
    PROVE  Told(j) \notin {"begun", "swapped", "stranding", "asked", "overtaken", "late"}
<1>1. j \in Jobs
  BY JobKinds DEF Clients
<1>2. reply[j] \in {"none", "ok", "conflict", "tabs", "invalid", "kept", "stranded", "restored", "lost"}
  BY <1>1 DEF Inv, RestInv
<1> QED BY <1>2 DEF Told

\* The gate is closed exactly while some restore has been asked and not answered.
LEMMA ClosedIs ==
    ASSUME Inv
    PROVE  Atomic!Closed <=> restoreActive
<1>1. \A r \in Restores : StateOf(r) \in {"begun", "swapped", "stranding", "asked"} <=> Busy(r)
  <2> TAKE r \in Restores
  <2>1. StateOf(r) = RestoreState(r)
    BY MappedState DEF Clients
  <2>2. Told(r) \notin {"begun", "swapped", "stranding", "asked"}
    BY ToldApart DEF Clients
  <2> QED BY <2>1, <2>2 DEF RestoreState, Busy
<1>2. Atomic!Closed <=> \E r \in Restores : StateOf(r) \in {"begun", "swapped", "stranding", "asked"}
  BY DEF Atomic!Closed, Atomic!Working, StateOf
<1> QED BY <1>1, <1>2 DEF Inv, GateInv

LEMMA AloneIs ==
    ASSUME Inv, \A r \in Restores : pc[r] \notin Entered
    PROVE  Atomic!Alone
<1>1. \A r \in Restores : StateOf(r) \notin {"begun", "swapped", "stranding"}
  <2> TAKE r \in Restores
  <2>1. StateOf(r) = RestoreState(r)
    BY MappedState DEF Clients
  <2>2. Told(r) \notin {"begun", "swapped", "stranding", "asked"}
    BY ToldApart DEF Clients
  <2>3. pc[r] \in {"idle", "queued", "nested", "done"}
    BY DEF Inv, PcInv, RestorePc
  <2> QED BY <2>1, <2>2, <2>3 DEF RestoreState
<1> QED BY <1>1 DEF Atomic!Alone, Atomic!Working, StateOf

\* A step that no client sees.
LEMMA Unseen ==
    ASSUME \A j \in Clients : StateOf(j)' = StateOf(j) /\ BaseOf(j)' = BaseOf(j),
           Visible' = Visible, \A t \in Tabs : loaded'[t] = loaded[t]
    PROVE  UNCHANGED Atomic!vars
BY DEF Atomic!vars, Clients, StateOf, BaseOf

\* A step that moves one request on.
LEMMA OneMoves ==
    ASSUME NEW j \in Clients, NEW from, NEW to, StateOf(j) = from, StateOf(j)' = to,
           \A i \in Clients : i # j => StateOf(i)' = StateOf(i)
    PROVE  Atomic!Moves(j, from, to)
BY DEF Atomic!Moves, Clients, StateOf

\* What a client sees of requests a step leaves alone.
LEMMA StatesStay ==
    ASSUME NEW j, generation' = generation,
           \A i \in Clients \ {j} : pc'[i] = pc[i] /\ reply'[i] = reply[i] /\ capture'[i] = capture[i]
    PROVE  \A i \in Clients : i # j => StateOf(i)' = StateOf(i)
BY DEF StateOf, SaveState, RestoreState, Told

LEMMA BasesStay ==
    ASSUME NEW j,
           \A i \in Clients \ {j} : \/ i \in Restores /\ began'[i] = began[i]
                                    \/ i \in Savers /\ capture'[i] = capture[i] /\ queuedOn'[i] = queuedOn[i]
    PROVE  \A i \in Clients : i # j => BaseOf(i)' = BaseOf(i)
BY JobKinds DEF BaseOf

LEMMA VisibleStays ==
    ASSUME UNCHANGED <<began, place>>, \A r \in Restores : pc'[r] \in Swapping <=> pc[r] \in Swapping,
           GateInv, GateInv'
    PROVE  Visible' = Visible
<1>1. ActiveTree' = ActiveTree
  BY DEF ActiveTree
<1> QED BY <1>1, VisibleIs, VisibleBecomes

-----------------------------------------------------------------------------
(* Each step of the server is a step of the atomic workspace, or none          *)

AtomicStep == Atomic!Next \/ UNCHANGED Atomic!vars

LEMMA TabIsAtomic ==
    ASSUME Inv, GateInv', TabStep
    PROVE  AtomicStep
<1>1. UNCHANGED core
  BY TabFrame
<1>2. \A j \in Clients : StateOf(j)' = StateOf(j) /\ BaseOf(j)' = BaseOf(j)
  BY <1>1 DEF core, historyVars, StateOf, SaveState, RestoreState, Told, BaseOf
<1>3. Visible' = Visible
  BY <1>1, VisibleStays DEF core, historyVars, Inv
<1>4. ASSUME NEW t \in Tabs, LoadTab(t)
      PROVE  Atomic!Load(t)
  <2>1. ~restoreActive /\ ActiveTree # NoTree /\ loaded' = [loaded EXCEPT ![t] = ActiveTree]
    BY <1>4 DEF LoadTab
  <2>2. ~Atomic!Closed
    BY <2>1, ClosedIs
  <2>3. Visible = ActiveTree
    BY <2>1, VisibleIs DEF Inv, GateInv, Busy, Swapping
  <2>4. \A u \in Tabs : loaded'[u] = IF u = t THEN ActiveTree ELSE loaded[u]
    BY <2>1 DEF Inv, RestInv
  <2> QED BY <1>2, <1>3, <2>1, <2>2, <2>3, <2>4 DEF Atomic!Load, Clients, StateOf, BaseOf
<1>5. ASSUME ~\E t \in Tabs : LoadTab(t)
      PROVE  loaded' = loaded
  BY <1>5 DEF TabStep, OpenTab, Beat, CloseTab, FreezeTab, WakeTab, ExpireTab, BeaconArrives,
     BeaconApplied
<1> QED BY <1>2, <1>3, <1>4, <1>5, Unseen DEF AtomicStep, Atomic!Next

\* A backup is seen only when it makes a workspace where there was none.
LEMMA BackupIsAtomic ==
    ASSUME Inv, Inv', NEW j \in Backups,
           RequestBackup(j) \/ StartBackup(j) \/ ReadBackup(j) \/ FinishBackup(j)
    PROVE  AtomicStep
<1>t. pc \in [Jobs -> Labels] /\ capture \in [Jobs -> Capture] /\ DOMAIN reply = Jobs
      /\ queuedOn \in [Jobs -> Trees \cup {NoTree}]
  BY DEF Inv, RestInv, SavesInv
<1>1. UNCHANGED <<generation, began, loaded>>
  BY DEF RequestBackup, StartBackup, ReadBackup, FinishBackup, gateVars, historyVars
<1>2. \A i \in Jobs : i # j => /\ pc'[i] = pc[i] /\ capture'[i] = capture[i]
                              /\ reply'[i] = reply[i] /\ queuedOn'[i] = queuedOn[i]
  BY <1>t DEF RequestBackup, StartBackup, ReadBackup, FinishBackup, Answer, Enqueue, historyVars
<1>3. \A i \in Clients : i # j /\ i \in Jobs
  BY JobKinds DEF Clients
<1>4. \A i \in Clients : StateOf(i)' = StateOf(i)
  BY <1>1, <1>2, <1>3, StatesStay
<1>5. \A i \in Clients : BaseOf(i)' = BaseOf(i)
  BY <1>1, <1>2, <1>3, BasesStay DEF Clients
<1>6. CASE UNCHANGED place
  <2>1. Visible' = Visible
    BY <1>1, <1>2, <1>3, <1>6, VisibleStays DEF Clients, Inv
  <2> QED BY <1>1, <1>4, <1>5, <2>1, Unseen DEF AtomicStep
<1>7. CASE FinishBackup(j)
  <2>1. pc[j] = "reading" /\ MakeWorkspace /\ \A r \in Restores : pc'[r] = pc[r]
    BY <1>2, <1>7, JobKinds DEF FinishBackup
  <2>2. \A r \in Restores : pc[r] \notin Entered
    BY <2>1 DEF Inv, GateInv
  <2>3. Visible = ActiveTree /\ Visible' = ActiveTree'
    BY <2>1, <2>2, VisibleIs, VisibleBecomes DEF Inv, Entered, Moving, Swapping
  <2>4. CASE Visible' = Visible
    BY <1>1, <1>4, <1>5, <2>4, Unseen DEF AtomicStep
  <2>5. CASE Visible = NoTree /\ Visible' = Fresh
    <3>1. Atomic!Alone
      BY <2>2, AloneIs
    <3>2. Atomic!Make
      BY <1>1, <1>4, <1>5, <2>5, <3>1 DEF Atomic!Make, Clients, StateOf, BaseOf
    <3> QED BY <3>2 DEF AtomicStep, Atomic!Next
  <2> QED BY <2>1, <2>3, <2>4, <2>5, MadeOnce DEF Inv, MadeAtMost
<1> QED BY <1>6, <1>7 DEF RequestBackup, StartBackup, ReadBackup

\* What the steps of a save have in common.
LEMMA SaverFrame ==
    ASSUME Inv, NEW j \in Savers, \/ \E t \in Tabs : SendSave(j, t)
                                  \/ ReceiveSave(j) \/ StartSave(j) \/ FinishSave(j)
    PROVE  /\ generation' = generation /\ began' = began
           /\ \A t \in Tabs : loaded'[t] = loaded[t]
           /\ \A r \in Restores : pc'[r] = pc[r]
           /\ \A i \in Clients : i # j => StateOf(i)' = StateOf(i)
           /\ \A i \in Clients : i # j => BaseOf(i)' = BaseOf(i)
           /\ j \in Clients /\ StateOf(j) = SaveState(j) /\ StateOf(j)' = SaveState(j)'
           /\ BaseOf(j) = IF capture[j].blockedAtCapture THEN NoTree ELSE queuedOn[j]
           /\ BaseOf(j)' = IF capture'[j].blockedAtCapture THEN NoTree ELSE queuedOn'[j]
<1>t. pc \in [Jobs -> Labels] /\ capture \in [Jobs -> Capture] /\ DOMAIN reply = Jobs
      /\ queuedOn \in [Jobs -> Trees \cup {NoTree}]
      /\ loaded \in [Tabs \cup Savers -> Trees \cup {NoTree}]
  BY DEF Inv, RestInv, SavesInv
<1>1. generation' = generation /\ began' = began
  BY DEF SendSave, ReceiveSave, StartSave, FinishSave, gateVars, historyVars
<1>2. \A i \in Jobs : i # j => /\ pc'[i] = pc[i] /\ capture'[i] = capture[i]
                              /\ reply'[i] = reply[i] /\ queuedOn'[i] = queuedOn[i]
  BY <1>t DEF SendSave, ReceiveSave, StartSave, FinishSave, Answer, Enqueue, historyVars
<1>3. \A i \in Clients : i \in Jobs
  BY JobKinds DEF Clients
<1>4. \A i \in Clients : i # j => StateOf(i)' = StateOf(i)
  BY <1>1, <1>2, <1>3, StatesStay
<1>5. \A i \in Clients : i # j => BaseOf(i)' = BaseOf(i)
  BY <1>1, <1>2, <1>3, BasesStay DEF Clients
<1>6. \A r \in Restores : r # j /\ r \in Jobs
  BY JobKinds
<1>7. \A t \in Tabs : loaded'[t] = loaded[t]
  BY <1>t, RestoreAssumption DEF SendSave, ReceiveSave, StartSave, FinishSave
<1>8. j \in Clients /\ j \notin Restores
  BY JobKinds DEF Clients
<1> QED BY <1>1, <1>2, <1>4, <1>5, <1>6, <1>7, <1>8 DEF StateOf, BaseOf

\* A step that changes what one request was asked for.
LEMMA OneBase ==
    ASSUME NEW j \in Clients, NEW b, BaseOf(j)' = b,
           \A i \in Clients : i # j => BaseOf(i)' = BaseOf(i)
    PROVE  [i \in Clients |-> BaseOf(i)]' = [[i \in Clients |-> BaseOf(i)] EXCEPT ![j] = b]
OBVIOUS

LEMMA SaverIsAtomic ==
    ASSUME Inv, TreeInv', GateInv',
           NEW j \in Savers, \/ \E t \in Tabs : SendSave(j, t)
                             \/ ReceiveSave(j) \/ StartSave(j) \/ FinishSave(j)
    PROVE  AtomicStep
<1> USE SaverFrame
<1>t. /\ pc \in [Jobs -> Labels] /\ capture \in [Jobs -> Capture] /\ DOMAIN reply = Jobs
      /\ queuedOn \in [Jobs -> Trees \cup {NoTree}] /\ j \in Jobs /\ SaveInv(j)
  BY JobKinds DEF Inv, RestInv, SavesInv
<1>s. \A i \in Clients : i # j => StateOf(i)' = StateOf(i)
  OBVIOUS
<1>0. place' = place => Visible' = Visible
  BY VisibleStays DEF Inv
<1>1. ASSUME UNCHANGED place, StateOf(j)' = StateOf(j), BaseOf(j)' = BaseOf(j)
      PROVE  UNCHANGED Atomic!vars
  <2>1. \A i \in Clients : StateOf(i)' = StateOf(i) /\ BaseOf(i)' = BaseOf(i)
    BY <1>1
  <2> QED BY <1>1, <1>0, <2>1, Unseen
<1>2. ASSUME NEW t \in Tabs, SendSave(j, t)
      PROVE  UNCHANGED Atomic!vars
  <2>1. /\ pc[j] = "idle" /\ pc'[j] = "sent"
        /\ UNCHANGED <<capture, place, queuedOn>>
    BY <1>2, <1>t DEF SendSave, historyVars
  <2>2. SaveState(j)' = SaveState(j)
    BY <2>1 DEF SaveState
  <2> QED BY <1>1, <2>1, <2>2
<1>3. CASE ReceiveSave(j)
  <2>1. /\ pc[j] = "sent" /\ pc'[j] = "queued" /\ queuedOn[j] = NoTree
        /\ capture'[j].generation = generation' /\ capture'[j].blockedAtCapture = restoreActive
        /\ queuedOn'[j] = ActiveTree /\ place' = place
    BY <1>3, <1>t DEF ReceiveSave, Enqueue, captureWorkspaceAccess, SaveInv
  <2>2. StateOf(j) = "idle" /\ StateOf(j)' = IF restoreActive THEN "late" ELSE "asked"
    BY <2>1 DEF SaveState
  <2>3. BaseOf(j) = NoTree /\ BaseOf(j)' = IF restoreActive THEN NoTree ELSE ActiveTree
    BY <2>1
  <2>4. CASE restoreActive
    <3>1. Atomic!Moves(j, "idle", "late") /\ Atomic!Closed
      BY <1>s, <2>2, <2>4, OneMoves, ClosedIs
    <3>2. \A i \in Clients : BaseOf(i)' = BaseOf(i)
      BY <2>3, <2>4
    <3> QED BY <1>0, <2>1, <3>1, <3>2 DEF Atomic!AskSave, AtomicStep, Atomic!Next, Clients, BaseOf
  <2>5. CASE ~restoreActive
    <3>1. Atomic!Moves(j, "idle", "asked") /\ ~Atomic!Closed
      BY <1>s, <2>2, <2>5, OneMoves, ClosedIs
    <3>2. Visible = ActiveTree
      BY <2>5, VisibleIs DEF Inv, GateInv, Busy, Swapping
    <3>3. BaseOf(j)' = Visible /\ \A i \in Clients : i # j => BaseOf(i)' = BaseOf(i)
      BY <2>3, <2>5, <3>2
    <3>4. [i \in Clients |-> BaseOf(i)]' = [[i \in Clients |-> BaseOf(i)] EXCEPT ![j] = Visible]
      BY <3>3, OneBase
    <3>5. Visible' = Visible /\ [t \in Tabs |-> loaded[t]]' = [t \in Tabs |-> loaded[t]]
      BY <1>0, <2>1
    <3>6. Atomic!AskSave(j)
      BY <3>1, <3>4, <3>5, Zenon DEF Atomic!AskSave, Clients, BaseOf
    <3> QED BY <3>6 DEF AtomicStep, Atomic!Next
  <2> QED BY <2>4, <2>5
<1>4. CASE StartSave(j)
  <2>1. /\ pc[j] = "queued" /\ UNCHANGED <<capture, place, queuedOn>>
        /\ \/ Allowed(j) /\ pc'[j] = "running"
           \/ ~Allowed(j) /\ pc'[j] = "done" /\ reply'[j] = "conflict"
    BY <1>4, <1>t DEF StartSave, Answer, historyVars
  <2>2. CASE pc'[j] = "running"
    <3>1. SaveState(j)' = SaveState(j)
      BY <2>1, <2>2 DEF SaveState
    <3> QED BY <1>1, <2>1, <3>1 DEF AtomicStep
  <2>3. CASE ~Allowed(j) /\ pc'[j] = "done" /\ reply'[j] = "conflict"
    <3>1. capture[j].blockedAtCapture \/ capture[j].generation # generation
      BY <2>1, <2>3, <1>t DEF Allowed, SaveInv
    <3>2. StateOf(j) \in {"late", "overtaken"} /\ StateOf(j)' = "refused"
      BY <2>1, <2>3, <3>1 DEF SaveState, Told
    <3>3. Atomic!Moves(j, "late", "refused") \/ Atomic!Moves(j, "overtaken", "refused")
      BY <1>s, <3>2, OneMoves
    <3>4. \A i \in Clients : BaseOf(i)' = BaseOf(i)
      BY <2>1
    <3> QED BY <1>0, <2>1, <3>3, <3>4 DEF Atomic!RefuseSave, AtomicStep, Atomic!Next, Clients, BaseOf
  <2> QED BY <2>1, <2>2, <2>3
<1>5. CASE FinishSave(j)
  <2>1. /\ pc[j] = "running" /\ pc'[j] = "done" /\ reply'[j] = "ok" /\ MakeWorkspace
        /\ UNCHANGED <<capture, queuedOn>>
    BY <1>5, <1>t DEF FinishSave, Answer
  <2>2. StateOf(j) \in {"asked", "overtaken"} /\ StateOf(j)' = "saved" /\ BaseOf(j) = queuedOn[j]
    BY <2>1, <1>t DEF SaveState, Told, SaveInv
  <2>3. Atomic!Moves(j, "asked", "saved") \/ Atomic!Moves(j, "overtaken", "saved")
    BY <1>s, <2>2, OneMoves
  <2>4. \A r \in Restores : pc[r] \notin Entered
    BY <2>1 DEF Inv, GateInv
  <2>5. Visible = ActiveTree /\ Visible' = ActiveTree'
    BY <2>4, VisibleIs, VisibleBecomes DEF Inv, Entered, Moving, Swapping
  <2>6. /\ Visible = BaseOf(j) \/ (BaseOf(j) = NoTree /\ Visible = Fresh)
        /\ Visible' = Visible \/ (Visible = NoTree /\ Visible' = Fresh)
    BY <2>1, <2>2, <2>5, <1>t, MadeOnce DEF SaveInv, Current, MadeAtMost
  <2>7. \A i \in Clients : BaseOf(i)' = BaseOf(i)
    BY <2>1
  <2>8. Atomic!Alone
    BY <2>4, AloneIs
  <2>9. Atomic!Save(j)
    BY <2>3, <2>6, <2>7, <2>8 DEF Atomic!Save, Clients, BaseOf
  <2> QED BY <2>9 DEF AtomicStep, Atomic!Next
<1> QED BY <1>2, <1>3, <1>4, <1>5 DEF AtomicStep

\* What the steps of a restore that has been let in have in common.
LEMMA RestoreFrame ==
    ASSUME Inv, NEW r \in Restores, EnterRestore(r) \/ Inside(r) \/ Unwind(r)
    PROVE  /\ generation' = generation /\ loaded' = loaded /\ Busy(r) /\ r \in Jobs
           /\ \A s \in Restores : s # r => pc'[s] = pc[s] /\ pc[s] \in {"idle", "done"}
           /\ \A i \in Clients : i # r => StateOf(i)' = StateOf(i)
           /\ \A i \in Clients : i # r => BaseOf(i)' = BaseOf(i)
           /\ r \in Clients /\ StateOf(r) = RestoreState(r) /\ StateOf(r)' = RestoreState(r)'
           /\ BaseOf(r) = began[r] /\ BaseOf(r)' = began'[r]
<1>t. pc \in [Jobs -> Labels] /\ DOMAIN reply = Jobs /\ DOMAIN began = Restores
  BY DEF Inv, RestInv, TreeInv
<1>1. UNCHANGED <<generation, loaded, capture, queuedOn>>
  BY InsideAdvances DEF EnterRestore, Unwind, Advance, Others, gateVars
<1>2. \A i \in Jobs : i # r => pc'[i] = pc[i] /\ reply'[i] = reply[i]
  BY <1>t, InsideAdvances DEF EnterRestore, Unwind, Advance, Goto
<1>3. \A s \in Restores : s # r => began'[s] = began[s]
  BY <1>t DEF EnterRestore, Inside, Unwind, CheckTabs, StageBackup, MoveAside, CheckMoved, Install,
     CheckInstalled, TakeOut, ReturnPrevious, Cleanup
<1>4. \A i \in Clients : i \in Jobs
  BY JobKinds DEF Clients
<1>5. \A i \in Clients : i # r => StateOf(i)' = StateOf(i)
  BY <1>1, <1>2, <1>4, StatesStay
<1>6. \A i \in Clients : i # r => BaseOf(i)' = BaseOf(i)
  BY <1>1, <1>3, BasesStay DEF Clients
<1>7. Busy(r)
  BY InsideAdvances DEF EnterRestore, Unwind, Advance, Busy, Moving
<1>8. \A s \in Restores : s # r => pc[s] \in {"idle", "done"}
  BY <1>7 DEF Inv, GateInv, Busy
<1>9. r \in Clients /\ r \notin Savers /\ r \in Jobs
  BY JobKinds DEF Clients
<1> QED BY <1>1, <1>2, <1>5, <1>6, <1>7, <1>8, <1>9, JobKinds DEF StateOf, BaseOf

\* The workspace as a restore at work knows it.
LEMMA WorkingOn ==
    ASSUME Inv, NEW r \in Restores, pc[r] \in Swapping \cup {"staging", "aside"}
    PROVE  Visible = began[r] /\ reply[r] = "none"
<1>1. RestoreInv(r) /\ Unique /\ began[r] \in Trees \cup {NoTree}
  BY DEF Inv, TreeInv
<1>2. reply[r] = "none"
  BY <1>1 DEF RestoreInv, RestorePc, Entered, Moving, Settled, Swapping
<1>3. CASE pc[r] \in Swapping
  BY <1>2, <1>3, VisibleIs DEF Inv
<1>4. CASE pc[r] \in {"staging", "aside"}
  <2>1. ActiveTree = began[r]
    BY <1>1, <1>4, ActiveTreeIs DEF RestoreInv
  <2>2. \A s \in Restores : pc[s] \notin Swapping
    BY <1>4 DEF Inv, GateInv, Busy, Swapping
  <2> QED BY <1>2, <2>1, <2>2, VisibleIs DEF Inv
<1> QED BY <1>3, <1>4

\* The same after a step, and once its answer is known.
LEMMA WorkedOn ==
    ASSUME Inv', NEW r \in Restores, Busy(r)'
    PROVE  /\ pc'[r] \in Swapping \cup {"staging", "aside"} => Visible' = began'[r] /\ reply'[r] = "none"
           /\ pc'[r] \in Settled =>
                /\ reply'[r] \in {"tabs", "invalid", "kept", "stranded", "restored"}
                /\ Visible' = ActiveTree'
                /\ reply'[r] = "restored" => Visible' = r
                /\ reply'[r] \in {"tabs", "invalid", "kept"} => Visible' = began'[r]
                /\ reply'[r] = "stranded" => Visible' \in {r, NoTree}
<1>1. /\ RestoreInv(r)' /\ Unique' /\ began'[r] \in Trees \cup {NoTree} /\ GateInv'
      /\ r \in Trees /\ r # NoTree
  BY TreeNames DEF Inv, TreeInv
<1>2. ASSUME pc'[r] \in Swapping
      PROVE  Visible' = began'[r] /\ reply'[r] = "none"
  BY <1>1, <1>2, VisibleBecomes DEF RestoreInv, RestorePc, Entered, Moving, Settled, Swapping
<1>3. ASSUME pc'[r] \notin Swapping
      PROVE  Visible' = ActiveTree'
  <2>1. \A s \in Restores : pc'[s] \notin Swapping
    BY <1>1, <1>3 DEF GateInv, Busy, Swapping
  <2> QED BY <1>1, <2>1, VisibleBecomes
<1>4. ASSUME pc'[r] \in {"staging", "aside"}
      PROVE  Visible' = began'[r] /\ reply'[r] = "none"
  <2>1. ActiveTree' = began'[r] /\ reply'[r] = "none"
    BY <1>1, <1>4, ActiveTreeBecomes DEF RestoreInv, RestorePc, Entered, Moving, Settled
  <2> QED BY <1>3, <1>4, <2>1 DEF Swapping
<1>5. ASSUME pc'[r] \in Settled
      PROVE  /\ reply'[r] \in {"tabs", "invalid", "kept", "stranded", "restored"}
             /\ Visible' = ActiveTree'
             /\ reply'[r] = "restored" => Visible' = r
             /\ reply'[r] \in {"tabs", "invalid", "kept"} => Visible' = began'[r]
             /\ reply'[r] = "stranded" => Visible' \in {r, NoTree}
  <2>1. Truth(r)' /\ Visible' = ActiveTree'
    BY <1>1, <1>3, <1>5 DEF RestoreInv, Settled, Swapping
  <2>2. place'[r] = "active" => ActiveTree' = r
    BY <1>1, ActiveTreeBecomes, TreeNames DEF Workspace
  <2>3. \A b \in Trees \cup {NoTree} : Workspace(b)' <=> ActiveTree' = b
    BY <1>1, ActiveTreeBecomes
  <2> QED BY <1>1, <2>1, <2>2, <2>3 DEF Truth
<1> QED BY <1>2, <1>4, <1>5

\* A step of a restore that changes nothing a client sees, or that answers for it.
LEMMA RestoreStutters ==
    ASSUME Inv, NEW r \in Restores, EnterRestore(r) \/ Inside(r) \/ Unwind(r),
           Visible' = Visible, began'[r] = began[r], StateOf(r)' = StateOf(r)
    PROVE  UNCHANGED Atomic!vars
<1>1. \A i \in Clients : StateOf(i)' = StateOf(i) /\ BaseOf(i)' = BaseOf(i)
  BY RestoreFrame
<1> QED BY <1>1, RestoreFrame, Unseen

LEMMA RestoreMoves ==
    ASSUME Inv, NEW r \in Restores, EnterRestore(r) \/ Inside(r) \/ Unwind(r),
           NEW from, NEW to, StateOf(r) = from, StateOf(r)' = to
    PROVE  /\ Atomic!Moves(r, from, to)
           /\ began'[r] = began[r] => [i \in Clients |-> BaseOf(i)]' = [i \in Clients |-> BaseOf(i)]
           /\ [t \in Tabs |-> loaded[t]]' = [t \in Tabs |-> loaded[t]]
<1>1. Atomic!Moves(r, from, to)
  BY RestoreFrame, OneMoves
<1>2. ASSUME began'[r] = began[r]
      PROVE  [i \in Clients |-> BaseOf(i)]' = [i \in Clients |-> BaseOf(i)]
  <2>1. \A i \in Clients : BaseOf(i)' = BaseOf(i)
    BY <1>2, RestoreFrame
  <2> QED BY <2>1
<1>3. loaded' = loaded
  BY RestoreFrame
<1> QED BY <1>1, <1>2, <1>3

\* What a restore has found stays what it was from its first check on.
LEMMA BeganStays ==
    ASSUME NEW r \in Restores, EnterRestore(r) \/ Inside(r) \/ Unwind(r), ~CheckTabs(r)
    PROVE  began' = began
BY DEF EnterRestore, Inside, Unwind, StageBackup, MoveAside, CheckMoved, Install,
   CheckInstalled, TakeOut, ReturnPrevious, Cleanup

LEMMA BeginRestoreIsAtomic ==
    ASSUME Inv, GateInv', NEW r \in Restores, BeginRestore(r)
    PROVE  AtomicStep
<1>t. /\ pc \in [Jobs -> Labels] /\ capture \in [Jobs -> Capture] /\ DOMAIN reply = Jobs
      /\ queuedOn \in [Jobs -> Trees \cup {NoTree}] /\ r \in Jobs /\ generation \in Nat
      /\ r \in Clients
  BY JobKinds DEF Inv, RestInv, SavesInv, GateInv, Clients
<1>1. /\ pc[r] = "idle" /\ UNCHANGED <<place, began, loaded>>
      /\ \A i \in Jobs : i # r => /\ pc'[i] = pc[i] /\ capture'[i] = capture[i]
                                /\ reply'[i] = reply[i] /\ queuedOn'[i] = queuedOn[i]
  BY <1>t DEF BeginRestore, Answer, Goto, Enqueue, Others
<1>2. StateOf(r) = "idle"
  BY <1>1, MappedState DEF Clients, RestoreState
<1>3. \A i \in Clients : i \in Jobs /\ (i \in Savers => i # r)
  BY JobKinds DEF Clients
<1>4. \A i \in Clients : BaseOf(i)' = BaseOf(i)
  BY <1>1, <1>3 DEF BaseOf, Clients
<1>5. pc'[r] \in {"done", "queued"}
  BY <1>t DEF BeginRestore, Answer, Goto
<1>6. Visible' = Visible
  <2>1. \A s \in Restores : pc'[s] \in Swapping <=> pc[s] \in Swapping
    BY <1>1, <1>5, JobKinds DEF Swapping
  <2> QED BY <1>1, <2>1, VisibleStays DEF Inv
<1>b. [i \in Clients |-> BaseOf(i)]' = [i \in Clients |-> BaseOf(i)]
  BY <1>4
<1>l. [t \in Tabs |-> loaded[t]]' = [t \in Tabs |-> loaded[t]]
  BY <1>1
<1>7. CASE restoreActive
  <2>1. pc'[r] = "done" /\ reply'[r] = "conflict" /\ generation' = generation
    BY <1>7, <1>t DEF BeginRestore, Answer, gateVars
  <2>2. StateOf(r)' = "refused"
    BY <2>1, JobKinds DEF StateOf, RestoreState, Told
  <2>3. \A i \in Clients : i # r => StateOf(i)' = StateOf(i)
    BY <1>1, <1>3, <2>1, StatesStay
  <2>4. Atomic!Moves(r, "idle", "refused") /\ Atomic!Closed
    BY <1>7, <1>t, <1>2, <2>2, <2>3, OneMoves, ClosedIs
  <2>5. Atomic!RefuseRestore(r)
    BY <1>6, <1>b, <1>l, <2>4, Zenon DEF Atomic!RefuseRestore, Clients, BaseOf
  <2> QED BY <2>5 DEF AtomicStep, Atomic!Next
<1>8. CASE ~restoreActive
  <2>1. pc'[r] = "queued" /\ generation' = generation + 1
    BY <1>8, <1>t DEF BeginRestore, Goto
  <2>2. StateOf(r)' = "asked"
    BY <2>1, JobKinds DEF StateOf, RestoreState
  <2>3. ~Atomic!Closed
    BY <1>8, ClosedIs
  <2>4. ASSUME NEW i \in Savers
        PROVE  StateOf(i)' = IF StateOf(i) = "asked" THEN "overtaken" ELSE StateOf(i)
    <3>1. /\ pc'[i] = pc[i] /\ capture'[i] = capture[i] /\ reply'[i] = reply[i]
          /\ capture[i].generation \in Nat /\ i \in Clients
          /\ pc[i] \in {"queued", "running"} => capture[i].generation <= generation
      BY <1>1, <1>3, <1>t DEF Clients, Inv, SavesInv, SaveInv, Capture
    <3>2. pc[i] \in SaverPc /\ StateOf(i) = SaveState(i) /\ StateOf(i)' = SaveState(i)'
      BY DEF Inv, PcInv, StateOf
    <3>3. Told(i) # "asked" /\ Told(i)' = Told(i)
      BY <3>1, ToldApart DEF Told
    <3> QED BY <1>t, <2>1, <3>1, <3>2, <3>3 DEF SaveState, SaverPc
  <2>5. ASSUME NEW s \in Restores, s # r
        PROVE  StateOf(s)' = StateOf(s) /\ StateOf(s) # "asked"
    <3>1. s \in Clients /\ pc'[s] = pc[s] /\ reply'[s] = reply[s]
      BY <1>1, <2>5, JobKinds DEF Clients
    <3>2. pc[s] \in {"idle", "done"}
      BY <1>8 DEF Inv, GateInv, Busy
    <3>3. StateOf(s)' = RestoreState(s)' /\ StateOf(s) = RestoreState(s)
      BY JobKinds DEF StateOf
    <3>4. Told(s) # "asked"
      BY <3>1, ToldApart
    <3> QED BY <3>1, <3>2, <3>3, <3>4 DEF RestoreState, Told
  <2>6. \A i \in Clients : StateOf(i)' = IF i = r THEN "asked"
                                      ELSE IF StateOf(i) = "asked" THEN "overtaken" ELSE StateOf(i)
    BY <1>3, <2>2, <2>4, <2>5 DEF Clients
  <2>7. [i \in Clients |-> StateOf(i)]' =
            [i \in Clients |-> IF i = r THEN "asked"
                               ELSE IF [k \in Clients |-> StateOf(k)][i] = "asked" THEN "overtaken"
                               ELSE [k \in Clients |-> StateOf(k)][i]]
    BY <2>6
  <2>8. [k \in Clients |-> StateOf(k)][r] = "idle"
    BY <1>2, <1>t
  <2>9. Atomic!AskRestore(r)
    BY <1>6, <1>b, <1>l, <2>3, <2>7, <2>8, Zenon
       DEF Atomic!AskRestore, Atomic!Requests, Clients, BaseOf, StateOf
  <2> QED BY <2>9 DEF AtomicStep, Atomic!Next
<1> QED BY <1>7, <1>8

LEMMA EnterRestoreIsUnseen ==
    ASSUME Inv, GateInv', NEW r \in Restores, EnterRestore(r)
    PROVE  UNCHANGED Atomic!vars
<1>1. /\ pc[r] = "queued" /\ pc'[r] = "nested" /\ UNCHANGED <<place, began, reply>>
  BY RestoreFrame DEF EnterRestore, Goto, Inv, RestInv
<1>2. StateOf(r)' = StateOf(r)
  BY <1>1, RestoreFrame DEF RestoreState
<1>3. \A s \in Restores : pc'[s] \in Swapping <=> pc[s] \in Swapping
  BY <1>1, RestoreFrame DEF Swapping
<1>4. Visible' = Visible
  BY <1>1, <1>3, VisibleStays DEF Inv
<1> QED BY <1>1, <1>2, <1>4, RestoreStutters

\* A restore is alone with the workspace it finds when it holds both locks.
LEMMA CheckTabsIsAtomic ==
    ASSUME Inv, Inv', NEW r \in Restores, CheckTabs(r)
    PROVE  Atomic!Begin(r)
<1> USE DEF Inside
<1>t. pc \in [Jobs -> Labels] /\ DOMAIN reply = Jobs /\ DOMAIN began = Restores /\ r \in Jobs
  BY RestoreFrame DEF Inv, RestInv, TreeInv
<1>1. /\ pc[r] = "nested" /\ began'[r] = ActiveTree /\ place' = place
      /\ \/ pc'[r] = "cleanup" /\ reply'[r] = "tabs"
         \/ pc'[r] = "staging" /\ reply' = reply
  BY <1>t DEF CheckTabs, Stop, Goto
<1>2. reply[r] = "none"
  BY <1>1 DEF Inv, TreeInv, RestoreInv, RestorePc, Settled, Entered, Moving
<1>3. \A s \in Restores : pc[s] \notin Swapping /\ pc'[s] \notin Swapping
  BY <1>1, RestoreFrame DEF Swapping
<1>4. Visible = ActiveTree /\ Visible' = Visible
  BY <1>1, <1>3, VisibleIs, VisibleBecomes DEF Inv, ActiveTree
<1>5. StateOf(r) = "asked" /\ StateOf(r)' = "begun"
  BY <1>1, <1>2, RestoreFrame DEF RestoreState
<1>6. Atomic!Moves(r, "asked", "begun") /\ [t \in Tabs |-> loaded[t]]' = [t \in Tabs |-> loaded[t]]
  BY <1>5, RestoreMoves
<1>7. [i \in Clients |-> BaseOf(i)]' = [[i \in Clients |-> BaseOf(i)] EXCEPT ![r] = Visible]
  <2>1. BaseOf(r)' = Visible /\ r \in Clients /\ \A i \in Clients : i # r => BaseOf(i)' = BaseOf(i)
    BY <1>1, <1>4, RestoreFrame
  <2> QED BY <2>1, OneBase
<1> QED BY <1>4, <1>6, <1>7, Zenon DEF Atomic!Begin, Clients, BaseOf

\* Every step on the way is unseen, up to the one that decides: the check after
\* the second rename, or the failure of a rename that cannot be undone.
LEMMA MovingIsAtomic ==
    ASSUME Inv, Inv', NEW r \in Restores, Inside(r), ~CheckTabs(r), ~Cleanup(r)
    PROVE  Atomic!Swap(r) \/ Atomic!Strand(r) \/ UNCHANGED Atomic!vars
<1>t. pc \in [Jobs -> Labels] /\ r \in Jobs /\ Busy(r)
  BY RestoreFrame DEF Inv, RestInv
<1>1. /\ pc[r] \in Swapping \cup {"staging", "aside"}
      /\ pc'[r] \in Swapping \cup {"aside", "cleanup"}
  BY <1>t DEF Inside, StageBackup, MoveAside, CheckMoved, Install, CheckInstalled, TakeOut,
     ReturnPrevious, Stop, Goto, Swapping
<1>2. began' = began
  BY BeganStays
<1>3. Visible = began[r] /\ reply[r] = "none"
  BY <1>1, WorkingOn
<1>4. StateOf(r) = "begun"
  BY <1>1, <1>3, RestoreFrame DEF RestoreState, Swapping
<1>5. Busy(r)'
  BY <1>1 DEF Busy, Swapping
<1>6. ASSUME Visible' = began[r], reply'[r] \notin {"restored", "stranded"}
      PROVE  UNCHANGED Atomic!vars
  <2>1. StateOf(r)' = "begun"
    BY <1>1, <1>6, RestoreFrame DEF RestoreState, Swapping
  <2> QED BY <1>2, <1>3, <1>4, <1>6, <2>1, RestoreStutters
<1>7. CASE pc'[r] # "cleanup"
  <2>1. Visible' = began'[r] /\ reply'[r] = "none"
    BY <1>1, <1>5, <1>7, WorkedOn
  <2> QED BY <1>2, <1>6, <2>1
<1>8. CASE pc'[r] = "cleanup"
  <2>1. /\ reply'[r] \in {"tabs", "invalid", "kept", "stranded", "restored"}
        /\ reply'[r] = "restored" => Visible' = r
        /\ reply'[r] \in {"tabs", "invalid", "kept"} => Visible' = began'[r]
        /\ reply'[r] = "stranded" => Visible' \in {r, NoTree}
    BY <1>5, <1>8, WorkedOn DEF Settled
  <2>2. CASE reply'[r] \in {"tabs", "invalid", "kept"}
    BY <1>2, <1>6, <2>1, <2>2
  <2>3. CASE reply'[r] = "restored"
    <3>1. StateOf(r)' = "swapped"
      BY <1>8, <2>3, RestoreFrame DEF RestoreState
    <3>2. Atomic!Moves(r, "begun", "swapped") /\ [t \in Tabs |-> loaded[t]]' = [t \in Tabs |-> loaded[t]]
          /\ [i \in Clients |-> BaseOf(i)]' = [i \in Clients |-> BaseOf(i)]
      BY <1>2, <1>4, <3>1, RestoreMoves
    <3>3. Visible' = r
      BY <2>1, <2>3
    <3> QED BY <3>2, <3>3, Zenon DEF Atomic!Swap, Clients, BaseOf
  <2>4. CASE reply'[r] = "stranded"
    <3>1. StateOf(r)' = "stranding"
      BY <1>8, <2>4, RestoreFrame DEF RestoreState
    <3>2. Atomic!Moves(r, "begun", "stranding") /\ [t \in Tabs |-> loaded[t]]' = [t \in Tabs |-> loaded[t]]
          /\ [i \in Clients |-> BaseOf(i)]' = [i \in Clients |-> BaseOf(i)]
      BY <1>2, <1>4, <3>1, RestoreMoves
    <3>3. Visible' \in {r, NoTree}
      BY <2>1, <2>4
    <3> QED BY <3>2, <3>3, Zenon DEF Atomic!Strand, Clients, BaseOf
  <2> QED BY <2>1, <2>2, <2>3, <2>4
<1> QED BY <1>7, <1>8

\* Which tree is active does not depend on where the others are.
LEMMA SameActive ==
    ASSUME Unique, Unique', \A t \in Trees : place'[t] = "active" <=> place[t] = "active"
    PROVE  ActiveTree' = ActiveTree
<1>1. /\ ActiveTree \in Trees \cup {NoTree} /\ ActiveTree' \in Trees \cup {NoTree}
      /\ \A b \in Trees \cup {NoTree} : Workspace(b) <=> ActiveTree = b
      /\ \A b \in Trees \cup {NoTree} : Workspace(b)' <=> ActiveTree' = b
  BY ActiveTreeIs, ActiveTreeBecomes
<1>2. Workspace(ActiveTree)
  BY <1>1
<1>3. Workspace(ActiveTree) <=> IF ActiveTree = NoTree THEN \A t \in Trees : place'[t] # "active"
                                ELSE place'[ActiveTree] = "active"
  BY <1>1 DEF Workspace
<1> DEFINE a == ActiveTree
<1>4. a \in Trees \cup {NoTree} /\ IF a = NoTree THEN \A t \in Trees : place'[t] # "active"
                                  ELSE place'[a] = "active"
  BY <1>1, <1>2, <1>3
<1> QED BY <1>1, <1>4 DEF Workspace

LEMMA CleanupIsUnseen ==
    ASSUME Inv, Inv', NEW r \in Restores, Cleanup(r)
    PROVE  UNCHANGED Atomic!vars
<1> USE DEF Inside
<1>t. /\ pc \in [Jobs -> Labels] /\ r \in Jobs /\ r \in Trees /\ Unique /\ Unique'
      /\ place \in [Trees -> Places]
  BY RestoreFrame, TreeNames DEF Inv, RestInv, TreeInv, Places
<1>1. /\ pc[r] = "cleanup" /\ pc'[r] = "unwind" /\ UNCHANGED <<reply, began>>
      /\ place' = place \/ place' = [place EXCEPT ![r] = IF @ = "stage" THEN "gone" ELSE @]
  BY <1>t DEF Cleanup
<1>2. \A t \in Trees : place'[t] = "active" <=> place[t] = "active"
  BY <1>t, <1>1
<1>3. ActiveTree' = ActiveTree
  BY <1>t, <1>2, SameActive
<1>4. \A s \in Restores : pc[s] \notin Swapping /\ pc'[s] \notin Swapping
  BY <1>1, RestoreFrame DEF Swapping
<1>5. Visible' = Visible
  BY <1>3, <1>4, VisibleIs, VisibleBecomes DEF Inv
<1>6. StateOf(r)' = StateOf(r)
  BY <1>1, RestoreFrame DEF RestoreState
<1> QED BY <1>1, <1>5, <1>6, RestoreStutters

\* The answer says what became of the workspace.
LEMMA UnwindIsAtomic ==
    ASSUME Inv, Inv', NEW r \in Restores, Unwind(r)
    PROVE  Atomic!AnswerRestore(r) \/ UNCHANGED Atomic!vars
<1>t. pc \in [Jobs -> Labels] /\ r \in Jobs /\ TreeInv
  BY RestoreFrame DEF Inv, RestInv
<1>1. /\ pc[r] \in {"unwind", "unwound", "ending"} /\ UNCHANGED <<place, reply, began>>
      /\ pc'[r] = "done" <=> pc[r] = "ending"
      /\ pc'[r] \in {"unwound", "ending", "done"}
  BY <1>t DEF Unwind
<1>2. \A s \in Restores : pc[s] \notin Swapping /\ pc'[s] \notin Swapping
  BY <1>1, RestoreFrame DEF Swapping
<1>3. Visible = ActiveTree /\ Visible' = Visible
  BY <1>1, <1>2, VisibleIs, VisibleBecomes DEF Inv, ActiveTree
<1>4. /\ reply[r] \in {"tabs", "invalid", "kept", "stranded", "restored"}
      /\ reply[r] = "restored" => Visible = r
      /\ reply[r] \in {"tabs", "invalid", "kept"} => Visible = began[r]
      /\ reply[r] = "stranded" => Visible \in {r, NoTree}
  <2>1. Truth(r) /\ began[r] \in Trees \cup {NoTree} /\ r \in Trees /\ Unique /\ r # NoTree
    BY <1>t, <1>1, TreeNames DEF TreeInv, RestoreInv, Settled
  <2>2. \A b \in Trees \cup {NoTree} : Workspace(b) <=> ActiveTree = b
    BY <2>1, ActiveTreeIs
  <2>3. place[r] = "active" => Workspace(r)
    BY <2>1 DEF Workspace
  <2> QED BY <1>3, <2>1, <2>2, <2>3 DEF Truth
<1>5. CASE pc'[r] # "done"
  <2>1. StateOf(r)' = StateOf(r)
    BY <1>1, <1>5, RestoreFrame DEF RestoreState
  <2> QED BY <1>1, <1>3, <2>1, RestoreStutters
<1>6. CASE pc'[r] = "done"
  <2>1. \/ reply[r] = "restored" /\ StateOf(r) = "swapped" /\ StateOf(r)' = "restored"
        \/ reply[r] \in {"tabs", "invalid", "kept"} /\ StateOf(r) = "begun" /\ StateOf(r)' = "kept"
        \/ reply[r] = "stranded" /\ StateOf(r) = "stranding" /\ StateOf(r)' = "stranded"
    BY <1>1, <1>4, <1>6, RestoreFrame DEF RestoreState, Told
  <2>2. /\ [t \in Tabs |-> loaded[t]]' = [t \in Tabs |-> loaded[t]]
        /\ [i \in Clients |-> BaseOf(i)]' = [i \in Clients |-> BaseOf(i)]
    BY <1>1, RestoreMoves
  <2>3. \/ Atomic!Moves(r, "swapped", "restored") /\ Visible = r
        \/ Atomic!Moves(r, "begun", "kept") /\ Visible = [i \in Clients |-> BaseOf(i)][r]
        \/ Atomic!Moves(r, "stranding", "stranded") /\ Visible \in {r, NoTree}
    <3>1. [i \in Clients |-> BaseOf(i)][r] = began[r]
      BY RestoreFrame
    <3>2. ASSUME NEW from, NEW to, StateOf(r) = from, StateOf(r)' = to
          PROVE  Atomic!Moves(r, from, to)
      BY <3>2, RestoreMoves
    <3> QED BY <1>4, <2>1, <3>1, <3>2
  <2>4. Atomic!AnswerRestore(r)
    BY <1>3, <2>2, <2>3, Zenon DEF Atomic!AnswerRestore, Clients, BaseOf
  <2> QED BY <2>4
<1> QED BY <1>5, <1>6

\* A crash in the middle of a restore leaves the tree it was installing, or none;
\* the next start makes one where there is none.
LEMMA CrashIsAtomic ==
    ASSUME Inv, Inv', Crash
    PROVE  Atomic!Crash
<1>t. /\ pc \in [Jobs -> Labels] /\ DOMAIN reply = Jobs /\ TreeInv /\ Unique
      /\ \A i \in Clients : i \in Jobs /\ reply[i] \in {"none", "ok", "conflict", "tabs", "invalid",
                                                      "kept", "stranded", "restored", "lost"}
  BY JobKinds DEF Inv, RestInv, TreeInv, Clients
<1>1. /\ \A i \in Jobs : pc'[i] = IF pc[i] = "idle" THEN "idle" ELSE "done"
      /\ \A i \in Jobs : reply'[i] = IF pc[i] \in {"idle", "done"} THEN reply[i] ELSE "lost"
      /\ MakeWorkspace /\ UNCHANGED <<capture, queuedOn, began, loaded>>
  BY DEF Crash, historyVars
<1>2. ASSUME NEW i \in Clients
      PROVE  StateOf(i)' \in IF StateOf(i) = "idle" THEN {"idle", "lost"}
                            ELSE IF StateOf(i) \in Atomic!Answered THEN {StateOf(i)} ELSE {"lost"}
  <2>1. CASE pc[i] = "idle"
    <3>1. pc'[i] = "idle"
      BY <1>t, <1>1, <2>1
    <3> QED BY <2>1, <3>1 DEF StateOf, SaveState, RestoreState
  <2>2. CASE pc[i] = "done"
    <3>1. pc'[i] = "done" /\ reply'[i] = reply[i] /\ reply[i] # "none"
      BY <1>t, <1>1, <2>2 DEF Inv, AnswerInv
    <3>2. StateOf(i) = Told(i) /\ StateOf(i)' = Told(i)' /\ Told(i)' = Told(i)
      BY <2>2, <3>1 DEF StateOf, SaveState, RestoreState, Told
    <3>3. Told(i) \in Atomic!Answered
      BY <1>t, <3>1 DEF Told, Atomic!Answered
    <3> QED BY <3>2, <3>3 DEF Atomic!Answered
  <2>3. CASE pc[i] \notin {"idle", "done"}
    <3>1. pc'[i] = "done" /\ reply'[i] = "lost"
      BY <1>t, <1>1, <2>3
    <3>2. StateOf(i)' = "lost"
      BY <3>1 DEF StateOf, SaveState, RestoreState, Told
    <3>3. StateOf(i) \in {"idle", "late", "asked", "overtaken", "swapped", "stranding", "begun"}
      BY <2>3 DEF StateOf, SaveState, RestoreState
    <3> QED BY <3>2, <3>3 DEF Atomic!Answered
  <2> QED BY <2>1, <2>2, <2>3
<1>3. \A r \in Restores : pc'[r] \in {"idle", "done"}
  BY <1>1, JobKinds
<1>4. Visible' = ActiveTree'
  BY <1>3, VisibleBecomes DEF Inv, Swapping
<1>5. ActiveTree' = ActiveTree \/ (ActiveTree = NoTree /\ ActiveTree' = Fresh)
  BY <1>1, MadeOnce DEF Inv, MadeAtMost
<1>6. ASSUME NEW r \in Restores, pc[r] \in Swapping
      PROVE  StateOf(r) = "begun" /\ Visible' \in {r, Fresh, NoTree}
  <2>1. reply[r] = "none" /\ RestoreInv(r)
    BY <1>6, <1>t, WorkingOn DEF TreeInv
  <2>2. StateOf(r) = "begun"
    BY <1>6, <2>1, JobKinds DEF StateOf, RestoreState, Swapping
  <2>3. Workspace(NoTree) \/ place[r] = "active"
    BY <1>6, <2>1 DEF RestoreInv, Swapping
  <2>4. ActiveTree \in {r, NoTree}
    BY <1>t, <2>3, ActiveTreeIs, TreeNames DEF Workspace
  <2> QED BY <1>4, <1>5, <2>2, <2>4
<1>7. \/ Visible' = Visible
      \/ Visible = NoTree /\ Visible' = Fresh
      \/ \E r \in Restores : StateOf(r) = "begun" /\ Visible' \in {r, Fresh, NoTree}
  <2>1. CASE \A r \in Restores : pc[r] \notin Swapping
    <3>1. Visible = ActiveTree
      BY <2>1, VisibleIs DEF Inv
    <3> QED BY <1>4, <1>5, <3>1
  <2>2. CASE \E r \in Restores : pc[r] \in Swapping
    BY <1>6, <2>2
  <2> QED BY <2>1, <2>2
<1> DEFINE state == [i \in Clients |-> StateOf(i)]
<1>8. /\ DOMAIN state' = Clients
      /\ \A i \in Clients : state'[i] \in IF state[i] = "idle" THEN {"idle", "lost"}
                                        ELSE IF state[i] \in Atomic!Answered THEN {state[i]} ELSE {"lost"}
  BY <1>2
<1>9. \/ Visible' = Visible
      \/ Visible = NoTree /\ Visible' = Fresh
      \/ \E r \in Restores : state[r] = "begun" /\ Visible' \in {r, Fresh, NoTree}
  <2>1. \A r \in Restores : state[r] = StateOf(r)
    BY DEF Clients
  <2> QED BY <1>7, <2>1
<1>10. /\ [t \in Tabs |-> loaded[t]]' = [t \in Tabs |-> loaded[t]]
       /\ [i \in Clients |-> BaseOf(i)]' = [i \in Clients |-> BaseOf(i)]
  BY <1>1 DEF BaseOf
<1> QED BY <1>8, <1>9, <1>10, Zenon DEF Atomic!Crash, Atomic!Requests, Clients, StateOf, BaseOf

LEMMA InitIsAtomic == Init => Atomic!Init
<1> SUFFICES ASSUME Init PROVE Atomic!Init
  OBVIOUS
<1>1. \A i \in Clients : StateOf(i) = "idle" /\ BaseOf(i) = NoTree
  BY JobKinds DEF Init, Clients, StateOf, SaveState, RestoreState, BaseOf
<1>2. \A t \in Tabs : loaded[t] = NoTree
  BY DEF Init
<1> QED BY <1>1, <1>2 DEF Atomic!Init, Atomic!Requests, Clients, StateOf, BaseOf

\* Saves, restores, tabs and crashes appear to act on one workspace that a
\* restore replaces at once or not at all (WorkspaceRestore implements
\* AtomicWorkspace), for any number of them and any failures.
THEOREM ImplementsAtomicWorkspace == Spec => WorkspaceIsAtomic
<1>1. ASSUME Inv, Inv', Next
      PROVE  AtomicStep
  <2>1. TreeInv' /\ GateInv'
    BY <1>1 DEF Inv
  <2>2. CASE TabStep
    BY <1>1, <2>1, <2>2, TabIsAtomic
  <2>3. ASSUME NEW j \in Savers, \/ \E t \in Tabs : SendSave(j, t)
                                 \/ ReceiveSave(j) \/ StartSave(j) \/ FinishSave(j)
        PROVE  AtomicStep
    BY <1>1, <2>1, <2>3, SaverIsAtomic
  <2>4. ASSUME NEW j \in Backups, RequestBackup(j) \/ StartBackup(j) \/ ReadBackup(j) \/ FinishBackup(j)
        PROVE  AtomicStep
    BY <1>1, <2>4, BackupIsAtomic
  <2>5. ASSUME NEW r \in Restores, BeginRestore(r)
        PROVE  AtomicStep
    BY <1>1, <2>1, <2>5, BeginRestoreIsAtomic
  <2>6. ASSUME NEW r \in Restores, EnterRestore(r) \/ Inside(r) \/ Unwind(r)
        PROVE  AtomicStep
    <3>1. CASE EnterRestore(r)
      BY <1>1, <2>1, <3>1, EnterRestoreIsUnseen DEF AtomicStep
    <3>2. CASE CheckTabs(r)
      BY <1>1, <3>2, CheckTabsIsAtomic DEF AtomicStep, Atomic!Next
    <3>3. CASE Cleanup(r)
      BY <1>1, <3>3, CleanupIsUnseen DEF AtomicStep
    <3>4. CASE Inside(r) /\ ~CheckTabs(r) /\ ~Cleanup(r)
      BY <1>1, <3>4, MovingIsAtomic DEF AtomicStep, Atomic!Next
    <3>5. CASE Unwind(r)
      BY <1>1, <3>5, UnwindIsAtomic DEF AtomicStep, Atomic!Next
    <3> QED BY <2>6, <3>1, <3>2, <3>3, <3>4, <3>5
  <2>7. CASE Crash
    BY <1>1, <2>7, CrashIsAtomic DEF AtomicStep, Atomic!Next
  <2>8. Steps
    BY <1>1, NextIsSteps
  <2> QED BY <2>2, <2>3, <2>4, <2>5, <2>6, <2>7, <2>8 DEF Steps
<1>2. ASSUME UNCHANGED vars
      PROVE  UNCHANGED Atomic!vars
  <2>1. UNCHANGED <<generation, pc, reply, capture, began, queuedOn, place, loaded>>
    BY <1>2 DEF vars, gateVars, jobVars, historyVars
  <2>2. Visible' = Visible
    BY <2>1 DEF Visible, ActiveTree
  <2>3. \A i \in Clients : StateOf(i)' = StateOf(i) /\ BaseOf(i)' = BaseOf(i)
    BY <2>1 DEF StateOf, SaveState, RestoreState, Told, BaseOf
  <2> QED BY <2>1, <2>2, <2>3, Unseen
<1>3. Inv /\ Inv' /\ [Next]_vars => [Atomic!Next]_(Atomic!vars)
  BY <1>1, <1>2 DEF AtomicStep
<1> QED BY <1>3, InitInv, StepInv, InitIsAtomic, PTL DEF Spec, WorkspaceIsAtomic, Atomic!Spec

-----------------------------------------------------------------------------
(* What EveryJobAnswered and GateReopens rest on: who waits for whom, and that *)
(* every step of a request brings its answer nearer.                           *)

\* Who is in which queue: whoever waits for its lock, or holds it.
InQueue(q, j) == \E i \in 1..Len(q) : q[i] = j
Distinct(q) == \A i, k \in 1..Len(q) : q[i] = q[k] => i = k
UsesWorkspace(j) == TakesWorkspaceLock(j) /\ pc[j] \in {"queued"} \cup InWorkspace
UsesTracker(j) ==
    \/ pc[j] \in {"nested"} \cup InTracker
    \/ ~TakesWorkspaceLock(j) /\ pc[j] \in {"queued", "running"}
Placed(j) ==
    /\ InQueue(workspaceQueue, j) <=> UsesWorkspace(j)
    /\ InQueue(applicationsWriteQueue, j) <=> UsesTracker(j)
WaitInv ==
    /\ Distinct(workspaceQueue) /\ Distinct(applicationsWriteQueue)
    /\ \A j \in Jobs : Placed(j)

\* A task joins a queue when it comes to use it, and leaves it, from the head,
\* when it no longer does.
Follows(q, p, j, uses) ==
    IF InQueue(q, j) <=> uses THEN p = q
    ELSE IF uses THEN p = Append(q, j)
    ELSE q # <<>> /\ Head(q) = j /\ p = Tail(q)

\* A step of one task, as the queues see it.
Shifts(j) ==
    /\ \A k \in Jobs : k # j => pc'[k] = pc[k]
    /\ Follows(workspaceQueue, workspaceQueue', j, UsesWorkspace(j)')
    /\ Follows(applicationsWriteQueue, applicationsWriteQueue', j, UsesTracker(j)')

LEMMA FollowsKeepsPlaces ==
    ASSUME NEW q \in Seq(Jobs), NEW p, NEW j \in Jobs, NEW uses \in BOOLEAN,
           Distinct(q), Follows(q, p, j, uses)
    PROVE  /\ Distinct(p) /\ (InQueue(p, j) <=> uses)
           /\ \A k \in Jobs : k # j => (InQueue(p, k) <=> InQueue(q, k))
<1>1. CASE InQueue(q, j) <=> uses
  BY <1>1 DEF Follows
<1>2. CASE ~InQueue(q, j) /\ uses
  <2>1. p = Append(q, j)
    BY <1>2 DEF Follows
  <2>2. /\ Len(p) = Len(q) + 1 /\ p[Len(q) + 1] = j
        /\ \A i \in 1..Len(q) : p[i] = q[i]
    BY <2>1, AppendProperties
  <2>3. Len(q) \in Nat
    OBVIOUS
  <2> QED BY <1>2, <2>2, <2>3 DEF Distinct, InQueue
<1>3. CASE InQueue(q, j) /\ ~uses
  <2>1. q # <<>> /\ Head(q) = j /\ p = Tail(q)
    BY <1>3 DEF Follows
  <2>2. /\ Len(q) \in Nat \ {0} /\ Len(p) = Len(q) - 1 /\ q[1] = j
        /\ \A i \in 1..Len(p) : p[i] = q[i + 1]
    BY <2>1
  <2>3. \A i \in 1..Len(p) : i + 1 \in 1..Len(q) /\ i + 1 # 1
    BY <2>2
  <2>4. Distinct(p)
    BY <2>2, <2>3 DEF Distinct
  <2>5. ~InQueue(p, j)
    BY <2>2, <2>3 DEF Distinct, InQueue
  <2>6. ASSUME NEW k \in Jobs, k # j
        PROVE  InQueue(p, k) <=> InQueue(q, k)
    <3>1. InQueue(p, k) => InQueue(q, k)
      BY <2>2, <2>3 DEF InQueue
    <3>2. ASSUME NEW i \in 1..Len(q), q[i] = k
          PROVE  InQueue(p, k)
      <4>1. i - 1 \in 1..Len(p) /\ p[i - 1] = k
        BY <2>2, <2>6, <3>2
      <4> QED BY <4>1 DEF InQueue
    <3> QED BY <3>1, <3>2 DEF InQueue
  <2> QED BY <1>3, <2>4, <2>5, <2>6
<1> QED BY <1>1, <1>2, <1>3

LEMMA HeadIsInQueue ==
    ASSUME NEW q \in Seq(Jobs), q # <<>>
    PROVE  Head(q) \in Jobs /\ InQueue(q, Head(q))
<1>1. 1 \in 1..Len(q) /\ q[1] = Head(q)
  OBVIOUS
<1> QED BY <1>1 DEF InQueue

\* A step of one task leaves the others in their places.
LEMMA OneTaskMoves ==
    ASSUME Inv, WaitInv, NEW j \in Jobs, Shifts(j)
    PROVE  WaitInv'
<1> USE DEF Shifts
<1>1. UsesWorkspace(j)' \in BOOLEAN /\ UsesTracker(j)' \in BOOLEAN
  BY DEF UsesWorkspace, UsesTracker
<1>2. workspaceQueue \in Seq(Jobs) /\ applicationsWriteQueue \in Seq(Jobs)
  BY DEF Inv, LockInv
<1>3. /\ Distinct(workspaceQueue)' /\ (InQueue(workspaceQueue, j)' <=> UsesWorkspace(j)')
      /\ \A k \in Jobs : k # j => (InQueue(workspaceQueue, k)' <=> InQueue(workspaceQueue, k))
  BY <1>1, <1>2, FollowsKeepsPlaces DEF WaitInv
<1>4. /\ Distinct(applicationsWriteQueue)'
      /\ InQueue(applicationsWriteQueue, j)' <=> UsesTracker(j)'
      /\ \A k \in Jobs : k # j =>
            (InQueue(applicationsWriteQueue, k)' <=> InQueue(applicationsWriteQueue, k))
  BY <1>1, <1>2, FollowsKeepsPlaces DEF WaitInv
<1>5. ASSUME NEW k \in Jobs, k # j
      PROVE  Placed(k)'
  <2>1. (UsesWorkspace(k)' <=> UsesWorkspace(k)) /\ (UsesTracker(k)' <=> UsesTracker(k))
    BY <1>5 DEF UsesWorkspace, UsesTracker, TakesWorkspaceLock
  <2> QED BY <1>3, <1>4, <1>5, <2>1 DEF WaitInv, Placed
<1>6. Placed(j)'
  BY <1>3, <1>4 DEF Placed
<1> QED BY <1>3, <1>4, <1>5, <1>6 DEF WaitInv

\* Joining and leaving.
LEMMA JoinsItsQueue ==
    ASSUME WaitInv, NEW j \in Jobs, Enqueue(j), pc[j] \in {"idle", "sent"}, pc'[j] = "queued"
    PROVE  /\ Follows(workspaceQueue, workspaceQueue', j, UsesWorkspace(j)')
           /\ Follows(applicationsWriteQueue, applicationsWriteQueue', j, UsesTracker(j)')
<1>1. ~InQueue(workspaceQueue, j) /\ ~InQueue(applicationsWriteQueue, j)
  BY DEF WaitInv, Placed, UsesWorkspace, UsesTracker, InWorkspace, InTracker, Moving
<1>2. (UsesWorkspace(j)' <=> TakesWorkspaceLock(j)) /\ (UsesTracker(j)' <=> ~TakesWorkspaceLock(j))
  BY DEF UsesWorkspace, UsesTracker, TakesWorkspaceLock, InTracker, Moving
<1> QED BY <1>1, <1>2 DEF Follows, Enqueue

LEMMA LeavesItsQueues ==
    ASSUME WaitInv, LockInv, NEW j \in Jobs, Leave(j), pc'[j] = "done",
           UsesWorkspace(j) => HoldsWorkspace(j), UsesTracker(j) => HoldsTracker(j)
    PROVE  /\ Follows(workspaceQueue, workspaceQueue', j, UsesWorkspace(j)')
           /\ Follows(applicationsWriteQueue, applicationsWriteQueue', j, UsesTracker(j)')
<1>1. ~UsesWorkspace(j)' /\ ~UsesTracker(j)'
  BY DEF UsesWorkspace, UsesTracker, InWorkspace, InTracker, Moving
<1>2. HoldsWorkspace(j) => InQueue(workspaceQueue, j)
  BY HeadIsInQueue DEF HoldsWorkspace, LockInv
<1>3. HoldsTracker(j) => InQueue(applicationsWriteQueue, j)
  BY HeadIsInQueue DEF HoldsTracker, LockInv
<1>4. Placed(j)
  BY DEF WaitInv
<1> QED BY <1>1, <1>2, <1>3, <1>4 DEF Follows, Leave, Placed, HoldsWorkspace, HoldsTracker

\* Neither.
LEMMA StaysInItsQueues ==
    ASSUME WaitInv, NEW j \in Jobs, UNCHANGED queueVars,
           UsesWorkspace(j)' <=> UsesWorkspace(j), UsesTracker(j)' <=> UsesTracker(j)
    PROVE  /\ Follows(workspaceQueue, workspaceQueue', j, UsesWorkspace(j)')
           /\ Follows(applicationsWriteQueue, applicationsWriteQueue', j, UsesTracker(j)')
BY DEF WaitInv, Placed, Follows, queueVars

\* Each step moves one task, or none at all.
LEMMA StepShifts ==
    ASSUME Inv, WaitInv, Steps
    PROVE  Crash \/ UNCHANGED <<pc, queueVars>> \/ \E j \in Jobs : Shifts(j)
<1> DEFINE Quiet(j) == \A k \in Jobs : k # j => pc'[k] = pc[k]
<1>t. pc \in [Jobs -> Labels] /\ LockInv
  BY DEF Inv, RestInv
<1> USE DEF InWorkspace, InTracker, Moving
<1>1. CASE TabStep
  BY <1>1, TabFrame DEF core
<1>2. ASSUME NEW j \in Savers, NEW t \in Tabs, SendSave(j, t)
      PROVE  Shifts(j)
  <2>1. Quiet(j) /\ pc[j] = "idle" /\ pc'[j] = "sent" /\ UNCHANGED queueVars
    BY <1>2, <1>t, JobKinds DEF SendSave
  <2>2. (UsesWorkspace(j)' <=> UsesWorkspace(j)) /\ (UsesTracker(j)' <=> UsesTracker(j))
    BY <2>1 DEF UsesWorkspace, UsesTracker, TakesWorkspaceLock
  <2> QED BY <2>1, <2>2, JobKinds, StaysInItsQueues DEF Shifts
<1>3. ASSUME NEW j \in Jobs, ReceiveSave(j) \/ RequestBackup(j) \/ (j \in Restores /\ BeginRestore(j) /\ ~restoreActive)
      PROVE  Shifts(j)
  <2>1. Quiet(j) /\ pc[j] \in {"idle", "sent"} /\ pc'[j] = "queued" /\ Enqueue(j)
    BY <1>3, <1>t DEF ReceiveSave, RequestBackup, BeginRestore, Goto
  <2> QED BY <2>1, JoinsItsQueue DEF Shifts
<1>4. ASSUME NEW j \in Savers, StartSave(j), Allowed(j)
      PROVE  Shifts(j)
  <2>1. Quiet(j) /\ pc[j] = "queued" /\ pc'[j] = "running" /\ UNCHANGED queueVars
    BY <1>4, <1>t, JobKinds DEF StartSave
  <2>2. (UsesWorkspace(j)' <=> UsesWorkspace(j)) /\ (UsesTracker(j)' <=> UsesTracker(j))
    BY <2>1 DEF UsesWorkspace, UsesTracker, TakesWorkspaceLock
  <2> QED BY <2>1, <2>2, JobKinds, StaysInItsQueues DEF Shifts
<1>5. ASSUME NEW j \in Savers, (StartSave(j) /\ ~Allowed(j)) \/ FinishSave(j)
      PROVE  Shifts(j)
  <2>1. /\ Quiet(j) /\ pc'[j] = "done" /\ Leave(j)
        /\ (pc[j] = "queued" /\ HoldsItsLock(j)) \/ pc[j] = "running"
    BY <1>5, <1>t, JobKinds DEF StartSave, FinishSave, Answer
  <2>2. Started(j)
    BY <1>t, JobKinds DEF LockInv
  <2>3. (UsesWorkspace(j) => HoldsWorkspace(j)) /\ (UsesTracker(j) => HoldsTracker(j))
    BY <2>1, <2>2 DEF UsesWorkspace, UsesTracker, HoldsItsLock, Started
  <2> QED BY <1>t, <2>1, <2>3, JobKinds, LeavesItsQueues DEF Shifts
<1>6. ASSUME NEW j \in Backups, StartBackup(j), Allowed(j)
      PROVE  Shifts(j)
  <2>1. /\ Quiet(j) /\ pc[j] = "queued" /\ pc'[j] = "nested" /\ workspaceQueue' = workspaceQueue
        /\ applicationsWriteQueue' = Append(applicationsWriteQueue, j)
    BY <1>6, <1>t, JobKinds DEF StartBackup
  <2>2. /\ UsesWorkspace(j)' /\ UsesWorkspace(j) /\ UsesTracker(j)' /\ ~UsesTracker(j) /\ Placed(j)
    BY <2>1, JobKinds DEF UsesWorkspace, UsesTracker, TakesWorkspaceLock, WaitInv
  <2>3. /\ Follows(workspaceQueue, workspaceQueue', j, UsesWorkspace(j)')
        /\ Follows(applicationsWriteQueue, applicationsWriteQueue', j, UsesTracker(j)')
    BY <2>1, <2>2 DEF Follows, Placed
  <2> QED BY <2>1, <2>3, JobKinds DEF Shifts
<1>7. ASSUME NEW j \in Backups, ReadBackup(j), Allowed(j)
      PROVE  Shifts(j)
  <2>1. Quiet(j) /\ pc[j] = "nested" /\ pc'[j] = "reading" /\ UNCHANGED queueVars
    BY <1>7, <1>t, JobKinds DEF ReadBackup
  <2>2. (UsesWorkspace(j)' <=> UsesWorkspace(j)) /\ (UsesTracker(j)' <=> UsesTracker(j))
    BY <2>1 DEF UsesWorkspace, UsesTracker, TakesWorkspaceLock
  <2> QED BY <2>1, <2>2, JobKinds, StaysInItsQueues DEF Shifts
<1>8. ASSUME NEW j \in Backups, ((StartBackup(j) \/ ReadBackup(j)) /\ ~Allowed(j)) \/ FinishBackup(j)
      PROVE  Shifts(j)
  <2>1. /\ Quiet(j) /\ pc'[j] = "done" /\ Leave(j)
        /\ \/ pc[j] = "queued" /\ HoldsWorkspace(j)
           \/ pc[j] = "nested" /\ HoldsTracker(j)
           \/ pc[j] = "reading"
    BY <1>8, <1>t, JobKinds DEF StartBackup, ReadBackup, FinishBackup, Answer
  <2>2. Started(j) /\ TakesWorkspaceLock(j)
    BY <1>t, JobKinds DEF LockInv, TakesWorkspaceLock
  <2>3. (UsesWorkspace(j) => HoldsWorkspace(j)) /\ (UsesTracker(j) => HoldsTracker(j))
    BY <2>1, <2>2 DEF UsesWorkspace, UsesTracker, Started
  <2> QED BY <1>t, <2>1, <2>3, JobKinds, LeavesItsQueues DEF Shifts
<1>9. ASSUME NEW r \in Restores, BeginRestore(r), restoreActive
      PROVE  Shifts(r)
  <2>1. Quiet(r) /\ pc[r] = "idle" /\ pc'[r] = "done" /\ UNCHANGED queueVars
    BY <1>9, <1>t, JobKinds DEF BeginRestore, Answer
  <2>2. (UsesWorkspace(r)' <=> UsesWorkspace(r)) /\ (UsesTracker(r)' <=> UsesTracker(r))
    BY <2>1 DEF UsesWorkspace, UsesTracker, TakesWorkspaceLock
  <2> QED BY <2>1, <2>2, JobKinds, StaysInItsQueues DEF Shifts
<1>10. ASSUME NEW r \in Restores, EnterRestore(r)
      PROVE  Shifts(r)
  <2>1. /\ Quiet(r) /\ pc[r] = "queued" /\ pc'[r] = "nested" /\ workspaceQueue' = workspaceQueue
        /\ applicationsWriteQueue' = Append(applicationsWriteQueue, r)
    BY <1>10, <1>t, JobKinds DEF EnterRestore, Goto
  <2>2. UsesWorkspace(r)' /\ UsesWorkspace(r) /\ UsesTracker(r)' /\ ~UsesTracker(r) /\ Placed(r)
    BY <2>1, JobKinds DEF UsesWorkspace, UsesTracker, TakesWorkspaceLock, WaitInv
  <2>3. /\ Follows(workspaceQueue, workspaceQueue', r, UsesWorkspace(r)')
        /\ Follows(applicationsWriteQueue, applicationsWriteQueue', r, UsesTracker(r)')
    BY <2>1, <2>2 DEF Follows, Placed
  <2> QED BY <2>1, <2>3, JobKinds DEF Shifts
<1>11. ASSUME NEW r \in Restores, Inside(r)
      PROVE  Shifts(r)
  <2>1. /\ Quiet(r) /\ pc[r] \in Moving \cup {"nested"} /\ pc'[r] \in Moving \cup {"unwind"}
        /\ UNCHANGED queueVars
    BY <1>11, <1>t, JobKinds, InsideAdvances DEF Advance
  <2>2. (UsesWorkspace(r)' <=> UsesWorkspace(r)) /\ (UsesTracker(r)' <=> UsesTracker(r))
    BY <2>1 DEF UsesWorkspace, UsesTracker, TakesWorkspaceLock
  <2> QED BY <2>1, <2>2, JobKinds, StaysInItsQueues DEF Shifts
<1>12. ASSUME NEW r \in Restores, Unwind(r)
      PROVE  Shifts(r)
  <2>1. Started(r) /\ TakesWorkspaceLock(r) /\ Placed(r)
    BY <1>t, JobKinds DEF LockInv, WaitInv
  <2>2. Quiet(r)
    BY <1>12, <1>t, JobKinds DEF Unwind
  <2>3. CASE pc[r] = "unwind"
    <3>1. /\ pc'[r] = "unwound" /\ workspaceQueue' = workspaceQueue
          /\ applicationsWriteQueue' = Tail(applicationsWriteQueue)
      BY <1>12, <1>t, <2>3, JobKinds DEF Unwind
    <3>2. UsesWorkspace(r)' /\ UsesWorkspace(r) /\ ~UsesTracker(r)' /\ UsesTracker(r) /\ HoldsTracker(r)
      BY <2>1, <2>3, <3>1 DEF UsesWorkspace, UsesTracker, TakesWorkspaceLock, Started
    <3>3. /\ Follows(workspaceQueue, workspaceQueue', r, UsesWorkspace(r)')
          /\ Follows(applicationsWriteQueue, applicationsWriteQueue', r, UsesTracker(r)')
      BY <2>1, <3>1, <3>2 DEF Follows, Placed, HoldsTracker
    <3> QED BY <2>2, <3>3, JobKinds DEF Shifts
  <2>4. CASE pc[r] = "unwound"
    <3>1. /\ pc'[r] = "ending" /\ applicationsWriteQueue' = applicationsWriteQueue
          /\ workspaceQueue' = Tail(workspaceQueue)
      BY <1>12, <1>t, <2>4, JobKinds DEF Unwind
    <3>2. ~UsesWorkspace(r)' /\ UsesWorkspace(r) /\ ~UsesTracker(r)' /\ ~UsesTracker(r) /\ HoldsWorkspace(r)
      BY <2>1, <2>4, <3>1 DEF UsesWorkspace, UsesTracker, TakesWorkspaceLock, Started
    <3>3. /\ Follows(workspaceQueue, workspaceQueue', r, UsesWorkspace(r)')
          /\ Follows(applicationsWriteQueue, applicationsWriteQueue', r, UsesTracker(r)')
      BY <2>1, <3>1, <3>2 DEF Follows, Placed, HoldsWorkspace
    <3> QED BY <2>2, <3>3, JobKinds DEF Shifts
  <2>5. CASE pc[r] = "ending"
    <3>1. pc'[r] = "done" /\ UNCHANGED queueVars
      BY <1>12, <1>t, <2>5, JobKinds DEF Unwind
    <3>2. (UsesWorkspace(r)' <=> UsesWorkspace(r)) /\ (UsesTracker(r)' <=> UsesTracker(r))
      BY <2>1, <2>5, <3>1 DEF UsesWorkspace, UsesTracker, TakesWorkspaceLock
    <3> QED BY <2>2, <3>1, <3>2, JobKinds, StaysInItsQueues DEF Shifts
  <2> QED BY <1>12, <2>3, <2>4, <2>5 DEF Unwind
<1> QED BY <1>1, <1>2, <1>3, <1>4, <1>5, <1>6, <1>7, <1>8, <1>9, <1>10, <1>11, <1>12, JobKinds
        DEF Steps, ReceiveSave, RequestBackup

LEMMA WaitPreserved ==
    ASSUME Inv, WaitInv, Steps
    PROVE  WaitInv'
<1>1. CASE UNCHANGED <<pc, queueVars>>
  BY <1>1 DEF queueVars, WaitInv, Placed, UsesWorkspace, UsesTracker, TakesWorkspaceLock
<1>2. CASE Crash
  <2>1. \A j \in Jobs : pc'[j] \in {"idle", "done"}
    BY <1>2 DEF Crash
  <2>2. workspaceQueue' = <<>> /\ applicationsWriteQueue' = <<>>
    BY <1>2 DEF Crash
  <2>3. \A j \in Jobs : ~UsesWorkspace(j)' /\ ~UsesTracker(j)'
    BY <2>1 DEF UsesWorkspace, UsesTracker, InWorkspace, InTracker, Moving
  <2>4. \A j \in Jobs : ~InQueue(workspaceQueue, j)' /\ ~InQueue(applicationsWriteQueue, j)'
    BY <2>2 DEF InQueue
  <2>5. Distinct(workspaceQueue)' /\ Distinct(applicationsWriteQueue)'
    BY <2>2 DEF Distinct
  <2> QED BY <2>3, <2>4, <2>5 DEF WaitInv, Placed
<1> QED BY <1>1, <1>2, StepShifts, OneTaskMoves

LEMMA StepWait == Inv /\ WaitInv /\ [Next]_vars => WaitInv'
<1>1. ASSUME Inv, WaitInv, Next
      PROVE  WaitInv'
  BY <1>1, NextIsSteps, WaitPreserved
<1>2. ASSUME WaitInv, UNCHANGED vars
      PROVE  WaitInv'
  BY <1>2 DEF vars, jobVars, queueVars, WaitInv, Placed, InQueue, Distinct, UsesWorkspace, UsesTracker,
              TakesWorkspaceLock
<1> QED BY <1>1, <1>2

LEMMA InitWait == Init => WaitInv
BY DEF Init, WaitInv, Placed, InQueue, Distinct, UsesWorkspace, UsesTracker, InWorkspace, InTracker, Moving

\* A request can go on: it is at the head of the queue it waits in, or it waits
\* for a read, a write or a rename that settles by itself.
Ready(j) ==
    \/ pc[j] \in {"sent", "running", "reading", "unwind", "unwound", "ending"} \cup Moving
    \/ pc[j] = "queued" /\ HoldsItsLock(j)
    \/ pc[j] = "nested" /\ HoldsTracker(j)

\* Whom a request that cannot go on waits for.
WaitsFor(j) ==
    IF pc[j] = "queued" /\ TakesWorkspaceLock(j) THEN Head(workspaceQueue)
    ELSE Head(applicationsWriteQueue)

\* Nobody waits in a circle (the two locks are always taken in one order): a
\* request that is under way can go on, or the one it waits for can, or the one
\* that one waits for.
THEOREM NobodyWaitsInACircle ==
    Spec => [](\A j \in Jobs : \/ pc[j] \in {"idle", "done"}
                               \/ Ready(j) \/ Ready(WaitsFor(j)) \/ Ready(WaitsFor(WaitsFor(j))))
<1> DEFINE Goes(j) == \/ pc[j] \in {"idle", "done"}
                      \/ Ready(j) \/ Ready(WaitsFor(j)) \/ Ready(WaitsFor(WaitsFor(j)))
<1>1. ASSUME Inv, WaitInv, applicationsWriteQueue # <<>>
      PROVE  Ready(Head(applicationsWriteQueue))
  <2> DEFINE h == Head(applicationsWriteQueue)
  <2>1. h \in Jobs /\ UsesTracker(h) /\ HoldsTracker(h)
    BY <1>1, HeadIsInQueue DEF Inv, LockInv, WaitInv, Placed, HoldsTracker
  <2> QED BY <2>1 DEF Ready, UsesTracker, HoldsItsLock, InTracker
<1>2. ASSUME Inv, WaitInv, workspaceQueue # <<>>, ~Ready(Head(workspaceQueue))
      PROVE  pc[Head(workspaceQueue)] = "nested" /\ applicationsWriteQueue # <<>>
  <2> DEFINE h == Head(workspaceQueue)
  <2>1. h \in Jobs /\ UsesWorkspace(h) /\ HoldsWorkspace(h) /\ Placed(h)
    BY <1>2, HeadIsInQueue DEF Inv, LockInv, WaitInv, Placed, HoldsWorkspace
  <2>2. pc[h] = "nested"
    BY <1>2, <2>1 DEF Ready, UsesWorkspace, HoldsItsLock, InWorkspace
  <2>3. InQueue(applicationsWriteQueue, h)
    BY <2>1, <2>2 DEF Placed, UsesTracker
  <2>4. applicationsWriteQueue # <<>>
    BY <2>3 DEF InQueue
  <2> QED BY <2>2, <2>4
<1>3. ASSUME Inv, WaitInv, NEW j \in Jobs
      PROVE  Goes(j)
  <2> SUFFICES ASSUME pc[j] \notin {"idle", "done"}, ~Ready(j)
               PROVE  Ready(WaitsFor(j)) \/ Ready(WaitsFor(WaitsFor(j)))
    OBVIOUS
  <2>1. Placed(j) /\ pc[j] \in Labels
    BY <1>3 DEF WaitInv, Inv, RestInv
  <2>2. pc[j] \in {"queued", "nested"}
    BY <2>1 DEF Ready, Moving, Labels
  <2>3. CASE pc[j] = "queued" /\ TakesWorkspaceLock(j)
    <3>1. InQueue(workspaceQueue, j)
      BY <2>1, <2>3 DEF Placed, UsesWorkspace
    <3>2. workspaceQueue # <<>>
      BY <3>1 DEF InQueue
    <3>3. WaitsFor(j) = Head(workspaceQueue)
      BY <2>3 DEF WaitsFor
    <3>4. CASE ~Ready(Head(workspaceQueue))
      <4>1. pc[Head(workspaceQueue)] = "nested" /\ applicationsWriteQueue # <<>>
        BY <1>2, <1>3, <3>2, <3>4
      <4>2. WaitsFor(Head(workspaceQueue)) = Head(applicationsWriteQueue)
        BY <4>1 DEF WaitsFor
      <4> QED BY <1>1, <1>3, <3>3, <4>1, <4>2
    <3> QED BY <3>3, <3>4
  <2>4. CASE ~(pc[j] = "queued" /\ TakesWorkspaceLock(j))
    <3>1. InQueue(applicationsWriteQueue, j)
      BY <2>1, <2>2, <2>4 DEF Placed, UsesTracker
    <3>2. applicationsWriteQueue # <<>>
      BY <3>1 DEF InQueue
    <3>3. WaitsFor(j) = Head(applicationsWriteQueue)
      BY <2>4 DEF WaitsFor
    <3> QED BY <1>1, <1>3, <3>2, <3>3
  <2> QED BY <2>3, <2>4
<1>4. Inv /\ WaitInv => \A j \in Jobs : Goes(j)
  BY <1>3
<1> QED BY <1>4, InitInv, InitWait, StepInv, StepWait, PTL DEF Spec

\* A waiting request is never overtaken: whoever is before it in a queue was
\* before it already, until it leaves that queue.
Before(q, k, j) == \E i, m \in 1..Len(q) : i < m /\ q[i] = k /\ q[m] = j

LEMMA NoneGetsBefore ==
    ASSUME NEW q \in Seq(Jobs), NEW p, NEW j \in Jobs, NEW uses \in BOOLEAN, Follows(q, p, j, uses),
           NEW a \in Jobs, InQueue(q, a), NEW k \in Jobs, Before(p, k, a)
    PROVE  Before(q, k, a)
<1>1. PICK i \in 1..Len(p), m \in 1..Len(p) : i < m /\ p[i] = k /\ p[m] = a
  BY DEF Before
<1>2. CASE p = q
  BY <1>2
<1>3. CASE ~InQueue(q, j) /\ p = Append(q, j)
  <2>1. /\ Len(q) \in Nat /\ Len(p) = Len(q) + 1 /\ p[Len(q) + 1] = j
        /\ \A n \in 1..Len(q) : p[n] = q[n]
    BY <1>3, AppendProperties
  <2>2. m # Len(q) + 1
    BY <1>1, <1>3, <2>1
  <2>3. i \in 1..Len(q) /\ m \in 1..Len(q)
    BY <1>1, <2>1, <2>2
  <2> QED BY <1>1, <2>1, <2>3 DEF Before
<1>4. CASE q # <<>> /\ p = Tail(q)
  <2>1. /\ Len(q) \in Nat \ {0} /\ Len(p) = Len(q) - 1
        /\ \A n \in 1..Len(p) : p[n] = q[n + 1]
    BY <1>4
  <2>2. i + 1 \in 1..Len(q) /\ m + 1 \in 1..Len(q) /\ i + 1 < m + 1
    BY <1>1, <2>1
  <2>3. q[i + 1] = k /\ q[m + 1] = a
    BY <1>1, <2>1
  <2> QED BY <2>2, <2>3 DEF Before
<1> QED BY <1>2, <1>3, <1>4 DEF Follows

Overtaken(q, p, j) == InQueue(q, j) /\ \E k \in Jobs : Before(p, k, j) /\ ~Before(q, k, j)

\* The queues are fair: no request gets before one that waits already.
THEOREM NobodyIsOvertaken ==
    Spec => [][\A j \in Jobs : /\ ~Overtaken(workspaceQueue, workspaceQueue', j)
                               /\ ~Overtaken(applicationsWriteQueue, applicationsWriteQueue', j)]_vars
<1> DEFINE Fair == \A j \in Jobs : /\ ~Overtaken(workspaceQueue, workspaceQueue', j)
                                   /\ ~Overtaken(applicationsWriteQueue, applicationsWriteQueue', j)
<1>1. ASSUME Inv, WaitInv, Steps
      PROVE  Fair
  <2>1. workspaceQueue \in Seq(Jobs) /\ applicationsWriteQueue \in Seq(Jobs)
    BY <1>1 DEF Inv, LockInv
  <2>2. CASE UNCHANGED <<pc, queueVars>>
    BY <2>2 DEF queueVars, Overtaken
  <2>3. CASE Crash
    <3>1. workspaceQueue' = <<>> /\ applicationsWriteQueue' = <<>>
      BY <2>3 DEF Crash
    <3> QED BY <3>1 DEF Overtaken, Before
  <2>4. ASSUME NEW j \in Jobs, Shifts(j)
        PROVE  Fair
    <3>1. UsesWorkspace(j)' \in BOOLEAN /\ UsesTracker(j)' \in BOOLEAN
      BY DEF UsesWorkspace, UsesTracker
    <3> QED BY <2>1, <2>4, <3>1, NoneGetsBefore DEF Shifts, Overtaken
  <2> QED BY <1>1, <2>2, <2>3, <2>4, StepShifts
<1>2. Inv /\ WaitInv /\ [Next]_vars => [Fair]_vars
  BY <1>1, NextIsSteps
<1> QED BY <1>2, InitInv, InitWait, StepInv, StepWait, PTL DEF Spec

\* How many steps of its own a request has left at most.
StepsLeft(label) ==
    IF label = "idle" THEN 15 ELSE IF label = "sent" THEN 14
    ELSE IF label = "queued" THEN 13 ELSE IF label = "nested" THEN 12
    ELSE IF label = "staging" THEN 11 ELSE IF label = "aside" THEN 10
    ELSE IF label = "moved" THEN 9 ELSE IF label = "install" THEN 8
    ELSE IF label = "installed" THEN 7 ELSE IF label = "takeOut" THEN 6
    ELSE IF label \in {"return", "returnFailed"} THEN 5
    ELSE IF label = "cleanup" THEN 4 ELSE IF label = "unwind" THEN 3
    ELSE IF label = "unwound" THEN 2
    ELSE IF label \in {"running", "reading", "ending"} THEN 1 ELSE 0

LEMMA InsideIsProgress ==
    ASSUME NEW r \in Restores, pc \in [Jobs -> Labels], Inside(r)
    PROVE  StepsLeft(pc'[r]) < StepsLeft(pc[r])
<1> USE JobKinds DEF StepsLeft, Goto, Stop
<1>1. CASE CheckTabs(r)
  BY <1>1 DEF CheckTabs
<1>2. CASE StageBackup(r)
  BY <1>2 DEF StageBackup
<1>3. CASE MoveAside(r)
  BY <1>3 DEF MoveAside
<1>4. CASE CheckMoved(r)
  BY <1>4 DEF CheckMoved
<1>5. CASE Install(r)
  BY <1>5 DEF Install
<1>6. CASE CheckInstalled(r)
  BY <1>6 DEF CheckInstalled
<1>7. CASE TakeOut(r)
  BY <1>7 DEF TakeOut
<1>8. CASE ReturnPrevious(r)
  BY <1>8 DEF ReturnPrevious
<1>9. CASE Cleanup(r)
  BY <1>9 DEF Cleanup
<1> QED BY <1>1, <1>2, <1>3, <1>4, <1>5, <1>6, <1>7, <1>8, <1>9 DEF Inside

LEMMA StepIsProgress ==
    ASSUME Inv, NEW j \in Jobs, ServerStep(j)
    PROVE  StepsLeft(pc'[j]) < StepsLeft(pc[j])
<1>t. pc \in [Jobs -> Labels]
  BY DEF Inv, RestInv
<1> USE <1>t DEF StepsLeft, Answer, Goto
<1>1. CASE ReceiveSave(j) \/ StartSave(j) \/ FinishSave(j)
  BY <1>1 DEF ReceiveSave, StartSave, FinishSave
<1>2. CASE StartBackup(j) \/ ReadBackup(j) \/ FinishBackup(j)
  BY <1>2 DEF StartBackup, ReadBackup, FinishBackup
<1>3. CASE j \in Restores /\ Inside(j)
  BY <1>3, InsideIsProgress
<1>4. CASE EnterRestore(j) \/ Unwind(j)
  BY <1>4 DEF EnterRestore, Unwind
<1> QED BY <1>1, <1>2, <1>3, <1>4 DEF ServerStep, RestoreStep, Inside

\* Whatever the server, a tab or a crash does.
LEMMA PcMovesOn ==
    ASSUME Inv, Next, NEW j \in Jobs
    PROVE  pc'[j] = pc[j] \/ StepsLeft(pc'[j]) < StepsLeft(pc[j])
<1>t. pc \in [Jobs -> Labels]
  BY DEF Inv, RestInv
<1>1. CASE TabStep
  BY <1>1, TabFrame DEF core
<1>2. ASSUME NEW k \in Jobs, \/ k \in Savers /\ \E t \in Tabs : SendSave(k, t)
                             \/ RequestBackup(k) \/ (k \in Restores /\ BeginRestore(k))
      PROVE  pc'[j] = pc[j] \/ StepsLeft(pc'[j]) < StepsLeft(pc[j])
  <2>1. pc[k] = "idle" /\ \E l \in {"sent", "queued", "done"} : pc' = [pc EXCEPT ![k] = l]
    BY <1>2 DEF SendSave, RequestBackup, BeginRestore, Answer, Goto
  <2> QED BY <1>t, <2>1 DEF StepsLeft
<1>3. ASSUME NEW k \in Jobs, ServerStep(k)
      PROVE  pc'[j] = pc[j] \/ StepsLeft(pc'[j]) < StepsLeft(pc[j])
  <2>1. CASE k = j
    BY <1>3, <2>1, StepIsProgress
  <2>2. CASE k # j
    <3>1. k \in Restores /\ Inside(k) => pc'[j] = pc[j]
      BY <2>2, <1>t, InsideAdvances DEF Advance
    <3>2. ~(k \in Restores /\ Inside(k)) => pc'[j] = pc[j]
      BY <1>3, <2>2, <1>t
         DEF ServerStep, RestoreStep, Inside, ReceiveSave, StartSave, FinishSave, StartBackup, ReadBackup,
             FinishBackup, EnterRestore, Unwind, Answer, Goto
    <3> QED BY <3>1, <3>2
  <2> QED BY <2>1, <2>2
<1>4. CASE Crash
  <2>1. pc'[j] = IF pc[j] = "idle" THEN "idle" ELSE "done"
    BY <1>4 DEF Crash
  <2>2. pc[j] \in Labels
    BY <1>t
  <2> QED BY <2>1, <2>2 DEF StepsLeft, Labels
<1> QED BY <1>1, <1>2, <1>3, <1>4, JobKinds DEF Next

LEMMA ReadyStays ==
    ASSUME Inv, WaitInv, Next, NEW j \in Jobs, Ready(j), pc'[j] = pc[j]
    PROVE  Ready(j)'
<1>1. (HoldsWorkspace(j) => HoldsWorkspace(j)') /\ (HoldsTracker(j) => HoldsTracker(j)')
  <2>1. workspaceQueue \in Seq(Jobs) /\ applicationsWriteQueue \in Seq(Jobs)
    BY DEF Inv, LockInv
  <2>2. CASE UNCHANGED <<pc, queueVars>>
    BY <2>2 DEF queueVars, HoldsWorkspace, HoldsTracker
  <2>3. ASSUME NEW k \in Jobs, Shifts(k), k # j
        PROVE  (HoldsWorkspace(j) => HoldsWorkspace(j)') /\ (HoldsTracker(j) => HoldsTracker(j)')
    <3>1. /\ Change(workspaceQueue, workspaceQueue', k)
          /\ Change(applicationsWriteQueue, applicationsWriteQueue', k)
      BY <2>3 DEF Shifts, Follows, Change
    <3> QED BY <2>1, <2>3, <3>1, ChangeKeepsHead DEF HoldsWorkspace, HoldsTracker
  <2>4. ASSUME Shifts(j)
        PROVE  (HoldsWorkspace(j) => HoldsWorkspace(j)') /\ (HoldsTracker(j) => HoldsTracker(j)')
    <3>1. (UsesWorkspace(j)' <=> UsesWorkspace(j)) /\ (UsesTracker(j)' <=> UsesTracker(j)) /\ Placed(j)
      BY DEF UsesWorkspace, UsesTracker, TakesWorkspaceLock, WaitInv
    <3>2. UNCHANGED queueVars
      BY <2>4, <3>1 DEF Shifts, Follows, Placed, queueVars
    <3> QED BY <3>2 DEF queueVars, HoldsWorkspace, HoldsTracker
  <2>5. ~Crash
    <3>1. ASSUME Crash PROVE FALSE
      <4>1. pc'[j] = IF pc[j] = "idle" THEN "idle" ELSE "done"
        BY <3>1 DEF Crash
      <4> QED BY <4>1 DEF Ready, Moving
    <3> QED BY <3>1
  <2> QED BY <2>2, <2>3, <2>4, <2>5, NextIsSteps, StepShifts
<1> QED BY <1>1 DEF Ready, HoldsItsLock, TakesWorkspaceLock

\* Each step of the server for a request brings its answer nearer and no step
\* of anybody takes it further away; a request that can go on still can until it
\* takes its step.
THEOREM AnswersComeNearer ==
    Spec => [][\A j \in Jobs :
                  /\ ServerStep(j) => StepsLeft(pc'[j]) < StepsLeft(pc[j])
                  /\ StepsLeft(pc'[j]) <= StepsLeft(pc[j])
                  /\ Ready(j) => Ready(j)' \/ StepsLeft(pc'[j]) < StepsLeft(pc[j])]_vars
<1> DEFINE Nearer ==
        \A j \in Jobs : /\ ServerStep(j) => StepsLeft(pc'[j]) < StepsLeft(pc[j])
                        /\ StepsLeft(pc'[j]) <= StepsLeft(pc[j])
                        /\ Ready(j) => Ready(j)' \/ StepsLeft(pc'[j]) < StepsLeft(pc[j])
<1>1. ASSUME Inv, WaitInv, Next
      PROVE  Nearer
  <2>1. ASSUME NEW j \in Jobs
        PROVE  /\ pc'[j] = pc[j] \/ StepsLeft(pc'[j]) < StepsLeft(pc[j])
               /\ ServerStep(j) => StepsLeft(pc'[j]) < StepsLeft(pc[j])
               /\ pc'[j] = pc[j] /\ Ready(j) => Ready(j)'
    BY <1>1, PcMovesOn, StepIsProgress, ReadyStays
  <2>2. \A l : StepsLeft(l) \in Nat
    BY DEF StepsLeft
  <2>3. ASSUME NEW j \in Jobs
        PROVE  /\ ServerStep(j) => StepsLeft(pc'[j]) < StepsLeft(pc[j])
               /\ StepsLeft(pc'[j]) <= StepsLeft(pc[j])
               /\ Ready(j) => Ready(j)' \/ StepsLeft(pc'[j]) < StepsLeft(pc[j])
    BY <2>1, <2>2
  <2> QED BY <2>3
<1>2. Inv /\ WaitInv /\ [Next]_vars => [Nearer]_vars
  BY <1>1
<1> QED BY <1>2, InitInv, InitWait, StepInv, StepWait, PTL DEF Spec

\* The gate is never closed without an owner: whenever requests are refused, a
\* restore is under way, and that one opens it (AnswersComeNearer).
THEOREM AClosedGateHasAnOwner ==
    Spec => [](restoreActive => \E r \in Restores : pc[r] \notin {"idle", "done"})
<1>1. Inv => (restoreActive => \E r \in Restores : pc[r] \notin {"idle", "done"})
  BY DEF Inv, GateInv, Busy
<1> QED BY <1>1, InitInv, StepInv, PTL DEF Spec
=============================================================================
