------------------------------ MODULE TrackerTab ------------------------------
(***************************************************************************)
(* The browser's tracker client (src/hooks/useApplications.ts,             *)
(* src/lib/applicationMutation.ts): each open tab shows a tracker it       *)
(* changes at once, sends the changes one at a time, and takes over what   *)
(* the server answers, while list requests of the same tab and changes of  *)
(* other tabs are under way.                                               *)
(*                                                                         *)
(* The server is reduced to what its routes promise (trackerRoutes.ts,     *)
(* reconcile.ts; TrackerStore models how it keeps that promise): a         *)
(* sequence of trackers, the last of which is the current one.  A revision *)
(* is an index into that sequence, 0 the revision nobody knows (null).     *)
(*                                                                         *)
(* A record is its updatedAt and the set of edits it contains, so that the *)
(* properties can say whose work a step removes.  An edit made from a copy *)
(* of a record contains every edit of that copy.                           *)
(***************************************************************************)
EXTENDS Naturals, Sequences

CONSTANTS
    Tabs,        \* open tabs of the browser
    Ids,         \* application ids
    Kept,        \* the ids of the tracker the tabs were opened on
    Maker,       \* the tab that makes each other id
    ClockRuns,   \* FALSE: the clock is behind every updatedAt
    MaxEdits,    \* bound on changes by tabs, other clients and other programs
    MaxFaults,   \* bound on failed requests
    MaxMoves     \* bound on changes and failed requests together

ASSUME TabAssumption ==
    /\ Kept \subseteq Ids
    /\ Maker \in [Ids \ Kept -> Tabs]
    /\ ClockRuns \in BOOLEAN
    /\ MaxEdits \in Nat /\ MaxFaults \in Nat /\ MaxMoves \in Nat

-----------------------------------------------------------------------------
(* Records, changes and answers *)

\* Edit 0 is an edit another program made to applications.json.
Outside == 0
Edits == 0 .. MaxEdits
Record == [rev : Nat, edits : SUBSET Edits]
NoRecord == [rev |-> 0, edits |-> {}]
Tracker == [Ids -> Record]
EmptyTracker == [i \in Ids |-> NoRecord]
Held(recs) == {i \in Ids : recs[i] # NoRecord}

\* One call of persist: the records it upserts, the ids it deletes and the
\* updatedAt each of them was changed from (0: none).  recs also keeps the
\* deleted records as the tab showed them, which the code does not send.
Change == [edit : Edits, up : SUBSET Ids, del : SUBSET Ids, recs : Tracker, base : [Ids -> Nat]]
Message == [tab : Tabs, change : Change, revision : Nat]

Answer == [kind : {"none", "sparse", "full", "conflict"}, recs : Tracker,
           order : SUBSET Ids, changed : SUBSET Ids, revision : Nat]
NoAnswer == [kind |-> "none", recs |-> EmptyTracker, order |-> {}, changed |-> {}, revision |-> 0]

\* A list request of a tab: draining the save queue, asked, answered.
Read == [phase : {"none", "drain", "asked", "answered"}, auto : BOOLEAN, version : Nat,
         asked : Nat, same : BOOLEAN, recs : Tracker, revision : Nat]
NoRead == [phase |-> "none", auto |-> FALSE, version |-> 0, asked |-> 0,
           same |-> FALSE, recs |-> EmptyTracker, revision |-> 0]
MountRead == [NoRead EXCEPT !.phase = "asked"]

VARIABLES
    versions,     \* the trackers the server has held
    shown,        \* applicationsRef of each tab
    confirmed,    \* confirmedApplications
    known,        \* confirmedRevision
    queue,        \* persistQueue: the changes that have not settled
    sent,         \* the first of them is under way
    net,          \* PUT requests that may still reach the server
    answer,       \* the answer to the change under way
    mount,        \* the list request of the first render
    refresh,      \* refreshInFlight
    version,      \* persistVersion
    refreshed,    \* readVersion: a refresh has started since the first render
    loaded,       \* hasLoadedApplications
    error,        \* the message the tab shows
    conflict,     \* conflictMessage
    superseded,   \* supersededFailure
    edits, faults,    \* counters of changes and failed requests
    lost          \* history: an edit failed and the user was not told yet

serverVars == <<versions, net>>
trackerVars == <<shown, confirmed, known>>
writeVars == <<queue, sent, answer, version, edits>>
readVars == <<mount, refresh, refreshed, loaded>>
noticeVars == <<error, conflict, superseded, lost>>
vars == <<serverVars, trackerVars, writeVars, readVars, noticeVars, faults>>

Init ==
    /\ versions = << [i \in Ids |-> IF i \in Kept THEN [rev |-> 1, edits |-> {}] ELSE NoRecord] >>
    /\ shown = [t \in Tabs |-> EmptyTracker]
    /\ confirmed = [t \in Tabs |-> EmptyTracker]
    /\ known = [t \in Tabs |-> 0]
    /\ queue = [t \in Tabs |-> <<>>]
    /\ sent = [t \in Tabs |-> FALSE]
    /\ net = {}
    /\ answer = [t \in Tabs |-> NoAnswer]
    /\ mount = [t \in Tabs |-> MountRead]
    /\ refresh = [t \in Tabs |-> NoRead]
    /\ version = [t \in Tabs |-> 0]
    /\ refreshed = [t \in Tabs |-> FALSE]
    /\ loaded = [t \in Tabs |-> FALSE]
    /\ error = [t \in Tabs |-> "none"]
    /\ conflict = [t \in Tabs |-> FALSE]
    /\ superseded = [t \in Tabs |-> FALSE]
    /\ edits = 0 /\ faults = 0
    /\ lost = [t \in Tabs |-> FALSE]

Current == versions[Len(versions)]
Idle(t) == queue[t] = <<>>
MayMove == edits + faults < MaxMoves
Fault == faults < MaxFaults /\ MayMove /\ faults' = faults + 1

-----------------------------------------------------------------------------
(* What the user does in a tab *)

\* nextApplicationRevision is the clock, or one more than the record's updatedAt
\* when the clock is behind it.  A running clock never shows two tabs one time.
NextRevision(previous) == IF ClockRuns THEN edits + 2 ELSE previous + 1

\* persist: the tab shows the change at once and queues it.  Starting an edit
\* clears a conflict notice; the user has seen whatever is shown.
Persist(t, up, del, recs) ==
    LET change == [edit |-> edits + 1, up |-> up, del |-> del, recs |-> recs,
                   base |-> [i \in Ids |-> IF i \in up \cup del THEN shown[t][i].rev ELSE 0]]
    IN  /\ edits < MaxEdits /\ MayMove
        /\ edits' = edits + 1
        /\ shown' = [shown EXCEPT ![t] =
                        [i \in Ids |-> CASE i \in up -> recs[i]
                                         [] i \in del -> NoRecord
                                         [] OTHER -> shown[t][i]]]
        /\ queue' = [queue EXCEPT ![t] = Append(@, change)]
        /\ version' = [version EXCEPT ![t] = @ + 1]
        /\ conflict' = [conflict EXCEPT ![t] = FALSE]
        /\ error' = [error EXCEPT ![t] = IF conflict[t] THEN "none" ELSE @]
        /\ lost' = [lost EXCEPT ![t] = @ /\ error[t] = "none"]
        /\ UNCHANGED <<serverVars, confirmed, known, sent, answer, readVars, superseded, faults>>

Edited(t, S) ==
    [i \in Ids |-> IF i \in S THEN [rev |-> NextRevision(shown[t][i].rev),
                                    edits |-> shown[t][i].edits \cup {edits + 1}]
                   ELSE NoRecord]

\* Applying, skipping or answering before a record exists.  An attempt keeps its
\* id, so a create whose answer was lost is sent again with the same id.
CreateApplication(t, i) ==
    /\ i \notin Kept /\ Maker[i] = t
    /\ shown[t][i] = NoRecord
    /\ Persist(t, {i}, {}, Edited(t, {i}))

\* updateApplicationById and updateStatus change one record; markGhosted, linking,
\* unlinking and markPostingRecordsUnrelated change several in one request.
UpdateApplications(t, S) ==
    /\ S # {} /\ S \subseteq Held(shown[t])
    /\ Persist(t, S, {}, Edited(t, S))

Remove(t, i) ==
    /\ shown[t][i] # NoRecord
    /\ Persist(t, {}, {i}, [EmptyTracker EXCEPT ![i] = shown[t][i]])

\* One record stays and the other duplicates go, in one request.
MergeApplications(t, i, j) ==
    /\ i # j /\ {i, j} \subseteq Held(shown[t])
    /\ Persist(t, {i}, {j}, [Edited(t, {i}) EXCEPT ![j] = shown[t][j]])

Edit(t) ==
    \/ \E i \in Ids : CreateApplication(t, i) \/ Remove(t, i)
    \/ \E S \in SUBSET Ids : UpdateApplications(t, S)
    \/ \E i, j \in Ids : MergeApplications(t, i, j)

-----------------------------------------------------------------------------
(* The server's side of a save *)

\* The queue sends its first change with the revision the tab knows by then.
SendWrite(t) ==
    /\ ~Idle(t) /\ ~sent[t]
    /\ sent' = [sent EXCEPT ![t] = TRUE]
    /\ net' = net \cup {[tab |-> t, change |-> Head(queue[t]), revision |-> known[t]]}
    /\ UNCHANGED <<versions, trackerVars, queue, answer, version, edits, readVars, noticeVars, faults>>

Named(c) == c.up \cup c.del
UpsertsMatch(c) == \A i \in c.up : c.base[i] = Current[i].rev
RevisionMatches(c) == \A i \in Named(c) : c.base[i] = Current[i].rev
Reconciled(c) ==
    [i \in Ids |-> CASE i \in c.up -> c.recs[i]
                     [] i \in c.del -> NoRecord
                     [] OTHER -> Current[i]]

\* Nobody reads the answer to a request its tab has given up on.
Awaited(m) == ~Idle(m.tab) /\ sent[m.tab] /\ m.change = Head(queue[m.tab])
Reply(m, a) ==
    /\ net' = net \ {m}
    /\ answer' = IF Awaited(m) THEN [answer EXCEPT ![m.tab] = a] ELSE answer
    /\ UNCHANGED <<trackerVars, queue, sent, version, readVars, noticeVars, faults>>

FullAnswer(recs, revision) ==
    [kind |-> "full", recs |-> recs, order |-> Held(recs), changed |-> Ids, revision |-> revision]

\* Only a client that knows the tracker before the write gets the records it
\* wrote and the list of ids; any other gets the whole tracker.
KnowsTracker(m) == m.revision = Len(versions)
AcceptWrite(m) ==
    /\ RevisionMatches(m.change)
    /\ LET next == Reconciled(m.change)
           revision == Len(versions) + 1
       IN  /\ versions' = Append(versions, next)
           /\ Reply(m, IF KnowsTracker(m)
                       THEN [kind |-> "sparse", order |-> Held(next), changed |-> m.change.up,
                             recs |-> [i \in Ids |-> IF i \in m.change.up THEN next[i] ELSE NoRecord],
                             revision |-> revision]
                       ELSE FullAnswer(next, revision))
    /\ UNCHANGED edits

\* What another program makes of a tracker: it changes a record and leaves its
\* updatedAt alone, or changes nothing (the server restarts: its revisions are
\* new ones).
OutsideEdits(recs) ==
    {recs} \cup {[recs EXCEPT ![i].edits = @ \cup {Outside}] : i \in Held(recs)}

\* Another program replaces the file before the server could confirm its write:
\* the client gets what was written, without a revision.
AcceptUnconfirmed(m) ==
    /\ RevisionMatches(m.change)
    /\ edits < MaxEdits /\ MayMove /\ edits' = edits + 1
    /\ LET next == Reconciled(m.change)
       IN  \E recs \in OutsideEdits(next) :
               /\ versions' = versions \o <<next, recs>>
               /\ Reply(m, FullAnswer(next, 0))

RefuseWrite(m) ==
    /\ ~RevisionMatches(m.change)
    /\ Reply(m, [FullAnswer(Current, Len(versions)) EXCEPT !.kind = "conflict"])
    /\ UNCHANGED <<versions, edits>>

HandleSave(m) == AcceptWrite(m) \/ RefuseWrite(m)

OutsideEdit ==
    /\ edits < MaxEdits /\ MayMove /\ edits' = edits + 1
    /\ \E recs \in OutsideEdits(Current) : versions' = Append(versions, recs)
    /\ UNCHANGED <<net, trackerVars, queue, sent, answer, version, readVars,
                   noticeVars, faults>>

\* Another client changes or deletes a record: a document, status, update or
\* event route, or a browser this model does not follow.
SavedElsewhere(i) ==
    /\ Current[i] # NoRecord
    /\ edits < MaxEdits /\ MayMove /\ edits' = edits + 1
    /\ \E rec \in {NoRecord, [rev |-> NextRevision(Current[i].rev),
                             edits |-> Current[i].edits \cup {edits + 1}]} :
           versions' = Append(versions, [Current EXCEPT ![i] = rec])
    /\ UNCHANGED <<net, trackerVars, queue, sent, answer, version, readVars,
                   noticeVars, faults>>

-----------------------------------------------------------------------------
(* A change settles in its tab *)

\* applyApplicationWriteResponse.
MergedByRevision(previous, a) ==
    [i \in Ids |-> IF i \notin a.order THEN NoRecord
                   ELSE IF a.kind = "full" /\ previous[i].rev = a.recs[i].rev THEN previous[i]
                   ELSE IF i \in a.changed THEN a.recs[i] ELSE previous[i]]
Applied(previous, a) ==
    [i \in Ids |-> IF i \notin a.order THEN NoRecord
                   ELSE IF i \in a.changed THEN a.recs[i] ELSE previous[i]]

\* The tab shows what is confirmed once no later change is waiting.
Latest(t) == Len(queue[t]) = 1
SettleShown(t, recs) == shown' = [shown EXCEPT ![t] = IF Latest(t) THEN recs ELSE @]
Dequeue(t) ==
    /\ queue' = [queue EXCEPT ![t] = Tail(@)]
    /\ sent' = [sent EXCEPT ![t] = FALSE]
    /\ answer' = [answer EXCEPT ![t] = NoAnswer]
    /\ UNCHANGED <<version, edits>>

Confirm(t, recs, revision) ==
    /\ confirmed' = [confirmed EXCEPT ![t] = recs]
    /\ known' = [known EXCEPT ![t] = revision]

SettleSaved(t) ==
    /\ answer[t].kind \in {"sparse", "full"}
    /\ LET recs == Applied(confirmed[t], answer[t])
       IN  Confirm(t, recs, answer[t].revision) /\ SettleShown(t, recs)
    /\ Dequeue(t)
    /\ loaded' = [loaded EXCEPT ![t] = TRUE]
    /\ IF Latest(t)
       THEN /\ error' = [error EXCEPT ![t] = CASE conflict[t] -> "conflict"
                                               [] superseded[t] -> "failed"
                                               [] OTHER -> "none"]
            /\ superseded' = [superseded EXCEPT ![t] = FALSE]
       ELSE UNCHANGED <<error, superseded>>
    /\ UNCHANGED <<serverVars, mount, refresh, refreshed, conflict, lost, faults>>

SettleConflict(t) ==
    /\ answer[t].kind = "conflict"
    /\ Confirm(t, answer[t].recs, answer[t].revision)
    /\ SettleShown(t, answer[t].recs)
    /\ Dequeue(t)
    /\ loaded' = [loaded EXCEPT ![t] = TRUE]
    /\ conflict' = [conflict EXCEPT ![t] = TRUE]
    /\ error' = [error EXCEPT ![t] = "conflict"]
    /\ superseded' = [superseded EXCEPT ![t] = @ /\ ~Latest(t)]
    /\ lost' = [lost EXCEPT ![t] = TRUE]
    /\ UNCHANGED <<serverVars, mount, refresh, refreshed, faults>>

\* The request fails in the browser, or the server answers with another error.
\* Where the server got it anyway, or gets it later, the tab does not learn so.
DequeueAndStop(t) ==
    /\ queue' = [queue EXCEPT ![t] = Tail(@)]
    /\ answer' = [answer EXCEPT ![t] = NoAnswer]
    /\ UNCHANGED <<sent, version, edits>>
DequeueFailed(t) == Dequeue(t)
NotRolledBack(t, recs) == UNCHANGED shown
RolledBack(t, recs) == SettleShown(t, recs)
Forgotten(t) == UNCHANGED superseded
Superseded(t) == superseded' = [superseded EXCEPT ![t] = ~Latest(t)]
SettleFailed(t) ==
    /\ ~Idle(t) /\ sent[t] /\ Fault
    /\ RolledBack(t, confirmed[t])
    /\ DequeueFailed(t)
    /\ Superseded(t)
    /\ error' = [error EXCEPT ![t] = CASE ~Latest(t) -> @
                                       [] Latest(t) /\ conflict[t] -> "conflict"
                                       [] OTHER -> "failed"]
    /\ lost' = [lost EXCEPT ![t] = TRUE]
    /\ UNCHANGED <<serverVars, confirmed, known, readVars, conflict>>

-----------------------------------------------------------------------------
(* List requests *)

\* The server's answer: not modified (304), or the whole tracker.
Answered(r) ==
    IF r.asked = Len(versions)
    THEN [r EXCEPT !.phase = "answered", !.same = TRUE]
    ELSE [r EXCEPT !.phase = "answered", !.recs = Current, !.revision = Len(versions)]

HandleMount(t) ==
    /\ mount[t].phase = "asked"
    /\ mount' = [mount EXCEPT ![t] = Answered(@)]
    /\ UNCHANGED <<serverVars, trackerVars, writeVars, refresh, refreshed, loaded, noticeVars, faults>>

HandleRefresh(t) ==
    /\ refresh[t].phase = "asked"
    /\ refresh' = [refresh EXCEPT ![t] = Answered(@)]
    /\ UNCHANGED <<serverVars, trackerVars, writeVars, mount, refreshed, loaded, noticeVars, faults>>

\* A read taken over replaces what is shown and what is confirmed, and clears
\* every notice.
Adopt(t, recs, revision) ==
    /\ Confirm(t, recs, revision)
    /\ shown' = [shown EXCEPT ![t] = recs]
    /\ loaded' = [loaded EXCEPT ![t] = TRUE]
    /\ conflict' = [conflict EXCEPT ![t] = FALSE]
    /\ error' = [error EXCEPT ![t] = "none"]
    /\ lost' = [lost EXCEPT ![t] = FALSE]
    /\ UNCHANGED superseded

\* The first read counts only while nothing newer was asked or changed.
StillFirst(t) == ~refreshed[t] /\ version[t] = 0

FinishMount(t) ==
    /\ mount[t].phase = "answered" /\ StillFirst(t)
    /\ Adopt(t, mount[t].recs, mount[t].revision)
    /\ mount' = [mount EXCEPT ![t] = NoRead]
    /\ UNCHANGED <<serverVars, writeVars, refresh, refreshed, faults>>

DropMount(t) ==
    /\ mount[t].phase = "answered" /\ ~StillFirst(t)
    /\ mount' = [mount EXCEPT ![t] = NoRead]
    /\ UNCHANGED <<serverVars, trackerVars, writeVars, refresh, refreshed, loaded, noticeVars, faults>>

FailMount(t) ==
    /\ mount[t].phase # "none" /\ Fault
    /\ mount' = [mount EXCEPT ![t] = NoRead]
    /\ error' = [error EXCEPT ![t] = IF refreshed[t] THEN @ ELSE "load"]
    /\ UNCHANGED <<serverVars, trackerVars, writeVars, refresh, refreshed, loaded,
                   conflict, superseded, lost>>

\* A second caller shares the refresh that is under way.
StartRefresh(t, auto) ==
    /\ refresh[t].phase = "none"
    /\ refresh' = [refresh EXCEPT ![t] = [NoRead EXCEPT !.phase = "drain", !.auto = auto]]
    /\ refreshed' = [refreshed EXCEPT ![t] = TRUE]
    /\ UNCHANGED <<serverVars, trackerVars, writeVars, mount, loaded, noticeVars, faults>>

Refresh(t) == StartRefresh(t, FALSE)

\* useAutoGhosting re-reads the tracker before it marks records: only with a
\* loaded tracker, no write under way and no message shown.
AutoRefresh(t) ==
    /\ loaded[t] /\ Idle(t) /\ error[t] = "none"
    /\ StartRefresh(t, TRUE)

AskRefresh(t) ==
    /\ refresh[t].phase = "drain" /\ Idle(t)
    /\ refresh' = [refresh EXCEPT ![t].phase = "asked", ![t].version = version[t],
                                  ![t].asked = known[t]]
    /\ UNCHANGED <<serverVars, trackerVars, writeVars, mount, refreshed, loaded, noticeVars, faults>>

AnyVersion(t) == TRUE
SameVersion(t) == refresh[t].version = version[t]

FinishRefresh(t) ==
    /\ refresh[t].phase = "answered" /\ SameVersion(t)
    /\ IF refresh[t].same
       THEN Adopt(t, confirmed[t], known[t])
       ELSE Adopt(t, refresh[t].recs, refresh[t].revision)
    /\ refresh' = [refresh EXCEPT ![t] = NoRead]
    /\ UNCHANGED <<serverVars, writeVars, mount, refreshed, faults>>

\* A change was started meanwhile: drain the queue and ask again.
Drained(t) == refresh' = [refresh EXCEPT ![t] = [NoRead EXCEPT !.phase = "drain", !.auto = refresh[t].auto]]
RepeatRefresh(t) ==
    /\ refresh[t].phase = "answered" /\ ~SameVersion(t)
    /\ Drained(t)
    /\ UNCHANGED <<serverVars, trackerVars, writeVars, mount, refreshed, loaded, noticeVars, faults>>

FailRefresh(t) ==
    /\ refresh[t].phase \in {"asked", "answered"} /\ Fault
    /\ refresh' = [refresh EXCEPT ![t] = NoRead]
    /\ error' = [error EXCEPT ![t] = "load"]
    /\ UNCHANGED <<serverVars, trackerVars, writeVars, mount, refreshed, loaded,
                   conflict, superseded, lost>>

-----------------------------------------------------------------------------
(* The system *)

SaveStep(t) ==
    \/ SendWrite(t)
    \/ \E m \in net : m.tab = t /\ Awaited(m) /\ HandleSave(m)
    \/ SettleSaved(t)
    \/ SettleConflict(t)

RefreshStep(t) ==
    \/ AskRefresh(t)
    \/ HandleRefresh(t)
    \/ FinishRefresh(t)
    \/ RepeatRefresh(t)

MountStep(t) == HandleMount(t) \/ FinishMount(t) \/ DropMount(t)

\* A request its tab gave up on reaches the server after all.
LateSave(m) ==
    /\ ~Awaited(m)
    /\ HandleSave(m)

Environment ==
    \/ OutsideEdit
    \/ \E i \in Ids : SavedElsewhere(i)
    \/ \E m \in net : AcceptUnconfirmed(m) \/ LateSave(m)
    \/ \E t \in Tabs : SettleFailed(t) \/ FailMount(t) \/ FailRefresh(t)

User(t) == Edit(t) \/ Refresh(t) \/ AutoRefresh(t)

Next ==
    \/ \E t \in Tabs : SaveStep(t) \/ RefreshStep(t) \/ MountStep(t) \/ User(t)
    \/ Environment

Spec == Init /\ [][Next]_vars

\* The browser runs the promises of a tab, and the server answers what it gets.
FairSpec ==
    /\ Spec
    /\ \A t \in Tabs : WF_vars(SaveStep(t)) /\ WF_vars(RefreshStep(t)) /\ WF_vars(MountStep(t))

-----------------------------------------------------------------------------
(* Properties *)

Notices == {"none", "conflict", "failed", "load"}

\* Type correctness of every variable of the tabs, the server and the wire
\* between them.
TypeOK ==
    /\ versions \in Seq(Tracker) /\ versions # <<>>
    /\ shown \in [Tabs -> Tracker] /\ confirmed \in [Tabs -> Tracker]
    /\ known \in [Tabs -> Nat]
    /\ queue \in [Tabs -> Seq(Change)]
    /\ sent \in [Tabs -> BOOLEAN] /\ \A t \in Tabs : sent[t] => ~Idle(t)
    /\ net \subseteq Message
    /\ answer \in [Tabs -> Answer] /\ \A t \in Tabs : answer[t].kind # "none" => sent[t]
    /\ mount \in [Tabs -> Read] /\ refresh \in [Tabs -> Read]
    /\ version \in [Tabs -> Nat]
    /\ refreshed \in [Tabs -> BOOLEAN] /\ loaded \in [Tabs -> BOOLEAN]
    /\ error \in [Tabs -> Notices]
    /\ conflict \in [Tabs -> BOOLEAN] /\ superseded \in [Tabs -> BOOLEAN]
    /\ edits \in 0 .. MaxEdits /\ faults \in 0 .. MaxFaults
    /\ lost \in [Tabs -> BOOLEAN]

\* What a tab takes for the saved tracker is exactly what the server held at the
\* revision the tab names in its next request; the server relies on it when it
\* answers a write with the changed records only (trackerRoutes.ts, partial) and
\* a read with 304.
ConfirmedIsTrue ==
    \A t \in Tabs : known[t] # 0 => known[t] <= Len(versions) /\ confirmed[t] = versions[known[t]]

\* With no change waiting, a tab shows nothing but the saved tracker: every edit
\* that failed is rolled back, an earlier one behind a later one included.
NoPhantomEdit ==
    \A t \in Tabs : Idle(t) => shown[t] = confirmed[t]

\* Once its changes have settled, a tab whose edit was dropped tells the user,
\* however many later changes were saved meanwhile (supersededFailure,
\* conflictMessage).  A loss counts as told once its notice was up: the automatic
\* refresh that clears the notice (useAutoGhosting.ts 44-47) settles it.
LossIsShown ==
    \A t \in Tabs : Idle(t) /\ lost[t] => error[t] # "none"

\* A tab never goes back to an older tracker than one it took over: no answer to
\* a list request overtakes a save of the same tab or a newer list request.
NeverGoesBack ==
    [][\A t \in Tabs : known[t] # 0 /\ known'[t] # 0 => known'[t] >= known[t]]_vars

\* A save replaces or deletes only records whose edits its tab had in front of
\* it: no edit of another tab, nor one that was refused or given up and then
\* landed, is overwritten unseen.
UnseenEditsAreKept ==
    [][\A m \in net \ net' : versions' # versions =>
        \A i \in Named(m.change) : Current[i].edits \ {Outside} \subseteq m.change.recs[i].edits]_vars

\* A tab never stalls: each edit is answered, saved or not, a failed one does not
\* stop those queued behind it, and each refresh ends although every edit made
\* meanwhile makes it start again.
TabNeverStalls ==
    \A t \in Tabs :
        /\ ~Idle(t) ~> Idle(t)
        /\ refresh[t].phase # "none" ~> refresh[t].phase = "none"
===============================================================================
