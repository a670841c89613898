-------------------------- MODULE ApplicationRecord --------------------------
(***************************************************************************)
(* One application of the tracker and the rules that guard its history:    *)
(* the revision, stage and history checks of the server                    *)
(* (server/applications/reconcile.ts) and the edits the tracker's forms    *)
(* build (src/lib/applicationStageHistory.ts, ApplicationModal.tsx) next   *)
(* to the callers that go through the status, event, answer, update and    *)
(* document routes.                                                        *)
(*                                                                         *)
(* A save and its answer are one step: what overlapping saves of a tab do  *)
(* is the subject of TrackerTab.                                           *)
(***************************************************************************)
EXTENDS Naturals, FiniteSets

CONSTANTS
    Tabs,          \* browser tabs that edit the record
    Statuses,      \* the stages the instance uses
    AnswerIds,     \* ids of answer revisions
    MaxHistory,    \* STAGE_HISTORY_MAX_ENTRIES
    MaxWrites,     \* bound on the writes of the record
    Gone           \* no such record

Submitted == {"applied", "interviewing", "offer", "rejected", "ghosted", "withdrawn"}
ApplicationStatuses == {"draft", "not_applying"} \cup Submitted
Events == {"interview", "note"}     \* note: a response or a follow-up

ASSUME RecordAssumption ==
    /\ Statuses \subseteq ApplicationStatuses
    /\ MaxHistory \in Nat \ {0} /\ MaxWrites \in Nat

\* A timeline entry: a stage reached or an event.  Ids are random in the code: an
\* entry that is added has one no entry in view has.
Entry == [id : 1 .. 2 * MaxHistory + 2, what : (ApplicationStatuses \ {"draft"}) \cup Events]

\* dated: it has an application date (appliedAt); docs: saved documents; answers:
\* the text of each saved answer revision, 0 for none; rev: updatedAt.  A record is
\* skipped (notApplyingAt) exactly while its status is not_applying.
Record == [status : ApplicationStatuses, dated : BOOLEAN, docs : BOOLEAN,
           history : SUBSET Entry, answers : [AnswerIds -> 0 .. 2], rev : 1 .. MaxWrites + 1]

ASSUME GoneAssumption == Gone \notin Record

Outcomes == {"none", "saved", "unseen", "stale", "refused"}

VARIABLES
    app,       \* the record in applications.json
    writes,    \* number of writes
    held,      \* the record as each tab has it (applicationsRef)
    seen,      \* the last one the tab's open form had (lastAvailableApplication)
    asked,     \* the edit a form saves once its prompt is confirmed
    outcome    \* history: how the last save of a tab ended

vars == <<app, writes, held, seen, asked, outcome>>
Exists(r) == r # Gone

-----------------------------------------------------------------------------
(* Stages and history *)

Options(s) ==
    CASE s = "draft"        -> {"draft", "applied", "not_applying"}
      [] s = "applied"      -> Submitted
      [] s = "interviewing" -> Submitted \ {"applied"}
      [] s = "offer"        -> {"offer", "rejected", "withdrawn"}
      [] s = "ghosted"      -> Submitted
      [] OTHER              -> {s}

\* applicationStatusTransitionAllowed, stageMenuMoveAllowed.
TransitionAllowed(s, next) == IF s = "draft" THEN next \in Options(s) ELSE next # "draft"
MenuMoveAllowed(s, next) ==
    s # next /\ TransitionAllowed(s, next) /\ (next = "ghosted" => next \in Options(s))

JobOnly(r) == r.status = "draft" \/ (r.status = "not_applying" /\ ~r.dated)
SkipDropsDocuments(r, next) ==
    next = "not_applying" /\ r.status # "not_applying" /\ ~r.dated /\ r.docs

Ids(h) == {e.id : e \in h}
InView(h) == Ids(h) \cup (IF Exists(app) THEN Ids(app.history) ELSE {})
NewId(h) == CHOOSE i \in 1 .. 2 * MaxHistory + 2 : i \notin InView(h)
Added(h, what) == h \cup {[id |-> NewId(h), what |-> what]}

\* withStageChange: a stage change of a dated record adds its entry, and the one
\* of a Skip that was never recorded.
WithStageChange(r, next, h) ==
    IF ~r.dated \/ r.status = next \/ next = "draft" THEN h
    ELSE LET skipped == r.status = "not_applying" /\ \A e \in h : e.what # "not_applying"
         IN  Added(IF skipped THEN Added(h, "not_applying") ELSE h, next)

FitsEvent(r, next, h) == Cardinality(h) < MaxHistory
Fits(r, next, h) == Cardinality(WithStageChange(r, next, h)) <= MaxHistory

FirstSubmission(r, next) == JobOnly(r) /\ next \in Submitted

\* withStatusChange.
WithStatusChange(r, next) ==
    [r EXCEPT !.status = next,
              !.history = WithStageChange(r, next, r.history),
              !.dated = next # "draft" /\ (r.dated \/ FirstSubmission(r, next))]

\* withEntrySaved: an interview reopens an Applied or Ghosted record.
Reopened(r, what) ==
    IF what = "interview" /\ r.status \in {"applied", "ghosted"} THEN "interviewing" ELSE r.status
WithEntrySaved(r, what) ==
    [r EXCEPT !.status = Reopened(r, what),
              !.history = WithStageChange(r, Reopened(r, what), Added(r.history, what))]

-----------------------------------------------------------------------------
(* The server *)

\* sanitizeApplication: the records it accepts, and the documents it drops.
Valid(r) ==
    /\ r.status = "draft" => ~r.dated /\ ~r.docs
    /\ JobOnly(r) => r.history = {}
    /\ Cardinality(r.history) <= MaxHistory
StoredAsSent(r) == r
Stored(r) == IF JobOnly(r) THEN [r EXCEPT !.docs = FALSE] ELSE r

\* The checks of reconcileApplicationMutations on a record that exists.
DateMayGo(r, next) == TRUE
DateKept(r, next) == r.dated => next.dated \/ next.status = "draft"
StageRecorded(r, next) ==
    r.dated /\ r.status # next.status =>
        \E e \in next.history : e.id \notin Ids(r.history) /\ e.what = next.status
AnswersOverwritten(r, next) == TRUE
AnswersKept(r, next) ==
    \A a \in AnswerIds : r.answers[a] # 0 => next.answers[a] \in {0, r.answers[a]}
Reconcilable(r, next) ==
    /\ TransitionAllowed(r.status, next.status)
    /\ ~r.dated => ~SkipDropsDocuments([r EXCEPT !.dated = next.dated], next.status)
    /\ DateKept(r, next)
    /\ StageRecorded(r, next)
    /\ AnswersKept(r, next)

Accepted(next) == Valid(next) /\ (Exists(app) => Reconcilable(app, Stored(next)))

Write(next) ==
    /\ writes' = writes + 1
    /\ app' = [Stored(next) EXCEPT !.rev = writes + 2]

\* A route changes the saved record itself.
Route(next) ==
    /\ Exists(app) /\ Accepted(next) /\ Write(next)
    /\ outcome' = "none"
    /\ UNCHANGED <<held, seen, asked>>

\* changeApplicationStatus: a first submission may bring documents.
StatusRoute(next) ==
    /\ Exists(app) /\ MenuMoveAllowed(app.status, next) /\ Fits(app, next, app.history)
    /\ \E sent \in IF FirstSubmission(app, next) THEN BOOLEAN ELSE {FALSE} :
          Route([WithStatusChange(app, next) EXCEPT !.docs = @ \/ sent])

\* logApplicationEvent.
EventRoute(what) ==
    /\ Exists(app) /\ app.dated
    /\ Route(WithEntrySaved(app, what))

\* updateApplication: a submitted record without documents receives them.
UpdateRoute ==
    /\ Exists(app) /\ ~JobOnly(app) /\ ~app.docs
    /\ Route([app EXCEPT !.docs = TRUE])

\* appendApplicationAnswers.
AnswerRoute(a, text) ==
    /\ Exists(app) /\ app.answers[a] = 0
    /\ Route([app EXCEPT !.answers[a] = text])

\* A client saves a whole record: any stage, date and documents, with an entry
\* less and one more (no client keeps a timeline of an undated record), or other
\* answers.
ForeignStage ==
    /\ Exists(app)
    /\ \E s \in Statuses, dated \in BOOLEAN, docs \in BOOLEAN, dropped \in SUBSET app.history :
       \E what \in {"none"} \cup (Statuses \ {"draft"}) \cup Events :
          LET rest == app.history \ dropped
          IN  /\ Cardinality(dropped) <= 1
              /\ ~dated => rest = {} /\ what = "none"
              /\ Route([app EXCEPT !.status = s, !.dated = dated, !.docs = docs,
                                   !.history = IF what = "none" THEN rest ELSE Added(rest, what)])
ForeignAnswers ==
    /\ Exists(app)
    /\ \E answers \in [AnswerIds -> 0 .. 2] : Route([app EXCEPT !.answers = answers])

-----------------------------------------------------------------------------
(* A tab *)

\* persist: the save names the revision the tab has, and its answer brings the
\* tab up to date.
Answered(t, now) ==
    /\ held' = [held EXCEPT ![t] = now]
    /\ seen' = IF Exists(now) THEN [seen EXCEPT ![t] = now] ELSE seen
CurrentBase(t) ==
    IF Exists(held[t]) /\ Exists(app) THEN held[t].rev = app.rev ELSE held[t] = app
Unseen(next) == Exists(app) /\ next.rev # app.rev
Sent(t, next) ==
    \/ /\ CurrentBase(t) /\ Accepted(next) /\ Write(next)
       /\ Answered(t, app')
       /\ outcome' = IF Unseen(next) THEN "unseen" ELSE "saved"
    \/ /\ ~CurrentBase(t)
       /\ Answered(t, app)
       /\ outcome' = "stale"
       /\ UNCHANGED <<app, writes>>
    \/ /\ CurrentBase(t) /\ ~Accepted(next)
       /\ outcome' = IF Unseen(next) THEN "stale" ELSE "refused"
       /\ UNCHANGED <<app, writes, held, seen>>

\* updateApplicationById: the edit, whenever it was built, replaces the record
\* the tab has now.
Update(t, next) ==
    /\ Exists(held[t]) /\ TransitionAllowed(held[t].status, next.status)
    /\ Sent(t, next)

\* Idle: no prompt of the tab's form is open.
Idle(t) == asked[t] = Gone
Save(t, next) == Idle(t) /\ Update(t, next) /\ UNCHANGED asked

Refresh(t) ==
    /\ held[t] # app
    /\ Answered(t, app)
    /\ outcome' = "none"
    /\ UNCHANGED <<app, writes, asked>>

\* updateStatus: the row's stage menu.
Menu(t, next) ==
    /\ Exists(held[t]) /\ next # held[t].status
    /\ Fits(held[t], next, held[t].history)
    /\ ~SkipDropsDocuments(held[t], next)
    /\ Save(t, WithStatusChange(held[t], next))

\* markGhosted: the date stays as it is.
Ghost(t) ==
    /\ Exists(held[t]) /\ held[t].status \in {"applied", "interviewing"}
    /\ Fits(held[t], "ghosted", held[t].history)
    /\ Save(t, [held[t] EXCEPT !.status = "ghosted",
                               !.history = WithStageChange(held[t], "ghosted", @)])

\* buildApplication and stageChangeRefused: the form's stage and whether its date
\* field is filled.
FormDated(base, next, filled) ==
    /\ next # "draft"
    /\ next = "not_applying" => base.dated \/ ~JobOnly(base)
    /\ filled \/ base.dated \/ (next # "not_applying" /\ base.status \in {"draft", "not_applying"})
FormAllows(base, next, filled) ==
    /\ next \in Options(base.status)
    /\ Fits(base, next, base.history)
    /\ ~SkipDropsDocuments([base EXCEPT !.dated = filled \/ @], next)
Built(base, next, filled) ==
    LET record == [base EXCEPT !.status = next, !.dated = FormDated(base, next, filled),
                               !.history = IF next = "draft" THEN {} ELSE WithStageChange(base, next, @)]
    IN  IF next = "not_applying" /\ ~record.dated
        THEN [record EXCEPT !.docs = FALSE, !.history = {}] ELSE record

FormSave(t, next, filled) ==
    /\ Exists(held[t]) /\ FormAllows(held[t], next, filled)
    /\ Save(t, Built(held[t], next, filled))

\* The record was removed elsewhere: the form saves it again, without its files.
FormRecreate(t, next, filled) ==
    /\ Idle(t) /\ ~Exists(held[t]) /\ FormAllows(seen[t], next, filled)
    /\ Sent(t, [Built(seen[t], next, filled) EXCEPT !.docs = FALSE])
    /\ UNCHANGED asked

\* save asks whether to discard an unsaved timeline entry, changeRelatedRecord
\* whether to unlink or merge a related record; both go on with the record and the
\* fields the form had before it asked.
FormAsk(t, next, filled) ==
    /\ Idle(t)
    /\ Exists(held[t]) /\ FormAllows(held[t], next, filled)
    /\ asked' = [asked EXCEPT ![t] = Built(held[t], next, filled)]
    /\ outcome' = "none"
    /\ UNCHANGED <<app, writes, held, seen>>
FormConfirmed(t) ==
    /\ ~Idle(t)
    /\ asked' = [asked EXCEPT ![t] = Gone]
    /\ IF Exists(held[t]) /\ ~TransitionAllowed(held[t].status, asked[t].status)
       THEN outcome' = "none" /\ UNCHANGED <<app, writes, held, seen>>
       ELSE Sent(t, asked[t])

\* saveTimeline: an entry is logged, if there is room, or removed.
EntrySave(t, what) ==
    /\ Exists(held[t]) /\ held[t].dated
    /\ Cardinality(WithEntrySaved(held[t], what).history) <= MaxHistory
    /\ Save(t, WithEntrySaved(held[t], what))
EntryRemove(t) ==
    /\ Exists(held[t]) /\ held[t].dated
    /\ \E e \in held[t].history : Save(t, [held[t] EXCEPT !.history = @ \ {e}])

\* mergeApplications: the kept record gains an entry of the other one.
Merge(t, what) ==
    /\ Exists(held[t]) /\ held[t].dated /\ Cardinality(held[t].history) < MaxHistory
    /\ Save(t, [held[t] EXCEPT !.history = Added(@, what)])

\* appliedApplicationForSession and skipApplicationForSession on the record a
\* preparation was opened from.
ApplyPrepared(t) ==
    /\ Exists(held[t]) /\ held[t].status = "draft"
    /\ Save(t, [held[t] EXCEPT !.status = "applied", !.dated = TRUE])
SkipPrepared(t) ==
    /\ Exists(held[t]) /\ held[t].status = "draft"
    /\ Save(t, [held[t] EXCEPT !.status = "not_applying"])

\* saveApplicationAnswer.
SaveAnswer(t, a, text) ==
    /\ Exists(held[t]) /\ held[t].answers[a] = 0
    /\ Save(t, [held[t] EXCEPT !.answers[a] = text])

\* persistApplicationDocument: the documents are saved or removed.
SaveDocuments(t) ==
    /\ Idle(t) /\ Exists(held[t]) /\ Exists(app) /\ CurrentBase(t)
    /\ app.status \notin {"draft", "not_applying"}
    /\ \E docs \in BOOLEAN : Write([app EXCEPT !.docs = docs])
    /\ Answered(t, app')
    /\ outcome' = "saved"
    /\ UNCHANGED asked

\* A deletion; the tab that made it leaves the record's form.
Delete(t) ==
    /\ Idle(t) /\ Exists(held[t]) /\ Exists(app) /\ CurrentBase(t)
    /\ writes' = writes + 1
    /\ app' = Gone
    /\ Answered(t, Gone)
    /\ outcome' = "saved"
    /\ UNCHANGED asked

-----------------------------------------------------------------------------
(* The system *)

NoAnswers == [a \in AnswerIds |-> 0]
First(status, dated, docs) ==
    [status |-> status, dated |-> dated, docs |-> docs, history |-> {},
     answers |-> NoAnswers, rev |-> 1]

\* As a commit or a tab created it, or as older versions left it: submitted
\* without a date, or skipped before history was recorded.
Init ==
    /\ app \in {First("draft", FALSE, FALSE), First("not_applying", FALSE, FALSE),
                First("applied", TRUE, TRUE), First("applied", FALSE, TRUE),
                First("not_applying", TRUE, TRUE)}
    /\ writes = 0
    /\ held = [t \in Tabs |-> app] /\ seen = held
    /\ asked = [t \in Tabs |-> Gone]
    /\ outcome = "none"

Routes ==
    \/ \E s \in Statuses : StatusRoute(s)
    \/ \E what \in Events : EventRoute(what)
    \/ UpdateRoute
    \/ \E a \in AnswerIds, text \in 1 .. 2 : AnswerRoute(a, text)
    \/ ForeignStage \/ ForeignAnswers

TabStep(t) ==
    \/ Refresh(t) \/ Ghost(t) \/ EntryRemove(t) \/ ApplyPrepared(t) \/ SkipPrepared(t)
    \/ SaveDocuments(t) \/ Delete(t) \/ FormConfirmed(t)
    \/ \E s \in Statuses : Menu(t, s)
    \/ \E s \in Statuses, filled \in BOOLEAN :
          FormSave(t, s, filled) \/ FormRecreate(t, s, filled) \/ FormAsk(t, s, filled)
    \/ \E what \in Events : EntrySave(t, what) \/ Merge(t, what)
    \/ \E a \in AnswerIds, text \in 1 .. 2 : SaveAnswer(t, a, text)

Next == writes < MaxWrites /\ (Routes \/ \E t \in Tabs : TabStep(t))

Spec == Init /\ [][Next]_vars

-----------------------------------------------------------------------------
(* Properties *)

\* Type correctness; whatever route wrote the record last, a fresh read accepts it
\* and drops none of its documents.
TypeOK ==
    /\ app \in Record \cup {Gone}
    /\ Exists(app) => Valid(app) /\ (JobOnly(app) => ~app.docs)
    /\ writes \in 0 .. MaxWrites
    /\ held \in [Tabs -> Record \cup {Gone}]
    /\ seen \in [Tabs -> Record]
    /\ asked \in [Tabs -> Record \cup {Gone}]
    /\ outcome \in Outcomes

\* reconcile.ts: a submission is a fact no client can undo: once the record has an
\* application date it keeps one, and each later stage change, by whatever route,
\* leaves an entry of the new stage that was not there before.  It speaks of one
\* saved record and the next: the user may still delete a record, and one created
\* again under its id starts anew.
SubmissionIsHistory ==
    [][Exists(app) /\ Exists(app') /\ app.dated =>
         /\ app'.dated
         /\ app'.status # app.status =>
              \E e \in app'.history \ app.history : e.what = app'.status]_vars

\* A saved answer revision is never saved again with another text, from one saved
\* record to the next; an id that was removed, with its record or alone, is free.
AnswersAreFixed ==
    [][Exists(app) /\ Exists(app') =>
         \A a \in AnswerIds : app.answers[a] # 0 => app'.answers[a] \in {0, app.answers[a]}]_vars

\* The forms and the server agree on the rules: what a form lets the user save, on
\* the record as it is saved, the server never refuses.  It rests on ForeignStage:
\* no client has given a record without a date a timeline, which the server would
\* accept; the stage menu would then offer a Skip that is refused.
FormsAgreeWithServer == outcome # "refused"

\* useApplications.ts: a tab's save never replaces a version of the record its
\* edit was not built on.
UnseenVersionsAreKept == outcome # "unseen"
=============================================================================
