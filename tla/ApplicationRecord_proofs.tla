----------------------- MODULE ApplicationRecord_proofs -----------------------
(***************************************************************************)
(* Proofs about ApplicationRecord, for every set of tabs and answers, every *)
(* length of the history and every number of writes.                       *)
(***************************************************************************)
EXTENDS ApplicationRecord, FiniteSetTheorems, TLAPS

-----------------------------------------------------------------------------
(* The strengthening *)

\* What any edit builds, and what the server holds.
Made(r) == r \in Record /\ IsFiniteSet(r.history)
Kept(r) == Made(r) /\ Valid(r) /\ (JobOnly(r) => ~r.docs)

RecordInv ==
    /\ app = Gone \/ Kept(app)
    /\ writes \in 0 .. MaxWrites
    /\ held \in [Tabs -> Record \cup {Gone}]
    /\ seen \in [Tabs -> Record]
    /\ \A t \in Tabs : (held[t] = Gone \/ Kept(held[t])) /\ Kept(seen[t])
    /\ outcome \in Outcomes
AskedInv ==
    /\ asked \in [Tabs -> Record \cup {Gone}]
    /\ \A t \in Tabs : asked[t] = Gone \/ Made(asked[t])
Inv == RecordInv /\ AskedInv

\* No timeline without a date (ApplicationModal.tsx, ForeignStage).
Plain(r) == ~r.dated => r.history = {}

\* An edit of r that a form lets the user save, on the record as it is saved.
Lawful(r, next) ==
    /\ Valid(next) /\ Plain(next) /\ next.rev = r.rev
    /\ app = r => Reconcilable(r, Stored(next))

\* A tab's copy with the revision of the saved record is that record; an edit that
\* waits for its prompt passes the checks unless the record has changed since.
HeldAgrees(t) == held[t] # Gone =>
    /\ Plain(held[t]) /\ held[t].rev <= writes + 1
    /\ app # Gone /\ held[t].rev = app.rev => held[t] = app
AskedAgrees(t) == asked[t] # Gone =>
    /\ Valid(asked[t]) /\ Plain(asked[t]) /\ asked[t].rev <= writes + 1
    /\ app # Gone /\ asked[t].rev = app.rev => Reconcilable(app, Stored(asked[t]))
FormsInv ==
    /\ outcome # "refused"
    /\ app # Gone => Plain(app) /\ app.rev <= writes + 1
    /\ \A t \in Tabs : HeldAgrees(t) /\ AskedAgrees(t) /\ Plain(seen[t])

\* What the two action properties say of a step.
SubmissionStep ==
    Exists(app) /\ Exists(app') /\ app.dated =>
         /\ app'.dated
         /\ app'.status # app.status =>
              \E e \in app'.history \ app.history : e.what = app'.status
AnswerStep ==
    Exists(app) /\ Exists(app') =>
         \A a \in AnswerIds : app.answers[a] # 0 => app'.answers[a] \in {0, app.answers[a]}
Faithful == SubmissionStep /\ AnswerStep

-----------------------------------------------------------------------------
(* The ids of entries: the interval has room for all that are in view. *)

LEMMA IdsAreFew ==
    ASSUME NEW h \in SUBSET Entry, IsFiniteSet(h)
    PROVE  IsFiniteSet(Ids(h)) /\ Cardinality(Ids(h)) <= Cardinality(h)
<1> DEFINE f == [e \in h |-> e.id]
<1>1. f \in Surjection(h, Ids(h))
  <2>1. f \in [h -> Ids(h)]
    BY DEF Ids
  <2>2. \A i \in Ids(h) : \E e \in h : f[e] = i
    BY DEF Ids
  <2> QED BY <2>1, <2>2 DEF Surjection
<1> QED BY <1>1, FS_Surjection

LEMMA ViewIsSmall ==
    ASSUME NEW h \in SUBSET Entry, IsFiniteSet(h), Cardinality(h) <= MaxHistory + 1,
           app = Gone \/ Kept(app)
    PROVE  NewId(h) \in 1 .. 2 * MaxHistory + 2 /\ NewId(h) \notin InView(h)
<1> DEFINE K == 2 * MaxHistory + 2
<1>0. MaxHistory \in Nat
  BY RecordAssumption
<1>1. IsFiniteSet(InView(h)) /\ Cardinality(InView(h)) <= 2 * MaxHistory + 1
  <2>1. IsFiniteSet(Ids(h)) /\ Cardinality(Ids(h)) <= MaxHistory + 1
    BY IdsAreFew, FS_CardinalityType, <1>0
  <2>2. CASE app = Gone
    BY <2>1, <2>2, <1>0, FS_CardinalityType DEF InView, Exists
  <2>3. CASE app # Gone
    <3>1. app.history \in SUBSET Entry /\ IsFiniteSet(app.history) /\ Cardinality(app.history) <= MaxHistory
      BY <2>3 DEF Kept, Made, Record, Valid
    <3>2. IsFiniteSet(Ids(app.history)) /\ Cardinality(Ids(app.history)) <= MaxHistory
      BY <3>1, IdsAreFew, FS_CardinalityType, <1>0
    <3> DEFINE A == Ids(h)
               B == Ids(app.history)
    <3>3. InView(h) = A \cup B
      BY <2>3 DEF InView, Exists
    <3>4. IsFiniteSet(A \cup B) /\ Cardinality(A \cup B) = Cardinality(A) + Cardinality(B) - Cardinality(A \cap B)
      BY <2>1, <3>2, FS_Union
    <3>5. IsFiniteSet(A \cap B)
      BY <2>1, FS_Subset
    <3>6. Cardinality(A) \in Nat /\ Cardinality(B) \in Nat /\ Cardinality(A \cap B) \in Nat
      BY <2>1, <3>2, <3>5, FS_CardinalityType
    <3> HIDE DEF A, B
    <3>7. Cardinality(A) <= MaxHistory + 1 /\ Cardinality(B) <= MaxHistory
      BY <2>1, <3>2 DEF A, B
    <3> QED BY <3>3, <3>4, <3>6, <3>7, <1>0
  <2> QED BY <2>2, <2>3
<1>2. IsFiniteSet(1 .. K) /\ Cardinality(1 .. K) = K
  BY <1>0, FS_Interval
<1>3. ~(1 .. K \subseteq InView(h))
  <2> SUFFICES ASSUME 1 .. K \subseteq InView(h) PROVE FALSE
    OBVIOUS
  <2>1. Cardinality(1 .. K) <= Cardinality(InView(h))
    BY <1>1, FS_Subset
  <2>2. Cardinality(InView(h)) \in Nat
    BY <1>1, FS_CardinalityType
  <2> QED BY <1>0, <1>1, <1>2, <2>1, <2>2
<1>4. \E i \in 1 .. K : i \notin InView(h)
  BY <1>3
<1> QED BY <1>4 DEF NewId

-----------------------------------------------------------------------------
(* What the edits build *)

Whats == (ApplicationStatuses \ {"draft"}) \cup Events

LEMMA AddedIsEntry ==
    ASSUME NEW h \in SUBSET Entry, IsFiniteSet(h), Cardinality(h) <= MaxHistory + 1,
           app = Gone \/ Kept(app), NEW what \in Whats
    PROVE  /\ Added(h, what) \in SUBSET Entry /\ IsFiniteSet(Added(h, what))
           /\ Cardinality(Added(h, what)) \in Nat
           /\ Cardinality(Added(h, what)) <= Cardinality(h) + 1
<1>1. NewId(h) \in 1 .. 2 * MaxHistory + 2
  BY ViewIsSmall
<1> DEFINE e == [id |-> NewId(h), what |-> what]
<1>2. e \in Entry
  BY <1>1 DEF Entry, Whats
<1>3. Added(h, what) = h \cup {e}
  BY DEF Added
<1> HIDE DEF e
<1>4. Cardinality(h) \in Nat
  BY FS_CardinalityType
<1>5. /\ IsFiniteSet(h \cup {e})
      /\ Cardinality(h \cup {e}) = IF e \in h THEN Cardinality(h) ELSE Cardinality(h) + 1
  BY FS_AddElement
<1> QED BY <1>2, <1>3, <1>4, <1>5

LEMMA StageChangeIsMade ==
    ASSUME NEW r, NEW next \in ApplicationStatuses, NEW h \in SUBSET Entry, IsFiniteSet(h),
           Cardinality(h) <= MaxHistory + 1,
           r.status = "not_applying" => Cardinality(h) <= MaxHistory,
           app = Gone \/ Kept(app)
    PROVE  WithStageChange(r, next, h) \in SUBSET Entry /\ IsFiniteSet(WithStageChange(r, next, h))
<1>0. MaxHistory \in Nat /\ Cardinality(h) \in Nat
  BY RecordAssumption, FS_CardinalityType
<1>1. CASE ~r.dated \/ r.status = next \/ next = "draft"
  BY <1>1 DEF WithStageChange
<1>2. CASE ~(~r.dated \/ r.status = next \/ next = "draft")
  <2>1. next \in Whats
    BY <1>2 DEF Whats
  <2>2. CASE r.status = "not_applying" /\ \A e \in h : e.what # "not_applying"
    <3> DEFINE g == Added(h, "not_applying")
    <3>1. "not_applying" \in Whats
      BY DEF Whats, ApplicationStatuses
    <3>2. Cardinality(h) <= MaxHistory
      BY <2>2
    <3>3. /\ g \in SUBSET Entry /\ IsFiniteSet(g)
          /\ Cardinality(g) \in Nat /\ Cardinality(g) <= Cardinality(h) + 1
      BY <3>1, AddedIsEntry
    <3>4. WithStageChange(r, next, h) = Added(g, next)
      BY <1>2, <2>2 DEF WithStageChange
    <3> HIDE DEF g
    <3>5. Cardinality(g) <= MaxHistory + 1
      BY <3>2, <3>3, <1>0
    <3> QED BY <3>3, <3>4, <3>5, <2>1, AddedIsEntry
  <2>3. CASE ~(r.status = "not_applying" /\ \A e \in h : e.what # "not_applying")
    <3>1. WithStageChange(r, next, h) = Added(h, next)
      BY <1>2, <2>3 DEF WithStageChange
    <3> QED BY <3>1, <2>1, AddedIsEntry
  <2> QED BY <2>2, <2>3
<1> QED BY <1>1, <1>2

\* On the saved record, the entry of a stage change is a new one.
LEMMA StageIsRecorded ==
    ASSUME NEW r, NEW next \in ApplicationStatuses, NEW h \in SUBSET Entry, IsFiniteSet(h),
           Cardinality(h) <= MaxHistory + 1,
           r.status = "not_applying" => Cardinality(h) <= MaxHistory,
           app = r, Kept(app), app # Gone,
           r.dated, r.status # next, next # "draft"
    PROVE  \E e \in WithStageChange(r, next, h) : e.id \notin Ids(r.history) /\ e.what = next
<1>0. MaxHistory \in Nat /\ Cardinality(h) \in Nat
  BY RecordAssumption, FS_CardinalityType
<1>1. ASSUME NEW g \in SUBSET Entry, IsFiniteSet(g), Cardinality(g) <= MaxHistory + 1
      PROVE  \E e \in Added(g, next) : e.id \notin Ids(r.history) /\ e.what = next
  <2>1. NewId(g) \notin InView(g)
    BY <1>1, ViewIsSmall
  <2>2. NewId(g) \notin Ids(r.history)
    BY <2>1 DEF InView, Exists
  <2> DEFINE e == [id |-> NewId(g), what |-> next]
  <2>3. e \in Added(g, next) /\ e.id = NewId(g) /\ e.what = next
    BY DEF Added
  <2> QED BY <2>2, <2>3
<1>2. CASE r.status = "not_applying" /\ \A e \in h : e.what # "not_applying"
  <2> DEFINE g == Added(h, "not_applying")
  <2>1. "not_applying" \in Whats
    BY DEF Whats, ApplicationStatuses
  <2>2. Cardinality(h) <= MaxHistory
    BY <1>2
  <2>3. /\ g \in SUBSET Entry /\ IsFiniteSet(g)
        /\ Cardinality(g) \in Nat /\ Cardinality(g) <= Cardinality(h) + 1
    BY <2>1, AddedIsEntry
  <2>4. WithStageChange(r, next, h) = Added(g, next)
    BY <1>2 DEF WithStageChange
  <2> HIDE DEF g
  <2>5. Cardinality(g) <= MaxHistory + 1
    BY <1>0, <2>2, <2>3
  <2> QED BY <1>1, <2>3, <2>4, <2>5
<1>3. CASE ~(r.status = "not_applying" /\ \A e \in h : e.what # "not_applying")
  <2>1. WithStageChange(r, next, h) = Added(h, next)
    BY <1>3 DEF WithStageChange
  <2> QED BY <1>1, <2>1
<1> QED BY <1>2, <1>3

LEMMA KeptHistory ==
    ASSUME NEW r, Kept(r)
    PROVE  /\ r \in Record /\ r.history \in SUBSET Entry /\ IsFiniteSet(r.history)
           /\ Cardinality(r.history) \in Nat /\ Cardinality(r.history) <= MaxHistory
           /\ r.status \in ApplicationStatuses /\ r.dated \in BOOLEAN /\ r.docs \in BOOLEAN
BY FS_CardinalityType DEF Kept, Made, Record, Valid

LEMMA StatusChangeIsMade ==
    ASSUME NEW r, Kept(r), NEW next \in ApplicationStatuses, app = Gone \/ Kept(app)
    PROVE  Made(WithStatusChange(r, next))
<1> DEFINE h == WithStageChange(r, next, r.history)
<1>0. MaxHistory \in Nat
  BY RecordAssumption
<1>1. Cardinality(r.history) <= MaxHistory + 1
  BY KeptHistory, <1>0
<1>2. h \in SUBSET Entry /\ IsFiniteSet(h)
  BY KeptHistory, StageChangeIsMade, <1>1
<1>3. FirstSubmission(r, next) \in BOOLEAN
  BY DEF FirstSubmission, JobOnly
<1>4. (next # "draft" /\ (r.dated \/ FirstSubmission(r, next))) \in BOOLEAN
  OBVIOUS
<1> HIDE DEF h
<1>5. WithStatusChange(r, next) = [r EXCEPT !.status = next, !.history = h,
          !.dated = next # "draft" /\ (r.dated \/ FirstSubmission(r, next))]
  BY DEF WithStatusChange, h
<1>6. r \in Record
  BY KeptHistory
<1> QED BY <1>2, <1>4, <1>5, <1>6 DEF Made, Record

LEMMA EntrySavedIsMade ==
    ASSUME NEW r, Kept(r), NEW what \in Events, app = Gone \/ Kept(app)
    PROVE  Made(WithEntrySaved(r, what))
<1> DEFINE g == Added(r.history, what)
           s == Reopened(r, what)
           h == WithStageChange(r, s, g)
<1>0. MaxHistory \in Nat
  BY RecordAssumption
<1>1. what \in Whats
  BY DEF Whats
<1>2. s \in ApplicationStatuses
  BY KeptHistory DEF Reopened, ApplicationStatuses, Submitted
<1>3. /\ g \in SUBSET Entry /\ IsFiniteSet(g)
      /\ Cardinality(g) \in Nat /\ Cardinality(g) <= Cardinality(r.history) + 1
  BY <1>0, <1>1, KeptHistory, AddedIsEntry
<1>4. Cardinality(g) <= MaxHistory + 1
  BY <1>0, <1>3, KeptHistory
<1>5. h \in SUBSET Entry /\ IsFiniteSet(h)
  <2>1. CASE r.status = "not_applying"
    <3>1. s = r.status
      BY <2>1 DEF Reopened
    <3>2. h = g
      BY <3>1 DEF WithStageChange
    <3> QED BY <3>2, <1>3
  <2>2. CASE r.status # "not_applying"
    BY <2>2, <1>2, <1>3, <1>4, StageChangeIsMade
  <2> QED BY <2>1, <2>2
<1>6. WithEntrySaved(r, what) = [r EXCEPT !.status = s, !.history = h]
  BY DEF WithEntrySaved
<1> HIDE DEF g, s, h
<1>7. r \in Record
  BY KeptHistory
<1> QED BY <1>2, <1>5, <1>6, <1>7 DEF Made, Record

LEMMA BuiltIsMade ==
    ASSUME NEW base, Kept(base), NEW next \in ApplicationStatuses, NEW filled \in BOOLEAN,
           app = Gone \/ Kept(app)
    PROVE  Made(Built(base, next, filled))
<1> DEFINE h == IF next = "draft" THEN {} ELSE WithStageChange(base, next, base.history)
           record == [base EXCEPT !.status = next, !.dated = FormDated(base, next, filled),
                                  !.history = h]
<1>0. MaxHistory \in Nat
  BY RecordAssumption
<1>1. Cardinality(base.history) <= MaxHistory + 1
  BY KeptHistory, <1>0
<1>2. h \in SUBSET Entry /\ IsFiniteSet(h)
  <2>1. CASE next = "draft"
    BY <2>1, FS_EmptySet
  <2>2. CASE next # "draft"
    BY <2>2, <1>1, KeptHistory, StageChangeIsMade
  <2> QED BY <2>1, <2>2
<1>3. FormDated(base, next, filled) \in BOOLEAN
  BY DEF FormDated
<1>4. base \in Record
  BY KeptHistory
<1>5. Built(base, next, filled) = IF next = "not_applying" /\ ~record.dated
          THEN [record EXCEPT !.docs = FALSE, !.history = {}] ELSE record
  BY DEF Built
<1> HIDE DEF h
<1>6. Made(record)
  BY <1>2, <1>3, <1>4 DEF Made, Record
<1>7. Made([record EXCEPT !.docs = FALSE, !.history = {}])
  <2> HIDE DEF record
  <2>1. record \in Record
    BY <1>6 DEF Made
  <2> QED BY <2>1, FS_EmptySet DEF Made, Record
<1> QED BY <1>5, <1>6, <1>7

-----------------------------------------------------------------------------
(* What the server stores *)

LEMMA StoredIsMade ==
    ASSUME NEW next, Made(next), Valid(next)
    PROVE  /\ Kept(Stored(next))
           /\ Stored(next).status = next.status /\ Stored(next).dated = next.dated
           /\ Stored(next).history = next.history /\ Stored(next).answers = next.answers
<1>1. next \in Record
  BY DEF Made
<1>2. CASE JobOnly(next)
  <2> DEFINE r == [next EXCEPT !.docs = FALSE]
  <2>1. Stored(next) = r
    BY <1>2 DEF Stored
  <2>2. /\ r \in Record /\ r.status = next.status /\ r.dated = next.dated /\ ~r.docs
        /\ r.history = next.history /\ r.answers = next.answers
    BY <1>1 DEF Record
  <2> HIDE DEF r
  <2>3. JobOnly(r)
    BY <2>2, <1>2 DEF JobOnly
  <2> QED BY <2>1, <2>2, <2>3 DEF Kept, Made, Valid, JobOnly
<1>3. CASE ~JobOnly(next)
  BY <1>3 DEF Stored, Kept
<1> QED BY <1>2, <1>3

\* The checks look at what is kept of an edit as it is stored.
LEMMA Passes ==
    ASSUME NEW r, Kept(r), NEW next, Made(next), Valid(next),
           TransitionAllowed(r.status, next.status),
           ~(~r.dated /\ ~next.dated /\ r.docs /\ r.status # "not_applying" /\ next.status = "not_applying"),
           r.dated => next.dated,
           r.dated /\ r.status # next.status =>
              \E e \in next.history : e.id \notin Ids(r.history) /\ e.what = next.status,
           \A a \in AnswerIds : r.answers[a] # 0 => next.answers[a] = r.answers[a]
    PROVE  Reconcilable(r, Stored(next))
<1> DEFINE s == Stored(next)
<1>1. s.status = next.status /\ s.dated = next.dated /\ s.history = next.history /\ s.answers = next.answers
  BY StoredIsMade
<1> HIDE DEF s
<1>2. ~r.dated => ~SkipDropsDocuments([r EXCEPT !.dated = s.dated], s.status)
  <2> DEFINE q == [r EXCEPT !.dated = s.dated]
  <2>1. q.status = r.status /\ q.docs = r.docs /\ q.dated = s.dated
    BY DEF Kept, Made, Record
  <2> HIDE DEF q
  <2>2. ~r.dated => ~SkipDropsDocuments(q, s.status)
    BY <1>1, <2>1 DEF SkipDropsDocuments
  <2> QED BY <2>2 DEF q
<1>3. DateKept(r, s) /\ StageRecorded(r, s) /\ AnswersKept(r, s)
  BY <1>1 DEF DateKept, StageRecorded, AnswersKept
<1> QED BY <1>1, <1>2, <1>3 DEF Reconcilable, s

\* The revision is not part of what is checked.
LEMMA RevisionIsFree ==
    ASSUME NEW r, Kept(r), NEW n \in 1 .. MaxWrites + 1
    PROVE  LET s == [r EXCEPT !.rev = n]
           IN  /\ Kept(s) /\ s.status = r.status /\ s.dated = r.dated
               /\ s.history = r.history /\ s.answers = r.answers
<1> DEFINE s == [r EXCEPT !.rev = n]
<1>1. r \in Record
  BY DEF Kept, Made
<1>2. /\ s \in Record /\ s.status = r.status /\ s.dated = r.dated /\ s.docs = r.docs
      /\ s.history = r.history /\ s.answers = r.answers
  BY <1>1 DEF Record
<1> HIDE DEF s
<1>3. Kept(s)
  BY <1>2 DEF Kept, Made, Valid, JobOnly
<1> QED BY <1>2, <1>3 DEF s

\* A save or a route writes what it built when the checks pass.
LEMMA AcceptedWrite ==
    ASSUME Inv, writes < MaxWrites, NEW next, Made(next), Accepted(next), Write(next)
    PROVE  /\ Kept(app') /\ app' # Gone /\ writes' \in 0 .. MaxWrites
           /\ Faithful
<1>0. MaxWrites \in Nat /\ writes \in 0 .. MaxWrites
  BY RecordAssumption DEF Inv, RecordInv
<1>1. Valid(next) /\ (Exists(app) => Reconcilable(app, Stored(next)))
  BY DEF Accepted
<1> DEFINE s == Stored(next)
<1>2. Kept(s)
  BY <1>1, StoredIsMade
<1>3. writes' = writes + 1 /\ app' = [s EXCEPT !.rev = writes + 2]
  BY DEF Write
<1>4. writes + 2 \in 1 .. MaxWrites + 1
  BY <1>0
<1> HIDE DEF s
<1>5. /\ Kept(app') /\ app'.status = s.status /\ app'.dated = s.dated
      /\ app'.history = s.history /\ app'.answers = s.answers
  BY <1>2, <1>3, <1>4, RevisionIsFree
<1>6. app' # Gone
  BY <1>5, GoneAssumption DEF Kept, Made
<1>7. ASSUME Exists(app) PROVE Faithful
  <2>1. Kept(app)
    BY <1>7 DEF Inv, RecordInv, Exists
  <2>2. Reconcilable(app, s)
    BY <1>1, <1>7 DEF s
  <2>3. TransitionAllowed(app.status, s.status) /\ DateKept(app, s) /\ StageRecorded(app, s) /\ AnswersKept(app, s)
    BY <2>2 DEF Reconcilable
  <2>4. ASSUME app.dated PROVE app'.dated
    <3>1. app.status # "draft"
      BY <2>1, <2>4 DEF Kept, Valid
    <3>2. s.status # "draft"
      BY <2>3, <3>1 DEF TransitionAllowed
    <3> QED BY <2>3, <2>4, <3>2, <1>5 DEF DateKept
  <2>5. ASSUME app.dated, app'.status # app.status
        PROVE  \E e \in app'.history \ app.history : e.what = app'.status
    <3>1. PICK e \in s.history : e.id \notin Ids(app.history) /\ e.what = s.status
      BY <2>3, <2>5, <1>5 DEF StageRecorded
    <3>2. e \notin app.history
      BY <3>1 DEF Ids
    <3> QED BY <3>1, <3>2, <1>5
  <2>6. AnswerStep
    BY <2>3, <1>5 DEF AnswersKept, AnswerStep
  <2> QED BY <2>4, <2>5, <2>6 DEF Faithful, SubmissionStep
<1>8. ASSUME ~Exists(app) PROVE Faithful
  BY <1>8 DEF Faithful, SubmissionStep, AnswerStep
<1> QED BY <1>0, <1>3, <1>5, <1>6, <1>7, <1>8

\* The documents of a submitted record are written without those checks.
LEMMA DocumentsWrite ==
    ASSUME Inv, writes < MaxWrites, Exists(app), app.status \notin {"draft", "not_applying"},
           NEW docs \in BOOLEAN, Write([app EXCEPT !.docs = docs])
    PROVE  Kept(app') /\ writes' \in 0 .. MaxWrites /\ Faithful
<1> DEFINE r == [app EXCEPT !.docs = docs]
<1>0. MaxWrites \in Nat /\ writes \in 0 .. MaxWrites
  BY RecordAssumption DEF Inv, RecordInv
<1>1. Kept(app) /\ app \in Record
  BY DEF Inv, RecordInv, Exists, Kept, Made
<1>2. /\ r \in Record /\ r.status = app.status /\ r.dated = app.dated
      /\ r.history = app.history /\ r.answers = app.answers
  BY <1>1 DEF Record
<1>3. Write(r)
  OBVIOUS
<1> HIDE DEF r
<1>4. ~JobOnly(r)
  BY <1>2 DEF JobOnly
<1>5. Kept(r)
  BY <1>1, <1>2, <1>4 DEF Kept, Made, Valid, JobOnly
<1>6. writes' = writes + 1 /\ app' = [r EXCEPT !.rev = writes + 2]
  BY <1>3, <1>4 DEF Write, Stored
<1>7. writes + 2 \in 1 .. MaxWrites + 1
  BY <1>0
<1>8. /\ Kept(app') /\ app'.status = r.status /\ app'.dated = r.dated
      /\ app'.history = r.history /\ app'.answers = r.answers
  BY <1>5, <1>6, <1>7, RevisionIsFree
<1>9. Faithful
  BY <1>2, <1>8 DEF Faithful, SubmissionStep, AnswerStep
<1> QED BY <1>0, <1>6, <1>8, <1>9

-----------------------------------------------------------------------------
(* What the forms build, the server accepts. *)

LEMMA SameStage ==
    ASSUME NEW r, Kept(r), NEW next, Made(next),
           next.status = r.status, next.dated = r.dated, next.docs = r.docs, next.rev = r.rev,
           Cardinality(next.history) <= MaxHistory, r.dated \/ next.history = {},
           \A a \in AnswerIds : r.answers[a] # 0 => next.answers[a] = r.answers[a]
    PROVE  Lawful(r, next)
<1>1. Valid(next)
  BY DEF Kept, Valid, JobOnly
<1>2. TransitionAllowed(r.status, next.status)
  BY DEF TransitionAllowed, Options
<1>3. Reconcilable(r, Stored(next))
  BY <1>1, <1>2, Passes
<1> QED BY <1>1, <1>3 DEF Lawful, Plain

LEMMA StatusChangeIsLawful ==
    ASSUME NEW r, Kept(r), Plain(r), NEW next \in ApplicationStatuses, app = Gone \/ Kept(app),
           TransitionAllowed(r.status, next), r.status # next,
           Fits(r, next, r.history), ~SkipDropsDocuments(r, next)
    PROVE  Lawful(r, WithStatusChange(r, next))
<1> DEFINE h == WithStageChange(r, next, r.history)
           dated == next # "draft" /\ (r.dated \/ FirstSubmission(r, next))
           n == WithStatusChange(r, next)
<1>0. MaxHistory \in Nat /\ r \in Record
  BY RecordAssumption, KeptHistory
<1>1. Made(n)
  BY StatusChangeIsMade
<1>2. /\ n.status = next /\ n.history = h /\ n.dated = dated
      /\ n.docs = r.docs /\ n.answers = r.answers /\ n.rev = r.rev
  BY <1>0 DEF WithStatusChange, Record
<1> HIDE DEF n
<1>3. next # "draft"
  BY DEF TransitionAllowed, Options, Kept, Valid
<1>4. ~r.dated => h = {}
  BY DEF WithStageChange, Plain
<1>5. Cardinality(h) <= MaxHistory
  BY DEF Fits
<1> HIDE DEF h
<1>6. r.dated => dated
  BY <1>3
<1>7. JobOnly(n) => h = {}
  BY <1>2, <1>3, <1>4, <1>6 DEF JobOnly
<1>8. Valid(n)
  BY <1>2, <1>3, <1>5, <1>7 DEF Valid
<1>9. Plain(n)
  BY <1>2, <1>4, <1>6 DEF Plain
<1>10. ASSUME app = r PROVE Reconcilable(r, Stored(n))
  <2>1. app # Gone
    BY <1>0, <1>10, GoneAssumption
  <2>2. ASSUME r.dated PROVE \E e \in n.history : e.id \notin Ids(r.history) /\ e.what = n.status
    <3>1. /\ r.history \in SUBSET Entry /\ IsFiniteSet(r.history)
          /\ Cardinality(r.history) <= MaxHistory /\ Cardinality(r.history) <= MaxHistory + 1
      BY <1>0, KeptHistory
    <3> QED BY <1>2, <1>3, <1>10, <2>1, <2>2, <3>1, StageIsRecorded DEF h
  <2>3. ~(~r.dated /\ ~n.dated /\ r.docs /\ r.status # "not_applying" /\ n.status = "not_applying")
    BY <1>2 DEF SkipDropsDocuments
  <2>4. r.dated => n.dated
    BY <1>2, <1>6
  <2> QED BY <1>1, <1>2, <1>8, <2>2, <2>3, <2>4, Passes
<1> QED BY <1>2, <1>8, <1>9, <1>10 DEF Lawful, n

LEMMA EntrySavedIsLawful ==
    ASSUME NEW r, Kept(r), Plain(r), NEW what \in Events, app = Gone \/ Kept(app),
           r.dated, Cardinality(WithEntrySaved(r, what).history) <= MaxHistory
    PROVE  Lawful(r, WithEntrySaved(r, what))
<1> DEFINE g == Added(r.history, what)
           s == Reopened(r, what)
           n == WithEntrySaved(r, what)
<1>0. MaxHistory \in Nat /\ r \in Record
  BY RecordAssumption, KeptHistory
<1>1. Made(n)
  BY EntrySavedIsMade
<1>2. /\ n.status = s /\ n.history = WithStageChange(r, s, g) /\ n.dated = r.dated
      /\ n.docs = r.docs /\ n.answers = r.answers /\ n.rev = r.rev
  BY <1>0 DEF WithEntrySaved, Record
<1>3. Cardinality(n.history) <= MaxHistory
  OBVIOUS
<1> HIDE DEF n
<1>4. r.status # "draft"
  BY DEF Kept, Valid
<1>5. s = r.status \/ (r.status \in {"applied", "ghosted"} /\ s = "interviewing")
  BY DEF Reopened
<1>6. s # "draft" /\ TransitionAllowed(r.status, s)
  BY <1>4, <1>5 DEF TransitionAllowed
<1>7. Valid(n) /\ Plain(n)
  BY <1>2, <1>3, <1>6 DEF Valid, Plain, JobOnly
<1>8. ASSUME app = r PROVE Reconcilable(r, Stored(n))
  <2>1. app # Gone
    BY <1>0, <1>8, GoneAssumption
  <2>2. ASSUME r.status # n.status
        PROVE  \E e \in n.history : e.id \notin Ids(r.history) /\ e.what = n.status
    <3>1. s = "interviewing" /\ r.status # s /\ r.status # "not_applying"
      BY <1>2, <1>5, <2>2
    <3>2. what \in Whats /\ s \in ApplicationStatuses
      BY <3>1 DEF Whats, ApplicationStatuses, Submitted
    <3>3. /\ r.history \in SUBSET Entry /\ IsFiniteSet(r.history) /\ Cardinality(r.history) \in Nat
          /\ Cardinality(r.history) <= MaxHistory /\ Cardinality(r.history) <= MaxHistory + 1
      BY <1>0, KeptHistory
    <3>4. /\ g \in SUBSET Entry /\ IsFiniteSet(g)
          /\ Cardinality(g) \in Nat /\ Cardinality(g) <= Cardinality(r.history) + 1
      BY <3>2, <3>3, AddedIsEntry
    <3> HIDE DEF g, s
    <3>5. Cardinality(g) <= MaxHistory + 1
      BY <1>0, <3>3, <3>4
    <3> QED BY <1>2, <1>6, <1>8, <2>1, <3>1, <3>2, <3>4, <3>5, StageIsRecorded
  <2> QED BY <1>1, <1>2, <1>6, <1>7, <2>2, Passes
<1> QED BY <1>2, <1>7, <1>8 DEF Lawful, n

LEMMA BuiltIsLawful ==
    ASSUME NEW base, Kept(base), Plain(base), NEW next \in ApplicationStatuses, NEW filled \in BOOLEAN,
           app = Gone \/ Kept(app), FormAllows(base, next, filled)
    PROVE  Lawful(base, Built(base, next, filled))
<1> DEFINE h == IF next = "draft" THEN {} ELSE WithStageChange(base, next, base.history)
           dated == FormDated(base, next, filled)
           record == [base EXCEPT !.status = next, !.dated = dated, !.history = h]
           n == Built(base, next, filled)
           skips == next = "not_applying" /\ ~dated
<1>0. MaxHistory \in Nat /\ base \in Record
  BY RecordAssumption, KeptHistory
<1>1. Made(n)
  BY BuiltIsMade
<1>2. n = IF next = "not_applying" /\ ~record.dated
          THEN [record EXCEPT !.docs = FALSE, !.history = {}] ELSE record
  BY DEF Built
<1>3. /\ record.dated = dated /\ record.status = next /\ record.history = h
      /\ record.docs = base.docs /\ record.answers = base.answers /\ record.rev = base.rev
      /\ DOMAIN record = {"status", "dated", "docs", "history", "answers", "rev"}
  BY <1>0 DEF Record
<1> HIDE DEF n, h, dated, record
<1>4. /\ n.status = next /\ n.dated = dated /\ n.answers = base.answers /\ n.rev = base.rev
      /\ n.history = (IF skips THEN {} ELSE h) /\ n.docs = (IF skips THEN FALSE ELSE base.docs)
  BY <1>2, <1>3
<1>5. next = "draft" => base.status = "draft"
  BY DEF FormAllows, Options, Submitted
<1>6. TransitionAllowed(base.status, next)
  BY <1>5 DEF FormAllows, TransitionAllowed
<1>7. base.dated => dated
  <2>1. ASSUME base.dated PROVE base.status # "draft"
    BY <2>1 DEF Kept, Valid
  <2> QED BY <1>5, <2>1 DEF FormDated, dated
<1>8. ~base.dated => h = {}
  BY DEF h, WithStageChange, Plain
<1>9. Cardinality(h) <= MaxHistory /\ Cardinality({}) <= MaxHistory
  BY <1>0, FS_EmptySet DEF FormAllows, Fits, h
<1>10. next = "draft" => ~dated /\ ~base.docs /\ h = {}
  BY <1>5 DEF FormDated, dated, h, Kept, JobOnly
<1>11. Valid(n)
  BY <1>4, <1>9, <1>10 DEF Valid, JobOnly
<1>12. Plain(n)
  BY <1>4, <1>7, <1>8 DEF Plain
<1>13. ~(~base.dated /\ ~n.dated /\ base.docs /\ base.status # "not_applying" /\ n.status = "not_applying")
  <2> SUFFICES ASSUME ~base.dated, ~dated, base.docs, base.status # "not_applying", next = "not_applying"
               PROVE  FALSE
    BY <1>4
  <2> DEFINE q == [base EXCEPT !.dated = filled \/ @]
  <2>1. q.status = base.status /\ q.docs = base.docs /\ q.dated = (filled \/ base.dated)
    BY <1>0 DEF Record
  <2>2. ~SkipDropsDocuments(q, next)
    BY DEF FormAllows
  <2> HIDE DEF q
  <2>3. filled
    BY <2>1, <2>2 DEF SkipDropsDocuments
  <2>4. JobOnly(base)
    BY <2>3 DEF FormDated, dated
  <2> QED BY <2>4 DEF Kept
<1>14. ASSUME app = base PROVE Reconcilable(base, Stored(n))
  <2>1. app # Gone
    BY <1>0, <1>14, GoneAssumption
  <2>2. ASSUME base.dated, base.status # n.status
        PROVE  \E e \in n.history : e.id \notin Ids(base.history) /\ e.what = n.status
    <3>1. dated /\ next # "draft" /\ n.history = WithStageChange(base, next, base.history)
      BY <1>4, <1>7, <2>2 DEF dated, FormDated, h
    <3>2. /\ base.history \in SUBSET Entry /\ IsFiniteSet(base.history)
          /\ Cardinality(base.history) <= MaxHistory /\ Cardinality(base.history) <= MaxHistory + 1
      BY <1>0, KeptHistory
    <3> QED BY <1>4, <1>14, <2>1, <2>2, <3>1, <3>2, StageIsRecorded
  <2>3. base.dated => n.dated
    BY <1>4, <1>7
  <2> QED BY <1>1, <1>4, <1>6, <1>11, <1>13, <2>2, <2>3, Passes
<1> QED BY <1>4, <1>11, <1>12, <1>14 DEF Lawful, n

-----------------------------------------------------------------------------
(* The steps *)

LEMMA RouteStep ==
    ASSUME Inv, writes < MaxWrites, NEW next, Made(next), Route(next)
    PROVE  Inv' /\ Faithful
<1>1. Accepted(next) /\ Write(next)
  BY DEF Route
<1>2. /\ Kept(app') /\ writes' \in 0 .. MaxWrites /\ Faithful
  BY <1>1, AcceptedWrite
<1>3. outcome' \in Outcomes /\ UNCHANGED <<held, seen, asked>>
  BY DEF Route, Outcomes
<1>4. RecordInv'
  BY <1>2, <1>3 DEF Inv, RecordInv
<1>5. AskedInv'
  BY <1>3 DEF Inv, AskedInv
<1> QED BY <1>2, <1>4, <1>5 DEF Inv

\* A tab takes over the record, or learns that there is none.
LEMMA AnsweredStep ==
    ASSUME Inv, NEW t \in Tabs, NEW now, now = Gone \/ Kept(now), Answered(t, now)
    PROVE  /\ held' \in [Tabs -> Record \cup {Gone}] /\ seen' \in [Tabs -> Record]
           /\ \A u \in Tabs : (held'[u] = Gone \/ Kept(held'[u])) /\ Kept(seen'[u])
<1>1. now \in Record \cup {Gone}
  BY DEF Kept, Made
<1>2. /\ held \in [Tabs -> Record \cup {Gone}] /\ seen \in [Tabs -> Record]
      /\ \A u \in Tabs : (held[u] = Gone \/ Kept(held[u])) /\ Kept(seen[u])
  BY DEF Inv, RecordInv
<1>3. held' = [held EXCEPT ![t] = now]
  BY DEF Answered
<1>4. CASE now = Gone
  <2>1. seen' = seen
    BY <1>4 DEF Answered, Exists
  <2> QED BY <1>1, <1>2, <1>3, <1>4, <2>1
<1>5. CASE now # Gone
  <2>1. seen' = [seen EXCEPT ![t] = now] /\ now \in Record /\ Kept(now)
    BY <1>1, <1>5 DEF Answered, Exists
  <2> QED BY <1>1, <1>2, <1>3, <2>1
<1> QED BY <1>4, <1>5

LEMMA SentStep ==
    ASSUME Inv, writes < MaxWrites, NEW t \in Tabs, NEW next, Made(next), Sent(t, next)
    PROVE  RecordInv' /\ Faithful
<1>0. app = Gone \/ Kept(app)
  BY DEF Inv, RecordInv
<1>1. CASE /\ CurrentBase(t) /\ Accepted(next) /\ Write(next)
           /\ Answered(t, app')
           /\ outcome' = IF Unseen(next) THEN "unseen" ELSE "saved"
  <2>1. Kept(app') /\ writes' \in 0 .. MaxWrites /\ Faithful
    BY <1>1, AcceptedWrite
  <2>2. outcome' \in Outcomes
    BY <1>1 DEF Outcomes
  <2> DEFINE now == app'
  <2>3. Kept(now) /\ Answered(t, now)
    BY <1>1, <2>1
  <2> HIDE DEF now
  <2>4. /\ held' \in [Tabs -> Record \cup {Gone}] /\ seen' \in [Tabs -> Record]
        /\ \A u \in Tabs : (held'[u] = Gone \/ Kept(held'[u])) /\ Kept(seen'[u])
    BY <2>3, AnsweredStep
  <2> QED BY <2>1, <2>2, <2>4 DEF RecordInv
<1>2. CASE /\ ~CurrentBase(t)
           /\ Answered(t, app)
           /\ outcome' = "stale"
           /\ UNCHANGED <<app, writes>>
  <2>1. /\ held' \in [Tabs -> Record \cup {Gone}] /\ seen' \in [Tabs -> Record]
        /\ \A u \in Tabs : (held'[u] = Gone \/ Kept(held'[u])) /\ Kept(seen'[u])
    BY <1>0, <1>2, AnsweredStep
  <2>2. RecordInv'
    BY <1>2, <2>1 DEF Inv, RecordInv, Outcomes
  <2>3. Faithful
    BY <1>2 DEF Faithful, SubmissionStep, AnswerStep
  <2> QED BY <2>2, <2>3
<1>3. CASE /\ CurrentBase(t) /\ ~Accepted(next)
           /\ outcome' = IF Unseen(next) THEN "stale" ELSE "refused"
           /\ UNCHANGED <<app, writes, held, seen>>
  <2>1. outcome' \in Outcomes
    BY <1>3 DEF Outcomes
  <2>2. RecordInv'
    BY <1>3, <2>1 DEF Inv, RecordInv
  <2>3. Faithful
    BY <1>3 DEF Faithful, SubmissionStep, AnswerStep
  <2> QED BY <2>2, <2>3
<1> QED BY <1>1, <1>2, <1>3 DEF Sent

LEMMA SaveStep ==
    ASSUME Inv, writes < MaxWrites, NEW t \in Tabs, NEW next, Made(next), Save(t, next)
    PROVE  Inv' /\ Faithful
<1>1. Sent(t, next) /\ UNCHANGED asked
  BY DEF Save, Update
<1>2. RecordInv' /\ Faithful
  BY <1>1, SentStep
<1>3. AskedInv'
  BY <1>1 DEF Inv, AskedInv
<1> QED BY <1>2, <1>3 DEF Inv

\* What a route writes; none gives a record without a date a timeline.
LEMMA RouteBuilds ==
    ASSUME Inv, Routes
    PROVE  \E next \in Record : Made(next) /\ Route(next) /\ (Plain(app) => Plain(next))
<1> DEFINE Goal == \E next \in Record : Made(next) /\ Route(next) /\ (Plain(app) => Plain(next))
<1>b. ASSUME NEW n, Made(n), Route(n), Plain(app) => Plain(n) PROVE Goal
  BY <1>b DEF Made
<1> HIDE DEF Goal
<1>0. app = Gone \/ Kept(app)
  BY DEF Inv, RecordInv
<1>1. ASSUME NEW s \in Statuses, StatusRoute(s) PROVE Goal
  <2>1. PICK sent \in BOOLEAN : Route([WithStatusChange(app, s) EXCEPT !.docs = @ \/ sent])
    BY <1>1 DEF StatusRoute
  <2>2. Kept(app) /\ s \in ApplicationStatuses
    BY <1>0, <1>1, RecordAssumption DEF StatusRoute, Exists
  <2> DEFINE r == WithStatusChange(app, s)
             n == [r EXCEPT !.docs = @ \/ sent]
  <2>3. Made(r)
    BY <1>0, <2>2, StatusChangeIsMade
  <2>4. Route(n)
    BY <2>1
  <2>5. Plain(app) => Plain(r)
    <3>1. app.dated => s # "draft"
      BY <1>1, <2>2 DEF StatusRoute, MenuMoveAllowed, TransitionAllowed, Kept, Valid
    <3>2. r.history = WithStageChange(app, s, app.history) /\ (app.dated => r.dated)
      BY <2>2, <3>1, KeptHistory DEF WithStatusChange, Record
    <3> QED BY <3>2 DEF Plain, WithStageChange
  <2> HIDE DEF r
  <2>6. Made(n) /\ (Plain(app) => Plain(n))
    BY <2>3, <2>5 DEF Made, Record, Plain
  <2> HIDE DEF n
  <2> QED BY <1>b, <2>4, <2>6
<1>2. ASSUME NEW what \in Events, EventRoute(what) PROVE Goal
  <2>1. Kept(app) /\ Route(WithEntrySaved(app, what))
    BY <1>0, <1>2 DEF EventRoute, Exists
  <2>2. Made(WithEntrySaved(app, what))
    BY <1>0, <2>1, EntrySavedIsMade
  <2>3. WithEntrySaved(app, what).dated
    BY <1>2, <2>1, KeptHistory DEF EventRoute, WithEntrySaved, Record
  <2> QED BY <1>b, <2>1, <2>2, <2>3 DEF Plain
<1>3. ASSUME UpdateRoute PROVE Goal
  <2> DEFINE n == [app EXCEPT !.docs = TRUE]
  <2>1. Kept(app) /\ Route(n)
    BY <1>0, <1>3 DEF UpdateRoute, Exists
  <2>2. Made(n) /\ (Plain(app) => Plain(n))
    BY <2>1 DEF Kept, Made, Record, Plain
  <2> HIDE DEF n
  <2> QED BY <1>b, <2>1, <2>2
<1>4. ASSUME NEW a \in AnswerIds, NEW text \in 1 .. 2, AnswerRoute(a, text) PROVE Goal
  <2> DEFINE n == [app EXCEPT !.answers[a] = text]
  <2>1. Kept(app) /\ Route(n)
    BY <1>0, <1>4 DEF AnswerRoute, Exists
  <2>2. Made(n) /\ (Plain(app) => Plain(n))
    <3>1. app \in Record
      BY <2>1, KeptHistory
    <3>2. app.answers \in [AnswerIds -> 0 .. 2] /\ IsFiniteSet(app.history)
      BY <2>1 DEF Kept, Made, Record
    <3>3. [app.answers EXCEPT ![a] = text] \in [AnswerIds -> 0 .. 2]
      BY <3>2
    <3>4. n = [app EXCEPT !.answers = [app.answers EXCEPT ![a] = text]]
      OBVIOUS
    <3> QED BY <3>1, <3>2, <3>3, <3>4 DEF Made, Record, Plain
  <2> HIDE DEF n
  <2> QED BY <1>b, <2>1, <2>2
<1>5. ASSUME ForeignStage PROVE Goal
  <2>1. PICK s \in Statuses, dated \in BOOLEAN, docs \in BOOLEAN, dropped \in SUBSET app.history,
             what \in {"none"} \cup (Statuses \ {"draft"}) \cup Events :
          /\ ~dated => app.history \ dropped = {} /\ what = "none"
          /\ Route([app EXCEPT !.status = s, !.dated = dated, !.docs = docs,
                       !.history = IF what = "none" THEN app.history \ dropped
                                   ELSE Added(app.history \ dropped, what)])
    BY <1>5 DEF ForeignStage
  <2>2. Kept(app) /\ app \in Record /\ s \in ApplicationStatuses
    BY <1>0, <1>5, RecordAssumption, KeptHistory DEF ForeignStage, Exists
  <2> DEFINE rest == app.history \ dropped
             h == IF what = "none" THEN rest ELSE Added(rest, what)
             n == [app EXCEPT !.status = s, !.dated = dated, !.docs = docs, !.history = h]
  <2>3. /\ rest \in SUBSET Entry /\ IsFiniteSet(rest)
        /\ Cardinality(rest) <= Cardinality(app.history) /\ Cardinality(rest) \in Nat
    BY <2>2, KeptHistory, FS_Subset, FS_CardinalityType
  <2>4. Cardinality(rest) <= MaxHistory + 1
    BY <2>2, <2>3, KeptHistory, RecordAssumption
  <2>5. h \in SUBSET Entry /\ IsFiniteSet(h)
    <3>1. CASE what = "none"
      BY <3>1, <2>3
    <3>2. CASE what # "none"
      <4>1. what \in Whats
        BY <3>2, RecordAssumption DEF Whats
      <4>2. h = Added(rest, what)
        BY <3>2
      <4> HIDE DEF rest, h
      <4> QED BY <4>1, <4>2, <2>3, <2>4, <1>0, AddedIsEntry
    <3> QED BY <3>1, <3>2
  <2>6. Route(n) /\ (~dated => h = {})
    BY <2>1
  <2> HIDE DEF h
  <2>7. Made(n) /\ Plain(n)
    BY <2>2, <2>5, <2>6 DEF Made, Record, Plain
  <2> HIDE DEF n
  <2> QED BY <1>b, <2>6, <2>7
<1>6. ASSUME ForeignAnswers PROVE Goal
  <2>1. PICK answers \in [AnswerIds -> 0 .. 2] : Route([app EXCEPT !.answers = answers])
    BY <1>6 DEF ForeignAnswers
  <2> DEFINE n == [app EXCEPT !.answers = answers]
  <2>2. Kept(app) /\ Route(n)
    BY <1>0, <1>6, <2>1 DEF ForeignAnswers, Exists
  <2>3. Made(n) /\ (Plain(app) => Plain(n))
    BY <2>2 DEF Kept, Made, Record, Plain
  <2> HIDE DEF n
  <2> QED BY <1>b, <2>2, <2>3
<1>7. Goal
  BY <1>1, <1>2, <1>3, <1>4, <1>5, <1>6 DEF Routes
<1> QED BY <1>7 DEF Goal

LEMMA RoutesStep ==
    ASSUME Inv, writes < MaxWrites, Routes
    PROVE  Inv' /\ Faithful
BY RouteBuilds, RouteStep

\* A tab's edits of the record it has.
Edits(t) ==
    \/ Ghost(t) \/ EntryRemove(t) \/ ApplyPrepared(t) \/ SkipPrepared(t)
    \/ \E s \in Statuses : Menu(t, s)
    \/ \E s \in Statuses, filled \in BOOLEAN : FormSave(t, s, filled)
    \/ \E what \in Events : EntrySave(t, what) \/ Merge(t, what)
    \/ \E a \in AnswerIds, text \in 1 .. 2 : SaveAnswer(t, a, text)

LEMMA EditBuilds ==
    ASSUME Inv, NEW t \in Tabs, Edits(t)
    PROVE  /\ Kept(held[t])
           /\ \E next \in Record : Made(next) /\ Save(t, next) /\ (Plain(held[t]) => Lawful(held[t], next))
<1> DEFINE r == held[t]
           Goal == \E next \in Record : Made(next) /\ Save(t, next) /\ (Plain(r) => Lawful(r, next))
<1>0. /\ app = Gone \/ Kept(app)
      /\ r = Gone \/ Kept(r)
      /\ Statuses \subseteq ApplicationStatuses /\ MaxHistory \in Nat
  BY RecordAssumption DEF Inv, RecordInv
<1>k. Kept(r)
  BY <1>0 DEF Edits, Exists, Ghost, EntryRemove, ApplyPrepared, SkipPrepared, Menu, FormSave, EntrySave,
              Merge, SaveAnswer
<1>r. r \in Record /\ IsFiniteSet(r.history) /\ r.history \in SUBSET Entry
  BY <1>k, KeptHistory
<1>b. ASSUME NEW n, Made(n), Save(t, n), Plain(r) => Lawful(r, n) PROVE Goal
  BY <1>b DEF Made
<1>s. ASSUME NEW s \in ApplicationStatuses, r.status # s, TransitionAllowed(r.status, s),
             Fits(r, s, r.history), ~SkipDropsDocuments(r, s), Save(t, WithStatusChange(r, s))
      PROVE  Goal
  BY <1>0, <1>k, <1>b, <1>s, StatusChangeIsMade, StatusChangeIsLawful
<1>u. ASSUME NEW s \in ApplicationStatuses, NEW n, Save(t, n) PROVE TransitionAllowed(r.status, n.status)
  BY <1>u DEF Save, Update
<1> HIDE DEF Goal
<1>1. ASSUME Ghost(t) PROVE Goal
  <2> DEFINE n == [r EXCEPT !.status = "ghosted", !.history = WithStageChange(r, "ghosted", r.history)]
  <2>1. Save(t, n) /\ r.status \in {"applied", "interviewing"} /\ Fits(r, "ghosted", r.history)
    BY <1>1 DEF Ghost
  <2>2. "ghosted" \in ApplicationStatuses
    BY DEF ApplicationStatuses, Submitted
  <2>3. ~FirstSubmission(r, "ghosted")
    BY <2>1 DEF FirstSubmission, JobOnly
  <2>4. n = WithStatusChange(r, "ghosted")
    BY <1>r, <2>3 DEF WithStatusChange, Record
  <2>5. TransitionAllowed(r.status, "ghosted") /\ ~SkipDropsDocuments(r, "ghosted")
    BY <2>1 DEF TransitionAllowed, SkipDropsDocuments
  <2> HIDE DEF n
  <2> QED BY <1>s, <2>1, <2>2, <2>4, <2>5
<1>2. ASSUME EntryRemove(t) PROVE Goal
  <2>1. PICK e \in r.history : Save(t, [r EXCEPT !.history = @ \ {e}])
    BY <1>2 DEF EntryRemove
  <2> DEFINE h == r.history \ {e}
             n == [r EXCEPT !.history = h]
  <2>2. Save(t, n) /\ r.dated
    BY <1>2, <2>1 DEF EntryRemove
  <2>3. /\ h \in SUBSET Entry /\ IsFiniteSet(h) /\ Cardinality(h) \in Nat
        /\ Cardinality(h) <= Cardinality(r.history)
    BY <1>r, FS_Subset, FS_CardinalityType
  <2>4. Cardinality(h) <= MaxHistory
    BY <1>0, <1>k, <2>3, KeptHistory
  <2> HIDE DEF h
  <2>5. /\ Made(n) /\ n.status = r.status /\ n.dated = r.dated /\ n.docs = r.docs
        /\ n.history = h /\ n.answers = r.answers /\ n.rev = r.rev
    BY <1>r, <2>3 DEF Made, Record
  <2> HIDE DEF n
  <2>6. Lawful(r, n)
    BY <1>k, <2>2, <2>4, <2>5, SameStage
  <2> QED BY <1>b, <2>2, <2>5, <2>6
<1>3. ASSUME ApplyPrepared(t) PROVE Goal
  <2> DEFINE n == [r EXCEPT !.status = "applied", !.dated = TRUE]
  <2>1. Save(t, n) /\ r.status = "draft" /\ ~r.dated
    BY <1>3, <1>k DEF ApplyPrepared, Kept, Valid
  <2>2. "applied" \in ApplicationStatuses
    BY DEF ApplicationStatuses, Submitted
  <2>3. FirstSubmission(r, "applied")
    BY <2>1 DEF FirstSubmission, JobOnly, Submitted
  <2>4. n = WithStatusChange(r, "applied")
    BY <1>r, <2>1, <2>3 DEF WithStatusChange, WithStageChange, Record
  <2>5. TransitionAllowed(r.status, "applied") /\ ~SkipDropsDocuments(r, "applied")
    BY <2>1 DEF TransitionAllowed, Options, SkipDropsDocuments
  <2>6. Fits(r, "applied", r.history)
    BY <1>k, <2>1, KeptHistory DEF Fits, WithStageChange
  <2> HIDE DEF n
  <2> QED BY <1>s, <2>1, <2>2, <2>4, <2>5, <2>6
<1>4. ASSUME SkipPrepared(t) PROVE Goal
  <2> DEFINE n == [r EXCEPT !.status = "not_applying"]
  <2>1. Save(t, n) /\ r.status = "draft" /\ ~r.dated /\ ~r.docs
    BY <1>4, <1>k DEF SkipPrepared, Kept, Valid
  <2>2. "not_applying" \in ApplicationStatuses
    BY DEF ApplicationStatuses
  <2>3. ~FirstSubmission(r, "not_applying")
    BY DEF FirstSubmission, Submitted
  <2>4. n = WithStatusChange(r, "not_applying")
    BY <1>r, <2>1, <2>3 DEF WithStatusChange, WithStageChange, Record
  <2>5. TransitionAllowed(r.status, "not_applying") /\ ~SkipDropsDocuments(r, "not_applying")
    BY <2>1 DEF TransitionAllowed, Options, SkipDropsDocuments
  <2>6. Fits(r, "not_applying", r.history)
    BY <1>k, <2>1, KeptHistory DEF Fits, WithStageChange
  <2> HIDE DEF n
  <2> QED BY <1>s, <2>1, <2>2, <2>4, <2>5, <2>6
<1>5. ASSUME NEW s \in Statuses, Menu(t, s) PROVE Goal
  <2>1. /\ Save(t, WithStatusChange(r, s)) /\ r.status # s /\ Fits(r, s, r.history)
        /\ ~SkipDropsDocuments(r, s) /\ s \in ApplicationStatuses
    BY <1>0, <1>5 DEF Menu
  <2>2. WithStatusChange(r, s).status = s
    BY <1>r DEF WithStatusChange, Record
  <2>3. TransitionAllowed(r.status, s)
    BY <1>u, <2>1, <2>2
  <2> QED BY <1>s, <2>1, <2>3
<1>6. ASSUME NEW s \in Statuses, NEW filled \in BOOLEAN, FormSave(t, s, filled) PROVE Goal
  <2>1. Save(t, Built(r, s, filled)) /\ FormAllows(r, s, filled) /\ s \in ApplicationStatuses
    BY <1>0, <1>6 DEF FormSave
  <2>2. Made(Built(r, s, filled)) /\ (Plain(r) => Lawful(r, Built(r, s, filled)))
    BY <1>0, <1>k, <2>1, BuiltIsMade, BuiltIsLawful
  <2> QED BY <1>b, <2>1, <2>2
<1>7. ASSUME NEW what \in Events, EntrySave(t, what) PROVE Goal
  <2>1. /\ Save(t, WithEntrySaved(r, what)) /\ r.dated
        /\ Cardinality(WithEntrySaved(r, what).history) <= MaxHistory
    BY <1>7 DEF EntrySave
  <2>2. Made(WithEntrySaved(r, what)) /\ (Plain(r) => Lawful(r, WithEntrySaved(r, what)))
    BY <1>0, <1>k, <2>1, EntrySavedIsMade, EntrySavedIsLawful
  <2> QED BY <1>b, <2>1, <2>2
<1>8. ASSUME NEW what \in Events, Merge(t, what) PROVE Goal
  <2> DEFINE h == Added(r.history, what)
             n == [r EXCEPT !.history = h]
  <2>1. Save(t, n) /\ r.dated /\ Cardinality(r.history) < MaxHistory
    BY <1>8 DEF Merge
  <2>2. what \in Whats /\ Cardinality(r.history) <= MaxHistory + 1 /\ Cardinality(r.history) \in Nat
    BY <1>0, <1>k, KeptHistory DEF Whats
  <2>3. /\ h \in SUBSET Entry /\ IsFiniteSet(h)
        /\ Cardinality(h) \in Nat /\ Cardinality(h) <= Cardinality(r.history) + 1
    BY <1>0, <1>r, <2>2, AddedIsEntry
  <2> HIDE DEF h
  <2>4. Cardinality(h) <= MaxHistory
    BY <1>0, <2>1, <2>2, <2>3
  <2>5. /\ Made(n) /\ n.status = r.status /\ n.dated = r.dated /\ n.docs = r.docs
        /\ n.history = h /\ n.answers = r.answers /\ n.rev = r.rev
    BY <1>r, <2>3 DEF Made, Record
  <2> HIDE DEF n
  <2>6. Lawful(r, n)
    BY <1>k, <2>1, <2>4, <2>5, SameStage
  <2> QED BY <1>b, <2>1, <2>5, <2>6
<1>9. ASSUME NEW a \in AnswerIds, NEW text \in 1 .. 2, SaveAnswer(t, a, text) PROVE Goal
  <2> DEFINE answers == [r.answers EXCEPT ![a] = text]
             n == [r EXCEPT !.answers[a] = text]
  <2>1. Save(t, n) /\ r.answers[a] = 0
    BY <1>9 DEF SaveAnswer
  <2>2. r.answers \in [AnswerIds -> 0 .. 2]
    BY <1>r DEF Record
  <2>3. answers \in [AnswerIds -> 0 .. 2] /\ \A b \in AnswerIds : r.answers[b] # 0 => answers[b] = r.answers[b]
    BY <2>1, <2>2
  <2>4. n = [r EXCEPT !.answers = answers]
    OBVIOUS
  <2> HIDE DEF answers, n
  <2>5. /\ Made(n) /\ n.status = r.status /\ n.dated = r.dated /\ n.docs = r.docs
        /\ n.history = r.history /\ n.answers = answers /\ n.rev = r.rev
    BY <1>r, <2>3, <2>4 DEF Made, Record
  <2>6. Cardinality(r.history) <= MaxHistory
    BY <1>k, KeptHistory
  <2>7. Plain(r) => Lawful(r, n)
    BY <1>k, <2>3, <2>5, <2>6, SameStage DEF Plain
  <2> QED BY <1>b, <2>1, <2>5, <2>7
<1>10. Goal
  BY <1>1, <1>2, <1>3, <1>4, <1>5, <1>6, <1>7, <1>8, <1>9 DEF Edits
<1> QED BY <1>k, <1>10 DEF Goal

LEMMA EditsStep ==
    ASSUME Inv, writes < MaxWrites, NEW t \in Tabs, Edits(t)
    PROVE  Inv' /\ Faithful
BY EditBuilds, SaveStep

\* The other steps of a tab: reads, the form's prompt, a record saved again, its
\* documents and its deletion.
LEMMA OthersStep ==
    ASSUME Inv, writes < MaxWrites, NEW t \in Tabs,
           \/ Refresh(t) \/ SaveDocuments(t) \/ Delete(t) \/ FormConfirmed(t)
           \/ \E s \in Statuses, filled \in BOOLEAN : FormRecreate(t, s, filled) \/ FormAsk(t, s, filled)
    PROVE  Inv' /\ Faithful
<1>0. /\ app = Gone \/ Kept(app)
      /\ (held[t] = Gone \/ Kept(held[t])) /\ Kept(seen[t])
      /\ Statuses \subseteq ApplicationStatuses /\ MaxWrites \in Nat
  BY RecordAssumption DEF Inv, RecordInv
<1>1. ASSUME Refresh(t) PROVE Inv' /\ Faithful
  <2>1. Answered(t, app) /\ outcome' = "none" /\ UNCHANGED <<app, writes, asked>>
    BY <1>1 DEF Refresh
  <2>2. /\ held' \in [Tabs -> Record \cup {Gone}] /\ seen' \in [Tabs -> Record]
        /\ \A u \in Tabs : (held'[u] = Gone \/ Kept(held'[u])) /\ Kept(seen'[u])
    BY <1>0, <2>1, AnsweredStep
  <2>3. RecordInv' /\ AskedInv'
    BY <2>1, <2>2 DEF Inv, RecordInv, AskedInv, Outcomes
  <2> QED BY <2>1, <2>3 DEF Inv, Faithful, SubmissionStep, AnswerStep
<1>2. ASSUME SaveDocuments(t) PROVE Inv' /\ Faithful
  <2>1. PICK docs \in BOOLEAN : Write([app EXCEPT !.docs = docs])
    BY <1>2 DEF SaveDocuments
  <2>2. /\ Exists(app) /\ app.status \notin {"draft", "not_applying"}
        /\ Answered(t, app') /\ outcome' = "saved" /\ UNCHANGED asked
    BY <1>2 DEF SaveDocuments
  <2>3. Kept(app') /\ writes' \in 0 .. MaxWrites /\ Faithful
    BY <2>1, <2>2, DocumentsWrite
  <2> DEFINE now == app'
  <2>4. Kept(now) /\ Answered(t, now)
    BY <2>2, <2>3
  <2> HIDE DEF now
  <2>5. /\ held' \in [Tabs -> Record \cup {Gone}] /\ seen' \in [Tabs -> Record]
        /\ \A u \in Tabs : (held'[u] = Gone \/ Kept(held'[u])) /\ Kept(seen'[u])
    BY <2>4, AnsweredStep
  <2>6. RecordInv' /\ AskedInv'
    BY <2>2, <2>3, <2>5 DEF Inv, RecordInv, AskedInv, Outcomes
  <2> QED BY <2>3, <2>6 DEF Inv
<1>3. ASSUME Delete(t) PROVE Inv' /\ Faithful
  <2>1. /\ writes' = writes + 1 /\ app' = Gone /\ Answered(t, Gone)
        /\ outcome' = "saved" /\ UNCHANGED asked
    BY <1>3 DEF Delete
  <2>2. /\ held' \in [Tabs -> Record \cup {Gone}] /\ seen' \in [Tabs -> Record]
        /\ \A u \in Tabs : (held'[u] = Gone \/ Kept(held'[u])) /\ Kept(seen'[u])
    BY <2>1, AnsweredStep
  <2>3. writes' \in 0 .. MaxWrites
    BY <1>0, <2>1 DEF Inv, RecordInv
  <2>4. RecordInv' /\ AskedInv'
    BY <2>1, <2>2, <2>3 DEF Inv, RecordInv, AskedInv, Outcomes
  <2> QED BY <2>1, <2>4 DEF Inv, Faithful, SubmissionStep, AnswerStep, Exists
<1>4. ASSUME FormConfirmed(t) PROVE Inv' /\ Faithful
  <2>1. asked' = [asked EXCEPT ![t] = Gone] /\ asked[t] # Gone
    BY <1>4 DEF FormConfirmed, Idle
  <2>2. AskedInv' /\ Made(asked[t])
    BY <2>1 DEF Inv, AskedInv
  <2>3. CASE outcome' = "none" /\ UNCHANGED <<app, writes, held, seen>>
    <3>1. RecordInv'
      BY <2>3 DEF Inv, RecordInv, Outcomes
    <3> QED BY <2>2, <2>3, <3>1 DEF Inv, Faithful, SubmissionStep, AnswerStep
  <2>4. CASE Sent(t, asked[t])
    <3>1. RecordInv' /\ Faithful
      BY <2>2, <2>4, SentStep
    <3> QED BY <2>2, <3>1 DEF Inv
  <2> QED BY <1>4, <2>3, <2>4 DEF FormConfirmed
<1>5. ASSUME NEW s \in Statuses, NEW filled \in BOOLEAN, FormRecreate(t, s, filled) PROVE Inv' /\ Faithful
  <2> DEFINE b == Built(seen[t], s, filled)
             n == [b EXCEPT !.docs = FALSE]
  <2>1. Sent(t, n) /\ UNCHANGED asked
    BY <1>5 DEF FormRecreate
  <2>2. Kept(seen[t])
    BY DEF Inv, RecordInv
  <2>3. Made(b)
    BY <1>0, <2>2, BuiltIsMade
  <2> HIDE DEF b
  <2>4. Made(n)
    BY <2>3 DEF Made, Record
  <2> HIDE DEF n
  <2>5. RecordInv' /\ Faithful
    BY <2>1, <2>4, SentStep
  <2>6. AskedInv'
    BY <2>1 DEF Inv, AskedInv
  <2> QED BY <2>5, <2>6 DEF Inv
<1>6. ASSUME NEW s \in Statuses, NEW filled \in BOOLEAN, FormAsk(t, s, filled) PROVE Inv' /\ Faithful
  <2> DEFINE b == Built(held[t], s, filled)
  <2>1. /\ asked' = [asked EXCEPT ![t] = b] /\ outcome' = "none"
        /\ UNCHANGED <<app, writes, held, seen>> /\ Kept(held[t])
    BY <1>0, <1>6 DEF FormAsk, Exists
  <2>2. Made(b)
    BY <1>0, <2>1, BuiltIsMade
  <2> HIDE DEF b
  <2>3. b \in Record
    BY <2>2 DEF Made
  <2>4. AskedInv'
    BY <2>1, <2>2, <2>3 DEF Inv, AskedInv
  <2>5. RecordInv'
    BY <2>1 DEF Inv, RecordInv, Outcomes
  <2> QED BY <2>1, <2>4, <2>5 DEF Inv, Faithful, SubmissionStep, AnswerStep
<1> QED BY <1>1, <1>2, <1>3, <1>4, <1>5, <1>6

-----------------------------------------------------------------------------
(* No form is refused. *)

\* A step keeps the agreement of the copies when it leaves the record alone, takes
\* it away, or writes one with a revision nobody has.
LEMMA RecordMoves ==
    ASSUME Inv, FormsInv, writes' \in Nat,
           \/ app' = app /\ writes' = writes
           \/ /\ writes' = writes + 1
              /\ app' = Gone \/ (Plain(app') /\ app'.rev = writes + 2),
           \A t \in Tabs : /\ held'[t] = held[t] \/ held'[t] = app'
                           /\ seen'[t] = seen[t] \/ (app' # Gone /\ seen'[t] = app')
                           /\ asked'[t] = asked[t] \/ asked'[t] = Gone,
           outcome' # "refused"
    PROVE  FormsInv'
<1>0. writes \in Nat /\ (app # Gone => app.rev \in Nat)
      /\ \A t \in Tabs : /\ held[t] # Gone => held[t].rev \in Nat
                         /\ asked[t] # Gone => asked[t].rev \in Nat
  <2>1. ASSUME NEW r \in Record PROVE r.rev \in Nat
    BY RecordAssumption DEF Record
  <2> QED BY <2>1, RecordAssumption DEF Inv, RecordInv, AskedInv, Kept, Made
<1>1. app' # Gone => Plain(app') /\ app'.rev <= writes' + 1
  BY <1>0 DEF FormsInv
<1>2. ASSUME NEW t \in Tabs PROVE HeldAgrees(t)'
  <2>1. CASE held'[t] = app'
    BY <1>1, <2>1 DEF HeldAgrees
  <2>2. CASE held'[t] = held[t]
    <3>1. HeldAgrees(t)
      BY DEF FormsInv
    <3>2. CASE app' = app /\ writes' = writes
      BY <2>2, <3>1, <3>2 DEF HeldAgrees
    <3>3. CASE writes' = writes + 1 /\ (app' = Gone \/ (Plain(app') /\ app'.rev = writes + 2))
      BY <1>0, <2>2, <3>1, <3>3 DEF HeldAgrees
    <3> QED BY <3>2, <3>3
  <2> QED BY <2>1, <2>2
<1>3. ASSUME NEW t \in Tabs PROVE AskedAgrees(t)'
  <2>1. CASE asked'[t] = Gone
    BY <2>1 DEF AskedAgrees
  <2>2. CASE asked'[t] = asked[t]
    <3>1. AskedAgrees(t)
      BY DEF FormsInv
    <3>2. CASE app' = app /\ writes' = writes
      BY <2>2, <3>1, <3>2 DEF AskedAgrees
    <3>3. CASE writes' = writes + 1 /\ (app' = Gone \/ (Plain(app') /\ app'.rev = writes + 2))
      BY <1>0, <2>2, <3>1, <3>3 DEF AskedAgrees
    <3> QED BY <3>2, <3>3
  <2> QED BY <2>1, <2>2
<1>4. ASSUME NEW t \in Tabs PROVE Plain(seen'[t])
  BY <1>1 DEF FormsInv
<1> QED BY <1>1, <1>2, <1>3, <1>4 DEF FormsInv

LEMMA WriteIsNew ==
    ASSUME Inv, writes < MaxWrites, NEW next, Made(next), Valid(next), Plain(next), Write(next)
    PROVE  /\ writes' = writes + 1 /\ writes' \in Nat
           /\ Plain(app') /\ app'.rev = writes + 2
<1> DEFINE s == Stored(next)
<1>1. s \in Record /\ s.dated = next.dated /\ s.history = next.history
  BY StoredIsMade DEF Kept, Made
<1>2. writes' = writes + 1 /\ app' = [s EXCEPT !.rev = writes + 2]
  BY DEF Write
<1> HIDE DEF s
<1>3. app'.rev = writes + 2 /\ app'.dated = s.dated /\ app'.history = s.history
  BY <1>1, <1>2 DEF Record
<1> QED BY <1>1, <1>2, <1>3, RecordAssumption DEF Inv, RecordInv, Plain

LEMMA AnsweredTabs ==
    ASSUME Inv, NEW t \in Tabs, NEW now, Answered(t, now)
    PROVE  \A u \in Tabs : /\ held'[u] = held[u] \/ held'[u] = now
                           /\ seen'[u] = seen[u] \/ (now # Gone /\ seen'[u] = now)
BY DEF Answered, Inv, RecordInv, Exists

\* What is sent is accepted, or was built on another version of the record.
LEMMA SentForms ==
    ASSUME Inv, FormsInv, writes < MaxWrites, NEW t \in Tabs, NEW next, Made(next), Plain(next),
           CurrentBase(t) /\ ~Unseen(next) => Accepted(next), Sent(t, next),
           \A u \in Tabs : asked'[u] = asked[u] \/ asked'[u] = Gone
    PROVE  FormsInv'
<1>0. writes \in Nat
  BY RecordAssumption DEF Inv, RecordInv
<1>1. CASE /\ CurrentBase(t) /\ Accepted(next) /\ Write(next)
           /\ Answered(t, app')
           /\ outcome' = IF Unseen(next) THEN "unseen" ELSE "saved"
  <2>1. /\ writes' = writes + 1 /\ writes' \in Nat
        /\ Plain(app') /\ app'.rev = writes + 2
    BY <1>1, WriteIsNew DEF Accepted
  <2> DEFINE now == app'
  <2>2. Answered(t, now)
    BY <1>1
  <2> HIDE DEF now
  <2>3. \A u \in Tabs : /\ held'[u] = held[u] \/ held'[u] = now
                        /\ seen'[u] = seen[u] \/ (now # Gone /\ seen'[u] = now)
    BY <2>2, AnsweredTabs
  <2>4. outcome' # "refused"
    BY <1>1
  <2> QED BY <2>1, <2>3, <2>4, RecordMoves DEF now
<1>2. CASE /\ ~CurrentBase(t)
           /\ Answered(t, app)
           /\ outcome' = "stale"
           /\ UNCHANGED <<app, writes>>
  <2>1. \A u \in Tabs : /\ held'[u] = held[u] \/ held'[u] = app
                        /\ seen'[u] = seen[u] \/ (app # Gone /\ seen'[u] = app)
    BY <1>2, AnsweredTabs
  <2> QED BY <1>0, <1>2, <2>1, RecordMoves
<1>3. CASE /\ CurrentBase(t) /\ ~Accepted(next)
           /\ outcome' = IF Unseen(next) THEN "stale" ELSE "refused"
           /\ UNCHANGED <<app, writes, held, seen>>
  BY <1>0, <1>3, RecordMoves
<1> QED BY <1>1, <1>2, <1>3 DEF Sent

LEMMA EditForms ==
    ASSUME Inv, FormsInv, writes < MaxWrites, NEW t \in Tabs, Edits(t)
    PROVE  FormsInv'
<1>1. HeldAgrees(t) /\ Kept(held[t]) /\ held[t] # Gone
  BY EditBuilds, GoneAssumption DEF FormsInv, Kept, Made
<1>2. PICK next \in Record : Made(next) /\ Save(t, next) /\ Lawful(held[t], next)
  BY <1>1, EditBuilds DEF HeldAgrees
<1>3. Plain(next) /\ Sent(t, next) /\ UNCHANGED asked
  BY <1>2 DEF Lawful, Save, Update
<1>4. CurrentBase(t) /\ ~Unseen(next) => Accepted(next)
  BY <1>1, <1>2 DEF CurrentBase, Unseen, Accepted, Exists, HeldAgrees, Lawful
<1> QED BY <1>2, <1>3, <1>4, SentForms

LEMMA OtherForms ==
    ASSUME Inv, FormsInv, writes < MaxWrites, NEW t \in Tabs,
           \/ Refresh(t) \/ SaveDocuments(t) \/ Delete(t) \/ FormConfirmed(t)
           \/ \E s \in Statuses, filled \in BOOLEAN : FormRecreate(t, s, filled) \/ FormAsk(t, s, filled)
    PROVE  FormsInv'
<1>0. /\ writes \in Nat /\ Statuses \subseteq ApplicationStatuses
      /\ app = Gone \/ Kept(app)
      /\ held[t] = Gone \/ Kept(held[t])
      /\ Kept(seen[t]) /\ Plain(seen[t]) /\ HeldAgrees(t) /\ AskedAgrees(t)
  BY RecordAssumption DEF Inv, RecordInv, FormsInv
<1>1. ASSUME Refresh(t) PROVE FormsInv'
  <2>1. Answered(t, app) /\ outcome' = "none" /\ UNCHANGED <<app, writes, asked>>
    BY <1>1 DEF Refresh
  <2>2. \A u \in Tabs : /\ held'[u] = held[u] \/ held'[u] = app
                        /\ seen'[u] = seen[u] \/ (app # Gone /\ seen'[u] = app)
    BY <2>1, AnsweredTabs
  <2> QED BY <1>0, <2>1, <2>2, RecordMoves
<1>2. ASSUME SaveDocuments(t) PROVE FormsInv'
  <2>1. PICK docs \in BOOLEAN : Write([app EXCEPT !.docs = docs])
    BY <1>2 DEF SaveDocuments
  <2> DEFINE n == [app EXCEPT !.docs = docs]
             now == app'
  <2>2. /\ app # Gone /\ app.status \notin {"draft", "not_applying"}
        /\ Answered(t, now) /\ outcome' = "saved" /\ UNCHANGED asked /\ Write(n)
    BY <1>2, <2>1 DEF SaveDocuments, Exists
  <2>3. /\ Made(n) /\ n.status = app.status /\ n.dated = app.dated /\ n.history = app.history
    BY <1>0, <2>2 DEF Kept, Made, Record
  <2> HIDE DEF n
  <2>4. Valid(n) /\ Plain(n)
    BY <1>0, <2>2, <2>3 DEF Kept, Valid, JobOnly, FormsInv, Plain
  <2>5. /\ writes' = writes + 1 /\ writes' \in Nat
        /\ Plain(app') /\ app'.rev = writes + 2
    BY <2>2, <2>3, <2>4, WriteIsNew
  <2> HIDE DEF now
  <2>6. \A u \in Tabs : /\ held'[u] = held[u] \/ held'[u] = now
                        /\ seen'[u] = seen[u] \/ (now # Gone /\ seen'[u] = now)
    BY <2>2, AnsweredTabs
  <2> QED BY <2>2, <2>5, <2>6, RecordMoves DEF now
<1>3. ASSUME Delete(t) PROVE FormsInv'
  <2>1. /\ writes' = writes + 1 /\ app' = Gone /\ Answered(t, Gone)
        /\ outcome' = "saved" /\ UNCHANGED asked
    BY <1>3 DEF Delete
  <2>2. \A u \in Tabs : /\ held'[u] = held[u] \/ held'[u] = Gone
                        /\ seen'[u] = seen[u]
    BY <2>1, AnsweredTabs
  <2> QED BY <1>0, <2>1, <2>2, RecordMoves
<1>4. ASSUME FormConfirmed(t) PROVE FormsInv'
  <2>1. /\ asked' = [asked EXCEPT ![t] = Gone] /\ asked[t] # Gone
    BY <1>4 DEF FormConfirmed, Idle
  <2>2. /\ Made(asked[t]) /\ Valid(asked[t]) /\ Plain(asked[t])
        /\ \A u \in Tabs : asked'[u] = asked[u] \/ asked'[u] = Gone
    BY <1>0, <2>1 DEF Inv, AskedInv, AskedAgrees
  <2>3. CASE outcome' = "none" /\ UNCHANGED <<app, writes, held, seen>>
    BY <1>0, <2>2, <2>3, RecordMoves
  <2>4. CASE Sent(t, asked[t])
    <3>1. ~Unseen(asked[t]) => Accepted(asked[t])
      BY <1>0, <2>1, <2>2 DEF Unseen, Accepted, Exists, AskedAgrees
    <3> QED BY <2>2, <2>4, <3>1, SentForms
  <2> QED BY <1>4, <2>3, <2>4 DEF FormConfirmed
<1>5. ASSUME NEW s \in Statuses, NEW filled \in BOOLEAN, FormRecreate(t, s, filled) PROVE FormsInv'
  <2> DEFINE b == Built(seen[t], s, filled)
             n == [b EXCEPT !.docs = FALSE]
  <2>1. Sent(t, n) /\ UNCHANGED asked /\ held[t] = Gone /\ FormAllows(seen[t], s, filled)
    BY <1>5 DEF FormRecreate, Exists
  <2>2. Made(b) /\ Lawful(seen[t], b)
    BY <1>0, <2>1, BuiltIsMade, BuiltIsLawful
  <2> HIDE DEF b
  <2>3. Made(n) /\ n.status = b.status /\ n.dated = b.dated /\ n.history = b.history /\ ~n.docs
    BY <2>2 DEF Made, Record
  <2> HIDE DEF n
  <2>4. Valid(n) /\ Plain(n)
    BY <2>2, <2>3 DEF Lawful, Valid, JobOnly, Plain
  <2>5. CurrentBase(t) => Accepted(n)
    BY <2>1, <2>4 DEF CurrentBase, Accepted, Exists
  <2> QED BY <2>1, <2>3, <2>4, <2>5, SentForms
<1>6. ASSUME NEW s \in Statuses, NEW filled \in BOOLEAN, FormAsk(t, s, filled) PROVE FormsInv'
  <2> DEFINE b == Built(held[t], s, filled)
  <2>1. /\ asked' = [asked EXCEPT ![t] = b] /\ outcome' = "none"
        /\ UNCHANGED <<app, writes, held, seen>>
        /\ held[t] # Gone /\ FormAllows(held[t], s, filled)
    BY <1>6 DEF FormAsk, Exists
  <2>2. Lawful(held[t], b)
    BY <1>0, <2>1, BuiltIsLawful DEF HeldAgrees
  <2> HIDE DEF b
  <2>3. /\ Valid(b) /\ Plain(b) /\ b.rev <= writes + 1
        /\ app # Gone /\ b.rev = app.rev => Reconcilable(app, Stored(b))
    BY <1>0, <2>1, <2>2 DEF Lawful, HeldAgrees
  <2>4. ASSUME NEW u \in Tabs PROVE AskedAgrees(u)'
    BY <2>1, <2>3, <2>4 DEF AskedAgrees, FormsInv, Inv, AskedInv
  <2>5. ASSUME NEW u \in Tabs PROVE HeldAgrees(u)' /\ Plain(seen'[u])
    BY <2>1, <2>5 DEF HeldAgrees, FormsInv
  <2> QED BY <2>1, <2>4, <2>5 DEF FormsInv
<1> QED BY <1>1, <1>2, <1>3, <1>4, <1>5, <1>6

-----------------------------------------------------------------------------
(* The theorems *)

LEMMA InitRecord == Init => Kept(app) /\ Plain(app) /\ app.rev = 1
<1> SUFFICES ASSUME Init PROVE Kept(app) /\ Plain(app) /\ app.rev = 1
  OBVIOUS
<1>1. NoAnswers \in [AnswerIds -> 0 .. 2] /\ 1 \in 1 .. MaxWrites + 1 /\ MaxWrites \in Nat
  BY RecordAssumption DEF NoAnswers
<1>2. Made(app)
  <2>1. ASSUME NEW s \in {"draft", "applied", "not_applying"}, NEW dated \in BOOLEAN, NEW docs \in BOOLEAN
        PROVE  Made(First(s, dated, docs))
    <3>1. s \in ApplicationStatuses
      BY DEF ApplicationStatuses, Submitted
    <3>2. {} \in SUBSET Entry /\ IsFiniteSet({})
      BY FS_EmptySet
    <3> QED BY <1>1, <3>1, <3>2 DEF First, Made, Record
  <2> QED BY <2>1 DEF Init
<1>3. Valid(app)
  BY FS_EmptySet, RecordAssumption DEF Init, First, Valid, JobOnly
<1>4. JobOnly(app) => ~app.docs
  BY DEF Init, First, JobOnly
<1>5. Plain(app) /\ app.rev = 1
  BY DEF Init, First, Plain
<1> QED BY <1>2, <1>3, <1>4, <1>5 DEF Kept

LEMMA InitInv == Init => Inv
<1> SUFFICES ASSUME Init PROVE Inv
  OBVIOUS
<1>1. Kept(app) /\ app \in Record
  BY InitRecord DEF Kept, Made
<1>2. writes \in 0 .. MaxWrites /\ outcome \in Outcomes
  BY RecordAssumption DEF Init, Outcomes
<1>3. held = [t \in Tabs |-> app] /\ seen = held
  BY DEF Init
<1>4. RecordInv
  BY <1>1, <1>2, <1>3 DEF RecordInv
<1>5. AskedInv
  BY DEF Init, AskedInv
<1> QED BY <1>4, <1>5 DEF Inv

LEMMA NextInv == Inv /\ [Next]_vars => Inv' /\ (Faithful \/ UNCHANGED vars)
<1> SUFFICES ASSUME Inv, [Next]_vars PROVE Inv' /\ (Faithful \/ UNCHANGED vars)
  OBVIOUS
<1>1. CASE Next
  <2>1. writes < MaxWrites
    BY <1>1 DEF Next
  <2>2. CASE Routes
    BY <2>1, <2>2, RoutesStep
  <2>3. ASSUME NEW t \in Tabs, TabStep(t) PROVE Inv' /\ Faithful
    <3>1. CASE Edits(t)
      BY <2>1, <3>1, EditsStep
    <3>2. CASE \/ Refresh(t) \/ SaveDocuments(t) \/ Delete(t) \/ FormConfirmed(t)
               \/ \E s \in Statuses, filled \in BOOLEAN : FormRecreate(t, s, filled) \/ FormAsk(t, s, filled)
      BY <2>1, <3>2, OthersStep
    <3> QED BY <2>3, <3>1, <3>2 DEF TabStep, Edits
  <2> QED BY <1>1, <2>2, <2>3 DEF Next
<1>2. CASE UNCHANGED vars
  <2>1. UNCHANGED <<app, writes, held, seen, asked, outcome>>
    BY <1>2 DEF vars
  <2>2. RecordInv' /\ AskedInv'
    BY <2>1 DEF Inv, RecordInv, AskedInv
  <2> QED BY <1>2, <2>2 DEF Inv
<1> QED BY <1>1, <1>2

\* Every variable stays in its range, and what the server holds a fresh read
\* accepts as it is, whatever forms, routes and other clients write.
THEOREM TypeCorrect == Spec => []TypeOK
<1>1. Inv => TypeOK
  BY DEF Inv, RecordInv, AskedInv, TypeOK, Kept, Made, Exists
<1> QED BY <1>1, InitInv, NextInv, PTL DEF Spec

\* A submission is never erased: from one saved record to the next the date stays
\* and a new stage leaves an entry of its own, whatever saves, routes and
\* recreations came before.
THEOREM SubmissionsAreHistory == Spec => SubmissionIsHistory
<1>1. Faithful \/ UNCHANGED vars =>
        [Exists(app) /\ Exists(app') /\ app.dated =>
           /\ app'.dated
           /\ app'.status # app.status =>
                \E e \in app'.history \ app.history : e.what = app'.status]_vars
  BY DEF Faithful, SubmissionStep
<1> QED BY <1>1, InitInv, NextInv, PTL DEF Spec, SubmissionIsHistory

\* A saved answer keeps its text from one saved record to the next.
THEOREM AnswersStayFixed == Spec => AnswersAreFixed
<1>1. Faithful \/ UNCHANGED vars =>
        [Exists(app) /\ Exists(app') =>
           \A a \in AnswerIds : app.answers[a] # 0 => app'.answers[a] \in {0, app.answers[a]}]_vars
  BY DEF Faithful, AnswerStep
<1> QED BY <1>1, InitInv, NextInv, PTL DEF Spec, AnswersAreFixed

LEMMA InitForms == Init => FormsInv
<1> SUFFICES ASSUME Init PROVE FormsInv
  OBVIOUS
<1>1. Plain(app) /\ app.rev = 1 /\ writes = 0 /\ app # Gone
  BY InitRecord, GoneAssumption DEF Init, Kept, Made
<1>2. \A t \in Tabs : held[t] = app /\ seen[t] = app /\ asked[t] = Gone
  BY DEF Init
<1> QED BY <1>1, <1>2 DEF Init, FormsInv, HeldAgrees, AskedAgrees

LEMMA NextForms == Inv /\ FormsInv /\ [Next]_vars => FormsInv'
<1> SUFFICES ASSUME Inv, FormsInv, [Next]_vars PROVE FormsInv'
  OBVIOUS
<1>1. ASSUME Next, Routes PROVE FormsInv'
  <2>1. writes < MaxWrites
    BY <1>1 DEF Next
  <2>2. PICK next \in Record : Made(next) /\ Route(next) /\ (Plain(app) => Plain(next))
    BY <1>1, RouteBuilds
  <2>3. /\ app # Gone /\ Accepted(next) /\ Write(next) /\ outcome' = "none"
        /\ UNCHANGED <<held, seen, asked>>
    BY <2>2 DEF Route, Exists
  <2>4. Valid(next) /\ Plain(next)
    BY <2>2, <2>3 DEF Accepted, FormsInv
  <2>5. /\ writes' = writes + 1 /\ writes' \in Nat
        /\ Plain(app') /\ app'.rev = writes + 2
    BY <2>1, <2>2, <2>3, <2>4, WriteIsNew
  <2> QED BY <2>3, <2>5, RecordMoves
<1>2. ASSUME Next, NEW t \in Tabs, TabStep(t) PROVE FormsInv'
  BY <1>2, EditForms, OtherForms DEF Next, TabStep, Edits
<1>3. CASE UNCHANGED vars
  BY <1>3 DEF vars, FormsInv, HeldAgrees, AskedAgrees, Plain
<1> QED BY <1>1, <1>2, <1>3 DEF Next

\* What a form lets the user save the server does not refuse: the rules of
\* applicationStageHistory.ts and ApplicationModal.tsx are those of reconcile.ts,
\* for every record and every order of routes, prompts and recreations, as long as
\* no client gives a record without a date a timeline.
THEOREM FormsAgree == Spec => []FormsAgreeWithServer
<1>1. FormsInv => FormsAgreeWithServer
  BY DEF FormsInv, FormsAgreeWithServer
<1> QED BY <1>1, InitInv, InitForms, NextInv, NextForms, PTL DEF Spec
=============================================================================
