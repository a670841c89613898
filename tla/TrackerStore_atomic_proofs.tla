--------------------- MODULE TrackerStore_atomic_proofs ---------------------
(***************************************************************************)
(* TrackerStore implements AtomicTracker, for every set of ids, files and  *)
(* requests, as long as no other program edits applications.json: every    *)
(* step of the handlers is one step of the atomic tracker, or none.        *)
(***************************************************************************)
EXTENDS TrackerStore_proofs

\* The change of the lock holder's request is on disk and not yet answered.
Renaming == pc \in {"confirm", "trash"} /\ ~local.upgrade

\* Nobody edits the file, and only a request that was to be saved reaches the
\* rename, after an upgrade that left its own phase.
TaskAnswers ==
    /\ edits = 0 /\ ~raced
    /\ pc = "trash" => ~local.upgrade
    /\ pc \in {"files", "write", "confirm", "trash"} /\ ~local.upgrade =>
          Doing.kind # "list" /\ ~Doing.dry

AtomicIInv == UpdateIInv /\ TaskAnswers

-----------------------------------------------------------------------------
(* The strengthening is an invariant                                         *)

\* A step that keeps the task's phase and request, or takes it out of the
\* phases that lead to the rename.
LEMMA AnswersQuiet ==
    ASSUME TaskAnswers, edits' = edits, ~raced',
           \/ pc' \notin {"files", "write", "confirm", "trash"}
           \/ local' = local /\ pc' = pc /\ Doing' = Doing
           \/ local' = local /\ pc = "files" /\ pc' = "write" /\ Doing' = Doing
    PROVE  TaskAnswers'
BY DEF TaskAnswers

LEMMA AnswersSubmit ==
    ASSUME AtomicIInv, NEW r \in Requests, Submit(r)
    PROVE  TaskAnswers'
<1>1. UNCHANGED <<pc, local, edits, raced>> /\ TypeInv /\ TaskAnswers
  BY DEF Submit, taskVars, boundVars, historyVars, AtomicIInv, UpdateIInv, CacheIInv
<1>2. CASE queue # <<>>
  BY <1>1, <1>2, SubmitKeepsDoing, AnswersQuiet DEF TaskAnswers
<1>3. CASE queue = <<>>
  BY <1>1, <1>3, AnswersQuiet DEF TaskAnswers, TypeInv, TaskShape
<1> QED
  BY <1>2, <1>3

\* Reading: the lock holder gets a snapshot, an answer, or a file to upgrade.
LEMMA AnswersRead ==
    ASSUME AtomicIInv, TakeLock \/ ReadFile
    PROVE  TaskAnswers'
<1>1. TaskAnswers /\ local \in Local
  BY DEF AtomicIInv, UpdateIInv, CacheIInv, TypeInv, TypeOK, TaskOK
<1>2. CASE TakeLock
  BY <1>1, <1>2, AnswersQuiet DEF TakeLock, Return, RememberAndReturn, boundVars
<1>3. CASE ReadFile /\ pc' # "write"
  BY <1>1, <1>3, AnswersQuiet DEF ReadFile, Return, RememberAndReturn, Finish, boundVars,
                                  historyVars, TaskAnswers
<1>4. CASE ReadFile /\ pc' = "write"
  <2>1. local' = [local EXCEPT !.next = Readable(disk), !.upgrade = TRUE]
    BY <1>4 DEF ReadFile, Return, RememberAndReturn, Finish
  <2>2. local'.upgrade
    BY <1>1, <2>1 DEF Local
  <2>3. edits' = edits /\ raced' = raced
    BY <1>4 DEF ReadFile, boundVars, historyVars
  <2> QED
    BY <1>1, <1>4, <2>2, <2>3 DEF TaskAnswers
<1> QED
  BY <1>2, <1>3, <1>4

LEMMA AnswersBegin ==
    ASSUME AtomicIInv, Begin
    PROVE  TaskAnswers'
<1>1. /\ Doing.kind # "list" /\ ~Doing.dry /\ pc' \in {"files", "write"}
      /\ UNCHANGED <<queue, op, edits, raced>> /\ TaskAnswers
  BY DEF Begin, Writing, boundVars, historyVars, AtomicIInv
<1>2. Doing' = Doing
  BY <1>1 DEF Doing, Me
<1> QED
  BY <1>1, <1>2 DEF TaskAnswers

LEMMA AnswersWriteTracker ==
    ASSUME AtomicIInv, WriteTracker
    PROVE  TaskAnswers'
<1>1. /\ pc = "write" /\ pc' = "confirm" /\ UNCHANGED <<queue, op, edits, raced>> /\ TaskAnswers
      /\ local'.upgrade = local.upgrade
  BY DEF WriteTracker, At, boundVars, AtomicIInv, UpdateIInv, CacheIInv, TypeInv, TypeOK, TaskOK, Local
<1>2. Doing' = Doing
  BY <1>1 DEF Doing, Me
<1> QED
  BY <1>1, <1>2 DEF TaskAnswers

LEMMA AnswersConfirm ==
    ASSUME AtomicIInv, Confirm
    PROVE  TaskAnswers'
<1>1. pc = "confirm" /\ edits' = edits /\ raced' = raced /\ op' = op /\ TaskAnswers
  BY DEF Confirm, At, AtomicIInv
<1>2. CASE pc' = "wait"
  BY <1>1, <1>2, AnswersQuiet DEF TaskAnswers
<1>3. CASE pc' # "wait"
  <2>1. pc' = "trash" /\ ~local.upgrade /\ UNCHANGED <<local, queue>>
    BY <1>3 DEF Confirm, AfterWrite, Finish
  <2>2. Doing' = Doing
    BY <1>1, <2>1 DEF Doing, Me
  <2> QED
    BY <1>1, <2>1, <2>2 DEF TaskAnswers
<1> QED
  BY <1>2, <1>3

LEMMA AnswersFiles ==
    ASSUME AtomicIInv, NEW f \in Files, WriteFile(f) \/ FileFails(f) \/ RestoreFile(f) \/ RestoreFails(f)
    PROVE  TaskAnswers'
<1>1. TaskAnswers /\ edits' = edits /\ raced' = raced /\ ~raced'
  BY DEF AtomicIInv, TaskAnswers, WriteFile, FileFails, RestoreFile, RestoreFails, boundVars, historyVars
<1>2. CASE WriteFile(f)
  BY <1>1, <1>2, AnswersQuiet DEF WriteFile, At, Doing, Me
<1>3. CASE FileFails(f)
  BY <1>1, <1>3, AnswersQuiet DEF FileFails, Undo, Finish
<1>4. CASE RestoreFile(f)
  BY <1>1, <1>4, AnswersQuiet DEF RestoreFile, At, Finish
<1>5. CASE RestoreFails(f)
  BY <1>1, <1>5, AnswersQuiet DEF RestoreFails, Finish
<1> QED
  BY <1>2, <1>3, <1>4, <1>5

LEMMA AnswersRest ==
    ASSUME AtomicIInv,
           \/ ReadFails \/ AnswerList \/ RefuseUnreadable \/ AnswerWithoutWriting
           \/ PreviousReadFails \/ WipeFolder \/ Crash \/ WriteFails
           \/ \E i \in Ids : TrashFolder(i)
           \/ \E t \in strays : StrayLands(t)
           \/ UNCHANGED vars
    PROVE  TaskAnswers'
<1>1. TaskAnswers /\ ~raced
  BY DEF AtomicIInv, TaskAnswers
<1>2. CASE (\E t \in strays : StrayLands(t)) \/ UNCHANGED vars
  <2>1. UNCHANGED <<pc, local, queue, op, edits, raced>>
    BY <1>2 DEF StrayLands, vars, taskVars, boundVars, historyVars
  <2>2. Doing' = Doing
    BY <2>1 DEF Doing, Me
  <2> QED
    BY <1>1, <2>1, <2>2, AnswersQuiet
<1>3. CASE Crash
  BY <1>1, <1>3, AnswersQuiet DEF Crash
<1>4. CASE ReadFails \/ AnswerList \/ RefuseUnreadable \/ AnswerWithoutWriting \/ PreviousReadFails
  BY <1>1, <1>4, AnswersQuiet DEF ReadFails, AnswerList, RefuseUnreadable, AnswerWithoutWriting,
                                  PreviousReadFails, Finish, boundVars, historyVars
<1>5. CASE WipeFolder
  BY <1>1, <1>5, AnswersQuiet DEF WipeFolder, Finish, historyVars
<1>6. CASE WriteFails
  BY <1>1, <1>6, AnswersQuiet DEF WriteFails, RememberAndReturn, Return, Undo, Finish, historyVars
<1>7. ASSUME NEW i \in Ids, TrashFolder(i)
      PROVE  TaskAnswers'
  <2>1. UNCHANGED <<edits, raced, op>>
    BY <1>7 DEF TrashFolder, historyVars
  <2>2. CASE Finish("ok")
    BY <1>1, <2>1, <2>2, AnswersQuiet DEF Finish
  <2>3. CASE UNCHANGED <<pc, local, queue, reply>>
    <3>1. Doing' = Doing
      BY <2>1, <2>3 DEF Doing, Me
    <3> QED
      BY <1>1, <2>1, <2>3, <3>1, AnswersQuiet
  <2> QED
    BY <1>7, <2>2, <2>3 DEF TrashFolder
<1> QED
  BY <1>2, <1>3, <1>4, <1>5, <1>6, <1>7

\* With no edits allowed, none happens.
LEMMA NoOutsideEdit ==
    ASSUME MaxEdits = 0, TaskAnswers
    PROVE  ~\E form \in EditForms : OutsideEdit(form)
BY DEF TaskAnswers, OutsideEdit

LEMMA AtomicNext ==
    ASSUME MaxEdits = 0, AtomicIInv, [Next]_vars
    PROVE  AtomicIInv'
<1>1. UpdateIInv'
  BY UpdateNext DEF AtomicIInv
<1>2. TaskAnswers'
  BY NoOutsideEdit, AnswersSubmit, AnswersRead, AnswersBegin, AnswersWriteTracker, AnswersConfirm,
     AnswersFiles, AnswersRest DEF Next, TaskStep, FaultStep, Environment, AtomicIInv
<1> QED
  BY <1>1, <1>2 DEF AtomicIInv

-----------------------------------------------------------------------------
(* The mapping                                                               *)

\* What the atomic tracker's clients see of a step that answers nobody, writes
\* nothing and moves no request past its rename.
LEMMA Stutter ==
    ASSUME UNCHANGED <<op, reply, sent>>, Readable(disk)' = Readable(disk),
           \/ UNCHANGED <<queue, pc, local>>
           \/ ~Renaming /\ ~Renaming'
    PROVE  UNCHANGED Atomic!vars
<1>1. ASSUME NEW r \in Requests PROVE AnswerOf(r)' = AnswerOf(r)
  BY DEF AnswerOf, Renamed, Renaming, Me
<1> QED
  BY <1>1 DEF Atomic!vars

\* The request at the head has not been answered yet.
LEMMA HeadIsQueued ==
    ASSUME TypeInv, queue # <<>>
    PROVE  Me \in Requests /\ reply[Me] = "queued"
<1>1. queue \in Seq(Requests) /\ Head(queue) = queue[1] /\ Len(queue) \in Nat \ {0}
  BY DEF TypeInv, TypeOK, RequestsOK
<1> QED
  BY <1>1, MeType DEF Me, TypeInv, QueueShape

\* The lock holder's answer is its request's answer: saved after the rename,
\* kept before it, with the tracker as it is or no tracker at all.
LEMMA FinishIsAnswer ==
    ASSUME TypeInv, queue # <<>>, NEW answer \in Answers \ {"none", "queued", "lost"},
           Finish(answer), op' = op, Readable(disk)' = Readable(disk),
           \/ sent' = sent
           \/ \E e : e.recs = Readable(disk) /\ sent' = sent \cup {e},
           Renaming => answer = "ok" /\ Doing.kind # "list" /\ ~Doing.dry,
           ~Renaming /\ answer = "ok" => Doing.kind = "list" \/ Doing.dry
    PROVE  Atomic!Answer(Me)
<1>1. Me \in Requests /\ reply[Me] = "queued" /\ reply \in [Requests -> Answers]
  BY HeadIsQueued DEF TypeInv, TypeOK, RequestsOK
<1>2. reply' = [reply EXCEPT ![Me] = answer] /\ pc' = "wait"
  BY DEF Finish
<1>3. AnswerOf(Me) = IF Renaming THEN "changed" ELSE "asked"
  BY <1>1 DEF AnswerOf, Renamed, Renaming
<1>4. \A r \in Requests : AnswerOf(r)' = IF r # Me THEN AnswerOf(r)
                                         ELSE IF Renaming THEN "saved" ELSE "kept"
  <2>1. ASSUME NEW r \in Requests, r # Me PROVE AnswerOf(r)' = AnswerOf(r)
    BY <1>1, <1>2, <2>1 DEF AnswerOf, Renamed
  <2>2. reply'[Me] = answer /\ op'[Me] = Doing
    BY <1>1, <1>2 DEF Doing
  <2>3. CASE Renaming
    BY <1>1, <2>1, <2>2, <2>3 DEF AnswerOf, Doing
  <2>4. CASE ~Renaming
    BY <1>1, <2>1, <2>2, <2>4 DEF AnswerOf, Doing, Answers
  <2> QED
    BY <2>3, <2>4
<1>5. {e.recs : e \in sent}' \in {{e.recs : e \in sent}, {e.recs : e \in sent} \cup {Readable(disk)}}
  OBVIOUS
<1> QED
  BY <1>1, <1>3, <1>4, <1>5 DEF Atomic!Answer

\* A request that joins the queue is a call.
LEMMA SubmitIsCall ==
    ASSUME AtomicIInv, NEW r \in Requests, Submit(r)
    PROVE  Atomic!Call(r)
<1>1. /\ TypeInv /\ reply[r] = "none" /\ reply' = [reply EXCEPT ![r] = "queued"]
      /\ queue \in Seq(Requests) /\ queue' = Append(queue, r)
      /\ UNCHANGED <<disk, pc, local, sent>> /\ reply \in [Requests -> Answers]
      /\ \A s \in Requests \ {r} : op'[s] = op[s]
  BY DEF Submit, taskVars, historyVars, AtomicIInv, UpdateIInv, CacheIInv, TypeInv, TypeOK, RequestsOK
<1>2. ~Renamed(r)' /\ \A s \in Requests \ {r} : Renamed(s)' = Renamed(s)
  <2>1. CASE queue = <<>>
    BY <1>1, <2>1 DEF Renamed, TypeInv, TaskShape
  <2>2. CASE queue # <<>>
    <3>1. Me # r /\ Me' = Me /\ queue' # <<>>
      BY <1>1, <2>2, HeadIsQueued DEF Me
    <3> QED
      BY <1>1, <2>2, <3>1 DEF Renamed
  <2> QED
    BY <2>1, <2>2
<1>3. AnswerOf(r) = "idle" /\ AnswerOf(r)' = "asked"
  BY <1>1, <1>2 DEF AnswerOf
<1>4. \A s \in Requests \ {r} : AnswerOf(s)' = AnswerOf(s)
  BY <1>1, <1>2 DEF AnswerOf
<1>5. Readable(disk)' = Readable(disk)
  BY <1>1 DEF Readable
<1> QED
  BY <1>1, <1>3, <1>4, <1>5 DEF Atomic!Call

\* A crash loses every answer still due.
LEMMA CrashIsLose ==
    ASSUME AtomicIInv, Crash
    PROVE  Atomic!Lose
<1>1. /\ reply' = [r \in Requests |-> IF reply[r] = "queued" THEN "lost" ELSE reply[r]]
      /\ pc' = "wait" /\ UNCHANGED <<disk, op, sent>> /\ reply \in [Requests -> Answers]
  BY DEF Crash, AtomicIInv, UpdateIInv, CacheIInv, TypeInv, TypeOK, RequestsOK
<1>2. ASSUME NEW r \in Requests
      PROVE  AnswerOf(r)' = IF AnswerOf(r) \in {"asked", "changed"} THEN "lost" ELSE AnswerOf(r)
  BY <1>1 DEF AnswerOf, Renamed, Answers
<1>3. Readable(disk)' = Readable(disk)
  BY <1>1 DEF Readable
<1> QED
  BY <1>1, <1>2, <1>3 DEF Atomic!Lose

\* The rename that is not an upgrade is the change: it touches only records the
\* request names, from the revisions it sent.
LEMMA RenameIsChange ==
    ASSUME AtomicIInv, WriteTracker, ~local.upgrade
    PROVE  Atomic!Change(Me)
<1>1. /\ queue # <<>> /\ pc = "write" /\ pc' = "confirm" /\ UNCHANGED <<queue, op, reply, sent>>
      /\ TypeInv /\ SnapshotInv /\ ~raced
      /\ disk' = [ident |-> mint + 1, form |-> "current", recs |-> local.next, bad |-> {}]
  BY DEF WriteTracker, At, AtomicIInv, UpdateIInv, CacheIInv, TaskAnswers
<1>2. Me \in Requests /\ reply[Me] = "queued" /\ Me' = Me
  BY <1>1, HeadIsQueued DEF Me
<1>3. ~local'.upgrade /\ local \in Local /\ local.next \in Tracker /\ disk \in Disk /\ Doing \in Request
  BY <1>1, MeType DEF WriteTracker, TypeInv, TypeOK, StoresOK, TaskOK, Local
<1>4. Readable(disk') = local.next
  BY <1>1, <1>3 DEF Readable, Tracker
<1>5. local.recs = Readable(disk)
  BY <1>1 DEF SnapshotInv
<1>6. \A r \in Requests : AnswerOf(r)' = IF r = Me THEN "changed" ELSE AnswerOf(r)
  BY <1>1, <1>2, <1>3 DEF AnswerOf, Renamed
<1>7. AnswerOf(Me) = "asked"
  BY <1>1, <1>2 DEF AnswerOf, Renamed
<1>8. Readable(disk) \in Tracker
  BY <1>3, ReadableType
<1>9. ASSUME NEW i \in Ids, Readable(disk')[i] # Readable(disk)[i]
      PROVE  /\ i \in Doing.upserts \cup Doing.deletes
             /\ \/ Doing.base[i] = Readable(disk)[i].rev
                \/ Doing.base[i] = 0 /\ ~(Doing.kind \notin {"submit", "update"})
  BY <1>1, <1>4, <1>5, <1>9 DEF SnapshotInv, Permitted
<1>10. \A i \in DOMAIN Readable(disk) : Readable(disk')[i] # Readable(disk)[i] => Atomic!MayChange(Me, i)
  BY <1>2, <1>8, <1>9 DEF Atomic!MayChange, Doing, Tracker
<1> QED
  BY <1>1, <1>2, <1>3, <1>4, <1>6, <1>7, <1>10 DEF Atomic!Change

\* The upgrade of a version 0 file writes what a read already served.
LEMMA UpgradeStutters ==
    ASSUME AtomicIInv, WriteTracker, local.upgrade
    PROVE  UNCHANGED Atomic!vars
<1>1. /\ pc = "write" /\ UNCHANGED <<op, reply, sent>>
      /\ disk' = [ident |-> mint + 1, form |-> "current", recs |-> local.next, bad |-> {}]
      /\ TypeInv /\ SnapshotInv /\ ~raced
  BY DEF WriteTracker, At, AtomicIInv, UpdateIInv, CacheIInv, TaskAnswers
<1>2. local'.upgrade /\ local.next \in Tracker
  BY <1>1 DEF WriteTracker, TypeInv, TypeOK, TaskOK, Local
<1>3. Readable(disk') = local.next
  BY <1>1, <1>2 DEF Readable, Tracker
<1>4. local.next = Readable(disk)
  BY <1>1 DEF SnapshotInv
<1> QED
  BY <1>1, <1>2, <1>3, <1>4, Stutter DEF Renaming

\* After the rename: an answer, or one more await before it.
LEMMA ConfirmIsAtomic ==
    ASSUME AtomicIInv, Confirm
    PROVE  Atomic!Read(Me) \/ Atomic!Answer(Me) \/ UNCHANGED Atomic!vars
<1>1. /\ queue # <<>> /\ pc = "confirm" /\ UNCHANGED <<disk, op>>
      /\ TypeInv /\ WrittenInv /\ TaskAnswers /\ disk \in Disk /\ local \in Local
  BY DEF Confirm, At, AtomicIInv, UpdateIInv, CacheIInv, FileInv, TypeInv, TypeOK, StoresOK, TaskOK
<1>2. Readable(disk)' = Readable(disk)
  BY <1>1 DEF Readable
<1>3. disk.ident = local.written => local.next = Readable(disk)
  BY <1>1 DEF WrittenInv, Readable, Disk, Tracker
<1>4. \/ sent' = sent
      \/ ~local.upgrade /\ sent' = sent \cup {[revision |-> mint + 1, recs |-> Readable(disk)]}
  BY <1>3 DEF Confirm, Confirmed
<1>5. CASE local.upgrade
  <2>1. UNCHANGED <<reply, sent>> /\ ~Renaming /\ ~Renaming'
    BY <1>4, <1>5 DEF Confirm, AfterWrite, Renaming
  <2> QED
    BY <1>1, <1>2, <2>1, Stutter
<1>6. CASE ~local.upgrade /\ Deleted # {}
  <2>1. UNCHANGED <<reply, queue, local>> /\ pc' = "trash"
    BY <1>6 DEF Confirm, AfterWrite
  <2>2. \A r \in Requests : AnswerOf(r)' = AnswerOf(r)
    BY <1>1, <2>1 DEF AnswerOf, Renamed, Me
  <2>3. Me \in Requests /\ AnswerOf(Me) = "changed"
    BY <1>1, <1>6, HeadIsQueued DEF AnswerOf, Renamed
  <2>4. CASE sent' = sent
    BY <1>1, <1>2, <2>2, <2>4 DEF Atomic!vars
  <2>5. CASE sent' = sent \cup {[revision |-> mint + 1, recs |-> Readable(disk)]}
    <3>1. PICK e : e.recs = Readable(disk) /\ sent' = sent \cup {e}
      BY <2>5
    <3>2. {x.recs : x \in sent}' = {x.recs : x \in sent} \cup {Readable(disk)}
      BY <3>1
    <3> QED
      BY <1>1, <1>2, <2>2, <2>3, <3>2 DEF Atomic!Read
  <2> QED
    BY <1>4, <2>4, <2>5
<1>7. CASE ~local.upgrade /\ Deleted = {}
  <2>1. Finish("ok")
    BY <1>7 DEF Confirm, AfterWrite
  <2>2. Doing.kind # "list" /\ ~Doing.dry /\ Renaming
    BY <1>1, <1>7 DEF TaskAnswers, Renaming
  <2>3. \/ sent' = sent
        \/ \E e : e.recs = Readable(disk) /\ sent' = sent \cup {e}
    BY <1>4
  <2> QED
    BY <1>1, <1>2, <2>1, <2>2, <2>3, FinishIsAnswer DEF Answers
<1> QED
  BY <1>5, <1>6, <1>7

\* The folders leave after the record: the last of them lets the answer go.
LEMMA TrashIsAnswer ==
    ASSUME AtomicIInv, NEW i \in Ids, TrashFolder(i)
    PROVE  Atomic!Answer(Me) \/ UNCHANGED Atomic!vars
<1>1. /\ queue # <<>> /\ UNCHANGED <<disk, op, sent>> /\ TypeInv
      /\ Doing.kind # "list" /\ ~Doing.dry /\ Renaming
  BY DEF TrashFolder, At, historyVars, AtomicIInv, UpdateIInv, CacheIInv, TaskAnswers, Renaming
<1>2. Readable(disk)' = Readable(disk)
  BY <1>1 DEF Readable
<1>3. CASE Finish("ok")
  BY <1>1, <1>2, <1>3, FinishIsAnswer DEF Answers
<1>4. CASE UNCHANGED <<pc, local, queue, reply>>
  BY <1>1, <1>2, <1>4, Stutter
<1> QED
  BY <1>3, <1>4 DEF TrashFolder

\* Before the rename: an answer without a change, the list with the file's
\* records.
LEMMA ListIsAnswer ==
    ASSUME AtomicIInv, AnswerList
    PROVE  Atomic!Answer(Me)
<1>1. /\ queue # <<>> /\ pc = "loaded" /\ Doing.kind = "list" /\ UNCHANGED <<disk, op>>
      /\ TypeInv /\ SnapshotInv /\ WrittenInv /\ ~raced
  BY DEF AnswerList, Reading, At, AtomicIInv, UpdateIInv, CacheIInv, FileInv, TaskAnswers
<1>2. Readable(disk)' = Readable(disk)
  BY <1>1 DEF Readable
<1>3. local.recs = Readable(disk) /\ ~Renaming
  BY <1>1 DEF SnapshotInv, WrittenInv, Renaming
<1>4. \E e : e.recs = Readable(disk) /\ sent' = sent \cup {e}
  <2> DEFINE e == [revision |-> local.revision, recs |-> local.recs]
  <2>1. e.recs = Readable(disk) /\ sent' = sent \cup {e}
    BY <1>3 DEF AnswerList
  <2> QED
    BY <2>1
<1>5. PICK answer \in {"notModified", "ok"} : Finish(answer)
  BY DEF AnswerList
<1> QED
  BY <1>1, <1>2, <1>3, <1>4, <1>5, FinishIsAnswer DEF Answers

LEMMA KeptIsAnswer ==
    ASSUME AtomicIInv, queue # <<>>, ~Renaming, UNCHANGED <<disk, op, sent>>,
           \/ \E answer \in {"failed", "folderKept", "refused", "unchanged"} : Finish(answer)
           \/ Finish("ok") /\ Doing.dry
    PROVE  Atomic!Answer(Me)
<1>1. Readable(disk)' = Readable(disk) /\ TypeInv
  BY DEF Readable, AtomicIInv, UpdateIInv, CacheIInv
<1>2. PICK answer \in {"failed", "folderKept", "refused", "unchanged", "ok"} :
         Finish(answer) /\ (answer = "ok" => Doing.dry)
  OBVIOUS
<1> QED
  BY <1>1, <1>2, FinishIsAnswer DEF Answers

\* The steps of the lock holder up to the rename.
LEMMA TaskIsAtomic ==
    ASSUME AtomicIInv,
           \/ TakeLock \/ ReadFile \/ ReadFails \/ Begin
           \/ RefuseUnreadable \/ AnswerWithoutWriting \/ PreviousReadFails
           \/ WipeFolder \/ WriteFails
           \/ \E f \in Files : WriteFile(f) \/ RestoreFile(f) \/ FileFails(f) \/ RestoreFails(f)
    PROVE  Atomic!Answer(Me) \/ UNCHANGED Atomic!vars
<1>1. /\ queue # <<>> /\ ~Renaming /\ UNCHANGED <<disk, op, sent>> /\ pc # "confirm" /\ pc # "trash"
  BY DEF TakeLock, ReadFile, ReadFails, Begin, RefuseUnreadable, AnswerWithoutWriting,
         PreviousReadFails, WipeFolder, WriteFails, WriteFile, RestoreFile, FileFails, RestoreFails,
         Writing, At, Return, RememberAndReturn, historyVars, Renaming
<1>2. Readable(disk)' = Readable(disk)
  BY <1>1 DEF Readable
<1>3. ASSUME UNCHANGED reply, pc' \notin {"confirm", "trash"} PROVE UNCHANGED Atomic!vars
  BY <1>1, <1>2, <1>3, Stutter DEF Renaming
<1>4. CASE TakeLock \/ Begin
  BY <1>3, <1>4 DEF TakeLock, Return, RememberAndReturn, Begin
<1>5. CASE ReadFile
  <2>1. Finish("failed") \/ (UNCHANGED reply /\ pc' \in {"write", "loaded"})
    BY <1>5 DEF ReadFile, Return, RememberAndReturn
  <2> QED
    BY <1>1, <1>3, <2>1, KeptIsAnswer
<1>6. CASE ReadFails \/ RefuseUnreadable \/ PreviousReadFails
  BY <1>1, <1>6, KeptIsAnswer DEF ReadFails, RefuseUnreadable, PreviousReadFails
<1>7. CASE AnswerWithoutWriting
  <2>1. \/ Finish("unchanged") \/ Finish("refused")
        \/ Finish("ok") /\ Doing.dry
    BY <1>7 DEF AnswerWithoutWriting
  <2> QED
    BY <1>1, <2>1, KeptIsAnswer
<1>8. CASE WipeFolder
  BY <1>1, <1>8, KeptIsAnswer DEF WipeFolder
<1>9. CASE WriteFails \/ \E f \in Files : FileFails(f)
  <2>1. Finish("failed") \/ (UNCHANGED reply /\ pc' \in {"wipe", "rollback", "loaded"})
    BY <1>9 DEF WriteFails, FileFails, Undo, Return, RememberAndReturn
  <2> QED
    BY <1>1, <1>3, <2>1, KeptIsAnswer
<1>10. ASSUME NEW f \in Files, WriteFile(f) \/ RestoreFile(f) \/ RestoreFails(f)
       PROVE  Atomic!Answer(Me) \/ UNCHANGED Atomic!vars
  <2>1. Finish("failed") \/ (UNCHANGED reply /\ pc' \in {"files", "write", "rollback"})
    BY <1>10 DEF WriteFile, RestoreFile, RestoreFails, At
  <2> QED
    BY <1>1, <1>3, <2>1, KeptIsAnswer
<1> QED
  BY <1>4, <1>5, <1>6, <1>7, <1>8, <1>9, <1>10

LEMMA StepIsAtomic ==
    ASSUME MaxEdits = 0, AtomicIInv, [Next]_vars
    PROVE  [Atomic!Next]_(Atomic!vars)
<1>1. queue # <<>> => Me \in Requests
  BY HeadIsQueued DEF AtomicIInv, UpdateIInv, CacheIInv
<1>0. ASSUME queue # <<>>, Atomic!Read(Me) \/ Atomic!Answer(Me) \/ Atomic!Change(Me)
      PROVE  Atomic!Next
  <2>1. PICK r \in Requests : r = Me
    BY <1>0, <1>1
  <2>2. Atomic!Read(r) \/ Atomic!Answer(r) \/ Atomic!Change(r)
    BY <1>0, <2>1 DEF Atomic!Read, Atomic!Answer, Atomic!Change, Atomic!MayChange
  <2>3. CASE Atomic!Read(r)
    BY <2>3 DEF Atomic!Next
  <2>4. CASE Atomic!Answer(r)
    BY <2>4 DEF Atomic!Next
  <2>5. CASE Atomic!Change(r)
    BY <2>5 DEF Atomic!Next
  <2> QED
    BY <2>2, <2>3, <2>4, <2>5
<1>2. CASE \E r \in Requests : Submit(r)
  BY <1>2, SubmitIsCall DEF Atomic!Next
<1>3. CASE Crash
  BY <1>3, CrashIsLose DEF Atomic!Next
<1>4. CASE AnswerList
  <2>1. queue # <<>>
    BY <1>4 DEF AnswerList, Reading, At
  <2> QED
    BY <1>0, <1>4, <2>1, ListIsAnswer
<1>5. CASE WriteTracker
  <2>1. queue # <<>>
    BY <1>5 DEF WriteTracker, At
  <2> QED
    BY <1>0, <1>5, <2>1, RenameIsChange, UpgradeStutters
<1>6. CASE Confirm \/ \E i \in Ids : TrashFolder(i)
  <2>1. queue # <<>>
    BY <1>6 DEF Confirm, TrashFolder, At
  <2> QED
    BY <1>0, <1>6, <2>1, ConfirmIsAtomic, TrashIsAnswer
<1>7. CASE (\E t \in strays : StrayLands(t)) \/ UNCHANGED vars
  <2>1. UNCHANGED <<disk, queue, op, reply, pc, local, sent>>
    BY <1>7 DEF StrayLands, vars, taskVars, historyVars
  <2>2. Readable(disk)' = Readable(disk)
    BY <2>1 DEF Readable
  <2> QED
    BY <2>1, <2>2, Stutter
<1>8. CASE \/ TakeLock \/ ReadFile \/ ReadFails \/ Begin
           \/ RefuseUnreadable \/ AnswerWithoutWriting \/ PreviousReadFails
           \/ WipeFolder \/ WriteFails
           \/ \E f \in Files : WriteFile(f) \/ RestoreFile(f) \/ FileFails(f) \/ RestoreFails(f)
  <2>1. queue # <<>>
    BY <1>8 DEF TakeLock, ReadFile, ReadFails, Begin, RefuseUnreadable, AnswerWithoutWriting,
         PreviousReadFails, WipeFolder, WriteFails, WriteFile, RestoreFile, FileFails, RestoreFails,
         Writing, At
  <2> QED
    BY <1>0, <1>8, <2>1, TaskIsAtomic
<1> QED
  BY <1>2, <1>3, <1>4, <1>5, <1>6, <1>7, <1>8, NoOutsideEdit
  DEF Next, TaskStep, FaultStep, Environment, AtomicIInv

\* As long as no other program edits applications.json, the routes keep the
\* promise of one atomic tracker, whatever fails half way
\* and whenever the process dies: a request answered as saved changed only the
\* records it named, once, from the revisions it sent, one answered otherwise
\* changed none, and every tracker an answer carries is one the file held while
\* the request ran.
THEOREM ImplementsAtomicTracker ==
    ASSUME MaxEdits = 0
    PROVE  Spec => TrackerIsAtomic
<1>1. Init => AtomicIInv
  <2> SUFFICES ASSUME Init PROVE TaskAnswers /\ UpdateIInv
    BY DEF AtomicIInv
  <2>1. TaskAnswers /\ SnapshotInv
    BY DEF Init, TaskAnswers, SnapshotInv
  <2> QED
    BY <2>1, TypeInit, CacheInit DEF UpdateIInv, CacheIInv
<1>2. Init => Atomic!Init
  <2> SUFFICES ASSUME Init PROVE Atomic!Init
    OBVIOUS
  <2>1. disk \in Disk
    BY TypeInit DEF TypeInv, TypeOK, StoresOK
  <2>2. \A r \in Requests : AnswerOf(r) = "idle"
    BY DEF Init, AnswerOf
  <2>3. sent = {}
    BY DEF Init
  <2> QED
    BY <2>1, <2>2, <2>3, ReadableType DEF Atomic!Init
<1>3. AtomicIInv /\ [Next]_vars => AtomicIInv'
  BY AtomicNext
<1>4. AtomicIInv /\ [Next]_vars => [Atomic!Next]_(Atomic!vars)
  BY StepIsAtomic
<1> QED
  BY <1>1, <1>2, <1>3, <1>4, PTL DEF Spec, TrackerIsAtomic, Atomic!Spec

=============================================================================
