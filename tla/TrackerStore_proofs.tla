------------------------ MODULE TrackerStore_proofs ------------------------
(***************************************************************************)
(* Proofs about TrackerStore, for every set of ids, files and requests,    *)
(* every schedule of the queue and every outside edit, failure and crash.  *)
(***************************************************************************)
EXTENDS TrackerStore, FiniteSetTheorems, TLAPS

-----------------------------------------------------------------------------
(* The strengthening.  Each part is what the handlers rely on and no property *)
(* says: what requests look like, what the lock holder has in its variables,  *)
(* and which identities the file can still take.                              *)

\* Only a save names more than one record; only it and a list write no file.
RequestShape(o) ==
    /\ o.kind \in {"list", "save"} => o.put = NoPut
    /\ o.kind \notin {"list", "save"} => o.deletes = {} /\ \E i \in Ids : o.upserts = {i}
    /\ o.kind = "commit" => o.base = NoBase

\* The lock holder has files to write only for a request that sent some.
TaskShape ==
    /\ \A r \in Requests : RequestShape(op[r])
    /\ pc # "wait" => queue # <<>>
    /\ pc = "wait" => local = NoLocal
    /\ pc \in {"files", "rollback", "wipe"} => Doing.kind \notin {"list", "save"}
    /\ pc = "files" => todo \subseteq Touched(local.put)
    /\ Touched(local.put) # {} => pc # "wait" /\ Doing.kind \notin {"list", "save"}

\* The queue holds each unanswered request once.
QueueShape ==
    /\ \A k \in 1 .. Len(queue) : reply[queue[k]] = "queued"
    /\ \A j, k \in 1 .. Len(queue) : queue[j] = queue[k] => j = k

TypeInv == TypeOK /\ TaskShape /\ QueueShape

\* Identities are never taken twice: 0 is the missing file, and no identity
\* anyone remembers is above mint.
Identities ==
    /\ disk.ident = 0 <=> disk.form = "missing"
    /\ disk.form = "missing" => disk.recs = EmptyTracker /\ disk.bad = {}
    /\ disk.ident <= mint /\ cache.ident <= mint
    /\ local.seen <= mint /\ local.written <= mint
    /\ pc = "read" => local.seen # 0
    /\ pc = "write" /\ local.upgrade => local.seen # 0
    /\ pc = "confirm" => local.written # 0

\* The cache of a missing file is empty; the cache of the present one is what
\* a read would return, and the file parses.
CacheInv ==
    /\ cache.revision # 0 /\ cache.ident = 0 => cache.recs = EmptyTracker /\ ~cache.invalid
    /\ CacheHit => /\ disk.form # "corrupt"
                   /\ cache.recs = Readable(disk)
                   /\ (cache.invalid <=> disk.bad # {})

\* What an upgrade is about to write is the file it read; what any write has
\* just renamed into place is the file, while the identity is still the same.
WrittenInv ==
    /\ pc \in {"loaded", "files"} => ~local.upgrade
    /\ pc = "write" /\ local.upgrade /\ disk.ident = local.seen =>
          /\ disk.form = "older" /\ disk.bad = {} /\ local.next = Readable(disk)
    /\ pc = "confirm" /\ disk.ident = local.written =>
          /\ disk.form = "current" /\ disk.bad = {} /\ disk.recs = local.next

FileInv == Identities /\ CacheInv /\ WrittenInv
CacheIInv == TypeInv /\ FileInv

\* From the read to the write the task works on the file's content, unless
\* another program changed the file meanwhile; and it changes only what its
\* request names, from the revision its request gave.
Permitted(i) ==
    /\ i \in Doing.upserts \cup Doing.deletes
    /\ \/ Doing.base[i] = local.recs[i].rev
       \/ Doing.base[i] = 0 /\ Doing.kind \in {"submit", "update"}

SnapshotInv ==
    /\ pc \in {"loaded", "files", "write"} /\ ~local.upgrade /\ ~raced =>
          /\ disk.form # "corrupt"
          /\ local.recs = Readable(disk)
          /\ (local.invalid <=> disk.bad # {})
    /\ pc = "write" /\ local.upgrade /\ ~raced =>
          disk.form = "older" /\ disk.bad = {} /\ local.next = Readable(disk)
    /\ pc \in {"files", "write"} /\ ~local.upgrade =>
          /\ ~local.invalid
          /\ \A i \in Ids : local.next[i] # local.recs[i] => Permitted(i)

UpdateIInv == CacheIInv /\ SnapshotInv
-----------------------------------------------------------------------------
(* Lemmas about the operators                                               *)

\* What a read of the tracker serves is a tracker again.
LEMMA ReadableType ==
    ASSUME disk \in Disk
    PROVE  Readable(disk) \in Tracker
<1>1. NoRecord \in Record /\ EmptyFolder \in Folder
  BY DEF NoRecord, Record, EmptyFolder, Folder, StoredStages, Stages
<1>2. \A recs \in Tracker : Migrate(recs) \in Tracker
  BY <1>1 DEF Migrate, Tracker, Record, StoredStages, Stages
<1> QED
  BY <1>1, <1>2 DEF Readable, Disk, Tracker

LEMMA EmptyTrackerType == NoRecord \in Record /\ EmptyTracker \in Tracker
BY DEF NoRecord, Record, EmptyFolder, Folder, StoredStages, Stages, EmptyTracker, Tracker

\* Everything a client can ask is a request of the right shape.
LEMMA AskedShape ==
    ASSUME disk \in Disk, \A e \in sent : e.revision \in Nat
    PROVE  \A o \in Asked : o \in Request /\ RequestShape(o)
<1> DEFINE Good(o) == o \in Request /\ RequestShape(o)
<1>1. Seen \in [Ids -> Nat]
  BY ReadableType DEF Seen, Tracker, Record
<1>2. \A S : Only(S) \in [Ids -> Nat]
  BY <1>1 DEF Only
<1>3. ASSUME NEW k \in Nat
      PROVE  Good(ListRequest(k))
  BY DEF ListRequest, Request, RequestShape, Put, NoPut, NoBase, Stages
<1>4. ASSUME NEW o \in SaveRequests
      PROVE  Good(o)
  <2>1. PICK u \in SUBSET Ids, d \in SUBSET Tracked, g \in Stages : o = SaveRequest(u, d, g)
    BY DEF SaveRequests
  <2>2. o.kind = "save" /\ o.put = NoPut
    BY <2>1 DEF SaveRequest, ListRequest
  <2>3. o \in Request
    BY <2>1, <1>2 DEF SaveRequest, ListRequest, Tracked, Request, Put, NoPut
  <2> QED
    BY <2>2, <2>3 DEF RequestShape
<1>5. ASSUME NEW o \in DocumentRequests
      PROVE  Good(o)
  <2>1. PICK s \in Slots, i \in Tracked, g \in Files, b \in Bytes \cup {None} :
           o = DocumentRequest(i, SlotPut(s, g, b))
    BY StoreAssumption DEF DocumentRequests
  <2>2. SlotPut(s, g, b) \in Put
    BY DEF Put, SlotPut
  <2>3. o.kind = "document" /\ o.deletes = {} /\ o.upserts = {i} /\ i \in Ids
    BY <2>1 DEF DocumentRequest, ListRequest, Tracked
  <2>4. o \in Request
    BY <2>1, <2>2, <1>2 DEF DocumentRequest, ListRequest, Tracked, Request, Stages
  <2> QED
    BY <2>3, <2>4 DEF RequestShape
<1>6. ASSUME NEW kind \in {"submit", "update"}, NEW o \in SourceRequests(kind)
      PROVE  Good(o)
  <2>1. PICK i \in Tracked, base \in [Ids -> Nat], p \in SourcePuts \ {NoPut} :
           o = SourceRequest(kind, i, base, p)
    <3>1. PICK i \in Tracked : o \in {SourceRequest(kind, i, base, p) :
                                         base \in {Only({i}), NoBase}, p \in SourcePuts \ {NoPut}}
      BY DEF SourceRequests
    <3>2. {Only({i}), NoBase} \subseteq [Ids -> Nat]
      BY <1>2 DEF NoBase
    <3> QED
      BY <3>1, <3>2
  <2>2. o.kind = kind /\ o.deletes = {} /\ o.upserts = {i} /\ i \in Ids
    BY <2>1 DEF SourceRequest, ListRequest, Tracked
  <2>3. o \in Request
    BY <2>1 DEF SourceRequest, ListRequest, Tracked, Request, SourcePuts, Stages
  <2> QED
    BY <2>2, <2>3 DEF RequestShape
<1>7. ASSUME NEW o \in CommitRequests
      PROVE  Good(o)
  <2>1. PICK i \in Ids, p \in SourcePuts, k \in {{}, Ids}, d \in BOOLEAN :
           o = CommitRequest(i, p, k, d)
    BY DEF CommitRequests
  <2>2. o.kind = "commit" /\ o.deletes = {} /\ o.upserts = {i} /\ o.base = NoBase
    BY <2>1 DEF CommitRequest, ListRequest
  <2>3. o \in Request
    BY <2>1 DEF CommitRequest, ListRequest, Request, SourcePuts, NoBase, Stages
  <2> QED
    BY <2>2, <2>3 DEF RequestShape
<1> QED
  BY <1>3, <1>4, <1>5, <1>6, <1>7 DEF Asked

\* A request that writes files names the one record they belong to.
LEMMA TargetType ==
    ASSUME NEW o \in Request, RequestShape(o), o.kind \notin {"list", "save"}
    PROVE  Target(o) \in Ids /\ o.upserts = {Target(o)} /\ o.deletes = {}
BY DEF RequestShape, Target

LEMMA NoLocalType ==
    /\ NoPut \in Put /\ Touched(NoPut) = {}
    /\ NoLocal \in Local /\ NoLocal.put = NoPut /\ ~NoLocal.upgrade
BY EmptyTrackerType DEF NoPut, Put, Touched, NoLocal, Local, EmptyFolder, Folder

\* The tracker a task builds and the files it writes have the right types.
LEMMA NextType ==
    ASSUME TypeInv, queue # <<>>, Doing.kind # "list"
    PROVE  PendingPut \in Put /\ NextTracker \in Tracker
<1>1. Doing \in Request /\ local.recs \in Tracker /\ mint + 1 \in Nat
  BY DEF TypeInv, TypeOK, RequestsOK, TaskOK, HistoryOK, Doing, Me, Local
<1>2. PendingPut \in Put
  BY <1>1 DEF PendingPut, Put, Request
<1>3. \A rec \in Record : Changed(rec) \in Record
  <2> SUFFICES ASSUME NEW rec \in Record PROVE Changed(rec) \in Record
    OBVIOUS
  <2>1. Changed(rec).docs \in Folder
    BY <1>2 DEF Changed, Put, Folder, Record
  <2>2. Changed(rec).stage \in StoredStages
    BY <1>1 DEF Changed, Record, Request, StoredStages, Stages
  <2> QED
    BY <1>1, <2>1, <2>2 DEF Changed, Record
<1> QED
  BY <1>1, <1>2, <1>3, EmptyTrackerType DEF NextTracker, Tracker

\* A save, which may name several records, writes no file.
LEMMA SaveTouchesNothing ==
    ASSUME TypeInv, queue # <<>>, Doing.kind \in {"list", "save"}
    PROVE  Touched(PendingPut) = {}
BY DEF TypeInv, TaskShape, TypeOK, RequestsOK, RequestShape, Doing, Me, PendingPut, Touched, NoPut

-----------------------------------------------------------------------------
(* Type correctness                                                          *)

\* Whatever a task ends with, the queue moves on and nothing of it is left.
LEMMA FinishType ==
    ASSUME TypeInv, queue # <<>>, NEW answer \in Answers, Finish(answer), op' = op
    PROVE  /\ queue' \in Seq(Requests) /\ reply' \in [Requests -> Answers]
           /\ pc' = "wait" /\ local' = NoLocal /\ local' \in Local /\ todo' = {}
           /\ TaskShape' /\ QueueShape'
<1>1. queue \in Seq(Requests) /\ reply \in [Requests -> Answers]
  BY DEF TypeInv, TypeOK, RequestsOK
<1>2. pc' = "wait" /\ local' = NoLocal /\ todo' = {}
  BY DEF Finish
<1>3. TaskShape'
  BY <1>2, NoLocalType DEF TypeInv, TaskShape
<1>4. QueueShape'
  <2>1. \A k \in 1 .. Len(queue') : queue'[k] = queue[k + 1] /\ k + 1 \in 2 .. Len(queue)
    BY <1>1 DEF Finish
  <2>2. Me = queue[1] /\ 1 \in 1 .. Len(queue)
    BY <1>1 DEF Me
  <2>3. \A k \in 2 .. Len(queue) : reply'[queue[k]] = "queued"
    BY <1>1, <2>2 DEF Finish, TypeInv, QueueShape
  <2> QED
    BY <1>1, <2>1, <2>3 DEF TypeInv, QueueShape
<1> QED
  BY <1>1, <1>2, <1>3, <1>4, NoLocalType DEF Finish, Me

LEMMA TypeInit == Init => TypeInv
<1> SUFFICES ASSUME Init PROVE TypeInv
  OBVIOUS
<1>1. PICK s \in Starts : /\ disk = [ident |-> IF s.form = "missing" THEN 0 ELSE 1, form |-> s.form,
                                     recs |-> s.recs, bad |-> {}]
                          /\ files = s.files /\ before = s.files
  BY DEF Init
<1>2. s \in Start
  BY StoreAssumption
<1>3. ListRequest(0) \in Request /\ RequestShape(ListRequest(0))
  BY DEF ListRequest, Request, RequestShape, Put, NoPut, NoBase, Stages
<1>4. disk \in Disk /\ files \in [Ids -> Folder] /\ before \in [Ids -> Folder]
  BY <1>1, <1>2 DEF Start, Disk
<1>5. cache \in Cache
  BY EmptyTrackerType DEF Init, NoCache, Cache
<1>6. op \in [Requests -> Request] /\ \A r \in Requests : RequestShape(op[r])
  BY <1>3 DEF Init
<1>7. local \in Local /\ Touched(local.put) = {}
  BY NoLocalType DEF Init
<1>8. StoresOK /\ RequestsOK
  BY <1>4, <1>5, <1>6 DEF Init, StoresOK, RequestsOK, Answers
<1>9. TaskOK /\ HistoryOK
  BY <1>4, <1>7 DEF Init, TaskOK, Phases, HistoryOK
<1>10. TaskShape
  BY <1>6, <1>7 DEF Init, TaskShape
<1>11. QueueShape
  BY DEF Init, QueueShape
<1> QED
  BY <1>8, <1>9, <1>10, <1>11 DEF TypeInv, TypeOK

LEMMA TypeSubmit ==
    ASSUME TypeInv, NEW r \in Requests, Submit(r)
    PROVE  TypeInv'
<1>1. PICK o \in Asked : op' = [op EXCEPT ![r] = o]
  BY DEF Submit
<1>2. o \in Request /\ RequestShape(o)
  BY AskedShape DEF TypeInv, TypeOK, StoresOK, HistoryOK
<1>3. StoresOK' /\ TaskOK' /\ HistoryOK'
  BY DEF Submit, taskVars, boundVars, historyVars, TypeInv, TypeOK, StoresOK, TaskOK, HistoryOK
<1>4. RequestsOK'
  BY <1>1, <1>2 DEF Submit, TypeInv, TypeOK, RequestsOK, Answers
<1>5. /\ queue \in Seq(Requests) /\ reply \in [Requests -> Answers]
      /\ queue' = Append(queue, r) /\ reply[r] = "none" /\ reply'[r] = "queued"
      /\ \A q \in Requests \ {r} : op'[q] = op[q] /\ reply'[q] = reply[q]
  BY <1>1 DEF Submit, TypeInv, TypeOK, RequestsOK
<1>6. \A k \in 1 .. Len(queue) : queue[k] # r /\ queue[k] \in Requests
  BY <1>5 DEF TypeInv, QueueShape
<1>7. QueueShape'
  BY <1>5, <1>6 DEF TypeInv, QueueShape
<1>8. ASSUME queue # <<>> PROVE Doing' = Doing /\ queue' # <<>>
  <2>1. Len(queue) \in Nat \ {0} /\ Head(queue) = queue[1]
    BY <1>5, <1>8
  <2>2. Head(queue) \in Requests \ {r}
    BY <2>1, <1>6
  <2>3. Head(queue') = Head(queue) /\ queue' # <<>>
    BY <1>5, <2>1
  <2> QED
    BY <1>5, <2>2, <2>3 DEF Doing, Me
<1>9. TaskShape'
  <2>1. \A q \in Requests : RequestShape(op'[q])
    BY <1>1, <1>2, <1>5 DEF TypeInv, TaskShape, TypeOK, RequestsOK
  <2> QED
    BY <2>1, <1>8 DEF Submit, taskVars, TypeInv, TaskShape
<1> QED
  BY <1>3, <1>4, <1>7, <1>9 DEF TypeInv, TypeOK

\* The request a task works on.
LEMMA MeType ==
    ASSUME TypeInv, queue # <<>>
    PROVE  /\ Me \in Requests /\ Doing \in Request /\ RequestShape(Doing)
           /\ Doing.kind \notin {"list", "save"} => Target(Doing) \in Ids
<1>1. Me \in Requests
  BY DEF TypeInv, TypeOK, RequestsOK, Me
<1>2. Doing \in Request /\ RequestShape(Doing)
  BY <1>1 DEF TypeInv, TypeOK, RequestsOK, TaskShape, Doing
<1> QED
  BY <1>1, <1>2, TargetType

\* A step that leaves the queue as it is keeps its shape and the request at work.
LEMMA SameRequest ==
    ASSUME TypeInv, UNCHANGED <<queue, op, reply>>
    PROVE  RequestsOK' /\ QueueShape' /\ Doing' = Doing
BY DEF TypeInv, TypeOK, RequestsOK, QueueShape, Doing, Me

LEMMA RememberType ==
    ASSUME TypeInv, NEW ident \in Nat, NEW recs \in Tracker, NEW invalid \in BOOLEAN,
           Remember(ident, recs, invalid)
    PROVE  cache' \in Cache /\ mint' \in Nat
BY DEF Remember, Cache, TypeInv, TypeOK, HistoryOK

LEMMA ReturnType ==
    ASSUME TypeInv, queue # <<>>, pc # "trash", NEW snapshot \in Cache, Return(snapshot)
    PROVE  RequestsOK' /\ TaskOK' /\ TaskShape' /\ QueueShape'
<1>1. RequestsOK' /\ QueueShape' /\ Doing' = Doing
  BY SameRequest DEF Return
<1>2. TaskOK'
  BY DEF Return, TypeInv, TypeOK, TaskOK, Phases, Local, Cache
<1>3. local'.put = local.put
  BY DEF Return, TypeInv, TypeOK, TaskOK, Local
<1>4. TaskShape'
  BY <1>1, <1>3, MeType DEF Return, TypeInv, TaskShape, Touched
<1> QED
  BY <1>1, <1>2, <1>4

LEMMA UndoType ==
    ASSUME TypeInv, queue # <<>>, pc # "wait", Undo, op' = op
    PROVE  RequestsOK' /\ TaskOK' /\ TaskShape' /\ QueueShape'
<1>1. CASE Finish("failed")
  BY <1>1, FinishType DEF Answers, RequestsOK, TaskOK, Phases, TypeInv, TypeOK
<1>2. CASE /\ Doing.kind # "commit" \/ pc' = "wipe"
           /\ pc' \in {"wipe", "rollback"} /\ todo' \subseteq Files
           /\ Doing.kind \notin {"list", "save"}
           /\ UNCHANGED <<local, queue, reply>>
  <2>1. RequestsOK' /\ QueueShape' /\ Doing' = Doing
    BY <1>2, SameRequest
  <2>2. TaskOK'
    BY <1>2 DEF TypeInv, TypeOK, TaskOK, Phases
  <2>3. TaskShape'
    BY <1>2, <2>1 DEF TypeInv, TaskShape
  <2> QED
    BY <2>1, <2>2, <2>3
<1>3. Touched(local.put) \subseteq Files /\ (Touched(local.put) # {} => Doing.kind \notin {"list", "save"})
  BY DEF Touched, TypeInv, TaskShape
<1> QED
  BY <1>1, <1>2, <1>3 DEF Undo

LEMMA TypeTakeLock ==
    ASSUME TypeInv, TakeLock
    PROVE  TypeInv'
<1>1. queue # <<>> /\ pc = "wait" /\ UNCHANGED <<disk, files, strays, edits, faults, crashes, torn, sent>>
      /\ before' = files /\ raced' = FALSE
  BY DEF TakeLock, At, boundVars
<1>2. CASE CacheHit /\ Return(cache) /\ UNCHANGED <<cache, mint>>
  <2>1. StoresOK' /\ HistoryOK'
    BY <1>1, <1>2 DEF TypeInv, TypeOK, StoresOK, HistoryOK
  <2> QED
    BY <1>1, <1>2, <2>1, ReturnType DEF TypeInv, TypeOK, StoresOK
<1>3. CASE RememberAndReturn(0, EmptyTracker, FALSE)
  <2>1. cache' \in Cache /\ mint' \in Nat
    BY <1>3, RememberType, EmptyTrackerType DEF RememberAndReturn
  <2>2. StoresOK' /\ HistoryOK'
    BY <1>1, <2>1 DEF TypeInv, TypeOK, StoresOK, HistoryOK
  <2> QED
    BY <1>1, <1>3, <2>1, <2>2, ReturnType DEF TypeInv, TypeOK, RememberAndReturn
<1>4. CASE /\ local' = [local EXCEPT !.seen = disk.ident] /\ pc' = "read"
           /\ UNCHANGED <<cache, mint, queue, op, reply, todo>>
  <2>1. StoresOK' /\ HistoryOK'
    BY <1>1, <1>4 DEF TypeInv, TypeOK, StoresOK, HistoryOK
  <2>2. TaskOK' /\ local'.put = local.put
    BY <1>1, <1>4 DEF TypeInv, TypeOK, StoresOK, TaskOK, Phases, Local, Disk
  <2>3. RequestsOK' /\ QueueShape' /\ Doing' = Doing
    BY <1>4, SameRequest
  <2>4. TaskShape'
    BY <1>1, <1>4, <2>2, <2>3 DEF TypeInv, TaskShape, Touched
  <2> QED
    BY <2>1, <2>2, <2>3, <2>4 DEF TypeInv, TypeOK
<1> QED
  BY <1>2, <1>3, <1>4 DEF TakeLock

LEMMA TypeReadFile ==
    ASSUME TypeInv, ReadFile
    PROVE  TypeInv'
<1>1. queue # <<>> /\ pc = "read" /\ UNCHANGED <<disk, files, strays, boundVars, historyVars>>
  BY DEF ReadFile, At
<1>2. Readable(disk) \in Tracker /\ local.seen \in Nat
  BY ReadableType DEF TypeInv, TypeOK, StoresOK, TaskOK, Local
<1>3. CASE \/ RememberAndReturn(0, EmptyTracker, FALSE)
           \/ RememberAndReturn(local.seen, Readable(disk), disk.bad # {})
  <2>1. cache' \in Cache /\ mint' \in Nat
    BY <1>2, <1>3, RememberType, EmptyTrackerType DEF RememberAndReturn
  <2>2. StoresOK' /\ HistoryOK'
    BY <1>1, <2>1 DEF boundVars, historyVars, TypeInv, TypeOK, StoresOK, HistoryOK
  <2> QED
    BY <1>1, <1>3, <2>1, <2>2, ReturnType DEF TypeInv, TypeOK, RememberAndReturn
<1>4. CASE Finish("failed") /\ UNCHANGED <<op, cache, mint>>
  <2>1. StoresOK' /\ HistoryOK'
    BY <1>1, <1>4 DEF boundVars, historyVars, TypeInv, TypeOK, StoresOK, HistoryOK
  <2> QED
    BY <1>1, <1>4, <2>1, FinishType DEF Answers, TypeInv, TypeOK, RequestsOK, TaskOK, Phases
<1>5. CASE /\ local' = [local EXCEPT !.next = Readable(disk), !.upgrade = TRUE]
           /\ pc' = "write" /\ UNCHANGED <<cache, mint, queue, op, reply, todo>>
  <2>1. StoresOK' /\ HistoryOK'
    BY <1>1, <1>5 DEF boundVars, historyVars, TypeInv, TypeOK, StoresOK, HistoryOK
  <2>2. TaskOK' /\ local'.put = local.put
    BY <1>1, <1>2, <1>5 DEF TypeInv, TypeOK, TaskOK, Phases, Local
  <2>3. RequestsOK' /\ QueueShape' /\ Doing' = Doing
    BY <1>5, SameRequest
  <2>4. TaskShape'
    BY <1>1, <1>5, <2>2, <2>3 DEF TypeInv, TaskShape, Touched
  <2> QED
    BY <2>1, <2>2, <2>3, <2>4 DEF TypeInv, TypeOK
<1> QED
  BY <1>3, <1>4, <1>5 DEF ReadFile

LEMMA FinishStep ==
    ASSUME TypeInv, queue # <<>>, NEW answer \in Answers, Finish(answer), op' = op,
           StoresOK', HistoryOK'
    PROVE  TypeInv'
BY FinishType DEF TypeInv, TypeOK, RequestsOK, TaskOK, Phases

LEMMA TypeReadFails ==
    ASSUME TypeInv, ReadFails
    PROVE  TypeInv'
<1>1. StoresOK' /\ HistoryOK'
  BY DEF ReadFails, Fault, TypeInv, TypeOK, StoresOK, HistoryOK
<1> QED
  BY <1>1, FinishStep DEF ReadFails, At, Answers

LEMMA TypeAnswer ==
    ASSUME TypeInv, AnswerList \/ RefuseUnreadable \/ AnswerWithoutWriting \/ PreviousReadFails
    PROVE  TypeInv'
<1>1. CASE AnswerList
  <2>1. [revision |-> local.revision, recs |-> local.recs] \in [revision : Nat, recs : Tracker]
    BY DEF TypeInv, TypeOK, TaskOK, Local
  <2>2. StoresOK' /\ HistoryOK'
    BY <1>1, <2>1 DEF AnswerList, boundVars, TypeInv, TypeOK, StoresOK, HistoryOK
  <2> QED
    BY <1>1, <2>2, FinishStep DEF AnswerList, Reading, At, Answers
<1>2. CASE RefuseUnreadable \/ AnswerWithoutWriting \/ PreviousReadFails
  <2>1. StoresOK' /\ HistoryOK'
    BY <1>2 DEF RefuseUnreadable, AnswerWithoutWriting, PreviousReadFails, Fault, boundVars,
                historyVars, TypeInv, TypeOK, StoresOK, HistoryOK
  <2>2. queue # <<>> /\ op' = op /\ \E answer \in Answers : Finish(answer)
    BY <1>2 DEF RefuseUnreadable, AnswerWithoutWriting, PreviousReadFails, Writing, At, Answers
  <2> QED
    BY <2>1, <2>2, FinishStep
<1> QED
  BY <1>1, <1>2

LEMMA TypeBegin ==
    ASSUME TypeInv, Begin
    PROVE  TypeInv'
<1>1. queue # <<>> /\ Doing.kind # "list" /\ UNCHANGED <<queue, op, reply>>
  BY DEF Begin, Writing, At
<1>2. PendingPut \in Put /\ NextTracker \in Tracker
  BY <1>1, NextType
<1>3. (IF Doing.kind = "save" THEN EmptyFolder ELSE files[Target(Doing)]) \in Folder
  BY <1>1, MeType DEF EmptyFolder, Folder, TypeInv, TypeOK, StoresOK
<1>4. TaskOK'
  BY <1>2, <1>3 DEF Begin, Touched, TypeInv, TypeOK, TaskOK, Phases, Local
<1>5. StoresOK' /\ HistoryOK'
  BY DEF Begin, boundVars, historyVars, TypeInv, TypeOK, StoresOK, HistoryOK
<1>6. RequestsOK' /\ QueueShape' /\ Doing' = Doing
  BY <1>1, SameRequest
<1>7. todo' = Touched(local'.put) /\ local'.put = PendingPut
  BY DEF Begin, TypeInv, TypeOK, TaskOK, Local
<1>8. TaskShape'
  BY <1>1, <1>6, <1>7, SaveTouchesNothing, MeType DEF Begin, TypeInv, TaskShape, Request
<1> QED
  BY <1>4, <1>5, <1>6, <1>8 DEF TypeInv, TypeOK

LEMMA TypeWriteFile ==
    ASSUME TypeInv, NEW f \in Files, WriteFile(f)
    PROVE  TypeInv'
<1>1. queue # <<>> /\ pc = "files" /\ f \in todo /\ UNCHANGED <<queue, op, reply, local>>
  BY DEF WriteFile, At, Due
<1>2. Target(Doing) \in Ids
  BY <1>1, MeType DEF TypeInv, TaskShape
<1>3. local.put[f] \in Bytes \cup {None}
  BY <1>1 DEF TypeInv, TypeOK, TaskOK, TaskShape, Touched, Local, Put
<1>4. files' \in [Ids -> Folder]
  BY <1>2, <1>3 DEF WriteFile, TypeInv, TypeOK, StoresOK, Folder
<1>5. StoresOK' /\ HistoryOK'
  BY <1>4 DEF WriteFile, boundVars, historyVars, TypeInv, TypeOK, StoresOK, HistoryOK
<1>6. TaskOK'
  BY <1>1 DEF WriteFile, TypeInv, TypeOK, TaskOK, Phases
<1>7. RequestsOK' /\ QueueShape' /\ Doing' = Doing
  BY <1>1, SameRequest
<1>8. TaskShape'
  BY <1>1, <1>7 DEF WriteFile, TypeInv, TaskShape, Touched
<1> QED
  BY <1>5, <1>6, <1>7, <1>8 DEF TypeInv, TypeOK

LEMMA TypeFileFails ==
    ASSUME TypeInv, NEW f \in Files, FileFails(f)
    PROVE  TypeInv'
<1>1. queue # <<>> /\ pc = "files" /\ op' = op
  BY DEF FileFails, At
<1>2. Target(Doing) \in Ids
  BY <1>1, MeType DEF TypeInv, TaskShape
<1>3. \A g \in todo : g \in Files /\ local.put[g] \in Bytes \cup {None}
  BY <1>1 DEF TypeInv, TypeOK, TaskOK, TaskShape, Touched, Local, Put
<1>4. Left(todo \ {f}, local.put) \subseteq Stray
  BY <1>2, <1>3 DEF Left, Stray
<1>5. StoresOK' /\ HistoryOK'
  <2>1. strays \subseteq Stray /\ strays' \subseteq strays \cup Left(todo \ {f}, local.put)
    BY DEF FileFails, TypeInv, TypeOK, StoresOK
  <2>2. faults' = faults + 1 /\ UNCHANGED <<disk, files, cache, mint, edits, crashes, historyVars>>
    BY DEF FileFails, Fault
  <2>3. strays' \subseteq Stray
    BY <1>4, <2>1
  <2> QED
    BY <2>2, <2>3 DEF historyVars, TypeInv, TypeOK, StoresOK, HistoryOK
<1> QED
  BY <1>1, <1>5, UndoType DEF FileFails, TypeInv, TypeOK

LEMMA TypeRestoreFile ==
    ASSUME TypeInv, NEW f \in Files, RestoreFile(f)
    PROVE  TypeInv'
<1>1. queue # <<>> /\ pc = "rollback" /\ f \in todo /\ op' = op
  BY DEF RestoreFile, At
<1>2. Target(Doing) \in Ids
  BY <1>1, MeType DEF TypeInv, TaskShape
<1>3. files' \in [Ids -> Folder]
  BY <1>2 DEF RestoreFile, TypeInv, TypeOK, StoresOK, TaskOK, Local, Folder
<1>4. StoresOK' /\ HistoryOK'
  <2>1. UNCHANGED <<disk, cache, op, strays, mint, boundVars, historyVars>>
    BY DEF RestoreFile
  <2> QED
    BY <1>3, <2>1 DEF boundVars, historyVars, TypeInv, TypeOK, StoresOK, HistoryOK
<1>5. CASE todo = {f}
  BY <1>1, <1>4, <1>5, FinishStep DEF RestoreFile, Answers
<1>6. CASE todo # {f}
  <2>1. UNCHANGED <<queue, op, reply, pc, local>> /\ todo' = todo \ {f}
    BY <1>6 DEF RestoreFile
  <2>2. RequestsOK' /\ QueueShape' /\ Doing' = Doing
    BY <2>1, SameRequest
  <2>3. TaskOK' /\ TaskShape'
    BY <2>1, <2>2, <1>1 DEF TypeInv, TypeOK, TaskOK, TaskShape, Touched
  <2> QED
    BY <1>4, <2>2, <2>3 DEF TypeInv, TypeOK
<1> QED
  BY <1>5, <1>6

LEMMA TypeRestoreFails ==
    ASSUME TypeInv, NEW f \in Files, RestoreFails(f)
    PROVE  TypeInv'
<1>1. queue # <<>> /\ pc = "rollback" /\ op' = op
  BY DEF RestoreFails, At
<1>2. Target(Doing) \in Ids
  BY <1>1, MeType DEF TypeInv, TaskShape
<1>3. Left(todo \ {f}, local.prev) \subseteq Stray /\ Pair(todo) \subseteq Ids \X Files
  BY <1>1, <1>2 DEF Left, Pair, Stray, TypeInv, TypeOK, TaskOK, Local, Folder
<1>4. StoresOK' /\ HistoryOK'
  <2>1. strays \subseteq Stray /\ strays' = strays \cup Left(todo \ {f}, local.prev)
    BY DEF RestoreFails, TypeInv, TypeOK, StoresOK
  <2>2. torn' = torn \cup Pair(todo) /\ faults' = faults + 1
        /\ UNCHANGED <<disk, files, cache, mint, edits, crashes, raced, before, sent>>
    BY DEF RestoreFails, Fault
  <2>3. strays' \subseteq Stray
    BY <1>3, <2>1
  <2>4. torn' \subseteq Ids \X Files
    BY <1>3, <2>2 DEF TypeInv, TypeOK, HistoryOK
  <2> QED
    BY <2>2, <2>3, <2>4 DEF TypeInv, TypeOK, StoresOK, HistoryOK
<1> QED
  BY <1>1, <1>4, FinishStep DEF RestoreFails, Answers

LEMMA TypeWipeFolder ==
    ASSUME TypeInv, WipeFolder
    PROVE  TypeInv'
<1>1. queue # <<>> /\ pc = "wipe" /\ op' = op
  BY DEF WipeFolder, At
<1>2. Target(Doing) \in Ids
  BY <1>1, MeType DEF TypeInv, TaskShape
<1>3. EmptyFolder \in Folder /\ Pair(Touched(local.put)) \subseteq Ids \X Files
  BY <1>2 DEF EmptyFolder, Folder, Pair, Touched
<1>4. StoresOK' /\ HistoryOK'
  <2>1. files' \in [Ids -> Folder]
    BY <1>2, <1>3 DEF WipeFolder, TypeInv, TypeOK, StoresOK
  <2>2. torn' \subseteq Ids \X Files /\ faults' \in Nat
    BY <1>3 DEF WipeFolder, Fault, TypeInv, TypeOK, HistoryOK
  <2>3. UNCHANGED <<disk, cache, strays, mint, edits, crashes, raced, before, sent>>
    BY DEF WipeFolder
  <2> QED
    BY <2>1, <2>2, <2>3 DEF TypeInv, TypeOK, StoresOK, HistoryOK
<1>5. \E answer \in Answers : Finish(answer)
  BY DEF WipeFolder, Answers
<1> QED
  BY <1>1, <1>4, <1>5, FinishStep

LEMMA TypeStrayLands ==
    ASSUME TypeInv, NEW t \in strays, StrayLands(t)
    PROVE  TypeInv'
<1>1. t.id \in Ids /\ t.file \in Files /\ t.bytes \in Bytes \cup {None}
  BY DEF TypeInv, TypeOK, StoresOK, Stray
<1>2. files' \in [Ids -> Folder]
  BY <1>1 DEF StrayLands, TypeInv, TypeOK, StoresOK, Folder
<1>3. torn' \subseteq Ids \X Files
  BY <1>1 DEF StrayLands, TypeInv, TypeOK, HistoryOK
<1>4. strays' \subseteq strays
      /\ UNCHANGED <<disk, cache, queue, op, reply, taskVars, mint, boundVars, raced, before, sent>>
  BY DEF StrayLands
<1>5. strays' \subseteq Stray
  BY <1>4 DEF TypeInv, TypeOK, StoresOK
<1>6. StoresOK' /\ TaskOK' /\ HistoryOK'
  BY <1>2, <1>3, <1>4, <1>5 DEF taskVars, boundVars, TypeInv, TypeOK, StoresOK, TaskOK, HistoryOK
<1>7. RequestsOK' /\ QueueShape' /\ Doing' = Doing
  BY <1>4, SameRequest
<1>8. TaskShape'
  BY <1>4, <1>7 DEF taskVars, TypeInv, TaskShape, Touched
<1> QED
  BY <1>6, <1>7, <1>8 DEF TypeInv, TypeOK

LEMMA TypeWriteTracker ==
    ASSUME TypeInv, WriteTracker
    PROVE  TypeInv'
<1>1. /\ queue # <<>> /\ pc = "write" /\ pc' = "confirm" /\ mint' = mint + 1
      /\ local' = [local EXCEPT !.written = mint + 1] /\ torn' \subseteq torn
      /\ disk' = [ident |-> mint + 1, form |-> "current", recs |-> local.next, bad |-> {}]
      /\ UNCHANGED <<files, cache, queue, op, reply, todo, strays, boundVars, raced, before, sent>>
  BY DEF WriteTracker, At
<1>2. disk' \in Disk
  BY <1>1 DEF Disk, Forms, TypeInv, TypeOK, TaskOK, HistoryOK, Local
<1>3. StoresOK' /\ HistoryOK'
  BY <1>1, <1>2 DEF boundVars, TypeInv, TypeOK, StoresOK, HistoryOK
<1>4. TaskOK' /\ local'.put = local.put
  BY <1>1 DEF TypeInv, TypeOK, TaskOK, HistoryOK, Phases, Local
<1>5. RequestsOK' /\ QueueShape' /\ Doing' = Doing
  BY <1>1, SameRequest
<1>6. TaskShape'
  BY <1>1, <1>4, <1>5 DEF TypeInv, TaskShape, Touched
<1> QED
  BY <1>3, <1>4, <1>5, <1>6 DEF TypeInv, TypeOK

LEMMA TypeWriteFails ==
    ASSUME TypeInv, WriteFails
    PROVE  TypeInv'
<1>1. /\ queue # <<>> /\ pc = "write" /\ faults' \in Nat
      /\ UNCHANGED <<disk, files, strays, edits, crashes, historyVars>>
  BY DEF WriteFails, At, Fault, TypeInv, TypeOK, HistoryOK
<1>2. CASE local.upgrade
  <2>1. RememberAndReturn(local.seen, local.next, FALSE)
    BY <1>2 DEF WriteFails
  <2>2. cache' \in Cache /\ mint' \in Nat
    BY <2>1, RememberType DEF RememberAndReturn, TypeInv, TypeOK, TaskOK, Local
  <2>3. StoresOK' /\ HistoryOK'
    BY <1>1, <2>2 DEF historyVars, TypeInv, TypeOK, StoresOK, HistoryOK
  <2> QED
    BY <1>1, <2>1, <2>2, <2>3, ReturnType DEF TypeInv, TypeOK, RememberAndReturn
<1>3. CASE ~local.upgrade
  <2>1. Undo /\ UNCHANGED <<op, cache, mint>>
    BY <1>3 DEF WriteFails
  <2>2. StoresOK' /\ HistoryOK'
    BY <1>1, <2>1 DEF historyVars, TypeInv, TypeOK, StoresOK, HistoryOK
  <2> QED
    BY <1>1, <2>1, <2>2, UndoType DEF TypeInv, TypeOK
<1> QED
  BY <1>2, <1>3

LEMMA TypeConfirm ==
    ASSUME TypeInv, Confirm
    PROVE  TypeInv'
<1>1. /\ queue # <<>> /\ pc = "confirm" /\ AfterWrite
      /\ UNCHANGED <<disk, files, op, strays, edits, crashes, torn, raced, before>>
  BY DEF Confirm, At
<1>2. local.next \in Tracker /\ disk.ident \in Nat /\ mint + 1 \in Nat
  BY DEF TypeInv, TypeOK, TaskOK, StoresOK, HistoryOK, Local, Disk
<1>3. cache' \in Cache /\ mint' \in Nat /\ faults' \in Nat
  <2>1. CASE Remember(disk.ident, local.next, FALSE) /\ UNCHANGED faults
    BY <1>2, <2>1, RememberType DEF TypeInv, TypeOK, HistoryOK
  <2>2. CASE cache' = NoCache /\ mint' = mint /\ (Fault \/ UNCHANGED faults)
    BY <2>2, EmptyTrackerType DEF NoCache, Cache, Fault, TypeInv, TypeOK, HistoryOK
  <2> QED
    BY <2>1, <2>2 DEF Confirm
<1>4. sent' \subseteq [revision : Nat, recs : Tracker]
  <2>1. [revision |-> mint + 1, recs |-> local.next] \in [revision : Nat, recs : Tracker]
    BY <1>2
  <2> QED
    BY <2>1 DEF Confirm, TypeInv, TypeOK, HistoryOK
<1>5. StoresOK' /\ HistoryOK'
  BY <1>1, <1>3, <1>4 DEF TypeInv, TypeOK, StoresOK, HistoryOK
<1>6. CASE Finish("ok")
  BY <1>1, <1>5, <1>6, FinishStep DEF Answers
<1>7. CASE /\ \/ pc' = "wait" /\ local' = NoLocal /\ todo' = todo
              \/ pc' = "trash" /\ local' = local /\ todo' = Deleted
           /\ UNCHANGED <<queue, reply>>
  <2>1. RequestsOK' /\ QueueShape' /\ Doing' = Doing
    BY <1>1, <1>7, SameRequest
  <2>2. TaskOK'
    BY <1>1, <1>7, NoLocalType DEF TypeInv, TypeOK, TaskOK, Phases, Deleted, Held
  <2>3. TaskShape'
    BY <1>1, <1>7, <2>1, NoLocalType DEF TypeInv, TaskShape, Touched
  <2> QED
    BY <1>5, <2>1, <2>2, <2>3 DEF TypeInv, TypeOK
<1> QED
  BY <1>1, <1>6, <1>7 DEF AfterWrite

LEMMA TypeTrashFolder ==
    ASSUME TypeInv, NEW i \in Ids, TrashFolder(i)
    PROVE  TypeInv'
<1>1. /\ queue # <<>> /\ pc = "trash"
      /\ UNCHANGED <<disk, cache, op, strays, mint, edits, crashes, historyVars>>
  BY DEF TrashFolder, At
<1>2. files' \in [Ids -> Folder] /\ faults' \in Nat
  BY DEF TrashFolder, Fault, EmptyFolder, Folder, TypeInv, TypeOK, StoresOK, HistoryOK
<1>3. StoresOK' /\ HistoryOK'
  BY <1>1, <1>2 DEF historyVars, TypeInv, TypeOK, StoresOK, HistoryOK
<1>4. CASE Finish("ok")
  BY <1>1, <1>3, <1>4, FinishStep DEF Answers
<1>5. CASE todo' = todo \ {i} /\ UNCHANGED <<pc, local, queue, reply>>
  <2>1. RequestsOK' /\ QueueShape' /\ Doing' = Doing
    BY <1>1, <1>5, SameRequest
  <2>2. TaskOK' /\ TaskShape'
    BY <1>1, <1>5, <2>1 DEF TypeInv, TypeOK, TaskOK, TaskShape, Touched
  <2> QED
    BY <1>3, <2>1, <2>2 DEF TypeInv, TypeOK
<1> QED
  BY <1>4, <1>5 DEF TrashFolder

\* Each kind of edit gives a new file a new identity, or removes it.
LEMMA EditedType ==
    ASSUME disk \in Disk, mint \in Nat, NEW form \in EditForms, OutsideEdit(form)
    PROVE  /\ disk' \in Disk
           /\ (disk.form = "missing" => disk.bad = {}) =>
              \/ disk'.ident = mint + 1 /\ disk.form # "missing" /\ disk'.form # "missing"
              \/ disk'.ident = 0 /\ disk'.form = "missing" /\ disk'.recs = EmptyTracker /\ disk'.bad = {}
<1> DEFINE touched == [disk EXCEPT !.ident = mint + 1]
<1>1. touched \in Disk
  BY DEF Disk
<1>2. CASE form = "touch"
  BY <1>1, <1>2 DEF OutsideEdit, Disk
<1>3. CASE form = "revise"
  <2>1. PICK i \in Held(disk.recs) : disk' = [touched EXCEPT !.recs[i].rev = mint + 1]
    BY <1>3 DEF OutsideEdit
  <2>2. i \in Ids /\ [disk.recs[i] EXCEPT !.rev = mint + 1] \in Record
    BY DEF Held, Disk, Tracker, Record
  <2>3. [disk.recs EXCEPT ![i].rev = mint + 1] \in Tracker
    BY <2>2 DEF Disk, Tracker
  <2> QED
    BY <1>1, <1>3, <2>1, <2>3 DEF OutsideEdit, Disk
<1>4. CASE form = "damage"
  <2>1. PICK i \in Held(disk.recs) : disk' = [touched EXCEPT !.bad = @ \cup {i}]
    BY <1>4 DEF OutsideEdit
  <2> QED
    BY <1>1, <1>4, <2>1 DEF OutsideEdit, Disk, Held
<1>5. CASE form = "corrupt"
  BY <1>1, <1>5 DEF OutsideEdit, Disk, Forms
<1>6. CASE form = "remove"
  BY <1>1, <1>6, EmptyTrackerType DEF OutsideEdit, Disk, Forms
<1>7. CASE form = "repair"
  BY <1>1, <1>7 DEF OutsideEdit, Disk, Forms
<1> QED
  BY <1>2, <1>3, <1>4, <1>5, <1>6, <1>7, StoreAssumption

LEMMA TypeOutsideEdit ==
    ASSUME TypeInv, NEW form \in EditForms, OutsideEdit(form)
    PROVE  TypeInv'
<1>1. /\ edits' \in Nat /\ mint' \in Nat /\ raced' \in BOOLEAN
      /\ UNCHANGED <<files, cache, queue, op, reply, taskVars, strays, faults, crashes,
                     torn, before, sent>>
  <2>1. UNCHANGED <<files, cache, queue, op, reply, taskVars, strays, faults, crashes,
                    torn, before, sent>>
    BY DEF OutsideEdit
  <2>2. edits' = edits + 1 /\ mint' = mint + 1 /\ raced' = (raced \/ pc \notin {"wait", "read"})
    BY DEF OutsideEdit
  <2>3. raced' \in BOOLEAN
    BY <2>2
  <2> QED
    BY <2>1, <2>2, <2>3 DEF TypeInv, TypeOK, HistoryOK
<1>2. disk' \in Disk
  BY EditedType DEF TypeInv, TypeOK, StoresOK, HistoryOK
<1>3. StoresOK' /\ TaskOK' /\ HistoryOK'
  BY <1>1, <1>2 DEF taskVars, TypeInv, TypeOK, StoresOK, TaskOK, HistoryOK
<1>4. RequestsOK' /\ QueueShape' /\ Doing' = Doing
  BY <1>1, SameRequest
<1>5. TaskShape'
  BY <1>1, <1>4 DEF taskVars, TypeInv, TaskShape, Touched
<1> QED
  BY <1>3, <1>4, <1>5 DEF TypeInv, TypeOK

LEMMA TypeCrash ==
    ASSUME TypeInv, Crash
    PROVE  TypeInv'
<1>1. /\ cache' = NoCache /\ queue' = <<>> /\ pc' = "wait" /\ local' = NoLocal
      /\ todo' = {} /\ strays' = {} /\ crashes' = crashes + 1
      /\ UNCHANGED <<disk, files, op, mint, edits, faults, raced, before, sent>>
  BY DEF Crash
<1>2. reply' \in [Requests -> Answers]
  BY DEF Crash, TypeInv, TypeOK, RequestsOK, Answers
<1>3. torn' \subseteq Ids \X Files
  <2>1. {<<t.id, t.file>> : t \in strays} \subseteq Ids \X Files
    BY DEF TypeInv, TypeOK, StoresOK, Stray
  <2>2. Pair(Touched(local.put)) \subseteq Ids \X Files
    <3>1. CASE Touched(local.put) = {}
      BY <3>1 DEF Pair
    <3>2. CASE Touched(local.put) # {}
      BY <3>2, MeType DEF Pair, Touched, TypeInv, TaskShape
    <3> QED
      BY <3>1, <3>2
  <2>3. torn \subseteq Ids \X Files
    BY DEF TypeInv, TypeOK, HistoryOK
  <2> QED
    BY <2>1, <2>2, <2>3 DEF Crash
<1>4. cache' \in Cache
  BY <1>1, EmptyTrackerType DEF NoCache, Cache
<1>5. StoresOK' /\ HistoryOK'
  BY <1>1, <1>3, <1>4 DEF TypeInv, TypeOK, StoresOK, HistoryOK
<1>6. RequestsOK' /\ QueueShape'
  BY <1>1, <1>2 DEF TypeInv, TypeOK, RequestsOK, QueueShape
<1>7. TaskOK' /\ TaskShape'
  BY <1>1, NoLocalType DEF TypeInv, TypeOK, TaskOK, TaskShape, Phases, Touched
<1> QED
  BY <1>5, <1>6, <1>7 DEF TypeInv, TypeOK

LEMMA TypeNext == TypeInv /\ [Next]_vars => TypeInv'
<1> SUFFICES ASSUME TypeInv, [Next]_vars PROVE TypeInv'
  OBVIOUS
<1>1. CASE \E r \in Requests : Submit(r)
  BY <1>1, TypeSubmit
<1>2. CASE TaskStep
  BY <1>2, TypeTakeLock, TypeReadFile, TypeAnswer, TypeBegin, TypeWriteFile, TypeRestoreFile,
     TypeWipeFolder, TypeWriteTracker, TypeConfirm, TypeTrashFolder, TypeWriteFails DEF TaskStep
<1>3. CASE FaultStep
  BY <1>3, TypeReadFails, TypeAnswer, TypeFileFails, TypeRestoreFails, TypeStrayLands DEF FaultStep
<1>4. CASE Environment
  BY <1>4, TypeCrash, TypeOutsideEdit DEF Environment
<1>5. CASE UNCHANGED vars
  BY <1>5 DEF vars, taskVars, boundVars, historyVars, TypeInv, TypeOK, StoresOK, RequestsOK, TaskOK,
              HistoryOK, TaskShape, QueueShape, Touched, Doing, Me
<1> QED
  BY <1>1, <1>2, <1>3, <1>4, <1>5 DEF Next

LEMMA TypeInvHolds == Spec => []TypeInv
BY TypeInit, TypeNext, PTL DEF Spec

\* Every variable keeps its type whatever the requests, edits, failures and
\* crashes.
THEOREM TypeCorrect == Spec => []TypeOK
<1>1. TypeInv => TypeOK
  BY DEF TypeInv
<1> QED
  BY <1>1, TypeInvHolds, PTL

-----------------------------------------------------------------------------
(* The cached tracker is the file                                            *)

LEMMA CacheInit == Init => FileInv
<1> SUFFICES ASSUME Init PROVE FileInv
  OBVIOUS
<1>1. PICK s \in Starts : disk = [ident |-> IF s.form = "missing" THEN 0 ELSE 1, form |-> s.form,
                                  recs |-> s.recs, bad |-> {}]
  BY DEF Init
<1>2. s.form = "missing" => s.recs = EmptyTracker
  BY StoreAssumption
<1>3. pc = "wait" /\ mint = 1 /\ cache.ident = 0 /\ cache.revision = 0
      /\ local.seen = 0 /\ local.written = 0
  BY DEF Init, NoCache, NoLocal
<1> QED
  BY <1>1, <1>2, <1>3 DEF FileInv, Identities, CacheInv, CacheHit, WrittenInv

\* A file that is not there reads as the empty tracker.
LEMMA MissingIsEmpty ==
    ASSUME disk.form = "missing", disk.recs = EmptyTracker, disk.bad = {}
    PROVE  Readable(disk) = EmptyTracker
BY DEF Readable, EmptyTracker

\* Remembering what the file holds under the identity it was read under, or
\* under one the file no longer has.
LEMMA CacheRemember ==
    ASSUME TypeInv, disk' = disk, mint' = mint + 1, cache'.ident <= mint, cache'.ident \in Nat,
           cache'.ident = 0 => cache'.recs = EmptyTracker /\ ~cache'.invalid,
           disk.ident = cache'.ident => /\ disk.form # "corrupt" /\ cache'.recs = Readable(disk)
                                        /\ (cache'.invalid <=> disk.bad # {})
    PROVE  CacheInv' /\ cache'.ident <= mint' /\ mint' \in Nat /\ mint <= mint'
<1>1. Readable(disk)' = Readable(disk)
  BY DEF Readable
<1> QED
  BY <1>1 DEF CacheInv, CacheHit, TypeInv, TypeOK, HistoryOK

\* A step that leaves the tracker, the cache and mint alone, and does not begin
\* a read, an upgrade or a confirmation.
LEMMA CacheQuiet ==
    ASSUME CacheIInv, UNCHANGED <<disk, cache, mint>>,
           \/ local' = NoLocal /\ pc' = "wait"
           \/ local' = local /\ pc' = pc
           \/ local' = local /\ pc' \in {"rollback", "wipe", "trash"}
           \/ local' = local /\ pc = "files" /\ pc' = "write"
    PROVE  FileInv'
<1>1. Readable(disk)' = Readable(disk)
  BY DEF Readable
<1>2. NoLocal.seen = 0 /\ NoLocal.written = 0 /\ mint \in Nat
  BY DEF NoLocal, CacheIInv, TypeInv, TypeOK, HistoryOK
<1>3. Identities'
  BY <1>2 DEF CacheIInv, FileInv, Identities, WrittenInv
<1>4. CacheInv'
  BY <1>1 DEF CacheIInv, FileInv, CacheInv, CacheHit
<1>5. WrittenInv'
  BY <1>1 DEF CacheIInv, FileInv, WrittenInv
<1> QED
  BY <1>3, <1>4, <1>5 DEF FileInv

\* The steps of clients, of the file operations and of refusals are of that kind.
LEMMA CacheQuietSteps ==
    ASSUME CacheIInv,
           \/ \E r \in Requests : Submit(r)
           \/ ReadFails \/ AnswerList \/ RefuseUnreadable \/ AnswerWithoutWriting
           \/ PreviousReadFails \/ WipeFolder \/ \E i \in Ids : TrashFolder(i)
           \/ \E f \in Files : WriteFile(f) \/ RestoreFile(f) \/ FileFails(f) \/ RestoreFails(f)
           \/ \E t \in strays : StrayLands(t)
           \/ UNCHANGED vars
    PROVE  FileInv'
<1>1. CASE \/ \E r \in Requests : Submit(r)
           \/ \E t \in strays : StrayLands(t)
           \/ UNCHANGED vars
  BY <1>1, CacheQuiet DEF Submit, StrayLands, vars, taskVars
<1>2. CASE ReadFails \/ AnswerList \/ RefuseUnreadable \/ AnswerWithoutWriting \/ PreviousReadFails
  BY <1>2, CacheQuiet DEF ReadFails, AnswerList, RefuseUnreadable, AnswerWithoutWriting,
                          PreviousReadFails, Finish
<1>3. CASE \/ WipeFolder
           \/ \E i \in Ids : TrashFolder(i)
           \/ \E f \in Files : RestoreFails(f)
  BY <1>3, CacheQuiet DEF WipeFolder, TrashFolder, RestoreFails, Finish
<1>4. ASSUME NEW f \in Files, WriteFile(f) PROVE FileInv'
  BY <1>4, CacheQuiet DEF WriteFile, At
<1>5. ASSUME NEW f \in Files, RestoreFile(f) PROVE FileInv'
  BY <1>5, CacheQuiet DEF RestoreFile, Finish
<1>6. ASSUME NEW f \in Files, FileFails(f) PROVE FileInv'
  BY <1>6, CacheQuiet DEF FileFails, Undo, Finish
<1> QED
  BY <1>1, <1>2, <1>3, <1>4, <1>5, <1>6

\* The task gets a snapshot and the cache is what CacheRemember makes of it.
LEMMA CacheReturn ==
    ASSUME CacheIInv, NEW snapshot \in Cache, Return(snapshot), disk' = disk, CacheInv',
           cache'.ident <= mint', mint' \in Nat, mint <= mint'
    PROVE  FileInv'
<1>1. local'.seen = local.seen /\ local'.written = local.written /\ ~local'.upgrade /\ pc' = "loaded"
  BY DEF Return, CacheIInv, TypeInv, TypeOK, TaskOK, Local
<1>2. local.seen \in Nat /\ local.written \in Nat /\ disk.ident \in Nat /\ mint \in Nat
  BY DEF CacheIInv, TypeInv, TypeOK, TaskOK, StoresOK, HistoryOK, Local, Disk
<1>3. Identities'
  BY <1>1, <1>2 DEF CacheIInv, FileInv, Identities
<1>4. WrittenInv'
  BY <1>1 DEF WrittenInv
<1> QED
  BY <1>3, <1>4 DEF FileInv

LEMMA CacheTakeLock ==
    ASSUME CacheIInv, TakeLock
    PROVE  FileInv'
<1>1. disk' = disk /\ mint \in Nat /\ cache \in Cache /\ TypeInv /\ Identities
  BY DEF TakeLock, CacheIInv, FileInv, TypeInv, TypeOK, StoresOK, HistoryOK
<1>2. CASE CacheHit /\ Return(cache) /\ UNCHANGED <<cache, mint>>
  <2>1. CacheInv' /\ cache.ident <= mint
    BY <1>1, <1>2, CacheQuiet DEF CacheIInv, FileInv, CacheInv, CacheHit, Readable, Identities
  <2> QED
    BY <1>1, <1>2, <2>1, CacheReturn
<1>3. CASE ~CacheHit /\ disk.form = "missing" /\ RememberAndReturn(0, EmptyTracker, FALSE)
  <2>1. Readable(disk) = EmptyTracker /\ disk.bad = {}
    BY <1>1, <1>3, MissingIsEmpty DEF Identities
  <2>2. /\ cache'.ident = 0 /\ cache'.recs = EmptyTracker /\ ~cache'.invalid /\ mint' = mint + 1
        /\ cache' \in Cache
    BY <1>1, <1>3, EmptyTrackerType DEF RememberAndReturn, Remember, Cache
  <2>3. CacheInv' /\ cache'.ident <= mint' /\ mint' \in Nat /\ mint <= mint'
    BY <1>1, <1>3, <2>1, <2>2, CacheRemember
  <2> QED
    BY <1>1, <1>3, <2>2, <2>3, CacheReturn DEF RememberAndReturn
<1>4. CASE /\ disk.form # "missing" /\ local' = [local EXCEPT !.seen = disk.ident] /\ pc' = "read"
           /\ UNCHANGED <<cache, mint, queue, op, reply, todo>>
  <2>1. local'.seen = disk.ident /\ local'.written = local.written
    BY <1>4 DEF CacheIInv, TypeInv, TypeOK, TaskOK, Local
  <2>2. Identities'
    BY <1>1, <1>4, <2>1 DEF Identities
  <2>3. CacheInv' /\ WrittenInv'
    BY <1>1, <1>4 DEF CacheIInv, FileInv, CacheInv, CacheHit, Readable, WrittenInv
  <2> QED
    BY <2>2, <2>3 DEF FileInv
<1> QED
  BY <1>2, <1>3, <1>4 DEF TakeLock

LEMMA CacheReadFile ==
    ASSUME CacheIInv, ReadFile
    PROVE  FileInv'
<1>1. /\ disk' = disk /\ pc = "read" /\ TypeInv /\ Identities /\ WrittenInv /\ mint \in Nat
      /\ local \in Local /\ Readable(disk) \in Tracker /\ cache \in Cache
  BY ReadableType DEF ReadFile, At, CacheIInv, FileInv, TypeInv, TypeOK, StoresOK, TaskOK, HistoryOK
<1>2. local.seen \in Nat /\ local.seen # 0 /\ local.seen <= mint
  BY <1>1 DEF Identities, Local
<1>3. CASE disk.form = "missing" /\ RememberAndReturn(0, EmptyTracker, FALSE)
  <2>1. Readable(disk) = EmptyTracker /\ disk.bad = {}
    BY <1>1, <1>3, MissingIsEmpty DEF Identities
  <2>2. /\ cache'.ident = 0 /\ cache'.recs = EmptyTracker /\ ~cache'.invalid /\ mint' = mint + 1
        /\ cache' \in Cache
    BY <1>1, <1>3, EmptyTrackerType DEF RememberAndReturn, Remember, Cache
  <2>3. CacheInv' /\ cache'.ident <= mint' /\ mint' \in Nat /\ mint <= mint'
    BY <1>1, <1>3, <2>1, <2>2, CacheRemember
  <2> QED
    BY <1>1, <1>3, <2>2, <2>3, CacheReturn DEF RememberAndReturn
<1>4. CASE /\ disk.form \in {"current", "older"}
           /\ RememberAndReturn(local.seen, Readable(disk), disk.bad # {})
  <2>1. /\ cache'.ident = local.seen /\ cache'.recs = Readable(disk) /\ mint' = mint + 1
        /\ cache'.invalid = (disk.bad # {})
    BY <1>4 DEF RememberAndReturn, Remember
  <2>2. cache' \in Cache
    BY <1>1, <1>2, <1>4, RememberType DEF RememberAndReturn
  <2>3. CacheInv' /\ cache'.ident <= mint' /\ mint' \in Nat /\ mint <= mint'
    BY <1>1, <1>2, <1>4, <2>1, CacheRemember
  <2> QED
    BY <1>1, <1>4, <2>2, <2>3, CacheReturn DEF RememberAndReturn
<1>5. CASE Finish("failed") /\ UNCHANGED <<op, cache, mint>>
  BY <1>1, <1>5, CacheQuiet DEF Finish
<1>6. CASE /\ disk.form = "older" /\ disk.bad = {} /\ pc' = "write"
           /\ local' = [local EXCEPT !.next = Readable(disk), !.upgrade = TRUE]
           /\ UNCHANGED <<cache, mint, queue, op, reply, todo>>
  <2>1. /\ local'.seen = local.seen /\ local'.written = local.written
        /\ local'.next = Readable(disk)
    BY <1>1, <1>6 DEF Local
  <2>2. Readable(disk)' = Readable(disk)
    BY <1>1 DEF Readable
  <2>3. Identities'
    BY <1>1, <1>2, <1>6, <2>1 DEF Identities
  <2>4. CacheInv' /\ WrittenInv'
    BY <1>1, <1>6, <2>1, <2>2 DEF CacheIInv, FileInv, CacheInv, CacheHit, WrittenInv
  <2> QED
    BY <2>3, <2>4 DEF FileInv
<1> QED
  BY <1>3, <1>4, <1>5, <1>6 DEF ReadFile

LEMMA CacheBegin ==
    ASSUME CacheIInv, Begin
    PROVE  FileInv'
<1>1. /\ disk' = disk /\ cache' = cache /\ mint' = mint + 1 /\ mint \in Nat /\ cache \in Cache
      /\ pc = "loaded" /\ pc' \in {"files", "write"} /\ disk.ident \in Nat
  BY DEF Begin, Writing, At, CacheIInv, TypeInv, TypeOK, StoresOK, HistoryOK, Disk
<1>2. /\ local'.seen = local.seen /\ local'.written = local.written /\ local'.upgrade = local.upgrade
      /\ local.seen \in Nat /\ local.written \in Nat
  BY DEF Begin, CacheIInv, TypeInv, TypeOK, TaskOK, Local
<1>3. ~local.upgrade
  BY <1>1 DEF CacheIInv, FileInv, WrittenInv
<1>4. Identities'
  BY <1>1, <1>2, <1>3 DEF CacheIInv, FileInv, Identities, Cache
<1>5. CacheInv'
  BY <1>1 DEF CacheIInv, FileInv, CacheInv, CacheHit, Readable
<1>6. WrittenInv'
  BY <1>1, <1>2, <1>3 DEF WrittenInv
<1> QED
  BY <1>4, <1>5, <1>6 DEF FileInv

LEMMA CacheWriteTracker ==
    ASSUME CacheIInv, WriteTracker
    PROVE  FileInv'
<1>1. /\ disk' = [ident |-> mint + 1, form |-> "current", recs |-> local.next, bad |-> {}]
      /\ cache' = cache /\ mint' = mint + 1 /\ mint \in Nat /\ cache \in Cache /\ pc' = "confirm"
  BY DEF WriteTracker, CacheIInv, TypeInv, TypeOK, StoresOK, HistoryOK
<1>2. /\ local'.seen = local.seen /\ local'.written = mint + 1 /\ local'.next = local.next
      /\ local.seen \in Nat
  BY <1>1 DEF WriteTracker, CacheIInv, TypeInv, TypeOK, TaskOK, Local
<1>3. Identities'
  BY <1>1, <1>2 DEF CacheIInv, FileInv, Identities, Cache
<1>4. CacheInv'
  BY <1>1 DEF CacheIInv, FileInv, Identities, CacheInv, CacheHit, Cache
<1>5. WrittenInv'
  BY <1>1, <1>2 DEF WrittenInv
<1> QED
  BY <1>3, <1>4, <1>5 DEF FileInv

LEMMA CacheWriteFails ==
    ASSUME CacheIInv, WriteFails
    PROVE  FileInv'
<1>1. /\ disk' = disk /\ pc = "write" /\ queue # <<>> /\ TypeInv /\ Identities /\ WrittenInv
      /\ mint \in Nat /\ local \in Local
  BY DEF WriteFails, At, CacheIInv, FileInv, TypeInv, TypeOK, TaskOK, HistoryOK
<1>2. CASE local.upgrade
  <2>1. RememberAndReturn(local.seen, local.next, FALSE)
    BY <1>2 DEF WriteFails
  <2>2. /\ cache'.ident = local.seen /\ cache'.recs = local.next /\ ~cache'.invalid
        /\ mint' = mint + 1 /\ cache' \in Cache
    BY <1>1, <2>1 DEF RememberAndReturn, Remember, Cache, Local
  <2>3. local.seen # 0 /\ local.seen <= mint /\ local.seen \in Nat
    BY <1>1, <1>2 DEF Identities, Local
  <2>4. CacheInv' /\ cache'.ident <= mint' /\ mint' \in Nat /\ mint <= mint'
    BY <1>1, <1>2, <2>2, <2>3, CacheRemember DEF WrittenInv
  <2> QED
    BY <1>1, <2>1, <2>2, <2>4, CacheReturn DEF RememberAndReturn
<1>3. CASE ~local.upgrade
  BY <1>1, <1>3, CacheQuiet DEF WriteFails, Undo, Finish
<1> QED
  BY <1>2, <1>3

LEMMA CacheConfirm ==
    ASSUME CacheIInv, Confirm
    PROVE  FileInv'
<1>1. /\ disk' = disk /\ pc = "confirm" /\ TypeInv /\ Identities /\ WrittenInv
      /\ mint \in Nat /\ local \in Local /\ disk \in Disk /\ mint' \in {mint, mint + 1}
  BY DEF Confirm, At, CacheIInv, FileInv, TypeInv, TypeOK, StoresOK, TaskOK, HistoryOK, Remember
<1>2. (local' = NoLocal /\ pc' = "wait") \/ (local' = local /\ pc' = "trash")
  BY DEF Confirm, AfterWrite, Finish
<1>3. CacheInv' /\ cache'.ident <= mint'
  <2>1. CASE Confirmed /\ Remember(disk.ident, local.next, FALSE)
    <3>1. /\ cache'.ident = disk.ident /\ cache'.recs = local.next /\ ~cache'.invalid
          /\ mint' = mint + 1
      BY <2>1 DEF Remember
    <3>2. disk.form = "current" /\ disk.bad = {} /\ disk.recs = local.next /\ disk.recs \in Tracker
      BY <1>1, <2>1 DEF Confirmed, WrittenInv, Disk
    <3>3. Readable(disk) = local.next
      BY <3>2 DEF Readable, Tracker
    <3>4. disk.ident # 0 /\ disk.ident \in Nat /\ disk.ident <= mint
      BY <1>1, <3>2 DEF Identities, Disk
    <3> QED
      BY <1>1, <3>1, <3>2, <3>3, <3>4, CacheRemember
  <2>2. CASE cache' = NoCache
    BY <1>1, <2>2 DEF CacheInv, CacheHit, NoCache
  <2> QED
    BY <2>1, <2>2 DEF Confirm
<1>4. Identities'
  BY <1>1, <1>2, <1>3 DEF Identities, NoLocal, Disk, Local
<1>5. WrittenInv'
  BY <1>2 DEF WrittenInv
<1> QED
  BY <1>3, <1>4, <1>5 DEF FileInv

LEMMA CacheOutsideEdit ==
    ASSUME CacheIInv, NEW form \in EditForms, OutsideEdit(form)
    PROVE  FileInv'
<1>1. /\ mint' = mint + 1 /\ cache' = cache /\ local' = local /\ pc' = pc
      /\ mint \in Nat /\ cache \in Cache /\ local \in Local /\ disk \in Disk
  BY DEF OutsideEdit, taskVars, CacheIInv, TypeInv, TypeOK, StoresOK, TaskOK, HistoryOK
<1>2. \/ disk'.ident = mint + 1 /\ disk.form # "missing" /\ disk'.form # "missing"
      \/ disk'.ident = 0 /\ disk'.form = "missing" /\ disk'.recs = EmptyTracker /\ disk'.bad = {}
  BY <1>1, EditedType DEF CacheIInv, FileInv, Identities
<1>3. Identities'
  BY <1>1, <1>2 DEF CacheIInv, FileInv, Identities, Cache, Local
<1>4. CacheInv'
  <2>1. CASE disk'.ident = mint + 1
    BY <1>1, <2>1 DEF CacheIInv, FileInv, Identities, CacheInv, CacheHit, Cache
  <2>2. CASE disk'.ident = 0 /\ disk'.form = "missing" /\ disk'.recs = EmptyTracker /\ disk'.bad = {}
    <3>1. Readable(disk)' = EmptyTracker
      BY <2>2 DEF Readable, EmptyTracker
    <3> QED
      BY <1>1, <2>2, <3>1 DEF CacheIInv, FileInv, CacheInv, CacheHit
  <2> QED
    BY <1>2, <2>1, <2>2
<1>5. WrittenInv'
  BY <1>1, <1>2 DEF CacheIInv, FileInv, Identities, WrittenInv, Local
<1> QED
  BY <1>3, <1>4, <1>5 DEF FileInv

LEMMA CacheCrash ==
    ASSUME CacheIInv, Crash
    PROVE  FileInv'
<1>1. /\ disk' = disk /\ mint' = mint /\ cache' = NoCache /\ local' = NoLocal /\ pc' = "wait"
      /\ mint \in Nat
  BY DEF Crash, CacheIInv, TypeInv, TypeOK, HistoryOK
<1> QED
  BY <1>1 DEF CacheIInv, FileInv, Identities, CacheInv, CacheHit, WrittenInv, NoCache, NoLocal

LEMMA CacheNext == CacheIInv /\ [Next]_vars => CacheIInv'
<1> SUFFICES ASSUME CacheIInv, [Next]_vars PROVE FileInv'
  BY TypeNext DEF CacheIInv
<1>1. CASE \/ \E r \in Requests : Submit(r)
           \/ TaskStep \/ FaultStep
  BY <1>1, CacheQuietSteps, CacheTakeLock, CacheReadFile, CacheBegin, CacheWriteTracker,
     CacheWriteFails, CacheConfirm DEF TaskStep, FaultStep
<1>2. CASE Environment
  BY <1>2, CacheCrash, CacheOutsideEdit DEF Environment
<1>3. CASE UNCHANGED vars
  BY <1>3, CacheQuietSteps
<1> QED
  BY <1>1, <1>2, <1>3 DEF Next

LEMMA CacheIInvHolds == Spec => []CacheIInv
<1>1. Init => CacheIInv
  BY TypeInit, CacheInit DEF CacheIInv
<1> QED
  BY <1>1, CacheNext, PTL DEF Spec

\* A snapshot served from the cache is what a fresh read of the file would
\* return, whatever other programs do to the file between the awaits.
THEOREM CacheIsTrue == Spec => []CacheTruth
<1>1. CacheIInv => CacheTruth
  BY DEF CacheIInv, FileInv, CacheInv, CacheTruth
<1> QED
  BY <1>1, CacheIInvHolds, PTL

-----------------------------------------------------------------------------
(* No write loses an update                                                  *)

\* A request that joins the queue does not change the one at its head.
LEMMA SubmitKeepsDoing ==
    ASSUME TypeInv, queue # <<>>, NEW r \in Requests, Submit(r)
    PROVE  Doing' = Doing
<1>1. /\ queue \in Seq(Requests) /\ queue' = Append(queue, r) /\ reply[r] = "none"
      /\ \A q \in Requests \ {r} : op'[q] = op[q]
  BY DEF Submit, TypeInv, TypeOK, RequestsOK
<1>2. Len(queue) \in Nat \ {0} /\ Head(queue) = queue[1]
  BY <1>1
<1>3. Head(queue) \in Requests \ {r}
  BY <1>1, <1>2 DEF TypeInv, QueueShape
<1>4. Head(queue') = Head(queue)
  BY <1>1, <1>2
<1> QED
  BY <1>1, <1>3, <1>4 DEF Doing, Me

\* A step that leaves the file and the task's variables alone.
LEMMA SnapshotQuiet ==
    ASSUME UpdateIInv, UNCHANGED <<disk, raced>>,
           \/ pc' \notin {"loaded", "files", "write"}
           \/ local' = local /\ pc' = pc /\ Doing' = Doing
           \/ local' = local /\ pc = "files" /\ pc' = "write" /\ Doing' = Doing
    PROVE  SnapshotInv'
<1>1. Readable(disk)' = Readable(disk)
  BY DEF Readable
<1>2. CASE pc' \notin {"loaded", "files", "write"}
  BY <1>2 DEF SnapshotInv
<1>3. CASE local' = local /\ pc' = pc /\ Doing' = Doing
  BY <1>1, <1>3 DEF UpdateIInv, SnapshotInv, Permitted
<1>4. CASE local' = local /\ pc = "files" /\ pc' = "write" /\ Doing' = Doing
  BY <1>1, <1>4 DEF UpdateIInv, CacheIInv, FileInv, WrittenInv, SnapshotInv, Permitted
<1> QED
  BY <1>2, <1>3, <1>4

LEMMA SnapshotQuietSteps ==
    ASSUME UpdateIInv,
           \/ \E r \in Requests : Submit(r)
           \/ ReadFails \/ AnswerList \/ RefuseUnreadable \/ AnswerWithoutWriting
           \/ PreviousReadFails \/ WipeFolder \/ Confirm \/ Crash
           \/ \E i \in Ids : TrashFolder(i)
           \/ \E f \in Files : WriteFile(f) \/ RestoreFile(f) \/ FileFails(f) \/ RestoreFails(f)
           \/ \E t \in strays : StrayLands(t)
           \/ UNCHANGED vars
    PROVE  SnapshotInv'
<1>1. ASSUME NEW r \in Requests, Submit(r) PROVE SnapshotInv'
  <2>1. UNCHANGED <<disk, raced, local, pc>>
    BY <1>1 DEF Submit, taskVars, historyVars
  <2>2. CASE queue # <<>>
    BY <1>1, <2>1, <2>2, SubmitKeepsDoing, SnapshotQuiet DEF UpdateIInv, CacheIInv
  <2>3. CASE queue = <<>>
    BY <2>1, <2>3, SnapshotQuiet DEF UpdateIInv, CacheIInv, TypeInv, TaskShape
  <2> QED
    BY <2>2, <2>3
<1>2. CASE (\E t \in strays : StrayLands(t)) \/ UNCHANGED vars
  BY <1>2, SnapshotQuiet DEF StrayLands, vars, taskVars, historyVars, Doing, Me
<1>3. CASE Crash
  BY <1>3, SnapshotQuiet DEF Crash
<1>4. CASE ReadFails \/ AnswerList \/ RefuseUnreadable \/ AnswerWithoutWriting \/ PreviousReadFails
  BY <1>4, SnapshotQuiet DEF ReadFails, AnswerList, RefuseUnreadable, AnswerWithoutWriting,
                             PreviousReadFails, Finish, historyVars
<1>5. CASE WipeFolder \/ \E f \in Files : RestoreFails(f)
  BY <1>5, SnapshotQuiet DEF WipeFolder, RestoreFails, Finish, historyVars
<1>6. CASE Confirm
  BY <1>6, SnapshotQuiet DEF Confirm, AfterWrite, Finish
<1>7. ASSUME NEW f \in Files, WriteFile(f) PROVE SnapshotInv'
  BY <1>7, SnapshotQuiet DEF WriteFile, At, Doing, Me, historyVars
<1>8. ASSUME NEW f \in Files, RestoreFile(f) PROVE SnapshotInv'
  BY <1>8, SnapshotQuiet DEF RestoreFile, Finish, At, historyVars
<1>9. ASSUME NEW f \in Files, FileFails(f) PROVE SnapshotInv'
  BY <1>9, SnapshotQuiet DEF FileFails, Undo, Finish, historyVars
<1>10. CASE \E i \in Ids : TrashFolder(i)
  BY <1>10, SnapshotQuiet DEF TrashFolder, Finish, At, historyVars
<1> QED
  BY <1>1, <1>2, <1>3, <1>4, <1>5, <1>6, <1>7, <1>8, <1>9, <1>10

\* A task that is handed the file's content, or what another program has
\* already changed, starts from the content.
LEMMA SnapshotReturn ==
    ASSUME UpdateIInv, NEW snapshot \in Cache, Return(snapshot), disk' = disk,
           ~raced' => /\ disk.form # "corrupt" /\ snapshot.recs = Readable(disk)
                      /\ (snapshot.invalid <=> disk.bad # {})
    PROVE  SnapshotInv'
<1>1. /\ local'.recs = snapshot.recs /\ local'.invalid = snapshot.invalid /\ pc' = "loaded"
      /\ ~local'.upgrade
  BY DEF Return, UpdateIInv, CacheIInv, TypeInv, TypeOK, TaskOK, Local
<1>2. Readable(disk)' = Readable(disk)
  BY DEF Readable
<1> QED
  BY <1>1, <1>2 DEF SnapshotInv

LEMMA SnapshotTakeLock ==
    ASSUME UpdateIInv, TakeLock
    PROVE  SnapshotInv'
<1>1. disk' = disk /\ cache \in Cache /\ Identities /\ CacheInv
  BY DEF TakeLock, UpdateIInv, CacheIInv, FileInv, TypeInv, TypeOK, StoresOK
<1>2. CASE CacheHit /\ Return(cache)
  BY <1>1, <1>2, SnapshotReturn DEF CacheInv
<1>3. CASE disk.form = "missing" /\ RememberAndReturn(0, EmptyTracker, FALSE)
  <2>1. Readable(disk) = EmptyTracker /\ disk.bad = {}
    BY <1>1, <1>3, MissingIsEmpty DEF Identities
  <2>2. cache'.recs = EmptyTracker /\ ~cache'.invalid /\ cache' \in Cache
    BY <1>3, EmptyTrackerType DEF RememberAndReturn, Remember, Cache, UpdateIInv, CacheIInv,
                                  TypeInv, TypeOK, HistoryOK
  <2> QED
    BY <1>1, <1>3, <2>1, <2>2, SnapshotReturn DEF RememberAndReturn
<1>4. CASE pc' = "read"
  BY <1>4 DEF SnapshotInv
<1> QED
  BY <1>2, <1>3, <1>4 DEF TakeLock

LEMMA SnapshotReadFile ==
    ASSUME UpdateIInv, ReadFile
    PROVE  SnapshotInv'
<1>1. /\ disk' = disk /\ Identities /\ local \in Local /\ local.seen \in Nat
      /\ Readable(disk) \in Tracker /\ TypeInv
  BY ReadableType DEF ReadFile, UpdateIInv, CacheIInv, FileInv, TypeInv, TypeOK, StoresOK, TaskOK, Local
<1>2. CASE disk.form = "missing" /\ RememberAndReturn(0, EmptyTracker, FALSE)
  <2>1. Readable(disk) = EmptyTracker /\ disk.bad = {}
    BY <1>1, <1>2, MissingIsEmpty DEF Identities
  <2>2. cache'.recs = EmptyTracker /\ ~cache'.invalid /\ cache' \in Cache
    BY <1>1, <1>2, EmptyTrackerType DEF RememberAndReturn, Remember, Cache, TypeInv, TypeOK, HistoryOK
  <2> QED
    BY <1>1, <1>2, <2>1, <2>2, SnapshotReturn DEF RememberAndReturn
<1>3. CASE /\ disk.form \in {"current", "older"}
           /\ RememberAndReturn(local.seen, Readable(disk), disk.bad # {})
  <2>1. cache'.recs = Readable(disk) /\ cache'.invalid = (disk.bad # {})
    BY <1>3 DEF RememberAndReturn, Remember
  <2>2. cache' \in Cache
    BY <1>1, <1>3, RememberType DEF RememberAndReturn
  <2> QED
    BY <1>1, <1>3, <2>1, <2>2, SnapshotReturn DEF RememberAndReturn
<1>4. CASE Finish("failed")
  BY <1>4 DEF Finish, SnapshotInv
<1>5. CASE /\ disk.form = "older" /\ disk.bad = {} /\ pc' = "write"
           /\ local' = [local EXCEPT !.next = Readable(disk), !.upgrade = TRUE]
  <2>1. local'.next = Readable(disk) /\ local'.upgrade
    BY <1>1, <1>5 DEF Local
  <2>2. Readable(disk)' = Readable(disk)
    BY <1>1 DEF Readable
  <2> QED
    BY <1>1, <1>5, <2>1, <2>2 DEF SnapshotInv
<1> QED
  BY <1>2, <1>3, <1>4, <1>5 DEF ReadFile

\* What a request may change is what reconcile and the services let through.
LEMMA NextIsPermitted ==
    ASSUME TypeInv, Writing, Accepts, NEW i \in Ids, NextTracker[i] # local.recs[i]
    PROVE  Permitted(i)
<1>1. queue # <<>> /\ Doing.kind # "list" /\ Doing \in Request /\ RequestShape(Doing)
  BY MeType DEF Writing, At
<1>2. i \in Doing.upserts \cup Doing.deletes
  BY DEF NextTracker
<1>3. CASE Doing.kind = "save"
  BY <1>2, <1>3 DEF Accepts, Permitted
<1>4. CASE Doing.kind # "save"
  <2>1. i = Target(Doing)
    BY <1>1, <1>2, <1>4, TargetType
  <2>2. CASE Doing.kind = "document"
    BY <1>2, <2>1, <2>2 DEF Accepts, Permitted, Current
  <2>3. CASE Doing.kind \in {"submit", "update"}
    BY <1>2, <2>1, <2>3 DEF Accepts, BaseMatches, Permitted, Current
  <2>4. CASE Doing.kind = "commit"
    BY <1>1, <1>2, <2>1, <2>4 DEF Accepts, Permitted, Current, NoRecord, RequestShape, NoBase
  <2> QED
    BY <1>1, <1>4, <2>2, <2>3, <2>4 DEF Request
<1> QED
  BY <1>3, <1>4

LEMMA SnapshotBegin ==
    ASSUME UpdateIInv, Begin
    PROVE  SnapshotInv'
<1>1. /\ TypeInv /\ Writing /\ Accepts /\ pc = "loaded" /\ pc' \in {"files", "write"} /\ ~local.invalid
      /\ UNCHANGED <<disk, raced, queue, op>>
  BY DEF Begin, Writing, At, historyVars, UpdateIInv, CacheIInv
<1>2. /\ local'.recs = local.recs /\ local'.invalid = local.invalid
      /\ local'.upgrade = local.upgrade /\ local'.next = NextTracker
  BY DEF Begin, UpdateIInv, CacheIInv, TypeInv, TypeOK, TaskOK, Local
<1>3. ~local.upgrade
  BY <1>1 DEF UpdateIInv, CacheIInv, FileInv, WrittenInv
<1>4. Readable(disk)' = Readable(disk) /\ Doing' = Doing
  BY <1>1 DEF Readable, Doing, Me
<1>5. \A i \in Ids : local'.next[i] # local'.recs[i] => Permitted(i)'
  BY <1>1, <1>2, <1>4, NextIsPermitted DEF Permitted
<1> QED
  BY <1>1, <1>2, <1>3, <1>4, <1>5 DEF UpdateIInv, SnapshotInv

LEMMA SnapshotWriteFails ==
    ASSUME UpdateIInv, WriteFails
    PROVE  SnapshotInv'
<1>1. /\ UNCHANGED <<disk, raced>> /\ pc = "write" /\ local \in Local /\ mint \in Nat
  BY DEF WriteFails, At, historyVars, UpdateIInv, CacheIInv, TypeInv, TypeOK, TaskOK, HistoryOK
<1>2. CASE local.upgrade
  <2>1. RememberAndReturn(local.seen, local.next, FALSE)
    BY <1>2 DEF WriteFails
  <2>2. cache'.recs = local.next /\ ~cache'.invalid /\ cache' \in Cache
    BY <1>1, <2>1 DEF RememberAndReturn, Remember, Cache, Local
  <2> QED
    BY <1>1, <1>2, <2>1, <2>2, SnapshotReturn DEF RememberAndReturn, UpdateIInv, SnapshotInv
<1>3. CASE ~local.upgrade
  BY <1>1, <1>3, SnapshotQuiet DEF WriteFails, Undo, Finish
<1> QED
  BY <1>2, <1>3

LEMMA SnapshotOutsideEdit ==
    ASSUME UpdateIInv, NEW form \in EditForms, OutsideEdit(form)
    PROVE  SnapshotInv'
<1>1. UNCHANGED <<pc, local, queue, op>> /\ raced' = (raced \/ pc \notin {"wait", "read"})
  BY DEF OutsideEdit, taskVars
<1>2. Doing' = Doing
  BY <1>1 DEF Doing, Me
<1> QED
  BY <1>1, <1>2 DEF UpdateIInv, SnapshotInv, Permitted

LEMMA UpdateNext == UpdateIInv /\ [Next]_vars => UpdateIInv'
<1> SUFFICES ASSUME UpdateIInv, [Next]_vars PROVE SnapshotInv'
  BY CacheNext DEF UpdateIInv
<1>1. CASE WriteTracker
  BY <1>1 DEF WriteTracker, SnapshotInv
<1>2. CASE \E form \in EditForms : OutsideEdit(form)
  BY <1>2, SnapshotOutsideEdit
<1>3. CASE TakeLock \/ ReadFile \/ Begin \/ WriteFails
  BY <1>3, SnapshotTakeLock, SnapshotReadFile, SnapshotBegin, SnapshotWriteFails
<1> QED
  BY <1>1, <1>2, <1>3, SnapshotQuietSteps DEF Next, TaskStep, FaultStep, Environment

LEMMA UpdateIInvHolds == Spec => []UpdateIInv
<1>1. Init => SnapshotInv
  BY DEF Init, SnapshotInv
<1>2. Init => UpdateIInv
  BY <1>1, TypeInit, CacheInit DEF UpdateIInv, CacheIInv
<1> QED
  BY <1>2, UpdateNext, PTL DEF Spec

\* Only the rename of the tracker changes the file without being an outside edit.
LEMMA OnlyWriteTracker ==
    ASSUME UpdateIInv, [Next]_vars, ServerWrites
    PROVE  WriteTracker
<1>1. edits \in Nat /\ disk' # disk /\ edits' = edits
  BY DEF ServerWrites, UpdateIInv, CacheIInv, TypeInv, TypeOK, HistoryOK
<1>2. ASSUME NEW form \in EditForms, OutsideEdit(form) PROVE FALSE
  <2>1. edits' = edits + 1
    BY <1>2 DEF OutsideEdit
  <2> QED
    BY <1>1, <2>1
<1>3. ~(\E r \in Requests : Submit(r)) /\ ~Crash /\ ~UNCHANGED vars
  BY <1>1 DEF Submit, Crash, vars
<1>4. ~FaultStep
  BY <1>1 DEF FaultStep, ReadFails, PreviousReadFails, FileFails, RestoreFails, StrayLands
<1>5. TaskStep => WriteTracker
  BY <1>1 DEF TaskStep, TakeLock, ReadFile, AnswerList, RefuseUnreadable, AnswerWithoutWriting,
              Begin, WriteFile, RestoreFile, WipeFolder, Confirm, TrashFolder, WriteFails
<1> QED
  BY <1>2, <1>3, <1>4, <1>5 DEF Next, Environment

\* A read changes no revision.
LEMMA ReadableRev ==
    ASSUME disk \in Disk, disk.bad = {}, NEW i \in Ids
    PROVE  Readable(disk)[i].rev = disk.recs[i].rev
BY EmptyTrackerType DEF Readable, Migrate, Disk, Tracker, Record

LEMMA WriteStep ==
    ASSUME UpdateIInv, [Next]_vars
    PROVE  WritesOverReadable /\ WritesWhatWasAsked
<1> SUFFICES ASSUME ServerWrites, ~raced
             PROVE  /\ disk.form # "corrupt" /\ disk.bad = {}
                    /\ WritesWhatWasAsked
  BY DEF WritesOverReadable, WritesWhatWasAsked
<1>1. /\ WriteTracker /\ pc = "write" /\ disk'.recs = local.next /\ disk \in Disk
  BY OnlyWriteTracker DEF WriteTracker, At, UpdateIInv, CacheIInv, TypeInv, TypeOK, StoresOK
<1>2. CASE local.upgrade
  BY <1>1, <1>2 DEF UpdateIInv, SnapshotInv, WritesWhatWasAsked
<1>3. CASE ~local.upgrade
  <2>1. disk.form # "corrupt" /\ disk.bad = {} /\ local.recs = Readable(disk)
    BY <1>1, <1>3 DEF UpdateIInv, SnapshotInv
  <2>2. ASSUME NEW i \in Ids, disk'.recs[i] # Readable(disk)[i]
        PROVE  Permitted(i) /\ local.recs[i].rev = disk.recs[i].rev
    BY <1>1, <1>3, <2>1, <2>2, ReadableRev DEF UpdateIInv, SnapshotInv
  <2> QED
    BY <2>1, <2>2 DEF WritesWhatWasAsked, Permitted
<1> QED
  BY <1>2, <1>3

\* The server changes only the records a request names, from the revision the
\* request gave, in a file no other program edited after the task had read it.
THEOREM UpdatesAreNotLost == Spec => NoLostUpdate
<1>1. UpdateIInv /\ [Next]_vars => [WritesWhatWasAsked]_vars
  BY WriteStep
<1> QED
  BY <1>1, UpdateIInvHolds, PTL DEF Spec, NoLostUpdate

\* The server never rewrites a file that holds something it cannot read, unless
\* another program put it there after the task had read the file.
THEOREM UnreadableIsKept == Spec => UnreadableKept
<1>1. UpdateIInv /\ [Next]_vars => [WritesOverReadable]_vars
  BY WriteStep
<1> QED
  BY <1>1, UpdateIInvHolds, PTL DEF Spec, UnreadableKept

-----------------------------------------------------------------------------
(* The revision names one tracker                                            *)

\* No revision is given twice, and whoever remembers a revision remembers the
\* same tracker with it: the cache, the lock holder and the clients.
RevisionInv ==
    /\ cache.revision <= mint /\ local.revision <= mint
    /\ \A e \in sent : /\ e.revision \in 1 .. mint
                       /\ e.revision = cache.revision => e.recs = cache.recs
    /\ pc = "loaded" =>
          /\ local.revision # 0
          /\ cache.revision = local.revision => cache.recs = local.recs
          /\ \A e \in sent : e.revision = local.revision => e.recs = local.recs

\* A tracker that is given a new revision, and handed to the lock holder.
LEMMA RevisionRemembered ==
    ASSUME TypeInv, RevisionInv, NEW ident, NEW recs, NEW invalid,
           RememberAndReturn(ident, recs, invalid), sent' = sent
    PROVE  RevisionInv'
<1>1. /\ mint \in Nat /\ mint' = mint + 1 /\ cache'.revision = mint + 1
      /\ local'.revision = mint + 1 /\ local'.recs = cache'.recs
  BY DEF RememberAndReturn, Remember, Return, TypeInv, TypeOK, TaskOK, HistoryOK, Local
<1>2. \A e \in sent : e.revision \in 1 .. mint' /\ e.revision # mint + 1
  BY <1>1 DEF RevisionInv
<1> QED
  BY <1>1, <1>2 DEF RevisionInv

\* A step that gives no revision and hands the lock holder nothing.
LEMMA RevisionQuiet ==
    ASSUME TypeInv, RevisionInv, mint' \in {mint, mint + 1}, sent' = sent, cache' \in {cache, NoCache},
           \/ pc' # "loaded" /\ (local'.revision = local.revision \/ local' = NoLocal)
           \/ pc' = pc /\ local' = local
    PROVE  RevisionInv'
<1>1. mint \in Nat /\ mint' \in Nat /\ mint <= mint' /\ \A e \in sent : e.revision \in 1 .. mint'
  BY DEF RevisionInv, TypeInv, TypeOK, HistoryOK
<1>2. NoCache.revision = 0 /\ NoLocal.revision = 0
  BY DEF NoCache, NoLocal
<1>3. cache \in Cache /\ local \in Local /\ cache.revision \in Nat /\ local.revision \in Nat
  BY DEF TypeInv, TypeOK, StoresOK, TaskOK, Cache, Local
<1>4. cache'.revision <= mint' /\ local'.revision <= mint'
  BY <1>1, <1>2, <1>3 DEF RevisionInv
<1>5. \A e \in sent : e.revision = cache'.revision => e.recs = cache'.recs
  BY <1>2 DEF RevisionInv
<1>6. pc' = "loaded" => pc = "loaded" /\ local' = local
  OBVIOUS
<1>7. cache' = NoCache /\ pc' = "loaded" => cache'.revision # local'.revision
  BY <1>2, <1>6 DEF RevisionInv
<1> QED
  BY <1>1, <1>4, <1>5, <1>6, <1>7 DEF RevisionInv

LEMMA RevisionNext ==
    ASSUME TypeInv, RevisionInv, [Next]_vars
    PROVE  RevisionInv'
<1>1. local \in Local /\ mint \in Nat
  BY DEF TypeInv, TypeOK, TaskOK, HistoryOK
<1>2. ASSUME NEW r \in Requests, Submit(r) PROVE RevisionInv'
  BY <1>2, RevisionQuiet DEF Submit, taskVars, historyVars
<1>3. CASE TakeLock
  <2>1. CASE CacheHit /\ Return(cache) /\ UNCHANGED <<cache, mint>>
    <3>1. local'.revision = cache.revision /\ local'.recs = cache.recs /\ cache.revision # 0 /\ sent' = sent
      BY <1>1, <1>3, <2>1 DEF TakeLock, Return, CacheHit, Local
    <3> QED
      BY <2>1, <3>1 DEF RevisionInv
  <2>2. CASE RememberAndReturn(0, EmptyTracker, FALSE)
    BY <1>3, <2>2, RevisionRemembered DEF TakeLock
  <2>3. CASE /\ local' = [local EXCEPT !.seen = disk.ident] /\ pc' = "read"
             /\ UNCHANGED <<cache, mint, queue, op, reply, todo>>
    <3>1. local'.revision = local.revision /\ sent' = sent
      BY <1>1, <1>3, <2>3 DEF TakeLock, Local
    <3> QED
      BY <2>3, <3>1, RevisionQuiet
  <2> QED
    BY <1>3, <2>1, <2>2, <2>3 DEF TakeLock
<1>4. CASE ReadFile
  <2>1. sent' = sent
    BY <1>4 DEF ReadFile, historyVars
  <2>2. CASE \E ident, recs, invalid : RememberAndReturn(ident, recs, invalid)
    BY <2>1, <2>2, RevisionRemembered
  <2>3. CASE Finish("failed") /\ UNCHANGED <<op, cache, mint>>
    BY <2>1, <2>3, RevisionQuiet DEF Finish
  <2>4. CASE /\ local' = [local EXCEPT !.next = Readable(disk), !.upgrade = TRUE]
             /\ pc' = "write" /\ UNCHANGED <<cache, mint, queue, op, reply, todo>>
    <3>1. local'.revision = local.revision
      BY <1>1, <2>4 DEF Local
    <3> QED
      BY <2>1, <2>4, <3>1, RevisionQuiet
  <2> QED
    BY <1>4, <2>2, <2>3, <2>4 DEF ReadFile
<1>5. CASE AnswerList
  <2>1. /\ pc = "loaded" /\ pc' = "wait" /\ local' = NoLocal /\ UNCHANGED <<cache, mint>>
        /\ sent' = sent \cup {[revision |-> local.revision, recs |-> local.recs]}
        /\ local.revision \in Nat /\ NoLocal.revision = 0
    BY <1>1, <1>5 DEF AnswerList, Reading, At, Finish, Local, NoLocal
  <2>2. \A e \in sent' : /\ e.revision \in 1 .. mint
                         /\ e.revision = cache.revision => e.recs = cache.recs
    BY <1>1, <2>1 DEF RevisionInv
  <2> QED
    BY <1>1, <2>1, <2>2 DEF RevisionInv
<1>6. CASE ReadFails \/ RefuseUnreadable \/ AnswerWithoutWriting \/ PreviousReadFails
  BY <1>6, RevisionQuiet DEF ReadFails, RefuseUnreadable, AnswerWithoutWriting, PreviousReadFails,
                             Finish, historyVars
<1>7. CASE Begin
  <2>1. local'.revision = local.revision
    BY <1>1, <1>7 DEF Begin, Local
  <2> QED
    BY <1>7, <2>1, RevisionQuiet DEF Begin, historyVars
<1>8. ASSUME NEW f \in Files, WriteFile(f) \/ RestoreFile(f) \/ FileFails(f) \/ RestoreFails(f)
      PROVE  RevisionInv'
  <2>1. UNCHANGED <<sent, cache, mint>>
    BY <1>8 DEF WriteFile, RestoreFile, FileFails, RestoreFails, historyVars
  <2>2. pc' # "loaded" /\ local' \in {local, NoLocal}
    BY <1>8 DEF WriteFile, RestoreFile, FileFails, RestoreFails, Undo, Finish, At
  <2> QED
    BY <2>1, <2>2, RevisionQuiet
<1>9. CASE WipeFolder \/ (\E i \in Ids : TrashFolder(i)) \/ (\E t \in strays : StrayLands(t)) \/ Crash
  BY <1>9, RevisionQuiet DEF WipeFolder, TrashFolder, StrayLands, Crash, Finish, At, taskVars, historyVars
<1>10. CASE WriteTracker
  <2>1. local'.revision = local.revision
    BY <1>1, <1>10 DEF WriteTracker, Local
  <2> QED
    BY <1>10, <2>1, RevisionQuiet DEF WriteTracker
<1>11. CASE WriteFails
  <2>1. sent' = sent
    BY <1>11 DEF WriteFails, historyVars
  <2>2. CASE RememberAndReturn(local.seen, local.next, FALSE)
    BY <2>1, <2>2, RevisionRemembered
  <2>3. CASE Undo /\ UNCHANGED <<op, cache, mint>>
    <3>1. pc' # "loaded" /\ local' \in {local, NoLocal}
      BY <2>3 DEF Undo, Finish
    <3> QED
      BY <2>1, <2>3, <3>1, RevisionQuiet
  <2> QED
    BY <1>11, <2>2, <2>3 DEF WriteFails
<1>12. CASE Confirm
  <2>1. pc' # "loaded" /\ local' \in {local, NoLocal}
    BY <1>12 DEF Confirm, AfterWrite, Finish
  <2>2. CASE cache' = NoCache /\ UNCHANGED <<mint, sent>>
    BY <2>1, <2>2, RevisionQuiet
  <2>3. CASE /\ Remember(disk.ident, local.next, FALSE)
             /\ sent' \in {sent, sent \cup {[revision |-> mint + 1, recs |-> local.next]}}
    <3>1. cache'.revision = mint + 1 /\ cache'.recs = local.next /\ mint' = mint + 1
      BY <2>3 DEF Remember
    <3>2. \A e \in sent : e.revision \in 1 .. mint' /\ e.revision # mint + 1
      BY <1>1, <3>1 DEF RevisionInv
    <3>3. \A e \in sent' : /\ e.revision \in 1 .. mint'
                           /\ e.revision = cache'.revision => e.recs = cache'.recs
      BY <1>1, <2>3, <3>1, <3>2
    <3>4. local'.revision <= mint'
      BY <1>1, <2>1, <3>1 DEF RevisionInv, NoLocal, Local
    <3> QED
      BY <1>1, <2>1, <3>1, <3>3, <3>4 DEF RevisionInv
  <2> QED
    BY <1>12, <2>2, <2>3 DEF Confirm
<1>13. ASSUME NEW form \in EditForms, OutsideEdit(form) PROVE RevisionInv'
  BY <1>13, RevisionQuiet DEF OutsideEdit, taskVars
<1>14. CASE UNCHANGED vars
  BY <1>14, RevisionQuiet DEF vars, taskVars, historyVars
<1> QED
  BY <1>2, <1>3, <1>4, <1>5, <1>6, <1>7, <1>8, <1>9, <1>10, <1>11, <1>12, <1>13, <1>14
     DEF Next, TaskStep, FaultStep, Environment

LEMMA NotModifiedStep ==
    ASSUME UpdateIInv, RevisionInv, [Next]_vars, NEW r \in Requests, ~raced,
           reply[r] = "queued", reply'[r] = "notModified",
           NEW e \in sent, e.revision = op[r].known
    PROVE  e.recs = Readable(disk)
<1>1. reply \in [Requests -> Answers] /\ reply' # reply
  BY DEF UpdateIInv, CacheIInv, TypeInv, TypeOK, RequestsOK
<1>2. AnswerList
  <2>1. ~UNCHANGED vars /\ ~Environment
    BY <1>1 DEF vars, Environment, Crash, OutsideEdit
  <2>2. ASSUME NEW q \in Requests, Submit(q) PROVE FALSE
    BY <1>1, <2>2 DEF Submit
  <2>3. ~FaultStep
    BY <1>1 DEF FaultStep, ReadFails, PreviousReadFails, FileFails, RestoreFails, StrayLands, Undo, Finish
  <2>4. ~(TakeLock \/ ReadFile \/ RefuseUnreadable \/ AnswerWithoutWriting \/ Begin)
    BY <1>1 DEF TakeLock, ReadFile, RefuseUnreadable, AnswerWithoutWriting, Begin, RememberAndReturn,
                Return, Finish
  <2>5. ~(\E f \in Files : WriteFile(f) \/ RestoreFile(f)) /\ ~WipeFolder
    BY <1>1 DEF WriteFile, RestoreFile, WipeFolder, Finish
  <2>6. ~(WriteTracker \/ Confirm \/ (\E i \in Ids : TrashFolder(i)) \/ WriteFails)
    BY <1>1 DEF WriteTracker, Confirm, AfterWrite, TrashFolder, WriteFails, RememberAndReturn, Return,
                Undo, Finish
  <2> QED
    BY <2>1, <2>2, <2>3, <2>4, <2>5, <2>6 DEF Next, TaskStep
<1>3. /\ pc = "loaded" /\ Doing.known = local.revision /\ r = Me
  BY <1>1, <1>2 DEF AnswerList, Reading, At, Finish
<1>4. e.recs = local.recs
  BY <1>3 DEF RevisionInv, Doing
<1>5. local.recs = Readable(disk)
  BY <1>3 DEF UpdateIInv, CacheIInv, FileInv, WrittenInv, SnapshotInv
<1> QED
  BY <1>4, <1>5

\* A client that is told 304 holds what the file holds, unless another program
\* edited the file after the task that answers had read it.
THEOREM NotModifiedMeansSame == Spec => NotModifiedIsTrue
<1>1. Init => RevisionInv
  BY DEF Init, RevisionInv, NoCache, NoLocal
<1>2. UpdateIInv /\ RevisionInv /\ [Next]_vars => RevisionInv'
  BY RevisionNext DEF UpdateIInv, CacheIInv
<1>3. UpdateIInv /\ RevisionInv /\ [Next]_vars =>
         [\A r \in Requests :
             reply[r] = "queued" /\ reply'[r] = "notModified" /\ ~raced =>
                \A e \in sent : e.revision = op[r].known => e.recs = Readable(disk)]_vars
  BY NotModifiedStep
<1> QED
  BY <1>1, <1>2, <1>3, UpdateIInvHolds, PTL DEF Spec, NotModifiedIsTrue


-----------------------------------------------------------------------------
(* What EveryRequestAnswered rests on: nobody who asked is forgotten, the      *)
(* chain can always go on, and every step of it brings the answer nearer.      *)

InQueue(r) == \E k \in 1 .. Len(queue) : queue[k] = r

\* Some await of the task that holds the lock can settle, without an error.
CanGoOn ==
    /\ queue # <<>>
    /\ pc = "files" => \E f \in Files : Due(f)
    /\ pc = "rollback" => \E f \in Files : f \in todo
    /\ pc = "trash" => \E i \in Ids : i \in todo

ChainInv ==
    /\ \A r \in Requests : reply[r] = "queued" => InQueue(r)
    /\ pc \in {"files", "rollback", "trash"} => todo # {}
    /\ faults <= MaxFaults
    /\ local.upgrade => pc \in {"write", "confirm"}
    /\ local.upgrade /\ pc = "confirm" => disk.form # "older"

\* How many phases the request at the head has left at most.  A version 0 file
\* is upgraded first, and nothing makes a file of that version again.
PhasesLeft ==
    IF pc = "wait" THEN IF disk.form = "older" THEN 12 ELSE 8
    ELSE IF pc = "read" THEN IF disk.form = "older" THEN 11 ELSE 7
    ELSE IF pc = "write" THEN IF local.upgrade THEN 10 ELSE 4
    ELSE IF pc = "confirm" THEN IF local.upgrade THEN 9 ELSE 2
    ELSE IF pc = "loaded" THEN 6 ELSE IF pc = "files" THEN 5
    ELSE IF pc \in {"rollback", "wipe"} THEN 3 ELSE 1

\* The request at the head is answered and the next one is up; or it is at a
\* later phase, or at the same one with less to settle.
Answered == queue # <<>> /\ queue' = Tail(queue) /\ reply'[Me] # "queued"
Nearer ==
    /\ queue' = queue
    /\ \/ PhasesLeft' < PhasesLeft
       \/ pc' = pc /\ PhasesLeft' = PhasesLeft /\ todo' \subseteq todo /\ todo' # todo

\* What the others do to it: new requests join behind it, and only a crash,
\* which settles all of them, ends it.
NoFurther ==
    /\ queue' = queue \/ \E r \in Requests : queue' = Append(queue, r)
    /\ pc' = pc /\ todo' = todo /\ PhasesLeft' <= PhasesLeft
AllLost == queue' = <<>> /\ \A r \in Requests : reply'[r] # "queued"

\* What a step may do for the request at the head.
Forward ==
    \/ Nearer \/ Answered
    \/ ~TaskStep /\ (NoFurther \/ AllLost)

\* Any set of naturals has a smallest member.
LEMMA SmallestOf ==
    ASSUME NEW T \in SUBSET Nat, T # {}
    PROVE  \E m \in T : \A n \in T : m <= n
<1> DEFINE S == {0 .. n : n \in T}
<1>1. IsWellFoundedOn(StrictSubsetOrdering(Nat), FiniteSubsetsOf(Nat))
  BY FS_StrictSubsetOrderingWellFounded
<1>2. S \subseteq FiniteSubsetsOf(Nat)
  <2>1. ASSUME NEW n \in T
        PROVE  0 .. n \in SUBSET Nat /\ IsFiniteSet(0 .. n)
    BY FS_Interval
  <2> QED BY <2>1 DEF FiniteSubsetsOf
<1>3. S # {}
  OBVIOUS
<1>4. PICK x \in S : \A y \in S : ~(<<y, x>> \in StrictSubsetOrdering(Nat))
  <2> HIDE DEF S
  <2> QED BY <1>1, <1>2, <1>3, WFMin
<1>5. PICK m \in T : x = 0 .. m
  OBVIOUS
<1>6. ASSUME NEW n \in T
      PROVE  m <= n
  <2>1. ASSUME n < m
        PROVE  FALSE
    <3>1. 0 .. n \subseteq 0 .. m /\ m \in 0 .. m /\ m \notin 0 .. n
      BY <2>1
    <3>2. <<0 .. n, 0 .. m>> \in StrictSubsetOrdering(Nat)
      BY <3>1 DEF StrictSubsetOrdering
    <3> QED BY <1>4, <1>5, <3>2
  <2> QED BY <2>1
<1> QED BY <1>6

\* Some file operation is due as long as there is one left.
LEMMA SomeFileIsDue ==
    ASSUME TypeInv, pc = "files", todo # {}
    PROVE  \E f \in Files : Due(f)
<1>1. todo \subseteq Files /\ Rank \in [Files -> Nat]
  BY StoreAssumption DEF TypeInv, TypeOK, TaskOK
<1> DEFINE T == {Rank[f] : f \in todo}
<1>2. T \in SUBSET Nat /\ T # {}
  BY <1>1
<1>3. PICK m \in T : \A n \in T : m <= n
  <2> HIDE DEF T
  <2> QED BY <1>2, SmallestOf
<1>4. PICK f \in todo : m = Rank[f]
  OBVIOUS
<1>5. \A g \in todo : Rank[f] <= Rank[g]
  BY <1>3, <1>4
<1> QED BY <1>1, <1>5 DEF Due

LEMMA ChainInit == Init => ChainInv
BY StoreAssumption DEF Init, ChainInv, NoLocal

\* An answer takes only its own request out of the queue.
LEMMA OnlyTheHeadLeaves ==
    ASSUME TypeInv, ChainInv, queue # <<>>, NEW answer \in Answers \ {"queued"}, Finish(answer)
    PROVE  /\ \A r \in Requests : reply'[r] = "queued" => InQueue(r)'
           /\ Answered /\ pc' = "wait" /\ local' = NoLocal /\ todo' = {}
<1>1. queue \in Seq(Requests) /\ reply \in [Requests -> Answers]
  BY DEF TypeInv, TypeOK, RequestsOK
<1>2. /\ Len(queue) \in Nat \ {0} /\ Me = queue[1] /\ Me \in Requests
      /\ Len(queue') = Len(queue) - 1 /\ \A k \in 1 .. Len(queue') : queue'[k] = queue[k + 1]
  BY <1>1 DEF Finish, Me
<1>3. reply'[Me] = answer /\ \A r \in Requests : r # Me => reply'[r] = reply[r]
  BY <1>1, <1>2 DEF Finish
<1>4. ASSUME NEW r \in Requests, reply'[r] = "queued"
      PROVE  InQueue(r)'
  <2>1. r # Me /\ InQueue(r)
    BY <1>3, <1>4 DEF ChainInv
  <2>2. PICK k \in 1 .. Len(queue) : queue[k] = r
    BY <2>1 DEF InQueue
  <2>3. k # 1 /\ k - 1 \in 1 .. Len(queue') /\ queue'[k - 1] = r
    BY <1>2, <2>1, <2>2
  <2> QED BY <2>3 DEF InQueue
<1> QED BY <1>3, <1>4 DEF Answered, Finish

LEMMA SubmitJoins ==
    ASSUME TypeInv, ChainInv, NEW q \in Requests, Submit(q)
    PROVE  ChainInv' /\ NoFurther
<1>1. /\ queue \in Seq(Requests) /\ reply \in [Requests -> Answers] /\ queue' = Append(queue, q)
      /\ reply' = [reply EXCEPT ![q] = "queued"] /\ UNCHANGED <<pc, todo, local, disk, faults>>
  BY DEF Submit, taskVars, boundVars, TypeInv, TypeOK, RequestsOK
<1>2. /\ Len(queue') = Len(queue) + 1 /\ queue'[Len(queue) + 1] = q /\ Len(queue) \in Nat
      /\ \A k \in 1 .. Len(queue) : queue'[k] = queue[k]
  BY <1>1
<1>3. \A r \in Requests : reply'[r] = "queued" => InQueue(r)'
  BY <1>1, <1>2 DEF ChainInv, InQueue
<1>4. PhasesLeft' = PhasesLeft
  BY <1>1 DEF PhasesLeft
<1>5. PhasesLeft \in Nat
  BY DEF PhasesLeft
<1>6. NoFurther
  BY <1>1, <1>4, <1>5 DEF NoFurther
<1> QED BY <1>1, <1>3, <1>6 DEF ChainInv

\* A step within a task, which leaves the queue alone.
LEMMA StepWithin ==
    ASSUME ChainInv, UNCHANGED <<queue, reply>>
    PROVE  \A r \in Requests : reply'[r] = "queued" => InQueue(r)'
BY DEF ChainInv, InQueue

LEMMA ReturnIsNearer ==
    ASSUME TypeInv, ChainInv, NEW snapshot, Return(snapshot), UNCHANGED <<disk, faults>>,
           pc \in {"wait", "read"} \/ (pc = "write" /\ local.upgrade)
    PROVE  ChainInv' /\ Nearer
<1>1. UNCHANGED <<queue, reply, todo>> /\ pc' = "loaded" /\ local'.upgrade = FALSE
  BY DEF Return, TypeInv, TypeOK, TaskOK, Local
<1>2. PhasesLeft' < PhasesLeft
  BY <1>1 DEF PhasesLeft
<1> QED BY <1>1, <1>2, StepWithin DEF ChainInv, Nearer

LEMMA UndoIsNearer ==
    ASSUME TypeInv, ChainInv, queue # <<>>, Undo, UNCHANGED disk, ~local.upgrade,
           pc \in {"files", "write"}, faults' <= MaxFaults
    PROVE  ChainInv' /\ (Nearer \/ Answered)
<1>1. CASE Finish("failed")
  <2>1. /\ \A r \in Requests : reply'[r] = "queued" => InQueue(r)'
        /\ Answered /\ pc' = "wait" /\ local' = NoLocal /\ todo' = {}
    BY <1>1, OnlyTheHeadLeaves DEF Answers
  <2> QED BY <2>1 DEF ChainInv, NoLocal
<1>2. CASE /\ UNCHANGED <<local, queue, reply>>
           /\ pc' = "wipe" \/ (pc' = "rollback" /\ todo' # {})
  <2>1. PhasesLeft' < PhasesLeft
    BY <1>2 DEF PhasesLeft
  <2> QED BY <1>2, <2>1, StepWithin DEF ChainInv, Nearer
<1> QED BY <1>1, <1>2 DEF Undo

\* A task that ends.
LEMMA EndingIsNearer ==
    ASSUME TypeInv, ChainInv, queue # <<>>, NEW answer \in Answers \ {"queued"}, Finish(answer),
           faults' <= MaxFaults
    PROVE  ChainInv' /\ Answered
<1>1. /\ \A r \in Requests : reply'[r] = "queued" => InQueue(r)'
      /\ Answered /\ pc' = "wait" /\ local' = NoLocal /\ todo' = {}
  BY OnlyTheHeadLeaves
<1> QED BY <1>1 DEF ChainInv, NoLocal

LEMMA TaskIsNearer ==
    ASSUME TypeInv, ChainInv, TaskStep
    PROVE  ChainInv' /\ (Nearer \/ Answered)
<1>b. faults \in Nat /\ faults <= MaxFaults /\ (Fault => faults' <= MaxFaults)
  BY StoreAssumption DEF Fault, ChainInv, TypeInv, TypeOK, HistoryOK
<1>u. local.upgrade => pc \in {"write", "confirm"}
  BY DEF ChainInv
<1>1. CASE TakeLock
  <2>1. pc = "wait" /\ UNCHANGED <<disk, faults>>
    BY <1>1 DEF TakeLock, At, boundVars
  <2>2. CASE \E snapshot : Return(snapshot)
    BY <2>1, <2>2, ReturnIsNearer
  <2>3. CASE /\ local' = [local EXCEPT !.seen = disk.ident] /\ pc' = "read"
             /\ UNCHANGED <<queue, reply, todo>>
    <3>1. PhasesLeft' < PhasesLeft /\ local'.upgrade = local.upgrade
      BY <2>1, <2>3 DEF PhasesLeft, TypeInv, TypeOK, TaskOK, Local
    <3> QED BY <1>u, <2>1, <2>3, <3>1, StepWithin DEF ChainInv, Nearer
  <2> QED BY <1>1, <2>2, <2>3 DEF TakeLock, RememberAndReturn
<1>2. CASE ReadFile
  <2>1. queue # <<>> /\ pc = "read" /\ UNCHANGED <<disk, faults>>
    BY <1>2 DEF ReadFile, At, boundVars
  <2>2. CASE \E snapshot : Return(snapshot)
    BY <2>1, <2>2, ReturnIsNearer
  <2>3. CASE Finish("failed")
    BY <1>b, <2>1, <2>3, EndingIsNearer DEF Answers
  <2>4. CASE /\ disk.form = "older" /\ local' = [local EXCEPT !.next = Readable(disk), !.upgrade = TRUE]
             /\ pc' = "write" /\ UNCHANGED <<queue, reply, todo>>
    <3>1. PhasesLeft' < PhasesLeft
      BY <2>1, <2>4 DEF PhasesLeft, TypeInv, TypeOK, TaskOK, Local
    <3> QED BY <2>1, <2>4, <3>1, StepWithin DEF ChainInv, Nearer
  <2> QED BY <1>2, <2>2, <2>3, <2>4 DEF ReadFile, RememberAndReturn
<1>3. CASE AnswerList \/ RefuseUnreadable \/ AnswerWithoutWriting
  <2>1. queue # <<>> /\ faults' = faults /\ \E answer \in Answers \ {"queued"} : Finish(answer)
    BY <1>3 DEF AnswerList, RefuseUnreadable, AnswerWithoutWriting, Reading, Writing, At, boundVars, Answers
  <2> QED BY <1>b, <2>1, EndingIsNearer
<1>4. CASE Begin
  <2>1. /\ pc = "loaded" /\ UNCHANGED <<queue, reply, disk, faults>> /\ local'.upgrade = local.upgrade
        /\ pc' = "write" \/ (pc' = "files" /\ todo' # {})
    BY <1>4 DEF Begin, Writing, At, boundVars, TypeInv, TypeOK, TaskOK, Local
  <2>2. PhasesLeft' < PhasesLeft
    BY <1>u, <2>1 DEF PhasesLeft
  <2> QED BY <1>u, <2>1, <2>2, StepWithin DEF ChainInv, Nearer
<1>5. ASSUME NEW f \in Files, WriteFile(f)
      PROVE  ChainInv' /\ (Nearer \/ Answered)
  <2>1. /\ pc = "files" /\ f \in todo /\ todo' = todo \ {f} /\ UNCHANGED <<queue, reply, local, disk, faults>>
        /\ pc' = IF todo' = {} THEN "write" ELSE "files"
    BY <1>5 DEF WriteFile, At, Due, boundVars
  <2>2. CASE todo' = {}
    <3>1. PhasesLeft' < PhasesLeft
      BY <1>u, <2>1, <2>2 DEF PhasesLeft
    <3> QED BY <1>u, <2>1, <2>2, <3>1, StepWithin DEF ChainInv, Nearer
  <2>3. CASE todo' # {}
    <3>1. pc' = pc /\ PhasesLeft' = PhasesLeft /\ todo' \subseteq todo /\ todo' # todo
      BY <2>1, <2>3 DEF PhasesLeft
    <3> QED BY <1>u, <2>1, <2>3, <3>1, StepWithin DEF ChainInv, Nearer
  <2> QED BY <2>2, <2>3
<1>6. ASSUME NEW f \in Files, RestoreFile(f)
      PROVE  ChainInv' /\ (Nearer \/ Answered)
  <2>1. queue # <<>> /\ pc = "rollback" /\ f \in todo /\ UNCHANGED <<disk, faults>>
    BY <1>6 DEF RestoreFile, At, boundVars
  <2>2. CASE Finish("failed")
    BY <1>b, <2>1, <2>2, EndingIsNearer DEF Answers
  <2>3. CASE todo # {f} /\ todo' = todo \ {f} /\ UNCHANGED <<pc, local, queue, reply>>
    <3>1. PhasesLeft' = PhasesLeft /\ todo' \subseteq todo /\ todo' # todo /\ todo' # {}
      BY <2>1, <2>3 DEF PhasesLeft
    <3> QED BY <1>u, <2>1, <2>3, <3>1, StepWithin DEF ChainInv, Nearer
  <2> QED BY <1>6, <2>2, <2>3 DEF RestoreFile
<1>7. CASE WipeFolder
  <2>1. queue # <<>> /\ faults' <= MaxFaults /\ \E answer \in Answers \ {"queued"} : Finish(answer)
    BY <1>7, <1>b DEF WipeFolder, At, Answers
  <2> QED BY <2>1, EndingIsNearer
<1>8. CASE WriteTracker
  <2>1. /\ pc = "write" /\ pc' = "confirm" /\ UNCHANGED <<queue, reply, todo, faults>>
        /\ local'.upgrade = local.upgrade /\ disk'.form = "current"
    BY <1>8 DEF WriteTracker, At, boundVars, TypeInv, TypeOK, TaskOK, Local
  <2>2. PhasesLeft' < PhasesLeft
    BY <2>1 DEF PhasesLeft
  <2> QED BY <2>1, <2>2, StepWithin DEF ChainInv, Nearer
<1>9. CASE WriteFails
  <2>1. queue # <<>> /\ pc = "write" /\ UNCHANGED disk /\ faults' <= MaxFaults
    BY <1>9, <1>b DEF WriteFails, At
  <2>2. CASE local.upgrade
    <3>1. \E snapshot : Return(snapshot)
      BY <1>9, <2>2 DEF WriteFails, RememberAndReturn
    <3>2. PICK snapshot : Return(snapshot)
      BY <3>1
    <3>3. UNCHANGED <<queue, reply, todo>> /\ pc' = "loaded" /\ local'.upgrade = FALSE
      BY <3>2 DEF Return, TypeInv, TypeOK, TaskOK, Local
    <3>4. PhasesLeft' < PhasesLeft
      BY <2>1, <2>2, <3>3 DEF PhasesLeft
    <3> QED BY <2>1, <3>3, <3>4, StepWithin DEF ChainInv, Nearer
  <2>3. CASE ~local.upgrade
    BY <1>9, <2>1, <2>3, UndoIsNearer DEF WriteFails
  <2> QED BY <2>2, <2>3
<1>10. CASE Confirm
  <2>1. queue # <<>> /\ pc = "confirm" /\ UNCHANGED disk /\ faults' <= MaxFaults /\ AfterWrite
    BY <1>10, <1>b DEF Confirm, At
  <2>2. CASE local.upgrade
    <3>1. pc' = "wait" /\ local' = NoLocal /\ UNCHANGED <<queue, reply, todo>>
      BY <2>1, <2>2 DEF AfterWrite
    <3>2. PhasesLeft' < PhasesLeft
      BY <2>1, <2>2, <3>1 DEF PhasesLeft, ChainInv
    <3> QED BY <2>1, <3>1, <3>2, StepWithin DEF ChainInv, Nearer, NoLocal
  <2>3. CASE ~local.upgrade /\ pc' = "trash" /\ todo' # {} /\ UNCHANGED <<local, queue, reply>>
    <3>1. PhasesLeft' < PhasesLeft
      BY <2>1, <2>3 DEF PhasesLeft
    <3> QED BY <2>1, <2>3, <3>1, StepWithin DEF ChainInv, Nearer
  <2>4. CASE Finish("ok")
    BY <2>1, <2>4, EndingIsNearer DEF Answers
  <2> QED BY <2>1, <2>2, <2>3, <2>4 DEF AfterWrite
<1>11. ASSUME NEW i \in Ids, TrashFolder(i)
       PROVE  ChainInv' /\ (Nearer \/ Answered)
  <2>1. queue # <<>> /\ pc = "trash" /\ i \in todo /\ faults' <= MaxFaults /\ UNCHANGED disk
    BY <1>11, <1>b DEF TrashFolder, At, ChainInv
  <2>2. CASE Finish("ok")
    BY <2>1, <2>2, EndingIsNearer DEF Answers
  <2>3. CASE todo # {i} /\ todo' = todo \ {i} /\ UNCHANGED <<pc, local, queue, reply>>
    <3>1. PhasesLeft' = PhasesLeft /\ todo' \subseteq todo /\ todo' # todo /\ todo' # {}
      BY <2>1, <2>3 DEF PhasesLeft
    <3> QED BY <2>1, <2>3, <3>1, StepWithin DEF ChainInv, Nearer
  <2> QED BY <1>11, <2>2, <2>3 DEF TrashFolder
<1> QED BY <1>1, <1>2, <1>3, <1>4, <1>5, <1>6, <1>7, <1>8, <1>9, <1>10, <1>11 DEF TaskStep

LEMMA FaultIsNearer ==
    ASSUME TypeInv, ChainInv, FaultStep
    PROVE  ChainInv' /\ (Nearer \/ Answered \/ NoFurther)
<1>b. Fault => faults' <= MaxFaults
  BY StoreAssumption DEF Fault, TypeInv, TypeOK, HistoryOK
<1>1. CASE ReadFails \/ PreviousReadFails \/ \E f \in Files : RestoreFails(f)
  <2>1. queue # <<>> /\ faults' <= MaxFaults /\ Finish("failed")
    BY <1>1, <1>b DEF ReadFails, PreviousReadFails, RestoreFails, Writing, At
  <2> QED BY <2>1, EndingIsNearer DEF Answers
<1>2. ASSUME NEW f \in Files, FileFails(f)
      PROVE  ChainInv' /\ (Nearer \/ Answered)
  <2>1. queue # <<>> /\ pc = "files" /\ UNCHANGED disk /\ faults' <= MaxFaults /\ Undo
    BY <1>2, <1>b DEF FileFails, At
  <2> QED BY <2>1, UndoIsNearer DEF ChainInv
<1>3. ASSUME NEW t \in strays, StrayLands(t)
      PROVE  ChainInv' /\ NoFurther
  <2>1. UNCHANGED <<disk, queue, reply, pc, local, todo, faults>>
    BY <1>3 DEF StrayLands, taskVars, boundVars
  <2>2. PhasesLeft' = PhasesLeft /\ PhasesLeft \in Nat
    BY <2>1 DEF PhasesLeft
  <2> QED BY <2>1, <2>2, StepWithin DEF ChainInv, NoFurther
<1> QED BY <1>1, <1>2, <1>3 DEF FaultStep

LEMMA EditIsNoFurther ==
    ASSUME TypeInv, ChainInv, NEW form \in EditForms, OutsideEdit(form)
    PROVE  ChainInv' /\ NoFurther
<1>1. UNCHANGED <<queue, reply, pc, local, todo, faults>>
  <2>1. UNCHANGED <<files, cache, queue, op, reply, taskVars, strays, faults, crashes,
                    torn, before, sent>>
    BY DEF OutsideEdit
  <2> QED BY <2>1 DEF taskVars
<1>2. disk'.form = "older" => disk.form = "older"
  <2> DEFINE touched == [disk EXCEPT !.ident = mint + 1]
  <2>1. disk \in Disk /\ form \in {"touch", "revise", "damage", "corrupt", "remove", "repair"}
    BY StoreAssumption DEF TypeInv, TypeOK, StoresOK
  <2>2. CASE form = "touch"
    BY <2>1, <2>2 DEF OutsideEdit, Disk
  <2>3. CASE form = "revise"
    <3>1. PICK i \in Held(disk.recs) : disk' = [touched EXCEPT !.recs[i].rev = mint + 1]
      BY <2>3 DEF OutsideEdit
    <3>2. touched \in Disk /\ touched.form = disk.form
      BY <2>1 DEF Disk, TypeInv, TypeOK, HistoryOK
    <3> HIDE DEF touched
    <3> QED BY <3>1, <3>2 DEF Disk
  <2>4. CASE form = "damage"
    <3>1. PICK i \in Held(disk.recs) : disk' = [touched EXCEPT !.bad = @ \cup {i}]
      BY <2>4 DEF OutsideEdit
    <3>2. touched \in Disk /\ touched.form = disk.form
      BY <2>1 DEF Disk, TypeInv, TypeOK, HistoryOK
    <3> HIDE DEF touched
    <3> QED BY <3>1, <3>2 DEF Disk
  <2>5. CASE form = "corrupt"
    BY <2>1, <2>5 DEF OutsideEdit, Disk
  <2>6. CASE form = "remove"
    BY <2>1, <2>6 DEF OutsideEdit
  <2>7. CASE form = "repair"
    BY <2>1, <2>7 DEF OutsideEdit, Disk
  <2> QED BY <2>1, <2>2, <2>3, <2>4, <2>5, <2>6, <2>7
<1>3. PhasesLeft' <= PhasesLeft
  BY <1>1, <1>2 DEF PhasesLeft
<1> QED BY <1>1, <1>2, <1>3, StepWithin DEF ChainInv, NoFurther

LEMMA EnvironmentIsNoFurther ==
    ASSUME TypeInv, ChainInv, Environment
    PROVE  ChainInv' /\ (NoFurther \/ AllLost)
<1>1. CASE Crash
  <2>1. /\ queue' = <<>> /\ pc' = "wait" /\ local' = NoLocal /\ UNCHANGED <<disk, faults>>
        /\ \A r \in Requests : reply'[r] # "queued"
    BY <1>1 DEF Crash
  <2> QED BY <2>1 DEF ChainInv, AllLost, NoLocal
<1>2. ASSUME NEW form \in EditForms, OutsideEdit(form)
      PROVE  ChainInv' /\ NoFurther
  BY <1>2, EditIsNoFurther
<1> QED BY <1>1, <1>2 DEF Environment

LEMMA ChainNext ==
    ASSUME TypeInv, ChainInv, [Next]_vars
    PROVE  ChainInv' /\ (Next => Forward)
<1> USE DEF Forward
<1>1. CASE \E r \in Requests : Submit(r)
  BY <1>1, SubmitJoins, TaskIsNearer
<1>2. CASE TaskStep
  BY <1>2, TaskIsNearer
<1>3. CASE FaultStep
  BY <1>3, FaultIsNearer, TaskIsNearer
<1>4. CASE Environment
  BY <1>4, EnvironmentIsNoFurther, TaskIsNearer
<1>5. CASE UNCHANGED vars
  <2>1. UNCHANGED <<disk, queue, reply, pc, local, todo, faults>>
    BY <1>5 DEF vars, taskVars, boundVars
  <2>2. ChainInv'
    BY <2>1, StepWithin DEF ChainInv
  <2> QED BY <1>1, <1>2, <1>3, <1>4, <2>2 DEF Next
<1> QED BY <1>1, <1>2, <1>3, <1>4, <1>5 DEF Next

LEMMA ChainInvHolds == Spec => [](TypeInv /\ ChainInv)
<1>1. TypeInv /\ ChainInv /\ [Next]_vars => ChainInv'
  BY ChainNext
<1> QED BY <1>1, ChainInit, TypeInit, TypeNext, PTL DEF Spec

\* Nobody who asked is forgotten, and nothing but an error of its own or of the
\* machine keeps the chain from going on: while a request is unanswered it is in
\* the queue, and an await of the request at the head can settle.
THEOREM NobodyIsForgotten ==
    Spec => [](\A r \in Requests : reply[r] = "queued" => InQueue(r) /\ CanGoOn)
<1>1. ASSUME TypeInv, ChainInv, NEW r \in Requests, reply[r] = "queued"
      PROVE  InQueue(r) /\ CanGoOn
  <2>1. InQueue(r) /\ queue # <<>>
    BY <1>1 DEF ChainInv, InQueue
  <2>2. pc = "files" => \E f \in Files : Due(f)
    BY <1>1, SomeFileIsDue DEF ChainInv
  <2>3. /\ pc = "rollback" => \E f \in Files : f \in todo
        /\ pc = "trash" => \E i \in Ids : i \in todo
    BY <1>1 DEF ChainInv, TypeInv, TypeOK, TaskOK
  <2> QED BY <1>1, <2>1, <2>2, <2>3 DEF CanGoOn, ChainInv
<1>2. TypeInv /\ ChainInv => \A r \in Requests : reply[r] = "queued" => InQueue(r) /\ CanGoOn
  BY <1>1
<1> QED BY <1>2, ChainInvHolds, PTL

\* Each step of the task at the head answers its request, or takes it to a later
\* phase, or settles one of the files or folders of a phase; nothing that
\* clients, other programs, abandoned file operations or a crash do takes it
\* further back.
THEOREM AnswersComeNearer == Spec => [][Forward]_vars
<1>1. TypeInv /\ ChainInv /\ [Next]_vars => [Forward]_vars
  BY ChainNext
<1> QED BY <1>1, ChainInvHolds, PTL DEF Spec
=============================================================================
