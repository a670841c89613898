----------------------- MODULE TrackerStore_files_proofs ----------------------
(***************************************************************************)
(* The two stores of TrackerStore agree: what applications.json describes  *)
(* is in the folders, and a request that failed left them as it found      *)
(* them, except for the files known to be torn; for every set of ids,      *)
(* files, slots and requests, and every failure, crash and outside edit.   *)
(***************************************************************************)
EXTENDS TrackerStore_proofs

\* The files the lock holder's request writes.
Mine(i, f) == queue # <<>> /\ f \in Touched(local.put) /\ i = Target(Doing)

\* A tracker whose documents are in their folders, except where they are torn.
Faithful(recs) ==
    \A i \in Ids, f \in Files : recs[i].docs[f] \in {None, files[i][f]} \/ <<i, f>> \in torn

\* A request that is to commit a new record is ahead of every other that names
\* it, and finds its folder empty.
CommitsAreNew ==
    \A k \in 1 .. Len(queue) :
       op[queue[k]].kind = "commit" /\ (k > 1 \/ pc = "wait") =>
          /\ \A f \in Files : files[Target(op[queue[k]])][f] = None
                              \/ <<Target(op[queue[k]]), f>> \in torn
          /\ \A j \in 1 .. k - 1 : Target(op[queue[k]]) \notin op[queue[j]].upserts

\* What a task has read is in the folders.
ReadsAreFaithful ==
    /\ pc \in {"read", "loaded"} \/ local.upgrade => Touched(local.put) = {}
    /\ pc = "loaded" => Faithful(local.recs)
    /\ pc = "write" /\ local.upgrade => Faithful(local.next)

\* What a task is about to rename into place describes the files it writes and,
\* for the others, the folders.
NextIsFaithful ==
    pc \in {"files", "write"} /\ ~local.upgrade =>
       \A i \in Ids, f \in Files :
          IF Mine(i, f)
          THEN /\ local.next[i].docs[f] = local.put[f]
               /\ (pc = "files" /\ f \in todo) \/ files[i][f] = local.put[f] \/ <<i, f>> \in torn
          ELSE local.next[i].docs[f] \in {None, files[i][f]} \/ <<i, f>> \in torn

\* What a task would put back is what the tracker on disk describes, and what was
\* there when the task began.
PreviousIsFaithful ==
    pc \in {"files", "write", "rollback", "wipe"} =>
       \A i \in Ids, f \in Files : Mine(i, f) =>
          \/ <<i, f>> \in torn
          \/ /\ disk.recs[i].docs[f] \in {None, local.prev[f]}
             /\ local.prev[f] = before[i][f]
             /\ pc = "rollback" /\ f \notin todo => files[i][f] = local.prev[f]

\* The rest of the folders is as it was when the task began.
RestIsUntouched ==
    pc \notin {"wait", "confirm", "trash"} \/ local.upgrade =>
       \A i \in Ids, f \in Files :
          \/ <<i, f>> \in torn
          \/ /\ ~Mine(i, f) => files[i][f] = before[i][f]
             /\ Doing.kind = "commit" /\ i = Target(Doing) => before[i][f] = None

\* After the rename the tracker describes what was written, or another program
\* has removed it.
RenamedIsDisk ==
    /\ pc = "trash" => ~local.upgrade
    /\ pc = "wipe" => Doing.kind = "commit"
    /\ pc = "rollback" => todo \subseteq Touched(local.put)
    /\ pc = "trash" => \A i \in todo : local.next[i] = NoRecord
    /\ pc \in {"confirm", "trash"} /\ ~local.upgrade =>
       \A i \in Ids, f \in Files : disk.recs[i].docs[f] \in {None, local.next[i].docs[f]}

FilesInv ==
    /\ TrackedFilesOnDisk /\ CommitsAreNew /\ ReadsAreFaithful /\ NextIsFaithful
    /\ PreviousIsFaithful /\ RestIsUntouched /\ RenamedIsDisk

FilesIInv == CacheIInv /\ FilesInv

-----------------------------------------------------------------------------
(* Lemmas about the parts                                                    *)

\* The files of a task are those of the one record its request names.
LEMMA MineType ==
    ASSUME TypeInv, NEW i \in Ids, NEW f \in Files, Mine(i, f)
    PROVE  /\ queue # <<>> /\ pc # "wait" /\ Doing.kind \notin {"list", "save"}
           /\ i = Target(Doing) /\ i \in Doing.upserts
<1>1. queue # <<>> /\ i = Target(Doing) /\ Touched(local.put) # {}
  BY DEF Mine
<1>2. pc # "wait" /\ Doing.kind \notin {"list", "save"}
  BY <1>1 DEF TypeInv, TaskShape
<1>3. Doing \in Request /\ RequestShape(Doing)
  BY <1>1, MeType
<1> QED
  BY <1>1, <1>2, <1>3, TargetType

\* The pairs a crash or a failed rollback tears.
LEMMA PairIsMine ==
    ASSUME queue # <<>>, NEW i, NEW f, NEW S
    PROVE  <<i, f>> \in Pair(S) <=> i = Target(Doing) /\ f \in S
BY DEF Pair

\* While a task goes on, the requests behind it that are to commit new records
\* lose nothing as long as the task changes only the folders of its own records.
LEMMA CommitsStay ==
    ASSUME TypeInv, CommitsAreNew, UNCHANGED <<queue, op>>, queue # <<>>,
           pc' = "wait" => pc = "wait" \/ Doing.kind # "commit",
           \A i \in Ids \ Doing.upserts, f \in Files :
              /\ files'[i][f] \in {None, files[i][f]} \/ <<i, f>> \in torn'
              /\ <<i, f>> \in torn => <<i, f>> \in torn',
           pc' = "wait" /\ Doing.kind = "commit" => UNCHANGED <<files, torn>>
    PROVE  CommitsAreNew'
<1> SUFFICES ASSUME NEW k \in 1 .. Len(queue), op[queue[k]].kind = "commit", k > 1 \/ pc' = "wait"
             PROVE  /\ \A f \in Files : files'[Target(op[queue[k]])][f] = None
                              \/ <<Target(op[queue[k]]), f>> \in torn'
                    /\ \A j \in 1 .. k - 1 : Target(op[queue[k]]) \notin op[queue[j]].upserts
  BY DEF CommitsAreNew
<1>1. /\ queue \in Seq(Requests) /\ Me = queue[1] /\ Len(queue) \in Nat \ {0}
      /\ queue[k] \in Requests /\ op[queue[k]] \in Request /\ RequestShape(op[queue[k]])
  BY DEF TypeInv, TypeOK, RequestsOK, TaskShape, Me
<1>2. Target(op[queue[k]]) \in Ids
  BY <1>1, TargetType
<1>3. CASE k > 1
  <2>1. Target(op[queue[k]]) \notin Doing.upserts
    BY <1>1, <1>3 DEF CommitsAreNew, Doing
  <2> QED
    BY <1>2, <1>3, <2>1 DEF CommitsAreNew
<1>4. CASE k = 1
  <2>1. Doing.kind = "commit" /\ pc' = "wait" /\ pc = "wait"
    BY <1>1, <1>4 DEF Doing
  <2> QED
    BY <1>1, <1>4, <2>1 DEF CommitsAreNew
<1> QED
  BY <1>1, <1>3, <1>4

LEMMA CommitsMoveUp ==
    ASSUME TypeInv, CommitsAreNew, queue # <<>>, queue' = Tail(queue), op' = op,
           \A i \in Ids \ Doing.upserts, f \in Files :
              /\ files'[i][f] \in {None, files[i][f]} \/ <<i, f>> \in torn'
              /\ <<i, f>> \in torn => <<i, f>> \in torn'
    PROVE  CommitsAreNew'
<1>1. /\ queue \in Seq(Requests) /\ Me = queue[1] /\ Len(queue) \in Nat \ {0}
      /\ Len(queue') = Len(queue) - 1
      /\ \A k \in 1 .. Len(queue') : queue'[k] = queue[k + 1]
  BY DEF TypeInv, TypeOK, RequestsOK, Me
<1> SUFFICES ASSUME NEW k \in 1 .. Len(queue'), op[queue'[k]].kind = "commit"
             PROVE  /\ \A f \in Files : files'[Target(op[queue'[k]])][f] = None
                              \/ <<Target(op[queue'[k]]), f>> \in torn'
                    /\ \A j \in 1 .. k - 1 : Target(op[queue'[k]]) \notin op[queue'[j]].upserts
  BY DEF CommitsAreNew
<1>2. k + 1 \in 1 .. Len(queue) /\ queue'[k] = queue[k + 1] /\ k + 1 > 1
  BY <1>1
<1>3. /\ \A f \in Files : files[Target(op[queue[k + 1]])][f] = None
                              \/ <<Target(op[queue[k + 1]]), f>> \in torn
      /\ \A j \in 1 .. k : Target(op[queue[k + 1]]) \notin op[queue[j]].upserts
  BY <1>2 DEF CommitsAreNew
<1>4. Target(op[queue[k + 1]]) \in Ids
  BY <1>1, <1>2, TargetType DEF TypeInv, TypeOK, RequestsOK, TaskShape
<1>5. Target(op[queue[k + 1]]) \notin Doing.upserts
  BY <1>1, <1>3 DEF Doing
<1>6. \A j \in 1 .. k - 1 : Target(op[queue[k + 1]]) \notin op[queue'[j]].upserts
  <2> SUFFICES ASSUME NEW j \in 1 .. k - 1 PROVE Target(op[queue[k + 1]]) \notin op[queue'[j]].upserts
    OBVIOUS
  <2>1. j \in 1 .. Len(queue') /\ j + 1 \in 1 .. k
    BY <1>1
  <2> QED
    BY <1>1, <1>3, <2>1
<1> QED
  BY <1>2, <1>3, <1>4, <1>5, <1>6

\* A request is answered: nothing is left to hold but the two stores and the
\* requests behind it.
LEMMA FinishFiles ==
    ASSUME TypeInv, CommitsAreNew, queue # <<>>, NEW answer, Finish(answer), op' = op,
           \A i \in Ids \ Doing.upserts, f \in Files :
              /\ files'[i][f] \in {None, files[i][f]} \/ <<i, f>> \in torn'
              /\ <<i, f>> \in torn => <<i, f>> \in torn',
           \A i \in Ids, f \in Files :
              disk'.recs[i].docs[f] \in {None, files'[i][f]} \/ <<i, f>> \in torn'
    PROVE  FilesInv'
<1>1. pc' = "wait" /\ local' = NoLocal /\ ~NoLocal.upgrade /\ Touched(NoLocal.put) = {} /\ queue' = Tail(queue)
  BY NoLocalType DEF Finish
<1>2. CommitsAreNew'
  BY <1>1, CommitsMoveUp
<1>3. ~local'.upgrade /\ Touched(local'.put) = {}
  BY <1>1
<1>4. TrackedFilesOnDisk'
  BY DEF TrackedFilesOnDisk
<1> QED
  BY <1>1, <1>2, <1>3, <1>4 DEF FilesInv, ReadsAreFaithful, NextIsFaithful,
           PreviousIsFaithful, RestIsUntouched, RenamedIsDisk

LEMMA FinishQuietly ==
    ASSUME TypeInv, FilesInv, queue # <<>>, NEW answer, Finish(answer), UNCHANGED <<op, disk, files, torn>>,
           ~HalfDone \/ Touched(local.put) = {}
    PROVE  FilesInv'
<1>1. \A i \in Ids, f \in Files : disk.recs[i].docs[f] \in {None, files[i][f]} \/ <<i, f>> \in torn
  BY PairIsMine DEF FilesInv, TrackedFilesOnDisk
<1> QED
  BY <1>1, FinishFiles DEF FilesInv

-----------------------------------------------------------------------------
(* The steps                                                                 *)

\* A new request to commit names an id that nobody has.
LEMMA AskedCommit ==
    ASSUME NEW o \in Asked, o.kind = "commit"
    PROVE  \E i \in Ids : FreshId(i) /\ o.upserts = {i}
<1>1. o \in CommitRequests
  <2>1. ASSUME NEW p \in SaveRequests PROVE p.kind = "save"
    <3>1. PICK u \in SUBSET Ids, d \in SUBSET Tracked, g \in Stages : p = SaveRequest(u, d, g)
      BY <2>1 DEF SaveRequests
    <3> QED
      BY <3>1 DEF SaveRequest, ListRequest
  <2>2. ASSUME NEW p \in DocumentRequests PROVE p.kind = "document"
    <3>1. PICK i, q : p = DocumentRequest(i, q)
      BY <2>2 DEF DocumentRequests
    <3> QED
      BY <3>1 DEF DocumentRequest, ListRequest
  <2>3. ASSUME NEW kind, NEW p \in SourceRequests(kind) PROVE p.kind = kind
    <3>1. PICK i \in Tracked : p \in {SourceRequest(kind, i, base, q) :
                                         base \in {Only({i}), NoBase}, q \in SourcePuts \ {NoPut}}
      BY <2>3 DEF SourceRequests
    <3>2. PICK base, q : p = SourceRequest(kind, i, base, q)
      BY <3>1
    <3> QED
      BY <3>2 DEF SourceRequest, ListRequest
  <2>4. o \notin {ListRequest(k) : k \in {0} \cup {e.revision : e \in sent}}
    BY DEF ListRequest
  <2> QED
    BY <2>1, <2>2, <2>3, <2>4 DEF Asked
<1>2. PICK i \in {j \in Ids : FreshId(j)}, p \in SourcePuts, k \in {{}, Ids}, d \in BOOLEAN :
         o = CommitRequest(i, p, k, d)
  BY <1>1 DEF CommitRequests
<1> QED
  BY <1>2 DEF CommitRequest, ListRequest

\* A step that keeps the task's request and changes no store.
LEMMA KeptParts ==
    ASSUME UNCHANGED <<disk, files, local, pc, todo, torn, before>>, FilesInv,
           UNCHANGED <<queue, op>> \/ (queue # <<>> /\ queue' # <<>> /\ Doing' = Doing)
             \/ (Touched(local.put) = {} /\ pc = "wait" /\ ~local.upgrade)
    PROVE  /\ TrackedFilesOnDisk' /\ ReadsAreFaithful' /\ NextIsFaithful'
           /\ PreviousIsFaithful' /\ RestIsUntouched' /\ RenamedIsDisk'
<1>1. CASE Touched(local.put) = {} /\ pc = "wait" /\ ~local.upgrade
  BY <1>1 DEF FilesInv, TrackedFilesOnDisk, ReadsAreFaithful, NextIsFaithful, PreviousIsFaithful,
              RestIsUntouched, RenamedIsDisk, HalfDone, Faithful
<1>2. CASE UNCHANGED <<queue, op>> \/ (queue # <<>> /\ queue' # <<>> /\ Doing' = Doing)
  <2>1. /\ Doing' = Doing /\ (HalfDone <=> HalfDone') /\ (\A S : Pair(S)' = Pair(S))
        /\ \A i, f : Mine(i, f)' <=> Mine(i, f)
    BY <1>2 DEF Doing, Me, HalfDone, Pair, Mine
  <2>2. TrackedFilesOnDisk' /\ ReadsAreFaithful'
    BY <2>1 DEF FilesInv, TrackedFilesOnDisk, ReadsAreFaithful, Faithful
  <2>3. NextIsFaithful' /\ PreviousIsFaithful'
    BY <2>1 DEF FilesInv, NextIsFaithful, PreviousIsFaithful
  <2>4. RestIsUntouched' /\ RenamedIsDisk'
    BY <2>1 DEF FilesInv, RestIsUntouched, RenamedIsDisk
  <2> QED
    BY <2>2, <2>3, <2>4
<1> QED
  BY <1>1, <1>2

LEMMA FilesSubmit ==
    ASSUME TypeInv, FilesInv, NEW r \in Requests, Submit(r)
    PROVE  FilesInv'
<1>1. UNCHANGED <<disk, files, local, pc, todo, torn, before>>
  BY DEF Submit, taskVars, historyVars
<1>2. PICK o \in Asked : op' = [op EXCEPT ![r] = o]
  BY DEF Submit
<1>3. /\ queue \in Seq(Requests) /\ queue' = Append(queue, r) /\ reply[r] = "none"
      /\ op \in [Requests -> Request] /\ \A q \in Requests \ {r} : op'[q] = op[q]
  BY <1>2 DEF Submit, TypeInv, TypeOK, RequestsOK
<1>4. \A k \in 1 .. Len(queue) : queue[k] \in Requests \ {r} /\ queue'[k] = queue[k]
  BY <1>3 DEF TypeInv, QueueShape
<1>5. Len(queue') = Len(queue) + 1 /\ queue'[Len(queue) + 1] = r /\ op'[r] = o /\ Len(queue) \in Nat
  BY <1>2, <1>3
<1>6. CommitsAreNew'
  <2> SUFFICES ASSUME NEW k \in 1 .. Len(queue'), op'[queue'[k]].kind = "commit",
                      k > 1 \/ pc' = "wait"
               PROVE  /\ \A f \in Files : files[Target(op'[queue'[k]])][f] = None
                                \/ <<Target(op'[queue'[k]]), f>> \in torn
                      /\ \A j \in 1 .. k - 1 : Target(op'[queue'[k]]) \notin op'[queue'[j]].upserts
    BY <1>1 DEF CommitsAreNew
  <2>1. CASE k \in 1 .. Len(queue)
    <3>1. op'[queue'[k]] = op[queue[k]]
      BY <1>3, <1>4, <2>1
    <3>2. \A j \in 1 .. k - 1 : op'[queue'[j]] = op[queue[j]]
      BY <1>3, <1>4, <1>5, <2>1
    <3> QED
      BY <1>1, <2>1, <3>1, <3>2 DEF FilesInv, CommitsAreNew
  <2>2. CASE k = Len(queue) + 1
    <3>1. PICK i \in Ids : FreshId(i) /\ o.upserts = {i}
      BY <1>5, <2>2, AskedCommit
    <3>2. Target(o) = i
      BY <3>1 DEF Target
    <3>3. \A j \in 1 .. k - 1 : op'[queue'[j]] = op[queue[j]] /\ queue[j] \in Requests
      BY <1>3, <1>4, <1>5, <2>2
    <3>4. \A f \in Files : files[i][f] = None
      BY <3>1 DEF FreshId, EmptyFolder
    <3> QED
      BY <1>5, <2>2, <3>1, <3>2, <3>3, <3>4 DEF FreshId
  <2> QED
    BY <1>5, <2>1, <2>2
<1>7. queue # <<>> => Doing' = Doing /\ queue' # <<>>
  BY <1>3, SubmitKeepsDoing
<1>8. queue = <<>> => Touched(local.put) = {} /\ pc = "wait" /\ ~local.upgrade
  BY NoLocalType DEF TypeInv, TaskShape
<1>9. /\ TrackedFilesOnDisk' /\ ReadsAreFaithful' /\ NextIsFaithful'
      /\ PreviousIsFaithful' /\ RestIsUntouched' /\ RenamedIsDisk'
  BY <1>1, <1>7, <1>8, KeptParts
<1> QED
  BY <1>6, <1>9 DEF FilesInv

\* Between the files and the tracker nothing is half way.
LEMMA SettledIsFaithful ==
    ASSUME TrackedFilesOnDisk, queue # <<>>, ~HalfDone \/ Touched(local.put) = {}
    PROVE  \A i \in Ids, f \in Files : disk.recs[i].docs[f] \in {None, files[i][f]} \/ <<i, f>> \in torn
BY PairIsMine DEF TrackedFilesOnDisk

\* What a read serves describes no document the file does not.
LEMMA ReadableDocs ==
    ASSUME disk \in Disk, NEW i \in Ids, NEW f \in Files
    PROVE  Readable(disk)[i].docs[f] \in {None, disk.recs[i].docs[f]}
<1>1. disk.recs \in Tracker /\ NoRecord.docs[f] = None /\ EmptyFolder[f] = None
  BY DEF Disk, NoRecord, EmptyFolder
<1> DEFINE stored == [j \in Ids |-> IF j \in disk.bad THEN NoRecord ELSE disk.recs[j]]
<1>2. stored[i].docs[f] \in {None, disk.recs[i].docs[f]} /\ stored[i] \in Record
  BY <1>1, EmptyTrackerType DEF Tracker
<1>3. Migrate(stored)[i].docs[f] \in {None, stored[i].docs[f]}
  BY <1>1, <1>2 DEF Migrate, Record
<1> QED
  BY <1>2, <1>3 DEF Readable

\* A task that goes on with a snapshot it was handed.
LEMMA FilesReturn ==
    ASSUME TypeInv, FilesInv, queue # <<>>, NEW snapshot \in Cache, Return(snapshot),
           UNCHANGED <<disk, files, torn>>, Touched(local.put) = {},
           \A i \in Ids, f \in Files : snapshot.recs[i].docs[f] \in {None, files[i][f]} \/ <<i, f>> \in torn,
           \/ pc = "wait" /\ before' = files
           \/ (pc = "read" \/ local.upgrade) /\ before' = before
    PROVE  FilesInv'
<1>1. /\ local'.recs = snapshot.recs /\ local'.put = local.put /\ ~local'.upgrade
      /\ pc' = "loaded" /\ UNCHANGED <<queue, op>>
  BY DEF Return, TypeInv, TypeOK, TaskOK, Local
<1>2. Doing' = Doing /\ \A i, f : ~Mine(i, f) /\ ~Mine(i, f)'
  BY <1>1 DEF Doing, Me, Mine, Touched
<1>3. CommitsAreNew'
  BY <1>1, CommitsStay DEF FilesInv
<1>4. ReadsAreFaithful' /\ NextIsFaithful' /\ PreviousIsFaithful' /\ RenamedIsDisk'
  BY <1>1 DEF ReadsAreFaithful, NextIsFaithful, PreviousIsFaithful, RenamedIsDisk, Faithful, Touched
<1>5. TrackedFilesOnDisk'
  BY SettledIsFaithful DEF FilesInv, TrackedFilesOnDisk
<1>6. RestIsUntouched'
  <2>1. CASE (pc = "read" \/ local.upgrade) /\ before' = before
    BY <1>1, <1>2, <2>1 DEF FilesInv, RestIsUntouched
  <2>2. CASE pc = "wait" /\ before' = files
    <3>1. queue \in Seq(Requests) /\ Me = queue[1] /\ 1 \in 1 .. Len(queue)
      BY DEF TypeInv, TypeOK, RequestsOK, Me
    <3>2. Doing.kind = "commit" => \A f \in Files : files[Target(Doing)][f] = None \/ <<Target(Doing), f>> \in torn
      BY <2>2, <3>1 DEF FilesInv, CommitsAreNew, Doing
    <3> QED
      BY <1>2, <2>2, <3>2 DEF RestIsUntouched
  <2> QED
    BY <2>1, <2>2
<1> QED
  BY <1>3, <1>4, <1>5, <1>6 DEF FilesInv

LEMMA FilesTakeLock ==
    ASSUME CacheIInv, FilesInv, TakeLock
    PROVE  FilesInv'
<1>1. /\ TypeInv /\ queue # <<>> /\ pc = "wait" /\ local = NoLocal /\ UNCHANGED <<disk, files, torn>>
      /\ before' = files /\ Touched(local.put) = {} /\ disk \in Disk /\ cache \in Cache /\ ~HalfDone
  BY NoLocalType DEF TakeLock, At, CacheIInv, TypeInv, TaskShape, TypeOK, StoresOK, HalfDone
<1>2. \A i \in Ids, f \in Files : disk.recs[i].docs[f] \in {None, files[i][f]} \/ <<i, f>> \in torn
  BY <1>1, SettledIsFaithful DEF FilesInv
<1>3. CASE CacheHit /\ Return(cache)
  <2>1. cache.recs = Readable(disk)
    BY <1>3 DEF CacheIInv, FileInv, CacheInv
  <2>2. \A i \in Ids, f \in Files : cache.recs[i].docs[f] \in {None, files[i][f]} \/ <<i, f>> \in torn
    BY <1>1, <1>2, <2>1, ReadableDocs
  <2> QED
    BY <1>1, <1>3, <2>2, FilesReturn
<1>4. CASE RememberAndReturn(0, EmptyTracker, FALSE)
  <2>1. cache' \in Cache /\ cache'.recs = EmptyTracker /\ Return(cache')
    BY <1>1, <1>4, RememberType, EmptyTrackerType DEF RememberAndReturn, Remember
  <2>2. \A i \in Ids, f \in Files : cache'.recs[i].docs[f] = None
    BY <2>1 DEF EmptyTracker, NoRecord, EmptyFolder
  <2> QED
    BY <1>1, <2>1, <2>2, FilesReturn
<1>5. CASE /\ local' = [local EXCEPT !.seen = disk.ident] /\ pc' = "read"
           /\ UNCHANGED <<cache, mint, queue, op, reply, todo>>
  <2>1. /\ local'.put = local.put /\ local'.upgrade = local.upgrade /\ ~local.upgrade
        /\ Doing' = Doing
    BY <1>1, <1>5, NoLocalType DEF CacheIInv, TypeInv, TypeOK, TaskOK, Local, Doing, Me
  <2>2. \A i, f : ~Mine(i, f)'
    BY <1>1, <2>1 DEF Mine, Touched
  <2>3. CommitsAreNew'
    BY <1>1, <1>5, CommitsStay DEF FilesInv
  <2>4. ReadsAreFaithful' /\ NextIsFaithful' /\ PreviousIsFaithful' /\ RenamedIsDisk'
    BY <1>1, <1>5, <2>1 DEF ReadsAreFaithful, NextIsFaithful, PreviousIsFaithful, RenamedIsDisk, Touched
  <2>5. TrackedFilesOnDisk'
    BY <1>1, <1>2 DEF TrackedFilesOnDisk
  <2>6. Doing.kind = "commit" => \A f \in Files : files[Target(Doing)][f] = None \/ <<Target(Doing), f>> \in torn
    <3>1. queue \in Seq(Requests) /\ Me = queue[1] /\ 1 \in 1 .. Len(queue)
      BY <1>1 DEF TypeInv, TypeOK, RequestsOK, Me
    <3> QED
      BY <1>1, <3>1 DEF FilesInv, CommitsAreNew, Doing
  <2>7. RestIsUntouched'
    BY <1>1, <2>1, <2>2, <2>6 DEF RestIsUntouched
  <2> QED
    BY <2>3, <2>4, <2>5, <2>7 DEF FilesInv
<1> QED
  BY <1>3, <1>4, <1>5 DEF TakeLock

LEMMA FilesReadFile ==
    ASSUME CacheIInv, FilesInv, ReadFile
    PROVE  FilesInv'
<1>1. /\ TypeInv /\ queue # <<>> /\ pc = "read" /\ UNCHANGED <<disk, files, torn, before>>
      /\ disk \in Disk /\ local \in Local /\ ~HalfDone
  BY DEF ReadFile, At, historyVars, CacheIInv, TypeInv, TypeOK, StoresOK, TaskOK, HalfDone
<1>2. Touched(local.put) = {}
  BY <1>1 DEF FilesInv, ReadsAreFaithful
<1>3. \A i \in Ids, f \in Files : disk.recs[i].docs[f] \in {None, files[i][f]} \/ <<i, f>> \in torn
  BY <1>1, SettledIsFaithful DEF FilesInv
<1>4. \A i \in Ids, f \in Files : Readable(disk)[i].docs[f] \in {None, files[i][f]} \/ <<i, f>> \in torn
  BY <1>1, <1>3, ReadableDocs
<1>5. CASE RememberAndReturn(0, EmptyTracker, FALSE)
  <2>1. cache' \in Cache /\ cache'.recs = EmptyTracker /\ Return(cache')
    BY <1>1, <1>5, RememberType, EmptyTrackerType DEF RememberAndReturn, Remember
  <2>2. \A i \in Ids, f \in Files : cache'.recs[i].docs[f] = None
    BY <2>1 DEF EmptyTracker, NoRecord, EmptyFolder
  <2> QED
    BY <1>1, <1>2, <2>1, <2>2, FilesReturn
<1>6. CASE RememberAndReturn(local.seen, Readable(disk), disk.bad # {})
  <2>1. cache' \in Cache /\ cache'.recs = Readable(disk) /\ Return(cache')
    BY <1>1, <1>6, RememberType, ReadableType DEF RememberAndReturn, Remember, Local
  <2> QED
    BY <1>1, <1>2, <1>4, <2>1, FilesReturn
<1>7. CASE Finish("failed") /\ UNCHANGED <<op, cache, mint>>
  BY <1>1, <1>7, FinishQuietly
<1>8. CASE /\ local' = [local EXCEPT !.next = Readable(disk), !.upgrade = TRUE]
           /\ pc' = "write" /\ UNCHANGED <<cache, mint, queue, op, reply, todo>>
  <2>1. /\ local'.put = local.put /\ local'.upgrade /\ local'.next = Readable(disk) /\ Doing' = Doing
    BY <1>1, <1>8 DEF Local, Doing, Me
  <2>2. \A i, f : ~Mine(i, f)' /\ ~Mine(i, f)
    BY <1>2, <2>1 DEF Mine, Touched
  <2>3. CommitsAreNew'
    BY <1>1, <1>8, CommitsStay DEF FilesInv
  <2>4. ReadsAreFaithful'
    BY <1>1, <1>2, <1>4, <1>8, <2>1 DEF ReadsAreFaithful, Faithful, Touched
  <2>5. NextIsFaithful' /\ PreviousIsFaithful' /\ RenamedIsDisk'
    BY <1>8, <2>1, <2>2 DEF NextIsFaithful, PreviousIsFaithful, RenamedIsDisk
  <2>6. TrackedFilesOnDisk'
    BY <1>1, <1>3 DEF TrackedFilesOnDisk
  <2>7. RestIsUntouched'
    BY <1>1, <2>1, <2>2 DEF FilesInv, RestIsUntouched
  <2> QED
    BY <2>3, <2>4, <2>5, <2>6, <2>7 DEF FilesInv
<1> QED
  BY <1>5, <1>6, <1>7, <1>8 DEF ReadFile

LEMMA FilesAnswer ==
    ASSUME TypeInv, FilesInv,
           ReadFails \/ AnswerList \/ RefuseUnreadable \/ AnswerWithoutWriting \/ PreviousReadFails
    PROVE  FilesInv'
<1>1. /\ queue # <<>> /\ UNCHANGED <<op, disk, files, torn>> /\ pc \in {"wait", "read", "loaded"}
  BY DEF ReadFails, AnswerList, RefuseUnreadable, AnswerWithoutWriting, PreviousReadFails, Reading,
         Writing, At, historyVars
<1>2. \E answer : Finish(answer)
  BY DEF ReadFails, AnswerList, RefuseUnreadable, AnswerWithoutWriting, PreviousReadFails
<1> QED
  BY <1>1, <1>2, FinishQuietly DEF HalfDone

LEMMA FilesBegin ==
    ASSUME CacheIInv, FilesInv, Begin
    PROVE  FilesInv'
<1>1. /\ TypeInv /\ queue # <<>> /\ pc = "loaded" /\ Doing.kind # "list" /\ ~HalfDone
      /\ UNCHANGED <<queue, op, disk, files, torn, before>> /\ Doing' = Doing
  BY DEF Begin, Writing, At, historyVars, HalfDone, Doing, Me, CacheIInv
<1>2. /\ local'.put = PendingPut /\ local'.next = NextTracker /\ local'.upgrade = local.upgrade
      /\ local'.prev = IF Doing.kind = "save" THEN EmptyFolder ELSE files[Target(Doing)]
      /\ todo' = Touched(PendingPut) /\ pc' = IF todo' = {} THEN "write" ELSE "files"
      /\ local.recs \in Tracker /\ PendingPut \in Put
  BY <1>1, NextType DEF Begin, TypeInv, TypeOK, TaskOK, Local
<1>3. Touched(local.put) = {} /\ Faithful(local.recs)
  BY <1>1 DEF FilesInv, ReadsAreFaithful
<1>4. \A i, f : ~Mine(i, f) /\ (Mine(i, f)' <=> f \in Touched(PendingPut) /\ i = Target(Doing))
  BY <1>1, <1>2, <1>3 DEF Mine, Touched
<1>5. \A i \in Ids, f \in Files : disk.recs[i].docs[f] \in {None, files[i][f]} \/ <<i, f>> \in torn
  BY <1>1, SettledIsFaithful DEF FilesInv
<1>6. Touched(PendingPut) # {} =>
         Doing.kind # "save" /\ Target(Doing) \in Ids /\ Doing.upserts = {Target(Doing)} /\ Doing.deletes = {}
  BY <1>1, SaveTouchesNothing, MeType, TargetType
<1>7. CommitsAreNew'
  BY <1>1, <1>2, CommitsStay DEF FilesInv
<1>8. TrackedFilesOnDisk'
  BY <1>1, <1>5 DEF TrackedFilesOnDisk
<1>9. NextIsFaithful'
  <2>1. ASSUME NEW i \in Ids, NEW f \in Files, Mine(i, f)'
        PROVE  NextTracker[i].docs[f] = PendingPut[f] /\ pc' = "files" /\ f \in todo'
    <3>1. i \in Doing.upserts \ Doing.deletes /\ PendingPut[f] # Keep
      BY <1>4, <1>6, <2>1 DEF Touched
    <3>2. NextTracker[i] = Changed(local.recs[i])
      BY <3>1 DEF NextTracker
    <3> QED
      BY <1>2, <1>4, <2>1, <3>1, <3>2 DEF Changed
  <2>2. ASSUME NEW i \in Ids, NEW f \in Files, ~Mine(i, f)'
        PROVE  NextTracker[i].docs[f] \in {None, local.recs[i].docs[f]}
    <3>1. CASE i \in Doing.deletes
      BY <3>1 DEF NextTracker, NoRecord, EmptyFolder
    <3>2. CASE i \notin Doing.deletes /\ i \notin Doing.upserts
      BY <3>2 DEF NextTracker
    <3>3. CASE i \notin Doing.deletes /\ i \in Doing.upserts
      <4>1. PendingPut[f] = Keep
        BY <1>4, <1>6, <2>2, <3>3 DEF Touched
      <4>2. NextTracker[i] = Changed(local.recs[i])
        BY <3>3 DEF NextTracker
      <4> QED
        BY <4>1, <4>2 DEF Changed
    <3> QED
      BY <3>1, <3>2, <3>3
  <2> QED
    BY <1>1, <1>2, <1>3, <2>1, <2>2 DEF NextIsFaithful, Faithful
<1>10. PreviousIsFaithful'
  <2> SUFFICES ASSUME NEW i \in Ids, NEW f \in Files, Mine(i, f)'
               PROVE  \/ <<i, f>> \in torn
                      \/ disk.recs[i].docs[f] \in {None, files[i][f]} /\ files[i][f] = before[i][f]
                         /\ local'.prev[f] = files[i][f]
    BY <1>1, <1>2 DEF PreviousIsFaithful
  <2>1. Doing.kind # "save" /\ i = Target(Doing)
    BY <1>4, <1>6
  <2>2. files[i][f] = before[i][f] \/ <<i, f>> \in torn
    BY <1>1, <1>4 DEF FilesInv, RestIsUntouched
  <2> QED
    BY <1>2, <1>5, <2>1, <2>2
<1>11. RestIsUntouched'
  BY <1>1, <1>4 DEF FilesInv, RestIsUntouched
<1>12. ReadsAreFaithful' /\ RenamedIsDisk'
  <2>1. ~local.upgrade
    BY <1>1 DEF CacheIInv, FileInv, WrittenInv
  <2> QED
    BY <1>2, <2>1 DEF ReadsAreFaithful, RenamedIsDisk
<1> QED
  BY <1>7, <1>8, <1>9, <1>10, <1>11, <1>12 DEF FilesInv

LEMMA FilesWriteFile ==
    ASSUME TypeInv, FilesInv, NEW f \in Files, WriteFile(f)
    PROVE  FilesInv'
<1>1. /\ queue # <<>> /\ pc = "files" /\ f \in todo /\ todo' = todo \ {f}
      /\ pc' = IF todo' = {} THEN "write" ELSE "files"
      /\ files' = [files EXCEPT ![Target(Doing)][f] = local.put[f]]
      /\ UNCHANGED <<queue, op, local, disk, torn, before>> /\ Doing' = Doing
      /\ files \in [Ids -> Folder] /\ f \in Touched(local.put)
  BY DEF WriteFile, At, Due, historyVars, Doing, Me, TypeInv, TypeOK, StoresOK, TaskShape
<1>2. Target(Doing) \in Ids /\ Doing.upserts = {Target(Doing)}
  BY <1>1, MeType, TargetType DEF TypeInv, TaskShape
<1>3. \A i, g : Mine(i, g)' <=> Mine(i, g)
  BY <1>1 DEF Mine
<1>4. /\ files'[Target(Doing)][f] = local.put[f] /\ Mine(Target(Doing), f)
      /\ \A i \in Ids, g \in Files : i # Target(Doing) \/ g # f => files'[i][g] = files[i][g]
  BY <1>1, <1>2 DEF Mine, Folder
<1>5. CommitsAreNew'
  BY <1>1, <1>2, <1>4, CommitsStay DEF FilesInv
<1>6. TrackedFilesOnDisk'
  <2>1. Touched(local'.put) = Touched(local.put) /\ HalfDone /\ HalfDone' /\ Pair(Touched(local.put))' = Pair(Touched(local.put))
    BY <1>1 DEF HalfDone, Pair
  <2>2. <<Target(Doing), f>> \in Pair(Touched(local.put))
    BY <1>1 DEF Pair
  <2> QED
    BY <1>1, <1>4, <2>1, <2>2 DEF FilesInv, TrackedFilesOnDisk
<1>7. NextIsFaithful'
  <2> SUFFICES ASSUME ~local.upgrade, NEW i \in Ids, NEW g \in Files
               PROVE  IF Mine(i, g)
                      THEN /\ local.next[i].docs[g] = local.put[g]
                           /\ (pc' = "files" /\ g \in todo') \/ files'[i][g] = local.put[g]
                              \/ <<i, g>> \in torn
                      ELSE local.next[i].docs[g] \in {None, files'[i][g]} \/ <<i, g>> \in torn
    BY <1>1, <1>3 DEF NextIsFaithful
  <2>1. IF Mine(i, g)
        THEN /\ local.next[i].docs[g] = local.put[g]
             /\ g \in todo \/ files[i][g] = local.put[g] \/ <<i, g>> \in torn
        ELSE local.next[i].docs[g] \in {None, files[i][g]} \/ <<i, g>> \in torn
    BY <1>1 DEF FilesInv, NextIsFaithful
  <2>2. CASE i = Target(Doing) /\ g = f
    BY <1>4, <2>1, <2>2
  <2>3. CASE i # Target(Doing) \/ g # f
    <3>1. files'[i][g] = files[i][g]
      BY <1>4, <2>3
    <3>2. Mine(i, g) /\ g \in todo => pc' = "files" /\ g \in todo'
      BY <1>1, <2>3 DEF Mine
    <3> QED
      BY <2>1, <3>1, <3>2
  <2> QED
    BY <2>2, <2>3
<1>8. PreviousIsFaithful'
  BY <1>1, <1>3 DEF FilesInv, PreviousIsFaithful
<1>9. RestIsUntouched'
  <2>0. torn' = torn /\ before' = before /\ Doing' = Doing
    BY <1>1
  <2> SUFFICES ASSUME NEW i \in Ids, NEW g \in Files, <<i, g>> \notin torn
               PROVE  /\ ~Mine(i, g) => files'[i][g] = before[i][g]
                      /\ Doing.kind = "commit" /\ i = Target(Doing) => before[i][g] = None
    BY <1>3, <2>0 DEF RestIsUntouched
  <2>1. /\ ~Mine(i, g) => files[i][g] = before[i][g]
        /\ Doing.kind = "commit" /\ i = Target(Doing) => before[i][g] = None
    BY <1>1 DEF FilesInv, RestIsUntouched
  <2>2. ~Mine(i, g) => files'[i][g] = files[i][g]
    BY <1>4
  <2> QED
    BY <2>1, <2>2
<1>10. ReadsAreFaithful' /\ RenamedIsDisk'
  BY <1>1 DEF FilesInv, ReadsAreFaithful, RenamedIsDisk
<1> QED
  BY <1>5, <1>6, <1>7, <1>8, <1>9, <1>10 DEF FilesInv

\* A save that fails half way goes to its rollback with nothing put back yet.
LEMMA FilesUndo ==
    ASSUME TypeInv, FilesInv, queue # <<>>, pc \in {"files", "write"}, ~local.upgrade, Undo,
           UNCHANGED <<op, disk, files, torn, before>>
    PROVE  FilesInv'
<1>1. CASE Touched(local.put) = {} /\ Finish("failed")
  BY <1>1, FinishQuietly
<1>2. CASE /\ UNCHANGED <<local, queue>>
           /\ \/ pc' = "wipe" /\ Doing.kind = "commit"
              \/ pc' = "rollback" /\ todo' = Touched(local.put)
  <2>1. /\ Doing' = Doing /\ HalfDone /\ HalfDone' /\ (\A S : Pair(S)' = Pair(S))
        /\ \A i, f : Mine(i, f)' <=> Mine(i, f)
    BY <1>2 DEF Doing, Me, HalfDone, Pair, Mine
  <2>2. TrackedFilesOnDisk'
    BY <1>2, <2>1 DEF FilesInv, TrackedFilesOnDisk
  <2>3. CommitsAreNew'
    BY <1>2, CommitsStay DEF FilesInv
  <2>4. PreviousIsFaithful'
    BY <1>2, <2>1 DEF FilesInv, PreviousIsFaithful, Mine
  <2>5. RestIsUntouched'
    BY <1>2, <2>1 DEF FilesInv, RestIsUntouched
  <2>6. ReadsAreFaithful' /\ NextIsFaithful' /\ RenamedIsDisk'
    BY <1>2, <2>1 DEF FilesInv, ReadsAreFaithful, NextIsFaithful, RenamedIsDisk
  <2> QED
    BY <2>2, <2>3, <2>4, <2>5, <2>6 DEF FilesInv
<1> QED
  BY <1>1, <1>2 DEF Undo

LEMMA FilesFileFails ==
    ASSUME CacheIInv, FilesInv, NEW f \in Files, FileFails(f)
    PROVE  FilesInv'
<1>1. /\ queue # <<>> /\ pc = "files" /\ Undo /\ UNCHANGED <<op, disk, files, torn, before>>
  BY DEF FileFails, At, historyVars
<1> QED
  BY <1>1, FilesUndo DEF CacheIInv, FileInv, WrittenInv

\* One file after the other is what it was before the request.
LEMMA Restored ==
    ASSUME TypeInv, FilesInv, NEW f \in Files, RestoreFile(f)
    PROVE  /\ queue # <<>> /\ pc = "rollback" /\ UNCHANGED <<op, disk, torn, before>>
           /\ Target(Doing) \in Ids /\ Doing.upserts = {Target(Doing)}
           /\ \A i \in Ids, g \in Files : i # Target(Doing) \/ g # f => files'[i][g] = files[i][g]
           /\ \A i \in Ids, g \in Files : Mine(i, g) /\ g \notin todo \ {f} =>
                 \/ <<i, g>> \in torn
                 \/ /\ disk.recs[i].docs[g] \in {None, files'[i][g]}
                    /\ files'[i][g] = local.prev[g] /\ files'[i][g] = before[i][g]
<1>1. /\ queue # <<>> /\ pc = "rollback" /\ f \in todo /\ UNCHANGED <<op, disk, torn, before>>
      /\ files' = [files EXCEPT ![Target(Doing)][f] = local.prev[f]]
      /\ files \in [Ids -> Folder]
  BY DEF RestoreFile, At, historyVars, TypeInv, TypeOK, StoresOK
<1>2. Target(Doing) \in Ids /\ Doing.upserts = {Target(Doing)}
  BY <1>1, MeType, TargetType DEF TypeInv, TaskShape
<1>3. /\ files'[Target(Doing)][f] = local.prev[f]
      /\ \A i \in Ids, g \in Files : i # Target(Doing) \/ g # f => files'[i][g] = files[i][g]
  BY <1>1, <1>2 DEF Folder
<1>4. ASSUME NEW i \in Ids, NEW g \in Files, Mine(i, g), g \notin todo \ {f}
      PROVE  \/ <<i, g>> \in torn
             \/ /\ disk.recs[i].docs[g] \in {None, files'[i][g]}
                /\ files'[i][g] = local.prev[g] /\ files'[i][g] = before[i][g]
  <2>1. i = Target(Doing)
    BY <1>4 DEF Mine
  <2>2. files'[i][g] = local.prev[g] \/ <<i, g>> \in torn
    BY <1>1, <1>3, <1>4, <2>1 DEF FilesInv, PreviousIsFaithful
  <2> QED
    BY <1>1, <1>4, <2>2 DEF FilesInv, PreviousIsFaithful
<1> QED
  BY <1>1, <1>2, <1>3, <1>4

LEMMA FilesRestoreFile ==
    ASSUME TypeInv, FilesInv, NEW f \in Files, RestoreFile(f)
    PROVE  FilesInv'
<1>1. /\ queue # <<>> /\ pc = "rollback" /\ UNCHANGED <<op, disk, torn, before>>
      /\ Target(Doing) \in Ids /\ Doing.upserts = {Target(Doing)}
      /\ \A i \in Ids, g \in Files : i # Target(Doing) \/ g # f => files'[i][g] = files[i][g]
  BY Restored
<1>2. f \in todo /\ todo \subseteq Touched(local.put)
  BY <1>1 DEF RestoreFile, FilesInv, RenamedIsDisk
<1>3. CASE todo = {f}
  <2>1. Finish("failed")
    BY <1>3 DEF RestoreFile
  <2>2. ASSUME NEW i \in Ids, NEW g \in Files
        PROVE  disk'.recs[i].docs[g] \in {None, files'[i][g]} \/ <<i, g>> \in torn'
    <3>1. CASE Mine(i, g)
      BY <1>1, <1>3, <3>1, Restored
    <3>2. CASE ~Mine(i, g)
      <4>1. <<i, g>> \notin Pair(Touched(local.put)) /\ (i # Target(Doing) \/ g # f)
        BY <1>1, <1>2, <3>2, PairIsMine DEF Mine
      <4> QED
        BY <1>1, <4>1 DEF FilesInv, TrackedFilesOnDisk
    <3> QED
      BY <3>1, <3>2
  <2> QED
    BY <1>1, <2>1, <2>2, FinishFiles DEF FilesInv
<1>4. CASE todo # {f}
  <2>1. UNCHANGED <<queue, pc, local>> /\ todo' = todo \ {f}
    BY <1>4 DEF RestoreFile
  <2>2. /\ Doing' = Doing /\ HalfDone /\ HalfDone' /\ (\A S : Pair(S)' = Pair(S))
        /\ \A i, g : Mine(i, g)' <=> Mine(i, g)
    BY <1>1, <2>1 DEF Doing, Me, HalfDone, Pair, Mine
  <2>3. Mine(Target(Doing), f) /\ <<Target(Doing), f>> \in Pair(Touched(local.put))
    BY <1>1, <1>2 DEF Mine, Pair
  <2>4. TrackedFilesOnDisk'
    BY <1>1, <2>1, <2>2, <2>3 DEF FilesInv, TrackedFilesOnDisk
  <2>5. CommitsAreNew'
    BY <1>1, <2>1, CommitsStay DEF FilesInv
  <2>6. PreviousIsFaithful'
    <3> SUFFICES ASSUME NEW i \in Ids, NEW g \in Files, Mine(i, g)
                 PROVE  \/ <<i, g>> \in torn
                        \/ /\ disk.recs[i].docs[g] \in {None, local.prev[g]}
                           /\ local.prev[g] = before[i][g]
                           /\ g \notin todo' => files'[i][g] = local.prev[g]
      BY <1>1, <2>1, <2>2 DEF PreviousIsFaithful
    <3> QED
      BY <1>1, <2>1, Restored DEF FilesInv, PreviousIsFaithful
  <2>7. RestIsUntouched'
    <3> SUFFICES ASSUME NEW i \in Ids, NEW g \in Files, <<i, g>> \notin torn
                 PROVE  /\ ~Mine(i, g) => files'[i][g] = before[i][g]
                        /\ Doing.kind = "commit" /\ i = Target(Doing) => before[i][g] = None
      BY <1>1, <2>1, <2>2 DEF RestIsUntouched
    <3>1. /\ ~Mine(i, g) => files[i][g] = before[i][g]
          /\ Doing.kind = "commit" /\ i = Target(Doing) => before[i][g] = None
      BY <1>1 DEF FilesInv, RestIsUntouched
    <3>2. ~Mine(i, g) => files'[i][g] = files[i][g]
      BY <1>1, <2>3
    <3> QED
      BY <3>1, <3>2
  <2>8. ReadsAreFaithful' /\ NextIsFaithful' /\ RenamedIsDisk'
    BY <1>1, <1>2, <2>1, <2>2 DEF FilesInv, ReadsAreFaithful, NextIsFaithful, RenamedIsDisk
  <2> QED
    BY <2>4, <2>5, <2>6, <2>7, <2>8 DEF FilesInv
<1> QED
  BY <1>3, <1>4

LEMMA FilesRestoreFails ==
    ASSUME TypeInv, FilesInv, NEW f \in Files, RestoreFails(f)
    PROVE  FilesInv'
<1>1. /\ queue # <<>> /\ pc = "rollback" /\ Finish("failed") /\ torn' = torn \cup Pair(todo)
      /\ UNCHANGED <<op, disk, files>>
  BY DEF RestoreFails, At
<1>2. ASSUME NEW i \in Ids, NEW g \in Files
      PROVE  disk'.recs[i].docs[g] \in {None, files'[i][g]} \/ <<i, g>> \in torn'
  <2>1. CASE Mine(i, g) /\ g \in todo
    BY <1>1, <2>1 DEF Mine, Pair
  <2>2. CASE Mine(i, g) /\ g \notin todo
    BY <1>1, <2>2 DEF FilesInv, PreviousIsFaithful
  <2>3. CASE ~Mine(i, g)
    <3>1. <<i, g>> \notin Pair(Touched(local.put))
      BY <1>1, <2>3, PairIsMine DEF Mine
    <3> QED
      BY <1>1, <3>1 DEF FilesInv, TrackedFilesOnDisk
  <2> QED
    BY <2>1, <2>2, <2>3
<1> QED
  BY <1>1, <1>2, FinishFiles DEF FilesInv

LEMMA FilesWipeFolder ==
    ASSUME TypeInv, FilesInv, WipeFolder
    PROVE  FilesInv'
<1>1. /\ queue # <<>> /\ pc = "wipe" /\ UNCHANGED <<op, disk>> /\ Doing.kind = "commit"
      /\ files \in [Ids -> Folder]
  BY DEF WipeFolder, At, FilesInv, RenamedIsDisk, TypeInv, TypeOK, StoresOK
<1>2. Target(Doing) \in Ids /\ Doing.upserts = {Target(Doing)}
  BY <1>1, MeType, TargetType
<1>3. ASSUME NEW i \in Ids, NEW g \in Files, ~Mine(i, g)
      PROVE  disk.recs[i].docs[g] \in {None, files[i][g]} \/ <<i, g>> \in torn
  <2>1. <<i, g>> \notin Pair(Touched(local.put))
    BY <1>1, <1>3, PairIsMine DEF Mine
  <2> QED
    BY <1>1, <2>1 DEF FilesInv, TrackedFilesOnDisk
<1>4. CASE files' = [files EXCEPT ![Target(Doing)] = EmptyFolder] /\ Finish("failed") /\ torn' = torn
  <2>1. ASSUME NEW g \in Files
        PROVE  files'[Target(Doing)][g] = None /\ (disk.recs[Target(Doing)].docs[g] = None \/ <<Target(Doing), g>> \in torn)
    <3>1. files'[Target(Doing)][g] = None
      BY <1>1, <1>2, <1>4 DEF EmptyFolder
    <3>2. \/ <<Target(Doing), g>> \in torn
          \/ before[Target(Doing)][g] = None
             /\ (~Mine(Target(Doing), g) => files[Target(Doing)][g] = None)
      BY <1>1, <1>2 DEF FilesInv, RestIsUntouched
    <3>3. CASE Mine(Target(Doing), g)
      BY <1>1, <1>2, <3>1, <3>2, <3>3 DEF FilesInv, PreviousIsFaithful
    <3>4. CASE ~Mine(Target(Doing), g)
      BY <1>2, <1>3, <3>1, <3>2, <3>4
    <3> QED
      BY <3>3, <3>4, <3>1
  <2>2. ASSUME NEW i \in Ids \ {Target(Doing)}, NEW g \in Files
        PROVE  files'[i][g] = files[i][g] /\ ~Mine(i, g)
    BY <1>1, <1>4 DEF Mine
  <2>3. \A i \in Ids, g \in Files : disk'.recs[i].docs[g] \in {None, files'[i][g]} \/ <<i, g>> \in torn'
    BY <1>1, <1>3, <1>4, <2>1, <2>2
  <2> QED
    BY <1>1, <1>2, <1>4, <2>2, <2>3, FinishFiles DEF FilesInv
<1>5. CASE files' = files /\ Finish("folderKept") /\ torn' = torn \cup Pair(Touched(local.put))
  <2>1. \A i \in Ids, g \in Files : Mine(i, g) => <<i, g>> \in torn'
    BY <1>5 DEF Mine, Pair
  <2>2. \A i \in Ids, g \in Files : disk'.recs[i].docs[g] \in {None, files'[i][g]} \/ <<i, g>> \in torn'
    BY <1>1, <1>3, <1>5, <2>1
  <2> QED
    BY <1>1, <1>5, <2>2, FinishFiles DEF FilesInv
<1> QED
  BY <1>4, <1>5 DEF WipeFolder

LEMMA FilesStrayLands ==
    ASSUME TypeInv, FilesInv, NEW t \in strays, StrayLands(t)
    PROVE  FilesInv'
<1>1. /\ UNCHANGED <<disk, queue, op, pc, local, todo, before>> /\ Doing' = Doing
      /\ (HalfDone <=> HalfDone') /\ (\A S : Pair(S)' = Pair(S))
      /\ (\A i, f : Mine(i, f)' <=> Mine(i, f)) /\ Touched(local.put)' = Touched(local.put)
  BY DEF StrayLands, taskVars, Doing, Me, HalfDone, Pair, Mine, Touched
<1>2. /\ torn \subseteq torn'
      /\ \A i \in Ids, f \in Files : files'[i][f] = files[i][f] \/ <<i, f>> \in torn'
            \/ (pc = "rollback" /\ <<i, f>> \in Pair(todo))
  <2>1. t.id \in Ids /\ t.file \in Files /\ files \in [Ids -> Folder]
    BY DEF TypeInv, TypeOK, StoresOK, Stray
  <2>2. CASE UNCHANGED <<files, torn>>
    BY <2>2
  <2>3. CASE /\ files' = [files EXCEPT ![t.id][t.file] = t.bytes]
             /\ torn' = IF pc = "rollback" /\ <<t.id, t.file>> \in Pair(todo) THEN torn
                        ELSE torn \cup {<<t.id, t.file>>}
    <3>1. \A i \in Ids, f \in Files : i # t.id \/ f # t.file => files'[i][f] = files[i][f]
      BY <2>1, <2>3 DEF Folder
    <3> QED
      BY <2>3, <3>1
  <2> QED
    BY <2>2, <2>3 DEF StrayLands
<1>3. pc = "rollback" => queue # <<>> /\ todo \subseteq Touched(local.put)
                         /\ Doing.upserts = {Target(Doing)}
  BY MeType, TargetType DEF FilesInv, RenamedIsDisk, TypeInv, TaskShape
<1>4. \A i, f : pc = "rollback" /\ <<i, f>> \in Pair(todo) =>
                   Mine(i, f) /\ <<i, f>> \in Pair(Touched(local.put)) /\ HalfDone
  BY <1>3 DEF Pair, Mine, HalfDone
<1>5. TrackedFilesOnDisk'
  <2> SUFFICES ASSUME NEW i \in Ids, NEW f \in Files
               PROVE  \/ disk.recs[i].docs[f] \in {None, files'[i][f]} \/ <<i, f>> \in torn'
                      \/ HalfDone /\ <<i, f>> \in Pair(Touched(local.put))
    BY <1>1 DEF TrackedFilesOnDisk
  <2> QED
    BY <1>2, <1>4 DEF FilesInv, TrackedFilesOnDisk
<1>6. CommitsAreNew'
  <2> SUFFICES ASSUME NEW k \in 1 .. Len(queue), op[queue[k]].kind = "commit", k > 1 \/ pc = "wait"
               PROVE  \A f \in Files : files'[Target(op[queue[k]])][f] = None
                                \/ <<Target(op[queue[k]]), f>> \in torn'
    BY <1>1 DEF FilesInv, CommitsAreNew
  <2>1. /\ queue \in Seq(Requests) /\ queue[k] \in Requests
        /\ op[queue[k]] \in Request /\ RequestShape(op[queue[k]]) /\ Len(queue) \in Nat
    BY DEF TypeInv, TypeOK, RequestsOK, TaskShape
  <2>2. Target(op[queue[k]]) \in Ids
    BY <2>1, TargetType
  <2>3. \A f \in Files : files[Target(op[queue[k]])][f] = None \/ <<Target(op[queue[k]]), f>> \in torn
    BY DEF FilesInv, CommitsAreNew
  <2>4. pc = "rollback" => Target(op[queue[k]]) # Target(Doing)
    <3>1. pc = "rollback" => Target(op[queue[k]]) \notin op[queue[1]].upserts
      BY <2>1 DEF FilesInv, CommitsAreNew
    <3> QED
      BY <1>3, <2>1, <3>1 DEF Doing, Me
  <2> QED
    BY <1>2, <2>2, <2>3, <2>4 DEF Pair
<1>7. NextIsFaithful'
  <2> SUFFICES ASSUME pc \in {"files", "write"}, ~local.upgrade, NEW i \in Ids, NEW f \in Files
               PROVE  IF Mine(i, f)
                      THEN /\ local.next[i].docs[f] = local.put[f]
                           /\ (pc = "files" /\ f \in todo) \/ files'[i][f] = local.put[f]
                              \/ <<i, f>> \in torn'
                      ELSE local.next[i].docs[f] \in {None, files'[i][f]} \/ <<i, f>> \in torn'
    BY <1>1 DEF NextIsFaithful
  <2> QED
    BY <1>2 DEF FilesInv, NextIsFaithful
<1>8. PreviousIsFaithful'
  <2> SUFFICES ASSUME pc \in {"files", "write", "rollback", "wipe"}, NEW i \in Ids, NEW f \in Files, Mine(i, f),
                      <<i, f>> \notin torn'
               PROVE  /\ disk.recs[i].docs[f] \in {None, local.prev[f]}
                      /\ local.prev[f] = before[i][f]
                      /\ pc = "rollback" /\ f \notin todo => files'[i][f] = local.prev[f]
    BY <1>1 DEF PreviousIsFaithful
  <2>1. /\ disk.recs[i].docs[f] \in {None, local.prev[f]}
        /\ local.prev[f] = before[i][f]
        /\ pc = "rollback" /\ f \notin todo => files[i][f] = local.prev[f]
    BY <1>2 DEF FilesInv, PreviousIsFaithful
  <2> QED
    BY <1>2, <2>1 DEF Pair
<1>9. RestIsUntouched'
  <2> SUFFICES ASSUME pc \notin {"wait", "confirm", "trash"} \/ local.upgrade,
                      NEW i \in Ids, NEW f \in Files, <<i, f>> \notin torn'
               PROVE  /\ ~Mine(i, f) => files'[i][f] = before[i][f]
                      /\ Doing.kind = "commit" /\ i = Target(Doing) => before[i][f] = None
    BY <1>1 DEF RestIsUntouched
  <2>1. /\ ~Mine(i, f) => files[i][f] = before[i][f]
        /\ Doing.kind = "commit" /\ i = Target(Doing) => before[i][f] = None
    BY <1>2 DEF FilesInv, RestIsUntouched
  <2> QED
    BY <1>2, <1>4, <2>1
<1>10. ReadsAreFaithful'
  <2>1. ASSUME pc # "rollback", NEW recs, Faithful(recs) PROVE Faithful(recs)'
    <3> SUFFICES ASSUME NEW i \in Ids, NEW f \in Files
                 PROVE  recs[i].docs[f] \in {None, files'[i][f]} \/ <<i, f>> \in torn'
      BY DEF Faithful
    <3> QED
      BY <1>2, <2>1 DEF Faithful
  <2> QED
    BY <1>1, <2>1 DEF FilesInv, ReadsAreFaithful
<1>11. RenamedIsDisk'
  BY <1>1 DEF FilesInv, RenamedIsDisk
<1> QED
  BY <1>5, <1>6, <1>7, <1>8, <1>9, <1>10, <1>11 DEF FilesInv

LEMMA FilesWriteTracker ==
    ASSUME TypeInv, FilesInv, WriteTracker
    PROVE  FilesInv'
<1>1. /\ queue # <<>> /\ pc = "write" /\ pc' = "confirm"
      /\ local' = [local EXCEPT !.written = mint + 1] /\ disk'.recs = local.next
      /\ UNCHANGED <<files, queue, op, before>> /\ Doing' = Doing
  BY DEF WriteTracker, At, Doing, Me
<1>2. /\ local'.put = local.put /\ local'.upgrade = local.upgrade /\ local'.next = local.next
      /\ torn' \subseteq torn
      /\ \A i \in Ids, f \in Files : <<i, f>> \in torn =>
            <<i, f>> \in torn' \/ (Mine(i, f) /\ files[i][f] = local.put[f])
  <2>1. local'.put = local.put /\ local'.upgrade = local.upgrade /\ local'.next = local.next
    BY <1>1 DEF TypeInv, TypeOK, TaskOK, Local
  <2>2. torn' = torn \ {<<Target(Doing), f>> : f \in {g \in Touched(local.put) :
                           files[Target(Doing)][g] = local.put[g]}}
    BY DEF WriteTracker
  <2> QED
    BY <1>1, <2>1, <2>2 DEF Mine
<1>3. ASSUME NEW i \in Ids, NEW f \in Files
      PROVE  local.next[i].docs[f] \in {None, files[i][f]} \/ <<i, f>> \in torn'
  <2>1. CASE local.upgrade
    <3>1. ~Mine(i, f)
      BY <2>1 DEF FilesInv, ReadsAreFaithful, Mine
    <3> QED
      BY <1>1, <1>2, <2>1, <3>1 DEF FilesInv, ReadsAreFaithful, Faithful
  <2>2. CASE ~local.upgrade
    <3>1. IF Mine(i, f)
          THEN local.next[i].docs[f] = local.put[f] /\ (files[i][f] = local.put[f] \/ <<i, f>> \in torn)
          ELSE local.next[i].docs[f] \in {None, files[i][f]} \/ <<i, f>> \in torn
      BY <1>1, <2>2 DEF FilesInv, NextIsFaithful
    <3> QED
      BY <1>2, <3>1
  <2> QED
    BY <2>1, <2>2
<1>4. TrackedFilesOnDisk'
  BY <1>1, <1>3 DEF TrackedFilesOnDisk
<1>5. \A i \in Ids \ Doing.upserts, f \in Files : <<i, f>> \in torn => <<i, f>> \in torn'
  BY <1>1, <1>2, MineType
<1>6. CommitsAreNew'
  BY <1>1, <1>5, CommitsStay DEF FilesInv
<1>7. RestIsUntouched'
  <2>1. \A i, f : local.upgrade => ~Mine(i, f) /\ ~Mine(i, f)'
    BY <1>1, <1>2 DEF FilesInv, ReadsAreFaithful, Mine, Touched
  <2>2. RestIsUntouched
    BY DEF FilesInv
  <2> QED
    BY <1>1, <1>2, <2>1, <2>2 DEF RestIsUntouched
<1>8. ReadsAreFaithful'
  <2>1. Touched(local'.put) = Touched(local.put)
    BY <1>2
  <2> QED
    BY <1>1, <1>2, <2>1 DEF FilesInv, ReadsAreFaithful
<1>9. NextIsFaithful' /\ PreviousIsFaithful' /\ RenamedIsDisk'
  BY <1>1, <1>2 DEF NextIsFaithful, PreviousIsFaithful, RenamedIsDisk
<1> QED
  BY <1>4, <1>6, <1>7, <1>8, <1>9 DEF FilesInv

LEMMA FilesWriteFails ==
    ASSUME TypeInv, FilesInv, WriteFails
    PROVE  FilesInv'
<1>1. /\ queue # <<>> /\ pc = "write" /\ UNCHANGED <<disk, files, torn, before>> /\ local \in Local
  BY DEF WriteFails, At, historyVars, TypeInv, TypeOK, TaskOK
<1>2. CASE local.upgrade
  <2>1. RememberAndReturn(local.seen, local.next, FALSE)
    BY <1>2 DEF WriteFails
  <2>2. cache' \in Cache /\ cache'.recs = local.next /\ Return(cache')
    BY <1>1, <2>1, RememberType DEF RememberAndReturn, Remember, Local
  <2>3. Touched(local.put) = {} /\ Faithful(local.next)
    BY <1>1, <1>2 DEF FilesInv, ReadsAreFaithful
  <2> QED
    BY <1>1, <1>2, <2>2, <2>3, FilesReturn DEF Faithful
<1>3. CASE ~local.upgrade
  BY <1>1, <1>3, FilesUndo DEF WriteFails
<1> QED
  BY <1>2, <1>3

LEMMA FilesConfirm ==
    ASSUME TypeInv, FilesInv, Confirm
    PROVE  FilesInv'
<1>1. /\ queue # <<>> /\ pc = "confirm" /\ UNCHANGED <<disk, files, op, torn, before>> /\ ~HalfDone
      /\ queue \in Seq(Requests) /\ Me = queue[1]
  BY DEF Confirm, At, HalfDone, TypeInv, TypeOK, RequestsOK, Me
<1>2. CASE Finish("ok")
  BY <1>1, <1>2, FinishQuietly
<1>3. CASE local.upgrade /\ pc' = "wait" /\ local' = NoLocal /\ UNCHANGED <<queue, todo>>
  <2>1. Touched(local.put) = {} /\ \A i, f : ~Mine(i, f)
    BY <1>3 DEF FilesInv, ReadsAreFaithful, Mine
  <2>2. Doing.kind = "commit" => Target(Doing) \in Ids
    BY <1>1, MeType
  <2>3. Doing.kind = "commit" => \A f \in Files :
           files[Target(Doing)][f] = None \/ <<Target(Doing), f>> \in torn
    BY <1>3, <2>1, <2>2 DEF FilesInv, RestIsUntouched
  <2>4. CommitsAreNew'
    <3> SUFFICES ASSUME NEW k \in 1 .. Len(queue), op[queue[k]].kind = "commit"
                 PROVE  /\ \A f \in Files : files[Target(op[queue[k]])][f] = None
                                  \/ <<Target(op[queue[k]]), f>> \in torn
                        /\ \A j \in 1 .. k - 1 : Target(op[queue[k]]) \notin op[queue[j]].upserts
      BY <1>1, <1>3 DEF CommitsAreNew
    <3>1. CASE k > 1
      BY <3>1 DEF FilesInv, CommitsAreNew
    <3>2. CASE k = 1
      BY <1>1, <2>3, <3>2 DEF Doing
    <3> QED
      BY <1>1, <3>1, <3>2
  <2>5. local'.put = NoPut /\ ~local'.upgrade /\ Touched(NoPut) = {}
    BY <1>3, NoLocalType
  <2>6. TrackedFilesOnDisk'
    BY <1>1, SettledIsFaithful DEF FilesInv, TrackedFilesOnDisk
  <2>7. ReadsAreFaithful' /\ NextIsFaithful' /\ PreviousIsFaithful' /\ RestIsUntouched' /\ RenamedIsDisk'
    BY <1>3, <2>5 DEF ReadsAreFaithful, NextIsFaithful, PreviousIsFaithful, RestIsUntouched, RenamedIsDisk
  <2> QED
    BY <2>4, <2>6, <2>7 DEF FilesInv
<1>4. CASE ~local.upgrade /\ pc' = "trash" /\ todo' = Deleted /\ UNCHANGED <<local, queue>>
  <2>1. TrackedFilesOnDisk'
    BY <1>1, SettledIsFaithful DEF FilesInv, TrackedFilesOnDisk
  <2>2. CommitsAreNew'
    BY <1>1, <1>4, CommitsStay DEF FilesInv
  <2>3. RenamedIsDisk'
    BY <1>1, <1>4 DEF FilesInv, RenamedIsDisk, Deleted, Held
  <2>4. ReadsAreFaithful' /\ NextIsFaithful' /\ PreviousIsFaithful' /\ RestIsUntouched'
    BY <1>4 DEF ReadsAreFaithful, NextIsFaithful, PreviousIsFaithful, RestIsUntouched
  <2> QED
    BY <2>1, <2>2, <2>3, <2>4 DEF FilesInv
<1> QED
  BY <1>2, <1>3, <1>4 DEF Confirm, AfterWrite

\* A folder leaves for the trash only after its record has left the tracker.
LEMMA FilesTrashFolder ==
    ASSUME TypeInv, FilesInv, NEW t \in Ids, TrashFolder(t)
    PROVE  FilesInv'
<1>1. /\ queue # <<>> /\ pc = "trash" /\ UNCHANGED <<op, disk, torn>> /\ ~HalfDone
      /\ ~local.upgrade /\ t \in todo /\ files' \in {files, [files EXCEPT ![t] = EmptyFolder]}
  BY DEF TrashFolder, At, historyVars, HalfDone, FilesInv, RenamedIsDisk
<1>2. \A f \in Files : disk.recs[t].docs[f] = None
  <2>1. local.next[t] = NoRecord /\ \A f \in Files : NoRecord.docs[f] = None
    BY <1>1 DEF FilesInv, RenamedIsDisk, NoRecord, EmptyFolder
  <2> QED
    BY <1>1, <2>1 DEF FilesInv, RenamedIsDisk
<1>3. \A i \in Ids, f \in Files : files'[i][f] \in {None, files[i][f]} /\ (i # t => files'[i][f] = files[i][f])
  BY <1>1 DEF EmptyFolder, TypeInv, TypeOK, StoresOK, Folder
<1>4. \A i \in Ids, f \in Files : disk'.recs[i].docs[f] \in {None, files'[i][f]} \/ <<i, f>> \in torn'
  BY <1>1, <1>2, <1>3, SettledIsFaithful DEF FilesInv
<1>5. CASE Finish("ok")
  BY <1>1, <1>3, <1>4, <1>5, FinishFiles DEF FilesInv
<1>6. CASE todo' = todo \ {t} /\ UNCHANGED <<pc, local, queue, reply>>
  <2>1. TrackedFilesOnDisk'
    BY <1>4 DEF TrackedFilesOnDisk
  <2>2. CommitsAreNew'
    BY <1>1, <1>3, <1>6, CommitsStay DEF FilesInv
  <2>3. RenamedIsDisk'
    BY <1>1, <1>6 DEF FilesInv, RenamedIsDisk
  <2>4. ReadsAreFaithful' /\ NextIsFaithful' /\ PreviousIsFaithful' /\ RestIsUntouched'
    BY <1>1, <1>6 DEF ReadsAreFaithful, NextIsFaithful, PreviousIsFaithful, RestIsUntouched
  <2> QED
    BY <2>1, <2>2, <2>3, <2>4 DEF FilesInv
<1> QED
  BY <1>5, <1>6 DEF TrashFolder

LEMMA FilesOutsideEdit ==
    ASSUME TypeInv, FilesInv, NEW form \in EditForms, OutsideEdit(form)
    PROVE  FilesInv'
<1>1. UNCHANGED <<files, queue, op, local, pc, todo, torn, before>>
  BY DEF OutsideEdit, taskVars
<1>2. ASSUME NEW i \in Ids, NEW f \in Files
      PROVE  disk'.recs[i].docs[f] \in {None, disk.recs[i].docs[f]}
  <2>1. disk \in Disk /\ EmptyTracker[i].docs[f] = None
    BY DEF TypeInv, TypeOK, StoresOK, EmptyTracker, NoRecord, EmptyFolder
  <2>2. CASE form = "revise"
    <3>1. PICK j \in Held(disk.recs) :
             disk' = [[disk EXCEPT !.ident = mint + 1] EXCEPT !.recs[j].rev = mint + 1]
      BY <2>2 DEF OutsideEdit
    <3>2. disk'.recs = [disk.recs EXCEPT ![j].rev = mint + 1] /\ disk.recs \in Tracker
      BY <2>1, <3>1 DEF Disk
    <3> QED
      BY <3>2 DEF Tracker, Record
  <2>3. CASE form # "revise"
    <3>1. disk'.recs \in {disk.recs, EmptyTracker}
      <4>1. CASE form = "damage"
        <5>1. PICK j \in Held(disk.recs) :
                 disk' = [[disk EXCEPT !.ident = mint + 1] EXCEPT !.bad = @ \cup {j}]
          BY <4>1 DEF OutsideEdit
        <5> QED
          BY <2>1, <5>1 DEF Disk
      <4>2. CASE form = "remove"
        BY <4>2 DEF OutsideEdit
      <4>3. CASE form = "touch" \/ form = "corrupt"
        BY <2>1, <4>3 DEF OutsideEdit, Disk
      <4>4. CASE form = "repair"
        <5>1. disk' = [[disk EXCEPT !.ident = mint + 1] EXCEPT !.bad = {},
                                           !.form = IF @ = "corrupt" THEN "current" ELSE @]
          BY <4>4 DEF OutsideEdit
        <5> QED
          BY <2>1, <5>1 DEF Disk
      <4>5. form \in {"touch", "revise", "damage", "corrupt", "remove", "repair"}
        BY StoreAssumption
      <4> QED
        BY <2>3, <4>1, <4>2, <4>3, <4>4, <4>5
    <3> QED
      BY <2>1, <3>1
  <2> QED
    BY <2>2, <2>3
<1>3. /\ Doing' = Doing /\ (HalfDone <=> HalfDone') /\ (\A S : Pair(S)' = Pair(S))
      /\ (\A i, f : Mine(i, f)' <=> Mine(i, f)) /\ Touched(local.put)' = Touched(local.put)
  BY <1>1 DEF Doing, Me, HalfDone, Pair, Mine, Touched
<1>4. TrackedFilesOnDisk'
  BY <1>1, <1>2, <1>3 DEF FilesInv, TrackedFilesOnDisk
<1>5. CommitsAreNew' /\ ReadsAreFaithful' /\ NextIsFaithful'
  BY <1>1, <1>3 DEF FilesInv, CommitsAreNew, ReadsAreFaithful, NextIsFaithful, Faithful
<1>6. PreviousIsFaithful'
  BY <1>1, <1>2, <1>3 DEF FilesInv, PreviousIsFaithful
<1>7. RestIsUntouched'
  BY <1>1, <1>3 DEF FilesInv, RestIsUntouched
<1>8. RenamedIsDisk'
  BY <1>1, <1>2, <1>3 DEF FilesInv, RenamedIsDisk
<1> QED
  BY <1>4, <1>5, <1>6, <1>7, <1>8 DEF FilesInv

LEMMA FilesCrash ==
    ASSUME TypeInv, FilesInv, Crash
    PROVE  FilesInv'
<1>1. /\ queue' = <<>> /\ pc' = "wait" /\ local' = NoLocal /\ UNCHANGED <<disk, files>>
      /\ torn \subseteq torn' /\ (HalfDone => Pair(Touched(local.put)) \subseteq torn')
  BY DEF Crash
<1>2. ~NoLocal.upgrade /\ Touched(NoLocal.put) = {}
  BY NoLocalType
<1>3. TrackedFilesOnDisk'
  BY <1>1 DEF FilesInv, TrackedFilesOnDisk
<1>4. CommitsAreNew'
  BY <1>1 DEF CommitsAreNew
<1> QED
  BY <1>1, <1>2, <1>3, <1>4 DEF FilesInv, ReadsAreFaithful, NextIsFaithful, PreviousIsFaithful,
         RestIsUntouched, RenamedIsDisk

LEMMA FilesNext == CacheIInv /\ FilesInv /\ [Next]_vars => FilesInv'
<1> SUFFICES ASSUME CacheIInv, FilesInv, [Next]_vars PROVE FilesInv'
  OBVIOUS
<1>1. TypeInv
  BY DEF CacheIInv
<1>2. CASE \E r \in Requests : Submit(r)
  BY <1>1, <1>2, FilesSubmit
<1>3. CASE TaskStep
  BY <1>1, <1>3, FilesTakeLock, FilesReadFile, FilesAnswer, FilesBegin, FilesWriteFile, FilesRestoreFile,
     FilesWipeFolder, FilesWriteTracker, FilesConfirm, FilesTrashFolder, FilesWriteFails DEF TaskStep
<1>4. CASE FaultStep
  BY <1>1, <1>4, FilesAnswer, FilesFileFails, FilesRestoreFails, FilesStrayLands DEF FaultStep
<1>5. CASE Environment
  BY <1>1, <1>5, FilesCrash, FilesOutsideEdit DEF Environment
<1>6. CASE UNCHANGED vars
  <2>1. UNCHANGED <<disk, files, queue, op, local, pc, todo, torn, before>>
    BY <1>6 DEF vars, taskVars, historyVars
  <2>2. CommitsAreNew'
    BY <2>1 DEF FilesInv, CommitsAreNew
  <2> QED
    BY <2>1, <2>2, KeptParts DEF FilesInv
<1> QED
  BY <1>2, <1>3, <1>4, <1>5, <1>6 DEF Next

LEMMA FilesInit == Init => FilesInv
<1> SUFFICES ASSUME Init PROVE FilesInv
  OBVIOUS
<1>1. PICK s \in Starts : /\ disk = [ident |-> IF s.form = "missing" THEN 0 ELSE 1, form |-> s.form,
                                     recs |-> s.recs, bad |-> {}]
                          /\ files = s.files /\ before = s.files
  BY DEF Init
<1>2. \A i \in Ids : disk.recs[i].docs \in {EmptyFolder, files[i]}
  BY <1>1, StoreAssumption
<1>3. TrackedFilesOnDisk
  BY <1>2 DEF TrackedFilesOnDisk, EmptyFolder
<1>4. pc = "wait" /\ queue = <<>> /\ local = NoLocal /\ ~NoLocal.upgrade /\ Touched(NoLocal.put) = {}
  BY NoLocalType DEF Init
<1> QED
  BY <1>3, <1>4 DEF FilesInv, CommitsAreNew, ReadsAreFaithful, NextIsFaithful, PreviousIsFaithful,
         RestIsUntouched, RenamedIsDisk

LEMMA FilesIInvHolds == Spec => []FilesIInv
<1>1. Init => FilesIInv
  BY TypeInit, CacheInit, FilesInit DEF FilesIInv, CacheIInv
<1>2. FilesIInv /\ [Next]_vars => FilesIInv'
  BY CacheNext, FilesNext DEF FilesIInv
<1> QED
  BY <1>1, <1>2, PTL DEF Spec

\* A document applications.json describes is in its folder with those bytes,
\* except while a task is half way and where the folder is torn.
THEOREM DocumentsAreOnDisk == Spec => []TrackedFilesOnDisk
<1>1. FilesIInv => TrackedFilesOnDisk
  BY DEF FilesIInv, FilesInv
<1> QED
  BY <1>1, FilesIInvHolds, PTL

-----------------------------------------------------------------------------
(* A request that failed left no trace                                       *)

\* The folders are as they were when the task began, or known to be torn.
Unchanged == \A i \in Ids, f \in Files : <<i, f>> \in torn' \/ files'[i][f] = before'[i][f]

\* A task with no file to put back has changed none.
LEMMA NothingTouched ==
    ASSUME FilesInv, pc \notin {"wait", "confirm", "trash"}, Touched(local.put) = {},
           UNCHANGED <<files, torn, before>>
    PROVE  Unchanged
BY DEF FilesInv, RestIsUntouched, Mine, Unchanged

LEMMA RestoreLeavesNoTrace ==
    ASSUME TypeInv, FilesInv, NEW f \in Files, RestoreFile(f) \/ RestoreFails(f), pc' = "wait"
    PROVE  Unchanged
<1> SUFFICES ASSUME NEW i \in Ids, NEW g \in Files, <<i, g>> \notin torn'
             PROVE  files'[i][g] = before'[i][g]
  BY DEF Unchanged
<1>1. /\ queue # <<>> /\ pc = "rollback" /\ before' = before /\ torn \subseteq torn'
      /\ f \in todo /\ todo \subseteq Touched(local.put)
  BY DEF RestoreFile, RestoreFails, At, historyVars, FilesInv, RenamedIsDisk
<1>2. ~Mine(i, g) => files[i][g] = before[i][g]
  BY <1>1 DEF FilesInv, RestIsUntouched
<1>3. CASE RestoreFile(f)
  <2>1. todo = {f}
    BY <1>1, <1>3 DEF RestoreFile
  <2>2. CASE Mine(i, g)
    BY <1>1, <1>3, <2>1, <2>2, Restored
  <2>3. CASE ~Mine(i, g)
    <3>1. i # Target(Doing) \/ g # f
      BY <1>1, <2>3 DEF Mine
    <3> QED
      BY <1>1, <1>2, <1>3, <2>3, <3>1, Restored
  <2> QED
    BY <2>2, <2>3
<1>4. CASE RestoreFails(f)
  <2>1. files' = files /\ torn' = torn \cup Pair(todo)
    BY <1>4 DEF RestoreFails
  <2>2. Mine(i, g) => g \notin todo
    BY <2>1 DEF Mine, Pair
  <2> QED
    BY <1>1, <1>2, <2>1, <2>2 DEF FilesInv, PreviousIsFaithful
<1> QED
  BY <1>3, <1>4

LEMMA WipeLeavesNoTrace ==
    ASSUME TypeInv, FilesInv, WipeFolder, Finish("failed"), reply'[Me] = "failed"
    PROVE  Unchanged
<1>1. /\ queue # <<>> /\ pc = "wipe" /\ before' = before /\ Doing.kind = "commit"
      /\ files \in [Ids -> Folder] /\ Me \in Requests /\ reply \in [Requests -> Answers]
  BY MeType DEF WipeFolder, At, FilesInv, RenamedIsDisk, TypeInv, TypeOK, StoresOK, RequestsOK
<1>2. files' = [files EXCEPT ![Target(Doing)] = EmptyFolder] /\ torn' = torn
  BY <1>1 DEF WipeFolder, Finish
<1> SUFFICES ASSUME NEW i \in Ids, NEW g \in Files, <<i, g>> \notin torn
             PROVE  files'[i][g] = before[i][g]
  BY <1>1, <1>2 DEF Unchanged
<1>3. /\ ~Mine(i, g) => files[i][g] = before[i][g]
      /\ i = Target(Doing) => before[i][g] = None
  BY <1>1 DEF FilesInv, RestIsUntouched
<1> QED
  BY <1>1, <1>2, <1>3 DEF Mine, EmptyFolder

LEMMA FailureStep ==
    ASSUME TypeInv, FilesInv, [Next]_vars, NEW r \in Requests,
           reply[r] = "queued", reply'[r] \in {"refused", "failed"}
    PROVE  Unchanged
<1>1. reply \in [Requests -> Answers]
  BY DEF TypeInv, TypeOK, RequestsOK
<1>2. reply' # reply
  OBVIOUS
<1>3. CASE ReadFails
  <2>1. CASE pc = "wait"
    BY <1>3, <2>1 DEF ReadFails, Unchanged
  <2>2. CASE pc # "wait"
    BY <1>3, <2>2, NothingTouched DEF ReadFails, At, FilesInv, ReadsAreFaithful
  <2> QED
    BY <2>1, <2>2
<1>4. CASE ReadFile \/ AnswerList \/ RefuseUnreadable \/ AnswerWithoutWriting \/ PreviousReadFails
  <2>1. pc \in {"read", "loaded"} /\ UNCHANGED <<files, torn, before>>
    BY <1>4 DEF ReadFile, AnswerList, RefuseUnreadable, AnswerWithoutWriting, PreviousReadFails,
           Reading, Writing, At, historyVars
  <2> QED
    BY <2>1, NothingTouched DEF FilesInv, ReadsAreFaithful
<1>5. CASE (\E f \in Files : FileFails(f)) \/ WriteFails
  <2>1. pc \in {"files", "write"} /\ UNCHANGED <<files, torn, before>>
    BY <1>5 DEF FileFails, WriteFails, At, historyVars
  <2>2. Undo
    BY <1>2, <1>5 DEF FileFails, WriteFails, RememberAndReturn, Return
  <2>3. Touched(local.put) = {}
    BY <1>2, <2>2 DEF Undo
  <2> QED
    BY <2>1, <2>3, NothingTouched
<1>6. ASSUME NEW f \in Files, RestoreFile(f) \/ RestoreFails(f) PROVE Unchanged
  <2>1. pc' = "wait"
    BY <1>2, <1>6 DEF RestoreFile, RestoreFails, Finish
  <2> QED
    BY <1>6, <2>1, RestoreLeavesNoTrace
<1>7. CASE WipeFolder
  <2>1. \E answer \in {"failed", "folderKept"} : Finish(answer) /\ (answer = "folderKept" => ~Finish("failed"))
    BY <1>1, <1>2, <1>7 DEF WipeFolder, Finish
  <2>2. Finish("failed") /\ reply'[Me] = "failed"
    BY <1>1, <1>2, <2>1 DEF Finish
  <2> QED
    BY <1>7, <2>2, WipeLeavesNoTrace
<1> QED
  <2>1. ~UNCHANGED vars
    BY <1>2 DEF vars
  <2>2. ASSUME NEW q \in Requests, Submit(q) PROVE FALSE
    BY <1>1, <2>2 DEF Submit
  <2>3. ~Crash /\ \A form \in EditForms : ~OutsideEdit(form)
    BY <1>1, <1>2 DEF Crash, OutsideEdit
  <2>4. ~TakeLock /\ ~Begin /\ ~WriteTracker /\ ~(\E f \in Files : WriteFile(f)) /\ ~(\E t \in strays : StrayLands(t))
    BY <1>2 DEF TakeLock, Return, RememberAndReturn, Begin, WriteTracker, WriteFile, StrayLands
  <2>5. ~Confirm /\ \A i \in Ids : ~TrashFolder(i)
    BY <1>1, <1>2 DEF Confirm, AfterWrite, TrashFolder, Finish
  <2> QED
    BY <1>3, <1>4, <1>5, <1>6, <1>7, <2>1, <2>2, <2>3, <2>4, <2>5 DEF Next, TaskStep, FaultStep, Environment

\* A request answered as refused or failed leaves every document as it found it,
\* except the files known to be torn.
THEOREM FailuresLeaveNoTrace == Spec => FailureLeavesNoTrace
<1>1. FilesIInv /\ [Next]_vars =>
         [\A r \in Requests :
             reply[r] = "queued" /\ reply'[r] \in {"refused", "failed"} =>
                \A i \in Ids, f \in Files : <<i, f>> \in torn' \/ files'[i][f] = before'[i][f]]_vars
  BY FailureStep DEF FilesIInv, CacheIInv, Unchanged
<1> QED
  BY <1>1, FilesIInvHolds, PTL DEF Spec, FailureLeavesNoTrace

=============================================================================
