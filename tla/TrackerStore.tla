---------------------------- MODULE TrackerStore ----------------------------
(***************************************************************************)
(* The tracker transaction of the RoleFit server: applications.json, the   *)
(* document folder of each application, the cached snapshot of the tracker *)
(* and the promise queue that serializes every operation on them           *)
(* (server/applications/storage.ts, commitService.ts, documentService.ts,  *)
(* statusService.ts, updateService.ts, attachmentRoutes.ts,                *)
(* trackerRoutes.ts, routeSupport.ts).                                     *)
(*                                                                         *)
(* The two stores, tracker and folders, have no common commit: a request   *)
(* writes the files one await at a time, renames the tracker into place    *)
(* and puts the files back when that fails.  Every await is a step here,   *)
(* and between two steps other requests join the queue, another program    *)
(* edits applications.json, an I/O call fails or the process dies.  A      *)
(* deleted record's folder is renamed into applications/.trash, which no   *)
(* handler reads; here it just becomes empty.                              *)
(*                                                                         *)
(* A record is reduced to what the two stores have in common: a revision   *)
(* (updatedAt), the class of its stage and the bytes each document slot    *)
(* describes.  ApplicationRecord models the rest of a record.              *)
(***************************************************************************)
EXTENDS Integers, FiniteSets, Sequences

CONSTANTS
    Ids,              \* application ids
    Files,            \* names of the files an application folder can hold
    Slots,            \* the files that together form one document slot
    Sources,          \* the editable sources commit, status and update write
    Rank,             \* the order in which a request writes the files
    Bytes,            \* file contents
    None,             \* no file
    Keep,             \* a file the request leaves alone
    Requests,         \* the requests of a behaviour, each sent at most once
    Kinds,            \* the kinds of request clients send
    Similar,          \* pairs of ids the duplicate matcher relates
    MaxApplications,  \* MAX_APPLICATIONS of schema.ts
    Starts,           \* the stores a behaviour may start from
    EditForms,        \* what an outside edit can do to applications.json
    MaxEdits, MaxFaults, MaxCrashes    \* bounds on the environment

-----------------------------------------------------------------------------
(* Records and the tracker file *)

\* "draft" is a Draft or a job-only Skip, which hold no documents; "sent" a
\* submitted application; "skipped" a submission later Skipped, which keeps its
\* documents but accepts none; "interested" is the stage that only a version 0
\* tracker file can hold.
Stages == {"draft", "sent", "skipped"}
StoredStages == Stages \cup {"interested"}

Folder == [Files -> Bytes \cup {None}]
EmptyFolder == [f \in Files |-> None]

Record == [rev : Nat, stage : StoredStages, docs : Folder]
NoRecord == [rev |-> 0, stage |-> "draft", docs |-> EmptyFolder]
Tracker == [Ids -> Record]
EmptyTracker == [i \in Ids |-> NoRecord]
Held(recs) == {i \in Ids : recs[i] # NoRecord}

\* "older" is a version 0 file, "corrupt" one that does not parse; bad holds the
\* records that are not in the stored shape.  A missing file has ident 0.
Forms == {"missing", "current", "older", "corrupt"}
Disk == [ident : Nat, form : Forms, recs : Tracker, bad : SUBSET Ids]

\* migrateTrackerApplications, version 0 to 1: the retired Interested stage
\* becomes a Skipped decision and loses its document metadata.
Migrate(recs) ==
    [i \in Ids |-> IF recs[i].stage = "interested"
                   THEN [recs[i] EXCEPT !.stage = "draft", !.docs = EmptyFolder]
                   ELSE recs[i]]

\* inspectStoredApplications: the records a read can serve.
Readable(d) ==
    LET stored == [i \in Ids |-> IF i \in d.bad THEN NoRecord ELSE d.recs[i]]
    IN  IF d.form = "older" THEN Migrate(stored) ELSE stored

NoCache == [ident |-> 0, recs |-> EmptyTracker, invalid |-> FALSE, revision |-> 0]
Cache == [ident : Nat, recs : Tracker, invalid : BOOLEAN, revision : Nat]

-----------------------------------------------------------------------------
(* Requests *)

\* base[i] is the baseUpdatedAt sent for record i, 0 when null or omitted;
\* put the bytes sent for each file; known the revision in If-None-Match.
Put == [Files -> Bytes \cup {None, Keep}]
NoPut == [f \in Files |-> Keep]
NoBase == [i \in Ids |-> 0]
Request ==
    [kind : {"list", "save", "document", "submit", "update", "commit"},
     upserts : SUBSET Ids, deletes : SUBSET Ids, base : [Ids -> Nat],
     stage : Stages, put : Put, known : Nat, ack : SUBSET Ids, dry : BOOLEAN]

ListRequest(known) ==
    [kind |-> "list", upserts |-> {}, deletes |-> {}, base |-> NoBase,
     stage |-> "draft", put |-> NoPut, known |-> known, ack |-> {}, dry |-> FALSE]

Target(o) == CHOOSE i \in o.upserts : TRUE
Touched(put) == {f \in Files : put[f] # Keep}
HasArtifacts(rec, f) == \E s \in Slots : f \in s /\ \E g \in s : rec.docs[g] # None

\* Only the removal of a slot runs its file operations in a Promise.all.
Parallel(o) == o.kind = "document" /\ \A f \in Files : o.put[f] \in {None, Keep}

Start == [form : Forms, recs : Tracker, files : [Ids -> Folder]]
ASSUME StoreAssumption ==
    /\ IsFiniteSet(Ids)
    /\ Slots \subseteq SUBSET Files /\ Files \subseteq UNION Slots
    /\ Sources \subseteq Files
    /\ Rank \in [Files -> Nat]
    /\ None \notin Bytes /\ Keep \notin Bytes \cup {None}
    /\ Similar \subseteq Ids \X Ids
    /\ MaxApplications \in Nat
    /\ Kinds \subseteq {"list", "save", "document", "submit", "update", "commit"}
    /\ EditForms \subseteq {"touch", "revise", "damage", "corrupt", "remove", "repair"}
    /\ MaxEdits \in Nat /\ MaxFaults \in Nat /\ MaxCrashes \in Nat
    /\ Starts \subseteq Start
    /\ \A s \in Starts :
          /\ s.form = "missing" => s.recs = EmptyTracker
          /\ \A i \in Ids : /\ s.recs[i].rev <= 1
                            /\ s.recs[i].docs \in {EmptyFolder, s.files[i]}

VARIABLES
    disk,      \* applications.json
    files,     \* the folder of each application
    cache,     \* the module variable `snapshot`
    queue,     \* applicationsWriteQueue: requests waiting for or holding the lock
    op,        \* what each request asks
    reply,     \* what each request was answered
    pc,        \* where the request at the head of the queue stands
    local,     \* the variables of the task that holds the lock
    todo,      \* the files, in the phase "trash" the folders, still to settle
    strays,    \* file operations left running by a Promise.all that rejected
    mint,      \* fresh inodes, revisions and timestamps
    edits, faults, crashes,     \* how much of the bounds is used
    torn,      \* history: files a crash, a failed rollback or a stray left wrong
    raced,     \* history: edited by another program after this task read it
    before,    \* history: the folders when the task began
    sent       \* history: every tracker a reply carried, by its revision

taskVars == <<pc, local, todo>>
boundVars == <<edits, faults, crashes>>
historyVars == <<torn, raced, before, sent>>
vars == <<disk, files, cache, queue, op, reply, taskVars, strays, mint,
          boundVars, historyVars>>

\* seen: the identity taken before the read; recs, invalid, revision: what the
\* read returned; next: the tracker to write; put, prev: the files to write and
\* their previous bytes; upgrade: this write stamps the current version;
\* written: the identity of the file renamed into place.
NoLocal ==
    [seen |-> 0, recs |-> EmptyTracker, invalid |-> FALSE, revision |-> 0,
     next |-> EmptyTracker, put |-> NoPut, prev |-> EmptyFolder,
     upgrade |-> FALSE, written |-> 0]
Local ==
    [seen : Nat, recs : Tracker, invalid : BOOLEAN, revision : Nat,
     next : Tracker, put : Put, prev : Folder, upgrade : BOOLEAN, written : Nat]

Init ==
    /\ \E s \in Starts :
          /\ disk = [ident |-> IF s.form = "missing" THEN 0 ELSE 1, form |-> s.form,
                     recs |-> s.recs, bad |-> {}]
          /\ files = s.files
          /\ before = s.files
    /\ cache = NoCache
    /\ queue = <<>>
    /\ op = [r \in Requests |-> ListRequest(0)]
    /\ reply = [r \in Requests |-> "none"]
    /\ pc = "wait"
    /\ local = NoLocal
    /\ todo = {} /\ strays = {}
    /\ mint = 1
    /\ edits = 0 /\ faults = 0 /\ crashes = 0
    /\ torn = {} /\ raced = FALSE
    /\ sent = {}

-----------------------------------------------------------------------------
(* Clients send requests.  A client's base is the revision it last saw, here   *)
(* the one on disk when it sends; requests ahead in the queue make it stale.   *)

Seen == [i \in Ids |-> Readable(disk)[i].rev]
Only(S) == [i \in Ids |-> IF i \in S THEN Seen[i] ELSE 0]

\* commitApplication makes up a random id: no request, record or folder has it.
FreshId(i) ==
    /\ disk.recs[i] = NoRecord /\ files[i] = EmptyFolder
    /\ \A r \in Requests : i \notin op[r].upserts

\* A client makes up an id, or saves a record it still shows after another
\* client deleted it; that record's folder may have stayed behind.  Nobody can
\* name a record whose commit has not been answered.
CanCreate(i) ==
    /\ disk.recs[i] = NoRecord
    /\ \A r \in Requests : op[r].kind = "commit" /\ i \in op[r].upserts => reply[r] = "ok"

Tracked == {i \in Ids : Seen[i] # 0}

SaveRequest(u, d, g) ==
    [ListRequest(0) EXCEPT !.kind = "save", !.upserts = u, !.deletes = d,
                           !.base = Only(u \cup d), !.stage = g]
SaveRequests ==
    {o \in {SaveRequest(u, d, g) : u \in SUBSET Ids, d \in SUBSET Tracked, g \in Stages} :
        /\ o.upserts \cap o.deletes = {} /\ o.upserts \cup o.deletes # {}
        /\ \A i \in o.upserts : i \in Tracked \/ CanCreate(i)
        /\ o.upserts = {} => o.stage = "draft"}

\* One slot is replaced by one file, or removed.
SlotPut(s, g, b) == [f \in Files |-> IF f = g THEN b ELSE IF f \in s THEN None ELSE Keep]
DocumentRequest(i, put) ==
    [ListRequest(0) EXCEPT !.kind = "document", !.upserts = {i}, !.base = Only({i}), !.put = put]
DocumentRequests ==
    UNION {{DocumentRequest(i, SlotPut(s, g, b)) : i \in Tracked, g \in s, b \in Bytes \cup {None}} :
             s \in Slots}

SourcePuts == {p \in Put : /\ Touched(p) \subseteq Sources
                           /\ \A f \in Files : p[f] # None}

SourceRequest(kind, i, base, p) ==
    [ListRequest(0) EXCEPT !.kind = kind, !.upserts = {i}, !.put = p, !.base = base]
SourceRequests(kind) ==
    UNION {{SourceRequest(kind, i, base, p) : base \in {Only({i}), NoBase}, p \in SourcePuts \ {NoPut}} :
             i \in Tracked}

CommitRequest(i, p, k, d) ==
    [ListRequest(0) EXCEPT !.kind = "commit", !.upserts = {i}, !.put = p, !.ack = k,
                           !.stage = IF p = NoPut THEN "draft" ELSE "sent", !.dry = d]
CommitRequests ==
    {CommitRequest(i, p, k, d) :
        i \in {j \in Ids : FreshId(j)}, p \in SourcePuts, k \in {{}, Ids}, d \in BOOLEAN}

Asked ==
    UNION {IF "list" \in Kinds THEN {ListRequest(k) : k \in {0} \cup {e.revision : e \in sent}} ELSE {},
           IF "save" \in Kinds THEN SaveRequests ELSE {},
           IF "document" \in Kinds THEN DocumentRequests ELSE {},
           UNION {SourceRequests(k) : k \in Kinds \cap {"submit", "update"}},
           IF "commit" \in Kinds THEN CommitRequests ELSE {}}

\* withApplicationsLock: every request appends its task to one promise chain.
Submit(r) ==
    /\ reply[r] = "none"
    /\ \E o \in Asked : op' = [op EXCEPT ![r] = o]
    /\ reply' = [reply EXCEPT ![r] = "queued"]
    /\ queue' = Append(queue, r)
    /\ UNCHANGED <<disk, files, cache, taskVars, strays, mint, boundVars, historyVars>>

-----------------------------------------------------------------------------
(* The task at the head of the queue.  Its promise settles with an answer and  *)
(* the chain moves on, whether it resolved or rejected.                        *)

Me == Head(queue)
Doing == op[Me]
At(phase) == queue # <<>> /\ pc = phase

\* Mutant: the error path settles the promise but sends no reply.
FinishSilently(answer) ==
    /\ reply' = IF answer = "failed" THEN reply ELSE [reply EXCEPT ![Me] = answer]
    /\ queue' = Tail(queue)
    /\ pc' = "wait" /\ local' = NoLocal /\ todo' = {}

Finish(answer) ==
    /\ reply' = [reply EXCEPT ![Me] = answer]
    /\ queue' = Tail(queue)
    /\ pc' = "wait" /\ local' = NoLocal /\ todo' = {}

Fault == faults < MaxFaults /\ faults' = faults + 1

\* Mutant: a reload keeps the revision of the tracker it replaces.
RememberSameRevision(ident, recs, invalid) ==
    /\ cache' = [ident |-> ident, recs |-> recs, invalid |-> invalid,
                 revision |-> IF cache.revision # 0 THEN cache.revision ELSE mint + 1]
    /\ mint' = mint + 1

\* rememberValidated: the cached tracker gets a new revision.
Remember(ident, recs, invalid) ==
    /\ cache' = [ident |-> ident, recs |-> recs, invalid |-> invalid, revision |-> mint + 1]
    /\ mint' = mint + 1

\* readTrackerFile returns a snapshot to the task.
Return(snapshot) ==
    /\ local' = [local EXCEPT !.recs = snapshot.recs, !.invalid = snapshot.invalid,
                              !.revision = snapshot.revision, !.upgrade = FALSE]
    /\ pc' = "loaded"
    /\ UNCHANGED <<queue, op, reply, todo>>

RememberAndReturn(ident, recs, invalid) ==
    Remember(ident, recs, invalid) /\ Return(cache')

\* Mutant: the cached tracker is served without looking at the file.
CacheHitBlindly == cache.revision # 0

CacheHit == cache.revision # 0 /\ cache.ident = disk.ident

\* readTrackerFile up to its first await: take the file's identity.
TakeLock ==
    /\ At("wait")
    /\ before' = files /\ raced' = FALSE
    /\ \/ CacheHit /\ Return(cache) /\ UNCHANGED <<cache, mint>>
       \/ ~CacheHit /\ disk.form = "missing" /\ RememberAndReturn(0, EmptyTracker, FALSE)
       \/ /\ ~CacheHit /\ disk.form # "missing"
          /\ local' = [local EXCEPT !.seen = disk.ident]
          /\ pc' = "read"
          /\ UNCHANGED <<cache, mint, queue, op, reply, todo>>
    /\ UNCHANGED <<disk, files, strays, boundVars, torn, sent>>

\* The read itself.  A version 0 file with no unreadable record is written back
\* first, so that the next read finds the current version.
ReadFile ==
    /\ At("read")
    /\ \/ disk.form = "missing" /\ RememberAndReturn(0, EmptyTracker, FALSE)
       \/ disk.form = "corrupt" /\ Finish("failed") /\ UNCHANGED <<op, cache, mint>>
       \/ /\ disk.form = "older" /\ disk.bad = {}
          /\ local' = [local EXCEPT !.next = Readable(disk), !.upgrade = TRUE]
          /\ pc' = "write"
          /\ UNCHANGED <<cache, mint, queue, op, reply, todo>>
       \/ /\ disk.form \in {"current", "older"}
          /\ disk.form = "older" => disk.bad # {}
          /\ RememberAndReturn(local.seen, Readable(disk), disk.bad # {})
    /\ UNCHANGED <<disk, files, strays, boundVars, historyVars>>

\* stat or readFile fails with anything but ENOENT.
ReadFails ==
    /\ At("wait") \/ At("read")
    /\ Fault /\ Finish("failed")
    /\ before' = IF pc = "wait" THEN files ELSE before
    /\ UNCHANGED <<disk, files, cache, op, strays, mint, edits, crashes, torn, raced, sent>>

-----------------------------------------------------------------------------
(* What the task decides once it holds a snapshot *)

Current == local.recs[Target(Doing)]
BaseMatches == Doing.base[Target(Doing)] \in {0, Current.rev}

\* applicationStatusTransitionAllowed over the classes of stage.
StageMoves == {<<"draft", "draft">>, <<"draft", "sent">>, <<"sent", "sent">>,
               <<"sent", "skipped">>, <<"skipped", "skipped">>, <<"skipped", "sent">>}

\* updateApplication: a document already saved with this exact source.
Same(f) ==
    /\ HasArtifacts(Current, f)
    /\ files[Target(Doing)][f] = Doing.put[f]
PendingPut ==
    [f \in Files |-> IF Doing.kind = "update" /\ Same(f) THEN Keep ELSE Doing.put[f]]

\* A retry after a lost reply finds its change already saved: the status route
\* looks at the revision first, the record update does not.
AlreadyDone ==
    \/ /\ Doing.kind = "submit" /\ Current.stage = "sent" /\ BaseMatches
       /\ \A f \in Touched(Doing.put) : HasArtifacts(Current, f)
    \/ /\ Doing.kind = "update" /\ Current # NoRecord
       /\ Touched(PendingPut) = {}

\* Mutant: an existing record is replaced whatever revision was sent.
AcceptsAnyRevision ==
    Doing.kind \in {"save", "document"} /\ \A i \in Doing.upserts : local.recs[i] # NoRecord

\* reconcileApplicationMutations, requireApplicationRevision and the guards of
\* the status, update and commit services.  The cap on attachments is left out:
\* the slots of a folder here are fewer than it.
Accepts ==
    CASE Doing.kind = "save" ->
            /\ \A i \in Doing.upserts \cup Doing.deletes : local.recs[i].rev = Doing.base[i]
            /\ \A i \in Doing.upserts :
                  \/ local.recs[i] = NoRecord
                  \/ <<local.recs[i].stage, Doing.stage>> \in StageMoves
      [] Doing.kind = "document" ->
            /\ Current # NoRecord /\ Current.rev = Doing.base[Target(Doing)]
            /\ Current.stage = "sent"
      [] Doing.kind = "submit" ->
            Current # NoRecord /\ BaseMatches /\ Current.stage = "draft"
      [] Doing.kind = "update" ->
            /\ Current # NoRecord /\ BaseMatches /\ Current.stage # "draft"
            /\ \A f \in Touched(PendingPut) : ~HasArtifacts(Current, f)
      [] Doing.kind = "commit" ->
            /\ Current = NoRecord
            /\ \A i \in Held(local.recs) : <<Target(Doing), i>> \in Similar => i \in Doing.ack
      [] OTHER -> FALSE

\* Mutant: the artifacts are replaced by what was sent, the rest dropped.
ChangedToSent(rec) ==
    [rev |-> mint + 1,
     stage |-> IF Doing.kind \in {"save", "commit"} THEN Doing.stage
               ELSE IF Doing.kind = "submit" THEN "sent" ELSE rec.stage,
     docs |-> PendingPut]

\* A changed record gets a revision of its own and describes the files written.
Changed(rec) ==
    [rev |-> mint + 1,
     stage |-> IF Doing.kind \in {"save", "commit"} THEN Doing.stage
               ELSE IF Doing.kind = "submit" THEN "sent" ELSE rec.stage,
     docs |-> [f \in Files |-> IF PendingPut[f] = Keep THEN rec.docs[f] ELSE PendingPut[f]]]
NextTracker ==
    [i \in Ids |-> IF i \in Doing.deletes THEN NoRecord
                   ELSE IF i \in Doing.upserts THEN Changed(local.recs[i])
                   ELSE local.recs[i]]

OverCapacity(recs) == Cardinality(Held(recs)) > MaxApplications

Reading == At("loaded") /\ Doing.kind = "list"
\* Mutant: a write goes ahead over records it could not read.
WritingAnyway == At("loaded") /\ Doing.kind # "list"

Writing == At("loaded") /\ Doing.kind # "list" /\ ~local.invalid

\* handleListApplications: 304 when the client already holds this revision.
AnswerList ==
    /\ Reading
    /\ Finish(IF Doing.known = local.revision THEN "notModified" ELSE "ok")
    /\ sent' = sent \cup {[revision |-> local.revision, recs |-> local.recs]}
    /\ UNCHANGED <<disk, files, cache, op, strays, mint, boundVars, torn, raced, before>>

\* readApplicationsSnapshot: a tracker with an unreadable record takes no write.
RefuseUnreadable ==
    /\ At("loaded") /\ Doing.kind # "list" /\ local.invalid
    /\ Finish("failed")
    /\ UNCHANGED <<disk, files, cache, op, strays, mint, boundVars, historyVars>>

AnswerWithoutWriting ==
    /\ Writing
    /\ Finish(IF AlreadyDone THEN "unchanged"
              ELSE IF ~Accepts \/ OverCapacity(NextTracker) THEN "refused" ELSE "ok")
    /\ AlreadyDone \/ ~Accepts \/ Doing.dry
    /\ UNCHANGED <<disk, files, cache, op, strays, mint, boundVars, historyVars>>

\* Reading the previous bytes fails.
PreviousReadFails ==
    /\ Writing /\ Doing.kind \in {"document", "submit", "update"}
    /\ IF Doing.kind = "update" THEN Current # NoRecord ELSE Accepts /\ ~AlreadyDone
    /\ Fault /\ Finish("failed")
    /\ UNCHANGED <<disk, files, cache, op, strays, mint, edits, crashes, historyVars>>

\* Build the next tracker and capture the previous bytes before any mutation.
Begin ==
    /\ Writing /\ Accepts /\ ~AlreadyDone /\ ~Doing.dry
    /\ local' = [local EXCEPT !.next = NextTracker, !.put = PendingPut,
                              !.prev = IF Doing.kind = "save" THEN EmptyFolder
                                       ELSE files[Target(Doing)]]
    /\ todo' = Touched(PendingPut)
    /\ pc' = IF todo' = {} THEN "write" ELSE "files"
    /\ mint' = mint + 1
    /\ UNCHANGED <<disk, files, cache, queue, op, reply, strays, boundVars, historyVars>>

-----------------------------------------------------------------------------
(* Writing the files and taking them back *)

Pair(S) == {<<Target(Doing), f>> : f \in S}
Left(S, bytes) == {[id |-> Target(Doing), file |-> f, bytes |-> bytes[f]] : f \in S}

\* One file operation is due: any of a Promise.all, else the next in order.
Due(f) ==
    /\ f \in todo
    /\ Parallel(Doing) \/ \A g \in todo : Rank[f] <= Rank[g]

\* Mutant: the error is passed on and nothing is undone.
UndoNothing == Finish("failed")

\* A save that failed half way is undone: commit removes its new folder, the
\* others restore every file they touched, all at once.
Undo ==
    \/ Doing.kind = "commit" /\ pc' = "wipe" /\ todo' = {} /\ UNCHANGED <<local, queue, reply>>
    \/ /\ Doing.kind # "commit" /\ Touched(local.put) # {}
       /\ pc' = "rollback" /\ todo' = Touched(local.put) /\ UNCHANGED <<local, queue, reply>>
    \/ Doing.kind # "commit" /\ Touched(local.put) = {} /\ Finish("failed")

\* Mutant: the tracker is written before every file is.
WriteFirstFile(f) ==
    /\ At("files") /\ Due(f)
    /\ files' = [files EXCEPT ![Target(Doing)][f] = local.put[f]]
    /\ todo' = {} /\ pc' = "write"
    /\ UNCHANGED <<disk, cache, queue, op, reply, local, strays, mint, boundVars, historyVars>>

\* writeApplicationFile or rm of one file succeeds.
WriteFile(f) ==
    /\ At("files") /\ Due(f)
    /\ files' = [files EXCEPT ![Target(Doing)][f] = local.put[f]]
    /\ todo' = todo \ {f}
    /\ pc' = IF todo' = {} THEN "write" ELSE "files"
    /\ UNCHANGED <<disk, cache, queue, op, reply, local, strays, mint, boundVars, historyVars>>

\* It fails (rm with force of an absent file cannot).  A Promise.all rejects at
\* once and leaves its other removals running while the files are restored.
FileFails(f) ==
    /\ At("files") /\ Due(f)
    /\ local.put[f] = None => files[Target(Doing)][f] # None
    /\ Fault /\ Undo
    /\ strays' = IF Parallel(Doing) THEN strays \cup Left(todo \ {f}, local.put) ELSE strays
    /\ UNCHANGED <<disk, files, cache, op, mint, edits, crashes, historyVars>>

\* Mutant: only a file that existed is put back, a new one stays.
RestoreOldFile(f) ==
    /\ At("rollback") /\ f \in todo
    /\ files' = IF local.prev[f] = None THEN files
                ELSE [files EXCEPT ![Target(Doing)][f] = local.prev[f]]
    /\ IF todo = {f} THEN Finish("failed")
                     ELSE todo' = todo \ {f} /\ UNCHANGED <<pc, local, queue, reply>>
    /\ UNCHANGED <<disk, cache, op, strays, mint, boundVars, historyVars>>

\* restoreApplicationFile puts one file back.
RestoreFile(f) ==
    /\ At("rollback") /\ f \in todo
    /\ files' = [files EXCEPT ![Target(Doing)][f] = local.prev[f]]
    /\ IF todo = {f} THEN Finish("failed")
                     ELSE todo' = todo \ {f} /\ UNCHANGED <<pc, local, queue, reply>>
    /\ UNCHANGED <<disk, cache, op, strays, mint, boundVars, historyVars>>

\* A restore fails: the error is swallowed and the request answered, with the
\* other restores still running.
RestoreFails(f) ==
    /\ At("rollback") /\ f \in todo
    /\ local.prev[f] = None => files[Target(Doing)][f] # None
    /\ Fault /\ Finish("failed")
    /\ strays' = strays \cup Left(todo \ {f}, local.prev)
    /\ torn' = torn \cup Pair(todo)
    /\ UNCHANGED <<disk, files, cache, op, mint, edits, crashes, raced, before, sent>>

\* commitApplication: rm -r of the folder of the record it could not save.
WipeFolder ==
    /\ At("wipe")
    /\ \/ /\ files' = [files EXCEPT ![Target(Doing)] = EmptyFolder]
          /\ Finish("failed") /\ UNCHANGED <<faults, torn>>
       \/ /\ Fault /\ files[Target(Doing)] # EmptyFolder
          /\ torn' = torn \cup Pair(Touched(local.put))
          /\ Finish("folderKept") /\ UNCHANGED files
    /\ UNCHANGED <<disk, cache, op, strays, mint, edits, crashes, raced, before, sent>>

\* An operation nobody awaits any more takes effect, or fails unseen.
StrayLands(t) ==
    /\ t \in strays /\ strays' = strays \ {t}
    /\ \/ /\ files' = [files EXCEPT ![t.id][t.file] = t.bytes]
          /\ torn' = IF pc = "rollback" /\ <<t.id, t.file>> \in Pair(todo) THEN torn
                     ELSE torn \cup {<<t.id, t.file>>}
       \/ UNCHANGED <<files, torn>>
    /\ UNCHANGED <<disk, cache, queue, op, reply, taskVars, mint, boundVars,
                   raced, before, sent>>

-----------------------------------------------------------------------------
(* Writing the tracker *)

\* assertTrackerCapacity, then a temporary file renamed over applications.json.
WriteTracker ==
    /\ At("write") /\ ~OverCapacity(local.next)
    /\ disk' = [ident |-> mint + 1, form |-> "current", recs |-> local.next, bad |-> {}]
    /\ mint' = mint + 1
    /\ local' = [local EXCEPT !.written = mint + 1]
    /\ torn' = torn \ {<<Target(Doing), f>> : f \in {g \in Touched(local.put) :
                           files[Target(Doing)][g] = local.put[g]}}
    /\ pc' = "confirm"
    /\ UNCHANGED <<files, cache, queue, op, reply, todo, strays, boundVars, raced, before, sent>>

\* The write fails before its rename: an upgrade serves the migrated records
\* from memory, any other task is undone.
WriteFails ==
    /\ At("write")
    /\ \/ OverCapacity(local.next) /\ UNCHANGED faults
       \/ Fault
    /\ IF local.upgrade
       THEN RememberAndReturn(local.seen, local.next, FALSE)
       ELSE Undo /\ UNCHANGED <<op, cache, mint>>
    /\ UNCHANGED <<disk, files, strays, edits, crashes, historyVars>>

\* Mutant: the file is taken for this write's own without a second stat.
ConfirmedBlindly == TRUE

\* The file on disk is still the one this write renamed into place.
Confirmed == disk.ident = local.written
Deleted == Held(local.recs) \ Held(local.next)

AfterWrite ==
    IF local.upgrade THEN pc' = "wait" /\ local' = NoLocal /\ UNCHANGED <<queue, reply, todo>>
    ELSE IF Deleted # {}
         THEN pc' = "trash" /\ todo' = Deleted /\ UNCHANGED <<local, queue, reply>>
    ELSE Finish("ok")

\* The stat after the rename: cache the tracker under a new revision, or forget
\* the cache and answer without one.
Confirm ==
    /\ At("confirm")
    /\ AfterWrite
    /\ \/ /\ Confirmed
          /\ Remember(disk.ident, local.next, FALSE)
          /\ sent' = IF local.upgrade THEN sent
                     ELSE sent \cup {[revision |-> mint + 1, recs |-> local.next]}
          /\ UNCHANGED faults
       \/ /\ (~Confirmed /\ UNCHANGED faults) \/ Fault
          /\ cache' = NoCache /\ UNCHANGED <<mint, sent>>
    /\ UNCHANGED <<disk, files, op, strays, edits, crashes, torn, raced, before>>

\* trashApplicationFiles, one deleted record after the other: its folder leaves,
\* or the error is swallowed and it stays.
TrashFolder(i) ==
    /\ At("trash") /\ i \in todo
    /\ \/ files' = [files EXCEPT ![i] = EmptyFolder] /\ UNCHANGED faults
       \/ Fault /\ UNCHANGED files
    /\ IF todo = {i} THEN Finish("ok")
                     ELSE todo' = todo \ {i} /\ UNCHANGED <<pc, local, queue, reply>>
    /\ UNCHANGED <<disk, cache, op, strays, mint, edits, crashes, historyVars>>

-----------------------------------------------------------------------------
(* The environment *)

\* Another program changes applications.json: rewrites it as it was, revises,
\* damages or corrupts a record or the file, removes it, or repairs it.
OutsideEdit(form) ==
    /\ edits < MaxEdits /\ edits' = edits + 1
    /\ form \in EditForms
    /\ LET touched == [disk EXCEPT !.ident = mint + 1] IN
       CASE form = "touch" -> disk.form # "missing" /\ disk' = touched
         [] form = "revise" -> /\ disk.form = "current"
                               /\ \E i \in Held(disk.recs) :
                                     disk' = [touched EXCEPT !.recs[i].rev = mint + 1]
         [] form = "damage" -> /\ disk.form \in {"current", "older"}
                               /\ \E i \in Held(disk.recs) :
                                     disk' = [touched EXCEPT !.bad = @ \cup {i}]
         [] form = "corrupt" -> disk.form = "current" /\ disk' = [touched EXCEPT !.form = "corrupt"]
         [] form = "remove" -> /\ disk.form # "missing"
                               /\ disk' = [ident |-> 0, form |-> "missing",
                                           recs |-> EmptyTracker, bad |-> {}]
         [] form = "repair" -> /\ disk.form = "corrupt" \/ disk.bad # {}
                               /\ disk' = [touched EXCEPT !.bad = {},
                                           !.form = IF @ = "corrupt" THEN "current" ELSE @]
    /\ mint' = mint + 1
    /\ raced' = (raced \/ pc \notin {"wait", "read"})
    /\ UNCHANGED <<files, cache, queue, op, reply, taskVars, strays, faults, crashes,
                   torn, before, sent>>

\* The task has begun to change files and has not yet renamed the tracker.
HalfDone == pc \in {"files", "rollback", "wipe", "write"}

\* The process dies and is started again; nothing repairs the folders.
Crash ==
    /\ crashes < MaxCrashes /\ crashes' = crashes + 1
    /\ cache' = NoCache
    /\ queue' = <<>>
    /\ reply' = [r \in Requests |-> IF reply[r] = "queued" THEN "lost" ELSE reply[r]]
    /\ pc' = "wait" /\ local' = NoLocal /\ todo' = {} /\ strays' = {}
    /\ torn' = torn \cup {<<t.id, t.file>> : t \in strays}
                    \cup (IF HalfDone THEN Pair(Touched(local.put)) ELSE {})
    /\ UNCHANGED <<disk, files, op, mint, edits, faults, raced, before, sent>>

-----------------------------------------------------------------------------
TaskStep ==
    \/ TakeLock \/ ReadFile
    \/ AnswerList \/ RefuseUnreadable \/ AnswerWithoutWriting \/ Begin
    \/ \E f \in Files : WriteFile(f) \/ RestoreFile(f)
    \/ WipeFolder \/ WriteTracker \/ Confirm \/ WriteFails
    \/ \E i \in Ids : TrashFolder(i)

FaultStep ==
    \/ ReadFails \/ PreviousReadFails
    \/ \E f \in Files : FileFails(f) \/ RestoreFails(f)
    \/ \E t \in strays : StrayLands(t)

Environment == Crash \/ \E form \in EditForms : OutsideEdit(form)

Next ==
    \/ \E r \in Requests : Submit(r)
    \/ TaskStep \/ FaultStep \/ Environment

Spec == Init /\ [][Next]_vars

\* The event loop runs the task at the head of the queue: every await settles,
\* with a result or an error.
FairSpec == Spec /\ WF_vars(TaskStep)

-----------------------------------------------------------------------------
(* Properties *)

Answers == {"none", "queued", "ok", "unchanged", "notModified", "refused", "failed",
            "folderKept", "lost"}
Phases == {"wait", "read", "loaded", "files", "rollback", "wipe", "write", "confirm", "trash"}
Stray == [id : Ids, file : Files, bytes : Bytes \cup {None}]

StoresOK ==
    disk \in Disk /\ files \in [Ids -> Folder] /\ cache \in Cache /\ strays \subseteq Stray
RequestsOK ==
    queue \in Seq(Requests) /\ op \in [Requests -> Request] /\ reply \in [Requests -> Answers]
TaskOK ==
    /\ pc \in Phases /\ local \in Local
    /\ todo \subseteq IF pc = "trash" THEN Ids ELSE Files
HistoryOK ==
    /\ mint \in Nat /\ edits \in Nat /\ faults \in Nat /\ crashes \in Nat
    /\ torn \subseteq Ids \X Files /\ raced \in BOOLEAN /\ before \in [Ids -> Folder]
    /\ sent \subseteq [revision : Nat, recs : Tracker]

\* Every variable ranges over the values the code can store in it.
TypeOK == StoresOK /\ RequestsOK /\ TaskOK /\ HistoryOK

\* A cached snapshot is served only while the file keeps the identity it was
\* read under (storage.ts, comment at 57): whenever the identities agree, the
\* cached records are the ones a fresh read of the file would return.
CacheTruth ==
    CacheHit => /\ cache.recs = Readable(disk)
                /\ (cache.invalid <=> disk.bad # {})

\* File bytes and tracker metadata form one transaction (documentService.ts 62):
\* a document the tracker describes is in its folder with those bytes, except
\* while a task is half way, and except where a crash, a failed rollback or an
\* operation that outlived its request left the folder torn.
TrackedFilesOnDisk ==
    \A i \in Ids, f \in Files :
        \/ disk.recs[i].docs[f] \in {None, files[i][f]}
        \/ <<i, f>> \in torn
        \/ HalfDone /\ <<i, f>> \in Pair(Touched(local.put))

\* The revision names one validated tracker state (trackerRoutes.ts 42): when a
\* client is told 304, the tracker it got with that revision, from a list or
\* from a save, is what the file holds, unless another program edited the file
\* after the task that answers had read it.
NotModifiedIsTrue ==
    [][\A r \in Requests :
          reply[r] = "queued" /\ reply'[r] = "notModified" /\ ~raced =>
              \A e \in sent : e.revision = op[r].known => e.recs = Readable(disk)]_vars

ServerWrites == disk' # disk /\ edits' = edits

WritesWhatWasAsked ==
    ServerWrites /\ ~raced =>
       \A i \in Ids : disk'.recs[i] # Readable(disk)[i] =>
          /\ i \in Doing.upserts \cup Doing.deletes
          /\ \/ Doing.base[i] = disk.recs[i].rev
             \/ Doing.base[i] = 0 /\ Doing.kind \in {"submit", "update"}

\* No lost update: a write of the server changes only the records its request
\* names, and, when the request sent a revision, only from the revision it
\* sent, unless another program edited the file after the task had read it.
NoLostUpdate == [][WritesWhatWasAsked]_vars

WritesOverReadable == ServerWrites /\ ~raced => disk.form # "corrupt" /\ disk.bad = {}

\* A file with a record RoleFit cannot read, or that does not parse, is never
\* rewritten by the server, so no write can erase what a repair would recover,
\* except damage that another program did after the task had read the file: the
\* rename replaces the file without looking at it again.
UnreadableKept == [][WritesOverReadable]_vars

\* A request answered as refused or failed leaves every document as it was when
\* its task began, except the files known to be torn.
FailureLeavesNoTrace ==
    [][\A r \in Requests :
          reply[r] = "queued" /\ reply'[r] \in {"refused", "failed"} =>
             \A i \in Ids, f \in Files : <<i, f>> \in torn' \/ files'[i][f] = before'[i][f]]_vars

\* The chain never stalls: every request is answered, or lost to a crash,
\* whatever fails on the way (storage.ts 48-51 keeps the queue alive).
EveryRequestAnswered ==
    \A r \in Requests : reply[r] = "queued" ~> reply[r] # "queued"

\* What documentRoutes.ts 139 answers: "Saving the document failed. No file was
\* replaced."
FailedDocumentSaveReplacesNothing ==
    [][\A r \in Requests :
          reply[r] = "queued" /\ reply'[r] = "failed" /\ op[r].kind = "document" =>
             files' = before]_vars
-----------------------------------------------------------------------------
(* The promise of AtomicTracker.  The change of a request is its rename, and   *)
(* the upgrade of a version 0 file changes nothing a client can read.          *)

Renamed(r) == queue # <<>> /\ r = Me /\ pc \in {"confirm", "trash"} /\ ~local.upgrade
AnswerOf(r) ==
    CASE reply[r] = "none"   -> "idle"
      [] reply[r] = "queued" -> IF Renamed(r) THEN "changed" ELSE "asked"
      [] reply[r] = "lost"   -> "lost"
      [] reply[r] = "ok" /\ op[r].kind # "list" /\ ~op[r].dry -> "saved"
      [] OTHER -> "kept"

Atomic == INSTANCE AtomicTracker WITH
    Trackers <- Tracker,
    tracker  <- Readable(disk),
    ask      <- [r \in Requests |-> [named  |-> op[r].upserts \cup op[r].deletes,
                                     base   |-> op[r].base,
                                     strict |-> op[r].kind \notin {"submit", "update"}]],
    state    <- [r \in Requests |-> AnswerOf(r)],
    told     <- {e.recs : e \in sent}

\* As long as no other program edits applications.json, the routes keep the
\* promise of one atomic tracker, whatever fails half way: a request answered as
\* failed or refused has changed no record, one answered as saved changed only
\* the records it named, once, from the revisions it sent, and every tracker an
\* answer carries, cached or read, is one the file held while that request ran.
TrackerIsAtomic == Atomic!Spec
=============================================================================
