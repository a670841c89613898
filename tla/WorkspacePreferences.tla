------------------------ MODULE WorkspacePreferences ------------------------
(***************************************************************************)
(* The workspace's preferences file (server/workspacePreferences.ts) and   *)
(* the tabs that keep it (src/lib/workspacePreferencesSync.ts): each tab   *)
(* changes settings at once, writes them back after a delay against the    *)
(* revision it knows, rebases what the server refuses, and takes over the  *)
(* file when it starts or gets the focus.  Browser storage, shared by the  *)
(* tabs, keeps a cache of the settings, the edits not written yet and the  *)
(* last restore taken over.                                                *)
(*                                                                         *)
(* The value of a setting is the number of the edit that made it (0: never *)
(* edited), so that the properties can say whose edit a step removes.  The *)
(* last base resume is one of the settings.                                *)
(***************************************************************************)
EXTENDS Naturals, FiniteSets

CONSTANTS
    Tabs,             \* tabs of one browser
    Keys,             \* settings
    Mine,             \* the settings the user changes in each tab
    Slots,            \* pushes a tab may have under way at once
    HoldsPreferences, \* the restored backup holds preferences
    MaxEdits,         \* bound on edits, by tabs and by other clients
    MaxOpens,         \* bound on tabs opened
    MaxFocus,         \* bound on focus events
    MaxFaults,        \* bound on failed or late requests and damaged files
    MaxRestores,      \* bound on restores
    MaxMoves          \* bound on all of these together

ASSUME PreferencesAssumption ==
    /\ Mine \in [Tabs -> SUBSET Keys]
    /\ HoldsPreferences \in BOOLEAN
    /\ {MaxEdits, MaxOpens, MaxFocus, MaxFaults, MaxRestores, MaxMoves} \subseteq Nat

-----------------------------------------------------------------------------
Edits == 1 .. MaxEdits
Settings == [Keys -> 0 .. MaxEdits]
Default == [k \in Keys |-> 0]

\* What a write carries: the settings, the revision they were based on (0: none
\* known) and, as history, the settings the tab's user had changed and whether the
\* tab had ever two pushes under way.
Post == [posted : Settings, dirty : SUBSET Keys, base : Nat, crossed : BOOLEAN]

\* What a read returns: the file and the generation of the last restore.
Snapshot == [state : {"ok", "missing", "invalid"}, val : Settings, rev : Nat, stamp : Nat]
NoSnapshot == [state |-> "missing", val |-> Default, rev |-> 0, stamp |-> 0]

\* A push: its request, and what follows when it ends: nothing, a read when it
\* saved and another push when it failed (adopt), or only the latter (again).
\* old: sent before the running timer was set.
Push == [phase : {"none", "sent", "refused", "answered"}, attempt : 1 .. 2, old : BOOLEAN,
         then : {"stop", "adopt", "again"}, post : Post,
         result : {"none", "saved", "failed", "stale"}, rev : Nat, current : Snapshot]
NoPush == [phase |-> "none", attempt |-> 1, old |-> FALSE, then |-> "stop",
           post |-> [posted |-> Default, dirty |-> {}, base |-> 0, crossed |-> FALSE],
           result |-> "none", rev |-> 0, current |-> NoSnapshot]

Get == [phase : {"none", "sent", "answered"}, old : BOOLEAN, current : Snapshot]
NoGet == [phase |-> "none", old |-> FALSE, current |-> NoSnapshot]
Asked == [NoGet EXCEPT !.phase = "sent"]

Tab == [open : BOOLEAN, mounted : BOOLEAN, known : Settings, dirty : SUBSET Keys,
        base : Nat, baseline : Nat, timer : BOOLEAN,
        status : {"idle", "saving", "saved", "error"}, push : [Slots -> Push], get : Get,
        crossed : BOOLEAN]
Closed == [open |-> FALSE, mounted |-> FALSE, known |-> Default, dirty |-> {},
           base |-> 0, baseline |-> 0, timer |-> FALSE, status |-> "idle",
           push |-> [s \in Slots |-> NoPush], get |-> NoGet,
           crossed |-> FALSE]

\* Edits not written yet, and the restore they were made after.
PendingEdits == [stamp : Nat, edits : UNION {[K -> Edits] : K \in SUBSET Keys}]
NoEdits == [stamp |-> 0, edits |-> <<>>]
Storage == [cache : Settings, adopted : Nat, pending : PendingEdits]

VARIABLES
    file,      \* workspace-preferences.json
    revs,      \* revisions made so far
    marker,    \* the generation of the last restore
    storage,   \* the browser storage the tabs share
    tab,       \* each tab's module variables and requests
    net,       \* posts nobody waits for any more
    edits, opens, focuses, faults,   \* counters
    unsaved,   \* history: edits made while no other tab had one of the setting, and never
               \* written, changed again or restored over
    born       \* history: the restore generation each edit's tab knew

counters == <<edits, opens, focuses, faults>>
history == <<unsaved, born>>
vars == <<file, revs, marker, storage, tab, net, counters, history>>

Init ==
    /\ \E state \in {"ok", "missing"} :
           file = [state |-> state, val |-> Default, rev |-> IF state = "ok" THEN 1 ELSE 0]
    /\ revs = file.rev
    /\ marker = 0
    /\ storage = [cache |-> Default, adopted |-> 0, pending |-> NoEdits]
    /\ tab = [t \in Tabs |-> Closed]
    /\ net = {}
    /\ edits = 0 /\ opens = 0 /\ focuses = 0 /\ faults = 0
    /\ unsaved = {}
    /\ born = [e \in Edits |-> 0]

MayMove == edits + opens + focuses + faults + marker < MaxMoves
Fault == faults < MaxFaults /\ MayMove /\ faults' = faults + 1
NewEdit == edits < MaxEdits /\ MayMove /\ edits' = edits + 1

-----------------------------------------------------------------------------
(* Browser storage *)

\* readPendingEdits: edits made before the last adopted restore do not count.
Recorded(st) == IF st.pending.stamp = st.adopted THEN st.pending.edits ELSE <<>>
Record(st, new) ==
    [st EXCEPT !.pending = IF DOMAIN new = {} THEN NoEdits
                           ELSE [stamp |-> st.adopted, edits |-> new]]

\* recordPendingEdits: what this tab has pending joins what the others have.
RecordAlone(st, tb) == Record(st, [k \in tb.dirty |-> tb.known[k]])
RecordMerged(st, tb) ==
    IF tb.baseline # st.adopted THEN st
    ELSE LET old == Recorded(st)
         IN  Record(st, [k \in DOMAIN old \cup tb.dirty |->
                            IF k \in tb.dirty THEN tb.known[k] ELSE old[k]])

\* writeAdoptedRestoreStamp.
Adopted(st, stamp) ==
    LET next == [st EXCEPT !.adopted = stamp]
    IN  Record(next, Recorded(next))

-----------------------------------------------------------------------------
(* Taking over what the server holds; each returns the tab and the storage *)

\* decideAdoption: the snapshot names a restore this browser has not adopted.
UnseenRestore(st, server) == server.stamp # 0 /\ server.stamp # st.adopted

ApplyCanonical(tb, st, settings, server) ==
    LET cached == [st EXCEPT !.cache = settings]
    IN  [tab |-> [tb EXCEPT !.known = settings, !.base = server.rev,
                            !.baseline = IF server.stamp # 0 THEN server.stamp ELSE @],
         storage |-> IF UnseenRestore(st, server) THEN Adopted(cached, server.stamp) ELSE cached]

\* rebaseSettings: the newer record wins except for what this user changed.
RebaseNothing(server, tb) == tb.known
Rebased(server, tb) ==
    [k \in Keys |-> IF k \in tb.dirty THEN tb.known[k] ELSE server.val[k]]

\* A restore this tab has not seen replaces what it has pending, even when
\* another tab has adopted it.
UnseenByBrowser(tb, st, server) == UnseenRestore(st, server)
UnseenByTab(tb, st, server) ==
    UnseenRestore(st, server) \/ (server.stamp # 0 /\ server.stamp # tb.baseline)

\* rebaseOntoServer.
RebaseOntoServer(tb, st, server) ==
    IF server.state = "missing"
    THEN [tab |-> [tb EXCEPT !.base = 0], storage |-> st]
    ELSE IF UnseenByTab(tb, st, server)
    THEN ApplyCanonical([tb EXCEPT !.dirty = {}], Record(st, Recorded(st)), server.val, server)
    ELSE ApplyCanonical(tb, st, Rebased(server, tb), server)

-----------------------------------------------------------------------------
(* Pushes *)

Sent(tb, attempt, then) ==
    [NoPush EXCEPT !.phase = "sent", !.attempt = attempt, !.then = then,
                   !.post = [posted |-> tb.known, dirty |-> tb.dirty, base |-> tb.base,
                             crossed |-> tb.crossed]]
Free(tb, s) == tb.push[s].phase = "none"
Pushing(tb, s, then) ==
    LET next == [tb EXCEPT !.timer = FALSE, !.crossed = @ \/ \E r \in Slots : ~Free(tb, r)]
    IN  [next EXCEPT !.push[s] = Sent(next, 1, then)]

\* scheduleWorkspacePreferencesPush.  A request is aborted after as long as the
\* timer runs, so none that is under way now still is when it fires.
Schedule(tb) ==
    [tb EXCEPT !.timer = TRUE, !.status = "saving",
               !.push = [s \in Slots |-> [tb.push[s] EXCEPT !.old = ~Free(tb, s)]],
               !.get.old = tb.get.phase # "none"]

\* A refused write is tried again once.
RetryAlways(push) == FALSE
LastAttempt(push) == push.attempt = 2

\* The push returns false.  An adoption's push is tried again later.
FailedQuietly(tb, s) == [tb EXCEPT !.push[s] = NoPush]
Failed(tb, s) ==
    LET ended == [tb EXCEPT !.push[s] = NoPush, !.status = "error"]
    IN  IF tb.push[s].then = "stop" THEN ended ELSE Schedule(ended)

\* The push returns true.  An adoption goes on to read the file.
Done(tb, s) ==
    [tb EXCEPT !.push[s] = NoPush, !.status = "saved",
               !.get = IF tb.push[s].then = "adopt" THEN Asked ELSE @]

\* releasePostedEdits: only edits that still hold the value sent.
StillPosted(tb, posted) == {k \in tb.dirty : tb.known[k] = posted[k]}
Released(st, tb, posted) ==
    LET old == Recorded(st)
        kept == {k \in DOMAIN old : k \in StillPosted(tb, posted) => old[k] # posted[k]}
    IN  Record(st, [k \in kept |-> old[k]])

\* adoptWorkspacePreferences: an older adoption is outdated; pending edits go
\* first.
Outdated(tb) ==
    [tb EXCEPT !.get = NoGet,
               !.push = [s \in Slots |-> IF tb.push[s].then = "adopt"
                                         THEN [tb.push[s] EXCEPT !.then = "again"]
                                         ELSE tb.push[s]]]
Adopting(tb) ==
    IF tb.timer \/ tb.dirty # {}
    THEN {Pushing(Outdated(tb), s, "adopt") : s \in {s \in Slots : Free(tb, s)}}
    ELSE {[Outdated(tb) EXCEPT !.get = Asked]}
-----------------------------------------------------------------------------
(* What happens in a tab *)

Becomes(t, tb) == tab' = [tab EXCEPT ![t] = tb]

\* The module takes up the edits a closed tab left, and the boot adoption begins.
Open(t) ==
    LET old == Recorded(storage)
        known == [k \in Keys |-> IF k \in DOMAIN old THEN old[k] ELSE storage.cache[k]]
    IN  /\ ~tab[t].open
        /\ opens < MaxOpens /\ MayMove /\ opens' = opens + 1
        /\ storage' = [Record(storage, old) EXCEPT !.cache = known]
        /\ \E tb \in Adopting([Closed EXCEPT !.open = TRUE, !.known = known,
                                  !.dirty = DOMAIN old, !.baseline = storage.adopted]) :
               Becomes(t, tb)
        /\ UNCHANGED <<file, revs, marker, net, edits, focuses, faults, history>>

\* main.tsx renders once the boot adoption has ended.
Mount(t) ==
    /\ tab[t].open /\ ~tab[t].mounted
    /\ tab[t].get.phase = "none" /\ \A s \in Slots : Free(tab[t], s)
    /\ Becomes(t, [tab[t] EXCEPT !.mounted = TRUE])
    /\ UNCHANGED <<file, revs, marker, storage, net, counters, history>>

Pending(tb) == {tb.push[s].post : s \in {s \in Slots : tb.push[s].phase = "sent"}}

\* The page and the module's memory are gone; a post under way may still arrive.
\* What the pagehide listener of useAiSettings caches is cached by Edit already.
Close(t) ==
    /\ tab[t].open
    /\ Becomes(t, Closed)
    /\ net' = net \cup Pending(tab[t])
    /\ UNCHANGED <<file, revs, marker, storage, counters, history>>

\* No other tab has an edit of the setting pending.
Alone(t, k) == \A u \in Tabs \ {t} : k \notin tab[u].dirty

\* The settings listener: the whole view goes to the cache.
Edit(t, k) ==
    LET tb == [tab[t] EXCEPT !.known[k] = edits + 1, !.dirty = @ \cup {k}]
    IN  /\ tab[t].mounted /\ k \in Mine[t]
        /\ NewEdit
        /\ Becomes(t, Schedule(tb))
        /\ storage' = RecordMerged([storage EXCEPT !.cache = tb.known], tb)
        /\ born' = [born EXCEPT ![edits + 1] = tab[t].baseline]
        /\ unsaved' = {e \in unsaved : e[1] # k}
                         \cup (IF tab[t].baseline = marker /\ Alone(t, k) THEN {<<k, edits + 1>>} ELSE {})
        /\ UNCHANGED <<file, revs, marker, net, opens, focuses, faults>>

TimerFires(t) ==
    /\ tab[t].timer
    /\ ~tab[t].get.old /\ \A s \in Slots : ~tab[t].push[s].old
    /\ \E s \in Slots : Free(tab[t], s) /\ Becomes(t, Pushing(tab[t], s, "stop"))
    /\ UNCHANGED <<file, revs, marker, storage, net, counters, history>>

Focus(t) ==
    /\ tab[t].mounted
    /\ focuses < MaxFocus /\ MayMove /\ focuses' = focuses + 1
    /\ \E tb \in Adopting(tab[t]) : Becomes(t, tb)
    /\ UNCHANGED <<file, revs, marker, storage, net, edits, opens, faults, history>>

SettleSaved(t, s) ==
    LET push == tab[t].push[s]
    IN  /\ push.phase = "answered" /\ push.result = "saved"
        /\ Becomes(t, Done([tab[t] EXCEPT !.base = push.rev,
                                !.dirty = @ \ StillPosted(tab[t], push.post.posted)], s))
        /\ storage' = Released(storage, tab[t], push.post.posted)
        /\ UNCHANGED <<file, revs, marker, net, counters, history>>

SettleFailed(t, s) ==
    /\ tab[t].push[s].phase = "answered"
    /\ tab[t].push[s].result = "failed"
           \/ (tab[t].push[s].result = "stale" /\ tab[t].push[s].current.state = "invalid")
    /\ Becomes(t, Failed(tab[t], s))
    /\ UNCHANGED <<file, revs, marker, storage, net, counters, history>>

\* One retry against the rebased revision; without pending edits there is
\* nothing left to write.
SettleStale(t, s) ==
    LET push == tab[t].push[s]
        next == RebaseOntoServer(tab[t], storage, push.current)
        write == push.current.state = "missing" \/ next.tab.dirty # {}
    IN  /\ push.phase = "answered" /\ push.result = "stale" /\ push.current.state # "invalid"
        /\ storage' = next.storage
        /\ Becomes(t, IF ~write THEN Done(next.tab, s)
                      ELSE IF LastAttempt(push) THEN Failed(next.tab, s)
                      ELSE [next.tab EXCEPT !.push[s] = Sent(next.tab, push.attempt + 1, push.then)])
        /\ UNCHANGED <<file, revs, marker, net, counters, history>>

\* The read counts only while nothing was changed meanwhile.
Quiet(tb) == ~tb.timer /\ tb.dirty = {}
FinishGet(t) ==
    LET server == tab[t].get.current
        tb == [tab[t] EXCEPT !.get = NoGet]
        known == ApplyCanonical(tb, storage, server.val, server)
    IN  /\ tab[t].get.phase = "answered"
        /\ \/ /\ ~Quiet(tb)
              /\ Becomes(t, tb) /\ UNCHANGED storage
           \/ /\ Quiet(tb) /\ server.state = "invalid"
              /\ Becomes(t, [tb EXCEPT !.status = "error"]) /\ UNCHANGED storage
           \/ /\ Quiet(tb) /\ server.state = "missing" /\ UnseenRestore(storage, server)
              /\ Becomes(t, [tb EXCEPT !.base = 0, !.baseline = server.stamp])
              /\ storage' = Adopted(storage, server.stamp)
           \/ /\ Quiet(tb) /\ server.state = "missing" /\ ~UnseenRestore(storage, server)
              \* A browser that has kept settings writes them into a new workspace.
              /\ \E tb2 \in (IF storage.cache = Default THEN {[tb EXCEPT !.base = 0]} ELSE {})
                    \cup {Pushing([tb EXCEPT !.base = 0], s, "again") : s \in {s \in Slots : Free(tb, s)}} :
                        Becomes(t, tb2)
              /\ UNCHANGED storage
           \/ /\ Quiet(tb) /\ server.state = "ok"
              /\ Becomes(t, [known.tab EXCEPT !.status = "saved"])
              /\ storage' = known.storage
        /\ UNCHANGED <<file, revs, marker, net, counters, history>>

FailGet(t) ==
    /\ tab[t].get.phase # "none" /\ Fault
    /\ Becomes(t, [tab[t] EXCEPT !.get = NoGet])
    /\ UNCHANGED <<file, revs, marker, storage, net, edits, opens, focuses, history>>

\* The request times out or fails in the browser; a post may still arrive.
FailPush(t, s) ==
    /\ tab[t].push[s].phase # "none" /\ Fault
    /\ Becomes(t, Failed(tab[t], s))
    /\ net' = IF tab[t].push[s].phase = "sent" THEN net \cup {tab[t].push[s].post} ELSE net
    /\ UNCHANGED <<file, revs, marker, storage, edits, opens, focuses, history>>

-----------------------------------------------------------------------------
(* The server *)

\* persistWorkspacePreferences: the test and the write share the lock.
BasedOnFile(post) == file.state = "missing" \/ (file.state = "ok" /\ post.base = file.rev)
Written(post) == {<<k, post.posted[k]>> : k \in Keys}
Write(post) ==
    /\ BasedOnFile(post)
    /\ file' = [state |-> "ok", val |-> post.posted, rev |-> revs + 1]
    /\ revs' = revs + 1
    /\ unsaved' = unsaved \ Written(post)

ServerWrites(t, s) ==
    LET push == tab[t].push[s]
    IN  /\ push.phase = "sent"
        /\ \/ /\ Write(push.post)
              /\ Becomes(t, [tab[t] EXCEPT !.push[s] =
                    [push EXCEPT !.phase = "answered", !.result = "saved", !.rev = revs + 1]])
           \/ /\ ~BasedOnFile(push.post)
              /\ Becomes(t, [tab[t] EXCEPT !.push[s] =
                    IF file.state = "invalid"
                    THEN [push EXCEPT !.phase = "answered", !.result = "failed"]
                    ELSE [push EXCEPT !.phase = "refused"]])
              /\ UNCHANGED <<file, revs, unsaved>>
        /\ UNCHANGED <<marker, storage, net, counters, born>>

\* readPreferencesSnapshot takes the lock again, so the file may have changed.
Current == [state |-> file.state, val |-> file.val, rev |-> file.rev, stamp |-> marker]

ServerExplains(t, s) ==
    LET push == tab[t].push[s]
    IN  /\ push.phase = "refused"
        /\ Becomes(t, [tab[t] EXCEPT !.push[s] =
              [push EXCEPT !.phase = "answered", !.result = "stale", !.current = Current]])
        /\ UNCHANGED <<file, revs, marker, storage, net, counters, history>>

ServerReads(t) ==
    /\ tab[t].get.phase = "sent"
    /\ Becomes(t, [tab[t] EXCEPT !.get.phase = "answered", !.get.current = Current])
    /\ UNCHANGED <<file, revs, marker, storage, net, counters, history>>

LatePost(post) ==
    /\ net' = net \ {post}
    /\ \/ Write(post)
       \/ ~BasedOnFile(post) /\ UNCHANGED <<file, revs, unsaved>>
    /\ UNCHANGED <<marker, storage, tab, counters, born>>

\* Another browser, or the MCP server, writes from the current revision.
SavedElsewhere(k) ==
    /\ file.state = "ok"
    /\ NewEdit
    /\ file' = [file EXCEPT !.val[k] = edits + 1, !.rev = revs + 1]
    /\ revs' = revs + 1
    /\ born' = [born EXCEPT ![edits + 1] = marker]
    /\ UNCHANGED <<marker, storage, tab, net, opens, focuses, faults, unsaved>>

\* Another program leaves a file that does not parse.
Damage ==
    /\ file.state = "ok" /\ Fault
    /\ file' = [file EXCEPT !.state = "invalid"]
    /\ UNCHANGED <<revs, marker, storage, tab, net, edits, opens, focuses, history>>

\* A restore puts the backup's preferences, or none, in place of the file.
Restore ==
    /\ marker < MaxRestores /\ MayMove /\ marker' = marker + 1
    /\ file' = IF HoldsPreferences
               THEN [state |-> "ok", val |-> Default, rev |-> revs + 1]
               ELSE [state |-> "missing", val |-> Default, rev |-> 0]
    /\ revs' = revs + 1
    /\ unsaved' = {}
    /\ UNCHANGED <<storage, tab, net, counters, born>>

-----------------------------------------------------------------------------
(* The system *)

TabStep(t) ==
    \/ Mount(t) \/ TimerFires(t) \/ FinishGet(t) \/ ServerReads(t)
    \/ \E s \in Slots :
           \/ SettleSaved(t, s) \/ SettleFailed(t, s) \/ SettleStale(t, s)
           \/ ServerWrites(t, s) \/ ServerExplains(t, s)

User(t) == Open(t) \/ Close(t) \/ Focus(t) \/ \E k \in Keys : Edit(t, k)

Environment ==
    \/ Damage \/ Restore
    \/ \E k \in Keys : SavedElsewhere(k)
    \/ \E post \in net : LatePost(post)
    \/ \E t \in Tabs : FailGet(t) \/ \E s \in Slots : FailPush(t, s)

Next == Environment \/ \E t \in Tabs : TabStep(t) \/ User(t)

Spec == Init /\ [][Next]_vars

-----------------------------------------------------------------------------
(* Properties *)

\* Type correctness of the file, the storage, the tabs and their requests; and at
\* most one adoption of a tab is still to take over what it reads.
TypeOK ==
    /\ file \in [state : {"ok", "missing", "invalid"}, val : Settings, rev : Nat]
    /\ revs \in Nat /\ marker \in Nat
    /\ storage \in Storage
    /\ tab \in [Tabs -> Tab]
    /\ \A t \in Tabs : Cardinality({s \in Slots : tab[t].push[s].then = "adopt"})
                          + (IF tab[t].get.phase = "none" THEN 0 ELSE 1) <= 1
    /\ net \subseteq Post
    /\ {edits, opens, focuses, faults} \subseteq Nat
    /\ unsaved \subseteq Keys \X Edits
    /\ born \in [Edits -> Nat]

Posts == net \cup UNION {Pending(tab[t]) : t \in Tabs}

\* workspacePreferencesSync.ts 4-5: each write names the revision it was based on,
\* so a client never replaces a newer record it has not seen.  A write changes
\* nothing but what the user of its tab changed.
Overreaches(post) ==
    /\ file.state = "ok" /\ file'.rev # file.rev
    /\ \E k \in Keys \ post.dirty : file'.val[k] # file.val[k]
NoUnseenOverwrite == [][\A post \in Posts \ Posts' : ~Overreaches(post)]_vars

\* The same of every tab whose pushes were one after the other, whatever else was
\* late, lost, refused or restored with preferences in it.
NoUnseenOverwriteInTurn ==
    [][\A post \in Posts \ Posts' : HoldsPreferences /\ ~post.crossed => ~Overreaches(post)]_vars

\* A restored workspace that holds preferences is not changed by what was edited
\* before the restore: a write brings in no edit of a tab that did not know the
\* restore yet.
RestoreWins ==
    [][\A post \in Posts \ Posts' : HoldsPreferences /\ file'.rev # file.rev =>
        \A k \in post.dirty : file'.val[k] # file.val[k] /\ file'.val[k] # 0
            => born[file'.val[k]] = marker]_vars

\* The latest edit of each setting that no write has carried is still pending, in
\* an open tab or in browser storage: closing tabs, failed writes, refused writes
\* and reads never drop it.  (Of an edit made while another tab had an older one
\* pending this is not so: that tab may record its own over it.)
NoEditForgotten ==
    \A e \in unsaved :
        \/ \E t \in Tabs : e[1] \in tab[t].dirty /\ tab[t].known[e[1]] = e[2]
        \/ e[1] \in DOMAIN Recorded(storage) /\ Recorded(storage)[e[1]] = e[2]

\* An edit that is not written and that nothing is going to write is not shown as
\* saved.
PendingIsShown ==
    \A t \in Tabs : tab[t].dirty # {} =>
        \/ tab[t].timer \/ \E s \in Slots : ~Free(tab[t], s)
        \/ tab[t].status = "error"
=============================================================================
