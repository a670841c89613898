--------------------- MODULE WorkspacePreferences_proofs ---------------------
(***************************************************************************)
(* Proofs about WorkspacePreferences, for any number of tabs, settings and *)
(* pushes, any edits, and any failed, late or lost request.                *)
(***************************************************************************)
EXTENDS WorkspacePreferences, FiniteSetTheorems, TLAPS

-----------------------------------------------------------------------------
(* The strengthening: each tab by itself                                     *)

\* At most one adoption of a tab is still to take over what it reads.
OneAdoption(tb) ==
    /\ \A r, s \in Slots : tb.push[r].then = "adopt" /\ tb.push[s].then = "adopt" => r = s
    /\ \A s \in Slots : tb.push[s].then = "adopt" => tb.get.phase = "none"

\* A push sent since the timer was set.
Fresh(tb, s) == ~Free(tb, s) /\ ~tb.push[s].old

\* A fresh push carries every pending edit as it is now.
FreshCarries(tb) ==
    \A s \in Slots : Fresh(tb, s) => \A k \in tb.dirty : tb.push[s].post.posted[k] = tb.known[k]

\* Who writes the pending edits: the timer, an adoption's push, whose failure sets
\* the timer, or else only fresh pushes; when there is none, the tab shows an error.
Waits(tb) ==
    \/ tb.dirty = {} \/ tb.timer
    \/ \E s \in Slots : Fresh(tb, s) /\ tb.push[s].then # "stop"
    \/ /\ \A s \in Slots : Free(tb, s) \/ Fresh(tb, s)
       /\ (\E s \in Slots : Fresh(tb, s)) \/ tb.status = "error"

TabTyped(tb) == tb \in Tab /\ \A k \in tb.dirty : tb.known[k] \in Edits
TabGood(tb) == TabTyped(tb) /\ OneAdoption(tb) /\ FreshCarries(tb) /\ Waits(tb)

\* The counters and everything the tabs share.
SharedTyped ==
    /\ file \in [state : {"ok", "missing", "invalid"}, val : Settings, rev : Nat]
    /\ revs \in Nat /\ marker \in Nat
    /\ storage \in Storage
    /\ net \subseteq Post
    /\ edits \in Nat /\ opens \in Nat /\ focuses \in Nat /\ faults \in Nat
    /\ unsaved \subseteq Keys \X Edits
    /\ born \in [Edits -> Nat]

TypeInv ==
    /\ SharedTyped
    /\ tab \in [Tabs -> Tab]
    /\ \A t \in Tabs : TabGood(tab[t])

-----------------------------------------------------------------------------
(* Browser storage                                                           *)

LEMMA PendingFunction ==
    ASSUME NEW f, NEW K \in SUBSET Keys, f \in [K -> Edits]
    PROVE  f \in UNION {[J -> Edits] : J \in SUBSET Keys}
OBVIOUS

LEMMA PendingDomain ==
    ASSUME NEW f \in UNION {[J -> Edits] : J \in SUBSET Keys}
    PROVE  DOMAIN f \in SUBSET Keys /\ f \in [DOMAIN f -> Edits]
<1>1. PICK K \in SUBSET Keys : f \in [K -> Edits]
  OBVIOUS
<1> QED BY <1>1

LEMMA NothingPending == <<>> \in UNION {[J -> Edits] : J \in SUBSET Keys} /\ DOMAIN <<>> = {}
<1>1. <<>> \in [{} -> Edits] /\ DOMAIN <<>> = {}
  OBVIOUS
<1> QED BY <1>1, PendingFunction

LEMMA RecordedTyped ==
    ASSUME NEW st \in Storage
    PROVE  /\ Recorded(st) \in UNION {[J -> Edits] : J \in SUBSET Keys}
           /\ DOMAIN Recorded(st) \in SUBSET Keys
           /\ Recorded(st) \in [DOMAIN Recorded(st) -> Edits]
<1>1. Recorded(st) \in UNION {[J -> Edits] : J \in SUBSET Keys}
  BY NothingPending DEF Storage, PendingEdits, Recorded
<1> QED BY <1>1, PendingDomain

LEMMA RecordTyped ==
    ASSUME NEW st \in Storage, NEW new \in UNION {[J -> Edits] : J \in SUBSET Keys}
    PROVE  Record(st, new) \in Storage /\ Record(st, new).cache = st.cache
           /\ Record(st, new).adopted = st.adopted
BY NothingPending DEF Storage, PendingEdits, Record, NoEdits

LEMMA AdoptedTyped ==
    ASSUME NEW st \in Storage, NEW stamp \in Nat
    PROVE  Adopted(st, stamp) \in Storage
<1> DEFINE next == [st EXCEPT !.adopted = stamp]
<1>1. next \in Storage
  BY DEF Storage
<1> QED BY <1>1, RecordedTyped, RecordTyped DEF Adopted

LEMMA MergedTyped ==
    ASSUME NEW st \in Storage, NEW tb, TabTyped(tb)
    PROVE  RecordMerged(st, tb) \in Storage
<1> DEFINE old == Recorded(st)
           new == [k \in DOMAIN old \cup tb.dirty |-> IF k \in tb.dirty THEN tb.known[k] ELSE old[k]]
<1>1. DOMAIN old \cup tb.dirty \in SUBSET Keys
  BY RecordedTyped DEF TabTyped, Tab
<1>2. new \in [DOMAIN old \cup tb.dirty -> Edits]
  BY RecordedTyped DEF TabTyped
<1>3. new \in UNION {[J -> Edits] : J \in SUBSET Keys}
  BY <1>1, <1>2, PendingFunction
<1> QED BY <1>3, RecordTyped DEF RecordMerged

LEMMA ReleasedTyped ==
    ASSUME NEW st \in Storage, NEW tb, NEW posted
    PROVE  Released(st, tb, posted) \in Storage
<1> DEFINE old == Recorded(st)
           kept == {k \in DOMAIN old : k \in StillPosted(tb, posted) => old[k] # posted[k]}
           new == [k \in kept |-> old[k]]
<1>1. kept \in SUBSET Keys /\ new \in [kept -> Edits]
  BY RecordedTyped
<1>2. new \in UNION {[J -> Edits] : J \in SUBSET Keys}
  BY <1>1, PendingFunction
<1> QED BY <1>2, RecordTyped DEF Released

-----------------------------------------------------------------------------
(* What a tab does with its pushes                                           *)

LEMMA NoPushTyped ==
    /\ Default \in Settings /\ NoSnapshot \in Snapshot /\ NoPush \in Push
    /\ NoGet \in Get /\ Asked \in Get
    /\ NoPush.phase = "none" /\ NoPush.then = "stop" /\ NoGet.phase = "none"
<1>1. MaxEdits \in Nat
  BY PreferencesAssumption
<1>2. Default \in Settings
  BY <1>1 DEF Default, Settings
<1>3. NoSnapshot \in Snapshot
  BY <1>2 DEF NoSnapshot, Snapshot
<1>4. [posted |-> Default, dirty |-> {}, base |-> 0, crossed |-> FALSE] \in Post
  BY <1>2 DEF Post
<1>5. NoPush \in Push /\ NoPush.phase = "none" /\ NoPush.then = "stop"
  BY <1>3, <1>4 DEF NoPush, Push
<1>6. NoGet \in Get /\ Asked \in Get /\ NoGet.phase = "none"
  BY <1>3 DEF NoGet, Asked, Get
<1> QED BY <1>2, <1>3, <1>5, <1>6

LEMMA SentTyped ==
    ASSUME NEW tb \in Tab, NEW attempt \in 1 .. 2, NEW then \in {"stop", "adopt", "again"}
    PROVE  /\ Sent(tb, attempt, then) \in Push
           /\ Sent(tb, attempt, then).phase = "sent" /\ Sent(tb, attempt, then).then = then
           /\ ~Sent(tb, attempt, then).old /\ Sent(tb, attempt, then).attempt = attempt
           /\ Sent(tb, attempt, then).post.posted = tb.known
           /\ Sent(tb, attempt, then).post.dirty = tb.dirty
           /\ Sent(tb, attempt, then).post.base = tb.base
           /\ Sent(tb, attempt, then).post.crossed = tb.crossed
<1>1. [posted |-> tb.known, dirty |-> tb.dirty, base |-> tb.base, crossed |-> tb.crossed] \in Post
  BY DEF Tab, Post
<1>2. NoPush \in Push
  BY NoPushTyped
<1> QED BY <1>1, <1>2 DEF Sent, NoPush, Push

\* The parts of a tab's type that the steps below touch.
LEMMA TabParts ==
    ASSUME NEW tb
    PROVE  tb \in Tab <=>
           /\ tb = [open |-> tb.open, mounted |-> tb.mounted, known |-> tb.known, dirty |-> tb.dirty,
                    base |-> tb.base, baseline |-> tb.baseline, timer |-> tb.timer,
                    status |-> tb.status, push |-> tb.push, get |-> tb.get, crossed |-> tb.crossed]
           /\ tb.open \in BOOLEAN /\ tb.mounted \in BOOLEAN /\ tb.known \in Settings
           /\ tb.dirty \in SUBSET Keys /\ tb.base \in Nat /\ tb.baseline \in Nat
           /\ tb.timer \in BOOLEAN /\ tb.status \in {"idle", "saving", "saved", "error"}
           /\ tb.push \in [Slots -> Push] /\ tb.get \in Get /\ tb.crossed \in BOOLEAN
BY DEF Tab

\* A push with everything in front of it.
LEMMA PushingGood ==
    ASSUME NEW tb, TabTyped(tb), FreshCarries(tb), OneAdoption(tb),
           NEW s \in Slots, NEW then \in {"stop", "adopt", "again"},
           then = "adopt" => /\ tb.get.phase = "none"
                             /\ \A r \in Slots : tb.push[r].then # "adopt",
           then = "stop" => \A r \in Slots : ~tb.push[r].old
    PROVE  TabGood(Pushing(tb, s, then))
<1> DEFINE next == [tb EXCEPT !.timer = FALSE, !.crossed = @ \/ \E r \in Slots : ~Free(tb, r)]
           new == Pushing(tb, s, then)
<1>0. tb \in Tab
  BY DEF TabTyped
<1>1. (tb.crossed \/ \E r \in Slots : ~Free(tb, r)) \in BOOLEAN
  BY <1>0 DEF Tab
<1>2. next \in Tab /\ next.known = tb.known /\ next.dirty = tb.dirty /\ next.push = tb.push
  BY <1>0, <1>1 DEF Tab
<1> HIDE DEF next
<1>3. Sent(next, 1, then) \in Push /\ Sent(next, 1, then).then = then
      /\ Sent(next, 1, then).phase = "sent" /\ ~Sent(next, 1, then).old
      /\ Sent(next, 1, then).post.posted = tb.known
  <2>1. 1 \in 1 .. 2
    OBVIOUS
  <2> QED BY <1>2, <2>1, SentTyped
<1>4. new = [next EXCEPT !.push[s] = Sent(next, 1, then)]
  BY DEF Pushing, next
<1>5. /\ new \in Tab /\ new.known = tb.known /\ new.dirty = tb.dirty /\ new.get = next.get
      /\ new.push = [tb.push EXCEPT ![s] = Sent(next, 1, then)]
  BY <1>2, <1>3, <1>4 DEF Tab
<1>6. new.get = tb.get
  BY <1>5, <1>0 DEF next, Tab
<1> HIDE DEF new
<1>7. \A r \in Slots : new.push[r] = IF r = s THEN Sent(next, 1, then) ELSE tb.push[r]
  BY <1>5, <1>0 DEF Tab
<1>8. TabTyped(new)
  BY <1>5 DEF TabTyped
<1>9. OneAdoption(new)
  BY <1>3, <1>6, <1>7 DEF OneAdoption
<1>10. FreshCarries(new) /\ Fresh(new, s) /\ new.push[s].then = then
  BY <1>3, <1>5, <1>7 DEF FreshCarries, Fresh, Free
<1>11. Waits(new)
  <2>1. CASE then = "stop"
    <3>1. \A r \in Slots : Free(new, r) \/ Fresh(new, r)
      BY <2>1, <1>3, <1>7 DEF Fresh, Free
    <3> QED BY <3>1, <1>10 DEF Waits
  <2>2. CASE then # "stop"
    BY <2>2, <1>10 DEF Waits
  <2> QED BY <2>1, <2>2
<1> QED BY <1>8, <1>9, <1>10, <1>11 DEF TabGood, new

LEMMA ScheduleGood ==
    ASSUME NEW tb, TabTyped(tb), OneAdoption(tb)
    PROVE  /\ TabGood(Schedule(tb)) /\ Schedule(tb).timer
           /\ Schedule(tb).known = tb.known /\ Schedule(tb).dirty = tb.dirty
<1> DEFINE new == Schedule(tb)
           pushes == [s \in Slots |-> [tb.push[s] EXCEPT !.old = ~Free(tb, s)]]
           get == [tb.get EXCEPT !.old = tb.get.phase # "none"]
<1>0. tb \in Tab
  BY DEF TabTyped
<1>1. \A s \in Slots : /\ pushes[s] \in Push /\ pushes[s].then = tb.push[s].then
                       /\ pushes[s].phase = tb.push[s].phase /\ pushes[s].old = ~Free(tb, s)
  <2>1. ASSUME NEW s \in Slots PROVE tb.push[s] \in Push /\ (~Free(tb, s)) \in BOOLEAN
    BY <1>0 DEF Tab, Free, Push
  <2>2. ASSUME NEW p \in Push, NEW b \in BOOLEAN
        PROVE  [p EXCEPT !.old = b] \in Push /\ [p EXCEPT !.old = b].then = p.then
               /\ [p EXCEPT !.old = b].phase = p.phase /\ [p EXCEPT !.old = b].old = b
    BY DEF Push
  <2> QED BY <2>1, <2>2
<1>2. pushes \in [Slots -> Push]
  BY <1>1
<1>3. get \in Get /\ get.phase = tb.get.phase
  BY <1>0 DEF Tab, Get
<1>4. new = [tb EXCEPT !.timer = TRUE, !.status = "saving", !.push = pushes, !.get = get]
  BY <1>0 DEF Schedule, Tab
<1> HIDE DEF pushes, get, new
<1>5. new \in Tab /\ new.timer /\ new.known = tb.known /\ new.dirty = tb.dirty /\ new.push = pushes
      /\ new.get = get
  BY <1>0, <1>2, <1>3, <1>4 DEF Tab
<1>6. TabTyped(new) /\ Waits(new)
  BY <1>5 DEF TabTyped, Waits
<1>7. OneAdoption(new)
  BY <1>1, <1>3, <1>5 DEF OneAdoption
<1>8. FreshCarries(new)
  BY <1>1, <1>5 DEF FreshCarries, Fresh, Free
<1> QED BY <1>5, <1>6, <1>7, <1>8 DEF TabGood, new

\* The end of a push that is not followed by another.
Ended(tb, s, status, get) == [tb EXCEPT !.push[s] = NoPush, !.status = status, !.get = get]

LEMMA EndedTyped ==
    ASSUME NEW tb, TabTyped(tb), OneAdoption(tb), FreshCarries(tb), NEW s \in Slots,
           NEW status \in {"idle", "saving", "saved", "error"}, NEW get \in Get,
           get = tb.get \/ tb.push[s].then = "adopt"
    PROVE  LET new == Ended(tb, s, status, get)
           IN  /\ TabTyped(new) /\ OneAdoption(new) /\ FreshCarries(new)
               /\ new.known = tb.known /\ new.dirty = tb.dirty /\ new.timer = tb.timer
               /\ new.status = status
               /\ \A r \in Slots : new.push[r] = IF r = s THEN NoPush ELSE tb.push[r]
<1> DEFINE new == Ended(tb, s, status, get)
<1>0. tb \in Tab /\ NoPush \in Push
  BY NoPushTyped DEF TabTyped
<1>1. /\ new \in Tab /\ new.known = tb.known /\ new.dirty = tb.dirty /\ new.timer = tb.timer
      /\ new.status = status /\ new.get = get /\ new.push = [tb.push EXCEPT ![s] = NoPush]
  BY <1>0 DEF Ended, Tab
<1> HIDE DEF new
<1>2. \A r \in Slots : new.push[r] = IF r = s THEN NoPush ELSE tb.push[r]
  BY <1>0, <1>1 DEF Tab
<1>3. TabTyped(new)
  BY <1>1 DEF TabTyped
<1>4. OneAdoption(new)
  BY <1>1, <1>2, NoPushTyped DEF OneAdoption
<1>5. FreshCarries(new)
  BY <1>1, <1>2, NoPushTyped DEF FreshCarries, Fresh, Free
<1> QED BY <1>1, <1>2, <1>3, <1>4, <1>5 DEF new

LEMMA FailedGood ==
    ASSUME NEW tb, TabGood(tb), NEW s \in Slots
    PROVE  TabGood(Failed(tb, s))
<1> DEFINE ended == [tb EXCEPT !.push[s] = NoPush, !.status = "error"]
<1>0. tb \in Tab
  BY DEF TabGood, TabTyped
<1>1. ended = Ended(tb, s, "error", tb.get) /\ tb.get \in Get
  BY <1>0 DEF Ended, Tab
<1> HIDE DEF ended
<1>2. /\ TabTyped(ended) /\ OneAdoption(ended) /\ FreshCarries(ended)
      /\ ended.known = tb.known /\ ended.dirty = tb.dirty /\ ended.timer = tb.timer
      /\ ended.status = "error"
      /\ \A r \in Slots : ended.push[r] = IF r = s THEN NoPush ELSE tb.push[r]
  BY <1>1, EndedTyped DEF TabGood
<1>3. CASE tb.push[s].then = "stop"
  <2>1. Waits(ended)
    BY <1>2, <1>3, NoPushTyped DEF TabGood, Waits, Fresh, Free
  <2>2. Failed(tb, s) = ended
    BY <1>3 DEF Failed, ended
  <2> QED BY <2>1, <2>2, <1>2 DEF TabGood
<1>4. CASE tb.push[s].then # "stop"
  <2>1. Failed(tb, s) = Schedule(ended)
    BY <1>4 DEF Failed, ended
  <2> QED BY <2>1, <1>2, ScheduleGood
<1> QED BY <1>3, <1>4

\* The push carried everything that was pending when it was sent, so that what is
\* left waits for the timer or for another push.
LEMMA DoneGood ==
    ASSUME NEW tb, TabTyped(tb), OneAdoption(tb), FreshCarries(tb), NEW s \in Slots,
           \/ tb.dirty = {} \/ tb.timer
           \/ \E r \in Slots \ {s} : Fresh(tb, r) /\ tb.push[r].then # "stop"
    PROVE  TabGood(Done(tb, s))
<1> DEFINE get == IF tb.push[s].then = "adopt" THEN Asked ELSE tb.get
           new == Ended(tb, s, "saved", get)
<1>0. tb \in Tab
  BY DEF TabTyped
<1>1. get \in Get /\ (get = tb.get \/ tb.push[s].then = "adopt")
  BY <1>0, NoPushTyped DEF Tab
<1>2. Done(tb, s) = new
  BY <1>0 DEF Done, Ended, Tab
<1> HIDE DEF get
<1>4. /\ TabTyped(new) /\ OneAdoption(new) /\ FreshCarries(new)
      /\ new.known = tb.known /\ new.dirty = tb.dirty /\ new.timer = tb.timer
      /\ \A r \in Slots : new.push[r] = IF r = s THEN NoPush ELSE tb.push[r]
  BY <1>1, EndedTyped
<1> HIDE DEF new
<1>5. Waits(new)
  BY <1>4 DEF Waits, Fresh, Free
<1> QED BY <1>2, <1>4, <1>5 DEF TabGood

\* Whatever leaves the pushes, the pending edits and the timer alone.
LEMMA LightGood ==
    ASSUME NEW tb, TabGood(tb), NEW new \in Tab, new.push = tb.push, new.known = tb.known,
           new.dirty = tb.dirty, new.timer = tb.timer,
           new.status = tb.status \/ new.status = "error" \/ tb.dirty = {},
           new.get.phase = tb.get.phase \/ new.get.phase = "none"
    PROVE  TabGood(new)
BY DEF TabGood, TabTyped, OneAdoption, FreshCarries, Waits, Fresh, Free

\* A step of the server, or a second attempt, in place of a push.
Put(tb, s, push) == [tb EXCEPT !.push[s] = push]

LEMMA PutGood ==
    ASSUME NEW tb, TabGood(tb), NEW s \in Slots, NEW push \in Push, push.phase # "none",
           push.then = tb.push[s].then,
           \/ ~push.old /\ push.post.posted = tb.known
           \/ push.old = tb.push[s].old /\ push.post = tb.push[s].post /\ ~Free(tb, s)
    PROVE  /\ TabGood(Put(tb, s, push)) /\ Put(tb, s, push).dirty = tb.dirty
           /\ Put(tb, s, push).known = tb.known
<1> DEFINE new == Put(tb, s, push)
<1>0. tb \in Tab
  BY DEF TabGood, TabTyped
<1>1. /\ new \in Tab /\ new.known = tb.known /\ new.dirty = tb.dirty /\ new.timer = tb.timer
      /\ new.status = tb.status /\ new.get = tb.get /\ new.push = [tb.push EXCEPT ![s] = push]
  BY <1>0 DEF Put, Tab
<1> HIDE DEF new
<1>2. \A r \in Slots : new.push[r] = IF r = s THEN push ELSE tb.push[r]
  BY <1>0, <1>1 DEF Tab
<1>3. TabTyped(new)
  BY <1>1 DEF TabGood, TabTyped
<1>4. OneAdoption(new)
  BY <1>1, <1>2 DEF TabGood, OneAdoption
<1>5. FreshCarries(new)
  BY <1>1, <1>2 DEF TabGood, FreshCarries, Fresh, Free
<1>6. \A r \in Slots : Fresh(tb, r) => Fresh(new, r) /\ new.push[r].then = tb.push[r].then
  BY <1>2 DEF Fresh, Free
<1>7. (\A r \in Slots : Free(tb, r) \/ Fresh(tb, r)) =>
          (\A r \in Slots : Free(new, r) \/ Fresh(new, r))
  BY <1>2 DEF Fresh, Free
<1>8. Waits(new)
  BY <1>1, <1>6, <1>7 DEF TabGood, Waits
<1> QED BY <1>1, <1>3, <1>4, <1>5, <1>8 DEF TabGood, new

LEMMA CanonicalGood ==
    ASSUME NEW tb, TabGood(tb), NEW st \in Storage, NEW server \in Snapshot,
           NEW settings \in Settings, \A k \in tb.dirty : settings[k] = tb.known[k]
    PROVE  LET next == ApplyCanonical(tb, st, settings, server)
           IN  /\ TabGood(next.tab) /\ next.storage \in Storage
               /\ next.tab.dirty = tb.dirty /\ next.tab.push = tb.push /\ next.tab.timer = tb.timer
               /\ next.tab.known = settings /\ next.tab.get = tb.get
<1> DEFINE next == ApplyCanonical(tb, st, settings, server)
           cached == [st EXCEPT !.cache = settings]
           baseline == IF server.stamp # 0 THEN server.stamp ELSE tb.baseline
           new == [tb EXCEPT !.known = settings, !.base = server.rev, !.baseline = baseline]
<1>0. tb \in Tab /\ server.rev \in Nat /\ server.stamp \in Nat
  BY DEF TabGood, TabTyped, Snapshot
<1>1. baseline \in Nat
  BY <1>0 DEF Tab
<1>2. cached \in Storage
  BY DEF Storage
<1>3. next.tab = new
  BY <1>0 DEF ApplyCanonical, Tab
<1>4. next.storage \in Storage
  BY <1>0, <1>2, AdoptedTyped DEF ApplyCanonical
<1> HIDE DEF baseline, cached
<1>5. /\ new \in Tab /\ new.known = settings /\ new.dirty = tb.dirty /\ new.timer = tb.timer
      /\ new.status = tb.status /\ new.get = tb.get /\ new.push = tb.push
  BY <1>0, <1>1 DEF Tab
<1> HIDE DEF new
<1>6. TabTyped(new) /\ OneAdoption(new) /\ Waits(new)
  BY <1>5 DEF TabGood, TabTyped, OneAdoption, Waits, Fresh, Free
<1>7. FreshCarries(new)
  BY <1>5 DEF TabGood, FreshCarries, Fresh, Free
<1> QED BY <1>3, <1>4, <1>5, <1>6, <1>7 DEF TabGood

LEMMA RebaseGood ==
    ASSUME NEW tb, TabGood(tb), NEW st \in Storage, NEW server \in Snapshot
    PROVE  LET next == RebaseOntoServer(tb, st, server)
           IN  /\ TabGood(next.tab) /\ next.storage \in Storage
               /\ next.tab.push = tb.push /\ next.tab.timer = tb.timer
<1>0. tb \in Tab /\ server.val \in Settings
  BY DEF TabGood, TabTyped, Snapshot
<1>1. CASE server.state = "missing"
  <2> DEFINE new == [tb EXCEPT !.base = 0]
  <2>1. /\ new \in Tab /\ new.push = tb.push /\ new.known = tb.known /\ new.dirty = tb.dirty
        /\ new.timer = tb.timer /\ new.status = tb.status /\ new.get = tb.get
    BY <1>0 DEF Tab
  <2> HIDE DEF new
  <2>2. TabGood(new)
    BY <2>1, LightGood
  <2>3. RebaseOntoServer(tb, st, server) = [tab |-> new, storage |-> st]
    BY <1>1 DEF RebaseOntoServer, new
  <2> QED BY <2>1, <2>2, <2>3
<1>2. CASE server.state # "missing" /\ UnseenByTab(tb, st, server)
  <2> DEFINE new == [tb EXCEPT !.dirty = {}]
  <2>1. /\ new \in Tab /\ new.push = tb.push /\ new.dirty = {} /\ new.timer = tb.timer
        /\ new.get = tb.get
    BY <1>0 DEF Tab
  <2>2. Record(st, Recorded(st)) \in Storage
    BY RecordTyped, RecordedTyped
  <2>3. RebaseOntoServer(tb, st, server) = ApplyCanonical(new, Record(st, Recorded(st)), server.val, server)
    BY <1>2 DEF RebaseOntoServer
  <2> HIDE DEF new
  <2>4. TabGood(new)
    BY <2>1 DEF TabGood, TabTyped, OneAdoption, FreshCarries, Waits
  <2> QED BY <1>0, <2>1, <2>2, <2>3, <2>4, CanonicalGood
<1>3. CASE server.state # "missing" /\ ~UnseenByTab(tb, st, server)
  <2>1. RebaseOntoServer(tb, st, server) = ApplyCanonical(tb, st, Rebased(server, tb), server)
    BY <1>3 DEF RebaseOntoServer
  <2>2. Rebased(server, tb) \in Settings
    BY <1>0 DEF Rebased, Settings, Tab
  <2>3. \A k \in tb.dirty : Rebased(server, tb)[k] = tb.known[k]
    BY <1>0 DEF Rebased, Tab
  <2> QED BY <2>1, <2>2, <2>3, CanonicalGood
<1> QED BY <1>1, <1>2, <1>3

LEMMA AdoptingGood ==
    ASSUME NEW tb, TabTyped(tb), OneAdoption(tb), FreshCarries(tb), NEW new \in Adopting(tb)
    PROVE  TabGood(new)
<1> DEFINE pushes == [s \in Slots |-> IF tb.push[s].then = "adopt"
                                      THEN [tb.push[s] EXCEPT !.then = "again"] ELSE tb.push[s]]
           out == [tb EXCEPT !.get = NoGet, !.push = pushes]
<1>0. tb \in Tab
  BY DEF TabTyped
<1>1. \A s \in Slots : /\ pushes[s] \in Push /\ pushes[s].then # "adopt"
                       /\ pushes[s].phase = tb.push[s].phase /\ pushes[s].post = tb.push[s].post
                       /\ pushes[s].old = tb.push[s].old
  <2>1. ASSUME NEW p \in Push
        PROVE  LET q == [p EXCEPT !.then = "again"]
               IN  q \in Push /\ q.then = "again" /\ q.phase = p.phase /\ q.post = p.post /\ q.old = p.old
    BY DEF Push
  <2>2. \A s \in Slots : tb.push[s] \in Push
    BY <1>0 DEF Tab
  <2> QED BY <2>1, <2>2
<1>2. pushes \in [Slots -> Push]
  BY <1>1
<1>3. Outdated(tb) = out
  BY <1>0 DEF Outdated, Tab
<1> HIDE DEF pushes
<1>4. /\ out \in Tab /\ out.known = tb.known /\ out.dirty = tb.dirty /\ out.timer = tb.timer
      /\ out.push = pushes /\ out.get = NoGet /\ out.status = tb.status
  BY <1>0, <1>2, NoPushTyped DEF Tab
<1> HIDE DEF out
<1>5. TabTyped(out) /\ OneAdoption(out)
  BY <1>1, <1>4 DEF TabTyped, OneAdoption
<1>6. FreshCarries(out)
  BY <1>1, <1>4 DEF FreshCarries, Fresh, Free
<1>7. CASE tb.timer \/ tb.dirty # {}
  <2>1. PICK s \in Slots : new = Pushing(out, s, "adopt")
    BY <1>3, <1>7 DEF Adopting
  <2> QED BY <2>1, <1>1, <1>4, <1>5, <1>6, NoPushTyped, PushingGood
<1>8. CASE ~(tb.timer \/ tb.dirty # {})
  <2>1. new = [out EXCEPT !.get = Asked]
    BY <1>3, <1>8 DEF Adopting
  <2>2. /\ new \in Tab /\ new.known = tb.known /\ new.dirty = {} /\ new.push = pushes
    BY <1>4, <1>8, <2>1, NoPushTyped DEF Tab
  <2> HIDE DEF Adopting
  <2> QED BY <1>1, <2>2 DEF TabGood, TabTyped, OneAdoption, FreshCarries, Waits
<1> QED BY <1>7, <1>8

-----------------------------------------------------------------------------
(* Type correctness, and who writes what is pending                          *)

LEMMA ClosedGood == TabGood(Closed)
<1>1. Closed \in Tab
  BY NoPushTyped DEF Closed, Tab
<1> QED BY <1>1, NoPushTyped DEF TabGood, TabTyped, OneAdoption, FreshCarries, Waits, Fresh, Free, Closed

LEMMA CurrentTyped == TypeInv => Current \in Snapshot
BY DEF TypeInv, SharedTyped, Current, Snapshot

LEMMA TabStep1 ==
    ASSUME TypeInv, NEW t \in Tabs, NEW tb, Becomes(t, tb), TabGood(tb), SharedTyped'
    PROVE  TypeInv'
<1>1. tb \in Tab
  BY DEF TabGood, TabTyped
<1>2. tab' \in [Tabs -> Tab] /\ \A u \in Tabs : tab'[u] = IF u = t THEN tb ELSE tab[u]
  BY <1>1 DEF TypeInv, Becomes
<1>3. \A u \in Tabs : TabGood(tab'[u])
  BY <1>2 DEF TypeInv
<1> QED BY <1>2, <1>3 DEF TypeInv

LEMMA InitGood == Init => TypeInv
<1> SUFFICES ASSUME Init PROVE TypeInv
  OBVIOUS
<1>1. MaxEdits \in Nat /\ Default \in Settings
  BY PreferencesAssumption, NoPushTyped
<1>2. storage \in Storage
  BY <1>1, NothingPending DEF Init, Storage, PendingEdits, NoEdits
<1>3. born \in [Edits -> Nat]
  BY DEF Init
<1>4. SharedTyped
  <2>1. PICK state \in {"ok", "missing"} :
            file = [state |-> state, val |-> Default, rev |-> IF state = "ok" THEN 1 ELSE 0]
    BY DEF Init
  <2>2. file \in [state : {"ok", "missing", "invalid"}, val : Settings, rev : Nat] /\ file.rev \in Nat
    BY <2>1, <1>1
  <2> QED BY <2>2, <1>2, <1>3 DEF Init, SharedTyped
<1>5. tab \in [Tabs -> Tab] /\ \A t \in Tabs : tab[t] = Closed
  BY ClosedGood DEF Init, TabGood, TabTyped
<1>6. \A t \in Tabs : TabGood(tab[t])
  BY <1>5, ClosedGood
<1> QED BY <1>4, <1>5, <1>6 DEF TypeInv

LEMMA OpenGood == ASSUME TypeInv, NEW t \in Tabs, Open(t) PROVE TypeInv'
<1> DEFINE old == Recorded(storage)
           known == [k \in Keys |-> IF k \in DOMAIN old THEN old[k] ELSE storage.cache[k]]
           opened == [Closed EXCEPT !.open = TRUE, !.known = known,
                                    !.dirty = DOMAIN old, !.baseline = storage.adopted]
<1>1. MaxEdits \in Nat /\ storage \in Storage /\ storage.cache \in Settings /\ storage.adopted \in Nat
  BY PreferencesAssumption DEF TypeInv, SharedTyped, Storage
<1>2. DOMAIN old \in SUBSET Keys /\ old \in [DOMAIN old -> Edits]
      /\ old \in UNION {[J -> Edits] : J \in SUBSET Keys}
  BY <1>1, RecordedTyped
<1> HIDE DEF old
<1>3. known \in Settings /\ \A k \in DOMAIN old : known[k] \in Edits
  BY <1>1, <1>2 DEF Settings, Edits
<1> HIDE DEF known
<1>4. opened = [Closed EXCEPT !.open = TRUE, !.known = known, !.dirty = DOMAIN old, !.baseline = storage.adopted]
  OBVIOUS
<1>5. /\ opened \in Tab /\ opened.known = known /\ opened.dirty = DOMAIN old
      /\ opened.push = Closed.push /\ opened.get = Closed.get
  BY <1>1, <1>2, <1>3, ClosedGood DEF TabGood, TabTyped, Tab
<1> HIDE DEF opened
<1>6. TabTyped(opened) /\ OneAdoption(opened) /\ FreshCarries(opened)
  BY <1>3, <1>5, NoPushTyped DEF TabTyped, OneAdoption, FreshCarries, Fresh, Free, Closed
<1>7. PICK tb \in Adopting(opened) : Becomes(t, tb)
  BY DEF Open, opened, known, old
<1>8. TabGood(tb)
  BY <1>6, AdoptingGood
<1>9. storage' \in Storage
  <2>1. storage' = [Record(storage, old) EXCEPT !.cache = known] /\ Record(storage, old) \in Storage
    BY <1>1, <1>2, RecordTyped DEF Open, known, old
  <2> QED BY <2>1, <1>3 DEF Storage
<1>10. SharedTyped'
  BY <1>9 DEF Open, TypeInv, SharedTyped, history
<1> QED BY <1>7, <1>8, <1>10, TabStep1

LEMMA CloseGood == ASSUME TypeInv, NEW t \in Tabs, Close(t) PROVE TypeInv'
<1>1. Pending(tab[t]) \subseteq Post
  BY DEF TypeInv, Pending, Tab, Push
<1>2. SharedTyped'
  BY <1>1 DEF Close, TypeInv, SharedTyped, history, counters
<1> QED BY <1>2, ClosedGood, TabStep1 DEF Close

LEMMA MountGood == ASSUME TypeInv, NEW t \in Tabs, Mount(t) PROVE TypeInv'
<1> DEFINE tb == tab[t]
           new == [tab[t] EXCEPT !.mounted = TRUE]
<1>1. tb \in Tab /\ TabGood(tb)
  BY DEF TypeInv
<1>2. /\ new \in Tab /\ new.push = tb.push /\ new.known = tb.known /\ new.dirty = tb.dirty
      /\ new.timer = tb.timer /\ new.status = tb.status /\ new.get = tb.get
  BY <1>1 DEF Tab
<1> HIDE DEF new
<1>3. TabGood(new)
  BY <1>1, <1>2, LightGood
<1>4. SharedTyped' /\ Becomes(t, new)
  BY DEF Mount, TypeInv, SharedTyped, history, counters, new
<1> QED BY <1>3, <1>4, TabStep1

LEMMA EditGood == ASSUME TypeInv, NEW t \in Tabs, NEW k \in Keys, Edit(t, k) PROVE TypeInv'
<1> DEFINE tb == [tab[t] EXCEPT !.known[k] = edits + 1, !.dirty = @ \cup {k}]
<1>1. /\ MaxEdits \in Nat /\ edits \in Nat /\ edits < MaxEdits /\ edits + 1 \in Edits
      /\ tab[t] \in Tab /\ TabGood(tab[t]) /\ storage \in Storage
  BY PreferencesAssumption DEF TypeInv, SharedTyped, Edit, NewEdit, Edits
<1>2. /\ tb \in Tab /\ tb.push = tab[t].push /\ tb.get = tab[t].get
      /\ tb.dirty = tab[t].dirty \cup {k}
      /\ \A j \in Keys : tb.known[j] = IF j = k THEN edits + 1 ELSE tab[t].known[j]
  <2>1. [tab[t].known EXCEPT ![k] = edits + 1] \in Settings
        /\ \A j \in Keys : [tab[t].known EXCEPT ![k] = edits + 1][j] = IF j = k THEN edits + 1 ELSE tab[t].known[j]
    BY <1>1 DEF Tab, Settings, Edits
  <2>2. tb = [tab[t] EXCEPT !.known = [tab[t].known EXCEPT ![k] = edits + 1],
                            !.dirty = tab[t].dirty \cup {k}]
    BY <1>1 DEF Tab
  <2> QED BY <2>1, <2>2, <1>1 DEF Tab
<1> HIDE DEF tb
<1>3. TabTyped(tb)
  BY <1>1, <1>2 DEF TabGood, TabTyped, Tab
<1>4. OneAdoption(tb)
  BY <1>1, <1>2 DEF TabGood, OneAdoption
<1>5. TabGood(Schedule(tb))
  BY <1>3, <1>4, ScheduleGood
<1>6. storage' \in Storage
  <2>1. [storage EXCEPT !.cache = tb.known] \in Storage
    BY <1>1, <1>2 DEF Storage, Tab
  <2> QED BY <2>1, <1>3, MergedTyped DEF Edit, tb
<1>7. born' \in [Edits -> Nat] /\ unsaved' \subseteq Keys \X Edits /\ edits' \in Nat
  BY <1>1 DEF Edit, NewEdit, TypeInv, SharedTyped, Tab
<1>8. SharedTyped'
  BY <1>6, <1>7 DEF Edit, TypeInv, SharedTyped
<1> QED BY <1>5, <1>8, TabStep1 DEF Edit, tb

LEMMA TimerGood == ASSUME TypeInv, NEW t \in Tabs, TimerFires(t) PROVE TypeInv'
<1>1. TabGood(tab[t])
  BY DEF TypeInv
<1>2. PICK s \in Slots : Becomes(t, Pushing(tab[t], s, "stop"))
  BY DEF TimerFires
<1>3. TabGood(Pushing(tab[t], s, "stop"))
  BY <1>1, PushingGood DEF TabGood, TimerFires
<1>4. SharedTyped'
  BY DEF TimerFires, TypeInv, SharedTyped, history, counters
<1> QED BY <1>2, <1>3, <1>4, TabStep1

LEMMA FocusGood == ASSUME TypeInv, NEW t \in Tabs, Focus(t) PROVE TypeInv'
<1>1. TabGood(tab[t])
  BY DEF TypeInv
<1>2. PICK tb \in Adopting(tab[t]) : Becomes(t, tb)
  BY DEF Focus
<1>3. TabGood(tb)
  BY <1>1, AdoptingGood DEF TabGood
<1>4. SharedTyped'
  BY DEF Focus, TypeInv, SharedTyped, history
<1> QED BY <1>2, <1>3, <1>4, TabStep1

\* What is left of the pending edits after a save waits for the timer or another
\* push: a fresh push carried them all.
LEMMA SavedGood == ASSUME TypeInv, NEW t \in Tabs, NEW s \in Slots, SettleSaved(t, s) PROVE TypeInv'
<1> DEFINE push == tab[t].push[s]
           still == StillPosted(tab[t], push.post.posted)
           tb == [tab[t] EXCEPT !.base = push.rev, !.dirty = @ \ still]
<1>1. tab[t] \in Tab /\ TabGood(tab[t]) /\ push \in Push /\ push.rev \in Nat
  BY DEF TypeInv, Tab, Push
<1>2. /\ tb \in Tab /\ tb.push = tab[t].push /\ tb.known = tab[t].known
      /\ tb.dirty = tab[t].dirty \ still /\ tb.timer = tab[t].timer /\ tb.get = tab[t].get
  BY <1>1 DEF Tab
<1>3. Fresh(tab[t], s) => tb.dirty = {}
  BY <1>1, <1>2 DEF TabGood, FreshCarries, StillPosted
<1>4. Becomes(t, Done(tb, s)) /\ push.phase = "answered"
  BY DEF SettleSaved
<1>5. storage' \in Storage
  BY ReleasedTyped DEF SettleSaved, TypeInv, SharedTyped
<1> HIDE DEF tb, still
<1>6. TabTyped(tb) /\ OneAdoption(tb) /\ FreshCarries(tb)
  BY <1>1, <1>2 DEF TabGood, TabTyped, OneAdoption, FreshCarries, Fresh, Free
<1>7. \/ tb.dirty = {} \/ tb.timer
      \/ \E r \in Slots \ {s} : Fresh(tb, r) /\ tb.push[r].then # "stop"
  <2>1. CASE Fresh(tab[t], s)
    BY <2>1, <1>3
  <2>2. CASE ~Fresh(tab[t], s)
    BY <2>2, <1>1, <1>2, <1>4 DEF TabGood, Waits, Fresh, Free
  <2> QED BY <2>1, <2>2
<1>8. TabGood(Done(tb, s))
  BY <1>6, <1>7, DoneGood
<1>9. SharedTyped'
  BY <1>5 DEF SettleSaved, TypeInv, SharedTyped, history, counters
<1> QED BY <1>4, <1>8, <1>9, TabStep1

LEMMA FailedStepGood ==
    ASSUME TypeInv, NEW t \in Tabs, NEW s \in Slots, SettleFailed(t, s) \/ FailPush(t, s)
    PROVE  TypeInv'
<1>1. TabGood(tab[t]) /\ tab[t].push[s].post \in Post
  BY DEF TypeInv, Tab, Push
<1>2. TabGood(Failed(tab[t], s)) /\ Becomes(t, Failed(tab[t], s))
  BY <1>1, FailedGood DEF SettleFailed, FailPush
<1>3. SharedTyped'
  BY <1>1 DEF SettleFailed, FailPush, Fault, TypeInv, SharedTyped, history, counters
<1> QED BY <1>2, <1>3, TabStep1

LEMMA StaleGood == ASSUME TypeInv, NEW t \in Tabs, NEW s \in Slots, SettleStale(t, s) PROVE TypeInv'
<1> DEFINE push == tab[t].push[s]
           next == RebaseOntoServer(tab[t], storage, push.current)
           write == push.current.state = "missing" \/ next.tab.dirty # {}
           retry == Sent(next.tab, push.attempt + 1, push.then)
<1>1. /\ tab[t] \in Tab /\ TabGood(tab[t]) /\ push \in Push /\ push.current \in Snapshot
      /\ storage \in Storage
  BY DEF TypeInv, SharedTyped, Tab, Push
<1>2. TabGood(next.tab) /\ next.storage \in Storage /\ next.tab.push = tab[t].push
  BY <1>1, RebaseGood
<1>3. /\ push.phase = "answered" /\ storage' = next.storage
      /\ Becomes(t, IF ~write THEN Done(next.tab, s)
                    ELSE IF LastAttempt(push) THEN Failed(next.tab, s)
                    ELSE Put(next.tab, s, retry))
  BY DEF SettleStale, Put
<1> HIDE DEF next
<1>4. SharedTyped'
  BY <1>2, <1>3 DEF SettleStale, TypeInv, SharedTyped, history, counters
<1>5. CASE ~write
  <2>1. TabGood(Done(next.tab, s))
    BY <1>2, <1>5, DoneGood DEF TabGood
  <2> QED BY <1>3, <1>4, <1>5, <2>1, TabStep1
<1>6. CASE write /\ LastAttempt(push)
  <2>1. TabGood(Failed(next.tab, s))
    BY <1>2, FailedGood
  <2> QED BY <1>3, <1>4, <1>6, <2>1, TabStep1
<1>7. CASE write /\ ~LastAttempt(push)
  <2>1. push.attempt + 1 \in 1 .. 2 /\ push.then \in {"stop", "adopt", "again"}
    BY <1>1, <1>7 DEF LastAttempt, Push
  <2>2. next.tab \in Tab
    BY <1>2 DEF TabGood, TabTyped
  <2>3. /\ retry \in Push /\ retry.phase = "sent" /\ retry.then = push.then /\ ~retry.old
        /\ retry.post.posted = next.tab.known
    BY <2>1, <2>2, SentTyped
  <2> HIDE DEF retry
  <2>4. TabGood(Put(next.tab, s, retry))
    BY <1>2, <2>3, PutGood
  <2> QED BY <1>3, <1>4, <1>7, <2>4, TabStep1
<1> QED BY <1>5, <1>6, <1>7

LEMMA FinishGetGood == ASSUME TypeInv, NEW t \in Tabs, FinishGet(t) PROVE TypeInv'
<1> DEFINE server == tab[t].get.current
           tb == [tab[t] EXCEPT !.get = NoGet]
           known == ApplyCanonical(tb, storage, server.val, server)
<1>1. /\ tab[t] \in Tab /\ TabGood(tab[t]) /\ server \in Snapshot /\ storage \in Storage
      /\ server.stamp \in Nat /\ server.val \in Settings
  BY DEF TypeInv, SharedTyped, Tab, Get, Snapshot
<1>2. /\ tb \in Tab /\ tb.push = tab[t].push /\ tb.known = tab[t].known
      /\ tb.dirty = tab[t].dirty /\ tb.timer = tab[t].timer /\ tb.get = NoGet
      /\ tb.status = tab[t].status
  BY <1>1, NoPushTyped DEF Tab
<1>3. TabGood(tb)
  BY <1>1, <1>2, LightGood, NoPushTyped
<1>0. storage' \in Storage => SharedTyped'
  BY DEF FinishGet, TypeInv, SharedTyped, history, counters
<1>4. CASE ~Quiet(tb) /\ Becomes(t, tb) /\ UNCHANGED storage
  BY <1>0, <1>1, <1>3, <1>4, TabStep1
<1>5. CASE Quiet(tb) /\ Becomes(t, [tb EXCEPT !.status = "error"]) /\ UNCHANGED storage
  <2> DEFINE new == [tb EXCEPT !.status = "error"]
  <2>1. /\ new \in Tab /\ new.push = tb.push /\ new.known = tb.known /\ new.dirty = tb.dirty
        /\ new.timer = tb.timer /\ new.status = "error" /\ new.get = tb.get
    BY <1>2 DEF Tab
  <2> HIDE DEF new, tb
  <2>2. TabGood(new)
    BY <1>3, <2>1, LightGood
  <2> QED BY <1>0, <1>1, <1>5, <2>2, TabStep1 DEF new
<1>6. CASE /\ Becomes(t, [tb EXCEPT !.base = 0, !.baseline = server.stamp])
           /\ storage' = Adopted(storage, server.stamp)
  <2> DEFINE new == [tb EXCEPT !.base = 0, !.baseline = server.stamp]
  <2>1. /\ new \in Tab /\ new.push = tb.push /\ new.known = tb.known /\ new.dirty = tb.dirty
        /\ new.timer = tb.timer /\ new.status = tb.status /\ new.get = tb.get
    BY <1>1, <1>2 DEF Tab
  <2>2. storage' \in Storage
    BY <1>1, <1>6, AdoptedTyped
  <2>3. Becomes(t, new)
    BY <1>6
  <2> HIDE DEF new, tb
  <2>4. TabGood(new)
    BY <1>3, <2>1, LightGood
  <2> QED BY <1>0, <2>2, <2>3, <2>4, TabStep1
<1>7. CASE /\ \E tb2 \in (IF storage.cache = Default THEN {[tb EXCEPT !.base = 0]} ELSE {})
                  \cup {Pushing([tb EXCEPT !.base = 0], s, "again") : s \in {s \in Slots : Free(tb, s)}} :
                      Becomes(t, tb2)
           /\ UNCHANGED storage
  <2> DEFINE new == [tb EXCEPT !.base = 0]
  <2>1. /\ new \in Tab /\ new.push = tb.push /\ new.known = tb.known /\ new.dirty = tb.dirty
        /\ new.timer = tb.timer /\ new.status = tb.status /\ new.get = tb.get
    BY <1>1, <1>2 DEF Tab
  <2>2. PICK tb2 : /\ Becomes(t, tb2)
                   /\ tb2 = new \/ \E s \in Slots : tb2 = Pushing(new, s, "again")
    BY <1>7
  <2> HIDE DEF new, tb
  <2>3. TabGood(new)
    BY <1>3, <2>1, LightGood
  <2>4. ASSUME NEW s \in Slots PROVE TabGood(Pushing(new, s, "again"))
    BY <2>3, PushingGood DEF TabGood
  <2>5. TabGood(tb2)
    BY <2>2, <2>3, <2>4
  <2> QED BY <1>0, <1>1, <1>7, <2>2, <2>5, TabStep1
<1>8. CASE /\ Quiet(tb) /\ Becomes(t, [known.tab EXCEPT !.status = "saved"])
           /\ storage' = known.storage
  <2> DEFINE new == [known.tab EXCEPT !.status = "saved"]
  <2>0. tb.dirty = {}
    BY <1>8 DEF Quiet
  <2> HIDE DEF tb, server
  <2>1. /\ TabGood(known.tab) /\ known.storage \in Storage /\ known.tab.dirty = {}
    BY <1>1, <1>3, <2>0, CanonicalGood
  <2>2. Becomes(t, new) /\ storage' \in Storage
    BY <1>8, <2>1
  <2> HIDE DEF known
  <2>3. known.tab \in Tab
    BY <2>1 DEF TabGood, TabTyped
  <2>4. /\ new \in Tab /\ new.push = known.tab.push /\ new.known = known.tab.known
        /\ new.dirty = known.tab.dirty /\ new.timer = known.tab.timer /\ new.get = known.tab.get
    BY <2>3 DEF Tab
  <2> HIDE DEF new
  <2>5. TabGood(new)
    BY <2>1, <2>4, LightGood
  <2> QED BY <1>0, <2>2, <2>5, TabStep1
<1>9. \/ ~Quiet(tb) /\ Becomes(t, tb) /\ UNCHANGED storage
      \/ Quiet(tb) /\ Becomes(t, [tb EXCEPT !.status = "error"]) /\ UNCHANGED storage
      \/ /\ Becomes(t, [tb EXCEPT !.base = 0, !.baseline = server.stamp])
         /\ storage' = Adopted(storage, server.stamp)
      \/ /\ \E tb2 \in (IF storage.cache = Default THEN {[tb EXCEPT !.base = 0]} ELSE {})
                \cup {Pushing([tb EXCEPT !.base = 0], s, "again") : s \in {s \in Slots : Free(tb, s)}} :
                    Becomes(t, tb2)
         /\ UNCHANGED storage
      \/ /\ Quiet(tb) /\ Becomes(t, [known.tab EXCEPT !.status = "saved"])
         /\ storage' = known.storage
  BY DEF FinishGet
<1> QED BY <1>4, <1>5, <1>6, <1>7, <1>8, <1>9

LEMMA GetGood ==
    ASSUME TypeInv, NEW t \in Tabs, FailGet(t) \/ ServerReads(t)
    PROVE  TypeInv'
<1>1. tab[t] \in Tab /\ TabGood(tab[t]) /\ Current \in Snapshot
  BY CurrentTyped DEF TypeInv
<1>2. PICK get \in Get : /\ Becomes(t, [tab[t] EXCEPT !.get = get])
                         /\ get.phase = "none" \/ (get.phase = "answered" /\ tab[t].get.phase = "sent")
  <2>1. CASE FailGet(t)
    BY <2>1, NoPushTyped DEF FailGet
  <2>2. CASE ServerReads(t)
    <3> DEFINE get == [tab[t].get EXCEPT !.phase = "answered", !.current = Current]
    <3>1. get \in Get /\ get.phase = "answered"
      BY <1>1 DEF Tab, Get
    <3>2. Becomes(t, [tab[t] EXCEPT !.get = get]) /\ tab[t].get.phase = "sent"
      BY <1>1, <2>2 DEF ServerReads, Tab, Get
    <3> QED BY <3>1, <3>2
  <2> QED BY <2>1, <2>2
<1> DEFINE new == [tab[t] EXCEPT !.get = get]
<1>3. /\ new \in Tab /\ new.push = tab[t].push /\ new.known = tab[t].known /\ new.dirty = tab[t].dirty
      /\ new.timer = tab[t].timer /\ new.status = tab[t].status /\ new.get = get
  BY <1>1, <1>2 DEF Tab
<1> HIDE DEF new
<1>4. TabGood(new)
  BY <1>1, <1>2, <1>3 DEF TabGood, TabTyped, OneAdoption, FreshCarries, Waits, Fresh, Free
<1>5. SharedTyped'
  BY DEF FailGet, ServerReads, Fault, TypeInv, SharedTyped, history, counters
<1> QED BY <1>2, <1>4, <1>5, TabStep1 DEF new

\* What the server does to the file: the record it holds stays a record.
LEMMA WriteTyped ==
    ASSUME TypeInv, NEW post \in Post, Write(post) \/ UNCHANGED <<file, revs, unsaved>>
    PROVE  /\ file' \in [state : {"ok", "missing", "invalid"}, val : Settings, rev : Nat]
           /\ revs' \in Nat /\ unsaved' \subseteq Keys \X Edits
<1>1. post.posted \in Settings /\ revs \in Nat /\ revs + 1 \in Nat
  BY DEF Post, TypeInv, SharedTyped
<1>2. CASE Write(post)
  BY <1>1, <1>2 DEF Write, TypeInv, SharedTyped
<1>3. CASE UNCHANGED <<file, revs, unsaved>>
  BY <1>3 DEF TypeInv, SharedTyped
<1> QED BY <1>2, <1>3

LEMMA ServerGood ==
    ASSUME TypeInv, NEW t \in Tabs, NEW s \in Slots, ServerWrites(t, s) \/ ServerExplains(t, s)
    PROVE  TypeInv'
<1> DEFINE push == tab[t].push[s]
<1>1. /\ tab[t] \in Tab /\ TabGood(tab[t]) /\ push \in Push /\ push.post \in Post
      /\ Current \in Snapshot /\ revs + 1 \in Nat
  BY CurrentTyped DEF TypeInv, SharedTyped, Tab, Push
<1>2. PICK new \in Push : /\ Becomes(t, Put(tab[t], s, new)) /\ new.phase # "none"
                          /\ new.then = push.then /\ new.old = push.old /\ new.post = push.post
                          /\ push.phase # "none"
  <2>1. CASE ServerWrites(t, s) /\ Write(push.post)
    <3> DEFINE new == [push EXCEPT !.phase = "answered", !.result = "saved", !.rev = revs + 1]
    <3>1. Becomes(t, Put(tab[t], s, new))
      BY <2>1 DEF ServerWrites, Write, Put
    <3>2. push.phase = "sent"
      BY <2>1 DEF ServerWrites
    <3>3. /\ new \in Push /\ new.phase # "none" /\ new.then = push.then
          /\ new.old = push.old /\ new.post = push.post
      BY <1>1 DEF Push
    <3> HIDE DEF new
    <3> QED BY <3>1, <3>2, <3>3
  <2>2. CASE ServerWrites(t, s) /\ ~Write(push.post)
    <3> DEFINE failed == [push EXCEPT !.phase = "answered", !.result = "failed"]
               refused == [push EXCEPT !.phase = "refused"]
    <3>1. Becomes(t, Put(tab[t], s, IF file.state = "invalid" THEN failed ELSE refused))
      BY <2>2 DEF ServerWrites, Put
    <3>2. push.phase = "sent"
      BY <2>2 DEF ServerWrites
    <3>3. /\ failed \in Push /\ failed.phase # "none" /\ failed.then = push.then
          /\ failed.old = push.old /\ failed.post = push.post
      BY <1>1 DEF Push
    <3>4. /\ refused \in Push /\ refused.phase # "none" /\ refused.then = push.then
          /\ refused.old = push.old /\ refused.post = push.post
      BY <1>1 DEF Push
    <3> QED BY <3>1, <3>2, <3>3, <3>4
  <2>3. CASE ServerExplains(t, s)
    <3> DEFINE new == [push EXCEPT !.phase = "answered", !.result = "stale", !.current = Current]
    <3>1. Becomes(t, Put(tab[t], s, new)) /\ push.phase = "refused"
      BY <2>3 DEF ServerExplains, Put
    <3> HIDE DEF Current
    <3>2. /\ new \in Push /\ new.phase # "none" /\ new.then = push.then
          /\ new.old = push.old /\ new.post = push.post
      BY <1>1 DEF Push
    <3> QED BY <3>1, <3>2
  <2> QED BY <2>1, <2>2, <2>3
<1>3. TabGood(Put(tab[t], s, new))
  BY <1>1, <1>2, PutGood DEF Free
<1>4. Write(push.post) \/ UNCHANGED <<file, revs, unsaved>>
  BY DEF ServerWrites, ServerExplains, history
<1>5. SharedTyped'
  <2>1. /\ file' \in [state : {"ok", "missing", "invalid"}, val : Settings, rev : Nat]
        /\ revs' \in Nat /\ unsaved' \subseteq Keys \X Edits
    BY <1>1, <1>4, WriteTyped
  <2> QED BY <2>1 DEF ServerWrites, ServerExplains, TypeInv, SharedTyped, history, counters
<1> QED BY <1>2, <1>3, <1>5, TabStep1

LEMMA OutsideGood ==
    ASSUME TypeInv,
           Damage \/ Restore \/ (\E k \in Keys : SavedElsewhere(k)) \/ (\E post \in net : LatePost(post))
    PROVE  TypeInv'
<1>1. /\ Default \in Settings /\ MaxEdits \in Nat /\ revs \in Nat /\ revs + 1 \in Nat
      /\ file.val \in Settings
  BY NoPushTyped, PreferencesAssumption DEF TypeInv, SharedTyped
<1>2. CASE Damage
  BY <1>2 DEF Damage, Fault, TypeInv, SharedTyped, history
<1>3. CASE Restore
  <2>1. file' \in [state : {"ok", "missing", "invalid"}, val : Settings, rev : Nat]
    BY <1>1, <1>3 DEF Restore
  <2>2. marker' \in Nat /\ revs' \in Nat /\ unsaved' = {}
    BY <1>3 DEF Restore, TypeInv, SharedTyped
  <2>3. UNCHANGED <<storage, tab, net, edits, opens, focuses, faults, born>>
    BY <1>3 DEF Restore, counters
  <2> QED BY <2>1, <2>2, <2>3 DEF TypeInv, SharedTyped
<1>4. ASSUME NEW k \in Keys, SavedElsewhere(k) PROVE TypeInv'
  <2>0. edits < MaxEdits /\ edits' = edits + 1 /\ edits \in Nat /\ marker \in Nat
    BY <1>4 DEF SavedElsewhere, NewEdit, TypeInv, SharedTyped
  <2>1. edits + 1 \in 0 .. MaxEdits /\ edits + 1 \in Edits /\ edits + 1 \in Nat
    BY <1>1, <2>0 DEF Edits
  <2>2. [file.val EXCEPT ![k] = edits + 1] \in Settings
    BY <1>1, <2>1 DEF Settings
  <2>3. file' = [file EXCEPT !.val = [file.val EXCEPT ![k] = edits + 1], !.rev = revs + 1]
    BY <1>4 DEF SavedElsewhere, TypeInv, SharedTyped
  <2>4. file' \in [state : {"ok", "missing", "invalid"}, val : Settings, rev : Nat]
    BY <1>1, <2>2, <2>3 DEF TypeInv, SharedTyped
  <2>5. born' \in [Edits -> Nat]
    <3>1. born' = [born EXCEPT ![edits + 1] = marker] /\ born \in [Edits -> Nat]
      BY <1>4 DEF SavedElsewhere, TypeInv, SharedTyped
    <3> QED BY <3>1, <2>0, <2>1
  <2>7. revs' \in Nat
    BY <1>1, <1>4 DEF SavedElsewhere
  <2>6. UNCHANGED <<marker, storage, tab, net, opens, focuses, faults, unsaved>>
    BY <1>4 DEF SavedElsewhere
  <2> QED BY <2>0, <2>1, <2>4, <2>5, <2>6, <2>7 DEF TypeInv, SharedTyped
<1>5. ASSUME NEW post \in net, LatePost(post) PROVE TypeInv'
  <2>1. post \in Post /\ net' \subseteq Post
    BY <1>5 DEF LatePost, TypeInv, SharedTyped
  <2>2. /\ file' \in [state : {"ok", "missing", "invalid"}, val : Settings, rev : Nat]
        /\ revs' \in Nat /\ unsaved' \subseteq Keys \X Edits
    BY <1>5, <2>1, WriteTyped DEF LatePost
  <2>3. UNCHANGED <<marker, storage, tab, edits, opens, focuses, faults, born>>
    BY <1>5 DEF LatePost, counters
  <2> QED BY <2>1, <2>2, <2>3 DEF TypeInv, SharedTyped
<1> QED BY <1>2, <1>3, <1>4, <1>5

LEMMA StepGood == TypeInv /\ [Next]_vars => TypeInv'
<1> SUFFICES ASSUME TypeInv, [Next]_vars PROVE TypeInv'
  OBVIOUS
<1>1. ASSUME NEW t \in Tabs, TabStep(t) PROVE TypeInv'
  BY <1>1, MountGood, TimerGood, FinishGetGood, GetGood, SavedGood, FailedStepGood, StaleGood, ServerGood
     DEF TabStep
<1>2. ASSUME NEW t \in Tabs, User(t) PROVE TypeInv'
  BY <1>2, OpenGood, CloseGood, FocusGood, EditGood DEF User
<1>3. ASSUME Environment PROVE TypeInv'
  BY <1>3, OutsideGood, GetGood, FailedStepGood DEF Environment
<1>4. CASE UNCHANGED vars
  <2>1. UNCHANGED <<file, revs, marker, storage, tab, net, edits, opens, focuses, faults, unsaved, born>>
    BY <1>4 DEF vars, counters, history
  <2> QED BY <2>1 DEF TypeInv, SharedTyped
<1> QED BY <1>1, <1>2, <1>3, <1>4 DEF Next

LEMMA AdoptionsCounted ==
    ASSUME NEW tb, OneAdoption(tb)
    PROVE  Cardinality({s \in Slots : tb.push[s].then = "adopt"})
               + (IF tb.get.phase = "none" THEN 0 ELSE 1) <= 1
<1> DEFINE S == {s \in Slots : tb.push[s].then = "adopt"}
<1>1. CASE S = {}
  <2>1. Cardinality(S) = 0
    BY <1>1, FS_EmptySet
  <2> HIDE DEF S
  <2> QED BY <2>1 DEF S
<1>2. CASE S # {}
  <2>1. PICK s \in Slots : s \in S
    BY <1>2
  <2>2. S = {s} /\ tb.get.phase = "none"
    BY <2>1 DEF OneAdoption
  <2>3. Cardinality(S) = 1
    BY <2>2, FS_Singleton
  <2> HIDE DEF S
  <2> QED BY <2>2, <2>3 DEF S
<1> QED BY <1>1, <1>2

\* Every variable stays in its range, and a tab never has two adoptions under way
\* that would both take over what they read.
THEOREM TypeCorrect == Spec => []TypeOK
<1>1. TypeInv => TypeOK
  BY AdoptionsCounted DEF TypeInv, SharedTyped, TypeOK, TabGood
<1> QED BY <1>1, InitGood, StepGood, PTL DEF Spec

\* An edit that is not written waits for the timer or for a push under way, or the
\* tab shows an error: no order of answers, failures, focus events and edits leaves
\* it pending behind a tab that says it is saved.
THEOREM PendingShown == Spec => []PendingIsShown
<1>1. TypeInv => PendingIsShown
  BY DEF TypeInv, TabGood, Waits, Fresh, PendingIsShown
<1> QED BY <1>1, InitGood, StepGood, PTL DEF Spec

-----------------------------------------------------------------------------
(* No unseen overwrite: what tabs, posts and answers say of the file         *)

FileTrue(f, r) == f.rev <= r /\ (f.state # "missing" => f.rev >= 1)

\* An answer that holds a record holds it as it was at its revision.
SnapTrue(c, f, r) ==
    c.state = "ok" => /\ c.rev >= 1 /\ c.rev <= r /\ f.state # "missing"
                      /\ f.state = "ok" /\ c.rev = f.rev => \A k \in Keys : c.val[k] = f.val[k]

\* Settings based on the record of the file differ from it only where their user
\* changed them.
Agrees(val, dirty, base, f) ==
    f.state = "ok" /\ base = f.rev => \A k \in Keys \ dirty : val[k] = f.val[k]
PostTrue(p, f, r) == p.base <= r /\ (~p.crossed => Agrees(p.posted, p.dirty, p.base, f))

\* A push the server may still accept, or whose record is the file's.
Counts(push, f) ==
    \/ push.phase = "sent" /\ (f.state = "missing" \/ (f.state = "ok" /\ push.post.base = f.rev))
    \/ push.phase = "answered" /\ push.result = "saved" /\ f.state = "ok" /\ push.rev = f.rev

\* A read that was answered with a record.
Holds(get) == get.phase = "answered" /\ get.current.state = "ok"

\* A tab whose pushes were one after the other.
InTurn(tb, f) ==
    /\ \A q, s \in Slots : ~Free(tb, q) /\ ~Free(tb, s) => q = s
    /\ Agrees(tb.known, tb.dirty, tb.base, f)
    /\ \A s \in Slots : tb.push[s].phase = "sent" =>
           ~tb.push[s].post.crossed /\ tb.push[s].post.dirty \subseteq tb.dirty
    /\ \A s \in Slots : Counts(tb.push[s], f) =>
           /\ \A k \in Keys \ tb.dirty : tb.known[k] = tb.push[s].post.posted[k]
           /\ tb.push[s].phase = "answered" => \A k \in Keys : tb.push[s].post.posted[k] = f.val[k]
           /\ tb.dirty = {} /\ Holds(tb.get) =>
                  \A k \in Keys : tb.get.current.val[k] = tb.push[s].post.posted[k]
    /\ tb.timer /\ tb.get.phase # "none" /\ ~tb.get.old =>
           /\ \A s \in Slots : Free(tb, s)
           /\ Holds(tb.get) /\ f.state = "ok" /\ tb.base = f.rev => tb.get.current.rev = f.rev

TabTrue(tb, f, r) ==
    /\ tb.base <= r
    /\ SnapTrue(tb.get.current, f, r)
    /\ \A s \in Slots : /\ SnapTrue(tb.push[s].current, f, r)
                        /\ tb.push[s].rev <= r
                        /\ tb.push[s].phase = "sent" => PostTrue(tb.push[s].post, f, r)
    /\ ~tb.crossed => InTurn(tb, f)

TruthInv ==
    /\ FileTrue(file, revs)
    /\ \A post \in net : PostTrue(post, file, revs)
    /\ \A t \in Tabs : TabTrue(tab[t], file, revs)

\* What the file properties see of a push.
SamePush(p, q) ==
    p.phase = q.phase /\ p.post = q.post /\ p.result = q.result /\ p.rev = q.rev /\ p.current = q.current

\* A step that leaves the settings, the pushes and what a read will take over alone.
LEMMA SimilarTrue ==
    ASSUME NEW f, NEW r, FileTrue(f, r), f.rev \in Nat, NEW tb, TabTrue(tb, f, r), NEW new,
           r \in Nat,
           new.known = tb.known, new.dirty = tb.dirty, new.crossed = tb.crossed,
           new.base = tb.base \/ new.base = 0,
           \A s \in Slots : SamePush(new.push[s], tb.push[s]),
           \/ new.get = tb.get /\ new.timer = tb.timer
           \/ /\ new.get.phase = tb.get.phase /\ new.get.current = tb.get.current
              /\ new.get.phase # "none" => new.get.old
           \/ /\ new.get.phase # "answered" /\ SnapTrue(new.get.current, f, r)
              /\ ~new.timer \/ new.get.phase = "none"
    PROVE  TabTrue(new, f, r)
<1>1. \A s \in Slots : /\ Free(new, s) <=> Free(tb, s)
                       /\ Counts(new.push[s], f) <=> Counts(tb.push[s], f)
  BY DEF SamePush, Free, Counts
<1>2. /\ new.base <= r /\ SnapTrue(new.get.current, f, r)
      /\ \A s \in Slots : /\ SnapTrue(new.push[s].current, f, r)
                          /\ new.push[s].rev <= r
                          /\ new.push[s].phase = "sent" => PostTrue(new.push[s].post, f, r)
  BY DEF TabTrue, SamePush
<1>3. ASSUME ~new.crossed PROVE InTurn(new, f)
  <2>1. InTurn(tb, f)
    BY <1>3 DEF TabTrue
  <2>2. \A q, s \in Slots : ~Free(new, q) /\ ~Free(new, s) => q = s
    BY <1>1, <2>1 DEF InTurn
  <2>3. Agrees(new.known, new.dirty, new.base, f)
    BY <2>1 DEF InTurn, Agrees, FileTrue
  <2>4. \A s \in Slots : new.push[s].phase = "sent" =>
           ~new.push[s].post.crossed /\ new.push[s].post.dirty \subseteq new.dirty
    BY <2>1 DEF InTurn, SamePush
  <2>5. Holds(new.get) => Holds(tb.get) /\ new.get.current = tb.get.current
    BY DEF Holds
  <2>6. \A s \in Slots : Counts(new.push[s], f) =>
           /\ \A k \in Keys \ new.dirty : new.known[k] = new.push[s].post.posted[k]
           /\ new.push[s].phase = "answered" => \A k \in Keys : new.push[s].post.posted[k] = f.val[k]
           /\ new.dirty = {} /\ Holds(new.get) =>
                  \A k \in Keys : new.get.current.val[k] = new.push[s].post.posted[k]
    <3> SUFFICES ASSUME NEW s \in Slots, Counts(new.push[s], f)
                 PROVE  /\ \A k \in Keys \ new.dirty : new.known[k] = new.push[s].post.posted[k]
                        /\ new.push[s].phase = "answered" => \A k \in Keys : new.push[s].post.posted[k] = f.val[k]
                        /\ new.dirty = {} /\ Holds(new.get) =>
                               \A k \in Keys : new.get.current.val[k] = new.push[s].post.posted[k]
      OBVIOUS
    <3>1. Counts(tb.push[s], f) /\ new.push[s].post = tb.push[s].post /\ new.push[s].phase = tb.push[s].phase
      BY <1>1 DEF SamePush
    <3>2. /\ \A k \in Keys \ tb.dirty : tb.known[k] = tb.push[s].post.posted[k]
          /\ tb.push[s].phase = "answered" => \A k \in Keys : tb.push[s].post.posted[k] = f.val[k]
          /\ tb.dirty = {} /\ Holds(tb.get) =>
                 \A k \in Keys : tb.get.current.val[k] = tb.push[s].post.posted[k]
      BY <2>1, <3>1 DEF InTurn
    <3> QED BY <2>5, <3>1, <3>2
  <2>7. new.timer /\ new.get.phase # "none" /\ ~new.get.old =>
           /\ \A s \in Slots : Free(new, s)
           /\ Holds(new.get) /\ f.state = "ok" /\ new.base = f.rev => new.get.current.rev = f.rev
    <3> SUFFICES ASSUME new.timer, new.get.phase # "none", ~new.get.old
                 PROVE  /\ \A s \in Slots : Free(new, s)
                        /\ Holds(new.get) /\ f.state = "ok" /\ new.base = f.rev => new.get.current.rev = f.rev
      OBVIOUS
    <3>1. CASE new.get = tb.get /\ new.timer = tb.timer
      <4>1. /\ \A s \in Slots : Free(tb, s)
            /\ Holds(tb.get) /\ f.state = "ok" /\ tb.base = f.rev => tb.get.current.rev = f.rev
        BY <2>1, <3>1 DEF InTurn
      <4>2. f.state = "ok" /\ new.base = f.rev => new.base = tb.base
        BY DEF FileTrue
      <4> QED BY <1>1, <3>1, <4>1, <4>2
    <3>2. CASE ~(new.get = tb.get /\ new.timer = tb.timer)
      <4>1. new.get.phase # "answered" /\ (~new.timer \/ new.get.phase = "none")
        BY <3>2
      <4> QED BY <4>1
    <3> QED BY <3>1, <3>2
  <2> QED BY <2>2, <2>3, <2>4, <2>6, <2>7 DEF InTurn
<1> QED BY <1>2, <1>3 DEF TabTrue

\* A push ends.  In a tab whose pushes were one after the other it was the only one.
LEMMA EndTrue ==
    ASSUME NEW f, NEW r, NEW tb, TabTrue(tb, f, r), NEW s \in Slots, ~Free(tb, s), r \in Nat, NEW new,
           new.crossed = tb.crossed, new.timer = tb.timer, new.base <= r,
           \A q \in Slots : new.push[q] = IF q = s THEN NoPush ELSE tb.push[q],
           new.get = tb.get \/ new.get = Asked,
           ~tb.crossed => Agrees(new.known, new.dirty, new.base, f)
    PROVE  TabTrue(new, f, r)
<1>1. SnapTrue(NoSnapshot, f, r) /\ NoPush.current = NoSnapshot /\ NoPush.rev = 0 /\ NoPush.phase = "none"
      /\ Asked.current = NoSnapshot /\ Asked.phase = "sent"
  BY DEF SnapTrue, NoSnapshot, NoPush, Asked, NoGet
<1>2. /\ SnapTrue(new.get.current, f, r)
      /\ \A q \in Slots : /\ SnapTrue(new.push[q].current, f, r)
                          /\ new.push[q].rev <= r
                          /\ new.push[q].phase = "sent" => PostTrue(new.push[q].post, f, r)
  BY <1>1 DEF TabTrue
<1>3. ASSUME ~new.crossed PROVE InTurn(new, f)
  <2>1. InTurn(tb, f)
    BY <1>3 DEF TabTrue
  <2>2. \A q \in Slots : new.push[q].phase = "none"
    BY <1>1, <2>1 DEF InTurn, Free
  <2>3. \A q \in Slots : Free(new, q) /\ ~Counts(new.push[q], f) /\ new.push[q].phase # "sent"
    BY <2>2 DEF Free, Counts
  <2>4. new.timer /\ new.get.phase # "none" /\ ~new.get.old => ~Holds(new.get)
    BY <1>1, <2>1 DEF InTurn, Holds
  <2> QED BY <1>3, <2>3, <2>4 DEF InTurn
<1> QED BY <1>2, <1>3 DEF TabTrue

\* A push begins, with the timer over and no read that would take over an answer
\* from before what the push is based on.
LEMMA PushingTrue ==
    ASSUME NEW f, NEW r, FileTrue(f, r), NEW tb \in Tab, TabTrue(tb, f, r), r \in Nat,
           NEW s \in Slots, NEW then \in {"stop", "adopt", "again"},
           tb.get.phase = "none" \/ (tb.timer /\ ~tb.get.old)
    PROVE  TabTrue(Pushing(tb, s, then), f, r)
<1> DEFINE crossed == tb.crossed \/ \E q \in Slots : ~Free(tb, q)
           next == [tb EXCEPT !.timer = FALSE, !.crossed = crossed]
           new == Pushing(tb, s, then)
<1>1. crossed \in BOOLEAN
  BY DEF Tab
<1> HIDE DEF crossed
<1>2. /\ next \in Tab /\ next.known = tb.known /\ next.dirty = tb.dirty /\ next.push = tb.push
      /\ next.base = tb.base /\ next.get = tb.get /\ ~next.timer /\ (next.crossed <=> crossed)
  BY <1>1 DEF Tab
<1>3. new = [next EXCEPT !.push[s] = Sent(next, 1, then)]
  BY DEF Pushing, crossed
<1> HIDE DEF next
<1>4. 1 \in 1 .. 2
  OBVIOUS
<1> DEFINE push == Sent(next, 1, then)
<1>5. /\ push \in Push /\ push.phase = "sent" /\ push.post.posted = tb.known
      /\ push.post.dirty = tb.dirty /\ push.post.base = tb.base /\ push.post.crossed = next.crossed
  BY <1>2, <1>4, SentTyped
<1>6. push.rev = 0 /\ push.current = NoSnapshot
  BY DEF Sent, NoPush
<1> HIDE DEF push
<1>7. /\ new.known = tb.known /\ new.dirty = tb.dirty /\ new.base = tb.base /\ new.get = tb.get
      /\ ~new.timer /\ new.crossed = next.crossed /\ new.push = [tb.push EXCEPT ![s] = push]
  BY <1>2, <1>3, <1>5 DEF Tab, push
<1> HIDE DEF new
<1>8. \A q \in Slots : new.push[q] = IF q = s THEN push ELSE tb.push[q]
  BY <1>7 DEF Tab
<1>9. ~new.crossed => ~tb.crossed /\ \A q \in Slots : Free(tb, q)
  BY <1>2, <1>7 DEF crossed
<1>10. ~new.crossed => Agrees(tb.known, tb.dirty, tb.base, f)
  BY <1>9 DEF TabTrue, InTurn
<1>11. SnapTrue(NoSnapshot, f, r)
  BY DEF SnapTrue, NoSnapshot
<1>12. PostTrue(push.post, f, r)
  BY <1>5, <1>7, <1>10 DEF PostTrue, TabTrue
<1>13. /\ new.base <= r /\ SnapTrue(new.get.current, f, r)
       /\ \A q \in Slots : /\ SnapTrue(new.push[q].current, f, r)
                           /\ new.push[q].rev <= r
                           /\ new.push[q].phase = "sent" => PostTrue(new.push[q].post, f, r)
  BY <1>6, <1>7, <1>8, <1>11, <1>12 DEF TabTrue
<1>14. ASSUME ~new.crossed PROVE InTurn(new, f)
  <2>1. InTurn(tb, f)
    BY <1>9, <1>14 DEF TabTrue
  <2>2. \A q \in Slots : ~Free(new, q) => q = s
    BY <1>8, <1>9, <1>14 DEF Free
  <2>3. Agrees(new.known, new.dirty, new.base, f)
    BY <1>7, <1>10, <1>14
  <2>4. \A q \in Slots : new.push[q].phase = "sent" =>
           ~new.push[q].post.crossed /\ new.push[q].post.dirty \subseteq new.dirty
    BY <1>5, <1>7, <1>14, <1>8, <2>2 DEF Free
  <2>5. \A q \in Slots : Counts(new.push[q], f) => q = s
    BY <2>2 DEF Counts, Free
  <2>6. ASSUME Counts(push, f), tb.dirty = {}, Holds(tb.get)
        PROVE  \A k \in Keys : tb.get.current.val[k] = push.post.posted[k]
    <3>1. SnapTrue(tb.get.current, f, r) /\ f.state # "missing"
      BY <2>6 DEF TabTrue, SnapTrue, Holds
    <3>2. f.state = "ok" /\ tb.base = f.rev
      BY <1>5, <2>6, <3>1 DEF Counts
    <3>3. tb.get.current.rev = f.rev
      BY <2>1, <2>6, <3>2 DEF InTurn, Holds
    <3>4. \A k \in Keys : tb.get.current.val[k] = f.val[k]
      BY <2>6, <3>1, <3>2, <3>3 DEF SnapTrue, Holds
    <3>5. \A k \in Keys : tb.known[k] = f.val[k]
      BY <1>10, <1>14, <2>6, <3>2 DEF Agrees
    <3> QED BY <1>5, <3>4, <3>5
  <2>7. Counts(new.push[s], f) =>
           /\ \A k \in Keys \ new.dirty : new.known[k] = new.push[s].post.posted[k]
           /\ new.push[s].phase = "answered" => \A k \in Keys : new.push[s].post.posted[k] = f.val[k]
           /\ new.dirty = {} /\ Holds(new.get) =>
                  \A k \in Keys : new.get.current.val[k] = new.push[s].post.posted[k]
    BY <1>5, <1>7, <1>8, <2>6
  <2> QED BY <1>7, <2>2, <2>3, <2>4, <2>5, <2>7 DEF InTurn
<1> QED BY <1>13, <1>14 DEF TabTrue, new

\* Rebasing leaves the tab on the record it was given, or on none.
LEMMA RebaseTrue ==
    ASSUME NEW f, NEW r, FileTrue(f, r), f.rev \in Nat, r \in Nat, NEW tb \in Tab, TabTrue(tb, f, r),
           NEW st, NEW server \in Snapshot, SnapTrue(server, f, r), server.state # "invalid"
    PROVE  LET next == RebaseOntoServer(tb, st, server).tab
           IN  /\ next \in Tab /\ next.push = tb.push /\ next.timer = tb.timer /\ next.get = tb.get
               /\ next.crossed = tb.crossed /\ next.base <= r
               /\ ~tb.crossed => Agrees(next.known, next.dirty, next.base, f)
               /\ server.state = "missing" => next.base = 0
<1>0. server.val \in Settings /\ server.rev \in Nat /\ server.stamp \in Nat
  BY DEF Snapshot
<1> DEFINE next == RebaseOntoServer(tb, st, server).tab
<1>1. CASE server.state = "missing"
  <2>1. next = [tb EXCEPT !.base = 0]
    BY <1>1 DEF RebaseOntoServer
  <2>2. /\ next \in Tab /\ next.push = tb.push /\ next.timer = tb.timer /\ next.get = tb.get
        /\ next.crossed = tb.crossed /\ next.base = 0
    BY <2>1 DEF Tab
  <2> HIDE DEF next
  <2>3. Agrees(next.known, next.dirty, next.base, f)
    BY <2>2 DEF Agrees, FileTrue
  <2> QED BY <2>2, <2>3 DEF next
<1>2. CASE server.state # "missing"
  <2>0. server.state = "ok" /\ server.rev <= r
    BY <1>2 DEF Snapshot, SnapTrue
  <2>1. PICK val \in Settings, dirty \in SUBSET Keys :
            /\ next = [tb EXCEPT !.dirty = dirty, !.known = val, !.base = server.rev,
                                 !.baseline = IF server.stamp # 0 THEN server.stamp ELSE tb.baseline]
            /\ \A k \in Keys \ dirty : val[k] = server.val[k]
    <3>1. CASE UnseenByTab(tb, st, server)
      <4>1. next = [tb EXCEPT !.dirty = {}, !.known = server.val, !.base = server.rev,
                              !.baseline = IF server.stamp # 0 THEN server.stamp ELSE tb.baseline]
        BY <1>2, <3>1 DEF RebaseOntoServer, ApplyCanonical, Tab
      <4>2. {} \in SUBSET Keys /\ \A k \in Keys \ {} : server.val[k] = server.val[k]
        OBVIOUS
      <4> HIDE DEF next
      <4> QED BY <1>0, <4>1, <4>2, Zenon
    <3>2. CASE ~UnseenByTab(tb, st, server)
      <4>1. next = [tb EXCEPT !.known = Rebased(server, tb), !.base = server.rev,
                              !.baseline = IF server.stamp # 0 THEN server.stamp ELSE tb.baseline]
        BY <1>2, <3>2 DEF RebaseOntoServer, ApplyCanonical
      <4>2. next = [tb EXCEPT !.dirty = tb.dirty, !.known = Rebased(server, tb), !.base = server.rev,
                              !.baseline = IF server.stamp # 0 THEN server.stamp ELSE tb.baseline]
        BY <4>1 DEF Tab
      <4>3. Rebased(server, tb) \in Settings /\ tb.dirty \in SUBSET Keys
            /\ \A k \in Keys \ tb.dirty : Rebased(server, tb)[k] = server.val[k]
        BY <1>0 DEF Rebased, Settings, Tab
      <4> HIDE DEF next
      <4> QED BY <4>2, <4>3
    <3> QED BY <3>1, <3>2
  <2> HIDE DEF next
  <2>2. /\ next \in Tab /\ next.push = tb.push /\ next.timer = tb.timer /\ next.get = tb.get
        /\ next.crossed = tb.crossed /\ next.base = server.rev /\ next.known = val /\ next.dirty = dirty
    BY <1>0, <2>1 DEF Tab
  <2>3. Agrees(next.known, next.dirty, next.base, f)
    BY <2>0, <2>1, <2>2 DEF Agrees, SnapTrue
  <2> QED BY <1>2, <2>0, <2>2, <2>3 DEF next
<1> QED BY <1>1, <1>2

\* The second attempt carries the settings as they are after rebasing.
LEMMA RetryTrue ==
    ASSUME NEW f, NEW r, FileTrue(f, r), f.rev \in Nat, r \in Nat, NEW tb, TabTrue(tb, f, r),
           NEW s \in Slots, ~Free(tb, s), NEW next \in Tab,
           next.push = tb.push, next.timer = tb.timer, next.get = tb.get, next.crossed = tb.crossed,
           next.base <= r, ~tb.crossed => Agrees(next.known, next.dirty, next.base, f),
           next.dirty = {} => next.base = 0,
           NEW attempt \in 1 .. 2, NEW then \in {"stop", "adopt", "again"}
    PROVE  TabTrue(Put(next, s, Sent(next, attempt, then)), f, r)
<1> DEFINE push == Sent(next, attempt, then)
           new == Put(next, s, push)
<1>1. /\ push \in Push /\ push.phase = "sent" /\ push.post.posted = next.known
      /\ push.post.dirty = next.dirty /\ push.post.base = next.base /\ push.post.crossed = next.crossed
  BY SentTyped
<1>2. push.rev = 0 /\ push.current = NoSnapshot
  BY DEF Sent, NoPush
<1> HIDE DEF push
<1>3. /\ new.known = next.known /\ new.dirty = next.dirty /\ new.base = next.base /\ new.get = tb.get
      /\ new.timer = tb.timer /\ new.crossed = tb.crossed /\ new.push = [next.push EXCEPT ![s] = push]
  BY <1>1 DEF Tab, Put
<1> HIDE DEF new
<1>4. \A q \in Slots : new.push[q] = IF q = s THEN push ELSE tb.push[q]
  BY <1>3 DEF Tab
<1>5. SnapTrue(NoSnapshot, f, r)
  BY DEF SnapTrue, NoSnapshot
<1>6. PostTrue(push.post, f, r)
  BY <1>1 DEF PostTrue
<1>7. /\ new.base <= r /\ SnapTrue(new.get.current, f, r)
      /\ \A q \in Slots : /\ SnapTrue(new.push[q].current, f, r)
                          /\ new.push[q].rev <= r
                          /\ new.push[q].phase = "sent" => PostTrue(new.push[q].post, f, r)
  BY <1>2, <1>3, <1>4, <1>5, <1>6 DEF TabTrue
<1>8. ASSUME ~new.crossed PROVE InTurn(new, f)
  <2>1. InTurn(tb, f) /\ ~tb.crossed
    BY <1>3, <1>8 DEF TabTrue
  <2>2. \A q \in Slots : ~Free(new, q) => q = s
    BY <1>4, <2>1 DEF Free, InTurn
  <2>3. Agrees(new.known, new.dirty, new.base, f)
    BY <1>3, <2>1
  <2>4. \A q \in Slots : new.push[q].phase = "sent" =>
           ~new.push[q].post.crossed /\ new.push[q].post.dirty \subseteq new.dirty
    BY <1>1, <1>3, <2>1, <1>4, <2>2 DEF Free
  <2>5. \A q \in Slots : Counts(new.push[q], f) => q = s
    BY <2>2 DEF Counts, Free
  <2>6. ~(Counts(push, f) /\ new.dirty = {} /\ Holds(new.get))
    BY <1>1, <1>3, <1>7 DEF Counts, SnapTrue, Holds, FileTrue
  <2>7. Counts(new.push[s], f) =>
           /\ \A k \in Keys \ new.dirty : new.known[k] = new.push[s].post.posted[k]
           /\ new.push[s].phase = "answered" => \A k \in Keys : new.push[s].post.posted[k] = f.val[k]
           /\ new.dirty = {} /\ Holds(new.get) =>
                  \A k \in Keys : new.get.current.val[k] = new.push[s].post.posted[k]
    BY <1>1, <1>3, <1>4, <2>6
  <2>8. ~(new.timer /\ new.get.phase # "none" /\ ~new.get.old)
    BY <1>3, <2>1 DEF InTurn
  <2> QED BY <2>2, <2>3, <2>4, <2>5, <2>7, <2>8 DEF InTurn
<1> QED BY <1>7, <1>8 DEF TabTrue, new, push

\* A read is taken over while nothing is pending: it is the record the push under
\* way was answered with, when that is still the file's.
LEMMA TakeTrue ==
    ASSUME NEW f, NEW r, FileTrue(f, r), f.rev \in Nat, r \in Nat, NEW tb, TabTrue(tb, f, r),
           Holds(tb.get), Quiet(tb), NEW new,
           new.push = tb.push, new.dirty = tb.dirty, new.timer = tb.timer, new.crossed = tb.crossed,
           new.get = NoGet, new.known = tb.get.current.val, new.base = tb.get.current.rev
    PROVE  TabTrue(new, f, r)
<1>1. SnapTrue(tb.get.current, f, r) /\ tb.get.current.state = "ok"
  BY DEF TabTrue, Holds
<1>2. SnapTrue(new.get.current, f, r) /\ new.get.phase = "none" /\ ~Holds(new.get)
  BY DEF SnapTrue, NoSnapshot, NoGet, Holds
<1>3. /\ new.base <= r
      /\ \A s \in Slots : /\ SnapTrue(new.push[s].current, f, r)
                          /\ new.push[s].rev <= r
                          /\ new.push[s].phase = "sent" => PostTrue(new.push[s].post, f, r)
  BY <1>1 DEF TabTrue, SnapTrue
<1>4. ASSUME ~new.crossed PROVE InTurn(new, f)
  <2>1. InTurn(tb, f)
    BY <1>4 DEF TabTrue
  <2>2. Agrees(new.known, new.dirty, new.base, f)
    BY <1>1 DEF Agrees, SnapTrue
  <2>3. ASSUME NEW s \in Slots, Counts(new.push[s], f)
        PROVE  /\ \A k \in Keys \ new.dirty : new.known[k] = new.push[s].post.posted[k]
               /\ new.push[s].phase = "answered" => \A k \in Keys : new.push[s].post.posted[k] = f.val[k]
    BY <2>1, <2>3 DEF InTurn, Quiet
  <2>4. \A s \in Slots : Free(new, s) <=> Free(tb, s)
    BY DEF Free
  <2>5. /\ \A q, s \in Slots : ~Free(new, q) /\ ~Free(new, s) => q = s
        /\ \A s \in Slots : new.push[s].phase = "sent" =>
               ~new.push[s].post.crossed /\ new.push[s].post.dirty \subseteq new.dirty
    BY <2>1, <2>4 DEF InTurn
  <2> QED BY <1>2, <2>2, <2>3, <2>5 DEF InTurn
<1> QED BY <1>2, <1>3, <1>4 DEF TabTrue

\* The user changes a setting.
LEMMA EditTrue ==
    ASSUME NEW f, NEW r, NEW tb, TabTrue(tb, f, r), NEW k \in Keys, NEW new,
           new.push = tb.push, new.dirty = tb.dirty \cup {k}, new.timer = tb.timer,
           new.crossed = tb.crossed, new.get = tb.get, new.base = tb.base,
           \A j \in Keys \ {k} : new.known[j] = tb.known[j]
    PROVE  TabTrue(new, f, r)
<1>1. ASSUME ~new.crossed PROVE InTurn(new, f)
  <2>1. InTurn(tb, f)
    BY <1>1 DEF TabTrue
  <2>2. Agrees(new.known, new.dirty, new.base, f)
    BY <2>1 DEF Agrees, InTurn
  <2>3. ASSUME NEW s \in Slots, Counts(new.push[s], f)
        PROVE  /\ \A j \in Keys \ new.dirty : new.known[j] = new.push[s].post.posted[j]
               /\ new.push[s].phase = "answered" => \A j \in Keys : new.push[s].post.posted[j] = f.val[j]
    BY <2>1, <2>3 DEF InTurn
  <2>4. \A s \in Slots : Free(new, s) <=> Free(tb, s)
    BY DEF Free
  <2>5. /\ \A q, s \in Slots : ~Free(new, q) /\ ~Free(new, s) => q = s
        /\ \A s \in Slots : new.push[s].phase = "sent" =>
               ~new.push[s].post.crossed /\ new.push[s].post.dirty \subseteq new.dirty
        /\ new.timer /\ new.get.phase # "none" /\ ~new.get.old =>
               /\ \A s \in Slots : Free(new, s)
               /\ Holds(new.get) /\ f.state = "ok" /\ new.base = f.rev => new.get.current.rev = f.rev
    BY <2>1, <2>4 DEF InTurn
  <2>6. new.dirty # {}
    OBVIOUS
  <2> QED BY <2>2, <2>3, <2>5, <2>6 DEF InTurn
<1> QED BY <1>1 DEF TabTrue

\* The timer is set: it waits for what is under way now.
LEMMA ScheduleTrue ==
    ASSUME NEW f, NEW r, FileTrue(f, r), f.rev \in Nat, r \in Nat, NEW tb \in Tab, TabTrue(tb, f, r)
    PROVE  TabTrue(Schedule(tb), f, r)
<1> DEFINE new == Schedule(tb)
           pushes == [s \in Slots |-> [tb.push[s] EXCEPT !.old = ~Free(tb, s)]]
           get == [tb.get EXCEPT !.old = tb.get.phase # "none"]
<1>1. \A s \in Slots : SamePush(pushes[s], tb.push[s])
  <2>1. ASSUME NEW p \in Push, NEW b PROVE SamePush([p EXCEPT !.old = b], p)
    BY DEF Push, SamePush
  <2>2. \A s \in Slots : tb.push[s] \in Push
    BY DEF Tab
  <2> QED BY <2>1, <2>2
<1>2. get.phase = tb.get.phase /\ get.current = tb.get.current /\ (get.phase # "none" => get.old)
  BY DEF Tab, Get
<1>3. new = [tb EXCEPT !.timer = TRUE, !.status = "saving", !.push = pushes, !.get = get]
  BY DEF Schedule, Tab
<1> HIDE DEF pushes, get, new
<1>4. /\ new.known = tb.known /\ new.dirty = tb.dirty /\ new.crossed = tb.crossed
      /\ new.base = tb.base /\ new.push = pushes /\ new.get = get
  BY <1>3 DEF Tab
<1> QED BY <1>1, <1>2, <1>4, SimilarTrue DEF new

\* A push that ends without being written.
LEMMA EndsTrue ==
    ASSUME NEW f, NEW r, FileTrue(f, r), f.rev \in Nat, r \in Nat, NEW tb, TabTrue(tb, f, r),
           NEW s \in Slots, ~Free(tb, s), NEW mid \in Tab,
           mid.push = tb.push, mid.timer = tb.timer, mid.get = tb.get, mid.crossed = tb.crossed,
           mid.base <= r, ~tb.crossed => Agrees(mid.known, mid.dirty, mid.base, f)
    PROVE  TabTrue(Failed(mid, s), f, r) /\ TabTrue(Done(mid, s), f, r)
<1> DEFINE ended == [mid EXCEPT !.push[s] = NoPush, !.status = "error"]
           get == IF mid.push[s].then = "adopt" THEN Asked ELSE mid.get
           done == [mid EXCEPT !.push[s] = NoPush, !.status = "saved", !.get = get]
<1>1. /\ ended.known = mid.known /\ ended.dirty = mid.dirty /\ ended.base = mid.base
      /\ ended.get = mid.get /\ ended.timer = mid.timer /\ ended.crossed = mid.crossed
      /\ ended.push = [mid.push EXCEPT ![s] = NoPush]
  BY DEF Tab
<1>2. /\ done.known = mid.known /\ done.dirty = mid.dirty /\ done.base = mid.base
      /\ done.get = get /\ done.timer = mid.timer /\ done.crossed = mid.crossed
      /\ done.push = [mid.push EXCEPT ![s] = NoPush]
  BY DEF Tab
<1>3. \A q \in Slots : [mid.push EXCEPT ![s] = NoPush][q] = IF q = s THEN NoPush ELSE tb.push[q]
  BY DEF Tab
<1>4. done = Done(mid, s)
  BY DEF Done, Tab
<1>5. ended \in Tab
  BY NoPushTyped DEF Tab
<1>6. (get = tb.get \/ get = Asked) /\ (Failed(mid, s) = ended \/ Failed(mid, s) = Schedule(ended))
  BY DEF Failed
<1> HIDE DEF ended, done, get
<1>7. TabTrue(ended, f, r)
  <2>1. /\ ended.crossed = tb.crossed /\ ended.timer = tb.timer /\ ended.base <= r /\ ended.get = tb.get
        /\ \A q \in Slots : ended.push[q] = IF q = s THEN NoPush ELSE tb.push[q]
        /\ ~tb.crossed => Agrees(ended.known, ended.dirty, ended.base, f)
    BY <1>1, <1>3
  <2> QED BY <2>1, EndTrue
<1>8. TabTrue(done, f, r)
  <2>1. /\ done.crossed = tb.crossed /\ done.timer = tb.timer /\ done.base <= r
        /\ done.get = tb.get \/ done.get = Asked
        /\ \A q \in Slots : done.push[q] = IF q = s THEN NoPush ELSE tb.push[q]
        /\ ~tb.crossed => Agrees(done.known, done.dirty, done.base, f)
    BY <1>2, <1>3, <1>6
  <2> QED BY <2>1, EndTrue
<1>9. TabTrue(Schedule(ended), f, r)
  BY <1>5, <1>7, ScheduleTrue
<1> QED BY <1>4, <1>6, <1>7, <1>8, <1>9

\* A push gets an answer that saved nothing.
LEMMA AnswerTrue ==
    ASSUME NEW f, NEW r, NEW tb \in Tab, TabTrue(tb, f, r), NEW s \in Slots, ~Free(tb, s),
           NEW push \in Push, push.phase = "refused" \/ (push.phase = "answered" /\ push.result # "saved"),
           push.rev = tb.push[s].rev, SnapTrue(push.current, f, r)
    PROVE  TabTrue(Put(tb, s, push), f, r)
<1> DEFINE new == Put(tb, s, push)
<1>1. /\ new.known = tb.known /\ new.dirty = tb.dirty /\ new.base = tb.base /\ new.get = tb.get
      /\ new.timer = tb.timer /\ new.crossed = tb.crossed /\ new.push = [tb.push EXCEPT ![s] = push]
  BY DEF Tab, Put
<1> HIDE DEF new
<1>2. \A q \in Slots : new.push[q] = IF q = s THEN push ELSE tb.push[q]
  BY <1>1 DEF Tab
<1>3. push.phase # "sent" /\ push.phase # "none" /\ ~Counts(push, f)
  BY DEF Counts
<1>4. \A q \in Slots : Free(new, q) <=> Free(tb, q)
  BY <1>2, <1>3 DEF Free
<1>5. \A q \in Slots : /\ Counts(new.push[q], f) => Counts(tb.push[q], f) /\ new.push[q] = tb.push[q]
                       /\ new.push[q].phase = "sent" => new.push[q] = tb.push[q]
  BY <1>2, <1>3
<1>6. /\ new.base <= r /\ SnapTrue(new.get.current, f, r)
      /\ \A q \in Slots : /\ SnapTrue(new.push[q].current, f, r)
                          /\ new.push[q].rev <= r
                          /\ new.push[q].phase = "sent" => PostTrue(new.push[q].post, f, r)
  BY <1>1, <1>2, <1>3 DEF TabTrue
<1>7. ASSUME ~new.crossed PROVE InTurn(new, f)
  <2>1. InTurn(tb, f)
    BY <1>1, <1>7 DEF TabTrue
  <2>2. /\ \A q, p \in Slots : ~Free(new, q) /\ ~Free(new, p) => q = p
        /\ Agrees(new.known, new.dirty, new.base, f)
        /\ \A q \in Slots : new.push[q].phase = "sent" =>
               ~new.push[q].post.crossed /\ new.push[q].post.dirty \subseteq new.dirty
    BY <1>1, <1>4, <1>5, <2>1 DEF InTurn
  <2>3. ASSUME NEW q \in Slots, Counts(new.push[q], f)
        PROVE  /\ \A k \in Keys \ new.dirty : new.known[k] = new.push[q].post.posted[k]
               /\ new.push[q].phase = "answered" => \A k \in Keys : new.push[q].post.posted[k] = f.val[k]
               /\ new.dirty = {} /\ Holds(new.get) =>
                      \A k \in Keys : new.get.current.val[k] = new.push[q].post.posted[k]
    BY <1>1, <1>5, <2>1, <2>3 DEF InTurn
  <2>4. new.timer /\ new.get.phase # "none" /\ ~new.get.old =>
           /\ \A q \in Slots : Free(new, q)
           /\ Holds(new.get) /\ f.state = "ok" /\ new.base = f.rev => new.get.current.rev = f.rev
    BY <1>1, <1>4, <2>1 DEF InTurn
  <2> QED BY <2>2, <2>3, <2>4 DEF InTurn
<1> QED BY <1>6, <1>7 DEF TabTrue, new

\* Another record, or a file that does not parse, takes the place of the file.
LEMMA FileMoves ==
    ASSUME NEW f, NEW r \in Nat, NEW g, NEW q \in Nat, r <= q, g.rev \in Nat, g.state # "missing",
           g.state = "invalid" \/ g.rev > r
    PROVE  /\ \A p \in Post : PostTrue(p, f, r) => PostTrue(p, g, q)
           /\ \A c \in Snapshot : SnapTrue(c, f, r) => SnapTrue(c, g, q)
           /\ \A tb \in Tab : TabTrue(tb, f, r) => TabTrue(tb, g, q)
<1>1. ASSUME NEW base \in Nat, base <= r PROVE ~(g.state = "ok" /\ base = g.rev) /\ base <= q
  BY <1>1
<1>2. ASSUME NEW p \in Post, PostTrue(p, f, r) PROVE PostTrue(p, g, q)
  BY <1>1, <1>2 DEF PostTrue, Agrees, Post
<1>3. ASSUME NEW c \in Snapshot, SnapTrue(c, f, r) PROVE SnapTrue(c, g, q)
  BY <1>1, <1>3 DEF SnapTrue, Snapshot
<1>4. ASSUME NEW tb \in Tab, TabTrue(tb, f, r) PROVE TabTrue(tb, g, q)
  <2>0. /\ tb.base \in Nat /\ tb.get.current \in Snapshot
        /\ \A s \in Slots : tb.push[s].rev \in Nat /\ tb.push[s].post \in Post
                            /\ tb.push[s].post.base \in Nat /\ tb.push[s].current \in Snapshot
    BY DEF Tab, Push, Get, Post
  <2>1. /\ tb.base <= q /\ SnapTrue(tb.get.current, g, q)
        /\ \A s \in Slots : /\ SnapTrue(tb.push[s].current, g, q)
                            /\ tb.push[s].rev <= q
                            /\ tb.push[s].phase = "sent" => PostTrue(tb.push[s].post, g, q)
    BY <1>1, <1>2, <1>3, <1>4, <2>0 DEF TabTrue
  <2>2. \A s \in Slots : ~Counts(tb.push[s], g)
    BY <1>1, <1>4, <2>0 DEF TabTrue, PostTrue, Counts
  <2>3. ~(g.state = "ok" /\ tb.base = g.rev)
    BY <1>1, <1>4, <2>0 DEF TabTrue
  <2>4. ASSUME ~tb.crossed PROVE InTurn(tb, g)
    <3>1. InTurn(tb, f)
      BY <1>4, <2>4 DEF TabTrue
    <3> QED BY <2>2, <2>3, <3>1 DEF InTurn, Agrees
  <2> QED BY <2>1, <2>4 DEF TabTrue
<1> QED BY <1>2, <1>3, <1>4

\* The server writes what a push carries.
LEMMA SavedTrue ==
    ASSUME NEW f, NEW r \in Nat, f.rev \in Nat, FileTrue(f, r), NEW tb \in Tab, TabTrue(tb, f, r),
           NEW s \in Slots, tb.push[s].phase = "sent",
           f.state = "missing" \/ (f.state = "ok" /\ tb.push[s].post.base = f.rev),
           NEW g, g = [state |-> "ok", val |-> tb.push[s].post.posted, rev |-> r + 1],
           NEW push \in Push, push.phase = "answered", push.result = "saved", push.rev = r + 1,
           push.post = tb.push[s].post, push.current = tb.push[s].current
    PROVE  TabTrue(Put(tb, s, push), g, r + 1)
<1> DEFINE new == Put(tb, s, push)
<1>1. /\ new.known = tb.known /\ new.dirty = tb.dirty /\ new.base = tb.base /\ new.get = tb.get
      /\ new.timer = tb.timer /\ new.crossed = tb.crossed /\ new.push = [tb.push EXCEPT ![s] = push]
  BY DEF Tab, Put
<1> HIDE DEF new
<1>2. \A q \in Slots : new.push[q] = IF q = s THEN push ELSE tb.push[q]
  BY <1>1 DEF Tab
<1>3. /\ r + 1 \in Nat /\ r <= r + 1 /\ g.state = "ok" /\ g.rev = r + 1
      /\ \A k \in Keys : g.val[k] = push.post.posted[k]
  OBVIOUS
<1>4. TabTrue(tb, g, r + 1)
  <2>1. PICK q \in Nat : q = r + 1
    OBVIOUS
  <2>2. /\ g.rev \in Nat /\ g.state # "missing" /\ r <= q
        /\ g.state = "invalid" \/ g.rev > r
    BY <1>3, <2>1
  <2>4. r \in Nat /\ q \in Nat /\ tb \in Tab
    OBVIOUS
  <2>5. \A a, b, c, d : c \in Nat /\ d \in Nat /\ c <= d /\ b.rev \in Nat /\ b.state # "missing"
           /\ (b.state = "invalid" \/ b.rev > c) => \A x \in Tab : TabTrue(x, a, c) => TabTrue(x, b, d)
    BY FileMoves
  <2>3. TabTrue(tb, f, r) => TabTrue(tb, g, q)
    BY <2>2, <2>4, <2>5
  <2> QED BY <2>1, <2>3
<1>5. \A q \in Slots : Free(new, q) <=> Free(tb, q)
  BY <1>2 DEF Free
<1>6. /\ new.base <= r + 1 /\ SnapTrue(new.get.current, g, r + 1)
      /\ \A q \in Slots : /\ SnapTrue(new.push[q].current, g, r + 1)
                          /\ new.push[q].rev <= r + 1
                          /\ new.push[q].phase = "sent" => PostTrue(new.push[q].post, g, r + 1)
  BY <1>1, <1>2, <1>3, <1>4 DEF TabTrue
<1>7. ASSUME ~new.crossed PROVE InTurn(new, g)
  <2>1. InTurn(tb, f) /\ InTurn(tb, g)
    BY <1>1, <1>4, <1>7 DEF TabTrue
  <2>2. /\ \A q, p \in Slots : ~Free(new, q) /\ ~Free(new, p) => q = p
        /\ Agrees(new.known, new.dirty, new.base, g)
    BY <1>1, <1>5, <2>1 DEF InTurn
  <2>3. \A q \in Slots : new.push[q].phase = "sent" =>
           ~new.push[q].post.crossed /\ new.push[q].post.dirty \subseteq new.dirty
    BY <1>1, <1>2, <2>1 DEF InTurn
  <2>4. Counts(tb.push[s], f)
    BY DEF Counts
  <2>5. /\ \A k \in Keys \ new.dirty : new.known[k] = push.post.posted[k]
        /\ new.dirty = {} /\ Holds(new.get) =>
               \A k \in Keys : new.get.current.val[k] = push.post.posted[k]
    BY <1>1, <2>1, <2>4 DEF InTurn
  <2>6. \A q \in Slots : Counts(new.push[q], g) => q = s
    BY <1>5, <2>1 DEF Counts, Free, InTurn
  <2>7. new.timer /\ new.get.phase # "none" /\ ~new.get.old =>
           /\ \A q \in Slots : Free(new, q)
           /\ Holds(new.get) /\ g.state = "ok" /\ new.base = g.rev => new.get.current.rev = g.rev
    BY <1>1, <1>5, <2>1 DEF InTurn
  <2>8. ASSUME NEW q \in Slots, Counts(new.push[q], g)
        PROVE  /\ \A k \in Keys \ new.dirty : new.known[k] = new.push[q].post.posted[k]
               /\ new.push[q].phase = "answered" => \A k \in Keys : new.push[q].post.posted[k] = g.val[k]
               /\ new.dirty = {} /\ Holds(new.get) =>
                      \A k \in Keys : new.get.current.val[k] = new.push[q].post.posted[k]
    <3>1. new.push[q] = push
      BY <1>2, <2>6, <2>8
    <3> QED BY <1>3, <2>5, <3>1
  <2> QED BY <2>2, <2>3, <2>7, <2>8 DEF InTurn
<1> QED BY <1>6, <1>7 DEF TabTrue, new

\* The server answers a read.
LEMMA ReadTrue ==
    ASSUME NEW f, NEW r \in Nat, f.rev \in Nat, FileTrue(f, r), NEW tb, TabTrue(tb, f, r),
           tb.get.phase # "none", NEW new, new.known = tb.known, new.dirty = tb.dirty, new.base = tb.base,
           new.timer = tb.timer, new.crossed = tb.crossed, new.push = tb.push,
           new.get.phase = "answered", new.get.old = tb.get.old,
           new.get.current.state = f.state, new.get.current.val = f.val, new.get.current.rev = f.rev
    PROVE  TabTrue(new, f, r)
<1>1. SnapTrue(new.get.current, f, r)
  BY DEF SnapTrue, FileTrue
<1>2. /\ new.base <= r
      /\ \A q \in Slots : /\ SnapTrue(new.push[q].current, f, r)
                          /\ new.push[q].rev <= r
                          /\ new.push[q].phase = "sent" => PostTrue(new.push[q].post, f, r)
  BY DEF TabTrue
<1>3. \A q \in Slots : Free(new, q) <=> Free(tb, q)
  BY DEF Free
<1>4. ASSUME ~new.crossed PROVE InTurn(new, f)
  <2>1. InTurn(tb, f)
    BY <1>4 DEF TabTrue
  <2>2. /\ \A q, p \in Slots : ~Free(new, q) /\ ~Free(new, p) => q = p
        /\ Agrees(new.known, new.dirty, new.base, f)
        /\ \A q \in Slots : new.push[q].phase = "sent" =>
               ~new.push[q].post.crossed /\ new.push[q].post.dirty \subseteq new.dirty
    BY <1>3, <2>1 DEF InTurn
  <2>3. ASSUME NEW q \in Slots, Counts(new.push[q], f)
        PROVE  /\ \A k \in Keys \ new.dirty : new.known[k] = new.push[q].post.posted[k]
               /\ new.push[q].phase = "answered" => \A k \in Keys : new.push[q].post.posted[k] = f.val[k]
    BY <2>1, <2>3 DEF InTurn
  <2>4. ASSUME NEW q \in Slots, Counts(new.push[q], f), new.dirty = {}, Holds(new.get), NEW k \in Keys
        PROVE  new.get.current.val[k] = new.push[q].post.posted[k]
    <3>1. CASE new.push[q].phase = "answered"
      BY <2>3, <2>4, <3>1
    <3>2. CASE new.push[q].phase = "sent"
      <4>1. f.state = "ok" /\ new.push[q].post.base = f.rev
        BY <2>4, <3>2 DEF Counts, Holds
      <4>2. PostTrue(new.push[q].post, f, r) /\ ~new.push[q].post.crossed /\ k \notin new.push[q].post.dirty
        BY <1>2, <2>2, <2>4, <3>2
      <4> QED BY <4>1, <4>2 DEF PostTrue, Agrees
    <3> QED BY <2>4, <3>1, <3>2 DEF Counts
  <2>5. new.timer /\ new.get.phase # "none" /\ ~new.get.old =>
           /\ \A q \in Slots : Free(new, q)
           /\ Holds(new.get) /\ f.state = "ok" /\ new.base = f.rev => new.get.current.rev = f.rev
    BY <1>3, <2>1 DEF InTurn
  <2> QED BY <2>2, <2>3, <2>4, <2>5 DEF InTurn
<1> QED BY <1>1, <1>2, <1>4 DEF TabTrue

LEMMA ClosedTrue ==
    ASSUME NEW f, NEW r \in Nat, FileTrue(f, r), f.rev \in Nat, NEW tb, tb.known \in Settings, tb.base = 0,
           tb.push = Closed.push, tb.get = NoGet, ~tb.crossed
    PROVE  TabTrue(tb, f, r)
<1>1. SnapTrue(NoSnapshot, f, r) /\ NoPush.current = NoSnapshot /\ NoPush.rev = 0 /\ NoPush.phase = "none"
      /\ NoGet.current = NoSnapshot /\ NoGet.phase = "none"
  BY DEF SnapTrue, NoSnapshot, NoPush, NoGet
<1>2. \A s \in Slots : tb.push[s] = NoPush
  BY DEF Closed
<1>3. \A s \in Slots : Free(tb, s) /\ ~Counts(tb.push[s], f)
  BY <1>1, <1>2 DEF Free, Counts
<1>4. Agrees(tb.known, tb.dirty, tb.base, f)
  BY DEF Agrees, FileTrue
<1>5. InTurn(tb, f)
  BY <1>1, <1>2, <1>3, <1>4 DEF InTurn
<1> QED BY <1>1, <1>2, <1>5 DEF TabTrue

\* An adoption begins: a read, or a push of what is pending before it.
LEMMA AdoptingTrue ==
    ASSUME NEW f, NEW r \in Nat, FileTrue(f, r), f.rev \in Nat, NEW tb \in Tab, TabTrue(tb, f, r),
           NEW new \in Adopting(tb)
    PROVE  TabTrue(new, f, r)
<1> DEFINE pushes == [s \in Slots |-> IF tb.push[s].then = "adopt"
                                      THEN [tb.push[s] EXCEPT !.then = "again"] ELSE tb.push[s]]
           out == [tb EXCEPT !.get = NoGet, !.push = pushes]
           asked == [out EXCEPT !.get = Asked]
<1>1. \A s \in Slots : pushes[s] \in Push /\ SamePush(pushes[s], tb.push[s])
  <2>1. ASSUME NEW p \in Push
        PROVE  [p EXCEPT !.then = "again"] \in Push /\ SamePush([p EXCEPT !.then = "again"], p) /\ SamePush(p, p)
    BY DEF Push, SamePush
  <2>2. \A s \in Slots : tb.push[s] \in Push
    BY DEF Tab
  <2> QED BY <2>1, <2>2
<1>2. pushes \in [Slots -> Push]
  BY <1>1
<1>3. Outdated(tb) = out
  BY DEF Outdated, Tab
<1> HIDE DEF pushes
<1>4. /\ out \in Tab /\ out.known = tb.known /\ out.dirty = tb.dirty /\ out.timer = tb.timer
      /\ out.push = pushes /\ out.get = NoGet /\ out.base = tb.base /\ out.crossed = tb.crossed
  BY <1>2, NoPushTyped DEF Tab
<1>5. /\ asked.known = tb.known /\ asked.dirty = tb.dirty /\ asked.timer = tb.timer
      /\ asked.push = pushes /\ asked.get = Asked /\ asked.base = tb.base /\ asked.crossed = tb.crossed
  BY <1>2, <1>4, NoPushTyped DEF Tab
<1> HIDE DEF out, asked
<1>6. /\ SnapTrue(NoGet.current, f, r) /\ SnapTrue(Asked.current, f, r)
      /\ NoGet.phase = "none" /\ Asked.phase = "sent"
  BY DEF SnapTrue, NoSnapshot, NoGet, Asked
<1>7. TabTrue(out, f, r)
  BY <1>1, <1>4, <1>6, SimilarTrue
<1>8. ~tb.timer => TabTrue(asked, f, r)
  BY <1>1, <1>5, <1>6, SimilarTrue
<1>9. ASSUME NEW s \in Slots PROVE TabTrue(Pushing(out, s, "adopt"), f, r)
  BY <1>4, <1>6, <1>7, PushingTrue
<1>10. \/ \E s \in Slots : new = Pushing(out, s, "adopt")
       \/ ~tb.timer /\ new = asked
  BY <1>3 DEF Adopting, asked
<1> QED BY <1>8, <1>9, <1>10

\* What the lemmas above need of the state.
LEMMA TruthFacts ==
    ASSUME TypeInv, TruthInv, NEW t \in Tabs
    PROVE  /\ file.rev \in Nat /\ revs \in Nat /\ FileTrue(file, revs)
           /\ tab[t] \in Tab /\ TabTrue(tab[t], file, revs)
           /\ tab[t].base \in Nat /\ tab[t].base <= revs
           /\ storage \in Storage /\ Current \in Snapshot /\ SnapTrue(Current, file, revs)
           /\ \A s \in Slots : tab[t].push[s] \in Push
<1>1. SnapTrue(Current, file, revs)
  BY DEF TruthInv, SnapTrue, Current, FileTrue
<1> QED BY <1>1, CurrentTyped DEF TypeInv, SharedTyped, TruthInv, TabTrue, Tab

LEMMA TruthTab ==
    ASSUME TypeInv, TruthInv, NEW t \in Tabs, NEW tb, Becomes(t, tb), UNCHANGED <<file, revs>>,
           TabTrue(tb, file, revs), \A post \in net' : PostTrue(post, file, revs)
    PROVE  TruthInv'
<1>1. \A u \in Tabs : tab'[u] = IF u = t THEN tb ELSE tab[u]
  BY DEF TypeInv, Becomes
<1>2. \A u \in Tabs : TabTrue(tab'[u], file, revs)
  BY <1>1 DEF TruthInv
<1> QED BY <1>2 DEF TruthInv

LEMMA InitTrue == Init => TruthInv
<1> SUFFICES ASSUME Init PROVE TruthInv
  OBVIOUS
<1>1. PICK state \in {"ok", "missing"} :
          file = [state |-> state, val |-> Default, rev |-> IF state = "ok" THEN 1 ELSE 0]
  BY DEF Init
<1>2. revs = file.rev /\ revs \in Nat /\ FileTrue(file, revs) /\ net = {}
  BY <1>1 DEF Init, FileTrue
<1>3. \A t \in Tabs : tab[t] = Closed
  BY DEF Init
<1>4. Closed.known \in Settings /\ Closed.base = 0 /\ Closed.get = NoGet /\ ~Closed.crossed
  BY NoPushTyped DEF Closed
<1>5. TabTrue(Closed, file, revs)
  BY <1>2, <1>4, ClosedTrue
<1> QED BY <1>2, <1>3, <1>5 DEF TruthInv

LEMMA OpenTrue == ASSUME TypeInv, TruthInv, NEW t \in Tabs, Open(t) PROVE TruthInv'
<1> DEFINE old == Recorded(storage)
           known == [k \in Keys |-> IF k \in DOMAIN old THEN old[k] ELSE storage.cache[k]]
           opened == [Closed EXCEPT !.open = TRUE, !.known = known,
                                    !.dirty = DOMAIN old, !.baseline = storage.adopted]
<1>1. MaxEdits \in Nat /\ storage \in Storage /\ storage.cache \in Settings /\ storage.adopted \in Nat
  BY PreferencesAssumption DEF TypeInv, SharedTyped, Storage
<1>2. DOMAIN old \in SUBSET Keys /\ old \in [DOMAIN old -> Edits]
  BY <1>1, RecordedTyped
<1> HIDE DEF old
<1>3. known \in Settings
  BY <1>1, <1>2 DEF Settings, Edits
<1> HIDE DEF known
<1>4. Closed \in Tab /\ Closed.base = 0 /\ Closed.get = NoGet /\ ~Closed.crossed
  BY ClosedGood DEF TabGood, TabTyped, Closed
<1>5. /\ opened \in Tab /\ opened.known = known /\ opened.base = 0 /\ opened.push = Closed.push
      /\ opened.get = NoGet /\ ~opened.crossed
  BY <1>1, <1>2, <1>3, <1>4 DEF Tab
<1>6. PICK tb \in Adopting(opened) : Becomes(t, tb)
  BY DEF Open, known, old
<1> HIDE DEF opened
<1>7. TabTrue(opened, file, revs)
  BY <1>3, <1>5, TruthFacts, ClosedTrue
<1>8. TabTrue(tb, file, revs)
  BY <1>5, <1>7, TruthFacts, AdoptingTrue
<1> QED BY <1>6, <1>8, TruthTab DEF Open, TruthInv

LEMMA CloseTrue == ASSUME TypeInv, TruthInv, NEW t \in Tabs, Close(t) PROVE TruthInv'
<1>1. Closed.known \in Settings /\ Closed.base = 0 /\ Closed.get = NoGet /\ ~Closed.crossed
  BY NoPushTyped DEF Closed
<1>2. TabTrue(Closed, file, revs)
  BY <1>1, TruthFacts, ClosedTrue
<1>3. \A post \in net' : PostTrue(post, file, revs)
  BY TruthFacts DEF Close, Pending, TabTrue, TruthInv
<1> QED BY <1>2, <1>3, TruthTab DEF Close

\* Steps that leave the settings, the pushes and what a read takes over alone.
LEMMA LightTrue ==
    ASSUME TypeInv, TruthInv, NEW t \in Tabs, Mount(t) \/ FailGet(t)
    PROVE  TruthInv'
<1> DEFINE tb == tab[t]
<1>0. tb \in Tab
  BY TruthFacts
<1>1. ASSUME NEW push \in Push PROVE SamePush(push, push)
  BY DEF SamePush
<1>2. \A s \in Slots : SamePush(tb.push[s], tb.push[s])
  BY DEF SamePush
<1>3. CASE Mount(t)
  <2> DEFINE new == [tb EXCEPT !.mounted = TRUE]
  <2>1. /\ new.push = tb.push /\ new.known = tb.known /\ new.dirty = tb.dirty /\ new.base = tb.base
        /\ new.timer = tb.timer /\ new.crossed = tb.crossed /\ new.get = tb.get
    BY <1>0 DEF Tab
  <2>2. Becomes(t, new)
    BY <1>3 DEF Mount
  <2> HIDE DEF new
  <2>3. TabTrue(new, file, revs)
    BY <1>2, <2>1, TruthFacts, SimilarTrue
  <2> QED BY <1>3, <2>2, <2>3, TruthTab DEF Mount, TruthInv
<1>4. CASE FailGet(t)
  <2> DEFINE new == [tb EXCEPT !.get = NoGet]
  <2>1. /\ new.push = tb.push /\ new.known = tb.known /\ new.dirty = tb.dirty /\ new.base = tb.base
        /\ new.timer = tb.timer /\ new.crossed = tb.crossed /\ new.get = NoGet
    BY <1>0 DEF Tab
  <2>2. Becomes(t, new)
    BY <1>4 DEF FailGet
  <2>3. NoGet.phase = "none" /\ SnapTrue(NoGet.current, file, revs)
    BY DEF NoGet, NoSnapshot, SnapTrue
  <2> HIDE DEF new
  <2>4. TabTrue(new, file, revs)
    BY <1>2, <2>1, <2>3, TruthFacts, SimilarTrue
  <2> QED BY <1>4, <2>2, <2>4, TruthTab DEF FailGet, TruthInv
<1> QED BY <1>3, <1>4

LEMMA EditStepTrue == ASSUME TypeInv, TruthInv, NEW t \in Tabs, NEW k \in Keys, Edit(t, k) PROVE TruthInv'
<1> DEFINE tb == [tab[t] EXCEPT !.known[k] = edits + 1, !.dirty = @ \cup {k}]
<1>1. /\ MaxEdits \in Nat /\ edits \in Nat /\ edits < MaxEdits
      /\ tab[t] \in Tab /\ TabTrue(tab[t], file, revs)
  BY PreferencesAssumption, TruthFacts DEF TypeInv, SharedTyped, Edit, NewEdit
<1>2. /\ tb \in Tab /\ tb.push = tab[t].push /\ tb.get = tab[t].get /\ tb.timer = tab[t].timer
      /\ tb.dirty = tab[t].dirty \cup {k} /\ tb.base = tab[t].base /\ tb.crossed = tab[t].crossed
      /\ \A j \in Keys \ {k} : tb.known[j] = tab[t].known[j]
  <2>1. [tab[t].known EXCEPT ![k] = edits + 1] \in Settings
        /\ \A j \in Keys \ {k} : [tab[t].known EXCEPT ![k] = edits + 1][j] = tab[t].known[j]
    BY <1>1 DEF Tab, Settings
  <2>2. tb = [tab[t] EXCEPT !.known = [tab[t].known EXCEPT ![k] = edits + 1],
                            !.dirty = tab[t].dirty \cup {k}]
    BY <1>1 DEF Tab
  <2> QED BY <2>1, <2>2, <1>1 DEF Tab
<1> HIDE DEF tb
<1>3. TabTrue(tb, file, revs)
  BY <1>1, <1>2, EditTrue
<1>4. TabTrue(Schedule(tb), file, revs)
  BY <1>2, <1>3, TruthFacts, ScheduleTrue
<1> QED BY <1>4, TruthTab DEF Edit, TruthInv, tb

LEMMA PushStepTrue ==
    ASSUME TypeInv, TruthInv, NEW t \in Tabs, TimerFires(t) \/ Focus(t)
    PROVE  TruthInv'
<1>1. CASE TimerFires(t)
  <2>1. PICK s \in Slots : Becomes(t, Pushing(tab[t], s, "stop"))
    BY <1>1 DEF TimerFires
  <2>2. TabTrue(Pushing(tab[t], s, "stop"), file, revs)
    BY <1>1, TruthFacts, PushingTrue DEF TimerFires
  <2> QED BY <1>1, <2>1, <2>2, TruthTab DEF TimerFires, TruthInv
<1>2. CASE Focus(t)
  <2>1. PICK tb \in Adopting(tab[t]) : Becomes(t, tb)
    BY <1>2 DEF Focus
  <2>2. TabTrue(tb, file, revs)
    BY TruthFacts, AdoptingTrue
  <2> QED BY <1>2, <2>1, <2>2, TruthTab DEF Focus, TruthInv
<1> QED BY <1>1, <1>2

LEMMA SettleSavedTrue ==
    ASSUME TypeInv, TruthInv, NEW t \in Tabs, NEW s \in Slots, SettleSaved(t, s)
    PROVE  TruthInv'
<1> DEFINE push == tab[t].push[s]
           still == StillPosted(tab[t], push.post.posted)
           mid == [tab[t] EXCEPT !.base = push.rev, !.dirty = @ \ still]
<1>1. /\ tab[t] \in Tab /\ push \in Push /\ push.rev \in Nat /\ TabTrue(tab[t], file, revs)
      /\ push.phase = "answered" /\ push.result = "saved" /\ ~Free(tab[t], s)
  BY TruthFacts DEF Push, SettleSaved, Free
<1>2. /\ mid \in Tab /\ mid.push = tab[t].push /\ mid.known = tab[t].known /\ mid.base = push.rev
      /\ mid.dirty = tab[t].dirty \ still /\ mid.timer = tab[t].timer /\ mid.get = tab[t].get
      /\ mid.crossed = tab[t].crossed
  BY <1>1 DEF Tab
<1>3. Becomes(t, Done(mid, s))
  BY DEF SettleSaved
<1>4. push.rev <= revs
  BY <1>1 DEF TabTrue
<1>5. ASSUME ~tab[t].crossed PROVE Agrees(mid.known, mid.dirty, mid.base, file)
  <2> SUFFICES ASSUME file.state = "ok", push.rev = file.rev, NEW k \in Keys, k \notin mid.dirty
               PROVE  mid.known[k] = file.val[k]
    BY <1>2 DEF Agrees
  <2>1. Counts(push, file) /\ InTurn(tab[t], file)
    BY <1>1, <1>5 DEF Counts, TabTrue
  <2>2. /\ \A j \in Keys \ tab[t].dirty : tab[t].known[j] = push.post.posted[j]
        /\ \A j \in Keys : push.post.posted[j] = file.val[j]
    BY <1>1, <2>1 DEF InTurn
  <2>3. k \in tab[t].dirty => tab[t].known[k] = push.post.posted[k]
    BY <1>2 DEF StillPosted
  <2> QED BY <1>2, <2>2, <2>3
<1> HIDE DEF mid
<1>6. TabTrue(Done(mid, s), file, revs)
  BY <1>1, <1>2, <1>4, <1>5, TruthFacts, EndsTrue
<1> QED BY <1>3, <1>6, TruthTab DEF SettleSaved, TruthInv

LEMMA FailedStepTrue ==
    ASSUME TypeInv, TruthInv, NEW t \in Tabs, NEW s \in Slots, SettleFailed(t, s) \/ FailPush(t, s)
    PROVE  TruthInv'
<1>1. Becomes(t, Failed(tab[t], s)) /\ ~Free(tab[t], s) /\ UNCHANGED <<file, revs>>
  BY DEF SettleFailed, FailPush, Free
<1>2. ~tab[t].crossed => Agrees(tab[t].known, tab[t].dirty, tab[t].base, file)
  BY TruthFacts DEF TabTrue, InTurn
<1>3. TabTrue(Failed(tab[t], s), file, revs)
  BY <1>1, <1>2, TruthFacts, EndsTrue
<1>4. \A post \in net' : PostTrue(post, file, revs)
  BY TruthFacts DEF SettleFailed, FailPush, TabTrue, TruthInv
<1> QED BY <1>1, <1>3, <1>4, TruthTab

LEMMA StaleTrue ==
    ASSUME TypeInv, TruthInv, NEW t \in Tabs, NEW s \in Slots, SettleStale(t, s)
    PROVE  TruthInv'
<1> DEFINE push == tab[t].push[s]
           server == push.current
           next == RebaseOntoServer(tab[t], storage, server).tab
           write == server.state = "missing" \/ next.dirty # {}
           retry == Sent(next, push.attempt + 1, push.then)
<1>1. /\ tab[t] \in Tab /\ push \in Push /\ server \in Snapshot /\ TabTrue(tab[t], file, revs)
      /\ push.phase = "answered" /\ server.state # "invalid" /\ ~Free(tab[t], s)
      /\ push.attempt \in 1 .. 2 /\ push.then \in {"stop", "adopt", "again"}
  BY TruthFacts DEF Push, SettleStale, Free
<1>2. SnapTrue(server, file, revs)
  BY <1>1 DEF TabTrue
<1>3. /\ next \in Tab /\ next.push = tab[t].push /\ next.timer = tab[t].timer /\ next.get = tab[t].get
      /\ next.crossed = tab[t].crossed /\ next.base <= revs
      /\ ~tab[t].crossed => Agrees(next.known, next.dirty, next.base, file)
      /\ server.state = "missing" => next.base = 0
  BY <1>1, <1>2, TruthFacts, RebaseTrue
<1>4. Becomes(t, IF ~write THEN Done(next, s)
                 ELSE IF LastAttempt(push) THEN Failed(next, s)
                 ELSE Put(next, s, retry))
  BY DEF SettleStale, Put
<1> HIDE DEF next
<1>5. TabTrue(Failed(next, s), file, revs) /\ TabTrue(Done(next, s), file, revs)
  BY <1>1, <1>3, TruthFacts, EndsTrue
<1>6. ASSUME write, ~LastAttempt(push) PROVE TabTrue(Put(next, s, retry), file, revs)
  <2>1. push.attempt + 1 \in 1 .. 2
    BY <1>1, <1>6 DEF LastAttempt
  <2>2. next.dirty = {} => next.base = 0
    BY <1>3, <1>6
  <2> QED BY <1>1, <1>3, <2>1, <2>2, TruthFacts, RetryTrue
<1>7. PICK tb : Becomes(t, tb) /\ TabTrue(tb, file, revs)
  BY <1>4, <1>5, <1>6
<1> QED BY <1>7, TruthTab DEF SettleStale, TruthInv

LEMMA FinishGetTrue == ASSUME TypeInv, TruthInv, NEW t \in Tabs, FinishGet(t) PROVE TruthInv'
<1> DEFINE server == tab[t].get.current
           tb == [tab[t] EXCEPT !.get = NoGet]
           known == ApplyCanonical(tb, storage, server.val, server)
           shown == [tb EXCEPT !.status = "error"]
           unseen == [tb EXCEPT !.base = 0, !.baseline = server.stamp]
           unbased == [tb EXCEPT !.base = 0]
           taken == [known.tab EXCEPT !.status = "saved"]
<1>1. /\ tab[t] \in Tab /\ server \in Snapshot /\ tab[t].get.phase = "answered"
      /\ TabTrue(tab[t], file, revs) /\ server.stamp \in Nat /\ server.val \in Settings
      /\ server.rev \in Nat
  BY TruthFacts DEF Tab, Get, Snapshot, FinishGet
<1>2. \A s \in Slots : SamePush(tab[t].push[s], tab[t].push[s])
  BY DEF SamePush
<1>3. NoGet.phase = "none" /\ SnapTrue(NoGet.current, file, revs)
  BY DEF NoGet, NoSnapshot, SnapTrue
<1>4. /\ tb \in Tab /\ tb.push = tab[t].push /\ tb.known = tab[t].known /\ tb.dirty = tab[t].dirty
      /\ tb.timer = tab[t].timer /\ tb.get = NoGet /\ tb.base = tab[t].base /\ tb.crossed = tab[t].crossed
  BY <1>1, NoPushTyped DEF Tab
<1>5. ASSUME NEW new, new.push = tab[t].push, new.known = tab[t].known, new.dirty = tab[t].dirty,
             new.get = NoGet, new.base = tab[t].base \/ new.base = 0, new.crossed = tab[t].crossed
      PROVE  TabTrue(new, file, revs)
  BY <1>1, <1>2, <1>3, <1>5, TruthFacts, SimilarTrue
<1>6. TabTrue(tb, file, revs)
  BY <1>4, <1>5
<1>7. TabTrue(shown, file, revs)
  <2>1. /\ shown.push = tab[t].push /\ shown.known = tab[t].known /\ shown.dirty = tab[t].dirty
        /\ shown.get = NoGet /\ shown.base = tab[t].base /\ shown.crossed = tab[t].crossed
    BY <1>4 DEF Tab
  <2> QED BY <2>1, <1>5
<1>8. TabTrue(unseen, file, revs)
  <2>1. /\ unseen.push = tab[t].push /\ unseen.known = tab[t].known /\ unseen.dirty = tab[t].dirty
        /\ unseen.get = NoGet /\ unseen.base = 0 /\ unseen.crossed = tab[t].crossed
    BY <1>4 DEF Tab
  <2> QED BY <2>1, <1>5
<1>9. /\ unbased \in Tab /\ unbased.get = NoGet /\ TabTrue(unbased, file, revs)
  <2>1. /\ unbased.push = tab[t].push /\ unbased.known = tab[t].known /\ unbased.dirty = tab[t].dirty
        /\ unbased.get = NoGet /\ unbased.base = 0 /\ unbased.crossed = tab[t].crossed /\ unbased \in Tab
    BY <1>4 DEF Tab
  <2> QED BY <2>1, <1>5
<1>10. ASSUME NEW s \in Slots PROVE TabTrue(Pushing(unbased, s, "again"), file, revs)
  BY <1>3, <1>9, TruthFacts, PushingTrue
<1>11. ASSUME Quiet(tb), server.state = "ok" PROVE TabTrue(taken, file, revs)
  <2>1. known.tab = [tb EXCEPT !.known = server.val, !.base = server.rev,
                               !.baseline = IF server.stamp # 0 THEN server.stamp ELSE tb.baseline]
    BY DEF ApplyCanonical
  <2>2. known.tab \in Tab
    BY <1>1, <1>4, <2>1 DEF Tab
  <2>3. /\ known.tab.push = tab[t].push /\ known.tab.known = server.val /\ known.tab.dirty = tab[t].dirty
        /\ known.tab.get = NoGet /\ known.tab.base = server.rev /\ known.tab.timer = tab[t].timer
        /\ known.tab.crossed = tab[t].crossed
    BY <1>4, <2>1 DEF Tab
  <2> HIDE DEF known
  <2>4. /\ taken.push = tab[t].push /\ taken.known = server.val /\ taken.dirty = tab[t].dirty
        /\ taken.get = NoGet /\ taken.base = server.rev /\ taken.timer = tab[t].timer
        /\ taken.crossed = tab[t].crossed
    BY <2>2, <2>3 DEF Tab
  <2>5. Quiet(tab[t]) /\ Holds(tab[t].get)
    BY <1>1, <1>4, <1>11 DEF Quiet, Holds
  <2> HIDE DEF taken
  <2> QED BY <2>4, <2>5, TruthFacts, TakeTrue
<1>12. \/ Becomes(t, tb) \/ Becomes(t, shown) \/ Becomes(t, unseen) \/ Becomes(t, unbased)
       \/ \E s \in Slots : Becomes(t, Pushing(unbased, s, "again"))
       \/ Quiet(tb) /\ server.state = "ok" /\ Becomes(t, taken)
  BY DEF FinishGet
<1> HIDE DEF tb, shown, unseen, unbased, taken, server
<1>13. PICK new : Becomes(t, new) /\ TabTrue(new, file, revs)
  BY <1>6, <1>7, <1>8, <1>9, <1>10, <1>11, <1>12
<1> QED BY <1>13, TruthTab DEF FinishGet, TruthInv

LEMMA ReadStepTrue == ASSUME TypeInv, TruthInv, NEW t \in Tabs, ServerReads(t) PROVE TruthInv'
<1> DEFINE new == [tab[t] EXCEPT !.get.phase = "answered", !.get.current = Current]
<1>1. tab[t] \in Tab /\ Current \in Snapshot
  BY TruthFacts
<1>2. Current.state = file.state /\ Current.val = file.val /\ Current.rev = file.rev
  BY DEF Current
<1>3. /\ new.push = tab[t].push /\ new.known = tab[t].known /\ new.dirty = tab[t].dirty
      /\ new.base = tab[t].base /\ new.timer = tab[t].timer /\ new.crossed = tab[t].crossed
      /\ new.get.phase = "answered" /\ new.get.old = tab[t].get.old /\ new.get.current = Current
  BY <1>1 DEF Tab, Get
<1>4. Becomes(t, new) /\ tab[t].get.phase = "sent"
  BY DEF ServerReads
<1> HIDE DEF new
<1>5. TabTrue(new, file, revs)
  BY <1>2, <1>3, <1>4, TruthFacts, ReadTrue
<1> QED BY <1>4, <1>5, TruthTab DEF ServerReads, TruthInv

-----------------------------------------------------------------------------
(* No unseen overwrite: the file moves                                       *)

\* Everything in front of the server survives another record, or a damaged file.
LEMMA MovesTrue ==
    ASSUME TypeInv, TruthInv, revs' \in Nat, revs <= revs', file'.rev \in Nat, file'.state # "missing",
           file'.state = "invalid" \/ file'.rev > revs
    PROVE  /\ \A p \in net : PostTrue(p, file', revs')
           /\ \A u \in Tabs : TabTrue(tab[u], file', revs')
<1>1. revs \in Nat /\ net \subseteq Post /\ \A u \in Tabs : tab[u] \in Tab
  BY DEF TypeInv, SharedTyped
<1>2. \A a, b, c, d : c \in Nat /\ d \in Nat /\ c <= d /\ b.rev \in Nat /\ b.state # "missing"
          /\ (b.state = "invalid" \/ b.rev > c) =>
              /\ \A p \in Post : PostTrue(p, a, c) => PostTrue(p, b, d)
              /\ \A x \in Tab : TabTrue(x, a, c) => TabTrue(x, b, d)
  BY FileMoves
<1>3. /\ \A p \in Post : PostTrue(p, file, revs) => PostTrue(p, file', revs')
      /\ \A x \in Tab : TabTrue(x, file, revs) => TabTrue(x, file', revs')
  BY <1>1, <1>2
<1> QED BY <1>1, <1>3 DEF TruthInv

LEMMA WriteMoves ==
    ASSUME TypeInv, NEW post \in Post, Write(post)
    PROVE  /\ revs' = revs + 1 /\ revs' \in Nat /\ revs <= revs'
           /\ file' = [state |-> "ok", val |-> post.posted, rev |-> revs + 1]
           /\ file'.rev \in Nat /\ file'.state = "ok" /\ file'.rev > revs /\ FileTrue(file', revs')
BY DEF TypeInv, SharedTyped, Write, FileTrue

LEMMA WritesTrue ==
    ASSUME TypeInv, TruthInv, NEW t \in Tabs, NEW s \in Slots, ServerWrites(t, s)
    PROVE  TruthInv'
<1> DEFINE push == tab[t].push[s]
           saved == [push EXCEPT !.phase = "answered", !.result = "saved", !.rev = revs + 1]
           failed == [push EXCEPT !.phase = "answered", !.result = "failed"]
           refused == [push EXCEPT !.phase = "refused"]
<1>1. /\ tab[t] \in Tab /\ push \in Push /\ push.post \in Post /\ push.phase = "sent" /\ ~Free(tab[t], s)
      /\ TabTrue(tab[t], file, revs) /\ revs \in Nat /\ revs + 1 \in Nat /\ file.rev \in Nat
      /\ FileTrue(file, revs) /\ net' = net
  BY TruthFacts DEF Push, ServerWrites, Free
<1>2. CASE Write(push.post)
  <2>1. /\ saved \in Push /\ saved.phase = "answered" /\ saved.result = "saved" /\ saved.rev = revs + 1
        /\ saved.post = push.post /\ saved.current = push.current
    BY <1>1 DEF Push
  <2>2. Becomes(t, Put(tab[t], s, saved))
    BY <1>2 DEF ServerWrites, Write, Put
  <2>3. /\ revs' = revs + 1 /\ revs' \in Nat /\ revs <= revs'
        /\ file' = [state |-> "ok", val |-> push.post.posted, rev |-> revs + 1]
        /\ file'.rev \in Nat /\ file'.state = "ok" /\ file'.rev > revs /\ FileTrue(file', revs')
    BY <1>1, <1>2, WriteMoves
  <2>4. file.state = "missing" \/ (file.state = "ok" /\ push.post.base = file.rev)
    BY <1>2 DEF Write, BasedOnFile
  <2> HIDE DEF saved
  <2>5. TabTrue(Put(tab[t], s, saved), file', revs + 1)
    BY <1>1, <2>1, <2>3, <2>4, SavedTrue
  <2>6. /\ \A p \in net : PostTrue(p, file', revs')
        /\ \A u \in Tabs : TabTrue(tab[u], file', revs')
    BY <2>3, MovesTrue
  <2>7. \A u \in Tabs : tab'[u] = IF u = t THEN Put(tab[t], s, saved) ELSE tab[u]
    BY <2>2 DEF TypeInv, Becomes
  <2>8. \A u \in Tabs : TabTrue(tab'[u], file', revs')
    BY <2>3, <2>5, <2>6, <2>7
  <2> QED BY <1>1, <2>3, <2>6, <2>8 DEF TruthInv
<1>3. CASE ~Write(push.post)
  <2>1. /\ failed \in Push /\ failed.phase = "answered" /\ failed.result = "failed"
        /\ failed.rev = push.rev /\ failed.current = push.current
    BY <1>1 DEF Push
  <2>2. /\ refused \in Push /\ refused.phase = "refused"
        /\ refused.rev = push.rev /\ refused.current = push.current
    BY <1>1 DEF Push
  <2>3. PICK new \in {failed, refused} : Becomes(t, Put(tab[t], s, new))
    BY <1>3 DEF ServerWrites, Put
  <2> HIDE DEF failed, refused
  <2>4. SnapTrue(push.current, file, revs)
    BY <1>1 DEF TabTrue
  <2>5. TabTrue(Put(tab[t], s, new), file, revs)
    BY <1>1, <2>1, <2>2, <2>4, AnswerTrue
  <2>6. UNCHANGED <<file, revs>>
    BY <1>3 DEF ServerWrites
  <2> QED BY <1>1, <2>3, <2>5, <2>6, TruthTab DEF TruthInv
<1> QED BY <1>2, <1>3

LEMMA ExplainsTrue ==
    ASSUME TypeInv, TruthInv, NEW t \in Tabs, NEW s \in Slots, ServerExplains(t, s)
    PROVE  TruthInv'
<1> DEFINE push == tab[t].push[s]
           new == [push EXCEPT !.phase = "answered", !.result = "stale", !.current = Current]
<1>1. /\ tab[t] \in Tab /\ push \in Push /\ ~Free(tab[t], s) /\ Current \in Snapshot
      /\ SnapTrue(Current, file, revs) /\ TabTrue(tab[t], file, revs)
  BY TruthFacts DEF ServerExplains, Free
<1>2. Becomes(t, Put(tab[t], s, new))
  BY DEF ServerExplains, Put
<1>3. /\ new \in Push /\ new.phase = "answered" /\ new.result = "stale"
      /\ new.rev = push.rev /\ new.current = Current
  BY <1>1 DEF Push
<1> HIDE DEF new
<1>4. TabTrue(Put(tab[t], s, new), file, revs)
  BY <1>1, <1>3, AnswerTrue
<1> QED BY <1>2, <1>4, TruthTab DEF ServerExplains, TruthInv

LEMMA OutsideTrue ==
    ASSUME HoldsPreferences, TypeInv, TruthInv,
           Damage \/ Restore \/ (\E k \in Keys : SavedElsewhere(k)) \/ (\E post \in net : LatePost(post))
    PROVE  TruthInv'
<1>1. /\ revs \in Nat /\ revs + 1 \in Nat /\ file.rev \in Nat /\ FileTrue(file, revs)
      /\ file \in [state : {"ok", "missing", "invalid"}, val : Settings, rev : Nat]
  BY DEF TypeInv, SharedTyped, TruthInv
<1>2. ASSUME UNCHANGED tab, net' \subseteq net, revs' \in Nat, revs <= revs', file'.rev \in Nat,
             file'.state # "missing", file'.state = "invalid" \/ file'.rev > revs, FileTrue(file', revs')
      PROVE  TruthInv'
  BY <1>2, MovesTrue DEF TruthInv
<1>3. CASE Damage
  <2>1. UNCHANGED <<revs, tab, net>> /\ file'.state = "invalid" /\ file'.rev = file.rev /\ file.state = "ok"
    BY <1>1, <1>3 DEF Damage
  <2>2. FileTrue(file', revs')
    BY <1>1, <2>1 DEF FileTrue
  <2> QED BY <1>1, <1>2, <2>1, <2>2
<1>4. CASE Restore
  <2>1. UNCHANGED <<tab, net>> /\ revs' = revs + 1 /\ file'.rev = revs + 1 /\ file'.state = "ok"
    BY <1>4 DEF Restore
  <2>2. FileTrue(file', revs')
    BY <1>1, <2>1 DEF FileTrue
  <2> QED BY <1>1, <1>2, <2>1, <2>2
<1>5. ASSUME NEW k \in Keys, SavedElsewhere(k) PROVE TruthInv'
  <2>1. UNCHANGED <<tab, net>> /\ revs' = revs + 1 /\ file'.rev = revs + 1 /\ file'.state = "ok"
    BY <1>1, <1>5 DEF SavedElsewhere
  <2>2. FileTrue(file', revs')
    BY <1>1, <2>1 DEF FileTrue
  <2> QED BY <1>1, <1>2, <2>1, <2>2
<1>6. ASSUME NEW post \in net, LatePost(post) PROVE TruthInv'
  <2>1. post \in Post /\ net' \subseteq net /\ UNCHANGED tab
    BY <1>6 DEF LatePost, TypeInv, SharedTyped
  <2>2. CASE Write(post)
    BY <1>2, <2>1, <2>2, WriteMoves
  <2>3. CASE UNCHANGED <<file, revs>>
    BY <2>1, <2>3 DEF TruthInv
  <2> QED BY <1>6, <2>2, <2>3 DEF LatePost
<1> QED BY <1>3, <1>4, <1>5, <1>6

LEMMA StepTrue == HoldsPreferences /\ TypeInv /\ TruthInv /\ [Next]_vars => TruthInv'
<1> SUFFICES ASSUME HoldsPreferences, TypeInv, TruthInv, [Next]_vars PROVE TruthInv'
  OBVIOUS
<1>1. ASSUME NEW t \in Tabs, TabStep(t) PROVE TruthInv'
  BY <1>1, LightTrue, PushStepTrue, FinishGetTrue, ReadStepTrue, SettleSavedTrue, FailedStepTrue, StaleTrue,
     WritesTrue, ExplainsTrue DEF TabStep
<1>2. ASSUME NEW t \in Tabs, User(t) PROVE TruthInv'
  BY <1>2, OpenTrue, CloseTrue, PushStepTrue, EditStepTrue DEF User
<1>3. ASSUME Environment PROVE TruthInv'
  BY <1>3, OutsideTrue, LightTrue, FailedStepTrue DEF Environment
<1>4. CASE UNCHANGED vars
  BY <1>4 DEF vars, TruthInv
<1> QED BY <1>1, <1>2, <1>3, <1>4 DEF Next

\* A post that is gone while the file has another record is the one that was written.
LEMMA WrittenIsGone ==
    ASSUME TypeInv, [Next]_vars, NEW post \in Posts, post \notin Posts', file'.rev # file.rev
    PROVE  /\ Write(post)
           /\ \/ post \in net
              \/ \E t \in Tabs : \E s \in Slots : tab[t].push[s].phase = "sent" /\ tab[t].push[s].post = post
<1>0. ASSUME UNCHANGED <<tab, net>> PROVE FALSE
  BY <1>0 DEF Posts, Pending
<1>1. ASSUME NEW t \in Tabs, NEW s \in Slots, ServerWrites(t, s)
      PROVE  /\ Write(post) /\ tab[t].push[s].phase = "sent" /\ tab[t].push[s].post = post
  <2>1. Write(tab[t].push[s].post) /\ tab[t].push[s].phase = "sent" /\ net' = net
    BY <1>1 DEF ServerWrites
  <2>2. ASSUME post # tab[t].push[s].post PROVE FALSE
    <3>1. PICK u \in Tabs, q \in Slots : tab[u].push[q].phase = "sent" /\ tab[u].push[q].post = post
      BY <2>1 DEF Posts, Pending
    <3>2. ~(u = t /\ q = s)
      BY <2>2, <3>1
    <3>3. tab'[u].push[q] = tab[u].push[q]
      <4>1. PICK p : Becomes(t, [tab[t] EXCEPT !.push[s] = p])
        BY <1>1, <2>1 DEF ServerWrites, Write
      <4>2. tab' = [tab EXCEPT ![t] = [tab[t] EXCEPT !.push[s] = p]] /\ tab \in [Tabs -> Tab]
        BY <4>1 DEF Becomes, TypeInv
      <4>3. [tab[t] EXCEPT !.push[s] = p].push = [tab[t].push EXCEPT ![s] = p]
            /\ tab[t].push \in [Slots -> Push]
        BY <4>2 DEF Tab
      <4> QED BY <3>2, <4>2, <4>3
    <3>4. post \in Posts'
      BY <3>1, <3>3 DEF Posts, Pending
    <3> QED BY <3>4
  <2> QED BY <2>1, <2>2
<1>2. ASSUME NEW p \in net, LatePost(p) PROVE Write(post) /\ post \in net
  <2>1. Write(p) /\ net' = net \ {p} /\ tab' = tab
    BY <1>2 DEF LatePost
  <2>2. post = p
    BY <2>1 DEF Posts, Pending
  <2> QED BY <2>1, <2>2
<1>3. \/ \E t \in Tabs : \E s \in Slots : ServerWrites(t, s)
      \/ \E p \in net : LatePost(p)
      \/ UNCHANGED file
      \/ UNCHANGED <<tab, net>>
  <2>1. ASSUME NEW t \in Tabs, TabStep(t)
        PROVE  UNCHANGED file \/ \E s \in Slots : ServerWrites(t, s)
    BY <2>1 DEF TabStep, Mount, TimerFires, FinishGet, ServerReads, SettleSaved, SettleFailed,
                SettleStale, ServerExplains
  <2>2. ASSUME NEW t \in Tabs, User(t) PROVE UNCHANGED file
    BY <2>2 DEF User, Open, Close, Focus, Edit
  <2>3. ASSUME Damage \/ Restore \/ \E k \in Keys : SavedElsewhere(k) PROVE UNCHANGED <<tab, net>>
    BY <2>3 DEF Damage, Restore, SavedElsewhere
  <2>4. ASSUME NEW t \in Tabs, FailGet(t) \/ \E s \in Slots : FailPush(t, s) PROVE UNCHANGED file
    BY <2>4 DEF FailGet, FailPush
  <2>5. Environment => UNCHANGED file \/ UNCHANGED <<tab, net>> \/ \E p \in net : LatePost(p)
    BY <2>3, <2>4 DEF Environment
  <2>6. UNCHANGED vars => UNCHANGED file
    BY DEF vars
  <2> QED BY <2>1, <2>2, <2>5, <2>6 DEF Next
<1> QED BY <1>0, <1>1, <1>2, <1>3

\* A tab whose pushes were one after the other, in a browser whose restores hold
\* preferences, writes nothing over a record it has not seen: what its post does not
\* change is as in the record the post names.
THEOREM SeenBeforeOverwrite == Spec => NoUnseenOverwriteInTurn
<1> DEFINE Inv == TypeInv /\ (HoldsPreferences => TruthInv)
<1>1. Init => Inv
  BY InitGood, InitTrue
<1>2. Inv /\ [Next]_vars => Inv'
  BY StepGood, StepTrue
<1>3. Inv /\ [Next]_vars =>
          [\A post \in Posts \ Posts' : HoldsPreferences /\ ~post.crossed => ~Overreaches(post)]_vars
  <2> SUFFICES ASSUME Inv, [Next]_vars, NEW post \in Posts, post \notin Posts', HoldsPreferences,
                      ~post.crossed, Overreaches(post)
               PROVE  FALSE
    OBVIOUS
  <2>1. file.state = "ok" /\ file'.rev # file.rev
    BY DEF Overreaches
  <2>2. PostTrue(post, file, revs) /\ Write(post)
    BY <2>1, WrittenIsGone DEF TruthInv, TabTrue
  <2>3. file'.val = post.posted /\ post.base = file.rev
    BY <2>1, <2>2 DEF Write, BasedOnFile
  <2> QED BY <2>1, <2>2, <2>3 DEF PostTrue, Agrees, Overreaches
<1> QED BY <1>1, <1>2, <1>3, PTL DEF Spec, NoUnseenOverwriteInTurn
-----------------------------------------------------------------------------
(* A restore wins: what follows from the record it left having revision r0.  *)

\* Settings D of v hold edits made after the restore.
Since(v, D, n, b) == \A k \in D : v[k] \in 1 .. n /\ b[v[k]] = 1

\* A read that saw the restore names it.
SnapEra(c, m, r0) == c.stamp <= m /\ (c.rev >= r0 => c.stamp = 1)

\* Who knows a revision since the restore has taken the restore over.
PushEra(push, knows, m, r0, n, b) ==
    /\ push.phase = "sent" /\ push.post.base >= r0 => knows /\ Since(push.post.posted, push.post.dirty, n, b)
    /\ push.phase = "answered" /\ push.result = "saved" /\ push.rev >= r0 => knows
    /\ SnapEra(push.current, m, r0)
TabEra(tb, m, r0, n, b) ==
    /\ tb.baseline <= m
    /\ tb.base >= r0 => tb.baseline = 1
    /\ tb.baseline = 1 => Since(tb.known, tb.dirty, n, b)
    /\ SnapEra(tb.get.current, m, r0)
    /\ \A s \in Slots : PushEra(tb.push[s], tb.baseline = 1, m, r0, n, b)

StorageEra(st, m, n, b) ==
    /\ st.adopted <= m /\ st.pending.stamp <= m
    /\ st.pending.stamp = 1 => Since(st.pending.edits, DOMAIN st.pending.edits, n, b)

NetEra(posts, m, r0, n, b) ==
    \A p \in posts : p.base >= r0 => m = 1 /\ Since(p.posted, p.dirty, n, b)

\* Before the restore, r0 is the revision it would have.
Era(r0) ==
    /\ marker <= 1 /\ r0 >= 1
    /\ marker = 0 => r0 = revs + 1
    /\ \A e \in Edits : born[e] <= marker
    /\ marker = 1 => file.state # "missing" /\ file.rev >= r0
    /\ StorageEra(storage, marker, edits, born)
    /\ NetEra(net, marker, r0, edits, born)
    /\ \A t \in Tabs : TabEra(tab[t], marker, r0, edits, born)
RestoreInv == \E r0 \in Nat : Era(r0)

Ages(m, r0) == m \in {0, 1} /\ r0 \in Nat /\ r0 >= 1

LEMMA SinceMore ==
    ASSUME NEW v, NEW D, NEW n \in Nat, NEW b, NEW n1 \in Nat, NEW b1,
           n <= n1, \A i \in 1 .. n : b1[i] = b[i], Since(v, D, n, b)
    PROVE  Since(v, D, n1, b1)
BY DEF Since

\* More edits and later revisions change nothing.
LEMMA EraGrows ==
    ASSUME NEW m, NEW r0 \in Nat, NEW r1 \in Nat, NEW n \in Nat, NEW b, NEW n1 \in Nat, NEW b1,
           r0 <= r1, n <= n1, \A i \in 1 .. n : b1[i] = b[i]
    PROVE  /\ \A st : StorageEra(st, m, n, b) => StorageEra(st, m, n1, b1)
           /\ \A posts \in SUBSET Post : NetEra(posts, m, r0, n, b) => NetEra(posts, m, r1, n1, b1)
           /\ \A tb \in Tab : TabEra(tb, m, r0, n, b) => TabEra(tb, m, r1, n1, b1)
<1>1. \A v, D : Since(v, D, n, b) => Since(v, D, n1, b1)
  BY SinceMore
<1>2. ASSUME NEW c \in Snapshot, SnapEra(c, m, r0) PROVE SnapEra(c, m, r1)
  BY <1>2 DEF SnapEra, Snapshot
<1>3. ASSUME NEW p \in Push, NEW knows, PushEra(p, knows, m, r0, n, b) PROVE PushEra(p, knows, m, r1, n1, b1)
  <2>1. p.post.base \in Nat /\ p.rev \in Nat /\ p.current \in Snapshot
    BY DEF Push, Post
  <2> QED BY <1>1, <1>2, <1>3, <2>1 DEF PushEra
<1>4. ASSUME NEW tb \in Tab, TabEra(tb, m, r0, n, b) PROVE TabEra(tb, m, r1, n1, b1)
  <2>1. tb.base \in Nat /\ tb.get.current \in Snapshot /\ \A s \in Slots : tb.push[s] \in Push
    BY DEF Tab, Get
  <2>2. \A s \in Slots : PushEra(tb.push[s], tb.baseline = 1, m, r1, n1, b1)
    BY <1>3, <1>4, <2>1 DEF TabEra
  <2> QED BY <1>1, <1>2, <1>4, <2>1, <2>2 DEF TabEra
<1>5. ASSUME NEW posts \in SUBSET Post, NetEra(posts, m, r0, n, b) PROVE NetEra(posts, m, r1, n1, b1)
  <2>1. \A p \in posts : p.base \in Nat
    BY DEF Post
  <2> QED BY <1>1, <1>5, <2>1 DEF NetEra
<1>6. ASSUME NEW st, StorageEra(st, m, n, b) PROVE StorageEra(st, m, n1, b1)
  BY <1>1, <1>6 DEF StorageEra
<1> QED BY <1>4, <1>5, <1>6

\* A tab that keeps what it knows of the restore, or takes it over.
LEMMA EraSimilar ==
    ASSUME NEW m, NEW r0, NEW n, NEW b, NEW tb, TabEra(tb, m, r0, n, b), NEW new,
           new.baseline <= m, tb.baseline = 1 => new.baseline = 1,
           new.base >= r0 => new.baseline = 1,
           new.baseline = 1 => Since(new.known, new.dirty, n, b),
           SnapEra(new.get.current, m, r0),
           \A s \in Slots : \/ SamePush(new.push[s], tb.push[s])
                            \/ PushEra(new.push[s], new.baseline = 1, m, r0, n, b)
    PROVE  TabEra(new, m, r0, n, b)
<1>1. \A s \in Slots : PushEra(new.push[s], new.baseline = 1, m, r0, n, b)
  BY DEF TabEra, PushEra, SamePush
<1> QED BY <1>1 DEF TabEra

LEMMA NothingEra ==
    ASSUME NEW m, NEW r0, Ages(m, r0), NEW n, NEW b, NEW knows
    PROVE  /\ SnapEra(NoSnapshot, m, r0) /\ SnapEra(NoGet.current, m, r0) /\ SnapEra(Asked.current, m, r0)
           /\ PushEra(NoPush, knows, m, r0, n, b)
<1>1. SnapEra(NoSnapshot, m, r0)
  BY DEF SnapEra, NoSnapshot, Ages
<1>2. /\ NoGet.current = NoSnapshot /\ Asked.current = NoSnapshot
      /\ NoPush.current = NoSnapshot /\ NoPush.phase = "none"
  BY DEF NoGet, Asked, NoPush
<1> QED BY <1>1, <1>2 DEF PushEra

\* Whatever keeps the settings, the pending edits and the known revision.
LEMMA EraKeeps ==
    ASSUME NEW m, NEW r0, Ages(m, r0), NEW n, NEW b, NEW tb, TabEra(tb, m, r0, n, b), NEW new,
           new.known = tb.known, new.dirty = tb.dirty, new.baseline = tb.baseline,
           new.base = tb.base \/ new.base = 0,
           new.get.current = tb.get.current \/ new.get = NoGet \/ new.get = Asked,
           \A s \in Slots : \/ SamePush(new.push[s], tb.push[s])
                            \/ PushEra(new.push[s], tb.baseline = 1, m, r0, n, b)
    PROVE  TabEra(new, m, r0, n, b)
<1>1. new.base >= r0 => new.baseline = 1
  BY DEF TabEra, Ages
<1>2. SnapEra(new.get.current, m, r0)
  BY NothingEra DEF TabEra
<1> QED BY <1>1, <1>2, EraSimilar DEF TabEra

LEMMA SentEra ==
    ASSUME NEW m, NEW r0, Ages(m, r0), NEW n, NEW b, NEW tb \in Tab,
           tb.base >= r0 => tb.baseline = 1,
           tb.baseline = 1 => Since(tb.known, tb.dirty, n, b),
           NEW attempt \in 1 .. 2, NEW then \in {"stop", "adopt", "again"}
    PROVE  PushEra(Sent(tb, attempt, then), tb.baseline = 1, m, r0, n, b)
<1> DEFINE push == Sent(tb, attempt, then)
<1>1. push.phase = "sent" /\ push.post.posted = tb.known /\ push.post.dirty = tb.dirty /\ push.post.base = tb.base
  BY SentTyped
<1>2. push.current = NoSnapshot
  BY DEF Sent, NoPush
<1> HIDE DEF push
<1> QED BY <1>1, <1>2, NothingEra DEF PushEra, push

LEMMA PushingEra ==
    ASSUME NEW m, NEW r0, Ages(m, r0), NEW n, NEW b, NEW tb \in Tab, TabEra(tb, m, r0, n, b),
           NEW s \in Slots, NEW then \in {"stop", "adopt", "again"}
    PROVE  TabEra(Pushing(tb, s, then), m, r0, n, b)
<1> DEFINE crossed == tb.crossed \/ \E r \in Slots : ~Free(tb, r)
           next == [tb EXCEPT !.timer = FALSE, !.crossed = crossed]
           new == Pushing(tb, s, then)
<1>1. crossed \in BOOLEAN
  BY DEF Tab
<1> HIDE DEF crossed
<1>2. /\ next \in Tab /\ next.known = tb.known /\ next.dirty = tb.dirty /\ next.push = tb.push
      /\ next.base = tb.base /\ next.baseline = tb.baseline /\ next.get = tb.get
  BY <1>1 DEF Tab
<1> DEFINE push == Sent(next, 1, then)
<1>4. new = [next EXCEPT !.push[s] = push]
  BY DEF Pushing, crossed
<1> HIDE DEF next
<1>3. PushEra(push, tb.baseline = 1, m, r0, n, b)
  <2>1. next.base >= r0 => next.baseline = 1
    BY <1>2 DEF TabEra
  <2>2. next.baseline = 1 => Since(next.known, next.dirty, n, b)
    BY <1>2 DEF TabEra
  <2>3. 1 \in 1 .. 2
    OBVIOUS
  <2>4. PushEra(push, next.baseline = 1, m, r0, n, b)
    BY <1>2, <2>1, <2>2, <2>3, SentEra
  <2> QED BY <1>2, <2>4
<1> HIDE DEF push
<1>5. /\ new.known = tb.known /\ new.dirty = tb.dirty /\ new.base = tb.base /\ new.baseline = tb.baseline
      /\ new.get = tb.get /\ new.push = [tb.push EXCEPT ![s] = push]
  BY <1>2, <1>4 DEF Tab
<1> HIDE DEF new
<1>6. \A r \in Slots : new.push[r] = IF r = s THEN push ELSE tb.push[r]
  BY <1>5 DEF Tab
<1>7. \A r \in Slots : SamePush(new.push[r], tb.push[r]) \/ PushEra(new.push[r], tb.baseline = 1, m, r0, n, b)
  BY <1>3, <1>6 DEF SamePush
<1>8. TabEra(new, m, r0, n, b)
  BY <1>5, <1>7, EraKeeps
<1> QED BY <1>8 DEF new

LEMMA ScheduleEra ==
    ASSUME NEW m, NEW r0, Ages(m, r0), NEW n, NEW b, NEW tb \in Tab, TabEra(tb, m, r0, n, b)
    PROVE  TabEra(Schedule(tb), m, r0, n, b)
<1> DEFINE new == Schedule(tb)
           pushes == [s \in Slots |-> [tb.push[s] EXCEPT !.old = ~Free(tb, s)]]
           get == [tb.get EXCEPT !.old = tb.get.phase # "none"]
<1>1. \A s \in Slots : SamePush(pushes[s], tb.push[s])
  <2>1. ASSUME NEW p \in Push, NEW old PROVE SamePush([p EXCEPT !.old = old], p)
    BY DEF Push, SamePush
  <2>2. \A s \in Slots : tb.push[s] \in Push
    BY DEF Tab
  <2> QED BY <2>1, <2>2
<1>2. get.current = tb.get.current
  BY DEF Tab, Get
<1>3. new = [tb EXCEPT !.timer = TRUE, !.status = "saving", !.push = pushes, !.get = get]
  BY DEF Schedule, Tab
<1> HIDE DEF pushes, get, new
<1>4. /\ new.known = tb.known /\ new.dirty = tb.dirty /\ new.baseline = tb.baseline
      /\ new.base = tb.base /\ new.push = pushes /\ new.get = get
  BY <1>3 DEF Tab
<1>5. TabEra(new, m, r0, n, b)
  BY <1>1, <1>2, <1>4, EraKeeps
<1> QED BY <1>5 DEF new

LEMMA EndsEra ==
    ASSUME NEW m, NEW r0, Ages(m, r0), NEW n, NEW b, NEW tb \in Tab, TabEra(tb, m, r0, n, b), NEW s \in Slots
    PROVE  TabEra(Failed(tb, s), m, r0, n, b) /\ TabEra(Done(tb, s), m, r0, n, b)
<1> DEFINE ended == [tb EXCEPT !.push[s] = NoPush, !.status = "error"]
           get == IF tb.push[s].then = "adopt" THEN Asked ELSE tb.get
           done == [tb EXCEPT !.push[s] = NoPush, !.status = "saved", !.get = get]
<1>1. /\ ended.known = tb.known /\ ended.dirty = tb.dirty /\ ended.base = tb.base /\ ended.baseline = tb.baseline
      /\ ended.get = tb.get /\ ended.push = [tb.push EXCEPT ![s] = NoPush]
  BY DEF Tab
<1>2. /\ done.known = tb.known /\ done.dirty = tb.dirty /\ done.base = tb.base /\ done.baseline = tb.baseline
      /\ done.get = get /\ done.push = [tb.push EXCEPT ![s] = NoPush]
  BY DEF Tab
<1>3. \A q \in Slots : [tb.push EXCEPT ![s] = NoPush][q] = IF q = s THEN NoPush ELSE tb.push[q]
  BY DEF Tab
<1>4. done = Done(tb, s)
  BY DEF Done, Tab
<1>5. ended \in Tab
  BY NoPushTyped DEF Tab
<1>6. (get = tb.get \/ get = Asked) /\ (Failed(tb, s) = ended \/ Failed(tb, s) = Schedule(ended))
  BY DEF Failed
<1>7. \A q \in Slots : \/ SamePush([tb.push EXCEPT ![s] = NoPush][q], tb.push[q])
                       \/ PushEra([tb.push EXCEPT ![s] = NoPush][q], tb.baseline = 1, m, r0, n, b)
  BY <1>3, NothingEra DEF SamePush
<1> HIDE DEF ended, done, get
<1>8. TabEra(ended, m, r0, n, b)
  BY <1>1, <1>7, EraKeeps
<1>9. TabEra(done, m, r0, n, b)
  BY <1>2, <1>6, <1>7, EraKeeps
<1>10. TabEra(Schedule(ended), m, r0, n, b)
  BY <1>5, <1>8, ScheduleEra
<1> QED BY <1>4, <1>6, <1>8, <1>9, <1>10

LEMMA AdoptingEra ==
    ASSUME NEW m, NEW r0, Ages(m, r0), NEW n, NEW b, NEW tb \in Tab, TabEra(tb, m, r0, n, b),
           NEW new \in Adopting(tb)
    PROVE  TabEra(new, m, r0, n, b)
<1> DEFINE pushes == [s \in Slots |-> IF tb.push[s].then = "adopt"
                                      THEN [tb.push[s] EXCEPT !.then = "again"] ELSE tb.push[s]]
           out == [tb EXCEPT !.get = NoGet, !.push = pushes]
           asked == [out EXCEPT !.get = Asked]
<1>1. \A s \in Slots : pushes[s] \in Push /\ SamePush(pushes[s], tb.push[s])
  <2>1. ASSUME NEW p \in Push
        PROVE  [p EXCEPT !.then = "again"] \in Push /\ SamePush([p EXCEPT !.then = "again"], p) /\ SamePush(p, p)
    BY DEF Push, SamePush
  <2>2. \A s \in Slots : tb.push[s] \in Push
    BY DEF Tab
  <2> QED BY <2>1, <2>2
<1>2. pushes \in [Slots -> Push]
  BY <1>1
<1>3. Outdated(tb) = out
  BY DEF Outdated, Tab
<1> HIDE DEF pushes
<1>4. /\ out \in Tab /\ out.known = tb.known /\ out.dirty = tb.dirty /\ out.push = pushes
      /\ out.get = NoGet /\ out.base = tb.base /\ out.baseline = tb.baseline
  BY <1>2, NoPushTyped DEF Tab
<1>5. /\ asked.known = tb.known /\ asked.dirty = tb.dirty /\ asked.push = pushes
      /\ asked.get = Asked /\ asked.base = tb.base /\ asked.baseline = tb.baseline
  BY <1>2, <1>4, NoPushTyped DEF Tab
<1> HIDE DEF out, asked
<1>6. TabEra(out, m, r0, n, b)
  BY <1>1, <1>4, EraKeeps
<1>7. TabEra(asked, m, r0, n, b)
  BY <1>1, <1>5, EraKeeps
<1>8. ASSUME NEW s \in Slots PROVE TabEra(Pushing(out, s, "adopt"), m, r0, n, b)
  BY <1>4, <1>6, PushingEra
<1>9. (\E s \in Slots : new = Pushing(out, s, "adopt")) \/ new = asked
  BY <1>3 DEF Adopting, asked
<1> QED BY <1>7, <1>8, <1>9

\* A push that is replaced.
LEMMA PutEra ==
    ASSUME NEW m, NEW r0, Ages(m, r0), NEW n, NEW b, NEW tb \in Tab, TabEra(tb, m, r0, n, b), NEW s \in Slots,
           NEW push, PushEra(push, tb.baseline = 1, m, r0, n, b)
    PROVE  TabEra(Put(tb, s, push), m, r0, n, b)
<1> DEFINE new == Put(tb, s, push)
<1>1. /\ new.known = tb.known /\ new.dirty = tb.dirty /\ new.base = tb.base /\ new.baseline = tb.baseline
      /\ new.get = tb.get /\ new.push = [tb.push EXCEPT ![s] = push]
  BY DEF Put, Tab
<1> HIDE DEF new
<1>2. \A r \in Slots : new.push[r] = IF r = s THEN push ELSE tb.push[r]
  BY <1>1 DEF Tab
<1>3. \A r \in Slots : SamePush(new.push[r], tb.push[r]) \/ PushEra(new.push[r], tb.baseline = 1, m, r0, n, b)
  BY <1>2 DEF SamePush
<1>4. TabEra(new, m, r0, n, b)
  BY <1>1, <1>3, EraKeeps
<1> QED BY <1>4 DEF new

\* What browser storage keeps, and what a tab takes up from it.
LEMMA StorageEras ==
    ASSUME NEW m, NEW r0, Ages(m, r0), NEW n, NEW b, NEW st \in Storage, StorageEra(st, m, n, b)
    PROVE  /\ st.adopted = 1 => Since(Recorded(st), DOMAIN Recorded(st), n, b)
           /\ \A c \in Settings : StorageEra([st EXCEPT !.cache = c], m, n, b)
           /\ \A new \in UNION {[J -> Edits] : J \in SUBSET Keys} :
                 (st.adopted = 1 => Since(new, DOMAIN new, n, b)) => StorageEra(Record(st, new), m, n, b)
<1>1. st.adopted = 1 => Since(Recorded(st), DOMAIN Recorded(st), n, b)
  BY NothingPending DEF StorageEra, Recorded, Since
<1>2. ASSUME NEW c \in Settings PROVE StorageEra([st EXCEPT !.cache = c], m, n, b)
  <2>1. [st EXCEPT !.cache = c].adopted = st.adopted /\ [st EXCEPT !.cache = c].pending = st.pending
    BY DEF Storage
  <2> QED BY <2>1 DEF StorageEra
<1>3. ASSUME NEW new \in UNION {[J -> Edits] : J \in SUBSET Keys},
             st.adopted = 1 => Since(new, DOMAIN new, n, b)
      PROVE  StorageEra(Record(st, new), m, n, b)
  <2> DEFINE pending == IF DOMAIN new = {} THEN NoEdits ELSE [stamp |-> st.adopted, edits |-> new]
  <2>1. Record(st, new).adopted = st.adopted /\ Record(st, new).pending = pending
    BY DEF Record, Storage
  <2>2. CASE DOMAIN new = {}
    <3>1. pending.stamp = 0
      BY <2>2 DEF NoEdits
    <3> QED BY <2>1, <3>1 DEF StorageEra, Ages
  <2>3. CASE DOMAIN new # {}
    <3>1. pending.stamp = st.adopted /\ pending.edits = new
      BY <2>3
    <3> HIDE DEF pending
    <3> QED BY <1>3, <2>1, <3>1 DEF StorageEra
  <2> QED BY <2>2, <2>3
<1> QED BY <1>1, <1>2, <1>3

LEMMA RecordedEra ==
    ASSUME NEW m, NEW r0, Ages(m, r0), NEW n, NEW b, NEW st \in Storage, StorageEra(st, m, n, b)
    PROVE  StorageEra(Record(st, Recorded(st)), m, n, b)
BY StorageEras, RecordedTyped

LEMMA AdoptedEra ==
    ASSUME NEW m, NEW r0, Ages(m, r0), NEW n, NEW b, NEW st \in Storage, StorageEra(st, m, n, b),
           NEW stamp \in Nat, stamp <= m
    PROVE  StorageEra(Adopted(st, stamp), m, n, b)
<1> DEFINE next == [st EXCEPT !.adopted = stamp]
<1>1. next \in Storage /\ next.adopted = stamp /\ next.pending = st.pending
  BY DEF Storage
<1>2. Adopted(st, stamp) = Record(next, Recorded(next))
  BY DEF Adopted
<1> HIDE DEF next
<1>3. StorageEra(next, m, n, b)
  BY <1>1 DEF StorageEra
<1> QED BY <1>1, <1>2, <1>3, RecordedEra

LEMMA MergedEra ==
    ASSUME NEW m, NEW r0, Ages(m, r0), NEW n, NEW b, NEW st \in Storage, StorageEra(st, m, n, b),
           NEW tb, TabTyped(tb), tb.baseline = 1 => Since(tb.known, tb.dirty, n, b)
    PROVE  StorageEra(RecordMerged(st, tb), m, n, b)
<1> DEFINE old == Recorded(st)
           new == [k \in DOMAIN old \cup tb.dirty |-> IF k \in tb.dirty THEN tb.known[k] ELSE old[k]]
<1>1. DOMAIN old \cup tb.dirty \in SUBSET Keys
  BY RecordedTyped DEF TabTyped, Tab
<1>2. new \in [DOMAIN old \cup tb.dirty -> Edits]
  BY RecordedTyped DEF TabTyped
<1>3. new \in UNION {[J -> Edits] : J \in SUBSET Keys}
  BY <1>1, <1>2, PendingFunction
<1>4. st.adopted = 1 => Since(old, DOMAIN old, n, b)
  BY StorageEras
<1>5. ASSUME tb.baseline = st.adopted, st.adopted = 1 PROVE Since(new, DOMAIN new, n, b)
  BY <1>4, <1>5 DEF Since
<1>6. RecordMerged(st, tb) = IF tb.baseline # st.adopted THEN st ELSE Record(st, new)
  BY DEF RecordMerged
<1> HIDE DEF new
<1>7. tb.baseline = st.adopted => StorageEra(Record(st, new), m, n, b)
  BY <1>3, <1>5, StorageEras
<1> QED BY <1>6, <1>7

LEMMA ReleasedEra ==
    ASSUME NEW m, NEW r0, Ages(m, r0), NEW n, NEW b, NEW st \in Storage, StorageEra(st, m, n, b),
           NEW tb, NEW posted
    PROVE  StorageEra(Released(st, tb, posted), m, n, b)
<1> DEFINE old == Recorded(st)
           kept == {k \in DOMAIN old : k \in StillPosted(tb, posted) => old[k] # posted[k]}
           new == [k \in kept |-> old[k]]
<1>1. kept \in SUBSET Keys /\ new \in [kept -> Edits]
  BY RecordedTyped
<1>2. new \in UNION {[J -> Edits] : J \in SUBSET Keys}
  BY <1>1, PendingFunction
<1>3. st.adopted = 1 => Since(old, DOMAIN old, n, b)
  BY StorageEras
<1>4. st.adopted = 1 => Since(new, DOMAIN new, n, b)
  BY <1>3 DEF Since
<1>5. Released(st, tb, posted) = Record(st, new)
  BY DEF Released
<1> HIDE DEF new
<1> QED BY <1>2, <1>4, <1>5, StorageEras

\* What the server holds takes a restore over, or leaves the edits as old as they are.
LEMMA CanonicalEra ==
    ASSUME NEW m, NEW r0, Ages(m, r0), NEW n, NEW b, NEW st \in Storage, StorageEra(st, m, n, b),
           NEW tb \in Tab, TabEra(tb, m, r0, n, b), NEW server \in Snapshot, SnapEra(server, m, r0),
           NEW settings \in Settings, \A k \in tb.dirty : settings[k] = tb.known[k],
           server.stamp = 1 => tb.baseline = 1 \/ tb.dirty = {}
    PROVE  LET next == ApplyCanonical(tb, st, settings, server)
           IN  TabEra(next.tab, m, r0, n, b) /\ StorageEra(next.storage, m, n, b)
<1> DEFINE baseline == IF server.stamp # 0 THEN server.stamp ELSE tb.baseline
           new == [tb EXCEPT !.known = settings, !.base = server.rev, !.baseline = baseline]
           cached == [st EXCEPT !.cache = settings]
           next == ApplyCanonical(tb, st, settings, server)
<1>1. /\ new.known = settings /\ new.base = server.rev /\ new.dirty = tb.dirty
      /\ new.push = tb.push /\ new.get = tb.get /\ new.baseline = baseline
  BY DEF Tab
<1>2. cached \in Storage /\ StorageEra(cached, m, n, b)
  BY StorageEras DEF Storage
<1>3. server.stamp \in Nat /\ server.stamp <= m /\ (server.rev >= r0 => server.stamp = 1)
  BY DEF Snapshot, SnapEra
<1>4. StorageEra(Adopted(cached, server.stamp), m, n, b)
  BY <1>2, <1>3, AdoptedEra
<1>5. next.tab = new /\ (next.storage = cached \/ next.storage = Adopted(cached, server.stamp))
  BY DEF ApplyCanonical
<1>6. tb.baseline <= m /\ (tb.baseline = 1 => Since(tb.known, tb.dirty, n, b)) /\ SnapEra(tb.get.current, m, r0)
  BY DEF TabEra
<1>7. baseline <= m /\ (tb.baseline = 1 => baseline = 1)
  BY <1>3, <1>6 DEF Ages
<1>8. server.rev >= r0 => baseline = 1
  BY <1>3
<1>9. baseline = 1 => Since(settings, tb.dirty, n, b)
  BY <1>6 DEF Since
<1>10. \A s \in Slots : SamePush(new.push[s], tb.push[s])
  BY <1>1 DEF SamePush
<1> HIDE DEF new, cached, next, baseline
<1>11. TabEra(new, m, r0, n, b)
  BY <1>1, <1>6, <1>7, <1>8, <1>9, <1>10, EraSimilar
<1> QED BY <1>2, <1>4, <1>5, <1>11 DEF next

LEMMA RebaseEra ==
    ASSUME NEW m, NEW r0, Ages(m, r0), NEW n, NEW b, NEW st \in Storage, StorageEra(st, m, n, b),
           NEW tb \in Tab, TabEra(tb, m, r0, n, b), NEW server \in Snapshot, SnapEra(server, m, r0)
    PROVE  LET next == RebaseOntoServer(tb, st, server)
           IN  TabEra(next.tab, m, r0, n, b) /\ StorageEra(next.storage, m, n, b)
<1> DEFINE next == RebaseOntoServer(tb, st, server)
           unbased == [tb EXCEPT !.base = 0]
           cleared == [tb EXCEPT !.dirty = {}]
           recorded == Record(st, Recorded(st))
<1>1. server.val \in Settings /\ Rebased(server, tb) \in Settings
  BY DEF Snapshot, Tab, Rebased, Settings
<1>2. CASE server.state = "missing"
  <2>1. next.tab = unbased /\ next.storage = st
    BY <1>2 DEF RebaseOntoServer
  <2>2. /\ unbased.known = tb.known /\ unbased.dirty = tb.dirty /\ unbased.baseline = tb.baseline
        /\ unbased.base = 0 /\ unbased.get = tb.get /\ unbased.push = tb.push
    BY DEF Tab
  <2>3. \A s \in Slots : SamePush(unbased.push[s], tb.push[s])
    BY <2>2 DEF SamePush
  <2> HIDE DEF unbased, next
  <2>4. TabEra(unbased, m, r0, n, b)
    BY <2>2, <2>3, EraKeeps
  <2> QED BY <2>1, <2>4 DEF next
<1>3. CASE server.state # "missing" /\ UnseenByTab(tb, st, server)
  <2>1. next = ApplyCanonical(cleared, recorded, server.val, server)
    BY <1>3 DEF RebaseOntoServer
  <2>2. /\ cleared \in Tab /\ cleared.known = tb.known /\ cleared.dirty = {} /\ cleared.baseline = tb.baseline
        /\ cleared.base = tb.base /\ cleared.get = tb.get /\ cleared.push = tb.push
    BY DEF Tab
  <2>3. \A s \in Slots : SamePush(cleared.push[s], tb.push[s])
    BY <2>2 DEF SamePush
  <2>4. recorded \in Storage /\ StorageEra(recorded, m, n, b)
    BY RecordedEra, RecordTyped, RecordedTyped
  <2> HIDE DEF cleared, recorded, next
  <2>5. tb.baseline <= m /\ (tb.base >= r0 => tb.baseline = 1) /\ SnapEra(tb.get.current, m, r0)
    BY DEF TabEra
  <2>6. Since(cleared.known, cleared.dirty, n, b)
    BY <2>2 DEF Since
  <2>7. TabEra(cleared, m, r0, n, b)
    BY <2>2, <2>3, <2>5, <2>6, EraSimilar
  <2>8. /\ TabEra(ApplyCanonical(cleared, recorded, server.val, server).tab, m, r0, n, b)
        /\ StorageEra(ApplyCanonical(cleared, recorded, server.val, server).storage, m, n, b)
    BY <1>1, <2>2, <2>4, <2>7, CanonicalEra
  <2> QED BY <2>1, <2>8 DEF next
<1>4. CASE server.state # "missing" /\ ~UnseenByTab(tb, st, server)
  <2>1. next = ApplyCanonical(tb, st, Rebased(server, tb), server)
    BY <1>4 DEF RebaseOntoServer
  <2>2. server.stamp = 1 => tb.baseline = 1
    BY <1>4 DEF UnseenByTab
  <2>3. \A k \in tb.dirty : Rebased(server, tb)[k] = tb.known[k]
    BY DEF Rebased, Tab
  <2> HIDE DEF next
  <2>4. /\ TabEra(ApplyCanonical(tb, st, Rebased(server, tb), server).tab, m, r0, n, b)
        /\ StorageEra(ApplyCanonical(tb, st, Rebased(server, tb), server).storage, m, n, b)
    BY <1>1, <2>2, <2>3, CanonicalEra
  <2> QED BY <2>1, <2>4 DEF next
<1> QED BY <1>2, <1>3, <1>4

-----------------------------------------------------------------------------
(* A restore wins: the tabs' steps                                           *)

LEMMA EraFacts ==
    ASSUME TypeInv, TruthInv, NEW r0 \in Nat, Era(r0), NEW t \in Tabs
    PROVE  /\ Ages(marker, r0) /\ tab[t] \in Tab /\ TabTyped(tab[t]) /\ TabGood(tab[t])
           /\ TabEra(tab[t], marker, r0, edits, born)
           /\ storage \in Storage /\ StorageEra(storage, marker, edits, born)
           /\ NetEra(net, marker, r0, edits, born)
           /\ Current \in Snapshot /\ SnapEra(Current, marker, r0)
           /\ \A s \in Slots : /\ tab[t].push[s] \in Push
                               /\ PushEra(tab[t].push[s], tab[t].baseline = 1, marker, r0, edits, born)
<1>1. marker \in Nat /\ revs \in Nat /\ file.rev \in Nat /\ file.rev <= revs
  BY TruthFacts DEF TypeInv, SharedTyped, FileTrue
<1>2. Ages(marker, r0)
  BY <1>1 DEF Era, Ages
<1>3. Current.stamp = marker /\ Current.rev = file.rev
  BY DEF Current
<1>4. SnapEra(Current, marker, r0)
  BY <1>1, <1>2, <1>3 DEF SnapEra, Era, Ages
<1> QED BY <1>2, <1>4, TruthFacts DEF Era, TypeInv, TabGood, TabEra

LEMMA EraTab ==
    ASSUME TypeInv, NEW r0 \in Nat, Era(r0), NEW t \in Tabs, NEW tb, Becomes(t, tb),
           UNCHANGED <<file, revs, marker, edits, born>>, TabEra(tb, marker, r0, edits, born),
           StorageEra(storage', marker, edits, born), NetEra(net', marker, r0, edits, born)
    PROVE  Era(r0)'
<1>1. \A u \in Tabs : tab'[u] = IF u = t THEN tb ELSE tab[u]
  BY DEF TypeInv, Becomes
<1>2. \A u \in Tabs : TabEra(tab'[u], marker, r0, edits, born)
  BY <1>1 DEF Era
<1> QED BY <1>2 DEF Era

LEMMA ClosedEra ==
    ASSUME NEW m, NEW r0, Ages(m, r0), NEW n, NEW b, NEW tb, tb.push = Closed.push, tb.get = NoGet,
           tb.base = 0, tb.baseline <= m, tb.baseline = 1 => Since(tb.known, tb.dirty, n, b)
    PROVE  TabEra(tb, m, r0, n, b)
<1>1. \A s \in Slots : tb.push[s] = NoPush
  BY DEF Closed
<1> QED BY <1>1, NothingEra DEF TabEra, Ages

LEMMA OpenEra ==
    ASSUME TypeInv, TruthInv, NEW r0 \in Nat, Era(r0), NEW t \in Tabs, Open(t)
    PROVE  Era(r0)'
<1> DEFINE old == Recorded(storage)
           known == [k \in Keys |-> IF k \in DOMAIN old THEN old[k] ELSE storage.cache[k]]
           opened == [Closed EXCEPT !.open = TRUE, !.known = known,
                                    !.dirty = DOMAIN old, !.baseline = storage.adopted]
           kept == Record(storage, old)
<1>1. MaxEdits \in Nat /\ storage \in Storage /\ storage.cache \in Settings /\ storage.adopted \in Nat
  BY PreferencesAssumption DEF TypeInv, SharedTyped, Storage
<1>2. DOMAIN old \in SUBSET Keys /\ old \in [DOMAIN old -> Edits] /\ kept \in Storage
  BY <1>1, RecordedTyped, RecordTyped
<1>3. storage.adopted = 1 => Since(old, DOMAIN old, edits, born)
  BY <1>1, EraFacts, StorageEras
<1>4. StorageEra(kept, marker, edits, born)
  BY <1>1, EraFacts, RecordedEra
<1> HIDE DEF old, kept
<1>5. known \in Settings /\ \A k \in DOMAIN old : known[k] = old[k]
  BY <1>1, <1>2 DEF Settings, Edits
<1> HIDE DEF known
<1>6. Closed \in Tab /\ Closed.base = 0 /\ Closed.get = NoGet
  BY ClosedGood DEF TabGood, TabTyped, Closed
<1>7. /\ opened \in Tab /\ opened.known = known /\ opened.dirty = DOMAIN old /\ opened.base = 0
      /\ opened.push = Closed.push /\ opened.get = NoGet /\ opened.baseline = storage.adopted
  BY <1>1, <1>2, <1>5, <1>6 DEF Tab
<1>8. PICK tb \in Adopting(opened) : Becomes(t, tb)
  BY Zenon DEF Open, known, old
<1> HIDE DEF opened
<1>9. opened.baseline = 1 => Since(opened.known, opened.dirty, edits, born)
  BY <1>3, <1>5, <1>7 DEF Since
<1>10. opened.baseline <= marker
  BY <1>7, EraFacts DEF StorageEra
<1>11. TabEra(opened, marker, r0, edits, born)
  BY <1>7, <1>9, <1>10, EraFacts, ClosedEra
<1>12. TabEra(tb, marker, r0, edits, born)
  BY <1>7, <1>11, EraFacts, AdoptingEra
<1>13. storage' = [kept EXCEPT !.cache = known]
  BY DEF Open, kept, known, old
<1>14. StorageEra(storage', marker, edits, born)
  BY <1>2, <1>4, <1>5, <1>13, EraFacts, StorageEras
<1> QED BY <1>8, <1>12, <1>14, EraFacts, EraTab DEF Open, counters, history

LEMMA CloseEra ==
    ASSUME TypeInv, TruthInv, NEW r0 \in Nat, Era(r0), NEW t \in Tabs, Close(t)
    PROVE  Era(r0)'
<1>1. Closed.base = 0 /\ Closed.get = NoGet /\ Closed.baseline = 0
  BY DEF Closed
<1>2. TabEra(Closed, marker, r0, edits, born)
  BY <1>1, EraFacts, ClosedEra DEF Ages
<1>3. NetEra(net', marker, r0, edits, born)
  <2>1. \A post \in Pending(tab[t]) : post.base >= r0 => marker = 1 /\ Since(post.posted, post.dirty, edits, born)
    BY EraFacts DEF Pending, PushEra, TabEra, Ages
  <2> QED BY <2>1, EraFacts DEF Close, NetEra
<1> QED BY <1>2, <1>3, EraFacts, EraTab DEF Close, counters, history

\* Steps that leave what the tab knows, its pushes and what a read takes over alone.
LEMMA LightEra ==
    ASSUME TypeInv, TruthInv, NEW r0 \in Nat, Era(r0), NEW t \in Tabs, Mount(t) \/ FailGet(t)
    PROVE  Era(r0)'
<1> DEFINE tb == tab[t]
<1>0. tb \in Tab
  BY EraFacts
<1>1. \A s \in Slots : SamePush(tb.push[s], tb.push[s])
  BY DEF SamePush
<1>2. CASE Mount(t)
  <2> DEFINE new == [tb EXCEPT !.mounted = TRUE]
  <2>1. /\ new.push = tb.push /\ new.known = tb.known /\ new.dirty = tb.dirty /\ new.base = tb.base
        /\ new.baseline = tb.baseline /\ new.get = tb.get
    BY <1>0 DEF Tab
  <2>2. Becomes(t, new)
    BY <1>2 DEF Mount
  <2> HIDE DEF new
  <2>3. TabEra(new, marker, r0, edits, born)
    BY <1>1, <2>1, EraFacts, EraKeeps
  <2> QED BY <1>2, <2>2, <2>3, EraFacts, EraTab DEF Mount, counters, history
<1>3. CASE FailGet(t)
  <2> DEFINE new == [tb EXCEPT !.get = NoGet]
  <2>1. /\ new.push = tb.push /\ new.known = tb.known /\ new.dirty = tb.dirty /\ new.base = tb.base
        /\ new.baseline = tb.baseline /\ new.get = NoGet
    BY <1>0 DEF Tab
  <2>2. Becomes(t, new)
    BY <1>3 DEF FailGet
  <2> HIDE DEF new
  <2>3. TabEra(new, marker, r0, edits, born)
    BY <1>1, <2>1, EraFacts, EraKeeps
  <2> QED BY <1>3, <2>2, <2>3, EraFacts, EraTab DEF FailGet, counters, history
<1> QED BY <1>2, <1>3

LEMMA PushStepEra ==
    ASSUME TypeInv, TruthInv, NEW r0 \in Nat, Era(r0), NEW t \in Tabs, TimerFires(t) \/ Focus(t)
    PROVE  Era(r0)'
<1>1. CASE TimerFires(t)
  <2>1. PICK s \in Slots : Becomes(t, Pushing(tab[t], s, "stop"))
    BY <1>1 DEF TimerFires
  <2>2. TabEra(Pushing(tab[t], s, "stop"), marker, r0, edits, born)
    BY EraFacts, PushingEra
  <2> QED BY <1>1, <2>1, <2>2, EraFacts, EraTab DEF TimerFires, counters, history
<1>2. CASE Focus(t)
  <2>1. PICK tb \in Adopting(tab[t]) : Becomes(t, tb)
    BY <1>2 DEF Focus
  <2>2. TabEra(tb, marker, r0, edits, born)
    BY EraFacts, AdoptingEra
  <2> QED BY <1>2, <2>1, <2>2, EraFacts, EraTab DEF Focus, counters, history
<1> QED BY <1>1, <1>2

LEMMA SettleSavedEra ==
    ASSUME TypeInv, TruthInv, NEW r0 \in Nat, Era(r0), NEW t \in Tabs, NEW s \in Slots, SettleSaved(t, s)
    PROVE  Era(r0)'
<1> DEFINE push == tab[t].push[s]
           still == StillPosted(tab[t], push.post.posted)
           mid == [tab[t] EXCEPT !.base = push.rev, !.dirty = @ \ still]
<1>1. /\ tab[t] \in Tab /\ push \in Push /\ push.rev \in Nat /\ TabEra(tab[t], marker, r0, edits, born)
      /\ push.phase = "answered" /\ push.result = "saved"
      /\ PushEra(push, tab[t].baseline = 1, marker, r0, edits, born)
  BY EraFacts DEF Push, SettleSaved
<1>2. /\ mid \in Tab /\ mid.push = tab[t].push /\ mid.known = tab[t].known /\ mid.base = push.rev
      /\ mid.dirty = tab[t].dirty \ still /\ mid.baseline = tab[t].baseline /\ mid.get = tab[t].get
  BY <1>1 DEF Tab
<1>3. Becomes(t, Done(mid, s)) /\ storage' = Released(storage, tab[t], push.post.posted)
  BY DEF SettleSaved
<1>4. StorageEra(storage', marker, edits, born)
  BY <1>3, EraFacts, ReleasedEra
<1> HIDE DEF mid
<1>5. mid.base >= r0 => mid.baseline = 1
  BY <1>1, <1>2 DEF PushEra
<1>6. mid.baseline = 1 => Since(mid.known, mid.dirty, edits, born)
  BY <1>1, <1>2 DEF TabEra, Since
<1>7. /\ mid.baseline <= marker /\ SnapEra(mid.get.current, marker, r0)
      /\ \A q \in Slots : SamePush(mid.push[q], tab[t].push[q])
  BY <1>1, <1>2 DEF TabEra, SamePush
<1>8. TabEra(mid, marker, r0, edits, born)
  BY <1>1, <1>2, <1>5, <1>6, <1>7, EraSimilar
<1>9. TabEra(Done(mid, s), marker, r0, edits, born)
  BY <1>2, <1>8, EraFacts, EndsEra
<1> QED BY <1>3, <1>4, <1>9, EraFacts, EraTab DEF SettleSaved, counters, history

LEMMA FailedStepEra ==
    ASSUME TypeInv, TruthInv, NEW r0 \in Nat, Era(r0), NEW t \in Tabs, NEW s \in Slots,
           SettleFailed(t, s) \/ FailPush(t, s)
    PROVE  Era(r0)'
<1>1. Becomes(t, Failed(tab[t], s)) /\ UNCHANGED <<file, revs, marker, storage, edits, born>>
  BY DEF SettleFailed, FailPush, counters, history
<1>2. TabEra(Failed(tab[t], s), marker, r0, edits, born)
  BY EraFacts, EndsEra
<1>3. NetEra(net', marker, r0, edits, born)
  <2> DEFINE post == tab[t].push[s].post
  <2>1. tab[t].push[s].phase = "sent" =>
            (post.base >= r0 => marker = 1 /\ Since(post.posted, post.dirty, edits, born))
    BY EraFacts DEF PushEra, TabEra, Ages
  <2>2. net' = net \/ (tab[t].push[s].phase = "sent" /\ net' = net \cup {post})
    BY DEF SettleFailed, FailPush
  <2> QED BY <2>1, <2>2, EraFacts DEF NetEra
<1> QED BY <1>1, <1>2, <1>3, EraFacts, EraTab

LEMMA StaleEra ==
    ASSUME TypeInv, TruthInv, NEW r0 \in Nat, Era(r0), NEW t \in Tabs, NEW s \in Slots, SettleStale(t, s)
    PROVE  Era(r0)'
<1> DEFINE push == tab[t].push[s]
           server == push.current
           next == RebaseOntoServer(tab[t], storage, server)
           write == server.state = "missing" \/ next.tab.dirty # {}
           retry == Sent(next.tab, push.attempt + 1, push.then)
<1>1. /\ tab[t] \in Tab /\ push \in Push /\ server \in Snapshot
      /\ push.attempt \in 1 .. 2 /\ push.then \in {"stop", "adopt", "again"}
      /\ SnapEra(server, marker, r0)
  BY EraFacts DEF Push, PushEra
<1>2. TabEra(next.tab, marker, r0, edits, born) /\ StorageEra(next.storage, marker, edits, born)
  BY <1>1, EraFacts, RebaseEra
<1>3. next.tab \in Tab
  BY <1>1, EraFacts, RebaseGood DEF TabGood, TabTyped
<1>4. /\ Becomes(t, IF ~write THEN Done(next.tab, s)
                    ELSE IF LastAttempt(push) THEN Failed(next.tab, s)
                    ELSE Put(next.tab, s, retry))
      /\ storage' = next.storage
  BY DEF SettleStale, Put
<1> HIDE DEF next
<1>5. TabEra(Failed(next.tab, s), marker, r0, edits, born) /\ TabEra(Done(next.tab, s), marker, r0, edits, born)
  BY <1>2, <1>3, EraFacts, EndsEra
<1>6. ASSUME ~LastAttempt(push) PROVE TabEra(Put(next.tab, s, retry), marker, r0, edits, born)
  <2>1. push.attempt + 1 \in 1 .. 2
    BY <1>1, <1>6 DEF LastAttempt
  <2>2. /\ next.tab.base >= r0 => next.tab.baseline = 1
        /\ next.tab.baseline = 1 => Since(next.tab.known, next.tab.dirty, edits, born)
    BY <1>2 DEF TabEra
  <2>3. PushEra(retry, next.tab.baseline = 1, marker, r0, edits, born)
    BY <1>1, <1>3, <2>1, <2>2, EraFacts, SentEra
  <2> QED BY <1>2, <1>3, <2>3, EraFacts, PutEra
<1>7. PICK tb : Becomes(t, tb) /\ TabEra(tb, marker, r0, edits, born)
  BY <1>4, <1>5, <1>6
<1> QED BY <1>2, <1>4, <1>7, EraFacts, EraTab DEF SettleStale, counters, history

LEMMA FinishGetEra ==
    ASSUME TypeInv, TruthInv, NEW r0 \in Nat, Era(r0), NEW t \in Tabs, FinishGet(t)
    PROVE  Era(r0)'
<1> DEFINE server == tab[t].get.current
           tb == [tab[t] EXCEPT !.get = NoGet]
           known == ApplyCanonical(tb, storage, server.val, server)
           shown == [tb EXCEPT !.status = "error"]
           unseen == [tb EXCEPT !.base = 0, !.baseline = server.stamp]
           unbased == [tb EXCEPT !.base = 0]
           taken == [known.tab EXCEPT !.status = "saved"]
<1>1. /\ tab[t] \in Tab /\ server \in Snapshot /\ server.stamp \in Nat /\ server.val \in Settings
      /\ TabEra(tab[t], marker, r0, edits, born) /\ SnapEra(server, marker, r0) /\ server.stamp <= marker
  BY EraFacts DEF Tab, Get, Snapshot, TabEra, SnapEra
<1>2. /\ tb \in Tab /\ tb.push = tab[t].push /\ tb.known = tab[t].known /\ tb.dirty = tab[t].dirty
      /\ tb.baseline = tab[t].baseline /\ tb.get = NoGet /\ tb.base = tab[t].base
  BY <1>1, NoPushTyped DEF Tab
<1>3. ASSUME NEW new, new.push = tab[t].push, new.known = tab[t].known, new.dirty = tab[t].dirty,
             new.get = NoGet, new.base = tab[t].base \/ new.base = 0, new.baseline = tab[t].baseline
      PROVE  TabEra(new, marker, r0, edits, born)
  <2>1. \A s \in Slots : SamePush(new.push[s], tab[t].push[s])
    BY <1>3 DEF SamePush
  <2> QED BY <1>1, <1>3, <2>1, EraFacts, EraKeeps
<1>4. TabEra(tb, marker, r0, edits, born)
  BY <1>2, <1>3
<1>5. TabEra(shown, marker, r0, edits, born)
  <2>1. /\ shown.push = tab[t].push /\ shown.known = tab[t].known /\ shown.dirty = tab[t].dirty
        /\ shown.get = NoGet /\ shown.base = tab[t].base /\ shown.baseline = tab[t].baseline
    BY <1>2 DEF Tab
  <2> QED BY <2>1, <1>3
<1>6. ASSUME Quiet(tb), UnseenRestore(storage, server) PROVE TabEra(unseen, marker, r0, edits, born)
  <2>1. /\ unseen.push = tab[t].push /\ unseen.known = tab[t].known /\ unseen.dirty = {}
        /\ unseen.get = NoGet /\ unseen.base = 0 /\ unseen.baseline = server.stamp
    BY <1>2, <1>6 DEF Tab, Quiet
  <2>2. \A s \in Slots : SamePush(unseen.push[s], tab[t].push[s])
    BY <2>1 DEF SamePush
  <2>3. server.stamp # 0 /\ Since(unseen.known, unseen.dirty, edits, born)
    BY <1>6, <2>1 DEF UnseenRestore, Since
  <2> HIDE DEF unseen
  <2>4. /\ unseen.baseline <= marker /\ (tab[t].baseline = 1 => unseen.baseline = 1)
        /\ (unseen.base >= r0 => unseen.baseline = 1) /\ SnapEra(unseen.get.current, marker, r0)
    BY <1>1, <2>1, <2>3, EraFacts, NothingEra DEF Ages
  <2> QED BY <1>1, <2>2, <2>3, <2>4, EraSimilar
<1>7. unbased \in Tab /\ TabEra(unbased, marker, r0, edits, born)
  <2>1. /\ unbased.push = tab[t].push /\ unbased.known = tab[t].known /\ unbased.dirty = tab[t].dirty
        /\ unbased.get = NoGet /\ unbased.base = 0 /\ unbased.baseline = tab[t].baseline /\ unbased \in Tab
    BY <1>2 DEF Tab
  <2> QED BY <2>1, <1>3
<1>8. ASSUME NEW s \in Slots PROVE TabEra(Pushing(unbased, s, "again"), marker, r0, edits, born)
  BY <1>7, EraFacts, PushingEra
<1>9. ASSUME Quiet(tb)
      PROVE  TabEra(taken, marker, r0, edits, born) /\ StorageEra(known.storage, marker, edits, born)
  <2>1. tb.dirty = {}
    BY <1>9 DEF Quiet
  <2>2. TabEra(known.tab, marker, r0, edits, born) /\ StorageEra(known.storage, marker, edits, born)
    BY <1>1, <1>2, <1>4, <2>1, EraFacts, CanonicalEra
  <2>3. known.tab = [tb EXCEPT !.known = server.val, !.base = server.rev,
                               !.baseline = IF server.stamp # 0 THEN server.stamp ELSE tb.baseline]
    BY DEF ApplyCanonical
  <2>4. known.tab \in Tab
    BY <1>1, <1>2, <2>3 DEF Tab, Snapshot
  <2> HIDE DEF known
  <2>5. /\ taken.push = known.tab.push /\ taken.known = known.tab.known /\ taken.dirty = known.tab.dirty
        /\ taken.get = known.tab.get /\ taken.base = known.tab.base /\ taken.baseline = known.tab.baseline
    BY <2>4 DEF Tab
  <2>6. \A s \in Slots : SamePush(taken.push[s], known.tab.push[s])
    BY <2>5 DEF SamePush
  <2> HIDE DEF taken
  <2> QED BY <2>2, <2>5, <2>6, EraFacts, EraKeeps
<1>10. StorageEra(Adopted(storage, server.stamp), marker, edits, born)
  BY <1>1, EraFacts, AdoptedEra
<1>11. \/ /\ Becomes(t, tb) \/ Becomes(t, shown) \/ Becomes(t, unbased)
             \/ \E s \in Slots : Becomes(t, Pushing(unbased, s, "again"))
          /\ UNCHANGED storage
       \/ /\ Quiet(tb) /\ UnseenRestore(storage, server)
          /\ Becomes(t, unseen) /\ storage' = Adopted(storage, server.stamp)
       \/ Quiet(tb) /\ Becomes(t, taken) /\ storage' = known.storage
  BY DEF FinishGet
<1> HIDE DEF tb, shown, unseen, unbased, taken, server, known
<1>12. PICK new : /\ Becomes(t, new) /\ TabEra(new, marker, r0, edits, born)
                  /\ StorageEra(storage', marker, edits, born)
  BY <1>4, <1>5, <1>6, <1>7, <1>8, <1>9, <1>10, <1>11, EraFacts
<1> QED BY <1>12, EraFacts, EraTab DEF FinishGet, counters, history

LEMMA ReadStepEra ==
    ASSUME TypeInv, TruthInv, NEW r0 \in Nat, Era(r0), NEW t \in Tabs, ServerReads(t)
    PROVE  Era(r0)'
<1> DEFINE new == [tab[t] EXCEPT !.get.phase = "answered", !.get.current = Current]
<1>1. tab[t] \in Tab /\ Current \in Snapshot /\ SnapEra(Current, marker, r0)
  BY EraFacts
<1>2. /\ new.push = tab[t].push /\ new.known = tab[t].known /\ new.dirty = tab[t].dirty
      /\ new.base = tab[t].base /\ new.baseline = tab[t].baseline /\ new.get.current = Current
  BY <1>1 DEF Tab, Get
<1>3. Becomes(t, new)
  BY DEF ServerReads
<1> HIDE DEF new
<1>4. /\ new.baseline <= marker /\ (tab[t].baseline = 1 => new.baseline = 1)
      /\ (new.base >= r0 => new.baseline = 1)
      /\ (new.baseline = 1 => Since(new.known, new.dirty, edits, born))
  BY <1>2, EraFacts DEF TabEra
<1>5. \A s \in Slots : SamePush(new.push[s], tab[t].push[s])
  BY <1>2 DEF SamePush
<1>6. TabEra(new, marker, r0, edits, born)
  BY <1>1, <1>2, <1>4, <1>5, EraFacts, EraSimilar
<1> QED BY <1>3, <1>6, EraFacts, EraTab DEF ServerReads, counters, history

LEMMA ExplainsEra ==
    ASSUME TypeInv, TruthInv, NEW r0 \in Nat, Era(r0), NEW t \in Tabs, NEW s \in Slots, ServerExplains(t, s)
    PROVE  Era(r0)'
<1> DEFINE push == tab[t].push[s]
           new == [push EXCEPT !.phase = "answered", !.result = "stale", !.current = Current]
<1>1. push \in Push /\ SnapEra(Current, marker, r0)
  BY EraFacts
<1>2. Becomes(t, Put(tab[t], s, new))
  BY DEF ServerExplains, Put
<1>3. new.phase = "answered" /\ new.result = "stale" /\ new.current = Current
  BY <1>1 DEF Push
<1> HIDE DEF new
<1>4. PushEra(new, tab[t].baseline = 1, marker, r0, edits, born)
  BY <1>1, <1>3 DEF PushEra
<1>5. TabEra(Put(tab[t], s, new), marker, r0, edits, born)
  BY <1>4, EraFacts, PutEra
<1> QED BY <1>2, <1>5, EraFacts, EraTab DEF ServerExplains, counters, history

LEMMA EditEra ==
    ASSUME TypeInv, TruthInv, NEW r0 \in Nat, Era(r0), NEW t \in Tabs, NEW k \in Keys, Edit(t, k)
    PROVE  Era(r0)'
<1> DEFINE tb == [tab[t] EXCEPT !.known[k] = edits + 1, !.dirty = @ \cup {k}]
           cached == [storage EXCEPT !.cache = tb.known]
<1>1. /\ MaxEdits \in Nat /\ edits \in Nat /\ edits < MaxEdits /\ edits' = edits + 1 /\ edits' \in Nat
      /\ edits <= edits' /\ tab[t] \in Tab /\ TabTyped(tab[t]) /\ edits + 1 \in Edits
      /\ UNCHANGED <<file, revs, marker, net>>
  <2>1. edits < MaxEdits /\ edits' = edits + 1 /\ UNCHANGED <<file, revs, marker, net>>
    BY Zenon DEF Edit, NewEdit
  <2>2. MaxEdits \in Nat /\ edits \in Nat
    BY PreferencesAssumption DEF TypeInv, SharedTyped
  <2>3. edits + 1 \in Edits /\ edits + 1 \in Nat /\ edits <= edits + 1
    BY <2>1, <2>2 DEF Edits
  <2> QED BY <2>1, <2>2, <2>3, EraFacts
<1>2. /\ \A i \in 1 .. edits : born'[i] = born[i]
      /\ born'[edits + 1] = tab[t].baseline
      /\ \A e \in Edits : e # edits + 1 => born'[e] = born[e]
  BY <1>1 DEF TypeInv, SharedTyped, Edit, Edits
<1>3. /\ tb \in Tab /\ tb.push = tab[t].push /\ tb.get = tab[t].get /\ tb.baseline = tab[t].baseline
      /\ tb.dirty = tab[t].dirty \cup {k} /\ tb.base = tab[t].base /\ tb.known[k] = edits + 1
      /\ \A j \in Keys \ {k} : tb.known[j] = tab[t].known[j]
  <2>1. [tab[t].known EXCEPT ![k] = edits + 1] \in Settings
        /\ [tab[t].known EXCEPT ![k] = edits + 1][k] = edits + 1
        /\ \A j \in Keys \ {k} : [tab[t].known EXCEPT ![k] = edits + 1][j] = tab[t].known[j]
    BY <1>1 DEF Tab, Settings
  <2>2. tb = [tab[t] EXCEPT !.known = [tab[t].known EXCEPT ![k] = edits + 1],
                            !.dirty = tab[t].dirty \cup {k}]
    BY <1>1 DEF Tab
  <2> QED BY <2>1, <2>2, <1>1 DEF Tab
<1>4. Becomes(t, Schedule(tb)) /\ storage' = RecordMerged(cached, tb)
  BY DEF Edit
<1> HIDE DEF tb
<1>5. /\ StorageEra(storage, marker, edits', born')
      /\ NetEra(net, marker, r0, edits', born')
      /\ \A u \in Tabs : TabEra(tab[u], marker, r0, edits', born')
  <2>1. /\ \A st : StorageEra(st, marker, edits, born) => StorageEra(st, marker, edits', born')
        /\ \A posts \in SUBSET Post : NetEra(posts, marker, r0, edits, born) => NetEra(posts, marker, r0, edits', born')
        /\ \A x \in Tab : TabEra(x, marker, r0, edits, born) => TabEra(x, marker, r0, edits', born')
    <3>1. r0 <= r0
      OBVIOUS
    <3> QED BY <1>1, <1>2, <3>1, EraGrows
  <2>2. net \in SUBSET Post /\ \A u \in Tabs : tab[u] \in Tab
    BY DEF TypeInv, SharedTyped
  <2> QED BY <2>1, <2>2 DEF Era
<1>6. tb.baseline = 1 => Since(tb.known, tb.dirty, edits', born')
  <2> SUFFICES ASSUME tb.baseline = 1, NEW j \in tb.dirty
               PROVE  tb.known[j] \in 1 .. edits' /\ born'[tb.known[j]] = 1
    BY DEF Since
  <2>1. CASE j = k
    BY <1>1, <1>2, <1>3, <2>1
  <2>2. CASE j # k
    <3>1. Since(tab[t].known, tab[t].dirty, edits', born')
      BY <1>3, <1>5 DEF TabEra
    <3>2. j \in tab[t].dirty /\ j \in Keys
      BY <1>1, <1>3, <2>2 DEF Tab
    <3>3. tb.known[j] = tab[t].known[j]
      BY <1>3, <2>2, <3>2
    <3> QED BY <3>1, <3>2, <3>3 DEF Since
  <2> QED BY <2>1, <2>2
<1>7. TabEra(tb, marker, r0, edits', born')
  <2>1. \A s \in Slots : SamePush(tb.push[s], tab[t].push[s])
    BY <1>3 DEF SamePush
  <2>2. /\ tb.baseline <= marker /\ (tab[t].baseline = 1 => tb.baseline = 1)
        /\ (tb.base >= r0 => tb.baseline = 1) /\ SnapEra(tb.get.current, marker, r0)
    BY <1>3, <1>5 DEF TabEra
  <2> QED BY <1>5, <1>6, <2>1, <2>2, EraSimilar
<1>8. TabEra(Schedule(tb), marker, r0, edits', born')
  BY <1>3, <1>7, EraFacts, ScheduleEra
<1>9. StorageEra(storage', marker, edits', born')
  <2>1. tb.known \in Settings
    BY <1>3 DEF Tab
  <2>2. cached \in Storage /\ StorageEra(cached, marker, edits', born')
    BY <1>5, <2>1, EraFacts, StorageEras DEF Storage
  <2>3. TabTyped(tb)
    <3>1. \A j \in tb.dirty : tb.known[j] \in Edits
      BY <1>1, <1>3 DEF TabTyped, Tab
    <3> QED BY <1>3, <3>1 DEF TabTyped
  <2> HIDE DEF cached
  <2> QED BY <1>4, <1>6, <2>2, <2>3, EraFacts, MergedEra
<1>10. \A u \in Tabs : TabEra(tab'[u], marker, r0, edits', born')
  <2>1. \A u \in Tabs : tab'[u] = IF u = t THEN Schedule(tb) ELSE tab[u]
    BY <1>4 DEF TypeInv, Becomes
  <2> QED BY <1>5, <1>8, <2>1
<1>11. \A e \in Edits : born'[e] <= marker
  BY <1>2, EraFacts DEF Era, TabEra
<1> QED BY <1>1, <1>5, <1>9, <1>10, <1>11 DEF Era

-----------------------------------------------------------------------------
(* A restore wins: the file moves                                            *)

\* Another record leaves what the tabs and the storage hold true.
LEMMA EraMoves ==
    ASSUME TypeInv, TruthInv, NEW r0 \in Nat, Era(r0), revs' = revs + 1, file'.rev = revs + 1,
           file'.state = "ok", edits' \in Nat, edits <= edits', \A i \in 1 .. edits : born'[i] = born[i]
    PROVE  \E r1 \in Nat :
               /\ r0 <= r1 /\ r1 >= 1
               /\ (marker = 0 => r1 = revs' + 1)
               /\ (marker = 1 => r1 = r0 /\ file'.rev >= r1)
               /\ StorageEra(storage, marker, edits', born')
               /\ NetEra(net, marker, r1, edits', born')
               /\ \A u \in Tabs : TabEra(tab[u], marker, r1, edits', born')
<1>1. marker \in {0, 1} /\ revs \in Nat /\ file.rev \in Nat /\ file.rev <= revs /\ r0 >= 1
  BY DEF TypeInv, SharedTyped, TruthInv, FileTrue, Era
<1>2. PICK r1 \in Nat : /\ r0 <= r1 /\ r1 >= 1
                       /\ (marker = 0 => r1 = revs' + 1)
                       /\ (marker = 1 => r1 = r0 /\ file'.rev >= r1)
  <2>1. marker = 0 => r0 = revs + 1
    BY DEF Era
  <2>2. marker = 1 => file.rev >= r0
    BY DEF Era
  <2>3. CASE marker = 0
    <3> WITNESS r0 + 1 \in Nat
    <3> QED BY <1>1, <2>1, <2>3
  <2>4. CASE marker = 1
    <3> WITNESS r0 \in Nat
    <3> QED BY <1>1, <2>2, <2>4
  <2> QED BY <1>1, <2>3, <2>4
<1>3. edits \in Nat /\ net \in SUBSET Post /\ \A u \in Tabs : tab[u] \in Tab
  BY DEF TypeInv, SharedTyped
<1>4. /\ \A st : StorageEra(st, marker, edits, born) => StorageEra(st, marker, edits', born')
      /\ \A posts \in SUBSET Post : NetEra(posts, marker, r0, edits, born) => NetEra(posts, marker, r1, edits', born')
      /\ \A x \in Tab : TabEra(x, marker, r0, edits, born) => TabEra(x, marker, r1, edits', born')
  BY <1>2, <1>3, EraGrows
<1>5. /\ StorageEra(storage, marker, edits', born')
      /\ NetEra(net, marker, r1, edits', born')
      /\ \A u \in Tabs : TabEra(tab[u], marker, r1, edits', born')
  BY <1>3, <1>4 DEF Era
<1> QED BY <1>2, <1>5

LEMMA WritesEra ==
    ASSUME TypeInv, TruthInv, NEW r0 \in Nat, Era(r0), NEW t \in Tabs, NEW s \in Slots, ServerWrites(t, s)
    PROVE  RestoreInv'
<1> DEFINE push == tab[t].push[s]
           saved == [push EXCEPT !.phase = "answered", !.result = "saved", !.rev = revs + 1]
           failed == [push EXCEPT !.phase = "answered", !.result = "failed"]
           refused == [push EXCEPT !.phase = "refused"]
<1>1. /\ tab[t] \in Tab /\ push \in Push /\ push.post \in Post /\ push.phase = "sent"
      /\ revs \in Nat /\ file.rev \in Nat /\ edits \in Nat /\ Ages(marker, r0)
      /\ UNCHANGED <<marker, storage, net, edits, born>>
  BY EraFacts, TruthFacts DEF Push, ServerWrites, TypeInv, SharedTyped, counters
<1>2. CASE Write(push.post)
  <2>1. /\ saved.phase = "answered" /\ saved.result = "saved" /\ saved.current = push.current
    BY <1>1 DEF Push
  <2>2. Becomes(t, Put(tab[t], s, saved))
    BY <1>2 DEF ServerWrites, Write, Put
  <2>3. revs' = revs + 1 /\ file'.rev = revs + 1 /\ file'.state = "ok"
    BY <1>1, <1>2, WriteMoves
  <2>4. PICK r1 \in Nat :
        /\ r0 <= r1 /\ r1 >= 1
        /\ (marker = 0 => r1 = revs' + 1)
        /\ (marker = 1 => r1 = r0 /\ file'.rev >= r1)
        /\ StorageEra(storage, marker, edits, born)
        /\ NetEra(net, marker, r1, edits, born)
        /\ \A u \in Tabs : TabEra(tab[u], marker, r1, edits, born)
    BY <1>1, <2>3, EraMoves
  <2>5. marker = 1 => tab[t].baseline = 1
    <3> SUFFICES ASSUME marker = 1 PROVE tab[t].baseline = 1
      OBVIOUS
    <3>1. push.post.base = file.rev /\ file.rev >= r0
      BY <1>2 DEF Write, BasedOnFile, Era
    <3> QED BY <1>1, <3>1, EraFacts DEF PushEra
  <2>6. saved.rev = revs + 1
    BY <1>1 DEF Push
  <2> HIDE DEF saved
  <2>7. saved.rev >= r1 => tab[t].baseline = 1
    BY <1>1, <2>3, <2>4, <2>5, <2>6 DEF Ages
  <2>8. SnapEra(saved.current, marker, r1)
    BY <2>1, <2>4 DEF TabEra, PushEra
  <2>9. PushEra(saved, tab[t].baseline = 1, marker, r1, edits, born)
    BY <2>1, <2>7, <2>8 DEF PushEra
  <2>10. Ages(marker, r1)
    BY <1>1, <2>4 DEF Ages
  <2>11. TabEra(Put(tab[t], s, saved), marker, r1, edits, born)
    BY <1>1, <2>4, <2>9, <2>10, PutEra
  <2>12. \A u \in Tabs : tab'[u] = IF u = t THEN Put(tab[t], s, saved) ELSE tab[u]
    BY <2>2 DEF TypeInv, Becomes
  <2>13. Era(r1)'
    BY <1>1, <2>3, <2>4, <2>11, <2>12 DEF Era
  <2> QED BY <2>4, <2>13 DEF RestoreInv
<1>3. CASE ~Write(push.post)
  <2>1. failed.phase = "answered" /\ failed.result = "failed" /\ failed.current = push.current
    BY <1>1 DEF Push
  <2>2. refused.phase = "refused" /\ refused.current = push.current
    BY <1>1 DEF Push
  <2>3. PICK new \in {failed, refused} : Becomes(t, Put(tab[t], s, new))
    BY <1>3 DEF ServerWrites, Put
  <2> HIDE DEF failed, refused
  <2>4. PushEra(new, tab[t].baseline = 1, marker, r0, edits, born)
    BY <2>1, <2>2, EraFacts DEF PushEra
  <2>5. TabEra(Put(tab[t], s, new), marker, r0, edits, born)
    BY <2>4, EraFacts, PutEra
  <2>6. UNCHANGED <<file, revs>>
    BY <1>3 DEF ServerWrites
  <2>7. Era(r0)'
    BY <1>1, <2>3, <2>5, <2>6, EraFacts, EraTab
  <2> QED BY <2>7 DEF RestoreInv
<1> QED BY <1>2, <1>3

\* The first restore: nobody knows its revision yet.
LEMMA RestoreTurns ==
    ASSUME NEW r0 \in Nat, r0 >= 1, NEW n, NEW b
    PROVE  /\ \A st \in Storage : StorageEra(st, 0, n, b) => StorageEra(st, 1, n, b)
           /\ \A posts : NetEra(posts, 0, r0, n, b) => NetEra(posts, 1, r0, n, b)
           /\ \A tb \in Tab : TabEra(tb, 0, r0, n, b) => TabEra(tb, 1, r0, n, b)
<1>1. ASSUME NEW c \in Snapshot, SnapEra(c, 0, r0) PROVE SnapEra(c, 1, r0)
  BY <1>1 DEF SnapEra, Snapshot
<1>2. ASSUME NEW st \in Storage, StorageEra(st, 0, n, b) PROVE StorageEra(st, 1, n, b)
  BY <1>2 DEF StorageEra, Storage, PendingEdits
<1>3. ASSUME NEW posts, NetEra(posts, 0, r0, n, b) PROVE NetEra(posts, 1, r0, n, b)
  BY <1>3 DEF NetEra
<1>4. ASSUME NEW tb \in Tab, TabEra(tb, 0, r0, n, b) PROVE TabEra(tb, 1, r0, n, b)
  <2>1. tb.baseline \in Nat /\ tb.get.current \in Snapshot /\ \A s \in Slots : tb.push[s].current \in Snapshot
    BY DEF Tab, Get, Push
  <2>2. \A s \in Slots : PushEra(tb.push[s], tb.baseline = 1, 1, r0, n, b)
    BY <1>1, <1>4, <2>1 DEF TabEra, PushEra
  <2> QED BY <1>1, <1>4, <2>1, <2>2 DEF TabEra
<1> QED BY <1>2, <1>3, <1>4

LEMMA OutsideEra ==
    ASSUME HoldsPreferences, MaxRestores <= 1, TypeInv, TruthInv, NEW r0 \in Nat, Era(r0),
           Damage \/ Restore \/ (\E k \in Keys : SavedElsewhere(k)) \/ (\E post \in net : LatePost(post))
    PROVE  RestoreInv'
<1>1. /\ revs \in Nat /\ file.rev \in Nat /\ file.rev <= revs /\ edits \in Nat /\ marker \in {0, 1}
      /\ MaxRestores \in Nat /\ MaxEdits \in Nat /\ r0 >= 1
      /\ file \in [state : {"ok", "missing", "invalid"}, val : Settings, rev : Nat]
  BY PreferencesAssumption DEF TypeInv, SharedTyped, TruthInv, FileTrue, Era
<1>2. CASE Damage
  <2>1. /\ UNCHANGED <<revs, marker, storage, tab, net, edits, born>>
        /\ file'.state = "invalid" /\ file'.rev = file.rev
    BY <1>1, <1>2 DEF Damage, history
  <2>2. Era(r0)'
    BY <2>1 DEF Era
  <2> QED BY <2>2 DEF RestoreInv
<1>3. CASE Restore
  <2>1. /\ marker = 0 /\ marker' = 1 /\ UNCHANGED <<storage, tab, net, edits, born>>
        /\ file'.rev = revs + 1 /\ file'.state = "ok"
    BY <1>1, <1>3 DEF Restore, counters
  <2>2. r0 = revs + 1
    BY <2>1 DEF Era
  <2>3. /\ StorageEra(storage, 1, edits, born) /\ NetEra(net, 1, r0, edits, born)
        /\ \A t \in Tabs : TabEra(tab[t], 1, r0, edits, born)
    <3>1. /\ \A st \in Storage : StorageEra(st, 0, edits, born) => StorageEra(st, 1, edits, born)
          /\ \A posts : NetEra(posts, 0, r0, edits, born) => NetEra(posts, 1, r0, edits, born)
          /\ \A tb \in Tab : TabEra(tb, 0, r0, edits, born) => TabEra(tb, 1, r0, edits, born)
      BY <1>1, RestoreTurns
    <3>2. storage \in Storage /\ \A t \in Tabs : tab[t] \in Tab
      BY DEF TypeInv, SharedTyped
    <3> QED BY <2>1, <3>1, <3>2 DEF Era
  <2>4. \A e \in Edits : born[e] <= 1
    BY <2>1 DEF Era, TypeInv, SharedTyped
  <2>5. Era(r0)'
    BY <1>1, <2>1, <2>2, <2>3, <2>4 DEF Era
  <2> QED BY <2>5 DEF RestoreInv
<1>4. ASSUME NEW k \in Keys, SavedElsewhere(k) PROVE RestoreInv'
  <2>1. /\ UNCHANGED <<marker, storage, tab, net>> /\ revs' = revs + 1 /\ file'.rev = revs + 1
        /\ file'.state = "ok" /\ edits' = edits + 1 /\ edits' \in Nat /\ edits <= edits' /\ edits < MaxEdits
    <3>1. /\ UNCHANGED <<marker, storage, tab, net>> /\ revs' = revs + 1 /\ edits < MaxEdits
          /\ edits' = edits + 1 /\ file' = [file EXCEPT !.val[k] = edits + 1, !.rev = revs + 1]
          /\ file.state = "ok"
      BY <1>4, Zenon DEF SavedElsewhere, NewEdit
    <3>2. file'.rev = revs + 1 /\ file'.state = "ok"
      BY <1>1, <3>1
    <3> QED BY <1>1, <3>1, <3>2
  <2>2. (\A i \in 1 .. edits : born'[i] = born[i]) /\ \A e \in Edits : born'[e] = born[e] \/ born'[e] = marker
    <3>1. born' = [born EXCEPT ![edits + 1] = marker] /\ born \in [Edits -> Nat]
      BY <1>4, Zenon DEF SavedElsewhere, TypeInv, SharedTyped
    <3> QED BY <1>1, <2>1, <3>1 DEF Edits
  <2>3. PICK r1 \in Nat :
        /\ r1 >= 1
        /\ (marker = 0 => r1 = revs' + 1)
        /\ (marker = 1 => file'.rev >= r1)
        /\ StorageEra(storage, marker, edits', born')
        /\ NetEra(net, marker, r1, edits', born')
        /\ \A u \in Tabs : TabEra(tab[u], marker, r1, edits', born')
    BY <2>1, <2>2, EraMoves
  <2>4. \A e \in Edits : born'[e] <= marker
    BY <1>1, <2>2 DEF Era
  <2>5. Era(r1)'
    BY <1>1, <2>1, <2>3, <2>4 DEF Era
  <2> QED BY <2>3, <2>5 DEF RestoreInv
<1>5. ASSUME NEW post \in net, LatePost(post) PROVE RestoreInv'
  <2>1. post \in Post /\ net' \subseteq net /\ UNCHANGED <<marker, storage, tab, edits, born>>
    BY <1>5 DEF LatePost, TypeInv, SharedTyped, counters
  <2>2. CASE Write(post)
    <3>1. revs' = revs + 1 /\ file'.rev = revs + 1 /\ file'.state = "ok"
      BY <2>1, <2>2, WriteMoves
    <3>2. PICK r1 \in Nat :
          /\ r1 >= 1
          /\ (marker = 0 => r1 = revs' + 1)
          /\ (marker = 1 => file'.rev >= r1)
          /\ StorageEra(storage, marker, edits, born)
          /\ NetEra(net, marker, r1, edits, born)
          /\ \A u \in Tabs : TabEra(tab[u], marker, r1, edits, born)
      BY <1>1, <2>1, <3>1, EraMoves
    <3>3. NetEra(net', marker, r1, edits, born)
      BY <2>1, <3>2 DEF NetEra
    <3>4. Era(r1)'
      BY <1>1, <2>1, <3>1, <3>2, <3>3 DEF Era
    <3> QED BY <3>2, <3>4 DEF RestoreInv
  <2>3. CASE UNCHANGED <<file, revs>>
    <3>1. NetEra(net', marker, r0, edits, born)
      BY <2>1 DEF NetEra, Era
    <3>2. Era(r0)'
      BY <2>1, <2>3, <3>1 DEF Era
    <3> QED BY <3>2 DEF RestoreInv
  <2> QED BY <1>5, <2>2, <2>3 DEF LatePost
<1> QED BY <1>2, <1>3, <1>4, <1>5

LEMMA InitEra == Init => RestoreInv
<1> SUFFICES ASSUME Init PROVE RestoreInv
  OBVIOUS
<1>1. PICK state \in {"ok", "missing"} :
          file = [state |-> state, val |-> Default, rev |-> IF state = "ok" THEN 1 ELSE 0]
  BY DEF Init
<1>2. revs = file.rev /\ revs \in Nat /\ net = {} /\ marker = 0
  BY <1>1 DEF Init
<1> DEFINE r0 == revs + 1
<1>3. Ages(marker, r0) /\ marker <= 1
  BY <1>2 DEF Ages
<1>4. \A t \in Tabs : tab[t] = Closed
  BY DEF Init
<1>5. Closed.base = 0 /\ Closed.get = NoGet /\ Closed.baseline = 0
  BY DEF Closed
<1>6. \A e \in Edits : born[e] <= marker
  BY <1>2 DEF Init
<1>7. StorageEra(storage, marker, edits, born)
  BY <1>2 DEF Init, StorageEra, NoEdits
<1>8. NetEra(net, marker, r0, edits, born)
  BY <1>2 DEF NetEra
<1> HIDE DEF r0
<1>9. TabEra(Closed, marker, r0, edits, born)
  BY <1>2, <1>3, <1>5, ClosedEra
<1>10. Era(r0)
  BY <1>2, <1>3, <1>4, <1>6, <1>7, <1>8, <1>9 DEF Era, Ages, r0
<1> QED BY <1>3, <1>10 DEF RestoreInv, Ages

LEMMA StepEra ==
    HoldsPreferences /\ MaxRestores <= 1 /\ TypeInv /\ TruthInv /\ RestoreInv /\ [Next]_vars => RestoreInv'
<1> SUFFICES ASSUME HoldsPreferences, MaxRestores <= 1, TypeInv, TruthInv, RestoreInv, [Next]_vars
             PROVE  RestoreInv'
  OBVIOUS
<1>0. PICK r0 \in Nat : Era(r0)
  BY DEF RestoreInv
<1>1. ASSUME NEW t \in Tabs, TabStep(t) PROVE RestoreInv'
  BY <1>0, <1>1, LightEra, PushStepEra, FinishGetEra, ReadStepEra, SettleSavedEra, FailedStepEra, StaleEra,
     WritesEra, ExplainsEra DEF TabStep, RestoreInv
<1>2. ASSUME NEW t \in Tabs, User(t) PROVE RestoreInv'
  BY <1>0, <1>2, OpenEra, CloseEra, PushStepEra, EditEra DEF User, RestoreInv
<1>3. ASSUME Environment PROVE RestoreInv'
  BY <1>0, <1>3, OutsideEra, LightEra, FailedStepEra DEF Environment, RestoreInv
<1>4. CASE UNCHANGED vars
  <2>1. Era(r0)'
    BY <1>0, <1>4 DEF vars, counters, history, Era
  <2> QED BY <2>1 DEF RestoreInv
<1> QED BY <1>1, <1>2, <1>3, <1>4 DEF Next

\* With one restore, of a backup that holds preferences: no write brings in an edit
\* of a tab that did not know of the restore.
THEOREM RestoredStays == ASSUME MaxRestores <= 1 PROVE Spec => RestoreWins
<1> DEFINE Inv == TypeInv /\ (HoldsPreferences => TruthInv /\ RestoreInv)
<1>1. Init => Inv
  BY InitGood, InitTrue, InitEra
<1>2. Inv /\ [Next]_vars => Inv'
  BY StepGood, StepTrue, StepEra
<1>3. Inv /\ [Next]_vars =>
          [\A post \in Posts \ Posts' : HoldsPreferences /\ file'.rev # file.rev =>
              \A k \in post.dirty : file'.val[k] # file.val[k] /\ file'.val[k] # 0
                  => born[file'.val[k]] = marker]_vars
  <2> SUFFICES ASSUME Inv, [Next]_vars, NEW post \in Posts, post \notin Posts', HoldsPreferences,
                      file'.rev # file.rev, NEW k \in post.dirty, file'.val[k] # 0
               PROVE  born[file'.val[k]] = marker
    OBVIOUS
  <2>1. PICK r0 \in Nat : Era(r0)
    BY DEF RestoreInv
  <2>2. Write(post)
    BY WrittenIsGone
  <2>3. post \in Post
    BY WrittenIsGone DEF TypeInv, SharedTyped, Tab, Push
  <2>4. file'.val = post.posted /\ (file.state # "missing" => post.base = file.rev)
    BY <2>2 DEF Write, BasedOnFile
  <2>5. MaxEdits \in Nat /\ marker \in {0, 1} /\ file'.val[k] \in Edits
    BY <2>1, <2>3, <2>4, PreferencesAssumption DEF Post, Settings, Edits, TypeInv, SharedTyped, Era
  <2>6. CASE marker = 0
    <3>1. born[file'.val[k]] <= 0 /\ born[file'.val[k]] \in Nat
      BY <2>1, <2>5, <2>6 DEF Era, TypeInv, SharedTyped
    <3> QED BY <2>6, <3>1
  <2>7. CASE marker = 1
    <3>1. post.base >= r0
      BY <2>1, <2>4, <2>7 DEF Era
    <3>2. Since(post.posted, post.dirty, edits, born)
      BY <2>1, <3>1, WrittenIsGone DEF Era, NetEra, TabEra, PushEra
    <3> QED BY <2>4, <2>7, <3>2 DEF Since
  <2> QED BY <2>5, <2>6, <2>7
<1> QED BY <1>1, <1>2, <1>3, PTL DEF Spec, RestoreWins

-----------------------------------------------------------------------------
(* No edit is forgotten: browser storage has every edit that is not saved.   *)

\* No value is newer than the last edit.
Below(v, n) == \A k \in DOMAIN v : v[k] <= n

\* Under way: values made so far, of restores made so far, and what is saved is saved.
PostKept(p, n) == Below(p.posted, n)
SnapKept(c, m, n) == c.stamp <= m /\ Below(c.val, n)
PushKept(push, m, n, U) ==
    /\ PostKept(push.post, n) /\ SnapKept(push.current, m, n)
    /\ push.phase = "answered" /\ push.result = "saved" => \A k \in Keys : <<k, push.post.posted[k]>> \notin U

\* A tab has taken over what the browser has adopted, and an edit that is not
\* saved is the only one of its setting.
TabKept(tb, m, a, n, U) ==
    /\ tb.baseline <= m /\ (tb.baseline = 1 => a = 1)
    /\ Below(tb.known, n) /\ SnapKept(tb.get.current, m, n)
    /\ \A s \in Slots : PushKept(tb.push[s], m, n, U)
    /\ \A e \in U : e[1] \in tb.dirty => tb.known[e[1]] = e[2]

Has(st, e) == e[1] \in DOMAIN Recorded(st) /\ Recorded(st)[e[1]] = e[2]
StorageKept(st, m, n, U) ==
    /\ st.adopted <= m /\ Below(st.cache, n) /\ Below(st.pending.edits, n)
    /\ U # {} => st.adopted = m
    /\ \A e \in U : Has(st, e)

KeptInv ==
    /\ marker <= 1
    /\ Below(file.val, edits)
    /\ \A post \in net : PostKept(post, edits)
    /\ StorageKept(storage, marker, edits, unsaved)
    /\ \A t \in Tabs : TabKept(tab[t], marker, storage.adopted, edits, unsaved)

Bounds(m, n) == m \in {0, 1} /\ n \in Nat

LEMMA BelowGrows ==
    ASSUME NEW n \in Nat, NEW n1 \in Nat, n <= n1, NEW v \in Settings \cup UNION {[J -> Edits] : J \in SUBSET Keys},
           Below(v, n)
    PROVE  Below(v, n1)
<1>1. \A k \in DOMAIN v : v[k] \in Nat
  <2>1. MaxEdits \in Nat
    BY PreferencesAssumption
  <2> QED BY <2>1 DEF Settings, Edits
<1> QED BY <1>1 DEF Below

\* More edits and restores, and fewer edits that are not saved.
LEMMA KeptGrows ==
    ASSUME NEW m, NEW m1, NEW n, NEW n1, Bounds(m, n), Bounds(m1, n1), m <= m1, n <= n1,
           NEW a, NEW a1, a = 1 => a1 = 1, NEW U, NEW U1, U1 \subseteq U
    PROVE  /\ \A posts \in SUBSET Post :
                 (\A p \in posts : PostKept(p, n)) => \A p \in posts : PostKept(p, n1)
           /\ \A tb \in Tab : TabKept(tb, m, a, n, U) => TabKept(tb, m1, a1, n1, U1)
           /\ \A st \in Storage : StorageKept(st, m, n, U) /\ (U1 = {} \/ m1 = m) => StorageKept(st, m1, n1, U1)
<1>1. \A v \in Settings : Below(v, n) => Below(v, n1)
  BY BelowGrows DEF Bounds
<1>2. \A v \in UNION {[J -> Edits] : J \in SUBSET Keys} : Below(v, n) => Below(v, n1)
  BY BelowGrows DEF Bounds
<1>3. ASSUME NEW p \in Post, PostKept(p, n) PROVE PostKept(p, n1)
  BY <1>1, <1>3 DEF PostKept, Post
<1>4. ASSUME NEW c \in Snapshot, SnapKept(c, m, n) PROVE SnapKept(c, m1, n1)
  BY <1>1, <1>4 DEF SnapKept, Snapshot, Bounds
<1>5. ASSUME NEW p \in Push, PushKept(p, m, n, U) PROVE PushKept(p, m1, n1, U1)
  <2>1. p.post \in Post /\ p.current \in Snapshot
    BY DEF Push
  <2> QED BY <1>3, <1>4, <1>5, <2>1 DEF PushKept
<1>6. ASSUME NEW tb \in Tab, TabKept(tb, m, a, n, U) PROVE TabKept(tb, m1, a1, n1, U1)
  <2>1. /\ tb.known \in Settings /\ tb.get.current \in Snapshot /\ tb.baseline \in Nat
        /\ \A s \in Slots : tb.push[s] \in Push
    BY DEF Tab, Get
  <2>2. \A s \in Slots : PushKept(tb.push[s], m1, n1, U1)
    BY <1>5, <1>6, <2>1 DEF TabKept
  <2> QED BY <1>1, <1>4, <1>6, <2>1, <2>2 DEF TabKept, Bounds
<1>7. ASSUME NEW st \in Storage, StorageKept(st, m, n, U), U1 = {} \/ m1 = m PROVE StorageKept(st, m1, n1, U1)
  <2>1. /\ st.cache \in Settings /\ st.pending.edits \in UNION {[J -> Edits] : J \in SUBSET Keys}
        /\ st.adopted \in Nat
    BY DEF Storage, PendingEdits
  <2> QED BY <1>1, <1>2, <1>7, <2>1 DEF StorageKept, Bounds
<1> QED BY <1>3, <1>6, <1>7

\* A tab that keeps its edits, or gives them up.
LEMMA KeptSimilar ==
    ASSUME NEW m, NEW a, NEW n, NEW U, NEW tb, TabKept(tb, m, a, n, U), NEW new,
           new.baseline <= m, new.baseline = 1 => a = 1, Below(new.known, n), SnapKept(new.get.current, m, n),
           \A e \in U : e[1] \in new.dirty => new.known[e[1]] = e[2],
           \A s \in Slots : SamePush(new.push[s], tb.push[s]) \/ PushKept(new.push[s], m, n, U)
    PROVE  TabKept(new, m, a, n, U)
<1>1. \A s \in Slots : PushKept(new.push[s], m, n, U)
  BY DEF TabKept, PushKept, SamePush
<1> QED BY <1>1 DEF TabKept

LEMMA NothingKept ==
    ASSUME NEW m, NEW n, Bounds(m, n), NEW U
    PROVE  /\ SnapKept(NoSnapshot, m, n) /\ SnapKept(NoGet.current, m, n) /\ SnapKept(Asked.current, m, n)
           /\ PushKept(NoPush, m, n, U)
<1>1. NoSnapshot.stamp = 0 /\ NoSnapshot.val = Default /\ NoPush.post.posted = Default
  BY DEF NoSnapshot, NoPush
<1>2. Below(Default, n)
  BY DEF Below, Default, Bounds
<1>3. SnapKept(NoSnapshot, m, n)
  BY <1>1, <1>2 DEF SnapKept, Bounds
<1>4. /\ NoGet.current = NoSnapshot /\ Asked.current = NoSnapshot
      /\ NoPush.current = NoSnapshot /\ NoPush.phase = "none"
  BY DEF NoGet, Asked, NoPush
<1> QED BY <1>1, <1>2, <1>3, <1>4 DEF PushKept, PostKept

\* Whatever keeps the settings and the known restore.
LEMMA KeptKeeps ==
    ASSUME NEW m, NEW n, Bounds(m, n), NEW a, NEW U, NEW tb, TabKept(tb, m, a, n, U), NEW new,
           new.known = tb.known, new.dirty \subseteq tb.dirty, new.baseline = tb.baseline,
           new.get.current = tb.get.current \/ new.get = NoGet \/ new.get = Asked,
           \A s \in Slots : SamePush(new.push[s], tb.push[s]) \/ PushKept(new.push[s], m, n, U)
    PROVE  TabKept(new, m, a, n, U)
<1>1. SnapKept(new.get.current, m, n)
  BY NothingKept DEF TabKept
<1>2. \A e \in U : e[1] \in new.dirty => new.known[e[1]] = e[2]
  BY DEF TabKept
<1> QED BY <1>1, <1>2, KeptSimilar DEF TabKept

LEMMA SentKept ==
    ASSUME NEW m, NEW n, Bounds(m, n), NEW U, NEW tb \in Tab, Below(tb.known, n),
           NEW attempt \in 1 .. 2, NEW then \in {"stop", "adopt", "again"}
    PROVE  PushKept(Sent(tb, attempt, then), m, n, U)
<1> DEFINE push == Sent(tb, attempt, then)
<1>1. push.phase = "sent" /\ push.post.posted = tb.known
  BY SentTyped
<1>2. push.current = NoSnapshot
  BY DEF Sent, NoPush
<1> HIDE DEF push
<1>3. PushKept(push, m, n, U)
  BY <1>1, <1>2, NothingKept DEF PushKept, PostKept
<1> QED BY <1>3 DEF push

LEMMA PushingKept ==
    ASSUME NEW m, NEW n, Bounds(m, n), NEW a, NEW U, NEW tb \in Tab, TabKept(tb, m, a, n, U),
           NEW s \in Slots, NEW then \in {"stop", "adopt", "again"}
    PROVE  TabKept(Pushing(tb, s, then), m, a, n, U)
<1> DEFINE crossed == tb.crossed \/ \E r \in Slots : ~Free(tb, r)
           next == [tb EXCEPT !.timer = FALSE, !.crossed = crossed]
           new == Pushing(tb, s, then)
<1>1. crossed \in BOOLEAN
  BY DEF Tab
<1> HIDE DEF crossed
<1>2. /\ next \in Tab /\ next.known = tb.known /\ next.dirty = tb.dirty /\ next.push = tb.push
      /\ next.baseline = tb.baseline /\ next.get = tb.get
  BY <1>1 DEF Tab
<1> DEFINE push == Sent(next, 1, then)
<1>3. new = [next EXCEPT !.push[s] = push]
  BY DEF Pushing, crossed
<1> HIDE DEF next
<1>4. PushKept(push, m, n, U)
  <2>1. 1 \in 1 .. 2
    OBVIOUS
  <2> QED BY <1>2, <2>1, SentKept DEF TabKept
<1> HIDE DEF push
<1>5. /\ new.known = tb.known /\ new.dirty = tb.dirty /\ new.baseline = tb.baseline
      /\ new.get = tb.get /\ new.push = [tb.push EXCEPT ![s] = push]
  BY <1>2, <1>3 DEF Tab
<1> HIDE DEF new
<1>6. \A r \in Slots : new.push[r] = IF r = s THEN push ELSE tb.push[r]
  BY <1>5 DEF Tab
<1>7. \A r \in Slots : SamePush(new.push[r], tb.push[r]) \/ PushKept(new.push[r], m, n, U)
  BY <1>4, <1>6 DEF SamePush
<1>8. TabKept(new, m, a, n, U)
  BY <1>5, <1>7, KeptKeeps
<1> QED BY <1>8 DEF new

LEMMA ScheduleKept ==
    ASSUME NEW m, NEW n, Bounds(m, n), NEW a, NEW U, NEW tb \in Tab, TabKept(tb, m, a, n, U)
    PROVE  TabKept(Schedule(tb), m, a, n, U)
<1> DEFINE new == Schedule(tb)
           pushes == [s \in Slots |-> [tb.push[s] EXCEPT !.old = ~Free(tb, s)]]
           get == [tb.get EXCEPT !.old = tb.get.phase # "none"]
<1>1. \A s \in Slots : SamePush(pushes[s], tb.push[s])
  <2>1. ASSUME NEW p \in Push, NEW old PROVE SamePush([p EXCEPT !.old = old], p)
    BY DEF Push, SamePush
  <2>2. \A s \in Slots : tb.push[s] \in Push
    BY DEF Tab
  <2> QED BY <2>1, <2>2
<1>2. get.current = tb.get.current
  BY DEF Tab, Get
<1>3. new = [tb EXCEPT !.timer = TRUE, !.status = "saving", !.push = pushes, !.get = get]
  BY DEF Schedule, Tab
<1> HIDE DEF pushes, get, new
<1>4. /\ new.known = tb.known /\ new.dirty = tb.dirty /\ new.baseline = tb.baseline
      /\ new.push = pushes /\ new.get = get
  BY <1>3 DEF Tab
<1>5. TabKept(new, m, a, n, U)
  BY <1>1, <1>2, <1>4, KeptKeeps
<1> QED BY <1>5 DEF new

LEMMA EndsKept ==
    ASSUME NEW m, NEW n, Bounds(m, n), NEW a, NEW U, NEW tb \in Tab, TabKept(tb, m, a, n, U), NEW s \in Slots
    PROVE  TabKept(Failed(tb, s), m, a, n, U) /\ TabKept(Done(tb, s), m, a, n, U)
<1> DEFINE ended == [tb EXCEPT !.push[s] = NoPush, !.status = "error"]
           get == IF tb.push[s].then = "adopt" THEN Asked ELSE tb.get
           done == [tb EXCEPT !.push[s] = NoPush, !.status = "saved", !.get = get]
<1>1. /\ ended.known = tb.known /\ ended.dirty = tb.dirty /\ ended.baseline = tb.baseline
      /\ ended.get = tb.get /\ ended.push = [tb.push EXCEPT ![s] = NoPush]
  BY DEF Tab
<1>2. /\ done.known = tb.known /\ done.dirty = tb.dirty /\ done.baseline = tb.baseline
      /\ done.get = get /\ done.push = [tb.push EXCEPT ![s] = NoPush]
  BY DEF Tab
<1>3. \A q \in Slots : [tb.push EXCEPT ![s] = NoPush][q] = IF q = s THEN NoPush ELSE tb.push[q]
  BY DEF Tab
<1>4. done = Done(tb, s)
  BY DEF Done, Tab
<1>5. ended \in Tab
  BY NoPushTyped DEF Tab
<1>6. (get = tb.get \/ get = Asked) /\ (Failed(tb, s) = ended \/ Failed(tb, s) = Schedule(ended))
  BY DEF Failed
<1>7. \A q \in Slots : \/ SamePush([tb.push EXCEPT ![s] = NoPush][q], tb.push[q])
                       \/ PushKept([tb.push EXCEPT ![s] = NoPush][q], m, n, U)
  BY <1>3, NothingKept DEF SamePush
<1> HIDE DEF ended, done, get
<1>8. TabKept(ended, m, a, n, U)
  BY <1>1, <1>7, KeptKeeps
<1>9. TabKept(done, m, a, n, U)
  BY <1>2, <1>6, <1>7, KeptKeeps
<1>10. TabKept(Schedule(ended), m, a, n, U)
  BY <1>5, <1>8, ScheduleKept
<1> QED BY <1>4, <1>6, <1>8, <1>9, <1>10

LEMMA AdoptingKept ==
    ASSUME NEW m, NEW n, Bounds(m, n), NEW a, NEW U, NEW tb \in Tab, TabKept(tb, m, a, n, U),
           NEW new \in Adopting(tb)
    PROVE  TabKept(new, m, a, n, U)
<1> DEFINE pushes == [s \in Slots |-> IF tb.push[s].then = "adopt"
                                      THEN [tb.push[s] EXCEPT !.then = "again"] ELSE tb.push[s]]
           out == [tb EXCEPT !.get = NoGet, !.push = pushes]
           asked == [out EXCEPT !.get = Asked]
<1>1. \A s \in Slots : pushes[s] \in Push /\ SamePush(pushes[s], tb.push[s])
  <2>1. ASSUME NEW p \in Push
        PROVE  [p EXCEPT !.then = "again"] \in Push /\ SamePush([p EXCEPT !.then = "again"], p) /\ SamePush(p, p)
    BY DEF Push, SamePush
  <2>2. \A s \in Slots : tb.push[s] \in Push
    BY DEF Tab
  <2> QED BY <2>1, <2>2
<1>2. pushes \in [Slots -> Push]
  BY <1>1
<1>3. Outdated(tb) = out
  BY DEF Outdated, Tab
<1> HIDE DEF pushes
<1>4. /\ out \in Tab /\ out.known = tb.known /\ out.dirty = tb.dirty /\ out.push = pushes
      /\ out.get = NoGet /\ out.baseline = tb.baseline
  BY <1>2, NoPushTyped DEF Tab
<1>5. /\ asked.known = tb.known /\ asked.dirty = tb.dirty /\ asked.push = pushes
      /\ asked.get = Asked /\ asked.baseline = tb.baseline
  BY <1>2, <1>4, NoPushTyped DEF Tab
<1> HIDE DEF out, asked
<1>6. TabKept(out, m, a, n, U)
  BY <1>1, <1>4, KeptKeeps
<1>7. TabKept(asked, m, a, n, U)
  BY <1>1, <1>5, KeptKeeps
<1>8. ASSUME NEW s \in Slots PROVE TabKept(Pushing(out, s, "adopt"), m, a, n, U)
  BY <1>4, <1>6, PushingKept
<1>9. (\E s \in Slots : new = Pushing(out, s, "adopt")) \/ new = asked
  BY <1>3 DEF Adopting, asked
<1> QED BY <1>7, <1>8, <1>9

\* A push that is replaced.
LEMMA PutKept ==
    ASSUME NEW m, NEW n, Bounds(m, n), NEW a, NEW U, NEW tb \in Tab, TabKept(tb, m, a, n, U), NEW s \in Slots,
           NEW push, PushKept(push, m, n, U)
    PROVE  TabKept(Put(tb, s, push), m, a, n, U)
<1> DEFINE new == Put(tb, s, push)
<1>1. /\ new.known = tb.known /\ new.dirty = tb.dirty /\ new.baseline = tb.baseline
      /\ new.get = tb.get /\ new.push = [tb.push EXCEPT ![s] = push]
  BY DEF Put, Tab
<1> HIDE DEF new
<1>2. \A r \in Slots : new.push[r] = IF r = s THEN push ELSE tb.push[r]
  BY <1>1 DEF Tab
<1>3. \A r \in Slots : SamePush(new.push[r], tb.push[r]) \/ PushKept(new.push[r], m, n, U)
  BY <1>2 DEF SamePush
<1>4. TabKept(new, m, a, n, U)
  BY <1>1, <1>3, KeptKeeps
<1> QED BY <1>4 DEF new

\* What a record leaves in browser storage.
LEMMA RecordHas ==
    ASSUME NEW st \in Storage, NEW new \in UNION {[J -> Edits] : J \in SUBSET Keys}
    PROVE  \A e : e[1] \in DOMAIN new /\ new[e[1]] = e[2] => Has(Record(st, new), e)
<1> SUFFICES ASSUME NEW e, e[1] \in DOMAIN new, new[e[1]] = e[2] PROVE Has(Record(st, new), e)
  OBVIOUS
<1> DEFINE next == Record(st, new)
<1>1. next.adopted = st.adopted /\ next.pending = [stamp |-> st.adopted, edits |-> new]
  BY DEF Record, Storage
<1>2. next.pending.stamp = next.adopted /\ next.pending.edits = new
  BY <1>1
<1> HIDE DEF next
<1>3. Has(next, e)
  BY <1>2 DEF Has, Recorded
<1> QED BY <1>3 DEF next

LEMMA RecordKept ==
    ASSUME NEW m, NEW n, Bounds(m, n), NEW U, NEW st \in Storage,
           st.adopted <= m, Below(st.cache, n), U # {} => st.adopted = m,
           NEW new \in UNION {[J -> Edits] : J \in SUBSET Keys}, Below(new, n),
           \A e \in U : e[1] \in DOMAIN new /\ new[e[1]] = e[2]
    PROVE  StorageKept(Record(st, new), m, n, U)
<1> DEFINE pending == IF DOMAIN new = {} THEN NoEdits ELSE [stamp |-> st.adopted, edits |-> new]
           next == Record(st, new)
<1>1. next.adopted = st.adopted /\ next.cache = st.cache /\ next.pending = pending
  BY DEF Record, Storage
<1>2. Below(pending.edits, n)
  <2>1. CASE DOMAIN new = {}
    <3>1. pending.edits = <<>>
      BY <2>1 DEF NoEdits
    <3> QED BY <3>1, NothingPending DEF Below
  <2>2. CASE DOMAIN new # {}
    <3>1. pending.edits = new
      BY <2>2
    <3> QED BY <3>1
  <2> QED BY <2>1, <2>2
<1>3. \A e \in U : Has(next, e)
  BY RecordHas
<1> HIDE DEF pending, next
<1>4. StorageKept(next, m, n, U)
  BY <1>1, <1>2, <1>3 DEF StorageKept
<1> QED BY <1>4 DEF next

\* What is taken up from the storage, and what leaves the pending edits alone.
LEMMA StorageKeeps ==
    ASSUME NEW m, NEW n, Bounds(m, n), NEW U, NEW st \in Storage, StorageKept(st, m, n, U)
    PROVE  /\ Below(Recorded(st), n)
           /\ \A e \in U : e[1] \in DOMAIN Recorded(st) /\ Recorded(st)[e[1]] = e[2]
           /\ StorageKept(Record(st, Recorded(st)), m, n, U)
<1>1. Below(Recorded(st), n)
  <2>1. Recorded(st) = st.pending.edits \/ Recorded(st) = <<>>
    BY DEF Recorded
  <2> QED BY <2>1, NothingPending DEF StorageKept, Below
<1>2. \A e \in U : e[1] \in DOMAIN Recorded(st) /\ Recorded(st)[e[1]] = e[2]
  BY DEF StorageKept, Has
<1>3. StorageKept(Record(st, Recorded(st)), m, n, U)
  BY <1>1, <1>2, RecordKept, RecordedTyped DEF StorageKept
<1> QED BY <1>1, <1>2, <1>3

LEMMA CachedKept ==
    ASSUME NEW m, NEW n, Bounds(m, n), NEW U, NEW st \in Storage, StorageKept(st, m, n, U),
           NEW c \in Settings, Below(c, n)
    PROVE  StorageKept([st EXCEPT !.cache = c], m, n, U)
<1> DEFINE next == [st EXCEPT !.cache = c]
<1>1. next.adopted = st.adopted /\ next.pending = st.pending /\ next.cache = c
  BY DEF Storage
<1> HIDE DEF next
<1>2. Recorded(next) = Recorded(st)
  BY <1>1 DEF Recorded
<1>3. StorageKept(next, m, n, U)
  BY <1>1, <1>2 DEF StorageKept, Has
<1> QED BY <1>3 DEF next

\* The restore is adopted, when there is no edit since that is not saved.
LEMMA AdoptedKept ==
    ASSUME NEW m, NEW n, Bounds(m, n), NEW U, NEW st \in Storage, StorageKept(st, m, n, U),
           NEW stamp \in Nat, stamp <= m, stamp # 0, stamp # st.adopted
    PROVE  /\ StorageKept(Adopted(st, stamp), m, n, U)
           /\ Adopted(st, stamp).adopted = 1 /\ stamp = 1
<1> DEFINE next == [st EXCEPT !.adopted = stamp]
<1>1. next \in Storage /\ next.adopted = stamp /\ next.pending = st.pending /\ next.cache = st.cache
  BY DEF Storage
<1>2. Adopted(st, stamp) = Record(next, Recorded(next))
  BY DEF Adopted
<1> HIDE DEF next
<1>3. stamp = 1 /\ m = 1 /\ U = {}
  BY DEF Bounds, StorageKept
<1>4. StorageKept(next, m, n, U)
  BY <1>1, <1>3 DEF StorageKept
<1> QED BY <1>1, <1>2, <1>3, <1>4, StorageKeeps, RecordTyped, RecordedTyped

LEMMA ReleasedKept ==
    ASSUME NEW m, NEW n, Bounds(m, n), NEW U, U \subseteq Keys \X Edits, NEW st \in Storage, StorageKept(st, m, n, U),
           NEW tb, NEW posted, \A k \in Keys : <<k, posted[k]>> \notin U
    PROVE  StorageKept(Released(st, tb, posted), m, n, U) /\ Released(st, tb, posted).adopted = st.adopted
<1>0. /\ Below(Recorded(st), n) /\ \A e \in U : e[1] \in DOMAIN Recorded(st) /\ Recorded(st)[e[1]] = e[2]
      /\ st.adopted <= m /\ Below(st.cache, n) /\ (U # {} => st.adopted = m)
  BY StorageKeeps DEF StorageKept
<1> DEFINE old == Recorded(st)
           kept == {k \in DOMAIN old : k \in StillPosted(tb, posted) => old[k] # posted[k]}
           new == [k \in kept |-> old[k]]
<1>1. kept \in SUBSET Keys /\ new \in [kept -> Edits]
  BY RecordedTyped
<1>2. new \in UNION {[J -> Edits] : J \in SUBSET Keys}
  BY <1>1, PendingFunction
<1>3. Below(old, n) /\ \A e \in U : e[1] \in DOMAIN old /\ old[e[1]] = e[2]
  BY <1>0
<1>4. Below(new, n)
  BY <1>3 DEF Below
<1>5. ASSUME NEW e \in U PROVE e[1] \in DOMAIN new /\ new[e[1]] = e[2]
  <2>1. e[1] \in Keys /\ e = <<e[1], e[2]>>
    OBVIOUS
  <2>2. old[e[1]] # posted[e[1]]
    BY <1>3, <2>1
  <2> QED BY <1>3, <2>2
<1>6. Released(st, tb, posted) = Record(st, new)
  BY DEF Released
<1> HIDE DEF new
<1>7. StorageKept(Record(st, new), m, n, U)
  BY <1>0, <1>2, <1>4, <1>5, RecordKept
<1> QED BY <1>2, <1>6, <1>7, RecordTyped

\* What the server holds leaves the edits as they are.
LEMMA CanonicalKept ==
    ASSUME NEW m, NEW n, Bounds(m, n), NEW U, NEW st \in Storage, StorageKept(st, m, n, U),
           NEW tb \in Tab, TabKept(tb, m, st.adopted, n, U), NEW server \in Snapshot, SnapKept(server, m, n),
           NEW settings \in Settings, Below(settings, n), \A k \in tb.dirty : settings[k] = tb.known[k]
    PROVE  LET next == ApplyCanonical(tb, st, settings, server)
           IN  /\ TabKept(next.tab, m, next.storage.adopted, n, U) /\ StorageKept(next.storage, m, n, U)
               /\ st.adopted = 1 => next.storage.adopted = 1
<1> DEFINE baseline == IF server.stamp # 0 THEN server.stamp ELSE tb.baseline
           new == [tb EXCEPT !.known = settings, !.base = server.rev, !.baseline = baseline]
           cached == [st EXCEPT !.cache = settings]
           next == ApplyCanonical(tb, st, settings, server)
<1>1. /\ new.known = settings /\ new.dirty = tb.dirty
      /\ new.push = tb.push /\ new.get = tb.get /\ new.baseline = baseline
  BY DEF Tab
<1>2. cached \in Storage /\ cached.adopted = st.adopted /\ StorageKept(cached, m, n, U)
  BY CachedKept DEF Storage
<1>3. server.stamp \in Nat /\ server.stamp <= m /\ tb.baseline <= m /\ (tb.baseline = 1 => st.adopted = 1)
      /\ SnapKept(tb.get.current, m, n)
  BY DEF Snapshot, SnapKept, TabKept
<1>4. \A e \in U : e[1] \in tb.dirty => settings[e[1]] = e[2]
  BY DEF TabKept
<1>5. \A s \in Slots : SamePush(new.push[s], tb.push[s])
  BY <1>1 DEF SamePush
<1>6. next.tab = new /\ next.storage = IF UnseenRestore(st, server) THEN Adopted(cached, server.stamp) ELSE cached
  BY DEF ApplyCanonical
<1>7. baseline <= m
  BY <1>3
<1>8. CASE UnseenRestore(st, server)
  <2> HIDE DEF new, cached, next, baseline
  <2>0. next.storage = Adopted(cached, server.stamp) /\ server.stamp # 0 /\ server.stamp # cached.adopted
    BY <1>2, <1>6, <1>8 DEF UnseenRestore
  <2>1. StorageKept(next.storage, m, n, U) /\ next.storage.adopted = 1
    BY <1>2, <1>3, <2>0, AdoptedKept
  <2>2. new.baseline = 1 => next.storage.adopted = 1
    BY <2>1
  <2>3. TabKept(tb, m, next.storage.adopted, n, U)
    BY <2>1, <1>3 DEF TabKept
  <2>4. TabKept(new, m, next.storage.adopted, n, U)
    BY <1>1, <1>3, <1>4, <1>5, <1>7, <2>2, <2>3, KeptSimilar
  <2> QED BY <1>6, <2>1, <2>4 DEF next
<1>9. CASE ~UnseenRestore(st, server)
  <2>1. StorageKept(next.storage, m, n, U) /\ next.storage.adopted = st.adopted
    BY <1>2, <1>6, <1>9
  <2>2. new.baseline = 1 => st.adopted = 1
    BY <1>1, <1>3, <1>9 DEF UnseenRestore
  <2> HIDE DEF new, cached, next, baseline
  <2>3. TabKept(new, m, st.adopted, n, U)
    BY <1>1, <1>3, <1>4, <1>5, <1>7, <2>2, KeptSimilar
  <2> QED BY <1>6, <2>1, <2>3 DEF next
<1> QED BY <1>8, <1>9

LEMMA RebaseKept ==
    ASSUME NEW m, NEW n, Bounds(m, n), NEW U, NEW st \in Storage, StorageKept(st, m, n, U),
           NEW tb \in Tab, TabKept(tb, m, st.adopted, n, U), NEW server \in Snapshot, SnapKept(server, m, n)
    PROVE  LET next == RebaseOntoServer(tb, st, server)
           IN  /\ TabKept(next.tab, m, next.storage.adopted, n, U) /\ StorageKept(next.storage, m, n, U)
               /\ st.adopted = 1 => next.storage.adopted = 1
<1> DEFINE next == RebaseOntoServer(tb, st, server)
           unbased == [tb EXCEPT !.base = 0]
           cleared == [tb EXCEPT !.dirty = {}]
           recorded == Record(st, Recorded(st))
<1>1. /\ server.val \in Settings /\ Rebased(server, tb) \in Settings
      /\ Below(server.val, n) /\ Below(Rebased(server, tb), n)
  <2>1. tb.known \in Settings /\ server.val \in Settings /\ Below(tb.known, n) /\ Below(server.val, n)
    BY DEF Snapshot, Tab, TabKept, SnapKept
  <2> QED BY <2>1 DEF Rebased, Settings, Below
<1>2. CASE server.state = "missing"
  <2>1. next.tab = unbased /\ next.storage = st
    BY <1>2 DEF RebaseOntoServer
  <2>2. /\ unbased.known = tb.known /\ unbased.dirty = tb.dirty /\ unbased.baseline = tb.baseline
        /\ unbased.get = tb.get /\ unbased.push = tb.push
    BY DEF Tab
  <2>3. \A s \in Slots : SamePush(unbased.push[s], tb.push[s])
    BY <2>2 DEF SamePush
  <2> HIDE DEF unbased, next
  <2>4. TabKept(unbased, m, st.adopted, n, U)
    BY <2>2, <2>3, KeptKeeps
  <2> QED BY <2>1, <2>4 DEF next
<1>3. CASE server.state # "missing" /\ UnseenByTab(tb, st, server)
  <2>1. next = ApplyCanonical(cleared, recorded, server.val, server)
    BY <1>3 DEF RebaseOntoServer
  <2>2. /\ cleared \in Tab /\ cleared.known = tb.known /\ cleared.dirty = {} /\ cleared.baseline = tb.baseline
        /\ cleared.get = tb.get /\ cleared.push = tb.push
    BY DEF Tab
  <2>3. \A s \in Slots : SamePush(cleared.push[s], tb.push[s])
    BY <2>2 DEF SamePush
  <2>4. recorded \in Storage /\ recorded.adopted = st.adopted /\ StorageKept(recorded, m, n, U)
    BY StorageKeeps, RecordTyped, RecordedTyped
  <2> HIDE DEF cleared, recorded, next
  <2>5. TabKept(cleared, m, recorded.adopted, n, U)
    BY <2>2, <2>3, <2>4, KeptKeeps
  <2>6. /\ TabKept(ApplyCanonical(cleared, recorded, server.val, server).tab, m,
                   ApplyCanonical(cleared, recorded, server.val, server).storage.adopted, n, U)
        /\ StorageKept(ApplyCanonical(cleared, recorded, server.val, server).storage, m, n, U)
        /\ recorded.adopted = 1 => ApplyCanonical(cleared, recorded, server.val, server).storage.adopted = 1
    BY <1>1, <2>2, <2>4, <2>5, CanonicalKept
  <2> QED BY <2>1, <2>4, <2>6 DEF next
<1>4. CASE server.state # "missing" /\ ~UnseenByTab(tb, st, server)
  <2>1. next = ApplyCanonical(tb, st, Rebased(server, tb), server)
    BY <1>4 DEF RebaseOntoServer
  <2>2. \A k \in tb.dirty : Rebased(server, tb)[k] = tb.known[k]
    BY DEF Rebased, Tab
  <2> HIDE DEF next
  <2>3. /\ TabKept(ApplyCanonical(tb, st, Rebased(server, tb), server).tab, m,
                   ApplyCanonical(tb, st, Rebased(server, tb), server).storage.adopted, n, U)
        /\ StorageKept(ApplyCanonical(tb, st, Rebased(server, tb), server).storage, m, n, U)
        /\ st.adopted = 1 => ApplyCanonical(tb, st, Rebased(server, tb), server).storage.adopted = 1
    BY <1>1, <2>2, CanonicalKept
  <2> QED BY <2>1, <2>3 DEF next
<1> QED BY <1>2, <1>3, <1>4

-----------------------------------------------------------------------------
(* No edit is forgotten: the steps                                           *)

LEMMA KeptFacts ==
    ASSUME TypeInv, KeptInv, NEW t \in Tabs
    PROVE  /\ Bounds(marker, edits) /\ unsaved \subseteq Keys \X Edits
           /\ tab[t] \in Tab /\ TabTyped(tab[t]) /\ TabGood(tab[t])
           /\ TabKept(tab[t], marker, storage.adopted, edits, unsaved)
           /\ storage \in Storage /\ StorageKept(storage, marker, edits, unsaved)
           /\ \A post \in net : PostKept(post, edits)
           /\ Current \in Snapshot /\ SnapKept(Current, marker, edits)
           /\ \A s \in Slots : tab[t].push[s] \in Push /\ PushKept(tab[t].push[s], marker, edits, unsaved)
<1>1. Bounds(marker, edits)
  BY DEF TypeInv, SharedTyped, KeptInv, Bounds
<1>2. SnapKept(Current, marker, edits)
  <2>1. Current.stamp = marker /\ Current.val = file.val
    BY DEF Current
  <2> QED BY <1>1, <2>1 DEF SnapKept, KeptInv, Bounds
<1>3. tab[t] \in Tab /\ \A s \in Slots : tab[t].push[s] \in Push
  BY DEF TypeInv, Tab
<1> QED BY <1>1, <1>2, <1>3, CurrentTyped DEF KeptInv, TypeInv, SharedTyped, TabGood, TabKept

LEMMA KeptTab ==
    ASSUME TypeInv, KeptInv, NEW t \in Tabs, NEW tb, Becomes(t, tb), UNCHANGED <<file, marker, edits, unsaved>>,
           TabKept(tb, marker, storage'.adopted, edits, unsaved),
           StorageKept(storage', marker, edits, unsaved), storage.adopted = 1 => storage'.adopted = 1,
           \A post \in net' : PostKept(post, edits)
    PROVE  KeptInv'
<1>1. \A u \in Tabs : tab'[u] = IF u = t THEN tb ELSE tab[u]
  BY DEF TypeInv, Becomes
<1>2. \A u \in Tabs : TabKept(tab'[u], marker, storage'.adopted, edits, unsaved)
  BY <1>1 DEF KeptInv, TabKept
<1> QED BY <1>2 DEF KeptInv

LEMMA OpenKept ==
    ASSUME TypeInv, KeptInv, NEW t \in Tabs, Open(t)
    PROVE  KeptInv'
<1>0. /\ Below(Recorded(storage), edits)
      /\ \A e \in unsaved : e[1] \in DOMAIN Recorded(storage) /\ Recorded(storage)[e[1]] = e[2]
      /\ StorageKept(Record(storage, Recorded(storage)), marker, edits, unsaved)
  <2>1. Bounds(marker, edits) /\ storage \in Storage /\ StorageKept(storage, marker, edits, unsaved)
    BY KeptFacts
  <2> QED BY <2>1, StorageKeeps
<1> DEFINE old == Recorded(storage)
           known == [k \in Keys |-> IF k \in DOMAIN old THEN old[k] ELSE storage.cache[k]]
           opened == [Closed EXCEPT !.open = TRUE, !.known = known,
                                    !.dirty = DOMAIN old, !.baseline = storage.adopted]
           kept == Record(storage, old)
           next == [kept EXCEPT !.cache = known]
<1>1. /\ MaxEdits \in Nat /\ storage \in Storage /\ storage.cache \in Settings /\ storage.adopted \in Nat
      /\ Below(storage.cache, edits) /\ storage.adopted <= marker
  BY PreferencesAssumption, KeptFacts DEF TypeInv, SharedTyped, Storage, StorageKept
<1>2. DOMAIN old \in SUBSET Keys /\ old \in [DOMAIN old -> Edits] /\ kept \in Storage /\ kept.adopted = storage.adopted
  BY <1>1, RecordedTyped, RecordTyped
<1>3. /\ StorageKept(kept, marker, edits, unsaved)
      /\ \A e \in unsaved : e[1] \in DOMAIN old => old[e[1]] = e[2]
  BY <1>0
<1>4. storage' = next
  BY DEF Open
<1> HIDE DEF kept
<1>5. known \in Settings /\ (\A k \in DOMAIN old : known[k] = old[k]) /\ Below(known, edits)
  <2>1. known \in Settings /\ \A k \in DOMAIN old : known[k] = old[k]
    BY <1>1, <1>2 DEF Settings, Edits
  <2>2. Below(old, edits)
    BY <1>0
  <2> HIDE DEF old
  <2>3. Below(known, edits)
    BY <1>1, <2>2 DEF Below, Settings
  <2> QED BY <2>1, <2>3
<1>6. PICK tb \in Adopting(opened) : Becomes(t, tb)
  BY Zenon DEF Open, known, old
<1> HIDE DEF old, known
<1>7. Closed \in Tab /\ Closed.get = NoGet /\ \A s \in Slots : Closed.push[s] = NoPush
  BY ClosedGood DEF TabGood, TabTyped, Closed
<1>8. /\ opened \in Tab /\ opened.known = known /\ opened.dirty = DOMAIN old
      /\ opened.push = Closed.push /\ opened.get = NoGet /\ opened.baseline = storage.adopted
  BY <1>1, <1>2, <1>5, <1>7 DEF Tab
<1> HIDE DEF opened
<1>9. TabKept(opened, marker, storage.adopted, edits, unsaved)
  <2>1. \A e \in unsaved : e[1] \in opened.dirty => opened.known[e[1]] = e[2]
    BY <1>3, <1>5, <1>8
  <2>2. SnapKept(NoGet.current, marker, edits) /\ PushKept(NoPush, marker, edits, unsaved)
    BY KeptFacts, NothingKept
  <2> QED BY <1>1, <1>5, <1>7, <1>8, <2>1, <2>2 DEF TabKept
<1>10. TabKept(tb, marker, storage.adopted, edits, unsaved)
  BY <1>8, <1>9, KeptFacts, AdoptingKept
<1>11. StorageKept(next, marker, edits, unsaved)
  BY <1>2, <1>3, <1>5, KeptFacts, CachedKept
<1>12. next.adopted = storage.adopted
  BY <1>2 DEF Storage
<1> HIDE DEF next
<1>13. UNCHANGED <<file, marker, net, edits, unsaved>>
  BY Zenon DEF Open, history
<1> QED BY <1>4, <1>6, <1>10, <1>11, <1>12, <1>13, KeptFacts, KeptTab

LEMMA CloseKept ==
    ASSUME TypeInv, KeptInv, NEW t \in Tabs, Close(t)
    PROVE  KeptInv'
<1>1. /\ Closed.get = NoGet /\ Closed.baseline = 0 /\ Closed.dirty = {} /\ Closed.known = Default
      /\ \A s \in Slots : Closed.push[s] = NoPush
  BY DEF Closed
<1>2. TabKept(Closed, marker, storage.adopted, edits, unsaved)
  <2>1. Below(Default, edits)
    BY KeptFacts DEF Below, Default, Bounds
  <2>2. SnapKept(NoGet.current, marker, edits) /\ PushKept(NoPush, marker, edits, unsaved)
    BY KeptFacts, NothingKept
  <2>3. 0 <= marker
    BY KeptFacts DEF Bounds
  <2> QED BY <1>1, <2>1, <2>2, <2>3 DEF TabKept
<1>3. \A post \in net' : PostKept(post, edits)
  BY KeptFacts DEF Close, Pending, PushKept
<1> QED BY <1>2, <1>3, KeptFacts, KeptTab DEF Close, counters, history

\* Steps that leave what the tab knows and its pushes alone.
LEMMA LightKept ==
    ASSUME TypeInv, KeptInv, NEW t \in Tabs, Mount(t) \/ FailGet(t)
    PROVE  KeptInv'
<1> DEFINE mounted == [tab[t] EXCEPT !.mounted = TRUE]
           failed == [tab[t] EXCEPT !.get = NoGet]
<1>0. tab[t] \in Tab
  BY KeptFacts
<1>1. /\ mounted.push = tab[t].push /\ mounted.known = tab[t].known /\ mounted.dirty = tab[t].dirty
      /\ mounted.baseline = tab[t].baseline /\ mounted.get = tab[t].get
  BY <1>0 DEF Tab
<1>2. /\ failed.push = tab[t].push /\ failed.known = tab[t].known /\ failed.dirty = tab[t].dirty
      /\ failed.baseline = tab[t].baseline /\ failed.get = NoGet
  BY <1>0 DEF Tab
<1>3. PICK new \in {mounted, failed} : Becomes(t, new)
  BY DEF Mount, FailGet
<1> HIDE DEF mounted, failed
<1>4. \A s \in Slots : SamePush(new.push[s], tab[t].push[s])
  BY <1>1, <1>2 DEF SamePush
<1>5. TabKept(new, marker, storage.adopted, edits, unsaved)
  BY <1>1, <1>2, <1>4, KeptFacts, KeptKeeps
<1>6. UNCHANGED <<file, marker, storage, net, edits, unsaved>>
  BY DEF Mount, FailGet, counters, history
<1> QED BY <1>3, <1>5, <1>6, KeptFacts, KeptTab

LEMMA PushStepKept ==
    ASSUME TypeInv, KeptInv, NEW t \in Tabs, TimerFires(t) \/ Focus(t)
    PROVE  KeptInv'
<1>1. \/ \E s \in Slots : Becomes(t, Pushing(tab[t], s, "stop"))
      \/ \E tb \in Adopting(tab[t]) : Becomes(t, tb)
  BY DEF TimerFires, Focus
<1>2. \A s \in Slots : TabKept(Pushing(tab[t], s, "stop"), marker, storage.adopted, edits, unsaved)
  BY KeptFacts, PushingKept
<1>3. \A tb \in Adopting(tab[t]) : TabKept(tb, marker, storage.adopted, edits, unsaved)
  BY KeptFacts, AdoptingKept
<1>4. PICK tb : Becomes(t, tb) /\ TabKept(tb, marker, storage.adopted, edits, unsaved)
  BY <1>1, <1>2, <1>3
<1>5. UNCHANGED <<file, marker, storage, net, edits, unsaved>>
  BY DEF TimerFires, Focus, counters, history
<1> QED BY <1>4, <1>5, KeptFacts, KeptTab

LEMMA SettleSavedKept ==
    ASSUME TypeInv, KeptInv, NEW t \in Tabs, NEW s \in Slots, SettleSaved(t, s)
    PROVE  KeptInv'
<1> DEFINE push == tab[t].push[s]
           still == StillPosted(tab[t], push.post.posted)
           mid == [tab[t] EXCEPT !.base = push.rev, !.dirty = @ \ still]
<1>1. /\ tab[t] \in Tab /\ push \in Push /\ push.rev \in Nat
      /\ push.phase = "answered" /\ push.result = "saved"
      /\ PushKept(push, marker, edits, unsaved)
  BY KeptFacts DEF Push, SettleSaved
<1>2. /\ mid \in Tab /\ mid.push = tab[t].push /\ mid.known = tab[t].known
      /\ mid.dirty = tab[t].dirty \ still /\ mid.baseline = tab[t].baseline /\ mid.get = tab[t].get
  BY <1>1 DEF Tab
<1>3. /\ Becomes(t, Done(mid, s)) /\ storage' = Released(storage, tab[t], push.post.posted)
      /\ UNCHANGED <<file, marker, net, edits, unsaved>>
  BY DEF SettleSaved, counters, history
<1>4. \A k \in Keys : <<k, push.post.posted[k]>> \notin unsaved
  BY <1>1 DEF PushKept
<1>5. StorageKept(storage', marker, edits, unsaved) /\ storage'.adopted = storage.adopted
  BY <1>3, <1>4, KeptFacts, ReleasedKept
<1> HIDE DEF mid
<1>6. \A q \in Slots : SamePush(mid.push[q], tab[t].push[q])
  BY <1>2 DEF SamePush
<1>7. TabKept(mid, marker, storage.adopted, edits, unsaved)
  BY <1>2, <1>6, KeptFacts, KeptKeeps
<1>8. TabKept(Done(mid, s), marker, storage.adopted, edits, unsaved)
  BY <1>2, <1>7, KeptFacts, EndsKept
<1> QED BY <1>3, <1>5, <1>8, KeptFacts, KeptTab

LEMMA FailedStepKept ==
    ASSUME TypeInv, KeptInv, NEW t \in Tabs, NEW s \in Slots, SettleFailed(t, s) \/ FailPush(t, s)
    PROVE  KeptInv'
<1>1. Becomes(t, Failed(tab[t], s)) /\ UNCHANGED <<file, marker, storage, edits, unsaved>>
  BY DEF SettleFailed, FailPush, counters, history
<1>2. TabKept(Failed(tab[t], s), marker, storage.adopted, edits, unsaved)
  BY KeptFacts, EndsKept
<1>3. \A post \in net' : PostKept(post, edits)
  BY KeptFacts DEF SettleFailed, FailPush, PushKept
<1> QED BY <1>1, <1>2, <1>3, KeptFacts, KeptTab

LEMMA StaleKept ==
    ASSUME TypeInv, KeptInv, NEW t \in Tabs, NEW s \in Slots, SettleStale(t, s)
    PROVE  KeptInv'
<1> DEFINE push == tab[t].push[s]
           server == push.current
           next == RebaseOntoServer(tab[t], storage, server)
           write == server.state = "missing" \/ next.tab.dirty # {}
           retry == Sent(next.tab, push.attempt + 1, push.then)
<1>1. /\ tab[t] \in Tab /\ push \in Push /\ server \in Snapshot
      /\ push.attempt \in 1 .. 2 /\ push.then \in {"stop", "adopt", "again"}
      /\ SnapKept(server, marker, edits)
  BY KeptFacts DEF Push, PushKept
<1>2. /\ TabKept(next.tab, marker, next.storage.adopted, edits, unsaved)
      /\ StorageKept(next.storage, marker, edits, unsaved)
      /\ storage.adopted = 1 => next.storage.adopted = 1
  BY <1>1, KeptFacts, RebaseKept
<1>3. next.tab \in Tab
  BY <1>1, KeptFacts, RebaseGood DEF TabGood, TabTyped
<1>4. /\ Becomes(t, IF ~write THEN Done(next.tab, s)
                    ELSE IF LastAttempt(push) THEN Failed(next.tab, s)
                    ELSE Put(next.tab, s, retry))
      /\ storage' = next.storage
  BY DEF SettleStale, Put
<1> DEFINE a == next.storage.adopted
<1> HIDE DEF next
<1>5. TabKept(Failed(next.tab, s), marker, a, edits, unsaved) /\ TabKept(Done(next.tab, s), marker, a, edits, unsaved)
  BY <1>2, <1>3, KeptFacts, EndsKept
<1>6. ASSUME ~LastAttempt(push) PROVE TabKept(Put(next.tab, s, retry), marker, a, edits, unsaved)
  <2>1. push.attempt + 1 \in 1 .. 2
    BY <1>1, <1>6 DEF LastAttempt
  <2>2. PushKept(retry, marker, edits, unsaved)
    BY <1>1, <1>2, <1>3, <2>1, KeptFacts, SentKept DEF TabKept
  <2> QED BY <1>2, <1>3, <2>2, KeptFacts, PutKept
<1>7. PICK tb : Becomes(t, tb) /\ TabKept(tb, marker, a, edits, unsaved)
  BY <1>4, <1>5, <1>6
<1>8. UNCHANGED <<file, marker, net, edits, unsaved>>
  BY Zenon DEF SettleStale, counters, history
<1> QED BY <1>2, <1>4, <1>7, <1>8, KeptFacts, KeptTab

LEMMA FinishGetKept ==
    ASSUME TypeInv, KeptInv, NEW t \in Tabs, FinishGet(t)
    PROVE  KeptInv'
<1> DEFINE server == tab[t].get.current
           tb == [tab[t] EXCEPT !.get = NoGet]
           known == ApplyCanonical(tb, storage, server.val, server)
           shown == [tb EXCEPT !.status = "error"]
           unseen == [tb EXCEPT !.base = 0, !.baseline = server.stamp]
           unbased == [tb EXCEPT !.base = 0]
           taken == [known.tab EXCEPT !.status = "saved"]
           adopted == Adopted(storage, server.stamp)
           a == storage.adopted
<1>1. /\ tab[t] \in Tab /\ server \in Snapshot /\ server.stamp \in Nat /\ server.val \in Settings
      /\ TabKept(tab[t], marker, a, edits, unsaved) /\ SnapKept(server, marker, edits)
      /\ server.stamp <= marker /\ Below(server.val, edits)
  BY KeptFacts DEF Tab, Get, Snapshot, TabKept, SnapKept
<1>2. /\ tb \in Tab /\ tb.push = tab[t].push /\ tb.known = tab[t].known /\ tb.dirty = tab[t].dirty
      /\ tb.baseline = tab[t].baseline /\ tb.get = NoGet
  BY <1>1, NoPushTyped DEF Tab
<1>3. ASSUME NEW new, new.push = tab[t].push, new.known = tab[t].known, new.dirty = tab[t].dirty,
             new.get = NoGet, new.baseline = tab[t].baseline
      PROVE  TabKept(new, marker, a, edits, unsaved)
  <2>1. \A s \in Slots : SamePush(new.push[s], tab[t].push[s])
    BY <1>3 DEF SamePush
  <2> QED BY <1>1, <1>3, <2>1, KeptFacts, KeptKeeps
<1>4. TabKept(tb, marker, a, edits, unsaved)
  BY <1>2, <1>3
<1>5. TabKept(shown, marker, a, edits, unsaved)
  <2>1. /\ shown.push = tab[t].push /\ shown.known = tab[t].known /\ shown.dirty = tab[t].dirty
        /\ shown.get = NoGet /\ shown.baseline = tab[t].baseline
    BY <1>2 DEF Tab
  <2> QED BY <2>1, <1>3
<1>6. ASSUME UnseenRestore(storage, server)
      PROVE  /\ TabKept(unseen, marker, adopted.adopted, edits, unsaved)
             /\ StorageKept(adopted, marker, edits, unsaved) /\ adopted.adopted = 1
  <2>1. /\ unseen.push = tab[t].push /\ unseen.known = tab[t].known /\ unseen.dirty = tab[t].dirty
        /\ unseen.get = NoGet /\ unseen.baseline = server.stamp
    BY <1>2 DEF Tab
  <2>2. \A s \in Slots : SamePush(unseen.push[s], tab[t].push[s])
    BY <2>1 DEF SamePush
  <2>3. server.stamp # 0 /\ server.stamp # storage.adopted
    BY <1>6 DEF UnseenRestore
  <2>4. StorageKept(adopted, marker, edits, unsaved) /\ adopted.adopted = 1
    BY <1>1, <2>3, KeptFacts, AdoptedKept
  <2> HIDE DEF unseen, adopted
  <2>5. TabKept(tab[t], marker, adopted.adopted, edits, unsaved)
    BY <1>1, <2>4 DEF TabKept
  <2>6. SnapKept(unseen.get.current, marker, edits)
    BY <2>1, KeptFacts, NothingKept
  <2>7. Below(unseen.known, edits) /\ \A e \in unsaved : e[1] \in unseen.dirty => unseen.known[e[1]] = e[2]
    BY <1>1, <2>1 DEF TabKept
  <2>8. unseen.baseline <= marker /\ (unseen.baseline = 1 => adopted.adopted = 1)
    BY <1>1, <2>1, <2>4
  <2>9. TabKept(unseen, marker, adopted.adopted, edits, unsaved)
    BY <2>2, <2>5, <2>6, <2>7, <2>8, KeptSimilar
  <2> QED BY <2>4, <2>9
<1>7. unbased \in Tab /\ TabKept(unbased, marker, a, edits, unsaved)
  <2>1. /\ unbased.push = tab[t].push /\ unbased.known = tab[t].known /\ unbased.dirty = tab[t].dirty
        /\ unbased.get = NoGet /\ unbased.baseline = tab[t].baseline /\ unbased \in Tab
    BY <1>2 DEF Tab
  <2> QED BY <2>1, <1>3
<1>8. ASSUME NEW s \in Slots PROVE TabKept(Pushing(unbased, s, "again"), marker, a, edits, unsaved)
  BY <1>7, KeptFacts, PushingKept
<1>9. ASSUME Quiet(tb)
      PROVE  /\ TabKept(taken, marker, known.storage.adopted, edits, unsaved)
             /\ StorageKept(known.storage, marker, edits, unsaved)
             /\ storage.adopted = 1 => known.storage.adopted = 1
  <2>0. Bounds(marker, edits) /\ storage \in Storage /\ StorageKept(storage, marker, edits, unsaved)
    BY KeptFacts
  <2>1. tb.dirty = {} /\ \A k \in tb.dirty : server.val[k] = tb.known[k]
    BY <1>9 DEF Quiet
  <2> HIDE DEF tb, server
  <2>2. /\ TabKept(known.tab, marker, known.storage.adopted, edits, unsaved)
        /\ StorageKept(known.storage, marker, edits, unsaved)
        /\ storage.adopted = 1 => known.storage.adopted = 1
    BY <1>1, <1>2, <1>4, <2>0, <2>1, CanonicalKept
  <2>3. known.tab = [tb EXCEPT !.known = server.val, !.base = server.rev,
                               !.baseline = IF server.stamp # 0 THEN server.stamp ELSE tb.baseline]
    BY DEF ApplyCanonical
  <2>4. known.tab \in Tab
    BY <1>1, <1>2, <2>3 DEF Tab, Snapshot
  <2> HIDE DEF known
  <2>5. /\ taken.push = known.tab.push /\ taken.known = known.tab.known /\ taken.dirty = known.tab.dirty
        /\ taken.get = known.tab.get /\ taken.baseline = known.tab.baseline
    BY <2>4 DEF Tab
  <2>6. \A s \in Slots : SamePush(taken.push[s], known.tab.push[s])
    BY <2>5 DEF SamePush
  <2> HIDE DEF taken
  <2> QED BY <2>2, <2>5, <2>6, KeptFacts, KeptKeeps
<1>10. \/ /\ Becomes(t, tb) \/ Becomes(t, shown) \/ Becomes(t, unbased)
             \/ \E s \in Slots : Becomes(t, Pushing(unbased, s, "again"))
          /\ UNCHANGED storage
       \/ UnseenRestore(storage, server) /\ Becomes(t, unseen) /\ storage' = adopted
       \/ Quiet(tb) /\ Becomes(t, taken) /\ storage' = known.storage
  BY DEF FinishGet
<1>11. UNCHANGED <<file, marker, net, edits, unsaved>>
  BY Zenon DEF FinishGet, counters, history
<1> HIDE DEF tb, shown, unseen, unbased, taken, server, known, adopted
<1>12. PICK new : /\ Becomes(t, new) /\ TabKept(new, marker, storage'.adopted, edits, unsaved)
                  /\ StorageKept(storage', marker, edits, unsaved)
                  /\ storage.adopted = 1 => storage'.adopted = 1
  BY <1>4, <1>5, <1>6, <1>7, <1>8, <1>9, <1>10, KeptFacts
<1> QED BY <1>11, <1>12, KeptFacts, KeptTab

LEMMA ReadStepKept ==
    ASSUME TypeInv, KeptInv, NEW t \in Tabs, ServerReads(t)
    PROVE  KeptInv'
<1> DEFINE new == [tab[t] EXCEPT !.get.phase = "answered", !.get.current = Current]
<1>1. tab[t] \in Tab /\ Current \in Snapshot /\ SnapKept(Current, marker, edits)
  BY KeptFacts
<1>2. /\ new.push = tab[t].push /\ new.known = tab[t].known /\ new.dirty = tab[t].dirty
      /\ new.baseline = tab[t].baseline /\ new.get.current = Current
  BY <1>1 DEF Tab, Get
<1>3. Becomes(t, new)
  BY DEF ServerReads
<1> HIDE DEF new
<1>4. /\ new.baseline <= marker /\ (new.baseline = 1 => storage.adopted = 1) /\ Below(new.known, edits)
      /\ \A e \in unsaved : e[1] \in new.dirty => new.known[e[1]] = e[2]
  BY <1>2, KeptFacts DEF TabKept
<1>5. \A s \in Slots : SamePush(new.push[s], tab[t].push[s])
  BY <1>2 DEF SamePush
<1>6. TabKept(new, marker, storage.adopted, edits, unsaved)
  BY <1>1, <1>2, <1>4, <1>5, KeptFacts, KeptSimilar
<1> QED BY <1>3, <1>6, KeptFacts, KeptTab DEF ServerReads, counters, history

LEMMA ExplainsKept ==
    ASSUME TypeInv, KeptInv, NEW t \in Tabs, NEW s \in Slots, ServerExplains(t, s)
    PROVE  KeptInv'
<1> DEFINE push == tab[t].push[s]
           new == [push EXCEPT !.phase = "answered", !.result = "stale", !.current = Current]
<1>1. push \in Push /\ SnapKept(Current, marker, edits) /\ PushKept(push, marker, edits, unsaved)
  BY KeptFacts
<1>2. Becomes(t, Put(tab[t], s, new))
  BY DEF ServerExplains, Put
<1>3. new.result = "stale" /\ new.current = Current /\ new.post = push.post
  BY <1>1 DEF Push
<1> HIDE DEF new
<1>4. PushKept(new, marker, edits, unsaved)
  BY <1>1, <1>3 DEF PushKept
<1>5. TabKept(Put(tab[t], s, new), marker, storage.adopted, edits, unsaved)
  BY <1>4, KeptFacts, PutKept
<1> QED BY <1>2, <1>5, KeptFacts, KeptTab DEF ServerExplains, counters, history

-----------------------------------------------------------------------------
(* No edit is forgotten: a new edit                                          *)

\* A push answered before the edit does not have it.
LEMMA NewEditPushes ==
    ASSUME NEW m, NEW n, Bounds(m, n), NEW a, NEW U, NEW tb \in Tab, TabKept(tb, m, a, n, U), NEW k \in Keys,
           NEW U1, U1 \subseteq U \cup {<<k, n + 1>>}
    PROVE  /\ \A s \in Slots : PushKept(tb.push[s], m, n + 1, U1)
           /\ SnapKept(tb.get.current, m, n + 1) /\ Below(tb.known, n + 1)
<1>1. n + 1 \in Nat /\ n <= n + 1 /\ n \in Nat /\ Bounds(m, n + 1) /\ m <= m
  BY DEF Bounds
<1>2. \A x \in Tab : TabKept(x, m, a, n, U) => TabKept(x, m, a, n + 1, U)
  BY <1>1, KeptGrows
<1>3. TabKept(tb, m, a, n + 1, U)
  BY <1>2
<1>4. ASSUME NEW s \in Slots PROVE PushKept(tb.push[s], m, n + 1, U1)
  <2> DEFINE push == tb.push[s]
  <2>1. push \in Push /\ push.post.posted \in Settings
    BY DEF Tab, Push, Post
  <2>2. PushKept(push, m, n, U) /\ PushKept(push, m, n + 1, U)
    BY <1>3 DEF TabKept
  <2>3. \A j \in Keys : push.post.posted[j] \in Nat /\ push.post.posted[j] <= n
    <3>1. MaxEdits \in Nat
      BY PreferencesAssumption
    <3> QED BY <2>1, <2>2, <3>1 DEF PushKept, PostKept, Below, Settings
  <2> HIDE DEF push
  <2>4. \A j \in Keys : <<j, push.post.posted[j]>> # <<k, n + 1>>
    BY <1>1, <2>3
  <2>5. PushKept(push, m, n + 1, U1)
    BY <2>2, <2>4 DEF PushKept
  <2> QED BY <2>5 DEF push
<1> QED BY <1>3, <1>4 DEF TabKept

LEMMA MergedKept ==
    ASSUME NEW m, NEW n, Bounds(m, n), NEW U, NEW U1, NEW st \in Storage, StorageKept(st, m, n, U),
           NEW tb, TabTyped(tb), Below(tb.known, n),
           \A e \in U1 : e[1] \in tb.dirty => tb.known[e[1]] = e[2],
           \A e \in U1 : e \in U \/ (tb.baseline = st.adopted /\ st.adopted = m /\ e[1] \in tb.dirty)
    PROVE  StorageKept(RecordMerged(st, tb), m, n, U1)
<1>0. Below(Recorded(st), n) /\ \A e \in U : e[1] \in DOMAIN Recorded(st) /\ Recorded(st)[e[1]] = e[2]
  <2>1. Below(Recorded(st), n)
    BY StorageKeeps
  <2>2. \A e \in U : e[1] \in DOMAIN Recorded(st) /\ Recorded(st)[e[1]] = e[2]
    BY DEF StorageKept, Has
  <2> QED BY <2>1, <2>2
<1> DEFINE old == Recorded(st)
           new == [k \in DOMAIN old \cup tb.dirty |-> IF k \in tb.dirty THEN tb.known[k] ELSE old[k]]
<1>1. DOMAIN old \cup tb.dirty \in SUBSET Keys
  BY RecordedTyped DEF TabTyped, Tab
<1>2. new \in [DOMAIN old \cup tb.dirty -> Edits]
  BY RecordedTyped DEF TabTyped
<1>3. new \in UNION {[J -> Edits] : J \in SUBSET Keys}
  BY <1>1, <1>2, PendingFunction
<1>4. Below(new, n)
  <2>1. DOMAIN tb.known = Keys
    BY DEF TabTyped, Tab, Settings
  <2> HIDE DEF old
  <2> QED BY <1>0, <1>1, <2>1 DEF Below, old
<1>5. \A e \in U1 : tb.baseline = st.adopted => e[1] \in DOMAIN new /\ new[e[1]] = e[2]
  BY <1>0
<1>6. RecordMerged(st, tb) = IF tb.baseline # st.adopted THEN st ELSE Record(st, new)
  BY DEF RecordMerged
<1> HIDE DEF new, old
<1>7. CASE tb.baseline # st.adopted
  BY <1>6, <1>7 DEF StorageKept
<1>8. CASE tb.baseline = st.adopted
  <2>1. st.adopted <= m /\ Below(st.cache, n) /\ (U1 # {} => st.adopted = m)
    BY DEF StorageKept
  <2>2. \A e \in U1 : e[1] \in DOMAIN new /\ new[e[1]] = e[2]
    BY <1>5, <1>8
  <2>3. StorageKept(Record(st, new), m, n, U1)
    BY <1>3, <1>4, <2>1, <2>2, RecordKept
  <2> QED BY <1>6, <1>8, <2>3
<1> QED BY <1>7, <1>8

LEMMA EditKept ==
    ASSUME TypeInv, KeptInv, NEW t \in Tabs, NEW k \in Keys, Edit(t, k)
    PROVE  KeptInv'
<1> DEFINE tb == [tab[t] EXCEPT !.known[k] = edits + 1, !.dirty = @ \cup {k}]
           cached == [storage EXCEPT !.cache = tb.known]
           rest == {e \in unsaved : e[1] # k}
           n == edits + 1
           a == storage.adopted
<1>1. /\ MaxEdits \in Nat /\ edits \in Nat /\ edits < MaxEdits /\ edits' = n /\ n \in Nat /\ n \in Edits
      /\ edits <= n /\ UNCHANGED <<file, revs, marker, net>>
  <2>1. edits < MaxEdits /\ edits' = n /\ UNCHANGED <<file, revs, marker, net>>
    BY Zenon DEF Edit, NewEdit
  <2>2. MaxEdits \in Nat /\ edits \in Nat
    BY PreferencesAssumption DEF TypeInv, SharedTyped
  <2> QED BY <2>1, <2>2 DEF Edits
<1>2. /\ unsaved' = rest \cup (IF tab[t].baseline = marker /\ Alone(t, k) THEN {<<k, n>>} ELSE {})
      /\ Becomes(t, Schedule(tb)) /\ storage' = RecordMerged(cached, tb)
  BY DEF Edit
<1>3. /\ tab[t] \in Tab /\ TabTyped(tab[t]) /\ storage \in Storage /\ Bounds(marker, edits) /\ Bounds(marker, n)
      /\ TabKept(tab[t], marker, a, edits, unsaved) /\ StorageKept(storage, marker, edits, unsaved)
      /\ unsaved \subseteq Keys \X Edits /\ marker <= marker
  BY <1>1, KeptFacts DEF Bounds
<1>4. /\ tb \in Tab /\ tb.push = tab[t].push /\ tb.get = tab[t].get /\ tb.baseline = tab[t].baseline
      /\ tb.dirty = tab[t].dirty \cup {k} /\ tb.known[k] = n
      /\ \A j \in Keys \ {k} : tb.known[j] = tab[t].known[j]
  <2>1. [tab[t].known EXCEPT ![k] = n] \in Settings
        /\ [tab[t].known EXCEPT ![k] = n][k] = n
        /\ \A j \in Keys \ {k} : [tab[t].known EXCEPT ![k] = n][j] = tab[t].known[j]
    BY <1>1, <1>3 DEF Tab, Settings
  <2>2. tb = [tab[t] EXCEPT !.known = [tab[t].known EXCEPT ![k] = n],
                            !.dirty = tab[t].dirty \cup {k}]
    BY <1>3 DEF Tab
  <2> QED BY <2>1, <2>2, <1>3 DEF Tab
<1> HIDE DEF tb
<1>5. /\ unsaved' \subseteq rest \cup {<<k, n>>} /\ unsaved' \subseteq unsaved \cup {<<k, n>>}
      /\ <<k, n>> \in unsaved' => tab[t].baseline = marker /\ Alone(t, k)
  BY <1>2
<1>6. \A e \in unsaved' : e[1] \in tb.dirty => tb.known[e[1]] = e[2]
  <2> SUFFICES ASSUME NEW e \in unsaved', e[1] \in tb.dirty PROVE tb.known[e[1]] = e[2]
    OBVIOUS
  <2>1. CASE e = <<k, n>>
    BY <1>4, <2>1
  <2>2. CASE e \in rest
    <3>1. e \in unsaved /\ e[1] # k /\ e[1] \in Keys
      BY <1>3, <2>2
    <3>2. e[1] \in tab[t].dirty /\ tab[t].known[e[1]] = e[2]
      BY <1>3, <1>4, <3>1 DEF TabKept
    <3> QED BY <1>4, <3>1, <3>2
  <2> QED BY <1>5, <2>1, <2>2
<1>7. Below(tb.known, n) /\ TabTyped(tb) /\ tb.known \in Settings
  <2>1. tb.known \in Settings /\ tab[t].known \in Settings
    BY <1>3, <1>4 DEF Tab
  <2>2. Below(tab[t].known, n)
    BY <1>3, <1>5, <1>1, NewEditPushes
  <2>3. \A j \in Keys : tb.known[j] <= n
    <3>1. \A j \in Keys : tab[t].known[j] <= n
      BY <2>1, <2>2 DEF Below, Settings
    <3> QED BY <1>1, <1>4, <3>1
  <2>4. Below(tb.known, n)
    BY <2>1, <2>3 DEF Below, Settings
  <2>5. \A j \in tb.dirty : tb.known[j] \in Edits
    BY <1>1, <1>3, <1>4 DEF TabTyped, Tab
  <2> QED BY <1>4, <2>1, <2>4, <2>5 DEF TabTyped
<1>8. a = marker \/ <<k, n>> \notin unsaved'
  <2>1. a \in Nat /\ a <= marker /\ (tab[t].baseline = 1 => a = 1)
    BY <1>3 DEF Storage, StorageKept, TabKept
  <2> QED BY <1>3, <1>5, <2>1 DEF Bounds
<1>9. StorageKept(storage', marker, n, unsaved')
  <2>1. \A st \in Storage : StorageKept(st, marker, edits, unsaved) => StorageKept(st, marker, n, rest)
    <3>1. rest \subseteq unsaved
      OBVIOUS
    <3> QED BY <1>1, <1>3, <3>1, KeptGrows
  <2>2. cached \in Storage /\ cached.adopted = a
    BY <1>3, <1>7 DEF Storage
  <2>3. StorageKept(cached, marker, n, rest)
    BY <1>3, <1>7, <2>1, CachedKept
  <2>4. \A e \in unsaved' : e \in rest \/ (tb.baseline = cached.adopted /\ cached.adopted = marker /\ e[1] \in tb.dirty)
    BY <1>4, <1>5, <1>8, <2>2
  <2> HIDE DEF cached, rest, n
  <2>5. StorageKept(RecordMerged(cached, tb), marker, n, unsaved')
    BY <1>3, <1>6, <1>7, <2>2, <2>3, <2>4, MergedKept
  <2> QED BY <1>2, <2>5
<1>10. storage'.adopted = a
  <2>1. cached \in Storage /\ cached.adopted = a
    BY <1>3, <1>7 DEF Storage
  <2> HIDE DEF cached
  <2>2. \A new : Record(cached, new).adopted = cached.adopted
    BY <2>1 DEF Record, Storage
  <2> QED BY <1>2, <2>1, <2>2 DEF RecordMerged
<1>11. ASSUME NEW u \in Tabs, u # t PROVE TabKept(tab[u], marker, a, n, unsaved')
  <2>1. tab[u] \in Tab /\ TabKept(tab[u], marker, a, edits, unsaved)
    BY KeptFacts
  <2>2. /\ \A s \in Slots : PushKept(tab[u].push[s], marker, n, unsaved')
        /\ SnapKept(tab[u].get.current, marker, n) /\ Below(tab[u].known, n)
    BY <1>3, <1>5, <2>1, NewEditPushes
  <2>3. \A e \in unsaved' : e[1] \in tab[u].dirty => tab[u].known[e[1]] = e[2]
    BY <1>5, <1>11, <2>1 DEF TabKept, Alone
  <2> QED BY <2>1, <2>2, <2>3 DEF TabKept
<1>12. TabKept(tb, marker, a, n, unsaved')
  <2>1. /\ \A s \in Slots : PushKept(tab[t].push[s], marker, n, unsaved')
        /\ SnapKept(tab[t].get.current, marker, n)
    BY <1>3, <1>5, NewEditPushes
  <2> QED BY <1>3, <1>4, <1>6, <1>7, <2>1 DEF TabKept
<1>13. TabKept(Schedule(tb), marker, a, n, unsaved')
  BY <1>3, <1>4, <1>12, ScheduleKept
<1>14. \A post \in net : PostKept(post, n)
  <2>1. /\ \A posts \in SUBSET Post :
              (\A p \in posts : PostKept(p, edits)) => \A p \in posts : PostKept(p, n)
    BY <1>1, <1>3, KeptGrows
  <2> QED BY <2>1 DEF KeptInv, TypeInv, SharedTyped
<1>15. Below(file.val, n)
  BY <1>1, BelowGrows DEF KeptInv, TypeInv, SharedTyped
<1>16. \A u \in Tabs : tab'[u] = IF u = t THEN Schedule(tb) ELSE tab[u]
  BY <1>2 DEF TypeInv, Becomes
<1>17. \A u \in Tabs : TabKept(tab'[u], marker, a, n, unsaved')
  BY <1>11, <1>13, <1>16
<1> QED BY <1>1, <1>9, <1>10, <1>14, <1>15, <1>17 DEF KeptInv

-----------------------------------------------------------------------------
(* No edit is forgotten: the file moves                                      *)

\* More edits of others, a restore or a write: the tabs and the storage stand.
LEMMA KeptStays ==
    ASSUME TypeInv, KeptInv, UNCHANGED storage, edits' \in Nat, edits <= edits', marker' \in {0, 1},
           marker <= marker', unsaved' \subseteq unsaved, unsaved' = {} \/ marker' = marker
    PROVE  /\ \A post \in net : PostKept(post, edits')
           /\ StorageKept(storage', marker', edits', unsaved')
           /\ \A u \in Tabs : TabKept(tab[u], marker', storage'.adopted, edits', unsaved')
           /\ \A v \in Settings : Below(v, edits) => Below(v, edits')
<1>1. /\ Bounds(marker, edits) /\ Bounds(marker', edits') /\ storage \in Storage /\ edits \in Nat
      /\ net \in SUBSET Post /\ \A u \in Tabs : tab[u] \in Tab
  BY DEF TypeInv, SharedTyped, KeptInv, Bounds
<1>2. /\ \A posts \in SUBSET Post :
            (\A p \in posts : PostKept(p, edits)) => \A p \in posts : PostKept(p, edits')
      /\ \A tb \in Tab : TabKept(tb, marker, storage.adopted, edits, unsaved)
            => TabKept(tb, marker', storage.adopted, edits', unsaved')
      /\ \A st \in Storage : StorageKept(st, marker, edits, unsaved) /\ (unsaved' = {} \/ marker' = marker)
            => StorageKept(st, marker', edits', unsaved')
  BY <1>1, KeptGrows
<1>3. \A v \in Settings : Below(v, edits) => Below(v, edits')
  BY <1>1, BelowGrows
<1> QED BY <1>1, <1>2, <1>3 DEF KeptInv

LEMMA WritesKept ==
    ASSUME TypeInv, KeptInv, NEW t \in Tabs, NEW s \in Slots, ServerWrites(t, s)
    PROVE  KeptInv'
<1> DEFINE push == tab[t].push[s]
           saved == [push EXCEPT !.phase = "answered", !.result = "saved", !.rev = revs + 1]
           failed == [push EXCEPT !.phase = "answered", !.result = "failed"]
           refused == [push EXCEPT !.phase = "refused"]
<1>1. /\ tab[t] \in Tab /\ push \in Push /\ push.post \in Post /\ revs \in Nat /\ edits \in Nat
      /\ PushKept(push, marker, edits, unsaved) /\ Bounds(marker, edits)
  BY KeptFacts DEF Push, TypeInv, SharedTyped
<1>2. UNCHANGED <<marker, storage, net, edits>>
  BY DEF ServerWrites, counters
<1>3. CASE Write(push.post)
  <2>1. saved.post = push.post /\ saved.current = push.current
    BY <1>1 DEF Push
  <2>2. Becomes(t, Put(tab[t], s, saved))
    BY <1>3 DEF ServerWrites, Write, Put
  <2>3. file'.val = push.post.posted /\ unsaved' = unsaved \ Written(push.post)
    BY <1>3 DEF Write
  <2>4. \A k \in Keys : <<k, push.post.posted[k]>> \notin unsaved'
    BY <2>3 DEF Written
  <2> HIDE DEF saved
  <2>5. PushKept(saved, marker, edits, unsaved')
    BY <1>1, <2>1, <2>4 DEF PushKept
  <2>6. /\ \A post \in net : PostKept(post, edits)
        /\ StorageKept(storage, marker, edits, unsaved')
        /\ \A u \in Tabs : TabKept(tab[u], marker, storage.adopted, edits, unsaved')
    <3>1. /\ edits' \in Nat /\ edits <= edits' /\ marker' \in {0, 1} /\ marker <= marker'
          /\ unsaved' \subseteq unsaved /\ marker' = marker /\ edits' = edits /\ UNCHANGED storage
      BY <1>1, <1>2, <2>3 DEF Bounds
    <3>2. /\ \A post \in net : PostKept(post, edits')
          /\ StorageKept(storage', marker', edits', unsaved')
          /\ \A u \in Tabs : TabKept(tab[u], marker', storage'.adopted, edits', unsaved')
      BY <3>1, KeptStays
    <3> QED BY <3>1, <3>2
  <2>7. TabKept(Put(tab[t], s, saved), marker, storage.adopted, edits, unsaved')
    BY <1>1, <2>5, <2>6, PutKept
  <2>8. \A u \in Tabs : tab'[u] = IF u = t THEN Put(tab[t], s, saved) ELSE tab[u]
    BY <2>2 DEF TypeInv, Becomes
  <2>9. \A u \in Tabs : TabKept(tab'[u], marker, storage.adopted, edits, unsaved')
    BY <2>6, <2>7, <2>8
  <2>10. Below(file'.val, edits)
    BY <1>1, <2>3 DEF PushKept, PostKept
  <2> QED BY <1>2, <2>6, <2>9, <2>10 DEF KeptInv
<1>4. CASE ~Write(push.post)
  <2>1. failed.result = "failed" /\ failed.current = push.current /\ failed.post = push.post
    BY <1>1 DEF Push
  <2>2. refused.phase = "refused" /\ refused.current = push.current /\ refused.post = push.post
    BY <1>1 DEF Push
  <2>3. PICK new \in {failed, refused} : Becomes(t, Put(tab[t], s, new))
    BY <1>4 DEF ServerWrites, Put
  <2> HIDE DEF failed, refused
  <2>4. PushKept(new, marker, edits, unsaved)
    BY <1>1, <2>1, <2>2 DEF PushKept
  <2>5. TabKept(Put(tab[t], s, new), marker, storage.adopted, edits, unsaved)
    BY <2>4, KeptFacts, PutKept
  <2>6. UNCHANGED <<file, unsaved>>
    BY <1>4 DEF ServerWrites
  <2> QED BY <1>2, <2>3, <2>5, <2>6, KeptFacts, KeptTab
<1> QED BY <1>3, <1>4

LEMMA OutsideKept ==
    ASSUME MaxRestores <= 1, TypeInv, KeptInv,
           Damage \/ Restore \/ (\E k \in Keys : SavedElsewhere(k)) \/ (\E post \in net : LatePost(post))
    PROVE  KeptInv'
<1>1. /\ edits \in Nat /\ marker \in {0, 1} /\ MaxRestores \in Nat /\ MaxEdits \in Nat /\ net \subseteq Post
      /\ file \in [state : {"ok", "missing", "invalid"}, val : Settings, rev : Nat]
      /\ file.val \in Settings /\ Below(file.val, edits) /\ \A post \in net : PostKept(post, edits)
  BY PreferencesAssumption DEF TypeInv, SharedTyped, KeptInv
<1>2. ASSUME UNCHANGED <<storage, tab>>, net' \subseteq net, edits' \in Nat, edits <= edits', marker' \in {0, 1},
             marker <= marker', unsaved' \subseteq unsaved, unsaved' = {} \/ marker' = marker,
             Below(file'.val, edits')
      PROVE  KeptInv'
  <2>1. /\ \A post \in net : PostKept(post, edits')
        /\ StorageKept(storage', marker', edits', unsaved')
        /\ \A u \in Tabs : TabKept(tab[u], marker', storage'.adopted, edits', unsaved')
    BY <1>2, KeptStays
  <2> QED BY <1>2, <2>1 DEF KeptInv
<1>3. CASE Damage
  <2>1. UNCHANGED <<marker, storage, tab, net, edits, unsaved>> /\ file'.val = file.val
    BY <1>1, <1>3 DEF Damage, history
  <2> QED BY <1>1, <1>2, <2>1
<1>4. CASE Restore
  <2>1. /\ marker = 0 /\ marker' = 1 /\ UNCHANGED <<storage, tab, net, edits>> /\ unsaved' = {}
        /\ file'.val = Default
    BY <1>1, <1>4 DEF Restore, counters
  <2>2. Below(Default, edits)
    BY <1>1 DEF Below, Default
  <2> QED BY <1>1, <1>2, <2>1, <2>2
<1>5. ASSUME NEW k \in Keys, SavedElsewhere(k) PROVE KeptInv'
  <2>1. /\ UNCHANGED <<marker, storage, tab, net, unsaved>> /\ edits' = edits + 1
        /\ file' = [file EXCEPT !.val[k] = edits + 1, !.rev = revs + 1]
    BY <1>5, Zenon DEF SavedElsewhere, NewEdit
  <2>2. file'.val = [file.val EXCEPT ![k] = edits + 1]
    BY <1>1, <2>1
  <2>3. edits + 1 \in Nat /\ edits <= edits + 1
    BY <1>1
  <2>4. Below(file.val, edits + 1)
    BY <1>1, <2>3, BelowGrows
  <2>5. Below(file'.val, edits + 1)
    BY <1>1, <2>2, <2>3, <2>4 DEF Below, Settings
  <2> QED BY <1>1, <1>2, <2>1, <2>3, <2>5
<1>6. ASSUME NEW post \in net, LatePost(post) PROVE KeptInv'
  <2>1. post \in Post /\ net' \subseteq net /\ UNCHANGED <<marker, storage, tab, edits>>
    BY <1>1, <1>6 DEF LatePost, counters
  <2>2. CASE Write(post)
    <3>1. file'.val = post.posted /\ unsaved' \subseteq unsaved
      BY <2>2 DEF Write
    <3>2. Below(file'.val, edits)
      BY <1>1, <3>1 DEF PostKept
    <3> QED BY <1>1, <1>2, <2>1, <3>1, <3>2
  <2>3. CASE UNCHANGED <<file, revs, unsaved>>
    BY <1>1, <1>2, <2>1, <2>3
  <2> QED BY <1>6, <2>2, <2>3 DEF LatePost
<1> QED BY <1>3, <1>4, <1>5, <1>6

LEMMA InitKept == Init => KeptInv
<1> SUFFICES ASSUME Init PROVE KeptInv
  OBVIOUS
<1>1. /\ file.val = Default /\ marker = 0 /\ edits = 0 /\ net = {} /\ unsaved = {}
      /\ storage = [cache |-> Default, adopted |-> 0, pending |-> NoEdits]
  BY DEF Init
<1>2. Bounds(marker, edits) /\ marker <= 1
  BY <1>1 DEF Bounds
<1>3. Below(Default, edits)
  BY <1>1 DEF Below, Default
<1>4. StorageKept(storage, marker, edits, unsaved)
  <2>1. storage.cache = Default /\ storage.adopted = 0 /\ storage.pending.edits = <<>>
    BY <1>1 DEF NoEdits
  <2>2. Below(<<>>, edits)
    BY NothingPending DEF Below
  <2> QED BY <1>1, <1>3, <2>1, <2>2 DEF StorageKept
<1>5. /\ Closed.get = NoGet /\ Closed.baseline = 0 /\ Closed.dirty = {} /\ Closed.known = Default
      /\ \A s \in Slots : Closed.push[s] = NoPush
  BY DEF Closed
<1>6. SnapKept(NoGet.current, marker, edits) /\ PushKept(NoPush, marker, edits, unsaved)
  BY <1>2, NothingKept
<1>7. TabKept(Closed, marker, storage.adopted, edits, unsaved)
  BY <1>1, <1>3, <1>5, <1>6 DEF TabKept
<1>8. \A t \in Tabs : tab[t] = Closed
  BY DEF Init
<1> QED BY <1>1, <1>2, <1>3, <1>4, <1>7, <1>8 DEF KeptInv

LEMMA StepKept == MaxRestores <= 1 /\ TypeInv /\ KeptInv /\ [Next]_vars => KeptInv'
<1> SUFFICES ASSUME MaxRestores <= 1, TypeInv, KeptInv, [Next]_vars PROVE KeptInv'
  OBVIOUS
<1>1. ASSUME NEW t \in Tabs, TabStep(t) PROVE KeptInv'
  BY <1>1, LightKept, PushStepKept, FinishGetKept, ReadStepKept, SettleSavedKept, FailedStepKept, StaleKept,
     WritesKept, ExplainsKept DEF TabStep
<1>2. ASSUME NEW t \in Tabs, User(t) PROVE KeptInv'
  BY <1>2, OpenKept, CloseKept, PushStepKept, EditKept DEF User
<1>3. ASSUME Environment PROVE KeptInv'
  BY <1>3, OutsideKept, LightKept, FailedStepKept DEF Environment
<1>4. CASE UNCHANGED vars
  BY <1>4 DEF vars, counters, history, KeptInv
<1> QED BY <1>1, <1>2, <1>3, <1>4 DEF Next

\* With one restore: an edit that no write has carried, made while no other tab had
\* its setting pending, is in an open tab or in browser storage until it is saved,
\* changed again or restored over.
THEOREM NothingForgotten == ASSUME MaxRestores <= 1 PROVE Spec => []NoEditForgotten
<1> DEFINE Inv == TypeInv /\ KeptInv
<1>1. Init => Inv
  BY InitGood, InitKept
<1>2. Inv /\ [Next]_vars => Inv'
  BY StepGood, StepKept
<1>3. Inv => NoEditForgotten
  BY DEF KeptInv, StorageKept, Has, NoEditForgotten
<1> QED BY <1>1, <1>2, <1>3, PTL DEF Spec
=============================================================================
