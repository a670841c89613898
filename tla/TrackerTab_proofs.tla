-------------------------- MODULE TrackerTab_proofs --------------------------
(***************************************************************************)
(* Proofs about TrackerTab, for any number of tabs and records, any        *)
(* sequence of edits, refreshes and answers, and any failure.              *)
(***************************************************************************)
EXTENDS TrackerTab, TLAPS

-----------------------------------------------------------------------------
(* The strengthening                                                         *)

\* The edits of the queue were made one after the other, and every request on its
\* way belongs to an earlier edit, or to the first of the queue and names the
\* tracker the tab still knows.
EditsInOrder(t) ==
    /\ \A k \in 1 .. Len(queue[t]) : queue[t][k].edit <= edits
    /\ \A j, k \in 1 .. Len(queue[t]) : j < k => queue[t][j].edit < queue[t][k].edit
    /\ \A m \in net : m.tab = t =>
          /\ m.change.edit <= edits
          /\ \A k \in 1 .. Len(queue[t]) :
                \/ m.change.edit < queue[t][k].edit
                \/ k = 1 /\ sent[t] /\ m.revision = known[t]

\* A list request whose answer will be taken over was asked with no edit waiting,
\* and none was made since.
ReadsAreQuiet(t) ==
    /\ version[t] = 0 => Idle(t)
    /\ refresh[t].version <= version[t]
    /\ refresh[t].phase \in {"asked", "answered"} /\ SameVersion(t) => Idle(t)
    /\ ~refreshed[t] => refresh[t].phase = "none"
    /\ mount[t].phase # "none" /\ StillFirst(t) => known[t] = 0

\* What a list request was answered is a tracker the server held.
Serves(r) == r.revision \in 1 .. Len(versions) /\ r.recs = versions[r.revision]
ReadsAreTrue(t) ==
    /\ mount[t].asked = 0
    /\ mount[t].phase = "answered" => Serves(mount[t])
    /\ refresh[t].phase = "answered" /\ ~refresh[t].same =>
          Serves(refresh[t]) /\ (SameVersion(t) => known[t] <= refresh[t].revision)

\* What a save was answered makes of the confirmed tracker one the server held.
AnswerIsTrue(t) ==
    answer[t].kind # "none" /\ answer[t].revision # 0 =>
       /\ answer[t].revision \in 1 .. Len(versions) /\ known[t] <= answer[t].revision
       /\ versions[answer[t].revision] =
             IF answer[t].kind = "conflict" THEN answer[t].recs ELSE Applied(confirmed[t], answer[t])

KnownIsTrue(t) == known[t] # 0 => known[t] <= Len(versions) /\ confirmed[t] = versions[known[t]]

\* A loss the user was not told of is still noted while changes are waiting.
LossIsNoted(t) ==
    /\ conflict[t] => error[t] # "none"
    /\ lost[t] => IF Idle(t) THEN error[t] # "none" ELSE conflict[t] \/ superseded[t]

TabInv(t) ==
    /\ EditsInOrder(t) /\ ReadsAreQuiet(t) /\ ReadsAreTrue(t) /\ AnswerIsTrue(t)
    /\ KnownIsTrue(t) /\ LossIsNoted(t)
    /\ Idle(t) => shown[t] = confirmed[t]

AllTabs == \A t \in Tabs : TabInv(t)
-----------------------------------------------------------------------------
(* Lemmas about the operators                                                *)

\* The empty values have their types.
LEMMA EmptyType ==
    /\ NoRecord \in Record /\ EmptyTracker \in Tracker
    /\ NoAnswer \in Answer /\ NoRead \in Read /\ MountRead \in Read
BY DEF NoRecord, Record, EmptyTracker, Tracker, NoAnswer, Answer, NoRead, MountRead, Read

\* The server always holds a tracker.
LEMMA CurrentType ==
    ASSUME TypeOK
    PROVE  Len(versions) \in Nat \ {0} /\ Current = versions[Len(versions)] /\ Current \in Tracker
<1>1. versions \in Seq(Tracker) /\ versions # <<>>
  BY DEF TypeOK
<1> QED
  BY <1>1 DEF Current

\* What is queued and on its way are changes and messages.
LEMMA EditNumbers ==
    ASSUME TypeOK
    PROVE  /\ edits \in 0 .. MaxEdits /\ MaxEdits \in Nat
           /\ \A c \in Change : c.edit \in Nat
           /\ \A u \in Tabs : /\ queue[u] \in Seq(Change) /\ Len(queue[u]) \in Nat
                            /\ \A k \in 1 .. Len(queue[u]) : queue[u][k] \in Change
           /\ \A m \in net : m.tab \in Tabs /\ m.change \in Change /\ m.revision \in Nat
<1>1. \A c \in Change : c.edit \in Nat
  BY TabAssumption DEF Change, Edits
<1>2. \A u \in Tabs : queue[u] \in Seq(Change)
  BY DEF TypeOK
<1>3. \A u \in Tabs : /\ queue[u] \in Seq(Change) /\ Len(queue[u]) \in Nat
                    /\ \A k \in 1 .. Len(queue[u]) : queue[u][k] \in Change
  <2>1. \A s \in Seq(Change) : Len(s) \in Nat /\ \A k \in 1 .. Len(s) : s[k] \in Change
    OBVIOUS
  <2> QED
    BY <1>2, <2>1
<1>4. \A m \in net : m.tab \in Tabs /\ m.change \in Change /\ m.revision \in Nat
  BY DEF TypeOK, Message
<1> QED
  BY <1>1, <1>3, <1>4, TabAssumption DEF TypeOK

\* What a user does in a tab is one change of it.
EditOf(t, up, del, recs) ==
    /\ Persist(t, up, del, recs)
    /\ up \cap del = {}
    /\ \A i \in Ids :
          recs[i] = IF i \in up THEN [rev |-> NextRevision(shown[t][i].rev),
                                      edits |-> shown[t][i].edits \cup {edits + 1}]
                    ELSE IF i \in del THEN shown[t][i] ELSE NoRecord

\* The records a user's edit makes are records.
LEMMA EditedType ==
    ASSUME TypeOK, NEW t \in Tabs, NEW S \in SUBSET Ids, edits < MaxEdits
    PROVE  Edited(t, S) \in Tracker
<1>1. edits \in Nat /\ MaxEdits \in Nat /\ edits + 1 \in Edits /\ edits + 2 \in Nat
  BY TabAssumption DEF TypeOK, Edits
<1>2. shown[t] \in Tracker
  BY DEF TypeOK
<1>3. \A i \in Ids : [rev |-> NextRevision(shown[t][i].rev), edits |-> shown[t][i].edits \cup {edits + 1}] \in Record
  BY <1>1, <1>2 DEF NextRevision, Tracker, Record
<1> QED
  BY <1>3, EmptyType DEF Edited, Tracker

LEMMA EditIsPersist ==
    ASSUME TypeOK, NEW t \in Tabs, Edit(t)
    PROVE  \E up, del \in SUBSET Ids, recs \in Tracker : EditOf(t, up, del, recs)
<1>1. edits < MaxEdits /\ shown[t] \in Tracker
  BY DEF Edit, CreateApplication, Remove, UpdateApplications, MergeApplications, Persist, TypeOK
<1>2. ASSUME NEW S \in SUBSET Ids, Persist(t, S, {}, Edited(t, S))
      PROVE  EditOf(t, S, {}, Edited(t, S))
  BY <1>2 DEF EditOf, Edited
<1>3. ASSUME NEW i \in Ids, CreateApplication(t, i)
      PROVE  EditOf(t, {i}, {}, Edited(t, {i}))
  BY <1>2, <1>3 DEF CreateApplication
<1>4. ASSUME NEW i \in Ids, Remove(t, i)
      PROVE  EditOf(t, {}, {i}, [EmptyTracker EXCEPT ![i] = shown[t][i]])
  BY <1>4 DEF Remove, EditOf, EmptyTracker
<1>5. ASSUME NEW i \in Ids, NEW j \in Ids, MergeApplications(t, i, j)
      PROVE  EditOf(t, {i}, {j}, [Edited(t, {i}) EXCEPT ![j] = shown[t][j]])
  BY <1>5 DEF MergeApplications, EditOf, Edited
<1>6. \A S \in SUBSET Ids : Edited(t, S) \in Tracker
  BY <1>1, EditedType
<1>7. \A i \in Ids : [EmptyTracker EXCEPT ![i] = shown[t][i]] \in Tracker
  BY <1>1, EmptyType DEF Tracker
<1>8. \A i, j \in Ids : [Edited(t, {i}) EXCEPT ![j] = shown[t][j]] \in Tracker
  BY <1>1, <1>6 DEF Tracker
<1>9. CASE \E S \in SUBSET Ids : UpdateApplications(t, S)
  BY <1>2, <1>6, <1>9 DEF UpdateApplications
<1>10. CASE \E i \in Ids : CreateApplication(t, i)
  BY <1>3, <1>6, <1>10
<1>11. CASE \E i \in Ids : Remove(t, i)
  BY <1>4, <1>7, <1>11
<1>12. CASE \E i, j \in Ids : MergeApplications(t, i, j)
  BY <1>5, <1>8, <1>12
<1> QED
  BY <1>9, <1>10, <1>11, <1>12 DEF Edit

\* The change a call of persist queues.
NewChange(t, up, del, recs) ==
    [edit |-> edits + 1, up |-> up, del |-> del, recs |-> recs,
     base |-> [i \in Ids |-> IF i \in up \cup del THEN shown[t][i].rev ELSE 0]]

\* What a call of persist does to its tab, and that it touches no other.
LEMMA PersistSteps ==
    ASSUME TypeOK, NEW t \in Tabs, NEW up \in SUBSET Ids, NEW del \in SUBSET Ids, NEW recs \in Tracker,
           Persist(t, up, del, recs)
    PROVE  /\ edits' = edits + 1 /\ edits + 1 \in 1 .. MaxEdits /\ edits \in Nat
           /\ NewChange(t, up, del, recs) \in Change
           /\ queue'[t] = Append(queue[t], NewChange(t, up, del, recs))
           /\ version'[t] = version[t] + 1
           /\ shown'[t] \in Tracker
           /\ \A i \in Ids : shown'[t][i] = recs[i] \/ shown'[t][i] = NoRecord \/ shown'[t][i] = shown[t][i]
           /\ conflict'[t] = FALSE
           /\ error'[t] = IF conflict[t] THEN "none" ELSE error[t]
           /\ lost'[t] = (lost[t] /\ error[t] = "none")
           /\ \A u \in Tabs \ {t} :
                 /\ queue'[u] = queue[u] /\ version'[u] = version[u] /\ shown'[u] = shown[u]
                 /\ conflict'[u] = conflict[u] /\ error'[u] = error[u] /\ lost'[u] = lost[u]
           /\ UNCHANGED <<versions, net, confirmed, known, sent, answer, mount, refresh, refreshed,
                          loaded, superseded, faults>>
           /\ TypeOK'
<1>1. edits' = edits + 1 /\ edits + 1 \in 1 .. MaxEdits /\ edits \in Nat
  BY TabAssumption DEF Persist, TypeOK
<1>2. shown[t] \in Tracker /\ NewChange(t, up, del, recs) \in Change
  BY <1>1, TabAssumption DEF NewChange, Change, Tracker, Record, Edits, TypeOK
<1>3. queue' = [queue EXCEPT ![t] = Append(@, NewChange(t, up, del, recs))]
  BY DEF Persist, NewChange
<1> DEFINE now == [i \in Ids |-> CASE i \in up -> recs[i] [] i \in del -> NoRecord [] OTHER -> shown[t][i]]
<1>4. shown' = [shown EXCEPT ![t] = now]
  BY DEF Persist
<1>14. now = [i \in Ids |-> now[i]]
       /\ \A i \in Ids : now[i] = recs[i] \/ now[i] = NoRecord \/ now[i] = shown[t][i]
  OBVIOUS
<1> HIDE DEF now
<1>13. /\ \A u \in Tabs \ {t} : shown'[u] = shown[u]
       /\ shown' = [u \in Tabs |-> shown'[u]] /\ shown'[t] = now
  BY <1>4 DEF TypeOK
<1>5. \A i \in Ids : shown'[t][i] = recs[i] \/ shown'[t][i] = NoRecord \/ shown'[t][i] = shown[t][i]
  BY <1>13, <1>14
<1>6. shown'[t] \in Tracker /\ shown' \in [Tabs -> Tracker]
  <2>1. \A i \in Ids : recs[i] \in Record /\ shown[t][i] \in Record /\ NoRecord \in Record
    BY <1>2, EmptyType DEF Tracker
  <2>2. \A i \in Ids : shown'[t][i] \in Record
    BY <1>5, <2>1
  <2>3. shown'[t] \in Tracker
    BY <1>13, <1>14, <2>2 DEF Tracker
  <2>4. \A u \in Tabs : shown'[u] \in Tracker
    BY <1>13, <2>3 DEF TypeOK
  <2> QED
    BY <1>13, <2>3, <2>4
<1>7. queue' \in [Tabs -> Seq(Change)] /\ queue'[t] # <<>>
      /\ queue'[t] = Append(queue[t], NewChange(t, up, del, recs))
      /\ \A u \in Tabs \ {t} : queue'[u] = queue[u]
  <2> DEFINE c == NewChange(t, up, del, recs)
  <2>1. queue[t] \in Seq(Change) /\ c \in Change /\ queue \in [Tabs -> Seq(Change)]
    BY <1>2 DEF TypeOK
  <2>2. queue' = [queue EXCEPT ![t] = Append(queue[t], c)]
    BY <1>3
  <2> HIDE DEF c
  <2>3. Append(queue[t], c) \in Seq(Change) /\ Append(queue[t], c) # <<>>
    BY <2>1
  <2> QED
    BY <2>1, <2>2, <2>3 DEF c
<1>8. UNCHANGED <<versions, net, confirmed, known, sent, answer, mount, refresh, refreshed,
                  loaded, superseded, faults>>
  BY DEF Persist, serverVars, readVars
<1>9. /\ version' = [version EXCEPT ![t] = @ + 1]
      /\ conflict' = [conflict EXCEPT ![t] = FALSE]
      /\ error' = [error EXCEPT ![t] = IF conflict[t] THEN "none" ELSE @]
      /\ lost' = [lost EXCEPT ![t] = @ /\ error[t] = "none"]
  BY DEF Persist
<1>10. /\ version' \in [Tabs -> Nat] /\ conflict' \in [Tabs -> BOOLEAN]
       /\ error' \in [Tabs -> Notices] /\ lost' \in [Tabs -> BOOLEAN]
  BY <1>9 DEF TypeOK, Notices
<1>11. TypeOK'
  <2>1. \A u \in Tabs : sent'[u] => queue'[u] # <<>>
    BY <1>7, <1>8 DEF TypeOK, Idle
  <2> QED
    BY <1>1, <1>6, <1>7, <1>8, <1>10, <2>1 DEF TypeOK, Idle
<1>12. /\ version'[t] = version[t] + 1 /\ conflict'[t] = FALSE
       /\ error'[t] = (IF conflict[t] THEN "none" ELSE error[t])
       /\ lost'[t] = (lost[t] /\ error[t] = "none")
       /\ \A u \in Tabs \ {t} : /\ version'[u] = version[u] /\ conflict'[u] = conflict[u]
                               /\ error'[u] = error[u] /\ lost'[u] = lost[u]
  <2>1. version \in [Tabs -> Nat] /\ conflict \in [Tabs -> BOOLEAN]
        /\ error \in [Tabs -> Notices] /\ lost \in [Tabs -> BOOLEAN]
    BY DEF TypeOK
  <2>2. /\ lost'[t] = (lost[t] /\ error[t] = "none") /\ conflict'[t] = FALSE
        /\ \A u \in Tabs \ {t} : conflict'[u] = conflict[u] /\ lost'[u] = lost[u]
    BY <1>9, <2>1, Zenon
  <2> QED
    BY <1>9, <2>1, <2>2
<1> QED
  BY <1>1, <1>2, <1>5, <1>6, <1>7, <1>8, <1>11, <1>12, <1>13

-----------------------------------------------------------------------------
(* Tabs do not disturb each other                                            *)

\* A step leaves tab u alone.
Still(u) ==
    /\ shown'[u] = shown[u] /\ confirmed'[u] = confirmed[u] /\ known'[u] = known[u]
    /\ queue'[u] = queue[u] /\ sent'[u] = sent[u] /\ answer'[u] = answer[u]
    /\ mount'[u] = mount[u] /\ refresh'[u] = refresh[u] /\ version'[u] = version[u]
    /\ refreshed'[u] = refreshed[u] /\ error'[u] = error[u]
    /\ conflict'[u] = conflict[u] /\ superseded'[u] = superseded[u] /\ lost'[u] = lost[u]

\* The server's trackers only become more, and so do the edits.
Grows ==
    /\ Len(versions') >= Len(versions)
    /\ \A k \in 1 .. Len(versions) : versions'[k] = versions[k]
    /\ edits' >= edits

NoNewMessage(u) == \A m \in net' : m.tab = u => m \in net

\* A step that adds no message of a tab keeps its edits in order.
LEMMA EditsStayInOrder ==
    ASSUME TypeOK, TypeOK', Grows, NEW u \in Tabs, EditsInOrder(u), NoNewMessage(u),
           queue'[u] = queue[u], sent'[u] = sent[u], known'[u] = known[u]
    PROVE  EditsInOrder(u)'
<1>1. edits \in Nat /\ edits' \in Nat /\ edits' >= edits /\ Len(queue[u]) \in Nat
      /\ \A k \in 1 .. Len(queue[u]) : queue[u][k].edit \in Nat
  BY EditNumbers DEF TypeOK, Grows
<1>2. \A m \in net : m.change.edit \in Nat
  BY EditNumbers
<1> QED
  BY <1>1, <1>2 DEF EditsInOrder, NoNewMessage

\* All of TabInv but what it says of the answer.
RestInv(t) ==
    /\ EditsInOrder(t) /\ ReadsAreQuiet(t) /\ ReadsAreTrue(t) /\ KnownIsTrue(t) /\ LossIsNoted(t)
    /\ Idle(t) => shown[t] = confirmed[t]

\* A step that leaves tab u alone, but for the answer to its change.
StillBarAnswer(u) ==
    /\ shown'[u] = shown[u] /\ confirmed'[u] = confirmed[u] /\ known'[u] = known[u]
    /\ queue'[u] = queue[u] /\ sent'[u] = sent[u]
    /\ mount'[u] = mount[u] /\ refresh'[u] = refresh[u] /\ version'[u] = version[u]
    /\ refreshed'[u] = refreshed[u] /\ error'[u] = error[u]
    /\ conflict'[u] = conflict[u] /\ superseded'[u] = superseded[u] /\ lost'[u] = lost[u]

\* A step that only answers a tab's change keeps the rest of its invariant.
LEMMA RestStands ==
    ASSUME TypeOK, TypeOK', Grows, NEW u \in Tabs, TabInv(u), StillBarAnswer(u), NoNewMessage(u)
    PROVE  RestInv(u)'
<1>1. EditsInOrder(u)'
  BY EditsStayInOrder DEF TabInv, StillBarAnswer
<1>2. Len(versions) \in Nat /\ Len(versions') \in Nat
      /\ known[u] \in Nat /\ mount[u] \in Read /\ refresh[u] \in Read
  BY DEF TypeOK
<1>3. ReadsAreQuiet(u)'
  BY DEF TabInv, StillBarAnswer, ReadsAreQuiet, SameVersion, StillFirst, Idle
<1>4. ReadsAreTrue(u)'
  BY <1>2 DEF TabInv, StillBarAnswer, Grows, ReadsAreTrue, Serves, SameVersion
<1>6. KnownIsTrue(u)'
  BY <1>2 DEF TabInv, StillBarAnswer, Grows, KnownIsTrue
<1>7. LossIsNoted(u)' /\ (Idle(u) => shown[u] = confirmed[u])'
  BY DEF TabInv, StillBarAnswer, LossIsNoted, Idle
<1> QED
  BY <1>1, <1>3, <1>4, <1>6, <1>7 DEF RestInv

\* A step that leaves a tab alone keeps its invariant, whatever the server adds.
LEMMA TabStands ==
    ASSUME TypeOK, TypeOK', Grows, NEW u \in Tabs, TabInv(u), Still(u), NoNewMessage(u)
    PROVE  TabInv(u)'
<1>1. RestInv(u)'
  BY RestStands DEF Still, StillBarAnswer
<1>2. Len(versions) \in Nat /\ Len(versions') \in Nat
      /\ known[u] \in Nat /\ answer[u].revision \in Nat
  BY DEF TypeOK, Answer
<1>3. Applied(confirmed[u], answer[u])' = Applied(confirmed[u], answer[u])
  BY DEF Still, Applied
<1>4. AnswerIsTrue(u)'
  BY <1>2, <1>3 DEF TabInv, Still, Grows, AnswerIsTrue
<1> QED
  BY <1>1, <1>4 DEF RestInv, TabInv

\* What is left to show of a step that concerns one tab.
LEMMA OneTab ==
    ASSUME TypeOK, TypeOK', AllTabs, Grows, NEW t \in Tabs, TabInv(t)',
           \A u \in Tabs \ {t} : Still(u) /\ NoNewMessage(u)
    PROVE  AllTabs'
BY TabStands DEF AllTabs

\* No tab takes an older tracker for the saved one.
Forward == \A t \in Tabs : known[t] # 0 /\ known'[t] # 0 => known'[t] >= known[t]

\* No tab goes back in a step that confirms nothing.
LEMMA ForwardIfUnchanged ==
    ASSUME TypeOK, UNCHANGED known
    PROVE  Forward
BY DEF TypeOK, Forward

-----------------------------------------------------------------------------
(* The user's steps                                                          *)

\* A user's edit.
LEMMA EditKeeps ==
    ASSUME TypeOK, AllTabs, NEW t \in Tabs, Edit(t)
    PROVE  TypeOK' /\ AllTabs' /\ Forward
<1>1. PICK up \in SUBSET Ids, del \in SUBSET Ids, recs \in Tracker : EditOf(t, up, del, recs)
  BY EditIsPersist
<1> DEFINE c == NewChange(t, up, del, recs)
<1>2. Persist(t, up, del, recs)
  BY <1>1 DEF EditOf
<1>3. c \in Change /\ c.edit = edits + 1
  BY <1>2, PersistSteps DEF NewChange
<1>4. TypeOK'
  BY <1>2, PersistSteps
<1>5. /\ edits' = edits + 1 /\ edits \in Nat
      /\ queue'[t] = Append(queue[t], c)
      /\ version'[t] = version[t] + 1
  BY <1>2, PersistSteps
<1>6. UNCHANGED <<versions, net, confirmed, known, sent, answer, mount, refresh, refreshed,
                  loaded, superseded, faults>>
  BY <1>2, PersistSteps
<1>7. /\ conflict'[t] = FALSE
      /\ error'[t] = (IF conflict[t] THEN "none" ELSE error[t])
      /\ lost'[t] = (lost[t] /\ error[t] = "none")
  BY <1>2, PersistSteps
<1>8. Grows
  BY <1>5, <1>6 DEF Grows, TypeOK
<1>9. \A u \in Tabs \ {t} : Still(u) /\ NoNewMessage(u)
  BY <1>2, <1>6, PersistSteps DEF Still, NoNewMessage
<1> HIDE DEF c
<1>10. TabInv(t) /\ version[t] \in Nat /\ refresh[t].version \in Nat /\ queue[t] \in Seq(Change)
       /\ \A m \in net : m.change.edit \in Nat
  BY EditNumbers DEF AllTabs, TypeOK, Read
<1>11. EditsInOrder(t)'
  <2>1. /\ Len(queue'[t]) = Len(queue[t]) + 1 /\ Len(queue[t]) \in Nat
        /\ \A k \in 1 .. Len(queue[t]) : queue'[t][k] = queue[t][k]
        /\ queue'[t][Len(queue[t]) + 1] = c
    BY <1>3, <1>5, <1>10
  <2>2. \A k \in 1 .. Len(queue[t]) : queue[t][k].edit \in Nat
    BY EditNumbers
  <2> QED
    BY <1>3, <1>5, <1>6, <1>10, <2>1, <2>2 DEF TabInv, EditsInOrder
<1>12. ~Idle(t)'
  BY <1>3, <1>5, <1>10 DEF Idle
<1>13. ReadsAreQuiet(t)' /\ ReadsAreTrue(t)'
  BY <1>5, <1>6, <1>10 DEF TabInv, ReadsAreQuiet, ReadsAreTrue, StillFirst, SameVersion, Serves
<1>14. AnswerIsTrue(t)' /\ KnownIsTrue(t)'
  <2>1. Applied(confirmed[t], answer[t])' = Applied(confirmed[t], answer[t])
    BY <1>6 DEF Applied
  <2> QED
    BY <1>6, <1>10, <2>1 DEF TabInv, AnswerIsTrue, KnownIsTrue
<1>15. LossIsNoted(t)'
  BY <1>6, <1>7, <1>10, <1>12 DEF TabInv, LossIsNoted
<1>16. TabInv(t)'
  BY <1>11, <1>12, <1>13, <1>14, <1>15 DEF TabInv
<1> QED
  BY <1>4, <1>6, <1>8, <1>9, <1>16, OneTab, ForwardIfUnchanged

-----------------------------------------------------------------------------
(* List requests                                                             *)

\* A step of a list request that takes over nothing.
OnlyReads(t) ==
    /\ UNCHANGED <<serverVars, trackerVars, writeVars, loaded, conflict, superseded, lost>>
    /\ mount' = [mount EXCEPT ![t] = mount'[t]] /\ mount'[t] \in Read
    /\ refresh' = [refresh EXCEPT ![t] = refresh'[t]] /\ refresh'[t] \in Read
    /\ refreshed' = [refreshed EXCEPT ![t] = refreshed'[t]] /\ refreshed'[t] \in BOOLEAN
    /\ error' = [error EXCEPT ![t] = error'[t]] /\ error'[t] \in {error[t], "load"}
    /\ faults' \in 0 .. MaxFaults

\* A step of a list request that takes over nothing keeps what the requests do not
\* concern.
LEMMA ReadKeeps ==
    ASSUME TypeOK, AllTabs, NEW t \in Tabs, OnlyReads(t), ReadsAreQuiet(t)', ReadsAreTrue(t)'
    PROVE  TypeOK' /\ AllTabs' /\ Forward
<1>1. UNCHANGED <<versions, net, shown, confirmed, known, queue, sent, answer, version, edits, loaded,
                  conflict, superseded, lost>>
  BY DEF OnlyReads, serverVars, trackerVars, writeVars
<1>2. mount' \in [Tabs -> Read] /\ refresh' \in [Tabs -> Read]
      /\ refreshed' \in [Tabs -> BOOLEAN] /\ error' \in [Tabs -> Notices]
  <2>1. \A S : \A f \in [Tabs -> S] : \A x \in S : [f EXCEPT ![t] = x] \in [Tabs -> S]
    OBVIOUS
  <2>2. mount \in [Tabs -> Read] /\ refresh \in [Tabs -> Read]
        /\ refreshed \in [Tabs -> BOOLEAN] /\ error \in [Tabs -> Notices] /\ error'[t] \in Notices
    BY DEF OnlyReads, TypeOK, Notices
  <2>3. mount' \in [Tabs -> Read] /\ refresh' \in [Tabs -> Read]
    BY <2>1, <2>2 DEF OnlyReads
  <2>4. refreshed' \in [Tabs -> BOOLEAN]
    BY <2>1, <2>2 DEF OnlyReads
  <2>5. error' \in [Tabs -> Notices]
    BY <2>1, <2>2 DEF OnlyReads
  <2> QED
    BY <2>3, <2>4, <2>5
<1>3. TypeOK'
  BY <1>1, <1>2 DEF TypeOK, Idle, OnlyReads
<1>4. \A u \in Tabs \ {t} : mount'[u] = mount[u] /\ refresh'[u] = refresh[u]
                         /\ refreshed'[u] = refreshed[u] /\ error'[u] = error[u]
  BY DEF OnlyReads, TypeOK
<1>5. \A u \in Tabs \ {t} : Still(u) /\ NoNewMessage(u)
  BY <1>1, <1>4 DEF Still, NoNewMessage
<1>6. Grows
  BY <1>1 DEF Grows, TypeOK
<1>7. TabInv(t)
  BY DEF AllTabs
<1>8. EditsInOrder(t)' /\ KnownIsTrue(t)' /\ (Idle(t) => shown[t] = confirmed[t])'
  BY <1>1, <1>7 DEF TabInv, EditsInOrder, KnownIsTrue, Idle
<1>9. AnswerIsTrue(t)'
  <2>1. Applied(confirmed[t], answer[t])' = Applied(confirmed[t], answer[t])
    BY <1>1 DEF Applied
  <2> QED
    BY <1>1, <1>7, <2>1 DEF TabInv, AnswerIsTrue
<1>10. LossIsNoted(t)'
  BY <1>1, <1>7 DEF TabInv, LossIsNoted, Idle, OnlyReads
<1> QED
  BY <1>1, <1>3, <1>5, <1>6, <1>8, <1>9, <1>10, OneTab, ForwardIfUnchanged DEF TabInv

\* What the server answers a list request.
LEMMA AnsweredRead ==
    ASSUME TypeOK, NEW r \in Read
    PROVE  /\ Answered(r) \in Read /\ Answered(r).phase = "answered"
           /\ Answered(r).version = r.version /\ Answered(r).asked = r.asked
           /\ r.asked = Len(versions) => Answered(r).same
           /\ r.asked # Len(versions) => Serves(Answered(r)) /\ Answered(r).revision = Len(versions)
<1>1. Len(versions) \in Nat \ {0} /\ Current = versions[Len(versions)] /\ Current \in Tracker
  BY CurrentType
<1>2. CASE r.asked = Len(versions)
  BY <1>1, <1>2 DEF Answered, Read
<1>3. CASE r.asked # Len(versions)
  <2>1. Answered(r) = [r EXCEPT !.phase = "answered", !.recs = Current, !.revision = Len(versions)]
    BY <1>3 DEF Answered
  <2>2. Answered(r) \in Read
    BY <1>1, <2>1 DEF Read
  <2>3. /\ Answered(r).phase = "answered" /\ Answered(r).recs = Current
        /\ Answered(r).revision = Len(versions)
        /\ Answered(r).version = r.version /\ Answered(r).asked = r.asked
    BY <2>1 DEF Read
  <2> QED
    BY <1>1, <1>3, <2>2, <2>3 DEF Serves
<1> QED
  BY <1>2, <1>3

\* The first read is answered, dropped or fails.
LEMMA MountKeeps ==
    ASSUME TypeOK, AllTabs, NEW t \in Tabs, HandleMount(t) \/ DropMount(t) \/ FailMount(t)
    PROVE  TypeOK' /\ AllTabs' /\ Forward
<1>1. TabInv(t) /\ mount[t] \in Read /\ refresh[t] \in Read /\ refreshed[t] \in BOOLEAN
      /\ refreshed \in [Tabs -> BOOLEAN] /\ refresh \in [Tabs -> Read] /\ mount \in [Tabs -> Read]
      /\ error \in [Tabs -> Notices] /\ faults \in 0 .. MaxFaults /\ MaxFaults \in Nat
  BY TabAssumption DEF AllTabs, TypeOK
<1>2. ASSUME UNCHANGED <<serverVars, trackerVars, writeVars, refresh, refreshed, loaded, conflict, superseded, lost>>,
             mount' = [mount EXCEPT ![t] = mount'[t]], mount'[t] \in Read,
             mount'[t].asked = 0,
             mount'[t].phase # "none" => mount[t].phase # "none",
             mount'[t].phase = "answered" => Serves(mount'[t])
      PROVE  ReadsAreQuiet(t)' /\ ReadsAreTrue(t)'
  <2>1. UNCHANGED <<versions, known, queue, version, refresh, refreshed>>
    BY <1>2 DEF serverVars, trackerVars, writeVars
  <2>2. ReadsAreQuiet(t)'
    BY <1>1, <1>2, <2>1 DEF TabInv, ReadsAreQuiet, StillFirst, SameVersion, Idle
  <2>3. ReadsAreTrue(t)'
    BY <1>1, <1>2, <2>1 DEF TabInv, ReadsAreTrue, Serves, SameVersion
  <2> QED
    BY <2>2, <2>3
<1>3. CASE HandleMount(t)
  <2>1. mount' = [mount EXCEPT ![t] = Answered(mount[t])] /\ mount'[t] = Answered(mount[t])
    BY <1>1, <1>3 DEF HandleMount
  <2>2. UNCHANGED <<serverVars, trackerVars, writeVars, refresh, refreshed, loaded, conflict, superseded,
                    lost, error, faults>>
    BY <1>3 DEF HandleMount, noticeVars
  <2>3. mount[t].asked = 0 /\ mount[t].phase = "asked" /\ Len(versions) # 0
    BY <1>1, <1>3, CurrentType DEF HandleMount, TabInv, ReadsAreTrue
  <2>4. /\ mount'[t] \in Read /\ mount'[t].asked = 0 /\ mount'[t].phase = "answered"
        /\ Serves(mount'[t])
    BY <1>1, <2>1, <2>3, AnsweredRead
  <2>5. ReadsAreQuiet(t)' /\ ReadsAreTrue(t)'
    BY <1>2, <2>1, <2>2, <2>3, <2>4
  <2>6. OnlyReads(t)
    BY <1>1, <2>1, <2>2, <2>4 DEF OnlyReads
  <2> QED
    BY <2>5, <2>6, ReadKeeps
<1>4. CASE DropMount(t) \/ FailMount(t)
  <2>1. mount' = [mount EXCEPT ![t] = NoRead] /\ mount'[t] = NoRead
    BY <1>1, <1>4 DEF DropMount, FailMount
  <2>2. UNCHANGED <<serverVars, trackerVars, writeVars, refresh, refreshed, loaded, conflict, superseded, lost>>
    BY <1>4 DEF DropMount, FailMount, noticeVars
  <2>3. error' = [error EXCEPT ![t] = error'[t]] /\ error'[t] \in {error[t], "load"}
    BY <1>1, <1>4 DEF DropMount, FailMount, noticeVars
  <2>4. faults' \in 0 .. MaxFaults
    BY <1>1, <1>4 DEF DropMount, FailMount, Fault
  <2>7. NoRead.asked = 0 /\ NoRead.phase = "none" /\ NoRead \in Read
    BY EmptyType DEF NoRead
  <2>5. ReadsAreQuiet(t)' /\ ReadsAreTrue(t)'
    BY <1>2, <2>1, <2>2, <2>7
  <2>6. OnlyReads(t)
    BY <1>1, <2>1, <2>2, <2>3, <2>4, EmptyType DEF OnlyReads
  <2> QED
    BY <2>5, <2>6, ReadKeeps
<1> QED
  BY <1>3, <1>4

\* A refresh starts, asks, is answered, repeats or fails.
LEMMA RefreshKeeps ==
    ASSUME TypeOK, AllTabs, NEW t \in Tabs,
           Refresh(t) \/ AutoRefresh(t) \/ AskRefresh(t) \/ HandleRefresh(t) \/ RepeatRefresh(t) \/ FailRefresh(t)
    PROVE  TypeOK' /\ AllTabs' /\ Forward
<1>1. TabInv(t) /\ mount[t] \in Read /\ refresh[t] \in Read /\ refreshed[t] \in BOOLEAN
      /\ refreshed \in [Tabs -> BOOLEAN] /\ refresh \in [Tabs -> Read] /\ mount \in [Tabs -> Read]
      /\ error \in [Tabs -> Notices] /\ faults \in 0 .. MaxFaults /\ MaxFaults \in Nat
      /\ version[t] \in Nat /\ known[t] \in Nat
  BY TabAssumption DEF AllTabs, TypeOK
<1>2. ASSUME UNCHANGED <<serverVars, trackerVars, writeVars, mount, loaded, conflict, superseded, lost>>,
             refreshed'[t] \/ (refreshed'[t] = refreshed[t] /\ refresh'[t].phase = "none"),
             refreshed[t] => refreshed'[t],
             refresh'[t].version \in 0 .. version[t],
             refresh'[t].phase \in {"none", "drain"} \/ (Idle(t) /\ refresh'[t].phase = "asked")
      PROVE  ReadsAreQuiet(t)' /\ ReadsAreTrue(t)'
  <2>1. UNCHANGED <<versions, known, queue, version, mount>>
    BY <1>2 DEF serverVars, trackerVars, writeVars
  <2>2. ReadsAreQuiet(t)'
    BY <1>1, <1>2, <2>1 DEF TabInv, ReadsAreQuiet, StillFirst, SameVersion, Idle
  <2>3. ReadsAreTrue(t)'
    BY <1>1, <1>2, <2>1 DEF TabInv, ReadsAreTrue, Serves, SameVersion
  <2> QED
    BY <2>2, <2>3
<1>3. ASSUME NEW auto \in BOOLEAN, StartRefresh(t, auto)
      PROVE  TypeOK' /\ AllTabs' /\ Forward
  <2> DEFINE r == [NoRead EXCEPT !.phase = "drain", !.auto = auto]
  <2>1. r \in Read /\ r.phase = "drain" /\ r.version = 0
    BY EmptyType DEF NoRead, Read
  <2>2. refresh' = [refresh EXCEPT ![t] = r] /\ refreshed' = [refreshed EXCEPT ![t] = TRUE]
    BY <1>3 DEF StartRefresh
  <2> HIDE DEF r
  <2>3. UNCHANGED <<serverVars, trackerVars, writeVars, mount, loaded, conflict, superseded, lost, error, faults>>
    BY <1>3 DEF StartRefresh, noticeVars
  <2>4. refresh'[t] = r /\ refreshed'[t] = TRUE
    BY <1>1, <2>2
  <2>5. ReadsAreQuiet(t)' /\ ReadsAreTrue(t)'
    BY <1>1, <1>2, <2>1, <2>3, <2>4
  <2>6. OnlyReads(t)
    BY <1>1, <2>1, <2>2, <2>3, <2>4 DEF OnlyReads
  <2> QED
    BY <2>5, <2>6, ReadKeeps
<1>4. CASE AskRefresh(t)
  <2>1. refresh' = [refresh EXCEPT ![t] = refresh'[t]] /\ refresh'[t] \in Read
        /\ refresh'[t].phase = "asked" /\ refresh'[t].version = version[t]
    BY <1>1, <1>4 DEF AskRefresh, Read
  <2>2. UNCHANGED <<serverVars, trackerVars, writeVars, mount, refreshed, loaded, conflict, superseded, lost, error, faults>>
    BY <1>4 DEF AskRefresh, noticeVars
  <2>3. Idle(t) /\ refreshed[t] = TRUE
    BY <1>1, <1>4 DEF AskRefresh, TabInv, ReadsAreQuiet
  <2>4. ReadsAreQuiet(t)' /\ ReadsAreTrue(t)'
    BY <1>1, <1>2, <2>1, <2>2, <2>3
  <2>5. OnlyReads(t)
    BY <1>1, <2>1, <2>2 DEF OnlyReads
  <2> QED
    BY <2>4, <2>5, ReadKeeps
<1>5. CASE HandleRefresh(t)
  <2>1. refresh' = [refresh EXCEPT ![t] = Answered(refresh[t])] /\ refresh'[t] = Answered(refresh[t])
    BY <1>1, <1>5 DEF HandleRefresh
  <2>2. UNCHANGED <<serverVars, trackerVars, writeVars, mount, refreshed, loaded, conflict, superseded, lost, error, faults>>
    BY <1>5 DEF HandleRefresh, noticeVars
  <2>3. refresh[t].phase = "asked" /\ refresh'[t] \in Read /\ refresh'[t].phase = "answered"
        /\ refresh'[t].version = refresh[t].version
        /\ (~refresh'[t].same => Serves(refresh'[t]) /\ refresh'[t].revision = Len(versions))
    BY <1>1, <1>5, <2>1, AnsweredRead DEF HandleRefresh
  <2>4. UNCHANGED <<versions, known, queue, version>>
    BY <2>2 DEF serverVars, trackerVars, writeVars
  <2>5. known[t] <= Len(versions) /\ Len(versions) \in Nat
    BY <1>1, CurrentType DEF TabInv, KnownIsTrue
  <2>6. ReadsAreQuiet(t)'
    BY <1>1, <2>2, <2>3, <2>4 DEF TabInv, ReadsAreQuiet, StillFirst, SameVersion, Idle
  <2>7. ReadsAreTrue(t)'
    BY <1>1, <2>2, <2>3, <2>4, <2>5 DEF TabInv, ReadsAreTrue, Serves
  <2>8. OnlyReads(t)
    BY <1>1, <2>1, <2>2, <2>3 DEF OnlyReads
  <2> QED
    BY <2>6, <2>7, <2>8, ReadKeeps
<1>6. CASE RepeatRefresh(t)
  <2> DEFINE r == [NoRead EXCEPT !.phase = "drain", !.auto = refresh[t].auto]
  <2>1. r \in Read /\ r.phase = "drain" /\ r.version = 0
    BY <1>1, EmptyType DEF NoRead, Read
  <2>2. refresh' = [refresh EXCEPT ![t] = r]
    BY <1>6 DEF RepeatRefresh, Drained
  <2> HIDE DEF r
  <2>3. UNCHANGED <<serverVars, trackerVars, writeVars, mount, refreshed, loaded, conflict, superseded, lost, error, faults>>
    BY <1>6 DEF RepeatRefresh, noticeVars
  <2>4. refresh'[t] = r /\ refreshed'[t] = TRUE
    BY <1>1, <1>6, <2>2, <2>3 DEF RepeatRefresh, TabInv, ReadsAreQuiet
  <2>5. ReadsAreQuiet(t)' /\ ReadsAreTrue(t)'
    BY <1>1, <1>2, <2>1, <2>3, <2>4
  <2>6. OnlyReads(t)
    BY <1>1, <2>1, <2>2, <2>3, <2>4 DEF OnlyReads
  <2> QED
    BY <2>5, <2>6, ReadKeeps
<1>7. CASE FailRefresh(t)
  <2>1. refresh' = [refresh EXCEPT ![t] = NoRead] /\ refresh'[t] = NoRead
        /\ error' = [error EXCEPT ![t] = "load"] /\ error'[t] = "load"
    BY <1>1, <1>7 DEF FailRefresh
  <2>2. UNCHANGED <<serverVars, trackerVars, writeVars, mount, refreshed, loaded, conflict, superseded, lost>>
    BY <1>7 DEF FailRefresh
  <2>3. faults' \in 0 .. MaxFaults
    BY <1>1, <1>7 DEF FailRefresh, Fault
  <2>4. NoRead.phase = "none" /\ NoRead.version = 0 /\ NoRead \in Read
    BY EmptyType DEF NoRead
  <2>5. ReadsAreQuiet(t)' /\ ReadsAreTrue(t)'
    BY <1>1, <1>2, <2>1, <2>2, <2>4
  <2>6. OnlyReads(t)
    BY <1>1, <2>1, <2>2, <2>3, <2>4 DEF OnlyReads
  <2> QED
    BY <2>5, <2>6, ReadKeeps
<1> QED
  BY <1>3, <1>4, <1>5, <1>6, <1>7 DEF Refresh, AutoRefresh

-----------------------------------------------------------------------------
(* A read is taken over                                                      *)

\* A read is taken over only when no edit is waiting and nothing newer is known.
LEMMA FinishKeeps ==
    ASSUME TypeOK, AllTabs, NEW t \in Tabs, FinishMount(t) \/ FinishRefresh(t)
    PROVE  TypeOK' /\ AllTabs' /\ Forward
<1>1. TabInv(t) /\ mount[t] \in Read /\ refresh[t] \in Read /\ refreshed[t] \in BOOLEAN
      /\ refresh \in [Tabs -> Read] /\ mount \in [Tabs -> Read]
      /\ confirmed[t] \in Tracker /\ version[t] \in Nat /\ known[t] \in Nat
  BY DEF AllTabs, TypeOK
<1>2. NoRead \in Read /\ NoRead.asked = 0 /\ NoRead.phase = "none" /\ NoRead.version = 0
  BY EmptyType DEF NoRead
<1>3. PICK recs \in Tracker, revision \in Nat :
         /\ Adopt(t, recs, revision)
         /\ known[t] <= revision
         /\ revision # 0 => revision <= Len(versions) /\ recs = versions[revision]
  <2>1. CASE FinishMount(t)
    <3>1. Adopt(t, mount[t].recs, mount[t].revision) /\ mount[t].phase = "answered" /\ StillFirst(t)
      BY <2>1 DEF FinishMount
    <3>2. known[t] = 0 /\ Serves(mount[t])
      BY <1>1, <3>1 DEF TabInv, ReadsAreQuiet, ReadsAreTrue
    <3>3. mount[t].recs \in Tracker /\ mount[t].revision \in Nat
      BY <1>1 DEF Read
    <3> QED
      BY <3>1, <3>2, <3>3, CurrentType DEF Serves
  <2>2. CASE FinishRefresh(t) /\ refresh[t].same
    BY <1>1, <2>2 DEF FinishRefresh, TabInv, KnownIsTrue
  <2>3. CASE FinishRefresh(t) /\ ~refresh[t].same
    <3>1. Adopt(t, refresh[t].recs, refresh[t].revision) /\ refresh[t].phase = "answered" /\ SameVersion(t)
      BY <2>3 DEF FinishRefresh
    <3>2. known[t] <= refresh[t].revision /\ Serves(refresh[t])
      BY <1>1, <2>3, <3>1 DEF TabInv, ReadsAreTrue
    <3>3. refresh[t].recs \in Tracker /\ refresh[t].revision \in Nat
      BY <1>1 DEF Read
    <3> QED
      BY <3>1, <3>2, <3>3, CurrentType DEF Serves
  <2> QED
    BY <2>1, <2>2, <2>3
<1>4. /\ confirmed' = [confirmed EXCEPT ![t] = recs] /\ known' = [known EXCEPT ![t] = revision]
      /\ shown' = [shown EXCEPT ![t] = recs] /\ loaded' = [loaded EXCEPT ![t] = TRUE]
      /\ conflict' = [conflict EXCEPT ![t] = FALSE] /\ error' = [error EXCEPT ![t] = "none"]
      /\ lost' = [lost EXCEPT ![t] = FALSE] /\ UNCHANGED superseded
  BY <1>3 DEF Adopt, Confirm
<1>5. UNCHANGED <<versions, net, queue, sent, answer, version, edits, refreshed, faults>>
  BY DEF FinishMount, FinishRefresh, serverVars, writeVars
<1>6. \/ mount' = [mount EXCEPT ![t] = NoRead] /\ UNCHANGED refresh /\ ~refreshed[t]
      \/ refresh' = [refresh EXCEPT ![t] = NoRead] /\ UNCHANGED mount /\ refreshed[t]
  <2>1. CASE FinishMount(t)
    BY <1>1, <2>1 DEF FinishMount, StillFirst
  <2>2. CASE FinishRefresh(t)
    BY <1>1, <2>2 DEF FinishRefresh, TabInv, ReadsAreQuiet
  <2> QED
    BY <2>1, <2>2
<1>7. Idle(t)
  <2>1. CASE FinishMount(t)
    BY <1>1, <2>1 DEF FinishMount, StillFirst, TabInv, ReadsAreQuiet
  <2>2. CASE FinishRefresh(t)
    BY <1>1, <2>2 DEF FinishRefresh, TabInv, ReadsAreQuiet
  <2> QED
    BY <2>1, <2>2
<1>8. TypeOK'
  <2>1. confirmed' \in [Tabs -> Tracker] /\ known' \in [Tabs -> Nat] /\ shown' \in [Tabs -> Tracker]
    BY <1>4 DEF TypeOK
  <2>2. loaded' \in [Tabs -> BOOLEAN] /\ conflict' \in [Tabs -> BOOLEAN] /\ superseded' \in [Tabs -> BOOLEAN]
        /\ error' \in [Tabs -> Notices] /\ lost' \in [Tabs -> BOOLEAN]
    BY <1>4 DEF TypeOK, Notices
  <2>3. mount' \in [Tabs -> Read] /\ refresh' \in [Tabs -> Read]
    BY <1>1, <1>2, <1>6
  <2> QED
    BY <1>5, <2>1, <2>2, <2>3 DEF TypeOK, Idle
<1>9. \A u \in Tabs \ {t} : Still(u) /\ NoNewMessage(u)
  <2>1. \A u \in Tabs \ {t} : mount'[u] = mount[u] /\ refresh'[u] = refresh[u]
    BY <1>1, <1>6
  <2>2. \A u \in Tabs \ {t} : /\ confirmed'[u] = confirmed[u] /\ known'[u] = known[u] /\ shown'[u] = shown[u]
                           /\ error'[u] = error[u]
    BY <1>4 DEF TypeOK
  <2>3. \A u \in Tabs \ {t} : conflict'[u] = conflict[u] /\ lost'[u] = lost[u]
    BY <1>4 DEF TypeOK
  <2> QED
    BY <1>4, <1>5, <2>1, <2>2, <2>3 DEF Still, NoNewMessage
<1>10. Grows
  BY <1>5 DEF Grows, TypeOK
<1>11. /\ confirmed'[t] = recs /\ known'[t] = revision /\ shown'[t] = recs
       /\ error'[t] = "none" /\ lost'[t] = FALSE /\ conflict'[t] = FALSE
  BY <1>4 DEF TypeOK
<1>12. TabInv(t)'
  <2>1. queue'[t] = <<>> /\ Len(queue'[t]) = 0 /\ Idle(t)'
    BY <1>5, <1>7 DEF Idle
  <2>2. EditsInOrder(t)'
    BY <1>1, <1>5, <2>1 DEF TabInv, EditsInOrder
  <2>3. ReadsAreQuiet(t)' /\ ReadsAreTrue(t)'
    <3>1. CASE ~refreshed[t]
      <4>1. mount'[t] = NoRead /\ refresh'[t] = refresh[t] /\ refresh[t].phase = "none"
            /\ refresh[t].version <= version[t]
        BY <1>1, <1>6, <3>1 DEF TabInv, ReadsAreQuiet
      <4> QED
        BY <1>2, <1>5, <2>1, <4>1 DEF ReadsAreQuiet, ReadsAreTrue
    <3>2. CASE refreshed[t]
      <4>1. refresh'[t] = NoRead /\ mount'[t] = mount[t] /\ mount[t].asked = 0
            /\ (mount[t].phase = "answered" => Serves(mount[t]))
        BY <1>1, <1>6, <3>2 DEF TabInv, ReadsAreTrue
      <4>2. ReadsAreQuiet(t)'
        BY <1>1, <1>2, <1>5, <2>1, <3>2, <4>1 DEF ReadsAreQuiet, StillFirst
      <4>3. ReadsAreTrue(t)'
        BY <1>2, <1>5, <4>1 DEF ReadsAreTrue, Serves
      <4> QED
        BY <4>2, <4>3
    <3> QED
      BY <3>1, <3>2
  <2>4. AnswerIsTrue(t)'
    <3>1. answer[t].kind = "none"
      BY <1>7 DEF TypeOK
    <3> QED
      BY <1>5, <3>1 DEF AnswerIsTrue
  <2>5. KnownIsTrue(t)'
    BY <1>3, <1>5, <1>11 DEF KnownIsTrue
  <2>6. LossIsNoted(t)' /\ (Idle(t) => shown[t] = confirmed[t])'
    BY <1>11 DEF LossIsNoted
  <2> QED
    BY <2>2, <2>3, <2>4, <2>5, <2>6 DEF TabInv
<1>13. Forward
  BY <1>3, <1>4, <1>11 DEF Forward, TypeOK
<1> QED
  BY <1>8, <1>9, <1>10, <1>12, <1>13, OneTab

-----------------------------------------------------------------------------
(* A change settles                                                          *)

\* The queue of the tab after its first change, and what the messages are then.
LEMMA QueueMovesUp ==
    ASSUME TypeOK, NEW t \in Tabs, ~Idle(t), EditsInOrder(t), queue'[t] = Tail(queue[t]),
           UNCHANGED <<net, edits>>
    PROVE  /\ EditsInOrder(t)' /\ queue'[t] \in Seq(Change)
           /\ Latest(t) <=> Idle(t)'
<1>1. queue[t] \in Seq(Change) /\ queue[t] # <<>>
  BY EditNumbers DEF Idle
<1>2. /\ queue'[t] \in Seq(Change) /\ Len(queue'[t]) = Len(queue[t]) - 1 /\ Len(queue[t]) \in Nat \ {0}
      /\ \A k \in 1 .. Len(queue'[t]) : queue'[t][k] = queue[t][k + 1]
  <2>1. \A s \in Seq(Change) : s # <<>> => /\ Tail(s) \in Seq(Change) /\ Len(Tail(s)) = Len(s) - 1
                                      /\ Len(s) \in Nat \ {0}
                                      /\ \A k \in 1 .. Len(Tail(s)) : Tail(s)[k] = s[k + 1]
    OBVIOUS
  <2> QED
    BY <1>1, <2>1
<1>3. Latest(t) <=> queue'[t] = <<>>
  <2>1. \A s \in Seq(Change) : s = <<>> <=> Len(s) = 0
    OBVIOUS
  <2>2. queue'[t] = <<>> <=> Len(queue'[t]) = 0
    BY <1>2, <2>1
  <2>3. Len(queue'[t]) = 0 <=> Len(queue[t]) = 1
    BY <1>2
  <2> QED
    BY <2>2, <2>3 DEF Latest
<1>4. EditsInOrder(t)'
  <2>1. \A k \in 1 .. Len(queue'[t]) : k + 1 \in 1 .. Len(queue[t]) /\ k + 1 # 1
    BY <1>2
  <2>2. \A j, k \in 1 .. Len(queue'[t]) : j < k => j + 1 < k + 1
    BY <1>2
  <2> QED
    BY <1>2, <2>1, <2>2 DEF EditsInOrder
<1> QED
  BY <1>2, <1>3, <1>4 DEF Idle

\* What a change that settles leaves of the rest of its tab.
LEMMA SettledTab ==
    ASSUME TypeOK, NEW t \in Tabs, ~Idle(t), TabInv(t),
           queue'[t] = Tail(queue[t]), answer'[t] = NoAnswer,
           UNCHANGED <<versions, net, edits, version, refresh, mount, refreshed>>
    PROVE  /\ EditsInOrder(t)' /\ ReadsAreQuiet(t)' /\ ReadsAreTrue(t)' /\ AnswerIsTrue(t)'
           /\ Latest(t) <=> Idle(t)'
<1>1. EditsInOrder(t)' /\ (Latest(t) <=> Idle(t)')
  BY QueueMovesUp DEF TabInv
<1>2. version[t] # 0 /\ ~(refresh[t].phase \in {"asked", "answered"} /\ SameVersion(t))
  BY DEF TabInv, ReadsAreQuiet
<1>3. ReadsAreQuiet(t)'
  BY <1>2 DEF TabInv, ReadsAreQuiet, StillFirst, SameVersion
<1>4. ReadsAreTrue(t)'
  BY <1>2 DEF TabInv, ReadsAreTrue, SameVersion, Serves
<1>5. AnswerIsTrue(t)'
  BY DEF AnswerIsTrue, NoAnswer
<1> QED
  BY <1>1, <1>3, <1>4, <1>5

\* A change settles with recs at this revision, and its tab notes any loss.
SettledWith(t, recs, revision) ==
    /\ confirmed' = [confirmed EXCEPT ![t] = recs] /\ known' = [known EXCEPT ![t] = revision]
    /\ SettleShown(t, recs) /\ Dequeue(t)
    /\ UNCHANGED <<serverVars, mount, refresh, refreshed>>
    /\ loaded' \in [Tabs -> BOOLEAN] /\ faults' \in 0 .. MaxFaults
    /\ error' = [error EXCEPT ![t] = error'[t]] /\ error'[t] \in Notices
    /\ conflict' = [conflict EXCEPT ![t] = conflict'[t]] /\ conflict'[t] \in BOOLEAN
    /\ superseded' = [superseded EXCEPT ![t] = superseded'[t]] /\ superseded'[t] \in BOOLEAN
    /\ lost' = [lost EXCEPT ![t] = lost'[t]] /\ lost'[t] \in BOOLEAN

\* A change that settles with a tracker the server held keeps the invariants.
LEMMA SettleKeeps ==
    ASSUME TypeOK, AllTabs, NEW t \in Tabs, NEW recs \in Tracker, NEW revision \in Nat,
           ~Idle(t), SettledWith(t, recs, revision), LossIsNoted(t)',
           revision # 0 => /\ known[t] <= revision
                           /\ revision <= Len(versions) /\ versions[revision] = recs
    PROVE  TypeOK' /\ AllTabs' /\ Forward
<1>1. UNCHANGED <<versions, net, mount, refresh, refreshed, version, edits>>
  BY DEF SettledWith, serverVars, Dequeue
<1>2. queue' = [queue EXCEPT ![t] = Tail(queue[t])] /\ sent' = [sent EXCEPT ![t] = FALSE]
      /\ answer' = [answer EXCEPT ![t] = NoAnswer]
  BY DEF SettledWith, Dequeue
<1>3. shown' = [shown EXCEPT ![t] = IF Latest(t) THEN recs ELSE shown[t]]
      /\ confirmed' = [confirmed EXCEPT ![t] = recs] /\ known' = [known EXCEPT ![t] = revision]
  BY DEF SettledWith, SettleShown
<1>4. TabInv(t)
  BY DEF AllTabs
<1>5. queue'[t] = Tail(queue[t]) /\ answer'[t] = NoAnswer /\ confirmed'[t] = recs /\ known'[t] = revision
      /\ (Latest(t) => shown'[t] = recs)
  BY <1>2, <1>3 DEF TypeOK
<1>6. EditsInOrder(t)' /\ ReadsAreQuiet(t)' /\ ReadsAreTrue(t)' /\ AnswerIsTrue(t)' /\ (Latest(t) <=> Idle(t)')
  BY <1>1, <1>4, <1>5, SettledTab
<1>7. TabInv(t)'
  <2>1. KnownIsTrue(t)'
    BY <1>1, <1>5 DEF KnownIsTrue
  <2>2. (Idle(t) => shown[t] = confirmed[t])'
    BY <1>5, <1>6
  <2> QED
    BY <1>6, <2>1, <2>2 DEF TabInv
<1>8. TypeOK'
  <2>1. \A S : \A f \in [Tabs -> S] : \A x \in S : [f EXCEPT ![t] = x] \in [Tabs -> S]
    OBVIOUS
  <2>2. /\ shown \in [Tabs -> Tracker] /\ confirmed \in [Tabs -> Tracker] /\ known \in [Tabs -> Nat]
        /\ queue \in [Tabs -> Seq(Change)] /\ answer \in [Tabs -> Answer] /\ shown[t] \in Tracker
    BY DEF TypeOK
  <2>3. /\ sent \in [Tabs -> BOOLEAN] /\ error \in [Tabs -> Notices] /\ conflict \in [Tabs -> BOOLEAN]
        /\ superseded \in [Tabs -> BOOLEAN] /\ lost \in [Tabs -> BOOLEAN]
    BY DEF TypeOK
  <2>4. Tail(queue[t]) \in Seq(Change)
    <3>1. queue'[t] \in Seq(Change)
      BY <1>1, <1>4, <1>5, QueueMovesUp DEF TabInv
    <3> QED
      BY <3>1, <1>5
  <2>5. shown' \in [Tabs -> Tracker] /\ confirmed' \in [Tabs -> Tracker] /\ known' \in [Tabs -> Nat]
    BY <1>3, <2>1, <2>2
  <2>6. queue' \in [Tabs -> Seq(Change)] /\ answer' \in [Tabs -> Answer]
    BY <1>2, <2>1, <2>2, <2>4, EmptyType
  <2>7. sent' \in [Tabs -> BOOLEAN]
    BY <1>2, <2>1, <2>3
  <2>8. error' \in [Tabs -> Notices]
    BY <2>1, <2>3 DEF SettledWith
  <2>9. conflict' \in [Tabs -> BOOLEAN]
    BY <2>1, <2>3 DEF SettledWith
  <2>10. superseded' \in [Tabs -> BOOLEAN]
    BY <2>1, <2>3 DEF SettledWith
  <2>11. lost' \in [Tabs -> BOOLEAN]
    BY <2>1, <2>3 DEF SettledWith
  <2>12. \A u \in Tabs : (sent'[u] => queue'[u] # <<>>) /\ (answer'[u].kind # "none" => sent'[u])
    <3>1. sent'[t] = FALSE
      BY <1>2, <2>3
    <3>2. NoAnswer.kind = "none"
      BY DEF NoAnswer
    <3>3. \A u \in Tabs \ {t} : sent'[u] = sent[u] /\ queue'[u] = queue[u] /\ answer'[u] = answer[u]
      BY <1>2, <2>2, <2>3
    <3> QED
      BY <1>5, <3>1, <3>2, <3>3 DEF TypeOK, Idle
  <2>13. loaded' \in [Tabs -> BOOLEAN] /\ faults' \in 0 .. MaxFaults
    BY DEF SettledWith
  <2> QED
    BY <1>1, <2>5, <2>6, <2>7, <2>8, <2>9, <2>10, <2>11, <2>12, <2>13 DEF TypeOK, Idle
<1>9. \A u \in Tabs \ {t} : Still(u) /\ NoNewMessage(u)
  <2>1. \A u \in Tabs \ {t} : /\ queue'[u] = queue[u] /\ answer'[u] = answer[u] /\ shown'[u] = shown[u]
                           /\ confirmed'[u] = confirmed[u] /\ known'[u] = known[u]
    BY <1>2, <1>3 DEF TypeOK
  <2>2. \A u \in Tabs \ {t} : sent'[u] = sent[u]
    BY <1>2 DEF TypeOK
  <2>3. \A u \in Tabs \ {t} : /\ error'[u] = error[u] /\ conflict'[u] = conflict[u]
                           /\ superseded'[u] = superseded[u] /\ lost'[u] = lost[u]
    <3>1. \A f : \A u \in DOMAIN f \ {t} : \A x : [f EXCEPT ![t] = x][u] = f[u]
      OBVIOUS
    <3>2. DOMAIN error = Tabs /\ DOMAIN conflict = Tabs /\ DOMAIN superseded = Tabs /\ DOMAIN lost = Tabs
      BY DEF TypeOK
    <3> QED
      BY <3>1, <3>2 DEF SettledWith
  <2> QED
    BY <1>1, <2>1, <2>2, <2>3 DEF Still, NoNewMessage
<1>10. Grows
  BY <1>1 DEF Grows, TypeOK
<1>11. Forward
  BY <1>3 DEF Forward, TypeOK
<1> QED
  BY <1>7, <1>8, <1>9, <1>10, <1>11, OneTab

\* Applying an answer gives a tracker.
LEMMA AppliedType ==
    ASSUME NEW previous \in Tracker, NEW a \in Answer
    PROVE  Applied(previous, a) \in Tracker
<1>1. \A i \in Ids : previous[i] \in Record /\ a.recs[i] \in Record
  BY DEF Tracker, Answer
<1> QED
  BY <1>1, EmptyType DEF Applied, Tracker

\* An answered change settles with the tracker its answer leads to.
LEMMA SaveSettles ==
    ASSUME TypeOK, AllTabs, NEW t \in Tabs, SettleSaved(t) \/ SettleConflict(t)
    PROVE  TypeOK' /\ AllTabs' /\ Forward
<1>1. TabInv(t) /\ answer[t] \in Answer /\ confirmed[t] \in Tracker
      /\ answer[t].recs \in Tracker /\ answer[t].revision \in Nat
  BY DEF AllTabs, TypeOK, Answer
<1>2. answer[t].kind \in {"sparse", "full", "conflict"} /\ ~Idle(t) /\ queue[t] \in Seq(Change)
  BY DEF SettleSaved, SettleConflict, TypeOK
<1>3. \A f : \A x : f \in [Tabs -> BOOLEAN] => [f EXCEPT ![t] = x][t] = x
  OBVIOUS
<1>4. CASE SettleSaved(t)
  <2> DEFINE recs == Applied(confirmed[t], answer[t])
  <2>1. recs \in Tracker
    BY <1>1, AppliedType
  <2>2. answer[t].revision # 0 => /\ known[t] <= answer[t].revision
                                  /\ answer[t].revision <= Len(versions)
                                  /\ versions[answer[t].revision] = recs
    BY <1>1, <1>2, <1>4, CurrentType DEF SettleSaved, TabInv, AnswerIsTrue
  <2> HIDE DEF recs
  <2>3. /\ confirmed' = [confirmed EXCEPT ![t] = recs] /\ known' = [known EXCEPT ![t] = answer[t].revision]
        /\ SettleShown(t, recs) /\ Dequeue(t)
        /\ loaded' = [loaded EXCEPT ![t] = TRUE]
        /\ UNCHANGED <<serverVars, mount, refresh, refreshed, conflict, lost, faults>>
    BY <1>4 DEF SettleSaved, Confirm, recs
  <2>4. error' = [error EXCEPT ![t] = error'[t]] /\ error'[t] \in Notices
        /\ (Latest(t) => (conflict[t] \/ superseded[t] => error'[t] # "none"))
        /\ (~Latest(t) => error'[t] = error[t])
    BY <1>4 DEF SettleSaved, TypeOK, Notices
  <2>5. superseded' = [superseded EXCEPT ![t] = superseded'[t]] /\ superseded'[t] \in BOOLEAN
        /\ (~Latest(t) => superseded'[t] = superseded[t])
    BY <1>4 DEF SettleSaved, TypeOK
  <2>6. /\ conflict' = [conflict EXCEPT ![t] = conflict'[t]] /\ conflict'[t] \in BOOLEAN
        /\ lost' = [lost EXCEPT ![t] = lost'[t]] /\ lost'[t] \in BOOLEAN
    BY <2>3 DEF TypeOK
  <2>7. loaded' \in [Tabs -> BOOLEAN] /\ faults' \in 0 .. MaxFaults
    BY <2>3 DEF TypeOK
  <2>8. SettledWith(t, recs, answer[t].revision)
    BY <2>3, <2>4, <2>5, <2>6, <2>7 DEF SettledWith
  <2>9. Latest(t) <=> Idle(t)'
    <3>1. queue'[t] = Tail(queue[t]) /\ UNCHANGED <<net, edits>>
      BY <2>3 DEF Dequeue, serverVars, TypeOK
    <3> QED
      BY <1>1, <1>2, <3>1, QueueMovesUp DEF TabInv
  <2>10. LossIsNoted(t)'
    BY <1>1, <1>2, <2>3, <2>4, <2>5, <2>9 DEF TabInv, LossIsNoted
  <2> QED
    BY <1>1, <1>2, <2>1, <2>2, <2>8, <2>10, SettleKeeps
<1>5. CASE SettleConflict(t)
  <2>1. answer[t].revision # 0 => /\ known[t] <= answer[t].revision
                                  /\ answer[t].revision <= Len(versions)
                                  /\ versions[answer[t].revision] = answer[t].recs
    BY <1>1, <1>5, CurrentType DEF SettleConflict, TabInv, AnswerIsTrue
  <2>2. /\ confirmed' = [confirmed EXCEPT ![t] = answer[t].recs]
        /\ known' = [known EXCEPT ![t] = answer[t].revision]
        /\ SettleShown(t, answer[t].recs) /\ Dequeue(t)
        /\ loaded' = [loaded EXCEPT ![t] = TRUE]
        /\ UNCHANGED <<serverVars, mount, refresh, refreshed, faults>>
    BY <1>5 DEF SettleConflict, Confirm
  <2>3. error' = [error EXCEPT ![t] = error'[t]] /\ error'[t] = "conflict"
    BY <1>5 DEF SettleConflict, TypeOK
  <2>4. conflict' = [conflict EXCEPT ![t] = conflict'[t]] /\ conflict'[t] = TRUE
    BY <1>5 DEF SettleConflict, TypeOK
  <2>5. superseded' = [superseded EXCEPT ![t] = superseded'[t]] /\ superseded'[t] \in BOOLEAN
    BY <1>5 DEF SettleConflict, TypeOK
  <2>6. lost' = [lost EXCEPT ![t] = lost'[t]] /\ lost'[t] \in BOOLEAN
    BY <1>5 DEF SettleConflict, TypeOK
  <2>7. loaded' \in [Tabs -> BOOLEAN] /\ faults' \in 0 .. MaxFaults
    BY <2>2 DEF TypeOK
  <2>8. SettledWith(t, answer[t].recs, answer[t].revision)
    BY <2>2, <2>3, <2>4, <2>5, <2>6, <2>7 DEF SettledWith, Notices
  <2>9. LossIsNoted(t)'
    BY <2>3, <2>4 DEF LossIsNoted
  <2> QED
    BY <1>1, <1>2, <2>1, <2>8, <2>9, SettleKeeps
<1> QED
  BY <1>4, <1>5

\* A failed change settles with the tracker that was confirmed before.
LEMMA FailureSettles ==
    ASSUME TypeOK, AllTabs, NEW t \in Tabs, SettleFailed(t)
    PROVE  TypeOK' /\ AllTabs' /\ Forward
<1>1. TabInv(t) /\ confirmed[t] \in Tracker /\ known[t] \in Nat /\ ~Idle(t) /\ Len(versions) \in Nat
  BY DEF AllTabs, TypeOK, SettleFailed
<1>2. known[t] # 0 => known[t] <= Len(versions) /\ versions[known[t]] = confirmed[t]
  BY <1>1 DEF TabInv, KnownIsTrue
<1>3. /\ confirmed' = [confirmed EXCEPT ![t] = confirmed[t]] /\ known' = [known EXCEPT ![t] = known[t]]
      /\ loaded' \in [Tabs -> BOOLEAN] /\ conflict'[t] = conflict[t]
  BY DEF SettleFailed, readVars, TypeOK
<1>4. SettleShown(t, confirmed[t]) /\ Dequeue(t) /\ UNCHANGED <<serverVars, mount, refresh, refreshed>>
  BY DEF SettleFailed, RolledBack, DequeueFailed, readVars
<1>5. error' = [error EXCEPT ![t] = error'[t]] /\ error'[t] \in Notices
      /\ (Latest(t) => error'[t] # "none") /\ (~Latest(t) => error'[t] = error[t])
  BY DEF SettleFailed, TypeOK, Notices
<1>6. superseded' = [superseded EXCEPT ![t] = superseded'[t]] /\ superseded'[t] \in BOOLEAN
      /\ (~Latest(t) => superseded'[t])
  BY DEF SettleFailed, Superseded, TypeOK
<1>7. /\ conflict' = [conflict EXCEPT ![t] = conflict'[t]] /\ conflict'[t] \in BOOLEAN
      /\ lost' = [lost EXCEPT ![t] = lost'[t]] /\ lost'[t] \in BOOLEAN
  BY DEF SettleFailed, TypeOK
<1>8. faults' \in 0 .. MaxFaults
  BY TabAssumption DEF SettleFailed, Fault, TypeOK
<1>9. SettledWith(t, confirmed[t], known[t])
  BY <1>3, <1>4, <1>5, <1>6, <1>7, <1>8 DEF SettledWith
<1>10. Latest(t) <=> Idle(t)'
  <2>1. queue'[t] = Tail(queue[t]) /\ UNCHANGED <<net, edits>>
    BY <1>4 DEF Dequeue, serverVars, TypeOK
  <2> QED
    BY <1>1, <2>1, QueueMovesUp DEF TabInv
<1>11. LossIsNoted(t)'
  BY <1>1, <1>3, <1>5, <1>6, <1>10 DEF TabInv, LossIsNoted
<1> QED
  BY <1>1, <1>2, <1>9, <1>11, SettleKeeps

-----------------------------------------------------------------------------
(* Saves reach the server                                                    *)

\* The first change of a queue is sent with the revision the tab knows.
LEMMA SendKeeps ==
    ASSUME TypeOK, AllTabs, NEW t \in Tabs, SendWrite(t)
    PROVE  TypeOK' /\ AllTabs' /\ Forward
<1> DEFINE msg == [tab |-> t, change |-> Head(queue[t]), revision |-> known[t]]
<1>1. TabInv(t) /\ ~Idle(t) /\ queue[t] \in Seq(Change) /\ Len(queue[t]) \in Nat /\ known[t] \in Nat
  BY EditNumbers DEF AllTabs, TypeOK, SendWrite
<1>2. Head(queue[t]) = queue[t][1] /\ 1 \in 1 .. Len(queue[t]) /\ Head(queue[t]) \in Change
  BY <1>1 DEF Idle
<1>3. msg \in Message /\ msg.tab = t /\ msg.change = queue[t][1] /\ msg.revision = known[t]
  BY <1>1, <1>2 DEF Message
<1>4. sent' = [sent EXCEPT ![t] = TRUE] /\ net' = net \cup {msg}
      /\ UNCHANGED <<versions, shown, confirmed, known, queue, answer, version, edits, mount, refresh,
                     refreshed, loaded, error, conflict, superseded, lost, faults>>
  BY DEF SendWrite, trackerVars, readVars, noticeVars
<1> HIDE DEF msg
<1>5. sent' \in [Tabs -> BOOLEAN] /\ sent'[t] = TRUE /\ \A u \in Tabs \ {t} : sent'[u] = sent[u]
  BY <1>4 DEF TypeOK
<1>6. TypeOK'
  <2>1. net' \subseteq Message
    BY <1>3, <1>4 DEF TypeOK
  <2>2. \A u \in Tabs : (sent'[u] => queue'[u] # <<>>) /\ (answer'[u].kind # "none" => sent'[u])
    BY <1>1, <1>4, <1>5 DEF TypeOK, Idle
  <2> QED
    BY <1>4, <1>5, <2>1, <2>2 DEF TypeOK, Idle
<1>7. \A u \in Tabs \ {t} : Still(u) /\ NoNewMessage(u)
  BY <1>3, <1>4, <1>5 DEF Still, NoNewMessage
<1>8. Grows
  BY <1>4 DEF Grows, TypeOK
<1>9. EditsInOrder(t)'
  <2>1. \A k \in 1 .. Len(queue[t]) : queue[t][k].edit \in Nat
    BY EditNumbers
  <2>2. \A k \in 1 .. Len(queue[t]) : queue[t][1].edit < queue[t][k].edit \/ k = 1
    BY <1>1, <1>2 DEF TabInv, EditsInOrder
  <2>3. \A m \in net' : m.tab = t =>
           /\ m.change.edit <= edits
           /\ \A k \in 1 .. Len(queue[t]) :
                 m.change.edit < queue[t][k].edit \/ (k = 1 /\ m.revision = known[t])
    <3>1. ASSUME NEW m \in net, m.tab = t
          PROVE  /\ m.change.edit <= edits
                 /\ \A k \in 1 .. Len(queue[t]) :
                       m.change.edit < queue[t][k].edit \/ (k = 1 /\ m.revision = known[t])
      <4>1. EditsInOrder(t)
        BY <1>1 DEF TabInv
      <4> QED
        BY <3>1, <4>1 DEF EditsInOrder
    <3>2. queue[t][1].edit <= edits
      BY <1>1, <1>2 DEF TabInv, EditsInOrder
    <3> QED
      BY <1>3, <1>4, <2>2, <3>1, <3>2
  <2> QED
    BY <1>1, <1>4, <1>5, <2>3 DEF TabInv, EditsInOrder
<1>10. ReadsAreQuiet(t)' /\ ReadsAreTrue(t)'
  BY <1>1, <1>4 DEF TabInv, ReadsAreQuiet, ReadsAreTrue, StillFirst, SameVersion, Serves, Idle
<1>11. AnswerIsTrue(t)' /\ KnownIsTrue(t)'
  <2>1. Applied(confirmed[t], answer[t])' = Applied(confirmed[t], answer[t])
    BY <1>4 DEF Applied
  <2> QED
    BY <1>1, <1>4, <2>1 DEF TabInv, AnswerIsTrue, KnownIsTrue
<1>12. LossIsNoted(t)' /\ (Idle(t) => shown[t] = confirmed[t])'
  BY <1>1, <1>4 DEF TabInv, LossIsNoted, Idle
<1> QED
  BY <1>4, <1>6, <1>7, <1>8, <1>9, <1>10, <1>11, <1>12, OneTab, ForwardIfUnchanged DEF TabInv

\* An answer is true if it leads to a tracker the server holds by then.
TrueAnswer(m, a) ==
    a.revision # 0 =>
       /\ a.revision \in 1 .. Len(versions') /\ known[m.tab] <= a.revision
       /\ versions'[a.revision] = IF a.kind = "conflict" THEN a.recs ELSE Applied(confirmed[m.tab], a)

\* A true answer keeps the invariants, whether its tab still waits for it or not.
LEMMA ReplyKeeps ==
    ASSUME TypeOK, AllTabs, NEW m \in net, NEW a \in Answer, Reply(m, a), Grows,
           versions' \in Seq(Tracker), versions' # <<>>, edits' \in 0 .. MaxEdits,
           Awaited(m) => TrueAnswer(m, a)
    PROVE  TypeOK' /\ AllTabs' /\ Forward
<1>1. UNCHANGED <<shown, confirmed, known, queue, sent, version, mount, refresh, refreshed, loaded,
                  error, conflict, superseded, lost, faults>>
  BY DEF Reply, trackerVars, readVars, noticeVars
<1>2. net' = net \ {m} /\ m.tab \in Tabs
  BY EditNumbers DEF Reply
<1>3. \/ Awaited(m) /\ answer' = [answer EXCEPT ![m.tab] = a]
      \/ answer' = answer
  BY DEF Reply
<1>4. TypeOK'
  <2>1. answer' \in [Tabs -> Answer]
    BY <1>2, <1>3 DEF TypeOK
  <2>2. \A u \in Tabs : answer'[u].kind # "none" => sent[u]
    BY <1>2, <1>3 DEF TypeOK, Awaited
  <2> QED
    BY <1>1, <1>2, <2>1, <2>2 DEF TypeOK, Idle
<1>5. \A u \in Tabs \ {m.tab} : Still(u) /\ NoNewMessage(u)
  <2>1. \A u \in Tabs \ {m.tab} : answer'[u] = answer[u]
    BY <1>3 DEF TypeOK
  <2> QED
    BY <1>1, <1>2, <2>1 DEF Still, NoNewMessage
<1>6. TabInv(m.tab)'
  <2>1. CASE answer' = answer
    <3>1. Still(m.tab) /\ NoNewMessage(m.tab)
      BY <1>1, <1>2, <2>1 DEF Still, NoNewMessage
    <3> QED
      BY <1>2, <1>4, <3>1, TabStands DEF AllTabs
  <2>2. CASE Awaited(m) /\ answer' = [answer EXCEPT ![m.tab] = a]
    <3>1. StillBarAnswer(m.tab) /\ NoNewMessage(m.tab)
      BY <1>1, <1>2 DEF StillBarAnswer, NoNewMessage
    <3>2. RestInv(m.tab)'
      BY <1>2, <1>4, <3>1, RestStands DEF AllTabs
    <3>3. answer'[m.tab] = a /\ confirmed'[m.tab] = confirmed[m.tab] /\ known'[m.tab] = known[m.tab]
      BY <1>1, <1>2, <2>2 DEF TypeOK
    <3>4. Applied(confirmed[m.tab], answer[m.tab])' = Applied(confirmed[m.tab], a)
      BY <3>3 DEF Applied
    <3>5. AnswerIsTrue(m.tab)'
      BY <2>2, <3>3, <3>4 DEF AnswerIsTrue, TrueAnswer
    <3> QED
      BY <3>2, <3>5 DEF RestInv, TabInv
  <2> QED
    BY <1>3, <2>1, <2>2
<1> QED
  BY <1>1, <1>2, <1>4, <1>5, <1>6, OneTab, ForwardIfUnchanged

\* The server's trackers after it adds some.
LEMMA GrowsByAppend ==
    ASSUME TypeOK, NEW next \in Tracker
    PROVE  LET more == Append(versions, next)
           IN  /\ more \in Seq(Tracker) /\ more # <<>> /\ Len(more) = Len(versions) + 1
               /\ more[Len(versions) + 1] = next
               /\ \A k \in 1 .. Len(versions) : more[k] = versions[k]
<1>1. versions \in Seq(Tracker)
  BY DEF TypeOK
<1> QED
  BY <1>1

\* What a save makes of the tracker.
LEMMA ReconciledType ==
    ASSUME TypeOK, NEW c \in Change
    PROVE  Reconciled(c) \in Tracker
           /\ \A i \in Ids : /\ i \in c.up => Reconciled(c)[i] \in {c.recs[i], NoRecord}
                             /\ i \in c.up /\ i \notin c.del => Reconciled(c)[i] = c.recs[i]
                             /\ i \notin c.up /\ i \in c.del => Reconciled(c)[i] = NoRecord
                             /\ i \notin c.up /\ i \notin c.del => Reconciled(c)[i] = Current[i]
<1> DEFINE next == [i \in Ids |-> CASE i \in c.up -> c.recs[i]
                                    [] i \in c.del -> NoRecord
                                    [] OTHER -> Current[i]]
<1>1. next = Reconciled(c)
  BY DEF Reconciled
<1>2. \A i \in Ids : /\ i \in c.up => next[i] \in {c.recs[i], NoRecord}
                     /\ i \in c.up /\ i \notin c.del => next[i] = c.recs[i]
                     /\ i \notin c.up /\ i \in c.del => next[i] = NoRecord
                     /\ i \notin c.up /\ i \notin c.del => next[i] = Current[i]
  <2>1. \A i \in Ids : i \in c.up => next[i] = c.recs[i] \/ next[i] = NoRecord
    OBVIOUS
  <2>4. \A i \in Ids : i \in c.up /\ i \notin c.del => next[i] = c.recs[i]
    OBVIOUS
  <2>2. \A i \in Ids : i \notin c.up /\ i \in c.del => next[i] = NoRecord
    OBVIOUS
  <2>3. \A i \in Ids : i \notin c.up /\ i \notin c.del => next[i] = Current[i]
    OBVIOUS
  <2> QED
    BY <2>1, <2>2, <2>3, <2>4
<1>3. next = [i \in Ids |-> next[i]]
  OBVIOUS
<1> HIDE DEF next
<1>4. c.recs \in Tracker /\ Current \in Tracker /\ NoRecord \in Record
  BY CurrentType, EmptyType DEF Change
<1>5. \A i \in Ids : next[i] \in Record
  BY <1>2, <1>4 DEF Tracker
<1>6. next \in Tracker
  BY <1>3, <1>5 DEF Tracker
<1> QED
  BY <1>1, <1>2, <1>6

\* A full answer leads to its own tracker, whatever the tab held.
LEMMA FullAnswerIsWhole ==
    ASSUME NEW recs \in Tracker, NEW revision \in Nat, NEW previous \in Tracker
    PROVE  /\ FullAnswer(recs, revision) \in Answer
           /\ FullAnswer(recs, revision).kind = "full" /\ FullAnswer(recs, revision).revision = revision
           /\ FullAnswer(recs, revision).recs = recs
           /\ Applied(previous, FullAnswer(recs, revision)) = recs
<1> DEFINE a == FullAnswer(recs, revision)
<1>1. /\ a.kind = "full" /\ a.recs = recs /\ a.order = Held(recs) /\ a.changed = Ids /\ a.revision = revision
  BY DEF FullAnswer
<1>2. a \in Answer
  BY DEF FullAnswer, Answer, Held
<1>3. \A i \in Ids : Applied(previous, a)[i] = recs[i]
  BY <1>1 DEF Applied, Held
<1>4. Applied(previous, a) = [i \in Ids |-> Applied(previous, a)[i]] /\ recs = [i \in Ids |-> recs[i]]
  BY DEF Applied, Tracker
<1> QED
  BY <1>1, <1>2, <1>3, <1>4

\* An accepted save: a sparse answer goes only to a tab that holds the tracker
\* before it, and leads that tab to the tracker after it.
LEMMA AcceptKeeps ==
    ASSUME TypeOK, AllTabs, NEW m \in net, AcceptWrite(m)
    PROVE  TypeOK' /\ AllTabs' /\ Forward
<1> DEFINE next == Reconciled(m.change)
           a == IF KnowsTracker(m)
                THEN [kind |-> "sparse", order |-> Held(next), changed |-> m.change.up,
                      recs |-> [i \in Ids |-> IF i \in m.change.up THEN next[i] ELSE NoRecord],
                      revision |-> Len(versions) + 1]
                ELSE FullAnswer(next, Len(versions) + 1)
<1>1. versions' = Append(versions, next) /\ Reply(m, a) /\ edits' = edits
  BY DEF AcceptWrite
<1>2. m.tab \in Tabs /\ m.change \in Change /\ m.revision \in Nat
  BY EditNumbers
<1>3. next \in Tracker
  BY <1>2, ReconciledType
<1>4. Len(versions) \in Nat \ {0} /\ Current = versions[Len(versions)] /\ Current \in Tracker
      /\ confirmed[m.tab] \in Tracker /\ known[m.tab] \in Nat /\ TabInv(m.tab)
  BY <1>2, CurrentType DEF TypeOK, AllTabs
<1>5. /\ versions' \in Seq(Tracker) /\ versions' # <<>> /\ Len(versions') = Len(versions) + 1
      /\ versions'[Len(versions) + 1] = next
      /\ \A k \in 1 .. Len(versions) : versions'[k] = versions[k]
  BY <1>1, <1>3, GrowsByAppend
<1>6. Grows /\ edits' \in 0 .. MaxEdits
  BY <1>1, <1>4, <1>5, EditNumbers DEF Grows
<1>7. known[m.tab] <= Len(versions)
  BY <1>4 DEF TabInv, KnownIsTrue
<1>8. CASE KnowsTracker(m)
  <2>1. a \in Answer /\ a.kind = "sparse" /\ a.revision = Len(versions) + 1
        /\ a.order = Held(next) /\ a.changed = m.change.up
        /\ \A i \in m.change.up : a.recs[i] = next[i]
    <3>1. [i \in Ids |-> IF i \in m.change.up THEN next[i] ELSE NoRecord] \in Tracker
      BY <1>3, EmptyType DEF Tracker
    <3>2. Held(next) \subseteq Ids /\ m.change.up \subseteq Ids
      BY <1>2 DEF Held, Change
    <3> QED
      BY <1>4, <1>8, <3>1, <3>2 DEF Answer
  <2>2. ASSUME Awaited(m)
        PROVE  TrueAnswer(m, a)
    <3>1. m.change = queue[m.tab][1] /\ 1 \in 1 .. Len(queue[m.tab])
      BY <1>2, <2>2, EditNumbers DEF Awaited, Idle
    <3>2. m.revision = known[m.tab]
      <4>1. ~(m.change.edit < queue[m.tab][1].edit)
        BY <1>2, <3>1, EditNumbers
      <4> QED
        BY <1>4, <3>1, <4>1 DEF TabInv, EditsInOrder
    <3>3. confirmed[m.tab] = Current
      BY <1>4, <1>8, <3>2 DEF KnowsTracker, TabInv, KnownIsTrue
    <3>4. \A i \in Ids : Applied(confirmed[m.tab], a)[i] = next[i]
      <4>1. \A i \in Ids : i \notin Held(next) => next[i] = NoRecord
        BY DEF Held
      <4>2. \A i \in Ids : i \in Held(next) /\ i \notin m.change.up => next[i] = Current[i]
        BY <1>2, ReconciledType DEF Held
      <4>3. \A i \in Ids : Applied(confirmed[m.tab], a)[i] =
               IF i \notin Held(next) THEN NoRecord
               ELSE IF i \in m.change.up THEN a.recs[i] ELSE Current[i]
        BY <2>1, <3>3 DEF Applied
      <4> QED
        BY <2>1, <4>1, <4>2, <4>3
    <3>5. Applied(confirmed[m.tab], a) = next
      <4>1. Applied(confirmed[m.tab], a) = [i \in Ids |-> Applied(confirmed[m.tab], a)[i]]
            /\ next = [i \in Ids |-> next[i]]
        BY <1>3 DEF Applied, Tracker
      <4> QED
        BY <3>4, <4>1
    <3> QED
      BY <1>4, <1>5, <1>7, <2>1, <3>5 DEF TrueAnswer
  <2> HIDE DEF a
  <2> QED
    BY <1>1, <1>5, <1>6, <2>1, <2>2, ReplyKeeps
<1>9. CASE ~KnowsTracker(m)
  <2>1. a = FullAnswer(next, Len(versions) + 1)
    BY <1>9
  <2>2. a \in Answer /\ a.kind = "full" /\ a.revision = Len(versions) + 1
        /\ Applied(confirmed[m.tab], a) = next
    BY <1>3, <1>4, <2>1, FullAnswerIsWhole
  <2> HIDE DEF a
  <2>3. TrueAnswer(m, a)
    BY <1>4, <1>5, <1>7, <2>2 DEF TrueAnswer
  <2> QED
    BY <1>1, <1>5, <1>6, <2>2, <2>3, ReplyKeeps
<1> QED
  BY <1>8, <1>9

\* A refused save.
LEMMA RefuseKeeps ==
    ASSUME TypeOK, AllTabs, NEW m \in net, RefuseWrite(m)
    PROVE  TypeOK' /\ AllTabs' /\ Forward
<1> DEFINE a == [FullAnswer(Current, Len(versions)) EXCEPT !.kind = "conflict"]
<1>1. versions' = versions /\ edits' = edits /\ Reply(m, a)
  BY DEF RefuseWrite
<1>2. Len(versions) \in Nat \ {0} /\ Current = versions[Len(versions)] /\ Current \in Tracker
  BY CurrentType
<1>3. FullAnswer(Current, Len(versions)) \in Answer
      /\ FullAnswer(Current, Len(versions)).recs = Current
      /\ FullAnswer(Current, Len(versions)).revision = Len(versions)
  BY <1>2, FullAnswerIsWhole
<1>4. a \in Answer /\ a.kind = "conflict" /\ a.recs = Current /\ a.revision = Len(versions)
  BY <1>3 DEF Answer
<1> HIDE DEF a
<1>5. m.tab \in Tabs /\ TabInv(m.tab) /\ known[m.tab] <= Len(versions)
  BY <1>2, EditNumbers DEF AllTabs, TabInv, KnownIsTrue, TypeOK
<1>6. TrueAnswer(m, a)
  BY <1>1, <1>2, <1>4, <1>5 DEF TrueAnswer
<1>7. Grows /\ versions' \in Seq(Tracker) /\ versions' # <<>> /\ edits' \in 0 .. MaxEdits
  BY <1>1, <1>2, EditNumbers DEF Grows, TypeOK
<1> QED
  BY <1>1, <1>4, <1>6, <1>7, ReplyKeeps

-----------------------------------------------------------------------------
(* Other clients and other programs                                          *)

\* Another program changes edits and no revision.
LEMMA OutsideType ==
    ASSUME NEW recs \in Tracker, NEW more \in OutsideEdits(recs)
    PROVE  more \in Tracker /\ \A i \in Ids : more[i].rev = recs[i].rev
                                        /\ recs[i].edits \subseteq more[i].edits
                                        /\ more[i].edits \subseteq recs[i].edits \cup {Outside}
<1>1. Outside \in Edits
  BY TabAssumption DEF Outside, Edits
<1>2. CASE more = recs
  BY <1>2
<1>3. ASSUME NEW i \in Held(recs), more = [recs EXCEPT ![i].edits = @ \cup {Outside}]
      PROVE  more \in Tracker /\ \A j \in Ids : more[j].rev = recs[j].rev
                                          /\ recs[j].edits \subseteq more[j].edits
                                          /\ more[j].edits \subseteq recs[j].edits \cup {Outside}
  <2>1. i \in Ids /\ recs[i] \in Record
    BY DEF Held, Tracker
  <2>2. [recs[i] EXCEPT !.edits = @ \cup {Outside}] \in Record
    BY <1>1, <2>1 DEF Record
  <2>3. more = [recs EXCEPT ![i] = [recs[i] EXCEPT !.edits = @ \cup {Outside}]]
    BY <1>3
  <2>4. more \in Tracker
    BY <2>2, <2>3 DEF Tracker
  <2>5. \A j \in Ids : j # i => more[j] = recs[j]
    BY <2>3 DEF Tracker
  <2>6. more[i].rev = recs[i].rev /\ more[i].edits = recs[i].edits \cup {Outside}
    BY <2>1, <2>3 DEF Tracker, Record
  <2> QED
    BY <2>4, <2>5, <2>6
<1> QED
  BY <1>2, <1>3 DEF OutsideEdits

\* A save the server could not confirm.
LEMMA UnconfirmedKeeps ==
    ASSUME TypeOK, AllTabs, NEW m \in net, AcceptUnconfirmed(m)
    PROVE  TypeOK' /\ AllTabs' /\ Forward
<1> DEFINE next == Reconciled(m.change)
           a == FullAnswer(next, 0)
<1>1. PICK recs \in OutsideEdits(next) : versions' = versions \o <<next, recs>> /\ Reply(m, a)
  BY DEF AcceptUnconfirmed
<1>2. m.change \in Change
  BY EditNumbers
<1>3. next \in Tracker
  BY <1>2, ReconciledType
<1>4. recs \in Tracker
  BY <1>3, OutsideType
<1>5. a \in Answer /\ a.revision = 0
  BY <1>3, FullAnswerIsWhole
<1> HIDE DEF next, a
<1>6. versions' \in Seq(Tracker) /\ versions' # <<>> /\ Len(versions') = Len(versions) + 2
      /\ \A k \in 1 .. Len(versions) : versions'[k] = versions[k]
  <2>1. versions \in Seq(Tracker) /\ <<next, recs>> \in Seq(Tracker) /\ Len(<<next, recs>>) = 2
    BY <1>3, <1>4 DEF TypeOK
  <2>2. \A s, r \in Seq(Tracker) : /\ s \o r \in Seq(Tracker) /\ Len(s \o r) = Len(s) + Len(r)
                                  /\ \A k \in 1 .. Len(s) : (s \o r)[k] = s[k]
    OBVIOUS
  <2>3. versions' \in Seq(Tracker) /\ Len(versions') = Len(versions) + 2
        /\ \A k \in 1 .. Len(versions) : versions'[k] = versions[k]
    BY <1>1, <2>1, <2>2
  <2>4. Len(versions) \in Nat
    BY <2>1
  <2> QED
    BY <2>3, <2>4
<1>7. edits' = edits + 1 /\ edits < MaxEdits
  BY DEF AcceptUnconfirmed
<1>8. Grows /\ edits' \in 0 .. MaxEdits
  BY <1>6, <1>7, EditNumbers, CurrentType DEF Grows
<1> QED
  BY <1>1, <1>5, <1>6, <1>8, ReplyKeeps DEF TrueAnswer

\* Other clients and other programs change the tracker.
LEMMA OthersKeep ==
    ASSUME TypeOK, AllTabs, OutsideEdit \/ \E i \in Ids : SavedElsewhere(i)
    PROVE  TypeOK' /\ AllTabs' /\ Forward
<1>1. UNCHANGED <<net, shown, confirmed, known, queue, sent, answer, version, mount, refresh, refreshed,
                  loaded, error, conflict, superseded, lost, faults>>
      /\ edits' = edits + 1 /\ edits < MaxEdits
  BY DEF OutsideEdit, SavedElsewhere, trackerVars, readVars, noticeVars
<1>2. PICK next \in Tracker : versions' = Append(versions, next)
  <2>1. CASE OutsideEdit
    <3>1. PICK recs \in OutsideEdits(Current) : versions' = Append(versions, recs)
      BY <2>1 DEF OutsideEdit
    <3>2. recs \in Tracker
      BY CurrentType, OutsideType
    <3> QED
      BY <3>1, <3>2
  <2>2. ASSUME NEW i \in Ids, SavedElsewhere(i)
        PROVE  \E next \in Tracker : versions' = Append(versions, next)
    <3> DEFINE saved == [rev |-> NextRevision(Current[i].rev), edits |-> Current[i].edits \cup {edits + 1}]
    <3>1. PICK rec \in {NoRecord, saved} : versions' = Append(versions, [Current EXCEPT ![i] = rec])
      BY <2>2 DEF SavedElsewhere
    <3>2. Current \in Tracker /\ Current[i] \in Record
      BY CurrentType DEF Tracker
    <3>3. NextRevision(Current[i].rev) \in Nat /\ edits + 1 \in Edits
      BY <1>1, <3>2, EditNumbers DEF NextRevision, Record, Edits
    <3>4. saved \in Record
      BY <3>2, <3>3 DEF Record
    <3>5. [Current EXCEPT ![i] = rec] \in Tracker
      BY <3>1, <3>2, <3>4, EmptyType DEF Tracker
    <3> QED
      BY <3>1, <3>5
  <2> QED
    BY <2>1, <2>2
<1>3. /\ versions' \in Seq(Tracker) /\ versions' # <<>> /\ Len(versions') = Len(versions) + 1
      /\ \A k \in 1 .. Len(versions) : versions'[k] = versions[k]
  BY <1>2, GrowsByAppend
<1>4. edits' \in 0 .. MaxEdits /\ Grows
  BY <1>1, <1>3, EditNumbers, CurrentType DEF Grows
<1>5. TypeOK'
  BY <1>1, <1>3, <1>4 DEF TypeOK, Idle
<1>6. \A u \in Tabs : Still(u) /\ NoNewMessage(u)
  BY <1>1 DEF Still, NoNewMessage
<1>7. AllTabs'
  BY <1>4, <1>5, <1>6, TabStands DEF AllTabs
<1> QED
  BY <1>1, <1>5, <1>7, ForwardIfUnchanged

-----------------------------------------------------------------------------
(* The theorems                                                              *)

\* The first state.
LEMMA InitHolds ==
    ASSUME Init
    PROVE  TypeOK /\ AllTabs
<1>1. \A i \in Ids : (IF i \in Kept THEN [rev |-> 1, edits |-> {}] ELSE NoRecord) \in Record
  BY DEF Record, NoRecord
<1>2. versions \in Seq(Tracker) /\ Len(versions) = 1 /\ versions # <<>>
  <2>1. [i \in Ids |-> IF i \in Kept THEN [rev |-> 1, edits |-> {}] ELSE NoRecord] \in Tracker
    BY <1>1 DEF Tracker
  <2> QED
    BY <2>1 DEF Init
<1>3. \A t \in Tabs : /\ shown[t] = EmptyTracker /\ confirmed[t] = EmptyTracker /\ known[t] = 0
                      /\ queue[t] = <<>> /\ sent[t] = FALSE /\ answer[t] = NoAnswer
                      /\ mount[t] = MountRead /\ refresh[t] = NoRead /\ version[t] = 0
                      /\ refreshed[t] = FALSE /\ error[t] = "none"
                      /\ conflict[t] = FALSE /\ lost[t] = FALSE
  BY DEF Init
<1>4. /\ NoAnswer.kind = "none" /\ NoRead.phase = "none" /\ NoRead.version = 0
      /\ MountRead.asked = 0 /\ MountRead.phase = "asked"
  BY DEF NoAnswer, NoRead, MountRead
<1>5. TypeOK
  <2>1. /\ shown \in [Tabs -> Tracker] /\ confirmed \in [Tabs -> Tracker] /\ known \in [Tabs -> Nat]
        /\ answer \in [Tabs -> Answer] /\ mount \in [Tabs -> Read] /\ refresh \in [Tabs -> Read]
        /\ version \in [Tabs -> Nat] /\ error \in [Tabs -> Notices]
    BY EmptyType DEF Init, Notices
  <2>2. /\ sent \in [Tabs -> BOOLEAN] /\ refreshed \in [Tabs -> BOOLEAN] /\ loaded \in [Tabs -> BOOLEAN]
        /\ conflict \in [Tabs -> BOOLEAN] /\ superseded \in [Tabs -> BOOLEAN] /\ lost \in [Tabs -> BOOLEAN]
    BY DEF Init
  <2>3. queue \in [Tabs -> Seq(Change)]
    BY DEF Init
  <2>4. net \subseteq Message /\ edits \in 0 .. MaxEdits /\ faults \in 0 .. MaxFaults
    BY TabAssumption DEF Init
  <2> QED
    BY <1>2, <1>3, <1>4, <2>1, <2>2, <2>3, <2>4 DEF TypeOK
<1>6. ASSUME NEW t \in Tabs
      PROVE  TabInv(t)
  <2>1. EditsInOrder(t)
    BY <1>3 DEF EditsInOrder, Init
  <2>2. ReadsAreQuiet(t) /\ ReadsAreTrue(t)
    BY <1>3, <1>4 DEF ReadsAreQuiet, ReadsAreTrue, Idle
  <2>3. AnswerIsTrue(t) /\ KnownIsTrue(t) /\ LossIsNoted(t)
    BY <1>3, <1>4 DEF AnswerIsTrue, KnownIsTrue, LossIsNoted
  <2> QED
    BY <1>3, <2>1, <2>2, <2>3 DEF TabInv
<1> QED
  BY <1>5, <1>6 DEF AllTabs

\* A stuttering step.
LEMMA NothingHolds ==
    ASSUME TypeOK, AllTabs, UNCHANGED vars
    PROVE  TypeOK' /\ AllTabs' /\ Forward
<1>1. UNCHANGED <<versions, net, shown, confirmed, known, queue, sent, answer, version, edits, mount, refresh,
                  refreshed, loaded, error, conflict, superseded, lost, faults>>
  BY DEF vars, serverVars, trackerVars, writeVars, readVars, noticeVars
<1>2. TypeOK'
  BY <1>1 DEF TypeOK, Idle
<1>3. (\A u \in Tabs : Still(u) /\ NoNewMessage(u)) /\ Grows
  BY <1>1 DEF Still, NoNewMessage, Grows, TypeOK
<1> QED
  BY <1>1, <1>2, <1>3, TabStands, ForwardIfUnchanged DEF AllTabs

\* Every step.
LEMMA NextHolds ==
    ASSUME TypeOK, AllTabs, [Next]_vars
    PROVE  TypeOK' /\ AllTabs' /\ Forward
<1>1. ASSUME NEW t \in Tabs, SaveStep(t)
      PROVE  TypeOK' /\ AllTabs' /\ Forward
  BY <1>1, SendKeeps, AcceptKeeps, RefuseKeeps, SaveSettles DEF SaveStep, HandleSave
<1>2. ASSUME NEW t \in Tabs, RefreshStep(t)
      PROVE  TypeOK' /\ AllTabs' /\ Forward
  BY <1>2, RefreshKeeps, FinishKeeps DEF RefreshStep
<1>3. ASSUME NEW t \in Tabs, MountStep(t)
      PROVE  TypeOK' /\ AllTabs' /\ Forward
  BY <1>3, MountKeeps, FinishKeeps DEF MountStep
<1>4. ASSUME NEW t \in Tabs, User(t)
      PROVE  TypeOK' /\ AllTabs' /\ Forward
  BY <1>4, EditKeeps, RefreshKeeps DEF User
<1>5. CASE Environment
  <2>1. CASE OutsideEdit \/ \E i \in Ids : SavedElsewhere(i)
    BY <2>1, OthersKeep
  <2>2. ASSUME NEW m \in net, AcceptUnconfirmed(m) \/ LateSave(m)
        PROVE  TypeOK' /\ AllTabs' /\ Forward
    BY <2>2, UnconfirmedKeeps, AcceptKeeps, RefuseKeeps DEF LateSave, HandleSave
  <2>3. ASSUME NEW t \in Tabs, SettleFailed(t) \/ FailMount(t) \/ FailRefresh(t)
        PROVE  TypeOK' /\ AllTabs' /\ Forward
    BY <2>3, FailureSettles, MountKeeps, RefreshKeeps
  <2> QED
    BY <1>5, <2>1, <2>2, <2>3 DEF Environment
<1> QED
  BY <1>1, <1>2, <1>3, <1>4, <1>5, NothingHolds DEF Next

\* The inductive invariant.
LEMMA TabsHold == Spec => [](TypeOK /\ AllTabs)
<1>1. Init => TypeOK /\ AllTabs
  BY InitHolds
<1>2. (TypeOK /\ AllTabs) /\ [Next]_vars => (TypeOK /\ AllTabs)'
  BY NextHolds
<1> QED
  BY <1>1, <1>2, PTL DEF Spec

\* TypeOK is an invariant of every instance.
THEOREM TypeCorrect == Spec => []TypeOK
BY TabsHold, PTL

\* Whatever answers, failures and edits cross, a tab's saved tracker is the one
\* the server held at the revision the tab will name in its next request
\* (confirmedApplications and confirmedRevision in useApplications.ts).
THEOREM SavedTrackerIsTrue == Spec => []ConfirmedIsTrue
<1>1. AllTabs => ConfirmedIsTrue
  BY DEF AllTabs, TabInv, KnownIsTrue, ConfirmedIsTrue
<1> QED
  BY <1>1, TabsHold, PTL

\* A tab with no change waiting shows the saved tracker, whichever of its changes
\* failed (the rollback of persist).
THEOREM NothingPhantom == Spec => []NoPhantomEdit
<1>1. AllTabs => NoPhantomEdit
  BY DEF AllTabs, TabInv, NoPhantomEdit
<1> QED
  BY <1>1, TabsHold, PTL

\* A tab whose edit was dropped says so once its changes have settled, however
\* many later ones were saved (supersededFailure and conflictMessage), until an
\* automatic refresh clears the notice.
THEOREM LossesAreShown == Spec => []LossIsShown
<1>1. AllTabs => LossIsShown
  BY DEF AllTabs, TabInv, LossIsNoted, LossIsShown
<1> QED
  BY <1>1, TabsHold, PTL

\* No tab takes an older tracker for the saved one: no answer to a list request
\* overtakes a save of its tab or a newer request (persistVersion, readVersion).
THEOREM TabsNeverGoBack == Spec => NeverGoesBack
<1>1. TypeOK /\ AllTabs /\ [Next]_vars
        => [\A t \in Tabs : known[t] # 0 /\ known'[t] # 0 => known'[t] >= known[t]]_vars
  BY NextHolds DEF Forward
<1> QED
  BY <1>1, TabsHold, PTL DEF Spec, NeverGoesBack

-----------------------------------------------------------------------------
(* With a running clock a revision tells which edits a record contains       *)

\* Every change that may still be saved, and every copy of a record that the
\* server, a tab or a message on its way holds.
Queued(t) == {queue[t][k] : k \in 1 .. Len(queue[t])}
Changes == (UNION {Queued(t) : t \in Tabs}) \cup {m.change : m \in net}
Copies(i) ==
    UNION {{NoRecord}, {versions[k][i] : k \in 1 .. Len(versions)},
           {shown[t][i] : t \in Tabs}, {confirmed[t][i] : t \in Tabs},
           {mount[t].recs[i] : t \in Tabs}, {refresh[t].recs[i] : t \in Tabs},
           {answer[t].recs[i] : t \in Tabs}, {c.recs[i] : c \in Changes}}

Work(r) == r.edits \ {Outside}

\* Copies of one revision contain the same edits, and a change contains those of
\* the revision it was made from.
RevisionsTell ==
    \A i \in Ids :
       /\ \A r \in Copies(i) : r.rev <= edits + 1
       /\ \A r, s \in Copies(i) : r.rev = s.rev => Work(r) = Work(s)
       /\ \A c \in Changes : i \in Named(c) =>
             /\ c.base[i] <= edits + 1
             /\ \A r \in Copies(i) : r.rev = c.base[i] => Work(r) \subseteq c.recs[i].edits

\* Membership in Changes, before and after a step.
LEMMA ChangeCases ==
    /\ \A c : c \in Changes <=> \/ \E t \in Tabs : \E k \in 1 .. Len(queue[t]) : c = queue[t][k]
                                \/ \E m \in net : c = m.change
    /\ \A c : c \in Changes' <=> \/ \E t \in Tabs : \E k \in 1 .. Len(queue'[t]) : c = queue'[t][k]
                                 \/ \E m \in net' : c = m.change
<1>1. \A c : c \in Changes <=> \/ \E t \in Tabs : \E k \in 1 .. Len(queue[t]) : c = queue[t][k]
                               \/ \E m \in net : c = m.change
  <2>1. \A t \in Tabs : \A c : c \in Queued(t) <=> \E k \in 1 .. Len(queue[t]) : c = queue[t][k]
    BY DEF Queued
  <2>2. \A c : c \in UNION {Queued(t) : t \in Tabs} <=> \E t \in Tabs : c \in Queued(t)
    OBVIOUS
  <2>3. \A c : c \in {m.change : m \in net} <=> \E m \in net : c = m.change
    OBVIOUS
  <2>4. Changes = (UNION {Queued(t) : t \in Tabs}) \cup {m.change : m \in net}
    BY DEF Changes
  <2> QED
    BY <2>1, <2>2, <2>3, <2>4
<1>2. \A c : c \in Changes' <=> \/ \E t \in Tabs : \E k \in 1 .. Len(queue'[t]) : c = queue'[t][k]
                                \/ \E m \in net' : c = m.change
  <2>1. \A t \in Tabs : \A c : c \in Queued(t)' <=> \E k \in 1 .. Len(queue'[t]) : c = queue'[t][k]
    BY DEF Queued
  <2>2. \A c : c \in UNION {Queued(t)' : t \in Tabs} <=> \E t \in Tabs : c \in Queued(t)'
    OBVIOUS
  <2>3. \A c : c \in {m.change : m \in net'} <=> \E m \in net' : c = m.change
    OBVIOUS
  <2>4. Changes' = (UNION {Queued(t)' : t \in Tabs}) \cup {m.change : m \in net'}
    BY DEF Changes
  <2> QED
    BY <2>1, <2>2, <2>3, <2>4
<1> QED
  BY <1>1, <1>2

\* Membership in Copies, before and after a step.
LEMMA CopyCases ==
    ASSUME NEW i \in Ids
    PROVE  /\ \A r : r \in Copies(i) <=> \/ r = NoRecord
                                         \/ \E k \in 1 .. Len(versions) : r = versions[k][i]
                                         \/ \E t \in Tabs : \/ r = shown[t][i]
                                                            \/ r = confirmed[t][i]
                                                            \/ r = mount[t].recs[i]
                                                            \/ r = refresh[t].recs[i]
                                                            \/ r = answer[t].recs[i]
                                         \/ \E c \in Changes : r = c.recs[i]
           /\ \A r : r \in Copies(i)' <=> \/ r = NoRecord
                                          \/ \E k \in 1 .. Len(versions') : r = versions'[k][i]
                                          \/ \E t \in Tabs : \/ r = shown'[t][i]
                                                             \/ r = confirmed'[t][i]
                                                             \/ r = mount'[t].recs[i]
                                                             \/ r = refresh'[t].recs[i]
                                                             \/ r = answer'[t].recs[i]
                                          \/ \E c \in Changes' : r = c.recs[i]
<1>3. \A r : r \in Copies(i) <=> \/ r = NoRecord
                                 \/ \E k \in 1 .. Len(versions) : r = versions[k][i]
                                 \/ \E t \in Tabs : \/ r = shown[t][i]
                                                    \/ r = confirmed[t][i]
                                                    \/ r = mount[t].recs[i]
                                                    \/ r = refresh[t].recs[i]
                                                    \/ r = answer[t].recs[i]
                                 \/ \E c \in Changes : r = c.recs[i]
  BY DEF Copies
<1>4. \A r : r \in Copies(i)' <=> \/ r = NoRecord
                                  \/ \E k \in 1 .. Len(versions') : r = versions'[k][i]
                                  \/ \E t \in Tabs : \/ r = shown'[t][i]
                                                     \/ r = confirmed'[t][i]
                                                     \/ r = mount'[t].recs[i]
                                                     \/ r = refresh'[t].recs[i]
                                                     \/ r = answer'[t].recs[i]
                                  \/ \E c \in Changes' : r = c.recs[i]
  BY DEF Copies
<1> QED
  BY <1>3, <1>4

\* A copy whose revision and edits are those of one there was, or the new one of
\* this step.
Familiar(r, i) == \E s \in Copies(i) : r.rev = s.rev /\ Work(r) = Work(s)
Fresh(r, w) == r.rev = edits + 2 /\ edits' = edits + 1 /\ Work(r) = w
MadeFrom(c, i) == \E s \in Copies(i) : c.base[i] = s.rev /\ Work(s) \subseteq c.recs[i].edits

\* Every copy is familiar.
LEMMA CopiesAreFamiliar ==
    ASSUME NEW i \in Ids, NEW r \in Copies(i)
    PROVE  Familiar(r, i)
BY DEF Familiar

\* Copies are records and changes are changes.
LEMMA CopiesTyped ==
    ASSUME TypeOK, NEW i \in Ids
    PROVE  /\ \A r \in Copies(i) : r \in Record
           /\ \A c \in Changes : c \in Change
<1>1. \A c \in Changes : c \in Change
  BY ChangeCases, EditNumbers
<1>2. \A c \in Change : c.recs[i] \in Record
  BY DEF Change, Tracker
<1>3. \A k \in 1 .. Len(versions) : versions[k][i] \in Record
  <2>1. \A s \in Seq(Tracker) : \A k \in 1 .. Len(s) : s[k] \in Tracker
    OBVIOUS
  <2> QED
    BY <2>1 DEF TypeOK, Tracker
<1>4. \A t \in Tabs : /\ shown[t][i] \in Record /\ confirmed[t][i] \in Record
                      /\ mount[t].recs[i] \in Record /\ refresh[t].recs[i] \in Record
                      /\ answer[t].recs[i] \in Record
  <2>1. \A t \in Tabs : /\ shown[t] \in Tracker /\ confirmed[t] \in Tracker
                        /\ mount[t] \in Read /\ refresh[t] \in Read /\ answer[t] \in Answer
    BY DEF TypeOK
  <2>2. (\A r \in Read : r.recs \in Tracker) /\ (\A a \in Answer : a.recs \in Tracker)
    BY DEF Read, Answer
  <2>3. \A recs \in Tracker : recs[i] \in Record
    BY DEF Tracker
  <2> QED
    BY <2>1, <2>2, <2>3
<1> QED
  BY <1>1, <1>2, <1>3, <1>4, CopyCases, EmptyType

\* Revisions go on telling the edits if every copy of the next state is familiar
\* or the new one, and every new change was made from a copy.
LEMMA TellingStep ==
    ASSUME TypeOK, TypeOK', RevisionsTell, edits' >= edits, NEW fresh,
           \A i \in Ids : \A r \in Copies(i)' : Familiar(r, i) \/ Fresh(r, fresh[i]),
           \A c \in Changes' : c \in Changes \/ \A i \in Named(c) : MadeFrom(c, i)
    PROVE  RevisionsTell'
<1> SUFFICES ASSUME NEW i \in Ids
             PROVE  /\ \A r \in Copies(i)' : r.rev <= edits' + 1
                    /\ \A r, s \in Copies(i)' : r.rev = s.rev => Work(r) = Work(s)
                    /\ \A c \in Changes' : i \in Named(c) =>
                          /\ c.base[i] <= edits' + 1
                          /\ \A r \in Copies(i)' : r.rev = c.base[i] => Work(r) \subseteq c.recs[i].edits
  BY DEF RevisionsTell, Work, Named
<1>1. edits \in Nat /\ edits' \in Nat
  BY TabAssumption DEF TypeOK
<1>2. /\ \A r \in Copies(i) : r.rev <= edits + 1 /\ r.rev \in Nat
      /\ \A r, s \in Copies(i) : r.rev = s.rev => Work(r) = Work(s)
      /\ \A c \in Changes : i \in Named(c) =>
            /\ c.base[i] <= edits + 1 /\ c.base[i] \in Nat
            /\ \A r \in Copies(i) : r.rev = c.base[i] => Work(r) \subseteq c.recs[i].edits
  <2>1. \A r \in Copies(i) : r.rev \in Nat
    BY CopiesTyped DEF Record
  <2>2. \A c \in Changes : c.base[i] \in Nat
    BY CopiesTyped DEF Change
  <2> QED
    BY <2>1, <2>2 DEF RevisionsTell
<1>3. \A r \in Copies(i)' : Familiar(r, i) \/ Fresh(r, fresh[i])
  OBVIOUS
<1>4. ASSUME NEW r \in Copies(i)'
      PROVE  r.rev <= edits' + 1
  BY <1>1, <1>2, <1>3 DEF Familiar, Fresh
<1>5. ASSUME NEW r \in Copies(i)', NEW s \in Copies(i)', r.rev = s.rev
      PROVE  Work(r) = Work(s)
  BY <1>1, <1>2, <1>3, <1>5 DEF Familiar, Fresh
<1>6. ASSUME NEW c \in Changes', i \in Named(c)
      PROVE  /\ c.base[i] <= edits' + 1
             /\ \A r \in Copies(i)' : r.rev = c.base[i] => Work(r) \subseteq c.recs[i].edits
  <2>1. CASE c \in Changes
    BY <1>1, <1>2, <1>3, <1>6, <2>1 DEF Familiar, Fresh
  <2>2. CASE MadeFrom(c, i)
    BY <1>1, <1>2, <1>3, <2>2 DEF Familiar, Fresh, MadeFrom
  <2> QED
    BY <1>6, <2>1, <2>2
<1> QED
  BY <1>4, <1>5, <1>6

\* A step that makes no new copy and no new change.
LEMMA NothingNew ==
    ASSUME TypeOK, TypeOK', RevisionsTell, edits' >= edits,
           \A i \in Ids : \A k \in 1 .. Len(versions') : Familiar(versions'[k][i], i),
           \A i \in Ids : \A t \in Tabs :
              /\ Familiar(shown'[t][i], i) /\ Familiar(confirmed'[t][i], i)
              /\ Familiar(mount'[t].recs[i], i) /\ Familiar(refresh'[t].recs[i], i)
              /\ Familiar(answer'[t].recs[i], i),
           \A c \in Changes' : c \in Changes
    PROVE  RevisionsTell'
<1> DEFINE none == [i \in Ids |-> {}]
<1>1. ASSUME NEW i \in Ids, NEW r \in Copies(i)'
      PROVE  Familiar(r, i)
  <2>1. Familiar(NoRecord, i) /\ \A c \in Changes : Familiar(c.recs[i], i)
    BY CopyCases, CopiesAreFamiliar
  <2> QED
    BY <2>1, CopyCases
<1> QED
  BY <1>1, TellingStep

\* Everything held before a step is familiar.
LEMMA OldIsFamiliar ==
    ASSUME TypeOK, NEW i \in Ids
    PROVE  /\ Familiar(NoRecord, i) /\ Familiar(Current[i], i) /\ Familiar(EmptyTracker[i], i)
           /\ \A k \in 1 .. Len(versions) : Familiar(versions[k][i], i)
           /\ \A t \in Tabs : /\ Familiar(shown[t][i], i) /\ Familiar(confirmed[t][i], i)
                              /\ Familiar(mount[t].recs[i], i) /\ Familiar(refresh[t].recs[i], i)
                              /\ Familiar(answer[t].recs[i], i)
           /\ \A c \in Changes : Familiar(c.recs[i], i)
<1>1. EmptyTracker[i] = NoRecord
  BY DEF EmptyTracker
<1>2. Len(versions) \in 1 .. Len(versions) /\ Current = versions[Len(versions)]
  BY CurrentType
<1> QED
  BY <1>1, <1>2, CopyCases, CopiesAreFamiliar

\* A change that settles makes no new copy.
LEMMA SettlingTells ==
    ASSUME TypeOK, TypeOK', RevisionsTell, NEW t \in Tabs, NEW recs \in Tracker,
           \A i \in Ids : Familiar(recs[i], i),
           ~Idle(t), Dequeue(t), SettleShown(t, recs), UNCHANGED <<versions, net, mount, refresh>>,
           confirmed' = [confirmed EXCEPT ![t] = recs]
    PROVE  RevisionsTell'
<1>1. \A c \in Changes' : c \in Changes
  <2>1. queue' = [queue EXCEPT ![t] = Tail(queue[t])]
    BY DEF Dequeue
  <2>2. queue[t] \in Seq(Change) /\ queue[t] # <<>>
    BY EditNumbers DEF Idle
  <2>3. \A k \in 1 .. Len(queue'[t]) : k + 1 \in 1 .. Len(queue[t]) /\ queue'[t][k] = queue[t][k + 1]
    <3>1. \A s \in Seq(Change) : s # <<>> =>
             \A k \in 1 .. Len(Tail(s)) : k + 1 \in 1 .. Len(s) /\ Tail(s)[k] = s[k + 1]
      OBVIOUS
    <3>2. queue'[t] = Tail(queue[t])
      BY <2>1 DEF TypeOK
    <3> QED
      BY <2>2, <3>1, <3>2
  <2>4. \A u \in Tabs \ {t} : queue'[u] = queue[u]
    BY <2>1 DEF TypeOK
  <2>5. \A u \in Tabs : \A k \in 1 .. Len(queue'[u]) : \E j \in 1 .. Len(queue[u]) : queue'[u][k] = queue[u][j]
    BY <2>3, <2>4
  <2> QED
    BY <2>5, ChangeCases
<1>2. \A i \in Ids : \A u \in Tabs :
         /\ Familiar(shown'[u][i], i) /\ Familiar(confirmed'[u][i], i)
         /\ Familiar(mount'[u].recs[i], i) /\ Familiar(refresh'[u].recs[i], i)
         /\ Familiar(answer'[u].recs[i], i)
  <2> TAKE i \in Ids
  <2> TAKE u \in Tabs
  <2>1. shown'[u] \in {shown[u], recs} /\ confirmed'[u] \in {confirmed[u], recs}
    BY DEF SettleShown, TypeOK
  <2>2. answer'[u] \in {answer[u], NoAnswer} /\ NoAnswer.recs = EmptyTracker
    BY DEF Dequeue, NoAnswer, TypeOK
  <2> QED
    BY <2>1, <2>2, OldIsFamiliar
<1>3. edits' >= edits
  BY DEF Dequeue, TypeOK
<1>4. \A i \in Ids : \A k \in 1 .. Len(versions') : Familiar(versions'[k][i], i)
  BY OldIsFamiliar
<1> QED
  BY <1>1, <1>2, <1>3, <1>4, NothingNew

\* A change settles, saved, refused or failed.
LEMMA SettleTells ==
    ASSUME TypeOK, TypeOK', RevisionsTell, NEW t \in Tabs,
           SettleSaved(t) \/ SettleConflict(t) \/ SettleFailed(t)
    PROVE  RevisionsTell'
<1>1. ~Idle(t) /\ answer[t] \in Answer /\ answer[t].recs \in Tracker /\ confirmed[t] \in Tracker
  BY DEF SettleSaved, SettleConflict, SettleFailed, TypeOK, Answer
<1>2. \A i \in Ids : Familiar(answer[t].recs[i], i) /\ Familiar(confirmed[t][i], i) /\ Familiar(NoRecord, i)
  BY OldIsFamiliar
<1>3. CASE SettleSaved(t)
  <2> DEFINE recs == Applied(confirmed[t], answer[t])
  <2>1. recs \in Tracker
    BY <1>1, AppliedType
  <2>2. \A i \in Ids : recs[i] \in {NoRecord, answer[t].recs[i], confirmed[t][i]}
    BY DEF Applied
  <2>3. /\ confirmed' = [confirmed EXCEPT ![t] = recs] /\ SettleShown(t, recs) /\ Dequeue(t)
        /\ UNCHANGED <<versions, net, mount, refresh>>
    BY <1>3 DEF SettleSaved, Confirm, serverVars
  <2> HIDE DEF recs
  <2>4. \A i \in Ids : Familiar(recs[i], i)
    BY <1>2, <2>2
  <2> QED
    BY <1>1, <2>1, <2>3, <2>4, SettlingTells
<1>4. CASE SettleConflict(t)
  <2>1. /\ confirmed' = [confirmed EXCEPT ![t] = answer[t].recs] /\ SettleShown(t, answer[t].recs) /\ Dequeue(t)
        /\ UNCHANGED <<versions, net, mount, refresh>>
    BY <1>4 DEF SettleConflict, Confirm, serverVars
  <2> QED
    BY <1>1, <1>2, <2>1, SettlingTells
<1>5. CASE SettleFailed(t)
  <2>1. /\ confirmed' = [confirmed EXCEPT ![t] = confirmed[t]] /\ SettleShown(t, confirmed[t]) /\ Dequeue(t)
        /\ UNCHANGED <<versions, net, mount, refresh>>
    BY <1>5 DEF SettleFailed, RolledBack, DequeueFailed, serverVars, readVars, TypeOK
  <2> QED
    BY <1>1, <1>2, <2>1, SettlingTells
<1> QED
  BY <1>3, <1>4, <1>5

\* List requests only move copies.
LEMMA ReadsTell ==
    ASSUME TypeOK, TypeOK', RevisionsTell, NEW t \in Tabs,
           \/ RefreshStep(t) \/ MountStep(t) \/ Refresh(t) \/ AutoRefresh(t)
           \/ FailMount(t) \/ FailRefresh(t)
    PROVE  RevisionsTell'
<1>1. UNCHANGED <<versions, net, queue, answer, edits>>
  BY DEF RefreshStep, MountStep, Refresh, AutoRefresh, FailMount, FailRefresh, StartRefresh, AskRefresh,
         HandleRefresh, FinishRefresh, RepeatRefresh, HandleMount, FinishMount, DropMount,
         serverVars, writeVars
<1>2. NoRead.recs = EmptyTracker
  BY DEF NoRead
<1>3. \A r \in Read : Answered(r).recs \in {r.recs, Current}
  BY DEF Answered, Read
<1>4. \A u \in Tabs : mount'[u].recs \in {mount[u].recs, EmptyTracker, Current}
  <2>1. \/ mount' = mount \/ mount' = [mount EXCEPT ![t] = Answered(mount[t])]
        \/ mount' = [mount EXCEPT ![t] = NoRead]
    BY DEF RefreshStep, MountStep, Refresh, AutoRefresh, FailMount, FailRefresh, StartRefresh, AskRefresh,
           HandleRefresh, FinishRefresh, RepeatRefresh, HandleMount, FinishMount, DropMount
  <2>2. mount \in [Tabs -> Read]
    BY DEF TypeOK
  <2> QED
    BY <1>2, <1>3, <2>1, <2>2
<1>5. \A u \in Tabs : refresh'[u].recs \in {refresh[u].recs, EmptyTracker, Current}
  <2>1. refresh \in [Tabs -> Read]
    BY DEF TypeOK
  <2>2. \/ refresh' = refresh \/ refresh' = [refresh EXCEPT ![t] = Answered(refresh[t])]
        \/ refresh' = [refresh EXCEPT ![t] = NoRead]
        \/ \E auto : refresh' = [refresh EXCEPT ![t] = [NoRead EXCEPT !.phase = "drain", !.auto = auto]]
        \/ refresh' = [refresh EXCEPT ![t] = [refresh[t] EXCEPT !.phase = "asked", !.version = version[t],
                                                               !.asked = known[t]]]
    <3>1. CASE MountStep(t) \/ FailMount(t) \/ FailRefresh(t)
      BY <3>1 DEF MountStep, FailMount, FailRefresh, HandleMount, FinishMount, DropMount
    <3>2. CASE Refresh(t) \/ AutoRefresh(t) \/ RepeatRefresh(t)
      BY <3>2 DEF Refresh, AutoRefresh, StartRefresh, RepeatRefresh, Drained
    <3>3. CASE AskRefresh(t)
      BY <2>1, <3>3 DEF AskRefresh, Read
    <3>4. CASE HandleRefresh(t) \/ FinishRefresh(t)
      BY <3>4 DEF HandleRefresh, FinishRefresh
    <3> QED
      BY <3>1, <3>2, <3>3, <3>4 DEF RefreshStep
  <2>3. \A auto : [NoRead EXCEPT !.phase = "drain", !.auto = auto].recs = EmptyTracker
    BY DEF NoRead
  <2>4. [refresh[t] EXCEPT !.phase = "asked", !.version = version[t], !.asked = known[t]].recs = refresh[t].recs
    BY <2>1 DEF Read
  <2>5. refresh[t] \in Read
    BY <2>1
  <2>6. refresh'[t].recs \in {refresh[t].recs, EmptyTracker, Current}
    BY <1>2, <1>3, <2>1, <2>2, <2>3, <2>4, <2>5
  <2>7. \A u \in Tabs \ {t} : refresh'[u] = refresh[u]
    BY <2>1, <2>2
  <2> QED
    BY <2>6, <2>7
<1>6. \A u \in Tabs : /\ shown'[u] \in {shown[u], confirmed[u], mount[u].recs, refresh[u].recs}
                      /\ confirmed'[u] \in {confirmed[u], mount[u].recs, refresh[u].recs}
  <2>1. \/ UNCHANGED <<shown, confirmed>>
        \/ \E recs \in {confirmed[t], mount[t].recs, refresh[t].recs} :
              shown' = [shown EXCEPT ![t] = recs] /\ confirmed' = [confirmed EXCEPT ![t] = recs]
    BY DEF RefreshStep, MountStep, Refresh, AutoRefresh, FailMount, FailRefresh, StartRefresh, AskRefresh,
           HandleRefresh, FinishRefresh, RepeatRefresh, HandleMount, FinishMount, DropMount,
           trackerVars, Adopt, Confirm
  <2> QED
    BY <2>1 DEF TypeOK
<1>7. \A c \in Changes' : c \in Changes
  BY <1>1, ChangeCases
<1>8. \A i \in Ids : \A k \in 1 .. Len(versions') : Familiar(versions'[k][i], i)
  BY <1>1, OldIsFamiliar
<1>9. \A i \in Ids : \A u \in Tabs :
         /\ Familiar(shown'[u][i], i) /\ Familiar(confirmed'[u][i], i)
         /\ Familiar(mount'[u].recs[i], i) /\ Familiar(refresh'[u].recs[i], i)
         /\ Familiar(answer'[u].recs[i], i)
  BY <1>1, <1>4, <1>5, <1>6, OldIsFamiliar
<1>10. edits' >= edits
  BY <1>1 DEF TypeOK
<1> QED
  BY <1>7, <1>8, <1>9, <1>10, NothingNew

\* A change is sent as it was queued.
LEMMA SendTells ==
    ASSUME TypeOK, TypeOK', RevisionsTell, NEW t \in Tabs, SendWrite(t)
    PROVE  RevisionsTell'
<1>1. UNCHANGED <<versions, shown, confirmed, queue, answer, mount, refresh, edits>>
      /\ net' = net \cup {[tab |-> t, change |-> Head(queue[t]), revision |-> known[t]]}
  BY DEF SendWrite, trackerVars, readVars
<1>2. queue[t] # <<>> /\ queue[t] \in Seq(Change)
  BY EditNumbers DEF SendWrite, Idle
<1>3. Head(queue[t]) = queue[t][1] /\ 1 \in 1 .. Len(queue[t])
  BY <1>2
<1>4. \A c \in Changes' : c \in Changes
  <2>1. \A m \in net' : m \in net \/ m.change = queue[t][1]
    BY <1>1, <1>3
  <2> QED
    BY <1>1, <1>3, <2>1, ChangeCases
<1>5. edits' >= edits
  BY <1>1 DEF TypeOK
<1> QED
  BY <1>1, <1>4, <1>5, OldIsFamiliar, NothingNew

\* An answer of familiar records makes no new copy.
LEMMA ReplyTells ==
    ASSUME TypeOK, TypeOK', RevisionsTell, NEW m \in net, NEW a \in Answer, Reply(m, a), edits' >= edits,
           \A i \in Ids : Familiar(a.recs[i], i),
           \A i \in Ids : \A k \in 1 .. Len(versions') : Familiar(versions'[k][i], i)
    PROVE  RevisionsTell'
<1>1. UNCHANGED <<shown, confirmed, queue, mount, refresh>> /\ net' \subseteq net
  BY DEF Reply, trackerVars, readVars
<1>2. \A u \in Tabs : answer'[u] \in {answer[u], a}
  BY DEF Reply, TypeOK
<1>3. \A c \in Changes' : c \in Changes
  BY <1>1, ChangeCases
<1> QED
  BY <1>1, <1>2, <1>3, OldIsFamiliar, NothingNew

\* A save writes the records of its change.
LEMMA SavesTell ==
    ASSUME TypeOK, TypeOK', RevisionsTell, NEW m \in net,
           AcceptWrite(m) \/ RefuseWrite(m) \/ AcceptUnconfirmed(m)
    PROVE  RevisionsTell'
<1> DEFINE next == Reconciled(m.change)
<1>1. m.change \in Change /\ m.change \in Changes
  BY EditNumbers, ChangeCases
<1>2. next \in Tracker
  BY <1>1, ReconciledType
<1>3. \A i \in Ids : next[i] \in {m.change.recs[i], NoRecord, Current[i]}
  BY <1>1, ReconciledType
<1> HIDE DEF next
<1>4. \A i \in Ids : Familiar(next[i], i) /\ Familiar(NoRecord, i)
  BY <1>1, <1>3, OldIsFamiliar
<1>5. Len(versions) \in Nat \ {0} /\ Current \in Tracker /\ edits \in Nat
  BY CurrentType, EditNumbers
<1>6. \A recs \in Tracker : \A revision \in Nat :
         FullAnswer(recs, revision) \in Answer /\ FullAnswer(recs, revision).recs = recs
  BY <1>5, FullAnswerIsWhole
<1>7. CASE AcceptWrite(m)
  <2>1. versions' = Append(versions, next) /\ edits' = edits
    BY <1>7 DEF AcceptWrite, next
  <2>2. \A i \in Ids : \A k \in 1 .. Len(versions') : Familiar(versions'[k][i], i)
    <3>1. \A k \in 1 .. Len(versions') : versions'[k] = next \/ (k \in 1 .. Len(versions) /\ versions'[k] = versions[k])
      BY <1>2, <1>5, <2>1, GrowsByAppend
    <3> QED
      BY <1>4, <3>1, OldIsFamiliar
  <2> DEFINE sparse == [kind |-> "sparse", order |-> Held(next), changed |-> m.change.up,
                        recs |-> [i \in Ids |-> IF i \in m.change.up THEN next[i] ELSE NoRecord],
                        revision |-> Len(versions) + 1]
  <2>3. Reply(m, sparse) \/ Reply(m, FullAnswer(next, Len(versions) + 1))
    BY <1>7 DEF AcceptWrite, next
  <2>4. sparse \in Answer
    <3>1. [i \in Ids |-> IF i \in m.change.up THEN next[i] ELSE NoRecord] \in Tracker
      BY <1>2, EmptyType DEF Tracker
    <3>2. Held(next) \subseteq Ids /\ m.change.up \subseteq Ids
      BY <1>1 DEF Held, Change
    <3> QED
      BY <1>5, <3>1, <3>2 DEF Answer
  <2>5. \A i \in Ids : sparse.recs[i] \in {next[i], NoRecord}
    OBVIOUS
  <2> HIDE DEF sparse
  <2>6. \A i \in Ids : Familiar(sparse.recs[i], i)
    BY <1>4, <2>5
  <2>7. edits' >= edits /\ Len(versions) + 1 \in Nat
    BY <1>5, <2>1
  <2> QED
    BY <1>2, <1>4, <1>6, <2>2, <2>3, <2>4, <2>6, <2>7, ReplyTells
<1>8. CASE RefuseWrite(m)
  <2> DEFINE a == [FullAnswer(Current, Len(versions)) EXCEPT !.kind = "conflict"]
  <2>1. versions' = versions /\ edits' = edits /\ Reply(m, a)
    BY <1>8 DEF RefuseWrite
  <2>2. a \in Answer /\ a.recs = Current
    BY <1>5, <1>6 DEF Answer
  <2> HIDE DEF a
  <2> QED
    BY <1>5, <2>1, <2>2, OldIsFamiliar, ReplyTells
<1>9. CASE AcceptUnconfirmed(m)
  <2>1. PICK recs \in OutsideEdits(next) :
           versions' = versions \o <<next, recs>> /\ Reply(m, FullAnswer(next, 0))
    BY <1>9 DEF AcceptUnconfirmed, next
  <2>2. recs \in Tracker /\ \A i \in Ids : recs[i].rev = next[i].rev /\ Work(recs[i]) = Work(next[i])
    BY <1>2, OutsideType DEF Work
  <2>3. \A k \in 1 .. Len(versions') : \/ versions'[k] = next \/ versions'[k] = recs
                                       \/ (k \in 1 .. Len(versions) /\ versions'[k] = versions[k])
    <3>1. \A s, r \in Seq(Tracker) : \A k \in 1 .. Len(s \o r) :
             IF k <= Len(s) THEN (s \o r)[k] = s[k] ELSE (s \o r)[k] = r[k - Len(s)]
      OBVIOUS
    <3>2. versions \in Seq(Tracker) /\ <<next, recs>> \in Seq(Tracker) /\ Len(versions') = Len(versions) + 2
      BY <1>2, <2>1, <2>2 DEF TypeOK
    <3>3. \A k \in 1 .. Len(versions') : k > Len(versions) => k - Len(versions) \in 1 .. 2
      BY <1>5, <3>2
    <3>4. \A j \in 1 .. 2 : <<next, recs>>[j] = next \/ <<next, recs>>[j] = recs
      OBVIOUS
    <3>5. \A k \in 1 .. Len(versions') : \/ k \in 1 .. Len(versions) /\ versions'[k] = versions[k]
                                         \/ k > Len(versions) /\ versions'[k] = <<next, recs>>[k - Len(versions)]
      BY <1>5, <2>1, <3>1, <3>2
    <3> QED
      BY <3>3, <3>4, <3>5
  <2>4. \A i \in Ids : Familiar(recs[i], i)
    BY <1>4, <2>2 DEF Familiar
  <2>5. \A i \in Ids : \A k \in 1 .. Len(versions') : Familiar(versions'[k][i], i)
    BY <1>4, <2>3, <2>4, OldIsFamiliar
  <2>6. edits' >= edits
    BY <1>5, <1>9 DEF AcceptUnconfirmed
  <2> QED
    BY <1>2, <1>4, <1>6, <2>1, <2>5, <2>6, ReplyTells
<1> QED
  BY <1>7, <1>8, <1>9

\* Another client makes one new copy of a record, another program none.
LEMMA OthersTell ==
    ASSUME TypeOK, TypeOK', RevisionsTell, ClockRuns, OutsideEdit \/ \E i \in Ids : SavedElsewhere(i)
    PROVE  RevisionsTell'
<1>1. UNCHANGED <<net, shown, confirmed, queue, answer, mount, refresh>> /\ edits' = edits + 1 /\ edits \in Nat
  <2>1. UNCHANGED <<net, shown, confirmed, queue, answer, mount, refresh>> /\ edits' = edits + 1
    BY DEF OutsideEdit, SavedElsewhere, trackerVars, readVars
  <2> QED
    BY <2>1, EditNumbers
<1>2. \A c \in Changes' : c \in Changes
  BY <1>1, ChangeCases
<1> DEFINE fresh == [j \in Ids |-> (Current[j].edits \cup {edits + 1}) \ {Outside}]
<1>3. PICK next \in Tracker : /\ versions' = Append(versions, next)
                              /\ \A j \in Ids : Familiar(next[j], j) \/ Fresh(next[j], fresh[j])
  <2>1. CASE OutsideEdit
    <3>1. PICK recs \in OutsideEdits(Current) : versions' = Append(versions, recs)
      BY <2>1 DEF OutsideEdit
    <3>2. recs \in Tracker /\ \A j \in Ids : recs[j].rev = Current[j].rev /\ Work(recs[j]) = Work(Current[j])
      BY CurrentType, OutsideType DEF Work
    <3>3. \A j \in Ids : Familiar(recs[j], j)
      BY <3>2, OldIsFamiliar DEF Familiar
    <3> QED
      BY <3>1, <3>2, <3>3
  <2>2. ASSUME NEW i \in Ids, SavedElsewhere(i)
        PROVE  \E next \in Tracker : /\ versions' = Append(versions, next)
                                     /\ \A j \in Ids : Familiar(next[j], j) \/ Fresh(next[j], fresh[j])
    <3> DEFINE saved == [rev |-> NextRevision(Current[i].rev), edits |-> Current[i].edits \cup {edits + 1}]
    <3>1. PICK rec \in {NoRecord, saved} : versions' = Append(versions, [Current EXCEPT ![i] = rec])
      BY <2>2 DEF SavedElsewhere
    <3>2. Current \in Tracker /\ Current[i] \in Record
      BY CurrentType DEF Tracker
    <3>3. NextRevision(Current[i].rev) = edits + 2
      BY ClockRuns DEF NextRevision
    <3>4. edits + 1 \in Edits
      BY <2>2, EditNumbers DEF SavedElsewhere, Edits
    <3>5. saved \in Record
      BY <1>1, <3>2, <3>3, <3>4 DEF Record
    <3>6. [Current EXCEPT ![i] = rec] \in Tracker
      BY <3>1, <3>2, <3>5, EmptyType DEF Tracker
    <3>7. Fresh(saved, fresh[i])
      BY <1>1, <3>3 DEF Fresh, Work
    <3>8. \A j \in Ids : [Current EXCEPT ![i] = rec][j] = IF j = i THEN rec ELSE Current[j]
      BY <3>2 DEF Tracker
    <3> HIDE DEF saved, fresh
    <3>9. \A j \in Ids : Familiar([Current EXCEPT ![i] = rec][j], j) \/ Fresh([Current EXCEPT ![i] = rec][j], fresh[j])
      BY <3>1, <3>7, <3>8, OldIsFamiliar
    <3> QED
      BY <3>1, <3>6, <3>9
  <2> QED
    BY <2>1, <2>2
<1> HIDE DEF fresh
<1>4. \A i \in Ids : \A k \in 1 .. Len(versions') : Familiar(versions'[k][i], i) \/ Fresh(versions'[k][i], fresh[i])
  <2>1. \A k \in 1 .. Len(versions') : versions'[k] = next \/ (k \in 1 .. Len(versions) /\ versions'[k] = versions[k])
    BY <1>3, GrowsByAppend, CurrentType
  <2> QED
    BY <1>3, <2>1, OldIsFamiliar
<1>5. ASSUME NEW i \in Ids, NEW r \in Copies(i)'
      PROVE  Familiar(r, i) \/ Fresh(r, fresh[i])
  BY <1>1, <1>2, <1>4, CopyCases, OldIsFamiliar
<1> QED
  BY <1>1, <1>2, <1>5, TellingStep

\* A user's edit makes one new copy of each record it changes.
LEMMA EditsTell ==
    ASSUME TypeOK, TypeOK', RevisionsTell, ClockRuns, NEW t \in Tabs, Edit(t)
    PROVE  RevisionsTell'
<1>1. PICK up \in SUBSET Ids, del \in SUBSET Ids, recs \in Tracker : EditOf(t, up, del, recs)
  BY EditIsPersist
<1> DEFINE c == NewChange(t, up, del, recs)
           fresh == [i \in Ids |-> (shown[t][i].edits \cup {edits + 1}) \ {Outside}]
<1>2. Persist(t, up, del, recs) /\ up \cap del = {}
  BY <1>1 DEF EditOf
<1>3. /\ edits' = edits + 1 /\ edits \in Nat /\ c \in Change
      /\ queue'[t] = Append(queue[t], c) /\ \A u \in Tabs \ {t} : queue'[u] = queue[u]
      /\ \A u \in Tabs \ {t} : shown'[u] = shown[u]
      /\ \A i \in Ids : shown'[t][i] = recs[i] \/ shown'[t][i] = NoRecord \/ shown'[t][i] = shown[t][i]
      /\ UNCHANGED <<versions, net, confirmed, answer, mount, refresh>>
  <2>1. edits' = edits + 1 /\ edits \in Nat /\ c \in Change /\ queue'[t] = Append(queue[t], c)
    BY <1>2, PersistSteps
  <2>2. \A u \in Tabs \ {t} : queue'[u] = queue[u] /\ shown'[u] = shown[u]
    BY <1>2, PersistSteps
  <2>3. \A i \in Ids : shown'[t][i] = recs[i] \/ shown'[t][i] = NoRecord \/ shown'[t][i] = shown[t][i]
    <3>1. Persist(t, up, del, recs)
      BY <1>2
    <3> HIDE DEF fresh, c
    <3> QED
      BY <3>1, PersistSteps, Zenon
  <2>4. UNCHANGED <<versions, net, confirmed, answer, mount, refresh>>
    BY <1>2, PersistSteps
  <2> QED
    BY <2>1, <2>2, <2>3, <2>4
<1>4. \A i \in Ids : recs[i] \in {shown[t][i], NoRecord} \/ Fresh(recs[i], fresh[i])
  <2>1. \A i \in Ids : i \in up => recs[i] = [rev |-> edits + 2, edits |-> shown[t][i].edits \cup {edits + 1}]
    BY <1>1, ClockRuns DEF EditOf, NextRevision
  <2>2. ASSUME NEW i \in Ids, i \in up
        PROVE  Fresh(recs[i], fresh[i])
    <3>1. recs[i].rev = edits + 2 /\ recs[i].edits = shown[t][i].edits \cup {edits + 1}
      <4> DEFINE e == shown[t][i].edits \cup {edits + 1}
      <4>1. recs[i] = [rev |-> edits + 2, edits |-> e]
        BY <2>1, <2>2
      <4> HIDE DEF e, fresh, c
      <4>2. recs[i].rev = edits + 2 /\ recs[i].edits = e
        BY <4>1
      <4> QED
        BY <4>2 DEF e
    <3>2. fresh[i] = (shown[t][i].edits \cup {edits + 1}) \ {Outside}
      OBVIOUS
    <3> HIDE DEF fresh, c
    <3> QED
      BY <1>3, <3>1, <3>2 DEF Fresh, Work
  <2>3. \A i \in Ids : i \notin up => recs[i] \in {shown[t][i], NoRecord}
    BY <1>1 DEF EditOf
  <2> QED
    BY <2>2, <2>3
<1>5. \A i \in Named(c) : MadeFrom(c, i)
  <2>1. c.up = up /\ c.del = del /\ c.recs = recs
        /\ c.base = [i \in Ids |-> IF i \in up \cup del THEN shown[t][i].rev ELSE 0]
    BY DEF NewChange
  <2>2. \A i \in Ids : i \in up \cup del => shown[t][i].edits \subseteq recs[i].edits
    <3>1. \A i \in Ids : i \in up => recs[i].edits = shown[t][i].edits \cup {edits + 1}
      <4> SUFFICES ASSUME NEW i \in Ids, i \in up
                   PROVE  recs[i].edits = shown[t][i].edits \cup {edits + 1}
        OBVIOUS
      <4> DEFINE e == shown[t][i].edits \cup {edits + 1}
      <4>1. recs[i] = [rev |-> NextRevision(shown[t][i].rev), edits |-> e]
        BY <1>1 DEF EditOf
      <4> HIDE DEF e
      <4>2. recs[i].edits = e
        BY <4>1
      <4> QED
        BY <4>2 DEF e
    <3>2. \A i \in Ids : i \in del /\ i \notin up => recs[i] = shown[t][i]
      BY <1>1 DEF EditOf
    <3> QED
      BY <3>1, <3>2
  <2>3. \A i \in Ids : shown[t][i] \in Copies(i)
    BY CopyCases
  <2>4. Named(c) = up \cup del
    BY <2>1 DEF Named
  <2>5. \A i \in Ids : i \in up \cup del => c.base[i] = shown[t][i].rev
    BY <2>1
  <2> QED
    BY <2>1, <2>2, <2>3, <2>4, <2>5 DEF MadeFrom, Work
<1>6. c.recs = recs
  BY DEF NewChange
<1> HIDE DEF c, fresh
<1>7. \A d \in Changes' : d \in Changes \/ d = c
  <2>1. \A k \in 1 .. Len(queue'[t]) : queue'[t][k] = c \/ (k \in 1 .. Len(queue[t]) /\ queue'[t][k] = queue[t][k])
    <3>1. queue[t] \in Seq(Change)
      BY EditNumbers
    <3>2. \A s \in Seq(Change) : \A d \in Change : \A k \in 1 .. Len(Append(s, d)) :
             Append(s, d)[k] = d \/ (k \in 1 .. Len(s) /\ Append(s, d)[k] = s[k])
      OBVIOUS
    <3> QED
      BY <1>3, <3>1, <3>2
  <2> QED
    BY <1>3, <2>1, ChangeCases
<1>8. \A i \in Ids : Familiar(recs[i], i) \/ Fresh(recs[i], fresh[i])
  BY <1>4, OldIsFamiliar
<1>9. \A i \in Ids : \A u \in Tabs : Familiar(shown'[u][i], i) \/ Fresh(shown'[u][i], fresh[i])
  BY <1>3, <1>8, OldIsFamiliar
<1>10. ASSUME NEW i \in Ids, NEW r \in Copies(i)'
       PROVE  Familiar(r, i) \/ Fresh(r, fresh[i])
  <2>1. \A d \in Changes' : Familiar(d.recs[i], i) \/ Fresh(d.recs[i], fresh[i])
    BY <1>6, <1>7, <1>8, OldIsFamiliar
  <2> QED
    BY <1>3, <1>9, <2>1, CopyCases, OldIsFamiliar
<1>11. \A d \in Changes' : d \in Changes \/ \A i \in Named(d) : MadeFrom(d, i)
  BY <1>5, <1>7
<1> QED
  BY <1>3, <1>10, <1>11, TellingStep

\* The first state.
LEMMA InitTells ==
    ASSUME Init
    PROVE  RevisionsTell
<1>1. edits = 0 /\ \A c : c \notin Changes
  BY ChangeCases DEF Init
<1>2. ASSUME NEW i \in Ids, NEW r \in Copies(i)
      PROVE  r.rev <= 1 /\ r.edits = {}
  <2>1. EmptyTracker[i] = NoRecord /\ NoAnswer.recs = EmptyTracker /\ NoRead.recs = EmptyTracker
        /\ MountRead.recs = EmptyTracker /\ NoRecord.rev = 0 /\ NoRecord.edits = {}
    BY DEF EmptyTracker, NoAnswer, NoRead, MountRead, NoRecord
  <2>2. \A k \in 1 .. Len(versions) : versions[k][i] = [rev |-> 1, edits |-> {}] \/ versions[k][i] = NoRecord
    <3>1. Len(versions) = 1 /\ versions[1] = [j \in Ids |-> IF j \in Kept THEN [rev |-> 1, edits |-> {}] ELSE NoRecord]
      BY DEF Init
    <3>2. versions[1][i] = [rev |-> 1, edits |-> {}] \/ versions[1][i] = NoRecord
      BY <3>1
    <3> QED
      BY <3>1, <3>2
  <2>3. \A t \in Tabs : /\ shown[t] = EmptyTracker /\ confirmed[t] = EmptyTracker
                        /\ mount[t].recs = EmptyTracker /\ refresh[t].recs = EmptyTracker
                        /\ answer[t].recs = EmptyTracker
    BY <2>1 DEF Init
  <2>4. r = NoRecord \/ r = [rev |-> 1, edits |-> {}]
    BY <1>1, <2>1, <2>2, <2>3, CopyCases
  <2> QED
    BY <2>1, <2>4
<1> QED
  BY <1>1, <1>2 DEF RevisionsTell, Work

\* Every step.
LEMMA NextTells ==
    ASSUME TypeOK, TypeOK', RevisionsTell, ClockRuns, [Next]_vars
    PROVE  RevisionsTell'
<1>1. ASSUME NEW t \in Tabs, SaveStep(t)
      PROVE  RevisionsTell'
  BY <1>1, SendTells, SavesTell, SettleTells DEF SaveStep, HandleSave
<1>2. ASSUME NEW t \in Tabs, RefreshStep(t) \/ MountStep(t)
      PROVE  RevisionsTell'
  BY <1>2, ReadsTell
<1>3. ASSUME NEW t \in Tabs, User(t)
      PROVE  RevisionsTell'
  BY <1>3, EditsTell, ReadsTell DEF User
<1>4. CASE Environment
  <2>1. CASE OutsideEdit \/ \E i \in Ids : SavedElsewhere(i)
    BY <2>1, OthersTell
  <2>2. ASSUME NEW m \in net, AcceptUnconfirmed(m) \/ LateSave(m)
        PROVE  RevisionsTell'
    BY <2>2, SavesTell DEF LateSave, HandleSave
  <2>3. ASSUME NEW t \in Tabs, SettleFailed(t) \/ FailMount(t) \/ FailRefresh(t)
        PROVE  RevisionsTell'
    BY <2>3, SettleTells, ReadsTell
  <2> QED
    BY <1>4, <2>1, <2>2, <2>3 DEF Environment
<1>5. CASE UNCHANGED vars
  <2>1. UNCHANGED <<versions, net, shown, confirmed, queue, answer, mount, refresh, edits>>
    BY <1>5 DEF vars, serverVars, trackerVars, writeVars, readVars
  <2>2. \A c \in Changes' : c \in Changes
    BY <2>1, ChangeCases
  <2>3. edits' >= edits
    BY <2>1 DEF TypeOK
  <2> QED
    BY <2>1, <2>2, <2>3, OldIsFamiliar, NothingNew
<1> QED
  BY <1>1, <1>2, <1>3, <1>4, <1>5 DEF Next

\* The requests of one step that changes the tracker.
LEMMA SavedUnseen ==
    ASSUME TypeOK, RevisionsTell, [Next]_vars, NEW m \in net \ net', versions' # versions,
           NEW i \in Named(m.change)
    PROVE  Current[i].edits \ {Outside} \subseteq m.change.recs[i].edits
<1>1. AcceptWrite(m) \/ AcceptUnconfirmed(m)
  <2>1. ASSUME NEW t \in Tabs, SaveStep(t)
        PROVE  AcceptWrite(m) \/ AcceptUnconfirmed(m)
    <3>1. CASE SendWrite(t) \/ SettleSaved(t) \/ SettleConflict(t)
      BY <3>1 DEF SendWrite, SettleSaved, SettleConflict, serverVars
    <3>2. ASSUME NEW n \in net, AcceptWrite(n) \/ RefuseWrite(n)
          PROVE  AcceptWrite(m)
      BY <3>2 DEF AcceptWrite, RefuseWrite, Reply
    <3> QED
      BY <2>1, <3>1, <3>2 DEF SaveStep, HandleSave
  <2>2. ASSUME NEW t \in Tabs, RefreshStep(t) \/ MountStep(t) \/ User(t) \/ SettleFailed(t) \/ FailMount(t) \/ FailRefresh(t)
        PROVE  FALSE
    <3>1. CASE User(t)
      BY <3>1 DEF User, Edit, CreateApplication, Remove, UpdateApplications, MergeApplications, Persist,
                  Refresh, AutoRefresh, StartRefresh, serverVars
    <3>2. CASE RefreshStep(t) \/ MountStep(t)
      BY <3>2 DEF RefreshStep, MountStep, AskRefresh, HandleRefresh, FinishRefresh, RepeatRefresh,
                  HandleMount, FinishMount, DropMount, serverVars
    <3>3. CASE SettleFailed(t) \/ FailMount(t) \/ FailRefresh(t)
      BY <3>3 DEF SettleFailed, FailMount, FailRefresh, serverVars
    <3> QED
      BY <2>2, <3>1, <3>2, <3>3
  <2>3. ASSUME NEW n \in net, AcceptUnconfirmed(n) \/ AcceptWrite(n) \/ RefuseWrite(n)
        PROVE  AcceptWrite(m) \/ AcceptUnconfirmed(m)
    BY <2>3 DEF AcceptWrite, RefuseWrite, AcceptUnconfirmed, Reply
  <2>4. CASE OutsideEdit \/ \E j \in Ids : SavedElsewhere(j)
    BY <2>4 DEF OutsideEdit, SavedElsewhere
  <2>5. CASE UNCHANGED vars
    BY <2>5 DEF vars, serverVars
  <2>6. CASE Environment
    BY <2>2, <2>3, <2>4, <2>6 DEF Environment, LateSave, HandleSave
  <2> QED
    BY <2>1, <2>2, <2>5, <2>6 DEF Next
<1>2. m.change.base[i] = Current[i].rev /\ i \in Ids /\ m.change \in Changes
  BY <1>1, EditNumbers, ChangeCases DEF AcceptWrite, AcceptUnconfirmed, RevisionMatches, Named, Change
<1>3. Current[i] \in Copies(i)
  BY <1>2, CurrentType, CopyCases
<1> QED
  BY <1>2, <1>3 DEF RevisionsTell, Work

\* With a clock that runs, no save overwrites or deletes an edit its tab did not
\* have in front of it: a record's updatedAt tells which edits it contains
\* (nextApplicationRevision; the guards of reconcile.ts).
THEOREM UnseenIsKept == ClockRuns => (Spec => UnseenEditsAreKept)
<1> SUFFICES ASSUME ClockRuns
             PROVE  Spec => UnseenEditsAreKept
  OBVIOUS
<1>1. Init => RevisionsTell
  BY InitTells
<1>2. TypeOK /\ TypeOK' /\ RevisionsTell /\ [Next]_vars => RevisionsTell'
  BY NextTells
<1>3. TypeOK /\ RevisionsTell /\ [Next]_vars
        => [\A m \in net \ net' : versions' # versions =>
               \A i \in Named(m.change) : Current[i].edits \ {Outside} \subseteq m.change.recs[i].edits]_vars
  BY SavedUnseen
<1>4. Spec => []TypeOK
  BY TypeCorrect
<1> QED
  BY <1>1, <1>2, <1>3, <1>4, PTL DEF Spec, UnseenEditsAreKept


-----------------------------------------------------------------------------
(* What TabNeverStalls rests on: a tab that waits can always go on, and each   *)
(* step brings it nearer to the end of its edits and of its refresh.           *)

\* A save that was sent is on its way until its answer is there.
Carries(m, t) == m.tab = t /\ m.change = Head(queue[t])
OnItsWay(t) == sent[t] => (answer[t].kind = "none" <=> \E m \in net : Carries(m, t))
WayInv == \A t \in Tabs : OnItsWay(t)

\* The first edit of the queue can be sent, answered or settled.
SaveCanGoOn(t) ==
    /\ ~Idle(t)
    /\ sent[t] /\ answer[t].kind = "none" => \E m \in net : m.tab = t /\ Awaited(m)
RefreshCanGoOn(t) ==
    /\ refresh[t].phase # "none"
    /\ refresh[t].phase = "drain" => Idle(t)

\* How far the first edit of the queue is from being settled.
SaveLeft(t) == IF ~sent[t] THEN 3 ELSE IF answer[t].kind = "none" THEN 2 ELSE 1
SaveNearer(t) ==
    /\ ~Idle(t)
    /\ queue'[t] = Tail(queue[t]) \/ (queue'[t] = queue[t] /\ SaveLeft(t)' < SaveLeft(t))
SaveKept(t) ==
    /\ queue'[t] = queue[t] \/ \E c \in Change : queue'[t] = Append(queue[t], c)
    /\ SaveLeft(t)' <= SaveLeft(t)

\* How far a refresh is from its end; one that an edit has overtaken has to
\* drain the queue and ask again.
RefreshLeft(t) ==
    IF refresh[t].phase = "none" THEN 0
    ELSE IF refresh[t].phase = "drain" THEN 3
    ELSE IF refresh[t].phase = "asked" THEN IF SameVersion(t) THEN 2 ELSE 5
    ELSE IF SameVersion(t) THEN 1 ELSE 4

\* Each step of the saves, as the queues and the wire see it.
Untouched(t) ==
    /\ queue'[t] = queue[t] /\ sent'[t] = sent[t] /\ answer'[t] = answer[t]
    /\ \A m : sent[t] /\ Carries(m, t) => (m \in net <=> m \in net')
Queues(t) ==
    /\ sent'[t] = sent[t] /\ answer'[t] = answer[t] /\ net' = net
    /\ \E c \in Change : queue'[t] = Append(queue[t], c)
Sends(t) ==
    /\ ~Idle(t) /\ ~sent[t] /\ sent'[t] /\ queue'[t] = queue[t] /\ answer'[t] = answer[t]
    /\ \E m \in net' : Carries(m, t)
GetsAnswer(t) ==
    /\ ~Idle(t) /\ sent[t] /\ queue'[t] = queue[t] /\ sent'[t] = sent[t]
    /\ answer[t].kind = "none" /\ answer'[t].kind # "none"
    /\ \A m \in net' : ~Carries(m, t)
Settles(t) == ~Idle(t) /\ queue'[t] = Tail(queue[t]) /\ ~sent'[t]
Advances(t) == Sends(t) \/ GetsAnswer(t) \/ Settles(t)
SaveMove(t) == Untouched(t) \/ Queues(t) \/ Advances(t)

\* Only one request carries the first edit of a queue.
LEMMA OneRequest ==
    ASSUME TypeOK, NEW t \in Tabs, EditsInOrder(t), sent[t],
           NEW m \in net, NEW n \in net, Carries(m, t), Carries(n, t)
    PROVE  m = n
<1>1. queue[t] \in Seq(Change) /\ queue[t] # <<>> /\ m \in Message /\ n \in Message
  BY DEF TypeOK, Idle
<1>2. 1 \in 1 .. Len(queue[t]) /\ queue[t][1] = Head(queue[t]) /\ Head(queue[t]).edit \in Nat
  <2>1. 1 \in 1 .. Len(queue[t]) /\ queue[t][1] = Head(queue[t]) /\ queue[t][1] \in Change
    BY <1>1
  <2> QED BY <2>1 DEF Change, Edits
<1>3. m.change.edit = queue[t][1].edit /\ n.change.edit = queue[t][1].edit
  BY <1>2 DEF Carries
<1>4. ASSUME NEW x \in {m, n} PROVE x.revision = known[t]
  <2>1. x \in net /\ x.tab = t /\ x.change.edit = queue[t][1].edit
    BY <1>3, <1>4 DEF Carries
  <2>2. x.change.edit < queue[t][1].edit \/ x.revision = known[t]
    BY <1>2, <2>1 DEF EditsInOrder
  <2> QED BY <1>2, <2>1, <2>2
<1> QED BY <1>1, <1>4 DEF Carries, Message

LEMMA UnchangedIsUntouched ==
    ASSUME UNCHANGED <<queue, sent, answer, net>>, NEW t \in Tabs
    PROVE  Untouched(t)
BY DEF Untouched

\* Whatever the server makes of a save, it answers it.
LEMMA SaveIsAnswered ==
    ASSUME NEW m, AcceptWrite(m) \/ RefuseWrite(m) \/ AcceptUnconfirmed(m)
    PROVE  \E a : a.kind # "none" /\ Reply(m, a)
<1>1. CASE AcceptWrite(m)
  <2> DEFINE next == Reconciled(m.change)
             sparse == [kind |-> "sparse", order |-> Held(next), changed |-> m.change.up,
                        recs |-> [i \in Ids |-> IF i \in m.change.up THEN next[i] ELSE NoRecord],
                        revision |-> Len(versions) + 1]
             full == FullAnswer(next, Len(versions) + 1)
  <2>1. Reply(m, IF KnowsTracker(m) THEN sparse ELSE full)
    BY <1>1, Zenon DEF AcceptWrite
  <2>2. sparse.kind # "none" /\ full.kind # "none"
    BY DEF FullAnswer
  <2> HIDE DEF sparse, full
  <2> QED BY <2>1, <2>2
<1>2. CASE RefuseWrite(m)
  <2> DEFINE a == [FullAnswer(Current, Len(versions)) EXCEPT !.kind = "conflict"]
  <2>1. Reply(m, a) /\ a.kind # "none"
    BY <1>2 DEF RefuseWrite, FullAnswer
  <2> HIDE DEF a
  <2> QED BY <2>1
<1>3. CASE AcceptUnconfirmed(m)
  <2> DEFINE a == FullAnswer(Reconciled(m.change), 0)
  <2>1. Reply(m, a)
    BY <1>3, Zenon DEF AcceptUnconfirmed
  <2>2. a.kind # "none"
    BY DEF FullAnswer
  <2> HIDE DEF a
  <2> QED BY <2>1, <2>2
<1> QED BY <1>1, <1>2, <1>3

\* The server answers one request, which the tab may have given up on.
LEMMA ReplyMoves ==
    ASSUME TypeOK, NEW m \in net, NEW a, a.kind # "none", Reply(m, a), NEW t \in Tabs,
           OnItsWay(t), EditsInOrder(t)
    PROVE  /\ SaveMove(t)
           /\ m.tab = t /\ Awaited(m) => GetsAnswer(t)
<1>1. m.tab \in Tabs /\ answer \in [Tabs -> Answer] /\ UNCHANGED <<queue, sent>> /\ net' = net \ {m}
  BY DEF TypeOK, Message, Reply
<1>2. CASE m.tab = t /\ Awaited(m)
  <2>1. answer' = [answer EXCEPT ![t] = a] /\ ~Idle(t) /\ sent[t] /\ Carries(m, t)
    BY <1>2 DEF Reply, Awaited, Carries
  <2>2. answer[t].kind = "none"
    BY <2>1 DEF OnItsWay
  <2>3. \A n \in net' : ~Carries(n, t)
    BY <1>1, <2>1, OneRequest
  <2> QED BY <1>1, <2>1, <2>2, <2>3 DEF GetsAnswer, SaveMove, Advances
<1>3. CASE m.tab # t
  <2>1. answer'[t] = answer[t]
    BY <1>1, <1>3 DEF Reply
  <2> QED BY <1>1, <1>3, <2>1 DEF Untouched, SaveMove, Carries
<1>4. CASE m.tab = t /\ ~Awaited(m)
  <2>1. answer' = answer /\ (sent[t] => ~Carries(m, t))
    BY <1>4 DEF Reply, Awaited, Carries, TypeOK
  <2> QED BY <1>1, <1>4, <2>1 DEF SaveMove, Untouched
<1> QED BY <1>2, <1>3, <1>4

\* A tab settles its first edit.
LEMMA DequeueSettles ==
    ASSUME TypeOK, NEW u \in Tabs, Dequeue(u), ~Idle(u), net' = net, NEW t \in Tabs
    PROVE  /\ SaveMove(t)
           /\ t = u => Settles(t)
<1>1. /\ queue \in [Tabs -> Seq(Change)] /\ sent \in [Tabs -> BOOLEAN] /\ answer \in [Tabs -> Answer]
      /\ queue' = [queue EXCEPT ![u] = Tail(@)] /\ sent' = [sent EXCEPT ![u] = FALSE]
      /\ answer' = [answer EXCEPT ![u] = NoAnswer]
  BY DEF TypeOK, Dequeue
<1>2. CASE t = u
  BY <1>1, <1>2 DEF Settles, SaveMove, Advances
<1>3. CASE t # u
  BY <1>1, <1>3 DEF Untouched, SaveMove
<1> QED BY <1>2, <1>3

\* A step of a tab's saves brings that tab on, and leaves the others alone.
LEMMA SaveStepMoves ==
    ASSUME TypeOK, AllTabs, WayInv, NEW u \in Tabs, SaveStep(u), NEW t \in Tabs
    PROVE  /\ SaveMove(t)
           /\ t = u => Advances(t)
<1>1. CASE SendWrite(u)
  <2>1. queue \in [Tabs -> Seq(Change)] /\ sent \in [Tabs -> BOOLEAN]
    BY DEF TypeOK
  <2>2. /\ sent' = [sent EXCEPT ![u] = TRUE] /\ queue' = queue /\ answer' = answer
        /\ ~Idle(u) /\ ~sent[u]
    BY <1>1 DEF SendWrite
  <2>3. net' = net \cup {[tab |-> u, change |-> Head(queue[u]), revision |-> known[u]]}
    BY <1>1 DEF SendWrite
  <2>4. CASE t = u
    <3> DEFINE m == [tab |-> u, change |-> Head(queue[u]), revision |-> known[u]]
    <3>1. m \in net' /\ m.tab = u /\ m.change = Head(queue[u])
      BY <2>3
    <3> HIDE DEF m
    <3>2. Carries(m, t)
      BY <2>4, <3>1 DEF Carries
    <3>3. sent'[t]
      BY <2>1, <2>2, <2>4
    <3> QED BY <2>2, <2>4, <3>1, <3>2, <3>3 DEF Sends, SaveMove, Advances
  <2>5. CASE t # u
    <3>1. \A m : Carries(m, t) => (m \in net <=> m \in net')
      BY <2>3, <2>5 DEF Carries
    <3> QED BY <2>1, <2>2, <2>5, <3>1 DEF Untouched, SaveMove
  <2> QED BY <2>4, <2>5
<1>2. ASSUME NEW m \in net, m.tab = u, Awaited(m), HandleSave(m)
      PROVE  SaveMove(t) /\ (t = u => Advances(t))
  <2>1. \E a : a.kind # "none" /\ Reply(m, a)
    BY <1>2, SaveIsAnswered DEF HandleSave
  <2> QED BY <1>2, <2>1, ReplyMoves DEF WayInv, AllTabs, TabInv, Advances
<1>3. CASE SettleSaved(u) \/ SettleConflict(u)
  <2>1. answer[u].kind # "none" /\ Dequeue(u) /\ net' = net
    BY <1>3 DEF SettleSaved, SettleConflict, serverVars
  <2>2. ~Idle(u)
    BY <2>1 DEF TypeOK
  <2> QED BY <2>1, <2>2, DequeueSettles DEF Advances
<1> QED BY <1>1, <1>2, <1>3 DEF SaveStep

LEMMA EditMoves ==
    ASSUME TypeOK, NEW u \in Tabs, Edit(u), NEW t \in Tabs
    PROVE  SaveMove(t)
<1>1. PICK up \in SUBSET Ids, del \in SUBSET Ids, recs \in Tracker : EditOf(u, up, del, recs)
  BY EditIsPersist
<1>2. Persist(u, up, del, recs)
  BY <1>1 DEF EditOf
<1>3. /\ NewChange(u, up, del, recs) \in Change
      /\ queue'[u] = Append(queue[u], NewChange(u, up, del, recs))
  BY <1>2, PersistSteps
<1>4. UNCHANGED <<sent, answer, net>> /\ (t # u => queue'[t] = queue[t])
  BY <1>2 DEF Persist, serverVars, TypeOK
<1> QED BY <1>3, <1>4 DEF Queues, Untouched, SaveMove

LEMMA NextMoves ==
    ASSUME TypeOK, AllTabs, WayInv, [Next]_vars, NEW t \in Tabs
    PROVE  SaveMove(t)
<1>1. ASSUME NEW u \in Tabs, SaveStep(u) PROVE SaveMove(t)
  BY <1>1, SaveStepMoves
<1>2. ASSUME NEW u \in Tabs, \/ RefreshStep(u) \/ MountStep(u) \/ Refresh(u) \/ AutoRefresh(u)
                             \/ FailMount(u) \/ FailRefresh(u)
      PROVE  SaveMove(t)
  <2>1. UNCHANGED <<queue, sent, answer, net>>
    BY <1>2 DEF RefreshStep, AskRefresh, HandleRefresh, FinishRefresh, RepeatRefresh, MountStep,
       HandleMount, FinishMount, DropMount, Refresh, AutoRefresh, StartRefresh, FailMount, FailRefresh,
       writeVars, serverVars
  <2> QED BY <2>1, UnchangedIsUntouched DEF SaveMove
<1>3. ASSUME NEW u \in Tabs, Edit(u) PROVE SaveMove(t)
  BY <1>3, EditMoves
<1>4. CASE OutsideEdit \/ (\E i \in Ids : SavedElsewhere(i)) \/ UNCHANGED vars
  <2>1. UNCHANGED <<queue, sent, answer, net>>
    BY <1>4 DEF OutsideEdit, SavedElsewhere, vars, writeVars, serverVars
  <2> QED BY <2>1, UnchangedIsUntouched DEF SaveMove
<1>5. ASSUME NEW m \in net, AcceptUnconfirmed(m) \/ LateSave(m)
      PROVE  SaveMove(t)
  <2>1. \E a : a.kind # "none" /\ Reply(m, a)
    BY <1>5, SaveIsAnswered DEF LateSave, HandleSave
  <2> QED BY <2>1, ReplyMoves DEF WayInv, AllTabs, TabInv
<1>6. ASSUME NEW u \in Tabs, SettleFailed(u) PROVE SaveMove(t)
  <2>1. ~Idle(u) /\ Dequeue(u) /\ net' = net
    BY <1>6 DEF SettleFailed, DequeueFailed, serverVars
  <2> QED BY <2>1, DequeueSettles
<1> QED BY <1>1, <1>2, <1>3, <1>4, <1>5, <1>6 DEF Next, User, Environment

\* What each move does to a save on its way, and how near it brings its end.
LEMMA MovesKeepTheWay ==
    ASSUME TypeOK, TypeOK', NEW t \in Tabs, OnItsWay(t), SaveMove(t)
    PROVE  /\ OnItsWay(t)'
           /\ Advances(t) => SaveNearer(t)
           /\ ~Advances(t) => SaveKept(t)
<1>1. queue[t] \in Seq(Change) /\ (sent[t] => ~Idle(t)) /\ (answer[t].kind # "none" => sent[t])
  BY DEF TypeOK
<1>2. CASE Untouched(t)
  <2>1. OnItsWay(t)'
    BY <1>2 DEF Untouched, OnItsWay, Carries
  <2>2. SaveKept(t)
    BY <1>2 DEF Untouched, SaveKept, SaveLeft
  <2>3. ~Sends(t) /\ ~GetsAnswer(t)
    BY <1>2 DEF Untouched, Sends, GetsAnswer
  <2> QED BY <2>1, <2>2, <2>3 DEF Advances, Settles, SaveNearer
<1>3. CASE Queues(t)
  <2>1. sent[t] => Head(queue'[t]) = Head(queue[t])
    BY <1>1, <1>3 DEF Queues, Idle
  <2>2. OnItsWay(t)'
    BY <1>3, <2>1 DEF Queues, OnItsWay, Carries
  <2>3. SaveKept(t)
    BY <1>3 DEF Queues, SaveKept, SaveLeft
  <2>4. ~Sends(t) /\ ~GetsAnswer(t)
    BY <1>3 DEF Queues, Sends, GetsAnswer
  <2> QED BY <2>2, <2>3, <2>4 DEF Advances, Settles, SaveNearer
<1>4. CASE Sends(t)
  <2>1. answer[t].kind = "none"
    BY <1>1, <1>4 DEF Sends
  <2>2. OnItsWay(t)'
    BY <1>4, <2>1 DEF Sends, OnItsWay, Carries
  <2>3. SaveNearer(t)
    BY <1>4, <2>1 DEF Sends, SaveNearer, SaveLeft
  <2> QED BY <1>4, <2>2, <2>3 DEF Advances
<1>5. CASE GetsAnswer(t)
  <2>1. OnItsWay(t)'
    BY <1>5 DEF GetsAnswer, OnItsWay, Carries
  <2>2. SaveNearer(t)
    BY <1>5 DEF GetsAnswer, SaveNearer, SaveLeft
  <2> QED BY <1>5, <2>1, <2>2 DEF Advances
<1>6. CASE Settles(t)
  BY <1>6 DEF Settles, OnItsWay, SaveNearer, Advances
<1> QED BY <1>2, <1>3, <1>4, <1>5, <1>6 DEF SaveMove, Advances

LEMMA NextKeepsTheWay ==
    ASSUME TypeOK, TypeOK', AllTabs, WayInv, [Next]_vars
    PROVE  WayInv'
BY NextMoves, MovesKeepTheWay DEF WayInv

LEMMA WayHolds == Spec => []WayInv
<1>1. Init => WayInv
  BY DEF Init, WayInv, OnItsWay
<1>2. Spec => [](TypeOK /\ AllTabs)
  BY TabsHold
<1>3. TypeOK /\ TypeOK' /\ AllTabs /\ WayInv /\ [Next]_vars => WayInv'
  BY NextKeepsTheWay
<1> QED BY <1>1, <1>2, <1>3, PTL DEF Spec

\* A tab that waits is never stuck: the first of its edits can be sent, is on its
\* way to the server or has an answer to settle with, and its refresh waits for
\* nothing but those edits (persistQueue, refreshInFlight).
NoTabIsStuck ==
    \A t \in Tabs : /\ ~Idle(t) => SaveCanGoOn(t)
                    /\ refresh[t].phase # "none" => RefreshCanGoOn(t) \/ SaveCanGoOn(t)
THEOREM TabsAreNotStuck == Spec => []NoTabIsStuck
<1>1. TypeOK /\ WayInv => NoTabIsStuck
  <2> SUFFICES ASSUME TypeOK, WayInv, NEW t \in Tabs
               PROVE  /\ ~Idle(t) => SaveCanGoOn(t)
                      /\ refresh[t].phase # "none" => RefreshCanGoOn(t) \/ SaveCanGoOn(t)
    BY DEF NoTabIsStuck
  <2>1. ~Idle(t) => SaveCanGoOn(t)
    BY DEF WayInv, OnItsWay, SaveCanGoOn, Carries, Awaited
  <2> QED BY <2>1 DEF RefreshCanGoOn
<1>2. Spec => []TypeOK
  BY TypeCorrect
<1>3. Spec => []WayInv
  BY WayHolds
<1> QED BY <1>1, <1>2, <1>3, PTL

\* Each step of a tab's saves brings its first edit nearer to its end or takes it
\* off the queue, and no other step, of whatever tab, puts it back: an edit needs
\* at most three steps once it is the first.
SavesAdvance ==
    \A t \in Tabs : /\ SaveStep(t) => SaveNearer(t)
                    /\ SaveNearer(t) \/ SaveKept(t)
THEOREM SavesComeNearer == Spec => [][SavesAdvance]_vars
<1>1. TypeOK /\ TypeOK' /\ AllTabs /\ WayInv /\ [Next]_vars => SavesAdvance
  BY NextMoves, SaveStepMoves, MovesKeepTheWay DEF SavesAdvance, WayInv
<1>2. Spec => [](TypeOK /\ AllTabs)
  BY TabsHold
<1>3. Spec => []WayInv
  BY WayHolds
<1> QED BY <1>1, <1>2, <1>3, PTL DEF Spec

\* Each step of a refresh brings it nearer to its end, and only an edit made in
\* its tab sets it back: it ends within five steps of the last edit's settling.
RefreshesAdvance ==
    \A t \in Tabs :
        /\ RefreshStep(t) => RefreshLeft(t)' < RefreshLeft(t)
        /\ RefreshLeft(t)' > RefreshLeft(t) => \/ version'[t] # version[t]
                                               \/ refresh[t].phase = "none"
THEOREM RefreshesComeNearer == Spec => [][RefreshesAdvance]_vars
<1>1. ASSUME TypeOK, [Next]_vars, NEW t \in Tabs
      PROVE  /\ RefreshStep(t) => RefreshLeft(t)' < RefreshLeft(t)
             /\ RefreshLeft(t)' > RefreshLeft(t) => \/ version'[t] # version[t]
                                                    \/ refresh[t].phase = "none"
  <2>1. refresh \in [Tabs -> Read] /\ version \in [Tabs -> Nat]
    BY <1>1 DEF TypeOK
  <2>2. ASSUME RefreshStep(t)
        PROVE  RefreshLeft(t)' < RefreshLeft(t)
    <3>1. CASE AskRefresh(t)
      BY <2>1, <3>1 DEF AskRefresh, RefreshLeft, SameVersion, writeVars, Read
    <3>2. CASE HandleRefresh(t)
      <4>1. version' = version /\ refresh[t].phase = "asked" /\ refresh' = [refresh EXCEPT ![t] = Answered(refresh[t])]
        BY <3>2 DEF HandleRefresh, writeVars
      <4>2. Answered(refresh[t]).phase = "answered" /\ Answered(refresh[t]).version = refresh[t].version
        BY <2>1 DEF Answered, Read
      <4> QED BY <2>1, <4>1, <4>2 DEF RefreshLeft, SameVersion
    <3>3. CASE FinishRefresh(t)
      BY <2>1, <3>3 DEF FinishRefresh, RefreshLeft, NoRead, SameVersion
    <3>4. CASE RepeatRefresh(t)
      BY <2>1, <3>4 DEF RepeatRefresh, Drained, RefreshLeft, NoRead, SameVersion
    <3> QED BY <2>2, <3>1, <3>2, <3>3, <3>4 DEF RefreshStep
  <2>3. ASSUME version'[t] = version[t], refresh[t].phase # "none", ~RefreshStep(t)
        PROVE  RefreshLeft(t)' <= RefreshLeft(t)
    <3>1. refresh'[t] = refresh[t] \/ refresh'[t].phase = "none"
      <4>1. ASSUME NEW u \in Tabs, RefreshStep(u) \/ StartRefresh(u, TRUE) \/ StartRefresh(u, FALSE) \/ FailRefresh(u)
            PROVE  refresh'[t] = refresh[t] \/ refresh'[t].phase = "none"
        <5>2. CASE u # t
          BY <2>1, <4>1, <5>2 DEF RefreshStep, AskRefresh, HandleRefresh, FinishRefresh, RepeatRefresh,
             Drained, StartRefresh, FailRefresh
        <5>3. CASE u = t
          BY <2>1, <2>3, <4>1, <5>3 DEF StartRefresh, FailRefresh, NoRead
        <5> QED BY <5>2, <5>3
      <4>2. ASSUME NEW u \in Tabs, SaveStep(u) \/ MountStep(u) \/ Edit(u) \/ SettleFailed(u) \/ FailMount(u)
            PROVE  refresh' = refresh
        BY <4>2 DEF SaveStep, SendWrite, HandleSave, AcceptWrite, RefuseWrite, Reply, SettleSaved,
           SettleConflict, MountStep, HandleMount, FinishMount, DropMount, Edit, CreateApplication,
           UpdateApplications, Remove, MergeApplications, Persist, SettleFailed, FailMount, readVars
      <4>3. ASSUME NEW m \in net, AcceptUnconfirmed(m) \/ LateSave(m)
            PROVE  refresh' = refresh
        BY <4>3 DEF AcceptUnconfirmed, LateSave, HandleSave, AcceptWrite, RefuseWrite, Reply, readVars
      <4>4. CASE OutsideEdit \/ (\E i \in Ids : SavedElsewhere(i)) \/ UNCHANGED vars
        BY <4>4 DEF OutsideEdit, SavedElsewhere, vars, readVars
      <4> QED BY <1>1, <4>1, <4>2, <4>3, <4>4 DEF Next, User, Refresh, AutoRefresh, Environment
    <3> QED BY <2>3, <3>1 DEF RefreshLeft, SameVersion
  <2>4. RefreshLeft(t) \in Nat /\ RefreshLeft(t)' \in Nat
    BY DEF RefreshLeft
  <2> QED BY <2>2, <2>3, <2>4
<1>2. TypeOK /\ [Next]_vars => RefreshesAdvance
  BY <1>1 DEF RefreshesAdvance
<1>3. Spec => []TypeOK
  BY TypeCorrect
<1> QED BY <1>2, <1>3, PTL DEF Spec
===============================================================================
