------------------------ MODULE ExtensionInbox_proofs ------------------------
(***************************************************************************)
(* Proofs about ExtensionInbox, for every number of tabs, postings, faults  *)
(* and moves and every size of the queue.                                   *)
(***************************************************************************)
EXTENDS ExtensionInbox, FiniteSetTheorems, WellFoundedInduction, TLAPS

-----------------------------------------------------------------------------
(* The strengthening: what is known of every tab, of the queue and of the    *)
(* preparation under way.                                                    *)

Awake(tb) ==
    /\ tb.preparing => tb.timer \/ tb.call # "none"
    /\ tb.call = "importing" => ~tb.preparing
TabsInv ==
    /\ tab \in [Tabs -> Tab]
    /\ \A t \in Tabs : Awake(tab[t])

Unique(box) == \A e, f \in box : e.id = f.id => e = f
QueueInv ==
    /\ inbox \in SUBSET Entry /\ Unique(inbox)
    /\ arrived \in 0 .. MaxImports
    /\ \A e \in inbox : e.id <= arrived

Preparing(box) == \E e \in box : e.status = "preparing"
RunningInv ==
    /\ running = {} \/ \E i \in Imports : running = {i}
    /\ Preparing(inbox) => running # {}

RestInv ==
    /\ faults \in 0 .. MaxFaults /\ moves \in 0 .. MaxMoves
    /\ given \in [Imports -> Seq(0 .. MaxImports)]

Inv == TabsInv /\ QueueInv /\ RunningInv /\ RestInv

\* What PreparingIsKept says of a step.
KeepStep ==
    \A e \in inbox : e.status = "preparing" /\ ~e.expired
        => (inbox' = {} /\ running' = {}) \/ \E f \in inbox' : f.id = e.id

-----------------------------------------------------------------------------
(* The queue *)

LEMMA OldestIsOne ==
    ASSUME NEW S \in SUBSET Entry, S # {}
    PROVE  Oldest(S) \in S
<1> DEFINE T == {e.id : e \in S}
           R == OpToRel(<, Nat)
<1>1. T \subseteq Nat /\ T # {}
  BY DEF Entry, Imports
<1>2. IsWellFoundedOn(R, Nat)
  BY NatLessThanWellFounded
<1>3. \E x \in T : \A y \in T : ~(<<y, x>> \in R)
  <2> HIDE DEF T, R
  <2> QED BY <1>1, <1>2, WFMin
<1>4. PICK x \in T : \A y \in T : ~(<<y, x>> \in R)
  BY <1>3
<1>5. \A y \in T : x <= y
  <2> TAKE y \in T
  <2>1. x \in Nat /\ y \in Nat /\ ~(<<y, x>> \in R)
    BY <1>1, <1>4
  <2>2. ~(y < x)
    BY <2>1 DEF OpToRel
  <2>3. x \in Nat /\ y \in Nat
    BY <2>1
  <2> HIDE DEF T, R
  <2> QED BY <2>2, <2>3
<1>6. PICK e \in S : e.id = x
  OBVIOUS
<1>7. \A f \in S : e.id <= f.id
  BY <1>5, <1>6
<1> QED BY <1>7 DEF Oldest

\* What a step of the queue may do without disturbing it: entries keep their ids,
\* and none goes back to being prepared.
Refines(new, old) ==
    /\ new \in SUBSET Entry /\ Unique(new)
    /\ \A f \in new : \E e \in old : f.id = e.id /\ (f.status = "preparing" => e.status = "preparing")
\* Nothing that is being prepared goes, except by its age.
Keeps(new, old) ==
    \A e \in old : e.status = "preparing" /\ ~e.expired =>
        \E f \in new : f.id = e.id /\ f.status = "preparing"

LEMMA PrunedRefines ==
    ASSUME NEW box \in SUBSET Entry, Unique(box)
    PROVE  Refines(Pruned(box), box) /\ Keeps(Pruned(box), box)
<1> DEFINE live == {e \in box : ~e.expired}
<1>1. Pruned(box) = live \ Evicted(live)
  BY DEF Pruned
<1>2. \A e \in Evicted(live) : e.status = "done"
  BY DEF Evicted
<1>3. Pruned(box) \subseteq box
  BY <1>1
<1>4. Refines(Pruned(box), box)
  BY <1>3 DEF Refines, Unique
<1>5. Keeps(Pruned(box), box)
  BY <1>1, <1>2 DEF Keeps
<1> QED BY <1>4, <1>5

LEMMA ReleasedRefines ==
    ASSUME NEW box \in SUBSET Entry, Unique(box)
    PROVE  Refines(Released(box), box) /\ Keeps(Released(box), box)
<1> DEFINE free(e) == IF e.quiet THEN [e EXCEPT !.owner = Nobody] ELSE e
<1>1. \A e \in box : free(e) \in Entry /\ free(e).id = e.id /\ free(e).status = e.status
  BY DEF Entry
<1>2. Released(box) = {free(e) : e \in box}
  BY DEF Released
<1> HIDE DEF free
<1>3. Released(box) \in SUBSET Entry
  BY <1>1, <1>2
<1>4. ASSUME NEW f \in Released(box)
      PROVE  \E e \in box : f = free(e) /\ f.id = e.id /\ f.status = e.status
  BY <1>1, <1>2
<1>5. Unique(Released(box))
  <2> SUFFICES ASSUME NEW f \in Released(box), NEW g \in Released(box), f.id = g.id PROVE f = g
    BY DEF Unique
  <2>1. PICK e \in box : f = free(e) /\ f.id = e.id
    BY <1>4
  <2>2. PICK d \in box : g = free(d) /\ g.id = d.id
    BY <1>4
  <2>3. e = d
    BY <2>1, <2>2 DEF Unique
  <2> QED BY <2>1, <2>2, <2>3
<1>6. Refines(Released(box), box)
  BY <1>3, <1>4, <1>5 DEF Refines
<1>7. Keeps(Released(box), box)
  BY <1>1, <1>2 DEF Keeps
<1> QED BY <1>6, <1>7

LEMMA UpdatedRefines ==
    ASSUME NEW box \in SUBSET Entry, Unique(box), NEW e \in box, NEW entry \in Entry,
           entry.id = e.id, entry.status = e.status
    PROVE  Refines(Updated(box, entry), box) /\ Keeps(Updated(box, entry), box)
<1>1. Updated(box, entry) = {d \in box : d.id # entry.id} \cup {entry}
  BY DEF Updated
<1>2. Updated(box, entry) \in SUBSET Entry /\ Unique(Updated(box, entry))
  BY <1>1 DEF Unique
<1>3. Refines(Updated(box, entry), box)
  BY <1>1, <1>2 DEF Refines
<1>4. ASSUME NEW d \in box, d.status = "preparing"
      PROVE  \E f \in Updated(box, entry) : f.id = d.id /\ f.status = "preparing"
  <2>1. CASE d.id = entry.id
    <3>1. d = e
      BY <2>1 DEF Unique
    <3> QED BY <3>1, <1>1, <1>4
  <2>2. CASE d.id # entry.id
    BY <2>2, <1>1, <1>4
  <2> QED BY <2>1, <2>2
<1>5. Keeps(Updated(box, entry), box)
  BY <1>4 DEF Keeps
<1> QED BY <1>3, <1>5

LEMMA QueueStep ==
    ASSUME Inv, Refines(inbox', inbox), UNCHANGED <<running, arrived>>
    PROVE  QueueInv' /\ RunningInv'
<1>1. QueueInv'
  BY DEF Inv, QueueInv, Refines, Imports, Entry
<1>2. Preparing(inbox') => Preparing(inbox)
  BY DEF Refines, Preparing
<1>3. RunningInv'
  BY <1>2 DEF Inv, RunningInv, Preparing
<1> QED BY <1>1, <1>3

-----------------------------------------------------------------------------
(* The tabs *)

LEMMA TabMoves ==
    ASSUME TabsInv, NEW t \in Tabs, NEW tb \in Tab, Awake(tb), Becomes(t, tb)
    PROVE  TabsInv'
<1>1. tab' = [tab EXCEPT ![t] = tb]
  BY DEF Becomes
<1>2. tab' \in [Tabs -> Tab] /\ \A u \in Tabs : Awake(tab'[u])
  BY <1>1 DEF TabsInv
<1> QED BY <1>2 DEF TabsInv

LEMMA NewTabIsFit ==
    ASSUME NEW t \in Tabs
    PROVE  NewTab(t) \in Tab /\ ~NewTab(t).preparing
BY InboxAssumption DEF NewTab, Tab

LEMMA CheckInboxIsFit ==
    ASSUME NEW tb \in Tab, tb.call = "importing" => ~tb.preparing
    PROVE  CheckInbox(tb) \in Tab /\ Awake(CheckInbox(tb))
<1>1. CheckInbox(tb) \in Tab
  BY DEF CheckInbox, Tab
<1>2. CASE tb.call = "none" /\ ~HandsOff(tb)
  BY <1>2 DEF CheckInbox, Awake, Tab
<1>3. CASE tb.call # "none"
  BY <1>3 DEF CheckInbox, Awake, Tab
<1>4. CASE HandsOff(tb)
  BY <1>4 DEF CheckInbox, Awake, HandsOff, Owns, Tab
<1> QED BY <1>1, <1>2, <1>3, <1>4

LEMMA EndedIsFit ==
    ASSUME NEW tb \in Tab
    PROVE  /\ Ended(tb) \in Tab
           /\ Ended(tb).preparing = tb.preparing /\ Ended(tb).retries = tb.retries
           /\ Ended(tb).timer = tb.timer /\ Ended(tb).claim = tb.claim
           /\ Ended(tb).call = "none"
<1>1. 0 \in 0 .. MaxImports
  BY InboxAssumption
<1> QED BY <1>1 DEF Ended, Tab

LEMMA RetryIsFit ==
    ASSUME NEW tb \in Tab
    PROVE  Retry(tb) \in Tab /\ (tb.call = "none" => Awake(Retry(tb)))
<1> DEFINE k == IF tb.retries < 3 THEN tb.retries + 1 ELSE tb.retries
           n == [tb EXCEPT !.timer = TRUE, !.retries = k]
<1>1. tb.retries \in 0 .. 3
  BY DEF Tab
<1>2. k \in 0 .. 3
  BY <1>1
<1> HIDE DEF k
<1>3. n \in Tab /\ n.timer /\ n.preparing = tb.preparing /\ n.call = tb.call
  BY <1>2 DEF Tab
<1>4. Retry(tb) = IF Owns(tb) \/ tb.retries < 3 THEN n ELSE tb
  BY DEF Retry, k
<1> HIDE DEF n
<1>5. ~Owns(tb) => ~tb.preparing
  BY DEF Owns
<1> QED BY <1>3, <1>4, <1>5 DEF Awake

\* The steps that only change a tab: the user's and those of its hook.
LEMMA TabStepInv ==
    ASSUME Inv, NEW t \in Tabs,
           \/ Start(t) \/ TimerFires(t)
           \/ SettleNull(t) \/ SettlePreparing(t) \/ SettleImport(t) \/ Imported(t)
           \/ OpenTab(t) \/ Rename(t) \/ Wake(t) \/ Hide(t) \/ Reload(t) \/ Close(t)
           \/ \E u \in Tabs : DuplicateTab(t, u)
           \/ FailPoll(t) \/ RefusePoll(t)
    PROVE  TabsInv' /\ RestInv'
<1> DEFINE tb == tab[t]
<1>0. /\ TabsInv /\ tb \in Tab /\ Awake(tb) /\ tb.url \in 0 .. MaxImports /\ tb.name \in Tabs
      /\ tb.token \in 0 .. MaxImports
      /\ RestInv
  BY DEF Inv, TabsInv, Tab
<1>n. MaxFaults \in Nat /\ MaxMoves \in Nat /\ MaxImports \in Nat /\ 0 \in 0 .. MaxImports /\ 0 \in 0 .. 3
  BY InboxAssumption
<1>m. Move \/ Fault \/ UNCHANGED <<faults, moves>> => faults' \in 0 .. MaxFaults /\ moves' \in 0 .. MaxMoves
  BY <1>0, <1>n DEF Move, Fault, RestInv
<1>s. /\ (Move \/ Fault \/ UNCHANGED <<faults, moves>>) /\ UNCHANGED given => RestInv'
  BY <1>0, <1>m DEF RestInv
<1>1. ASSUME Start(t) PROVE TabsInv' /\ RestInv'
  <2> DEFINE n == [tb EXCEPT !.state = "open", !.token = tb.url, !.claim = tb.url # 0]
  <2>1. Becomes(t, CheckInbox(n)) /\ UNCHANGED <<faults, moves, given>>
    BY <1>1 DEF Start
  <2>2. n \in Tab /\ n.call = tb.call /\ n.preparing = tb.preparing
    BY <1>0 DEF Tab
  <2> HIDE DEF n
  <2>3. CheckInbox(n) \in Tab /\ Awake(CheckInbox(n))
    BY <1>0, <2>2, CheckInboxIsFit DEF Awake
  <2> QED BY <1>0, <1>s, <2>1, <2>3, TabMoves
<1>2. ASSUME TimerFires(t) PROVE TabsInv' /\ RestInv'
  <2>1. Becomes(t, CheckInbox(tb)) /\ UNCHANGED <<faults, moves, given>>
    BY <1>2 DEF TimerFires
  <2>2. CheckInbox(tb) \in Tab /\ Awake(CheckInbox(tb))
    BY <1>0, CheckInboxIsFit DEF Awake
  <2> QED BY <1>0, <1>s, <2>1, <2>2, TabMoves
<1>3. ASSUME SettleNull(t) PROVE TabsInv' /\ RestInv'
  <2> DEFINE d == Ended(tb)
             e == [d EXCEPT !.retries = 0, !.preparing = FALSE]
             n == IF tb.token = 0 THEN e ELSE [e EXCEPT !.claim = FALSE, !.url = 0]
  <2>1. Becomes(t, n) /\ UNCHANGED <<faults, moves, given>>
    BY <1>3 DEF SettleNull
  <2>2. d \in Tab
    BY <1>0, EndedIsFit
  <2> HIDE DEF d
  <2>3. e \in Tab /\ ~e.preparing
    BY <1>n, <2>2 DEF Tab
  <2> HIDE DEF e
  <2>4. n \in Tab /\ ~n.preparing
    BY <1>n, <2>3 DEF Tab
  <2> HIDE DEF n
  <2> QED BY <1>0, <1>s, <2>1, <2>4, TabMoves DEF Awake
<1>4. ASSUME SettlePreparing(t) PROVE TabsInv' /\ RestInv'
  <2> DEFINE d == Ended(tb)
             n == [d EXCEPT !.retries = 0, !.preparing = TRUE, !.timer = TRUE]
  <2>1. Becomes(t, n) /\ UNCHANGED <<faults, moves, given>>
    BY <1>4 DEF SettlePreparing
  <2>2. d \in Tab /\ d.call = "none"
    BY <1>0, EndedIsFit
  <2> HIDE DEF d
  <2>3. n \in Tab /\ n.timer /\ n.call = "none"
    BY <1>n, <2>2 DEF Tab
  <2> HIDE DEF n
  <2> QED BY <1>0, <1>s, <2>1, <2>3, TabMoves DEF Awake
<1>5. ASSUME SettleImport(t) PROVE TabsInv' /\ RestInv'
  <2> DEFINE n == [tb EXCEPT !.call = "importing", !.retries = 0, !.preparing = FALSE]
  <2>1. /\ Becomes(t, n) /\ UNCHANGED <<faults, moves>>
        /\ given' = [given EXCEPT ![tb.item] = Append(@, tb.token)]
    BY <1>5 DEF SettleImport
  <2>2. n \in Tab /\ ~n.preparing
    BY <1>0, <1>n DEF Tab
  <2> HIDE DEF n
  <2>3. TabsInv'
    BY <1>0, <2>1, <2>2, TabMoves DEF Awake
  <2>4. given' \in [Imports -> Seq(0 .. MaxImports)]
    <3>1. given \in [Imports -> Seq(0 .. MaxImports)]
      BY <1>0 DEF RestInv
    <3>2. CASE tb.item \in Imports
      <4>1. Append(given[tb.item], tb.token) \in Seq(0 .. MaxImports)
        BY <1>0, <3>1, <3>2
      <4> QED BY <2>1, <3>1, <3>2, <4>1
    <3>3. CASE tb.item \notin Imports
      BY <2>1, <3>1, <3>3
    <3> QED BY <3>2, <3>3
  <2> QED BY <1>0, <2>1, <2>3, <2>4 DEF RestInv
<1>6. ASSUME Imported(t) PROVE TabsInv' /\ RestInv'
  <2> DEFINE d == Ended(tb)
             n == [d EXCEPT !.claim = FALSE, !.url = 0]
  <2>1. Becomes(t, n) /\ UNCHANGED <<faults, moves, given>> /\ tb.call = "importing"
    BY <1>6 DEF Imported
  <2>2. d \in Tab /\ d.preparing = tb.preparing
    BY <1>0, EndedIsFit
  <2> HIDE DEF d
  <2>3. n \in Tab /\ n.preparing = tb.preparing
    BY <1>n, <2>2 DEF Tab
  <2> HIDE DEF n
  <2>4. ~n.preparing
    BY <1>0, <2>1, <2>3 DEF Awake
  <2> QED BY <1>0, <1>s, <2>1, <2>3, <2>4, TabMoves DEF Awake
<1>7. ASSUME OpenTab(t) PROVE TabsInv' /\ RestInv'
  <2>1. PICK token \in 0 .. arrived : Becomes(t, [tb EXCEPT !.state = "loading", !.url = token])
    BY <1>7 DEF OpenTab
  <2> DEFINE n == [tb EXCEPT !.state = "loading", !.url = token]
  <2>2. Becomes(t, n) /\ UNCHANGED <<faults, moves, given>>
    BY <1>7, <2>1 DEF OpenTab
  <2>3. token \in 0 .. MaxImports
    BY <1>n DEF Inv, QueueInv
  <2>4. n \in Tab /\ n.preparing = tb.preparing /\ n.timer = tb.timer /\ n.call = tb.call
    BY <1>0, <2>3 DEF Tab
  <2> HIDE DEF n
  <2> QED BY <1>0, <1>s, <2>2, <2>4, TabMoves DEF Awake
<1>8. ASSUME Rename(t) PROVE TabsInv' /\ RestInv'
  <2> DEFINE n == [tb EXCEPT !.name = t]
  <2>1. Becomes(t, n) /\ UNCHANGED <<faults, moves, given>>
    BY <1>8 DEF Rename
  <2>2. n \in Tab /\ n.preparing = tb.preparing /\ n.timer = tb.timer /\ n.call = tb.call
    BY <1>0 DEF Tab
  <2> HIDE DEF n
  <2> QED BY <1>0, <1>s, <2>1, <2>2, TabMoves DEF Awake
<1>9. ASSUME Wake(t) PROVE TabsInv' /\ RestInv'
  <2> DEFINE n == [tb EXCEPT !.hidden = FALSE]
  <2>1. Becomes(t, CheckInbox(n)) /\ Move /\ UNCHANGED given
    BY <1>9 DEF Wake
  <2>2. n \in Tab /\ n.call = tb.call /\ n.preparing = tb.preparing
    BY <1>0 DEF Tab
  <2> HIDE DEF n
  <2>3. CheckInbox(n) \in Tab /\ Awake(CheckInbox(n))
    BY <1>0, <2>2, CheckInboxIsFit DEF Awake
  <2> QED BY <1>0, <1>s, <2>1, <2>3, TabMoves
<1>10. ASSUME Hide(t) PROVE TabsInv' /\ RestInv'
  <2> DEFINE n == [tb EXCEPT !.hidden = TRUE]
  <2>1. Becomes(t, n) /\ Move /\ UNCHANGED given
    BY <1>10 DEF Hide
  <2>2. n \in Tab /\ n.preparing = tb.preparing /\ n.timer = tb.timer /\ n.call = tb.call
    BY <1>0 DEF Tab
  <2> HIDE DEF n
  <2> QED BY <1>0, <1>s, <2>1, <2>2, TabMoves DEF Awake
<1>11. ASSUME Reload(t) PROVE TabsInv' /\ RestInv'
  <2> DEFINE b == NewTab(t)
             n == [b EXCEPT !.state = "loading", !.url = tb.url, !.name = tb.name]
  <2>1. Becomes(t, n) /\ Move /\ UNCHANGED given
    BY <1>11 DEF Reload
  <2>2. b \in Tab /\ ~b.preparing
    BY NewTabIsFit
  <2> HIDE DEF b
  <2>3. n \in Tab /\ ~n.preparing
    BY <1>0, <2>2 DEF Tab
  <2> HIDE DEF n
  <2> QED BY <1>0, <1>s, <2>1, <2>3, TabMoves DEF Awake
<1>12. ASSUME Close(t) PROVE TabsInv' /\ RestInv'
  <2> DEFINE b == NewTab(t)
             n == [b EXCEPT !.state = "closed"]
  <2>1. Becomes(t, n) /\ Move /\ UNCHANGED given
    BY <1>12 DEF Close
  <2>2. b \in Tab /\ ~b.preparing
    BY NewTabIsFit
  <2> HIDE DEF b
  <2>3. n \in Tab /\ ~n.preparing
    BY <2>2 DEF Tab
  <2> HIDE DEF n
  <2> QED BY <1>0, <1>s, <2>1, <2>3, TabMoves DEF Awake
<1>13. ASSUME NEW u \in Tabs, DuplicateTab(t, u) PROVE TabsInv' /\ RestInv'
  <2> DEFINE b == tab[u]
             n == [b EXCEPT !.state = "loading", !.url = tb.url, !.name = tb.name]
  <2>1. Becomes(u, n) /\ Move /\ UNCHANGED given
    BY <1>13 DEF DuplicateTab
  <2>2. b \in Tab /\ Awake(b)
    BY <1>0 DEF TabsInv
  <2> HIDE DEF b
  <2>3. n \in Tab /\ n.preparing = b.preparing /\ n.timer = b.timer /\ n.call = b.call
    BY <1>0, <2>2 DEF Tab
  <2> HIDE DEF n
  <2> QED BY <1>0, <1>s, <2>1, <2>2, <2>3, TabMoves DEF Awake
<1>14. ASSUME FailPoll(t) PROVE TabsInv' /\ RestInv'
  <2> DEFINE d == Ended(tb)
  <2>1. Becomes(t, Retry(d)) /\ Fault /\ UNCHANGED given
    BY <1>14 DEF FailPoll
  <2>2. d \in Tab /\ d.call = "none"
    BY <1>0, EndedIsFit
  <2> HIDE DEF d
  <2>3. Retry(d) \in Tab /\ Awake(Retry(d))
    BY <2>2, RetryIsFit
  <2> QED BY <1>0, <1>s, <2>1, <2>3, TabMoves
<1>15. ASSUME RefusePoll(t) PROVE TabsInv' /\ RestInv'
  <2> DEFINE d == Ended(tb)
             n == [d EXCEPT !.preparing = FALSE]
  <2>1. Becomes(t, n) /\ Fault /\ UNCHANGED given
    BY <1>15 DEF RefusePoll
  <2>2. d \in Tab
    BY <1>0, EndedIsFit
  <2> HIDE DEF d
  <2>3. n \in Tab /\ ~n.preparing
    BY <2>2 DEF Tab
  <2> HIDE DEF n
  <2> QED BY <1>0, <1>s, <2>1, <2>3, TabMoves DEF Awake
<1> QED
  BY <1>1, <1>2, <1>3, <1>4, <1>5, <1>6, <1>7, <1>8, <1>9, <1>10, <1>11, <1>12, <1>13, <1>14, <1>15

-----------------------------------------------------------------------------
(* The steps of the queue *)

LEMMA PolledBox ==
    ASSUME QueueInv, NEW box, box = Released(Pruned(inbox))
    PROVE  /\ Refines(box, inbox)
           /\ \A e \in inbox : e.status = "preparing" /\ ~e.expired =>
                  \E f \in box : f.id = e.id /\ f.status = "preparing"
<1> DEFINE p == Pruned(inbox)
<1>1. inbox \in SUBSET Entry /\ Unique(inbox)
  BY DEF QueueInv
<1>2. Refines(p, inbox) /\ Keeps(p, inbox)
  BY <1>1, PrunedRefines
<1>3. p \subseteq inbox
  BY DEF Pruned
<1> HIDE DEF p
<1>4. p \in SUBSET Entry /\ Unique(p)
  BY <1>2 DEF Refines
<1>5. Refines(Released(p), p)
  BY <1>4, ReleasedRefines
<1>6. Refines(box, inbox)
  BY <1>2, <1>5 DEF Refines, p
<1>7. ASSUME NEW e \in p PROVE \E f \in Released(p) : f.id = e.id /\ f.status = e.status
  <2>1. e \in Entry
    BY <1>4
  <2> DEFINE f == IF e.quiet THEN [e EXCEPT !.owner = Nobody] ELSE e
  <2>2. f.id = e.id /\ f.status = e.status
    BY <2>1 DEF Entry
  <2>3. f \in Released(p)
    BY DEF Released
  <2> QED BY <2>2, <2>3
<1>8. ASSUME NEW e \in inbox, e.status = "preparing", ~e.expired
      PROVE  \E f \in box : f.id = e.id /\ f.status = "preparing"
  <2>1. PICK g \in p : g.id = e.id /\ g.status = "preparing"
    BY <1>2, <1>8 DEF Keeps
  <2>2. PICK f \in Released(p) : f.id = g.id /\ f.status = g.status
    BY <1>7
  <2> QED BY <2>1, <2>2 DEF p
<1> QED BY <1>6, <1>8

LEMMA ChosenIsQueued ==
    ASSUME NEW box \in SUBSET Entry, NEW token, NEW name, NEW e \in Chosen(box, token, name)
    PROVE  e \in box
<1> DEFINE named == {f \in box : token # 0 /\ Token(f.id) = token}
           owned == {f \in box : f.owner = name}
           free == Unclaimed(box)
<1>1. named \in SUBSET Entry /\ owned \in SUBSET Entry /\ free \in SUBSET Entry
  BY DEF Unclaimed
<1>2. named \subseteq box /\ owned \subseteq box /\ free \subseteq box
  BY DEF Unclaimed
<1>3. Chosen(box, token, name) =
        CASE named # {} -> {Oldest(named)}
          [] named = {} /\ owned # {} -> {Oldest(owned)}
          [] OTHER -> IF free = {} THEN {} ELSE {Oldest(free)}
  BY DEF Chosen
<1> HIDE DEF named, owned, free
<1>4. CASE named # {}
  BY <1>1, <1>2, <1>3, <1>4, OldestIsOne
<1>5. CASE named = {} /\ owned # {}
  BY <1>1, <1>2, <1>3, <1>5, OldestIsOne
<1>6. CASE named = {} /\ owned = {}
  BY <1>1, <1>2, <1>3, <1>6, OldestIsOne
<1> QED BY <1>4, <1>5, <1>6

LEMMA ServerPollStep ==
    ASSUME Inv, NEW t \in Tabs, ServerPoll(t)
    PROVE  Inv' /\ KeepStep
<1> DEFINE tb == tab[t]
           box == Released(Pruned(inbox))
           chosen == Chosen(box, tb.token, tb.name)
           a == [tb EXCEPT !.call = "answered"]
<1>0. tb \in Tab /\ Awake(tb) /\ tb.name \in Tabs /\ tb.call = "sent"
      /\ UNCHANGED <<faults, moves, running, arrived, given>>
  BY DEF Inv, TabsInv, Tab, ServerPoll
<1>1. a \in Tab /\ a.call = "answered"
  BY <1>0 DEF Tab
<1>2. /\ Refines(box, inbox)
      /\ \A e \in inbox : e.status = "preparing" /\ ~e.expired =>
             \E f \in box : f.id = e.id /\ f.status = "preparing"
  BY PolledBox DEF Inv
<1>b. box \in SUBSET Entry /\ Unique(box)
  BY <1>2 DEF Refines
<1>r. RestInv'
  BY <1>0 DEF Inv, RestInv
<1>p. \/ /\ inbox' = box
         /\ Becomes(t, [a EXCEPT !.reply = "null"])
      \/ \E e \in chosen :
         /\ e.status = "preparing"
         /\ inbox' = Updated(box, [e EXCEPT !.owner = tb.name, !.quiet = FALSE])
         /\ Becomes(t, [a EXCEPT !.reply = "preparing"])
      \/ \E e \in chosen :
         /\ e.status = "done"
         /\ inbox' = box \ {e}
         /\ Becomes(t, [a EXCEPT !.reply = "import", !.item = e.id])
  BY DEF ServerPoll
<1> HIDE DEF a, box
<1>3. CASE inbox' = box /\ Becomes(t, [a EXCEPT !.reply = "null"])
  <2> DEFINE n == [a EXCEPT !.reply = "null"]
  <2>1. n \in Tab /\ n.call = "answered"
    BY <1>1 DEF Tab
  <2>2. Becomes(t, n)
    BY <1>3
  <2> HIDE DEF n
  <2>3. TabsInv'
    BY <2>1, <2>2, TabMoves DEF Inv, Awake
  <2>4. QueueInv' /\ RunningInv'
    BY <1>0, <1>2, <1>3, QueueStep
  <2>5. KeepStep
    BY <1>2, <1>3 DEF KeepStep
  <2> QED BY <1>r, <2>3, <2>4, <2>5 DEF Inv
<1>4. ASSUME NEW e \in chosen, e.status = "preparing",
             inbox' = Updated(box, [e EXCEPT !.owner = tb.name, !.quiet = FALSE]),
             Becomes(t, [a EXCEPT !.reply = "preparing"])
      PROVE  Inv' /\ KeepStep
  <2> DEFINE n == [a EXCEPT !.reply = "preparing"]
             entry == [e EXCEPT !.owner = tb.name, !.quiet = FALSE]
  <2>1. n \in Tab /\ n.call = "answered"
    BY <1>1 DEF Tab
  <2>2. Becomes(t, n)
    BY <1>4
  <2> HIDE DEF n
  <2>3. TabsInv'
    BY <2>1, <2>2, TabMoves DEF Inv, Awake
  <2>4. e \in box /\ e \in Entry
    BY <1>b, ChosenIsQueued
  <2>5. entry \in Entry /\ entry.id = e.id /\ entry.status = e.status
    BY <1>0, <2>4 DEF Entry
  <2>6. inbox' = Updated(box, entry)
    BY <1>4
  <2> HIDE DEF entry
  <2>7. Refines(inbox', box)
    BY <1>b, <2>4, <2>5, <2>6, UpdatedRefines
  <2>8. Refines(inbox', inbox)
    BY <1>2, <2>7 DEF Refines
  <2>9. QueueInv' /\ RunningInv'
    BY <1>0, <2>8, QueueStep
  <2>10. \A g \in box : \E f \in inbox' : f.id = g.id
    BY <2>6 DEF Updated
  <2>11. KeepStep
    BY <1>2, <2>10 DEF KeepStep
  <2> QED BY <1>r, <2>3, <2>9, <2>11 DEF Inv
<1>5. ASSUME NEW e \in chosen, e.status = "done", inbox' = box \ {e},
             Becomes(t, [a EXCEPT !.reply = "import", !.item = e.id])
      PROVE  Inv' /\ KeepStep
  <2> DEFINE n == [a EXCEPT !.reply = "import", !.item = e.id]
  <2>1. e \in box /\ e \in Entry
    BY <1>b, ChosenIsQueued
  <2>2. e.id \in 0 .. MaxImports
    BY <2>1, InboxAssumption DEF Entry, Imports
  <2>3. n \in Tab /\ n.call = "answered"
    BY <1>1, <2>2 DEF Tab
  <2>4. Becomes(t, n)
    BY <1>5
  <2> HIDE DEF n
  <2>5. TabsInv'
    BY <2>3, <2>4, TabMoves DEF Inv, Awake
  <2>6. Refines(inbox', inbox)
    BY <1>2, <1>5 DEF Refines, Unique
  <2>7. QueueInv' /\ RunningInv'
    BY <1>0, <2>6, QueueStep
  <2>8. KeepStep
    BY <1>2, <1>5 DEF KeepStep
  <2> QED BY <1>r, <2>5, <2>7, <2>8 DEF Inv
<1> QED BY <1>p, <1>3, <1>4, <1>5

LEMMA ImportStep ==
    ASSUME Inv, Import
    PROVE  Inv' /\ KeepStep
<1> DEFINE i == arrived + 1
           entry == [id |-> i, status |-> "preparing", owner |-> Nobody,
                     quiet |-> FALSE, expired |-> FALSE]
           box == inbox \cup {entry}
<1>1. /\ i \in Imports /\ arrived' = i
      /\ running' = (IF running = {} THEN {i} ELSE running)
      /\ inbox' = Pruned(box)
      /\ UNCHANGED <<faults, moves, tab, given>>
  BY DEF Import
<1>2. entry \in Entry /\ entry.id = i
  BY <1>1 DEF Entry
<1>3. inbox \in SUBSET Entry /\ Unique(inbox) /\ (\A e \in inbox : e.id <= arrived)
      /\ arrived \in 0 .. MaxImports /\ MaxImports \in Nat
  BY InboxAssumption DEF Inv, QueueInv
<1> HIDE DEF entry
<1>4. box \in SUBSET Entry
  BY <1>2, <1>3
<1>5. \A e \in inbox : e.id # entry.id
  <2> TAKE e \in inbox
  <2>1. e.id \in Nat /\ e.id <= arrived /\ arrived \in Nat
    BY <1>3 DEF Entry, Imports
  <2> QED BY <1>2, <2>1
<1>6. Unique(box)
  BY <1>3, <1>5 DEF Unique
<1>7. Refines(Pruned(box), box) /\ Keeps(Pruned(box), box)
  BY <1>4, <1>6, PrunedRefines
<1>8. \A e \in box : e.id <= i
  <2> TAKE e \in box
  <2>1. CASE e = entry
    BY <1>2, <1>3, <2>1
  <2>2. CASE e \in inbox
    <3>1. e.id \in Nat /\ e.id <= arrived /\ arrived \in Nat
      BY <1>3, <2>2 DEF Entry, Imports
    <3> QED BY <3>1
  <2> QED BY <2>1, <2>2
<1>9. QueueInv'
  <2>1. inbox' \in SUBSET Entry /\ Unique(inbox')
    BY <1>1, <1>7 DEF Refines
  <2>2. \A f \in inbox' : f.id <= arrived'
    BY <1>1, <1>7, <1>8 DEF Refines
  <2>3. arrived' \in 0 .. MaxImports
    BY <1>1, <1>3 DEF Imports
  <2> QED BY <2>1, <2>2, <2>3 DEF QueueInv
<1>10. RunningInv'
  BY <1>1 DEF Inv, RunningInv
<1>11. TabsInv' /\ RestInv'
  BY <1>1 DEF Inv, TabsInv, RestInv
<1>12. KeepStep
  BY <1>1, <1>7 DEF Keeps, KeepStep
<1> QED BY <1>9, <1>10, <1>11, <1>12 DEF Inv

LEMMA PrepareEndsStep ==
    ASSUME Inv, PrepareEnds
    PROVE  Inv' /\ KeepStep
<1>1. PICK i \in running :
        /\ inbox' = {IF e.id = i THEN [e EXCEPT !.status = "done"] ELSE e : e \in inbox}
        /\ running' = (running \ {i}) \cup NextToPrepare(inbox')
  BY DEF PrepareEnds
<1>2. UNCHANGED <<faults, moves, arrived, tab, given>>
  BY DEF PrepareEnds
<1>3. inbox \in SUBSET Entry /\ Unique(inbox) /\ (\A e \in inbox : e.id <= arrived)
      /\ arrived \in 0 .. MaxImports
  BY DEF Inv, QueueInv
<1> DEFINE end(e) == IF e.id = i THEN [e EXCEPT !.status = "done"] ELSE e
<1>4. \A e \in inbox : end(e) \in Entry /\ end(e).id = e.id
  BY <1>3 DEF Entry
<1>5. inbox' = {end(e) : e \in inbox}
  BY <1>1
<1> HIDE DEF end
<1>6. inbox' \in SUBSET Entry /\ \A f \in inbox' : \E e \in inbox : f = end(e) /\ f.id = e.id
  BY <1>4, <1>5
<1>7. Unique(inbox')
  <2> SUFFICES ASSUME NEW f \in inbox', NEW g \in inbox', f.id = g.id PROVE f = g
    BY DEF Unique
  <2>1. PICK e \in inbox : f = end(e) /\ f.id = e.id
    BY <1>6
  <2>2. PICK d \in inbox : g = end(d) /\ g.id = d.id
    BY <1>6
  <2>3. e = d
    BY <1>3, <2>1, <2>2 DEF Unique
  <2> QED BY <2>1, <2>2, <2>3
<1>8. QueueInv'
  <2>1. \A f \in inbox' : f.id <= arrived
    BY <1>3, <1>6
  <2> QED BY <1>2, <1>3, <1>6, <1>7, <2>1 DEF QueueInv
<1>9. RunningInv'
  <2> DEFINE waiting == {e \in inbox' : e.status = "preparing"}
  <2>1. running \ {i} = {}
    BY DEF Inv, RunningInv
  <2>2. CASE waiting = {}
    <3>1. running' = {}
      BY <1>1, <2>1, <2>2 DEF NextToPrepare
    <3> QED BY <2>2, <3>1 DEF RunningInv, Preparing
  <2>3. CASE waiting # {}
    <3>1. running' = {Oldest(waiting).id}
      BY <1>1, <2>1, <2>3 DEF NextToPrepare
    <3>2. waiting \in SUBSET Entry
      BY <1>6
    <3> HIDE DEF waiting
    <3>3. Oldest(waiting) \in Entry
      BY <2>3, <3>2, OldestIsOne
    <3>4. Oldest(waiting).id \in Imports
      BY <3>3 DEF Entry
    <3> QED BY <3>1, <3>4 DEF RunningInv
  <2> QED BY <2>2, <2>3
<1>10. TabsInv' /\ RestInv'
  BY <1>2 DEF Inv, TabsInv, RestInv
<1>11. KeepStep
  BY <1>4, <1>5 DEF KeepStep
<1> QED BY <1>8, <1>9, <1>10, <1>11 DEF Inv

\* An owner goes quiet, or an entry reaches its age.
LEMMA TimeStep ==
    ASSUME Inv, OwnerQuiet \/ Expire
    PROVE  Inv' /\ KeepStep
<1>0. inbox \in SUBSET Entry /\ Unique(inbox) /\ UNCHANGED <<running, arrived, tab, given>>
      /\ (Move \/ Fault)
  BY DEF Inv, QueueInv, OwnerQuiet, Expire
<1>1. PICK e \in inbox : \E entry \in Entry :
        entry.id = e.id /\ entry.status = e.status /\ inbox' = Updated(inbox, entry)
  <2>1. CASE OwnerQuiet
    <3>1. PICK e \in inbox : inbox' = Updated(inbox, [e EXCEPT !.quiet = TRUE])
      BY <2>1 DEF OwnerQuiet
    <3>2. [e EXCEPT !.quiet = TRUE] \in Entry /\ [e EXCEPT !.quiet = TRUE].id = e.id
          /\ [e EXCEPT !.quiet = TRUE].status = e.status
      BY <1>0 DEF Entry
    <3> QED BY <3>1, <3>2
  <2>2. CASE Expire
    <3>1. PICK e \in inbox : inbox' = Updated(inbox, [e EXCEPT !.expired = TRUE])
      BY <2>2 DEF Expire
    <3>2. [e EXCEPT !.expired = TRUE] \in Entry /\ [e EXCEPT !.expired = TRUE].id = e.id
          /\ [e EXCEPT !.expired = TRUE].status = e.status
      BY <1>0 DEF Entry
    <3> QED BY <3>1, <3>2
  <2> QED BY <2>1, <2>2
<1>2. PICK entry \in Entry :
        entry.id = e.id /\ entry.status = e.status /\ inbox' = Updated(inbox, entry)
  BY <1>1
<1>3. Refines(inbox', inbox)
  BY <1>0, <1>2, UpdatedRefines
<1>4. QueueInv' /\ RunningInv'
  BY <1>0, <1>3, QueueStep
<1>5. faults' \in 0 .. MaxFaults /\ moves' \in 0 .. MaxMoves
  BY <1>0, InboxAssumption DEF Inv, RestInv, Move, Fault
<1>6. TabsInv' /\ RestInv'
  BY <1>0, <1>5 DEF Inv, TabsInv, RestInv
<1>7. KeepStep
  BY <1>2 DEF KeepStep, Updated
<1> QED BY <1>4, <1>6, <1>7 DEF Inv

LEMMA RestartStep ==
    ASSUME Inv, Restart
    PROVE  Inv' /\ KeepStep
<1>1. inbox' = {} /\ running' = {} /\ UNCHANGED <<arrived, tab, given>> /\ Fault
  BY DEF Restart
<1>2. faults' \in 0 .. MaxFaults /\ moves' \in 0 .. MaxMoves
  BY <1>1, InboxAssumption DEF Inv, RestInv, Fault
<1>3. TabsInv' /\ RestInv'
  BY <1>1, <1>2 DEF Inv, TabsInv, RestInv
<1>4. QueueInv' /\ RunningInv'
  BY <1>1 DEF Inv, QueueInv, RunningInv, Unique, Preparing
<1> QED BY <1>1, <1>3, <1>4 DEF Inv, KeepStep

-----------------------------------------------------------------------------
(* The theorems *)

LEMMA InitInv == Init => Inv
<1> SUFFICES ASSUME Init PROVE Inv
  OBVIOUS
<1>1. TabsInv
  <2>1. tab = [t \in Tabs |-> NewTab(t)]
    BY DEF Init
  <2>2. \A t \in Tabs : NewTab(t).call = "none"
    BY DEF NewTab
  <2> QED BY <2>1, <2>2, NewTabIsFit DEF TabsInv, Awake
<1>2. QueueInv /\ RunningInv
  BY InboxAssumption DEF Init, QueueInv, RunningInv, Unique, Preparing
<1>3. RestInv
  BY InboxAssumption DEF Init, RestInv
<1> QED BY <1>1, <1>2, <1>3 DEF Inv

LEMMA NextInv == Inv /\ [Next]_vars => Inv' /\ KeepStep
<1> SUFFICES ASSUME Inv, [Next]_vars PROVE Inv' /\ KeepStep
  OBVIOUS
<1>1. ASSUME NEW t \in Tabs, UNCHANGED <<inbox, running, arrived>>,
             \/ Start(t) \/ TimerFires(t)
             \/ SettleNull(t) \/ SettlePreparing(t) \/ SettleImport(t) \/ Imported(t)
             \/ OpenTab(t) \/ Rename(t) \/ Wake(t) \/ Hide(t) \/ Reload(t) \/ Close(t)
             \/ \E u \in Tabs : DuplicateTab(t, u)
             \/ FailPoll(t) \/ RefusePoll(t)
      PROVE  Inv' /\ KeepStep
  <2>1. TabsInv' /\ RestInv'
    BY <1>1, TabStepInv
  <2>2. QueueInv' /\ RunningInv'
    BY <1>1 DEF Inv, QueueInv, RunningInv, Unique, Preparing
  <2>3. KeepStep
    BY <1>1 DEF KeepStep
  <2> QED BY <2>1, <2>2, <2>3 DEF Inv
<1>2. ASSUME NEW t \in Tabs, TabStep(t) \/ User(t) \/ FailPoll(t) \/ RefusePoll(t)
      PROVE  Inv' /\ KeepStep
  <2>1. CASE ServerPoll(t)
    BY <2>1, ServerPollStep
  <2>2. CASE ~ServerPoll(t)
    <3>1. UNCHANGED <<inbox, running, arrived>>
      BY <1>2, <2>2 DEF TabStep, User, Start, TimerFires, SettleNull, SettlePreparing, SettleImport,
         Imported, OpenTab, Rename, Wake, Hide, Reload, Close, DuplicateTab, FailPoll, RefusePoll
    <3> QED BY <1>1, <1>2, <2>2, <3>1 DEF TabStep, User
  <2> QED BY <2>1, <2>2
<1>3. CASE UNCHANGED vars
  <2>1. UNCHANGED <<inbox, running, arrived, tab, faults, moves, given>>
    BY <1>3 DEF vars
  <2> QED BY <2>1 DEF Inv, TabsInv, QueueInv, RunningInv, RestInv, Unique, Preparing, KeepStep
<1> QED BY <1>2, <1>3, ImportStep, PrepareEndsStep, TimeStep, RestartStep DEF Next

LEMMA InvHolds == Spec => []Inv
BY InitInv, NextInv, PTL DEF Spec

\* The queue and the tabs stay in their ranges, and a posting is queued once.
THEOREM TypeCorrect == Spec => []TypeOK
<1>1. Inv => TypeOK
  BY DEF Inv, TabsInv, QueueInv, RunningInv, RestInv, Unique, TypeOK
<1> QED BY <1>1, InvHolds, PTL

\* One posting is prepared at a time, and none waits while nothing is prepared,
\* however postings arrive, expire and are handed over meanwhile.
THEOREM PreparesOneByOne == Spec => []PreparesInTurn
<1>1. ASSUME Inv PROVE PreparesInTurn
  <2>1. running = {} \/ \E i \in Imports : running = {i}
    BY <1>1 DEF Inv, RunningInv
  <2>2. Cardinality(running) <= 1
    BY <2>1, FS_EmptySet, FS_Singleton
  <2> QED BY <1>1, <2>2 DEF Inv, RunningInv, Preparing, PreparesInTurn
<1> QED BY <1>1, InvHolds, PTL

\* A tab that shows it is receiving never stops asking, whatever polls fail and
\* whenever it is hidden, duplicated or renamed.
THEOREM ReceivingNeverSleeps == Spec => []ReceivingAwake
<1>1. Inv => ReceivingAwake
  BY DEF Inv, TabsInv, Awake, ReceivingAwake
<1> QED BY <1>1, InvHolds, PTL

\* Making room in the queue, of whatever size, drops no posting that is being
\* prepared.
THEOREM PreparingSurvives == Spec => PreparingIsKept
<1>1. KeepStep =>
        [\A e \in inbox : e.status = "preparing" /\ ~e.expired
            => (inbox' = {} /\ running' = {}) \/ \E f \in inbox' : f.id = e.id]_vars
  BY DEF KeepStep
<1> QED BY <1>1, InitInv, NextInv, PTL DEF Spec, PreparingIsKept
-----------------------------------------------------------------------------
(* Delivery: who may be handed which posting.                                *)

Live(tb) == tb.state \in {"loading", "open"}
Queued(box) == {e.id : e \in box}

\* An answered poll that brings a posting.
Holding(tb) == tb.call = "answered" /\ tb.reply = "import"

\* What a tab's address, token and poll say of the queue, n postings having arrived.
\* A token that is no longer in the address, or whose poll was answered with nothing
\* or a posting, names nothing that is queued; a posting with a token is brought only
\* to its tab.
TabTold(t, tb, box, n) ==
    /\ ~Live(tb) => tb.name = t
    /\ tb.call # "none" => tb.state = "open"
    /\ tb.url <= n /\ tb.token <= n
    /\ Token(tb.url) = tb.url \/ tb.url = 0
    /\ Token(tb.token) = tb.token \/ tb.token = 0
    /\ tb.state = "open" => tb.url \in {0, tb.token}
    /\ tb.state = "open" /\ tb.token # 0 /\ tb.token \in Queued(box) =>
           tb.url # 0 /\ tb.call # "importing" /\ (tb.call = "answered" => tb.reply = "preparing")
    /\ Holding(tb) => /\ tb.item \in Imports /\ tb.item <= n /\ tb.item \notin Queued(box)
                      /\ Token(tb.item) # 0 => tb.token = tb.item
Told(tabs, box, n) == \A t \in Tabs : TabTold(t, tabs[t], box, n)

\* A name is used by its own tab first, and by copies of that tab.
InUse(tabs, name) == tabs[name].state # "new" /\ tabs[name].name = name
Names(tabs, box) ==
    /\ \A t, u \in Tabs : u # t /\ tabs[u].name = t => InUse(tabs, t)
    /\ \A e \in box : e.owner # Nobody => InUse(tabs, e.owner)

\* Tabs of one name carry the same posting, the one the name owns.
NameCarries(tabs, name, i) ==
    \A u \in Tabs : Live(tabs[u]) /\ tabs[u].name = name => tabs[u].url = i
Carries(tabs, box) ==
    /\ \A t \in Tabs : Live(tabs[t]) /\ tabs[t].url \in Queued(box) =>
           NameCarries(tabs, tabs[t].name, tabs[t].url)
    /\ \A e \in box : e.owner # Nobody /\ Token(e.id) # 0 => NameCarries(tabs, e.owner, e.id)

\* A posting is in one place: the queue, an answer, or handed over.
Once(tabs, box, n, handed) ==
    /\ \A t, u \in Tabs :
           Holding(tabs[t]) /\ Holding(tabs[u]) /\ tabs[t].item = tabs[u].item => t = u
    /\ \A i \in Imports : handed[i] # <<>> =>
           /\ i <= n /\ i \notin Queued(box)
           /\ \A t \in Tabs : Holding(tabs[t]) => tabs[t].item # i

Delivery(tabs, box, n, handed) ==
    Told(tabs, box, n) /\ Names(tabs, box) /\ Carries(tabs, box) /\ Once(tabs, box, n, handed)
DeliveryInv == Delivery(tab, inbox, arrived, given) /\ ImportsReachTheirTab

\* The queue may lose postings and claims, and take in postings that have just
\* arrived.
Loses(new, old, n) ==
    \A f \in new : \/ f.owner = Nobody /\ f.id > n
                   \/ \E e \in old : e.id = f.id /\ f.owner \in {e.owner, Nobody}

LEMMA QueueLoses ==
    ASSUME NEW tabs \in [Tabs -> Tab], NEW old \in SUBSET Entry, NEW new \in SUBSET Entry,
           NEW n \in Nat, NEW m \in Nat, n <= m, NEW handed,
           Loses(new, old, n), Delivery(tabs, old, n, handed)
    PROVE  Delivery(tabs, new, m, handed)
<1>0. Told(tabs, old, n) /\ Names(tabs, old) /\ Carries(tabs, old) /\ Once(tabs, old, n, handed)
  BY DEF Delivery
<1>1. \A i \in Queued(new) : i \in Nat /\ (i <= n => i \in Queued(old))
  <2> SUFFICES ASSUME NEW f \in new PROVE f.id \in Nat /\ (f.id <= n => f.id \in Queued(old))
    BY DEF Queued
  <2>1. f.id \in Nat
    BY DEF Entry, Imports
  <2> QED BY <2>1 DEF Loses, Queued
<1>2. \A t \in Tabs : /\ tabs[t].url \in Nat /\ tabs[t].url <= n /\ tabs[t].token \in Nat /\ tabs[t].token <= n
                      /\ Holding(tabs[t]) => tabs[t].item \in Nat /\ tabs[t].item <= n
  BY <1>0 DEF Told, TabTold, Tab, Imports
<1>3. Told(tabs, new, m)
  <2> SUFFICES ASSUME NEW t \in Tabs PROVE TabTold(t, tabs[t], new, m)
    BY DEF Told
  <2>1. TabTold(t, tabs[t], old, n)
    BY <1>0 DEF Told
  <2> QED BY <2>1, <1>1, <1>2 DEF TabTold
<1>4. Names(tabs, new)
  BY <1>0 DEF Names, Loses
<1>5. Carries(tabs, new)
  <2>1. ASSUME NEW t \in Tabs, Live(tabs[t]), tabs[t].url \in Queued(new)
        PROVE  NameCarries(tabs, tabs[t].name, tabs[t].url)
    BY <1>0, <1>1, <1>2, <2>1 DEF Carries
  <2>2. ASSUME NEW f \in new, f.owner # Nobody, Token(f.id) # 0
        PROVE  NameCarries(tabs, f.owner, f.id)
    BY <1>0, <2>2 DEF Carries, Loses
  <2> QED BY <2>1, <2>2 DEF Carries
<1>6. Once(tabs, new, m, handed)
  BY <1>0, <1>1 DEF Once, Imports
<1> QED BY <1>3, <1>4, <1>5, <1>6 DEF Delivery

\* A tab that turns into tb agrees with the tabs and the claims of its name.
Agrees(tabs, box, t, tb) ==
    /\ tb.state # "new"
    /\ tb.name # t => InUse(tabs, tb.name)
    /\ InUse(tabs, t) => tb.name = t
    /\ Live(tb) =>
           /\ \A u \in Tabs \ {t}, i \in Queued(box) :
                  Live(tabs[u]) /\ tabs[u].name = tb.name => (tabs[u].url = i <=> tb.url = i)
           /\ \A e \in box : e.owner = tb.name /\ Token(e.id) # 0 => tb.url = e.id

LEMMA TabTurns ==
    ASSUME NEW tabs \in [Tabs -> Tab], NEW box \in SUBSET Entry, NEW n \in Nat,
           NEW t \in Tabs, NEW tb \in Tab, NEW new, new = [tabs EXCEPT ![t] = tb],
           Told(tabs, box, n), Names(tabs, box), Carries(tabs, box),
           TabTold(t, tb, box, n), Agrees(tabs, box, t, tb)
    PROVE  Told(new, box, n) /\ Names(new, box) /\ Carries(new, box)
<1>1. new[t] = tb /\ (\A u \in Tabs : u # t => new[u] = tabs[u])
  OBVIOUS
<1>2. Told(new, box, n)
  BY <1>1 DEF Told
<1>3. \A s \in Tabs : InUse(tabs, s) => InUse(new, s)
  BY <1>1 DEF Agrees, InUse
<1>4. Names(new, box)
  <2>1. ASSUME NEW s \in Tabs, NEW u \in Tabs, u # s, new[u].name = s PROVE InUse(new, s)
    <3>1. CASE u = t
      <4>1. InUse(tabs, s)
        BY <1>1, <2>1, <3>1 DEF Agrees
      <4> QED BY <4>1, <1>3
    <3>2. CASE u # t
      <4>1. InUse(tabs, s)
        BY <1>1, <2>1, <3>2 DEF Names
      <4> QED BY <4>1, <1>3
    <3> QED BY <3>1, <3>2
  <2>2. ASSUME NEW e \in box, e.owner # Nobody PROVE InUse(new, e.owner)
    <3>1. e.owner \in Tabs /\ InUse(tabs, e.owner)
      BY <2>2 DEF Names, Entry
    <3> QED BY <3>1, <1>3
  <2> QED BY <2>1, <2>2 DEF Names
<1>5. ASSUME NEW s \in Tabs, Live(new[s]), new[s].url \in Queued(box),
             NEW u \in Tabs, Live(new[u]), new[u].name = new[s].name
      PROVE  new[u].url = new[s].url
  <2>1. CASE s = t /\ u # t
    BY <1>1, <1>5, <2>1 DEF Agrees
  <2>2. CASE s # t /\ u = t
    BY <1>1, <1>5, <2>2 DEF Agrees
  <2>3. CASE s # t /\ u # t
    BY <1>1, <1>5, <2>3 DEF Carries, NameCarries
  <2> QED BY <2>1, <2>2, <2>3
<1>6. ASSUME NEW e \in box, e.owner # Nobody, Token(e.id) # 0,
             NEW u \in Tabs, Live(new[u]), new[u].name = e.owner
      PROVE  new[u].url = e.id
  BY <1>1, <1>6 DEF Agrees, Carries, NameCarries
<1>7. Carries(new, box)
  BY <1>5, <1>6 DEF Carries, NameCarries
<1> QED BY <1>2, <1>4, <1>7

\* A tab that keeps its name, and its posting while that is queued.
LEMMA KeepsPosting ==
    ASSUME NEW tabs \in [Tabs -> Tab], NEW box \in SUBSET Entry, NEW n \in Nat,
           NEW t \in Tabs, NEW tb \in Tab, Names(tabs, box), Carries(tabs, box),
           tb.state # "new", Live(tabs[t]), tb.name = tabs[t].name,
           \A i \in Queued(box) : tabs[t].url = i <=> tb.url = i
    PROVE  Agrees(tabs, box, t, tb)
<1>1. tb.name # t => InUse(tabs, tb.name)
  BY DEF Names, Tab
<1>2. InUse(tabs, t) => tb.name = t
  BY DEF InUse
<1>3. ASSUME NEW u \in Tabs \ {t}, NEW i \in Queued(box), Live(tabs[u]), tabs[u].name = tb.name
      PROVE  tabs[u].url = i <=> tb.url = i
  BY <1>3 DEF Carries, NameCarries
<1>4. ASSUME NEW e \in box, e.owner = tb.name, Token(e.id) # 0
      PROVE  tb.url = e.id
  <2>1. e.owner # Nobody
    BY <1>4, InboxAssumption DEF Tab
  <2>2. tabs[t].url = e.id
    BY <1>4, <2>1 DEF Carries, NameCarries
  <2> QED BY <2>2 DEF Queued
<1> QED BY <1>1, <1>2, <1>3, <1>4 DEF Agrees

\* A tab's step that brings it no new posting.
LEMMA TabStays ==
    ASSUME Inv, DeliveryInv, NEW t \in Tabs, NEW tb \in Tab, Becomes(t, tb),
           UNCHANGED <<inbox, arrived, given>>,
           TabTold(t, tb, inbox, arrived), Agrees(tab, inbox, t, tb),
           Holding(tb) => Holding(tab[t]) /\ tb.item = tab[t].item
    PROVE  DeliveryInv'
<1>0. /\ tab \in [Tabs -> Tab] /\ inbox \in SUBSET Entry /\ arrived \in Nat
      /\ Delivery(tab, inbox, arrived, given)
  BY DEF Inv, TabsInv, QueueInv, DeliveryInv
<1>1. tab' = [tab EXCEPT ![t] = tb]
  BY DEF Becomes
<1>2. Told(tab', inbox, arrived) /\ Names(tab', inbox) /\ Carries(tab', inbox)
  BY <1>0, <1>1, TabTurns DEF Delivery
<1>3. tab'[t] = tb /\ (\A u \in Tabs : u # t => tab'[u] = tab[u])
  BY <1>0, <1>1
<1>4. \A u \in Tabs : Holding(tab'[u]) => Holding(tab[u]) /\ tab'[u].item = tab[u].item
  BY <1>3
<1>5. Once(tab', inbox, arrived, given)
  BY <1>0, <1>4 DEF Delivery, Once
<1>6. Delivery(tab', inbox', arrived', given')
  BY <1>2, <1>5 DEF Delivery
<1>7. ImportsReachTheirTab'
  BY DEF DeliveryInv, ImportsReachTheirTab
<1> QED BY <1>6, <1>7 DEF DeliveryInv

\* A tab's step that leaves its name and its token, and its posting while that is
\* queued.
LEMMA TabTalks ==
    ASSUME Inv, DeliveryInv, NEW t \in Tabs, NEW tb \in Tab, Becomes(t, tb),
           UNCHANGED <<inbox, arrived, given>>,
           tab[t].state = "open", tb.state = "open",
           tb.token = tab[t].token, tb.name = tab[t].name,
           tb.url = tab[t].url \/ (tb.url = 0 /\ tab[t].url \notin Queued(inbox)),
           \/ tb.call \in {"none", "sent"}
           \/ tb.call = tab[t].call /\ tb.reply = tab[t].reply /\ tb.item = tab[t].item
    PROVE  DeliveryInv'
<1>0. /\ tab \in [Tabs -> Tab] /\ inbox \in SUBSET Entry /\ arrived \in Nat
      /\ Delivery(tab, inbox, arrived, given)
  BY DEF Inv, TabsInv, QueueInv, DeliveryInv
<1>1. 0 \notin Queued(inbox)
  BY <1>0 DEF Queued, Entry, Imports
<1>2. TabTold(t, tab[t], inbox, arrived)
  BY <1>0 DEF Delivery, Told
<1>3. Holding(tb) => Holding(tab[t]) /\ tb.item = tab[t].item
  BY DEF Holding
<1>4. TabTold(t, tb, inbox, arrived)
  BY <1>0, <1>1, <1>2, <1>3 DEF TabTold, Live
<1>5. Agrees(tab, inbox, t, tb)
  <2>1. \A i \in Queued(inbox) : tab[t].url = i <=> tb.url = i
    BY <1>1
  <2>2. Live(tab[t]) /\ tb.state # "new"
    BY DEF Live
  <2> QED BY <1>0, <2>1, <2>2, KeepsPosting DEF Delivery
<1> QED BY <1>3, <1>4, <1>5, TabStays

LEMMA CheckInboxAsks ==
    ASSUME NEW tb \in Tab
    PROVE  LET n == CheckInbox(tb)
           IN  /\ n.state = tb.state /\ n.url = tb.url /\ n.token = tb.token /\ n.name = tb.name
               /\ n.reply = tb.reply /\ n.item = tb.item
               /\ n.call = tb.call \/ n.call = "sent"
BY DEF CheckInbox, Tab

LEMMA EndedKeeps ==
    ASSUME NEW tb \in Tab
    PROVE  LET n == Ended(tb)
           IN  /\ n.state = tb.state /\ n.url = tb.url /\ n.token = tb.token /\ n.name = tb.name
               /\ n.call = "none"
BY DEF Ended, Tab

LEMMA RetryKeeps ==
    ASSUME NEW tb \in Tab
    PROVE  LET n == Retry(tb)
           IN  /\ n.state = tb.state /\ n.url = tb.url /\ n.token = tb.token /\ n.name = tb.name
               /\ n.call = tb.call
BY DEF Retry, Tab

\* The steps of a hook that is open.
LEMMA HookStep ==
    ASSUME Inv, Inv', DeliveryInv, NEW t \in Tabs, Open(t),
           UNCHANGED <<inbox, arrived, given>>,
           \/ TimerFires(t) \/ Wake(t) \/ Hide(t) \/ SettleNull(t) \/ SettlePreparing(t)
           \/ Imported(t) \/ FailPoll(t) \/ RefusePoll(t)
    PROVE  DeliveryInv'
<1> DEFINE tb == tab[t]
           d == Ended(tb)
<1>0. tb \in Tab /\ tab \in [Tabs -> Tab] /\ tb.state = "open" /\ TabTold(t, tb, inbox, arrived)
  BY DEF Inv, TabsInv, DeliveryInv, Delivery, Told, Open
<1>1. \A n : Becomes(t, n) => tab'[t] = n /\ n \in Tab
  BY <1>0 DEF Becomes, Inv, TabsInv
<1>d. d \in Tab /\ d.state = "open" /\ d.url = tb.url /\ d.token = tb.token /\ d.name = tb.name
      /\ d.call = "none"
  BY <1>0, EndedIsFit, EndedKeeps
<1>q. 0 \notin Queued(inbox)
  BY DEF Inv, QueueInv, Queued, Entry, Imports
<1>2. CASE TimerFires(t)
  <2> DEFINE n == CheckInbox(tb)
  <2>1. Becomes(t, n) /\ n \in Tab
    BY <1>1, <1>2 DEF TimerFires
  <2>2. /\ n.state = "open" /\ n.url = tb.url /\ n.token = tb.token /\ n.name = tb.name
        /\ n.call = "sent" \/ (n.call = tb.call /\ n.reply = tb.reply /\ n.item = tb.item)
    BY <1>0, CheckInboxAsks
  <2> HIDE DEF n
  <2> QED BY <1>0, <2>1, <2>2, TabTalks
<1>3. CASE Wake(t)
  <2> DEFINE w == [tb EXCEPT !.hidden = FALSE]
             n == CheckInbox(w)
  <2>1. Becomes(t, n) /\ n \in Tab
    BY <1>1, <1>3 DEF Wake
  <2>2. /\ w \in Tab /\ w.state = "open" /\ w.url = tb.url /\ w.token = tb.token /\ w.name = tb.name
        /\ w.call = tb.call /\ w.reply = tb.reply /\ w.item = tb.item
    BY <1>0 DEF Tab
  <2> HIDE DEF w
  <2>3. /\ n.state = "open" /\ n.url = tb.url /\ n.token = tb.token /\ n.name = tb.name
        /\ n.call = "sent" \/ (n.call = tb.call /\ n.reply = tb.reply /\ n.item = tb.item)
    BY <2>2, CheckInboxAsks
  <2> HIDE DEF n
  <2> QED BY <1>0, <2>1, <2>3, TabTalks
<1>4. CASE Hide(t)
  <2> DEFINE n == [tb EXCEPT !.hidden = TRUE]
  <2>1. Becomes(t, n) /\ n \in Tab
    BY <1>1, <1>4 DEF Hide
  <2>2. /\ n.state = "open" /\ n.url = tb.url /\ n.token = tb.token /\ n.name = tb.name
        /\ n.call = tb.call /\ n.reply = tb.reply /\ n.item = tb.item
    BY <1>0 DEF Tab
  <2> HIDE DEF n
  <2> QED BY <1>0, <2>1, <2>2, TabTalks
<1>5. CASE SettleNull(t)
  <2> DEFINE e == [d EXCEPT !.retries = 0, !.preparing = FALSE]
             n == IF tb.token = 0 THEN e ELSE [e EXCEPT !.claim = FALSE, !.url = 0]
  <2>1. Becomes(t, n) /\ n \in Tab /\ tb.call = "answered" /\ tb.reply = "null"
    BY <1>1, <1>5 DEF SettleNull
  <2>2. /\ n.state = "open" /\ n.token = tb.token /\ n.name = tb.name /\ n.call = "none"
        /\ n.url = tb.url \/ (n.url = 0 /\ tb.token # 0)
    <3> HIDE DEF d
    <3>1. e.state = "open" /\ e.token = tb.token /\ e.name = tb.name /\ e.call = "none" /\ e.url = tb.url
      BY <1>d DEF Tab
    <3>2. CASE tb.token = 0
      BY <3>1, <3>2
    <3>3. CASE tb.token # 0
      BY <1>d, <3>3 DEF Tab
    <3> QED BY <3>2, <3>3
  <2>3. tb.token # 0 => tb.url \notin Queued(inbox)
    BY <1>0, <1>q, <2>1 DEF TabTold
  <2> HIDE DEF n
  <2> QED BY <1>0, <2>1, <2>2, <2>3, TabTalks
<1>6. CASE SettlePreparing(t)
  <2> DEFINE n == [d EXCEPT !.retries = 0, !.preparing = TRUE, !.timer = TRUE]
  <2>1. Becomes(t, n) /\ n \in Tab
    BY <1>1, <1>6 DEF SettlePreparing
  <2>2. /\ n.state = "open" /\ n.url = tb.url /\ n.token = tb.token /\ n.name = tb.name
        /\ n.call = "none"
    <3> HIDE DEF d
    <3> QED BY <1>d DEF Tab
  <2> HIDE DEF n
  <2> QED BY <1>0, <2>1, <2>2, TabTalks
<1>7. CASE Imported(t)
  <2> DEFINE n == [d EXCEPT !.claim = FALSE, !.url = 0]
  <2>1. Becomes(t, n) /\ n \in Tab /\ tb.call = "importing"
    BY <1>1, <1>7 DEF Imported
  <2>2. /\ n.state = "open" /\ n.url = 0 /\ n.token = tb.token /\ n.name = tb.name
        /\ n.call = "none"
    <3> HIDE DEF d
    <3> QED BY <1>d DEF Tab
  <2>3. tb.url \notin Queued(inbox)
    BY <1>0, <1>q, <2>1 DEF TabTold
  <2> HIDE DEF n
  <2> QED BY <1>0, <2>1, <2>2, <2>3, TabTalks
<1>8. CASE FailPoll(t)
  <2> DEFINE n == Retry(d)
  <2>1. Becomes(t, n) /\ n \in Tab
    BY <1>1, <1>8 DEF FailPoll
  <2>2. /\ n.state = "open" /\ n.url = tb.url /\ n.token = tb.token /\ n.name = tb.name
        /\ n.call = "none"
    BY <1>d, RetryKeeps
  <2> HIDE DEF n
  <2> QED BY <1>0, <2>1, <2>2, TabTalks
<1>9. CASE RefusePoll(t)
  <2> DEFINE n == [d EXCEPT !.preparing = FALSE]
  <2>1. Becomes(t, n) /\ n \in Tab
    BY <1>1, <1>9 DEF RefusePoll
  <2>2. /\ n.state = "open" /\ n.url = tb.url /\ n.token = tb.token /\ n.name = tb.name
        /\ n.call = "none"
    <3> HIDE DEF d
    <3> QED BY <1>d DEF Tab
  <2> HIDE DEF n
  <2> QED BY <1>0, <2>1, <2>2, TabTalks
<1> QED BY <1>2, <1>3, <1>4, <1>5, <1>6, <1>7, <1>8, <1>9

\* Tabs open, start, take their own name, reload and close.
LEMMA LifeStep ==
    ASSUME Inv, Inv', DeliveryInv, NEW t \in Tabs, UNCHANGED <<inbox, arrived, given>>,
           Start(t) \/ OpenTab(t) \/ Rename(t) \/ Reload(t) \/ Close(t)
    PROVE  DeliveryInv'
<1> DEFINE tb == tab[t]
<1>0. /\ tb \in Tab /\ tab \in [Tabs -> Tab] /\ TabTold(t, tb, inbox, arrived)
      /\ inbox \in SUBSET Entry /\ arrived \in Nat
      /\ Names(tab, inbox) /\ Carries(tab, inbox)
  BY DEF Inv, TabsInv, QueueInv, DeliveryInv, Delivery, Told
<1>1. \A n : Becomes(t, n) => n \in Tab
  BY <1>0 DEF Becomes, Inv, TabsInv
<1>q. 0 \notin Queued(inbox)
  BY <1>0 DEF Queued, Entry, Imports
<1>2. CASE Start(t)
  <2> DEFINE s == [tb EXCEPT !.state = "open", !.token = tb.url, !.claim = tb.url # 0]
             n == CheckInbox(s)
  <2>1. Becomes(t, n) /\ n \in Tab /\ tb.state = "loading"
    BY <1>1, <1>2 DEF Start
  <2>2. /\ s \in Tab /\ s.state = "open" /\ s.url = tb.url /\ s.token = tb.url /\ s.name = tb.name
        /\ s.call = tb.call
    BY <1>0 DEF Tab
  <2> HIDE DEF s
  <2>3. /\ n.state = "open" /\ n.url = tb.url /\ n.token = tb.url /\ n.name = tb.name
        /\ n.call \in {"sent", tb.call}
    BY <2>2, CheckInboxAsks
  <2> HIDE DEF n
  <2>4. tb.call = "none"
    BY <1>0, <2>1 DEF TabTold
  <2>5. TabTold(t, n, inbox, arrived) /\ ~Holding(n)
    BY <1>0, <2>3, <2>4 DEF TabTold, Live, Holding
  <2>6. Live(tb) /\ n.state # "new"
    BY <2>1, <2>3 DEF Live
  <2>7. Agrees(tab, inbox, t, n)
    BY <1>0, <2>1, <2>3, <2>6, KeepsPosting
  <2> QED BY <2>1, <2>5, <2>7, TabStays
<1>3. CASE OpenTab(t)
  <2>1. PICK token \in 0 .. arrived :
            /\ token = 0 \/ Token(token) = token
            /\ Becomes(t, [tb EXCEPT !.state = "loading", !.url = token])
    BY <1>3, Zenon DEF OpenTab
  <2> DEFINE n == [tb EXCEPT !.state = "loading", !.url = token]
  <2>2. Becomes(t, n) /\ n \in Tab /\ tb.state = "new"
    BY <1>1, <1>3, <2>1, Zenon DEF OpenTab
  <2>3. tb.name = t /\ tb.call = "none"
    BY <1>0, <2>2 DEF TabTold, Live
  <2>4. n.state = "loading" /\ n.url = token /\ n.token = tb.token /\ n.name = t /\ n.call = "none"
    BY <1>0, <2>3 DEF Tab
  <2> HIDE DEF n
  <2>5. TabTold(t, n, inbox, arrived) /\ ~Holding(n)
    BY <1>0, <2>1, <2>4 DEF TabTold, Live, Holding
  <2>6. ~InUse(tab, t)
    BY <2>2 DEF InUse
  <2>7. /\ \A u \in Tabs \ {t} : tab[u].name # t
        /\ \A e \in inbox : e.owner # t
    BY <1>0, <2>6, InboxAssumption DEF Names
  <2>8. Agrees(tab, inbox, t, n)
    BY <2>4, <2>6, <2>7 DEF Agrees
  <2> QED BY <2>2, <2>5, <2>8, TabStays
<1>4. CASE Rename(t)
  <2> DEFINE n == [tb EXCEPT !.name = t]
  <2>1. Becomes(t, n) /\ n \in Tab /\ tb.name # t
    BY <1>1, <1>4 DEF Rename
  <2>2. Live(tb)
    BY <1>0, <2>1 DEF TabTold
  <2>3. /\ n.state = tb.state /\ n.url = tb.url /\ n.token = tb.token /\ n.name = t
        /\ n.call = tb.call /\ n.reply = tb.reply /\ n.item = tb.item
    BY <1>0 DEF Tab
  <2> HIDE DEF n
  <2>4. TabTold(t, n, inbox, arrived) /\ (Holding(n) => Holding(tb) /\ n.item = tb.item)
    BY <1>0, <2>2, <2>3 DEF TabTold, Live, Holding
  <2>5. ~InUse(tab, t)
    BY <2>1 DEF InUse
  <2>6. /\ \A u \in Tabs \ {t} : tab[u].name # t
        /\ \A e \in inbox : e.owner # t
    BY <1>0, <2>5, InboxAssumption DEF Names
  <2>7. Agrees(tab, inbox, t, n)
    BY <2>2, <2>3, <2>5, <2>6 DEF Agrees, Live
  <2> QED BY <2>1, <2>4, <2>7, TabStays
<1>5. CASE Reload(t)
  <2> DEFINE b == NewTab(t)
             n == [b EXCEPT !.state = "loading", !.url = tb.url, !.name = tb.name]
  <2>1. Becomes(t, n) /\ n \in Tab /\ tb.state = "open"
    BY <1>1, <1>5 DEF Reload, Open
  <2>2. n.state = "loading" /\ n.url = tb.url /\ n.token = 0 /\ n.name = tb.name /\ n.call = "none"
    BY DEF NewTab
  <2> HIDE DEF n
  <2>3. TabTold(t, n, inbox, arrived) /\ ~Holding(n)
    BY <1>0, <2>1, <2>2 DEF TabTold, Live, Holding
  <2>4. Live(tb) /\ n.state # "new"
    BY <2>1, <2>2 DEF Live
  <2>5. Agrees(tab, inbox, t, n)
    BY <1>0, <2>1, <2>2, <2>4, KeepsPosting
  <2> QED BY <2>1, <2>3, <2>5, TabStays
<1>6. CASE Close(t)
  <2> DEFINE b == NewTab(t)
             n == [b EXCEPT !.state = "closed"]
  <2>1. Becomes(t, n) /\ n \in Tab
    BY <1>1, <1>6 DEF Close
  <2>2. n.state = "closed" /\ n.url = 0 /\ n.token = 0 /\ n.name = t /\ n.call = "none"
    BY DEF NewTab
  <2> HIDE DEF n
  <2>3. TabTold(t, n, inbox, arrived) /\ ~Holding(n)
    BY <1>0, <2>2 DEF TabTold, Live, Holding
  <2>4. Agrees(tab, inbox, t, n)
    BY <2>2 DEF Agrees, Live
  <2> QED BY <2>1, <2>3, <2>4, TabStays
<1> QED BY <1>2, <1>3, <1>4, <1>5, <1>6

\* A copy of a tab takes its address and its name.
LEMMA DuplicateStep ==
    ASSUME Inv, Inv', DeliveryInv, NEW t \in Tabs, NEW u \in Tabs, DuplicateTab(t, u)
    PROVE  DeliveryInv'
<1> DEFINE tb == tab[t]
           b == tab[u]
           n == [b EXCEPT !.state = "loading", !.url = tb.url, !.name = tb.name]
<1>0. /\ tb \in Tab /\ b \in Tab /\ tab \in [Tabs -> Tab]
      /\ TabTold(t, tb, inbox, arrived) /\ TabTold(u, b, inbox, arrived)
      /\ inbox \in SUBSET Entry /\ arrived \in Nat
      /\ Names(tab, inbox) /\ Carries(tab, inbox)
  BY DEF Inv, TabsInv, QueueInv, DeliveryInv, Delivery, Told
<1>1. Becomes(u, n) /\ tb.state = "open" /\ b.state = "new" /\ UNCHANGED <<inbox, arrived, given>>
  BY DEF DuplicateTab, Open
<1>2. n \in Tab
  BY <1>0, <1>1 DEF Becomes, Inv, TabsInv
<1>3. b.name = u /\ b.call = "none"
  BY <1>0, <1>1 DEF TabTold, Live
<1>4. n.state = "loading" /\ n.url = tb.url /\ n.token = b.token /\ n.name = tb.name /\ n.call = "none"
  BY <1>0, <1>3 DEF Tab
<1> HIDE DEF n
<1>5. TabTold(u, n, inbox, arrived) /\ ~Holding(n)
  BY <1>0, <1>4 DEF TabTold, Live, Holding
<1>6. ~InUse(tab, u) /\ Live(tb)
  BY <1>1 DEF InUse, Live
<1>7. InUse(tab, tb.name)
  <2>1. CASE tb.name = t
    BY <1>1, <2>1 DEF InUse
  <2>2. CASE tb.name # t
    <3>1. tb.name \in Tabs
      BY <1>0 DEF Tab
    <3> QED BY <1>0, <2>2, <3>1 DEF Names
  <2> QED BY <2>1, <2>2
<1>8. ASSUME NEW v \in Tabs \ {u}, NEW i \in Queued(inbox), Live(tab[v]), tab[v].name = tb.name
      PROVE  tab[v].url = i <=> tb.url = i
  BY <1>0, <1>6, <1>8 DEF Carries, NameCarries
<1>9. ASSUME NEW e \in inbox, e.owner = tb.name, Token(e.id) # 0
      PROVE  tb.url = e.id
  <2>1. e.owner # Nobody
    BY <1>0, <1>9, InboxAssumption DEF Tab
  <2> QED BY <1>0, <1>6, <1>9, <2>1 DEF Carries, NameCarries
<1>10. Agrees(tab, inbox, u, n)
  BY <1>4, <1>6, <1>7, <1>8, <1>9 DEF Agrees
<1> QED BY <1>1, <1>2, <1>5, <1>10, TabStays

\* A posting is handed over to the tab whose poll brought it.
LEMMA HandOver ==
    ASSUME Inv, Inv', DeliveryInv, NEW t \in Tabs, SettleImport(t)
    PROVE  DeliveryInv'
<1> DEFINE tb == tab[t]
           n == [tb EXCEPT !.call = "importing", !.retries = 0, !.preparing = FALSE]
           i == tb.item
<1>0. /\ tb \in Tab /\ tab \in [Tabs -> Tab] /\ TabTold(t, tb, inbox, arrived)
      /\ inbox \in SUBSET Entry /\ arrived \in Nat
      /\ Told(tab, inbox, arrived) /\ Names(tab, inbox) /\ Carries(tab, inbox)
      /\ Once(tab, inbox, arrived, given)
      /\ given \in [Imports -> Seq(0 .. MaxImports)]
  BY DEF Inv, TabsInv, QueueInv, RestInv, DeliveryInv, Delivery, Told
<1>1. /\ Becomes(t, n) /\ UNCHANGED <<inbox, arrived>> /\ Holding(tb)
      /\ given' = [given EXCEPT ![i] = Append(@, tb.token)]
  BY DEF SettleImport, Holding
<1>2. n \in Tab
  BY <1>0, <1>1 DEF Becomes, Inv, TabsInv
<1>3. /\ n.state = tb.state /\ n.url = tb.url /\ n.token = tb.token /\ n.name = tb.name
      /\ n.call = "importing"
  BY <1>0 DEF Tab
<1>4. tab' = [tab EXCEPT ![t] = n]
  BY <1>1 DEF Becomes
<1> HIDE DEF n
<1>5. tb.state = "open" /\ i \in Imports /\ i <= arrived /\ i \notin Queued(inbox)
      /\ (Token(i) # 0 => tb.token = i)
  BY <1>0, <1>1 DEF TabTold, Holding
<1>6. ~(tb.token # 0 /\ tb.token \in Queued(inbox))
  BY <1>0, <1>1, <1>5 DEF TabTold, Holding
<1>7. TabTold(t, n, inbox, arrived) /\ ~Holding(n)
  BY <1>0, <1>3, <1>5, <1>6 DEF TabTold, Live, Holding
<1>8. Agrees(tab, inbox, t, n)
  <2>1. Live(tb) /\ n.state # "new"
    BY <1>3, <1>5 DEF Live
  <2> QED BY <1>0, <1>2, <1>3, <2>1, KeepsPosting
<1>9. Told(tab', inbox, arrived) /\ Names(tab', inbox) /\ Carries(tab', inbox)
  BY <1>0, <1>2, <1>4, <1>7, <1>8, TabTurns
<1>10. tab'[t] = n /\ (\A u \in Tabs : u # t => tab'[u] = tab[u])
  BY <1>0, <1>4
<1>11. \A u \in Tabs : Holding(tab'[u]) => u # t /\ tab'[u] = tab[u] /\ Holding(tab[u])
  BY <1>7, <1>10
<1>12. given[i] = <<>>
  BY <1>0, <1>1, <1>5 DEF Once
<1>13. given'[i] = <<tb.token>> /\ (\A j \in Imports : j # i => given'[j] = given[j])
  BY <1>0, <1>1, <1>5, <1>12
<1>14. Once(tab', inbox, arrived, given')
  <2>1. ASSUME NEW s \in Tabs, NEW u \in Tabs,
               Holding(tab'[s]), Holding(tab'[u]), tab'[s].item = tab'[u].item
        PROVE  s = u
    BY <1>0, <1>11, <2>1 DEF Once
  <2>2. ASSUME NEW j \in Imports, given'[j] # <<>>
        PROVE  /\ j <= arrived /\ j \notin Queued(inbox)
               /\ \A u \in Tabs : Holding(tab'[u]) => tab'[u].item # j
    <3>1. CASE j = i
      BY <1>0, <1>1, <1>5, <1>11, <3>1 DEF Once
    <3>2. CASE j # i
      BY <1>0, <1>11, <1>13, <2>2, <3>2 DEF Once
    <3> QED BY <3>1, <3>2
  <2> QED BY <2>1, <2>2 DEF Once
<1>15. ImportsReachTheirTab'
  <2> SUFFICES ASSUME NEW j \in Imports
               PROVE  /\ Len(given'[j]) <= 1
                      /\ \A k \in DOMAIN given'[j] : Token(j) # 0 => given'[j][k] = j
    BY DEF ImportsReachTheirTab
  <2>1. CASE j = i
    <3> DEFINE s == <<tb.token>>
    <3>1. Len(s) = 1 /\ s[1] = tb.token /\ \A k \in DOMAIN s : k = 1
      OBVIOUS
    <3>2. given'[j] = s
      BY <1>13, <2>1
    <3> HIDE DEF s
    <3>3. \A k \in DOMAIN s : Token(j) # 0 => s[k] = j
      BY <1>5, <2>1, <3>1
    <3>4. Len(s) <= 1
      BY <3>1
    <3> QED BY <3>2, <3>3, <3>4
  <2>2. CASE j # i
    BY <1>13, <2>2 DEF DeliveryInv, ImportsReachTheirTab
  <2> QED BY <2>1, <2>2
<1> QED BY <1>1, <1>9, <1>14, <1>15 DEF DeliveryInv, Delivery

\* A poll's answer: the queue loses the posting that is handed over, or claims one
\* for the name that asks.
LEMMA Claims ==
    ASSUME NEW tabs \in [Tabs -> Tab], NEW box \in SUBSET Entry, NEW n \in Nat, NEW handed,
           Unique(box), Delivery(tabs, box, n, handed),
           NEW e \in box, NEW entry \in Entry, entry.id = e.id, entry.owner \in Tabs,
           InUse(tabs, entry.owner),
           Token(e.id) # 0 => NameCarries(tabs, entry.owner, e.id)
    PROVE  Delivery(tabs, Updated(box, entry), n, handed)
<1> DEFINE new == Updated(box, entry)
<1>0. Told(tabs, box, n) /\ Names(tabs, box) /\ Carries(tabs, box) /\ Once(tabs, box, n, handed)
  BY DEF Delivery
<1>1. \A f \in new : f = entry \/ f \in box
  BY DEF Updated
<1>2. Queued(new) \subseteq Queued(box)
  BY <1>1 DEF Queued
<1> HIDE DEF new
<1>3. Told(tabs, new, n)
  BY <1>0, <1>2 DEF Told, TabTold
<1>4. Names(tabs, new)
  BY <1>0, <1>1 DEF Names
<1>5. Carries(tabs, new)
  BY <1>0, <1>1, <1>2 DEF Carries
<1>6. Once(tabs, new, n, handed)
  BY <1>0, <1>2 DEF Once
<1> QED BY <1>3, <1>4, <1>5, <1>6 DEF Delivery, new

\* The posting a poll is answered with is the one of the tab's token, or has none.
LEMMA ChosenFits ==
    ASSUME NEW tabs \in [Tabs -> Tab], NEW box \in SUBSET Entry, NEW n \in Nat, NEW handed,
           Delivery(tabs, box, n, handed), NEW t \in Tabs, tabs[t].state = "open",
           NEW e \in Chosen(box, tabs[t].token, tabs[t].name), Token(e.id) # 0
    PROVE  /\ e.id = tabs[t].token
           /\ NameCarries(tabs, tabs[t].name, e.id)
<1> DEFINE token == tabs[t].token
           name == tabs[t].name
           named == {f \in box : token # 0 /\ Token(f.id) = token}
           owned == {f \in box : f.owner = name}
           free == Unclaimed(box)
<1>0. /\ TabTold(t, tabs[t], box, n) /\ Carries(tabs, box) /\ Live(tabs[t]) /\ name \in Tabs
      /\ token \in Nat /\ \A f \in box : f.id \in Nat /\ Token(f.id) \in {0, f.id} /\ f.id # 0
  BY DEF Delivery, Told, Live, Tab, Entry, Imports, Token
<1>1. named \in SUBSET Entry /\ owned \in SUBSET Entry /\ free \in SUBSET Entry
  BY DEF Unclaimed
<1>2. Chosen(box, token, name) =
        CASE named # {} -> {Oldest(named)}
          [] named = {} /\ owned # {} -> {Oldest(owned)}
          [] OTHER -> IF free = {} THEN {} ELSE {Oldest(free)}
  BY DEF Chosen
<1>3. e \in named \/ e \in owned \/ e \in free
  <2> HIDE DEF named, owned, free
  <2>1. CASE named # {}
    BY <1>1, <1>2, <2>1, OldestIsOne
  <2>2. CASE named = {} /\ owned # {}
    BY <1>1, <1>2, <2>2, OldestIsOne
  <2>3. CASE named = {} /\ owned = {}
    BY <1>1, <1>2, <2>3, OldestIsOne
  <2> QED BY <2>1, <2>2, <2>3
<1>4. CASE e \in named
  <2>1. e \in box /\ e.id = token /\ token # 0
    BY <1>0, <1>4
  <2>2. token \in Queued(box)
    BY <2>1 DEF Queued
  <2>3. tabs[t].url = token
    BY <1>0, <2>1, <2>2 DEF TabTold
  <2>4. NameCarries(tabs, name, token)
    BY <1>0, <2>2, <2>3 DEF Carries
  <2> QED BY <2>1, <2>4
<1>5. CASE e \in owned
  <2>1. e \in box /\ e.owner = name /\ e.owner # Nobody
    BY <1>0, <1>5, InboxAssumption
  <2>2. NameCarries(tabs, name, e.id)
    BY <1>0, <2>1 DEF Carries
  <2>3. tabs[t].url = e.id
    BY <1>0, <2>2 DEF NameCarries
  <2>4. tabs[t].url = token
    BY <1>0, <2>1, <2>3 DEF TabTold
  <2> QED BY <2>2, <2>3, <2>4
<1>6. CASE e \in free
  BY <1>6 DEF Unclaimed
<1> QED BY <1>3, <1>4, <1>5, <1>6

\* A poll is answered with the posting of its token while that is queued.
LEMMA TokenIsServed ==
    ASSUME NEW box \in SUBSET Entry, Unique(box), NEW token \in Nat, token # 0,
           Token(token) = token, NEW name, token \in Queued(box)
    PROVE  \E e \in box : e.id = token /\ Chosen(box, token, name) = {e}
<1> DEFINE named == {f \in box : token # 0 /\ Token(f.id) = token}
<1>1. PICK e \in box : e.id = token
  BY DEF Queued
<1>2. e \in named /\ named \in SUBSET Entry
  BY <1>1
<1>3. \A f \in named : f = e
  <2> SUFFICES ASSUME NEW f \in box, Token(f.id) = token PROVE f = e
    OBVIOUS
  <2>1. f.id = token
    BY DEF Token
  <2> QED BY <1>1, <2>1 DEF Unique
<1>4. Chosen(box, token, name) = {Oldest(named)}
  BY <1>2 DEF Chosen
<1> HIDE DEF named
<1>5. Oldest(named) = e
  BY <1>2, <1>3, OldestIsOne
<1> QED BY <1>1, <1>4, <1>5

\* The queue as a poll finds it has only lost postings and claims.
LEMMA PolledLoses ==
    ASSUME NEW box \in SUBSET Entry, NEW n
    PROVE  Loses(Released(Pruned(box)), box, n)
<1>1. Pruned(box) \subseteq box
  BY DEF Pruned
<1>2. ASSUME NEW f \in Released(Pruned(box))
      PROVE  \E e \in box : e.id = f.id /\ f.owner \in {e.owner, Nobody}
  <2>1. PICK e \in Pruned(box) : f = IF e.quiet THEN [e EXCEPT !.owner = Nobody] ELSE e
    BY DEF Released
  <2>2. e \in box /\ e \in Entry
    BY <1>1
  <2>3. f.id = e.id /\ f.owner \in {e.owner, Nobody}
    BY <2>1, <2>2 DEF Entry
  <2> QED BY <2>2, <2>3
<1> QED BY <1>2 DEF Loses

LEMMA PollDelivers ==
    ASSUME Inv, Inv', DeliveryInv, NEW t \in Tabs, ServerPoll(t)
    PROVE  DeliveryInv'
<1> DEFINE tb == tab[t]
           box == Released(Pruned(inbox))
           chosen == Chosen(box, tb.token, tb.name)
           a == [tb EXCEPT !.call = "answered"]
<1>u. tb.call = "sent" /\ UNCHANGED <<arrived, given>>
  BY Zenon DEF ServerPoll
<1>0. /\ tb \in Tab /\ tab \in [Tabs -> Tab] /\ tb.call = "sent"
      /\ inbox \in SUBSET Entry /\ arrived \in Nat /\ (\A e \in inbox : e.id <= arrived)
      /\ Delivery(tab, inbox, arrived, given)
      /\ UNCHANGED <<arrived, given>>
  BY <1>u DEF Inv, TabsInv, QueueInv, DeliveryInv
<1>b. box \in SUBSET Entry /\ Unique(box) /\ (\A f \in box : \E e \in inbox : f.id = e.id)
  BY PolledBox DEF Inv, Refines
<1>1. Delivery(tab, box, arrived, given)
  <2>1. Loses(box, inbox, arrived)
    BY <1>0, PolledLoses
  <2> HIDE DEF box
  <2> QED BY <1>0, <1>b, <2>1, QueueLoses
<1>i. \A f \in box : f.id \in Imports /\ f.id <= arrived
  BY <1>0, <1>b DEF Entry
<1>p. \/ /\ chosen = {} /\ inbox' = box
         /\ Becomes(t, [a EXCEPT !.reply = "null"])
      \/ \E e \in chosen :
         /\ inbox' = Updated(box, [e EXCEPT !.owner = tb.name, !.quiet = FALSE])
         /\ Becomes(t, [a EXCEPT !.reply = "preparing"])
      \/ \E e \in chosen :
         /\ inbox' = box \ {e}
         /\ Becomes(t, [a EXCEPT !.reply = "import", !.item = e.id])
  BY Zenon DEF ServerPoll
<1>2. TabTold(t, tb, box, arrived) /\ tb.state = "open" /\ Live(tb) /\ tb.name \in Tabs /\ tb.token \in Nat
  BY <1>0, <1>1 DEF Delivery, Told, TabTold, Live, Tab
<1>a. /\ a \in Tab /\ a.state = tb.state /\ a.url = tb.url /\ a.token = tb.token /\ a.name = tb.name
      /\ a.call = "answered"
  BY <1>0 DEF Tab
<1>c. Token(tb.token) = tb.token \/ tb.token = 0
  BY <1>2 DEF TabTold
<1>f. \A e \in chosen : /\ e \in box
                        /\ Token(e.id) # 0 => e.id = tb.token /\ NameCarries(tab, tb.name, e.id)
  <2> HIDE DEF box
  <2> QED BY <1>0, <1>b, <1>1, <1>2, ChosenIsQueued, ChosenFits
<1>s. tb.token # 0 /\ tb.token \in Queued(box) => \E e \in box : e.id = tb.token /\ chosen = {e}
  <2> HIDE DEF box
  <2> QED BY <1>b, <1>2, <1>c, TokenIsServed
<1>t. ImportsReachTheirTab'
  BY <1>0 DEF DeliveryInv, ImportsReachTheirTab
<1> HIDE DEF box, chosen, a
\* the tab is told so; what it is brought has left the queue
<1>3. ASSUME NEW n, Becomes(t, n), n.state = tb.state, n.url = tb.url, n.token = tb.token, n.name = tb.name,
             n.call = "answered", NEW new \in SUBSET Entry, inbox' = new,
             Delivery(tab, new, arrived, given), TabTold(t, n, new, arrived),
             Holding(n) => /\ n.item \in Imports /\ given[n.item] = <<>>
                           /\ \A u \in Tabs : Holding(tab[u]) => tab[u].item # n.item
      PROVE  DeliveryInv'
  <2>1. tab' = [tab EXCEPT ![t] = n] /\ n \in Tab
    BY <1>0, <1>3 DEF Becomes, Inv, TabsInv
  <2>2. Told(tab, new, arrived) /\ Names(tab, new) /\ Carries(tab, new) /\ Once(tab, new, arrived, given)
    BY <1>3 DEF Delivery
  <2>3. n.state # "new" /\ (\A i \in Queued(new) : tab[t].url = i <=> n.url = i)
    BY <1>2, <1>3
  <2>4. Agrees(tab, new, t, n)
    BY <1>0, <1>2, <1>3, <2>1, <2>2, <2>3, KeepsPosting
  <2>5. Told(tab', new, arrived) /\ Names(tab', new) /\ Carries(tab', new)
    BY <1>0, <1>3, <2>1, <2>2, <2>4, TabTurns
  <2>6. tab'[t] = n /\ (\A u \in Tabs : u # t => tab'[u] = tab[u])
    BY <1>0, <2>1
  <2>7. Once(tab', new, arrived, given)
    <3>1. ASSUME NEW s \in Tabs, NEW u \in Tabs,
                 Holding(tab'[s]), Holding(tab'[u]), tab'[s].item = tab'[u].item
          PROVE  s = u
      BY <1>3, <2>2, <2>6, <3>1 DEF Once
    <3>2. ASSUME NEW i \in Imports, given[i] # <<>>
          PROVE  /\ i <= arrived /\ i \notin Queued(new)
                 /\ \A u \in Tabs : Holding(tab'[u]) => tab'[u].item # i
      BY <1>3, <2>2, <2>6, <3>2 DEF Once
    <3> QED BY <3>1, <3>2 DEF Once
  <2>8. Delivery(tab', inbox', arrived', given')
    BY <1>0, <1>3, <2>5, <2>7 DEF Delivery
  <2> QED BY <1>t, <2>8 DEF DeliveryInv
<1>4. CASE chosen = {} /\ inbox' = box /\ Becomes(t, [a EXCEPT !.reply = "null"])
  <2> DEFINE n == [a EXCEPT !.reply = "null"]
  <2>1. /\ Becomes(t, n) /\ n.state = tb.state /\ n.url = tb.url /\ n.token = tb.token /\ n.name = tb.name
        /\ n.call = "answered" /\ n.reply = "null"
    BY <1>4, <1>a DEF Tab
  <2> HIDE DEF n
  <2>2. ~(tb.token # 0 /\ tb.token \in Queued(box))
    BY <1>4, <1>s
  <2>3. TabTold(t, n, box, arrived) /\ ~Holding(n)
    BY <1>2, <2>1, <2>2 DEF TabTold, Live, Holding
  <2> QED BY <1>b, <1>1, <1>3, <1>4, <2>1, <2>3
<1>5. ASSUME NEW e \in chosen,
             inbox' = Updated(box, [e EXCEPT !.owner = tb.name, !.quiet = FALSE]),
             Becomes(t, [a EXCEPT !.reply = "preparing"])
      PROVE  DeliveryInv'
  <2> DEFINE n == [a EXCEPT !.reply = "preparing"]
             entry == [e EXCEPT !.owner = tb.name, !.quiet = FALSE]
             new == Updated(box, entry)
  <2>1. /\ Becomes(t, n) /\ n.state = tb.state /\ n.url = tb.url /\ n.token = tb.token /\ n.name = tb.name
        /\ n.call = "answered" /\ n.reply = "preparing"
    BY <1>5, <1>a DEF Tab
  <2> HIDE DEF n
  <2>2. e \in box /\ e \in Entry
    BY <1>b, <1>f
  <2>3. entry \in Entry /\ entry.id = e.id /\ entry.owner = tb.name /\ inbox' = new
    BY <1>2, <1>5, <2>2 DEF Entry
  <2> HIDE DEF entry
  <2>4. new \in SUBSET Entry /\ Queued(new) \subseteq Queued(box)
    BY <1>b, <2>2, <2>3 DEF Updated, Queued
  <2>5. InUse(tab, tb.name)
    <3>1. CASE tb.name = t
      BY <1>2, <3>1 DEF InUse
    <3>2. CASE tb.name # t
      BY <1>1, <1>2, <3>2 DEF Delivery, Names
    <3> QED BY <3>1, <3>2
  <2>6. Delivery(tab, new, arrived, given)
    <3>1. Token(e.id) # 0 => NameCarries(tab, entry.owner, e.id)
      BY <1>f, <2>3
    <3> QED BY <1>0, <1>b, <1>1, <1>2, <2>2, <2>3, <2>5, <3>1, Claims
  <2>7. TabTold(t, n, new, arrived) /\ ~Holding(n)
    BY <1>2, <2>1, <2>4 DEF TabTold, Live, Holding
  <2> HIDE DEF new
  <2> QED BY <1>3, <2>1, <2>3, <2>4, <2>6, <2>7
<1>6. ASSUME NEW e \in chosen, inbox' = box \ {e},
             Becomes(t, [a EXCEPT !.reply = "import", !.item = e.id])
      PROVE  DeliveryInv'
  <2> DEFINE n == [a EXCEPT !.reply = "import", !.item = e.id]
             new == box \ {e}
  <2>1. /\ Becomes(t, n) /\ n.state = tb.state /\ n.url = tb.url /\ n.token = tb.token /\ n.name = tb.name
        /\ n.call = "answered" /\ n.reply = "import" /\ n.item = e.id
    BY <1>6, <1>a DEF Tab
  <2> HIDE DEF n
  <2>2. e \in box /\ e.id \in Imports /\ e.id <= arrived
    BY <1>f, <1>i
  <2>3. Queued(new) \subseteq Queued(box) /\ e.id \notin Queued(new) /\ e.id \in Queued(box)
    BY <1>b, <2>2 DEF Queued, Unique
  <2>4. Delivery(tab, new, arrived, given)
    <3>1. new \in SUBSET Entry /\ Loses(new, box, arrived)
      BY <1>b DEF Loses
    <3> HIDE DEF new
    <3> QED BY <1>0, <1>b, <1>1, <3>1, QueueLoses
  <2>5. ~(tb.token # 0 /\ tb.token \in Queued(new))
    <3> SUFFICES ASSUME tb.token # 0, tb.token \in Queued(new) PROVE FALSE
      OBVIOUS
    <3>1. PICK f \in box : f.id = tb.token /\ chosen = {f}
      BY <1>s, <2>3
    <3>2. e = f
      BY <1>6, <3>1
    <3> QED BY <2>3, <3>1, <3>2
  <2> HIDE DEF new
  <2>6. TabTold(t, n, new, arrived)
    BY <1>2, <1>f, <2>1, <2>2, <2>3, <2>5 DEF TabTold, Live, Holding
  <2>7. /\ given[e.id] = <<>>
        /\ \A u \in Tabs : Holding(tab[u]) => tab[u].item # e.id
    BY <1>1, <2>2, <2>3 DEF Delivery, Once, Told, TabTold
  <2>8. new \in SUBSET Entry /\ inbox' = new
    BY <1>b, <1>6 DEF new
  <2> QED BY <1>3, <2>1, <2>2, <2>4, <2>6, <2>7, <2>8
<1> QED BY <1>p, <1>4, <1>5, <1>6, Zenon

LEMMA QueueDelivers ==
    ASSUME Inv, Inv', DeliveryInv, Import \/ PrepareEnds \/ OwnerQuiet \/ Expire \/ Restart
    PROVE  DeliveryInv'
<1>0. /\ tab \in [Tabs -> Tab] /\ inbox \in SUBSET Entry /\ inbox' \in SUBSET Entry
      /\ arrived \in Nat /\ arrived' \in Nat /\ Delivery(tab, inbox, arrived, given)
      /\ UNCHANGED <<tab, given>>
  BY DEF Inv, TabsInv, QueueInv, DeliveryInv, Import, PrepareEnds, OwnerQuiet, Expire, Restart
<1>1. Loses(inbox', inbox, arrived) /\ arrived <= arrived'
  <2>1. CASE Import
    <3> DEFINE entry == [id |-> arrived + 1, status |-> "preparing", owner |-> Nobody,
                         quiet |-> FALSE, expired |-> FALSE]
    <3>1. arrived' = arrived + 1 /\ inbox' = Pruned(inbox \cup {entry})
      BY <2>1 DEF Import
    <3>2. entry.owner = Nobody /\ entry.id > arrived
      BY <1>0
    <3> HIDE DEF entry
    <3>3. \A f \in inbox' : f \in inbox \/ f = entry
      BY <3>1 DEF Pruned
    <3>4. ASSUME NEW f \in inbox, f \in Entry
          PROVE  \E e \in inbox : e.id = f.id /\ f.owner \in {e.owner, Nobody}
      OBVIOUS
    <3>5. Loses(inbox', inbox, arrived)
      BY <1>0, <3>2, <3>3, <3>4 DEF Loses
    <3> QED BY <1>0, <3>1, <3>5
  <2>2. CASE PrepareEnds
    <3>1. arrived' = arrived
      BY <2>2 DEF PrepareEnds
    <3>2. PICK i : inbox' = {IF e.id = i THEN [e EXCEPT !.status = "done"] ELSE e : e \in inbox}
      BY <2>2, Zenon DEF PrepareEnds
    <3> DEFINE end(e) == IF e.id = i THEN [e EXCEPT !.status = "done"] ELSE e
    <3>3. \A e \in inbox : end(e).id = e.id /\ end(e).owner = e.owner
      BY <1>0 DEF Entry
    <3>4. inbox' = {end(e) : e \in inbox}
      BY <3>2
    <3> HIDE DEF end
    <3>5. ASSUME NEW f \in inbox' PROVE \E e \in inbox : e.id = f.id /\ f.owner \in {e.owner, Nobody}
      BY <3>3, <3>4
    <3> QED BY <1>0, <3>1, <3>5 DEF Loses
  <2>3. CASE OwnerQuiet
    <3>1. arrived' = arrived
      BY <2>3 DEF OwnerQuiet
    <3>2. PICK e \in inbox : inbox' = Updated(inbox, [e EXCEPT !.quiet = TRUE])
      BY <2>3 DEF OwnerQuiet
    <3> DEFINE entry == [e EXCEPT !.quiet = TRUE]
    <3>3. entry.id = e.id /\ entry.owner = e.owner
      BY <1>0 DEF Entry
    <3>4. \A d \in inbox' : d \in inbox \/ d = entry
      BY <3>2 DEF Updated
    <3> HIDE DEF entry
    <3>5. Loses(inbox', inbox, arrived)
      BY <3>3, <3>4 DEF Loses
    <3> QED BY <1>0, <3>1, <3>5
  <2>4. CASE Expire
    <3>1. arrived' = arrived
      BY <2>4 DEF Expire
    <3>2. PICK e \in inbox : inbox' = Updated(inbox, [e EXCEPT !.expired = TRUE])
      BY <2>4 DEF Expire
    <3> DEFINE entry == [e EXCEPT !.expired = TRUE]
    <3>3. entry.id = e.id /\ entry.owner = e.owner
      BY <1>0 DEF Entry
    <3>4. \A d \in inbox' : d \in inbox \/ d = entry
      BY <3>2 DEF Updated
    <3> HIDE DEF entry
    <3>5. Loses(inbox', inbox, arrived)
      BY <3>3, <3>4 DEF Loses
    <3> QED BY <1>0, <3>1, <3>5
  <2>5. CASE Restart
    BY <1>0, <2>5 DEF Restart, Loses
  <2> QED BY <2>1, <2>2, <2>3, <2>4, <2>5
<1>2. Delivery(tab, inbox', arrived', given)
  BY <1>0, <1>1, QueueLoses
<1>3. ImportsReachTheirTab'
  BY <1>0 DEF DeliveryInv, ImportsReachTheirTab
<1> QED BY <1>0, <1>2, <1>3 DEF DeliveryInv

LEMMA InitDelivery == Init => DeliveryInv
<1> SUFFICES ASSUME Init PROVE DeliveryInv
  OBVIOUS
<1>1. /\ inbox = {} /\ arrived = 0 /\ tab = [t \in Tabs |-> NewTab(t)]
      /\ given = [i \in Imports |-> <<>>]
  BY DEF Init
<1>2. \A t \in Tabs : /\ tab[t].state = "new" /\ tab[t].url = 0 /\ tab[t].token = 0
                      /\ tab[t].name = t /\ tab[t].call = "none"
  BY <1>1 DEF NewTab
<1>3. \A t \in Tabs : ~Holding(tab[t]) /\ ~Live(tab[t])
  BY <1>2 DEF Holding, Live
<1>4. Told(tab, inbox, arrived)
  BY <1>1, <1>2, <1>3 DEF Told, TabTold
<1>5. Names(tab, inbox) /\ Carries(tab, inbox)
  BY <1>1, <1>2, <1>3 DEF Names, Carries
<1>6. Once(tab, inbox, arrived, given)
  BY <1>1, <1>3 DEF Once
<1>7. ImportsReachTheirTab
  BY <1>1 DEF ImportsReachTheirTab
<1> QED BY <1>4, <1>5, <1>6, <1>7 DEF DeliveryInv, Delivery

LEMMA NextDelivery == Inv /\ Inv' /\ DeliveryInv /\ [Next]_vars => DeliveryInv'
<1> SUFFICES ASSUME Inv, Inv', DeliveryInv, [Next]_vars PROVE DeliveryInv'
  OBVIOUS
<1>1. ASSUME NEW t \in Tabs,
             \/ TimerFires(t) \/ Wake(t) \/ Hide(t) \/ SettleNull(t) \/ SettlePreparing(t)
             \/ Imported(t) \/ FailPoll(t) \/ RefusePoll(t)
      PROVE  DeliveryInv'
  <2>1. UNCHANGED <<inbox, arrived, given>>
    BY <1>1 DEF TimerFires, Wake, Hide, SettleNull, SettlePreparing, Imported, FailPoll, RefusePoll
  <2>2. Open(t) \/ tab[t].call # "none"
    BY <1>1 DEF TimerFires, Wake, Hide, SettleNull, SettlePreparing, Imported, FailPoll, RefusePoll
  <2>3. Open(t)
    BY <2>2 DEF DeliveryInv, Delivery, Told, TabTold, Open
  <2> QED BY <1>1, <2>1, <2>3, HookStep
<1>2. ASSUME NEW t \in Tabs, Start(t) \/ OpenTab(t) \/ Rename(t) \/ Reload(t) \/ Close(t)
      PROVE  DeliveryInv'
  <2>1. UNCHANGED <<inbox, arrived, given>>
    BY <1>2, Zenon DEF Start, OpenTab, Rename, Reload, Close
  <2> QED BY <1>2, <2>1, LifeStep
<1>3. ASSUME NEW t \in Tabs, TabStep(t) \/ User(t) \/ FailPoll(t) \/ RefusePoll(t)
      PROVE  DeliveryInv'
  BY <1>1, <1>2, <1>3, HandOver, PollDelivers, DuplicateStep DEF TabStep, User
<1>4. CASE UNCHANGED vars
  <2>1. UNCHANGED <<inbox, arrived, tab, given>>
    BY <1>4 DEF vars
  <2> QED BY <2>1 DEF DeliveryInv, ImportsReachTheirTab
<1> QED BY <1>3, <1>4, QueueDelivers DEF Next

\* A posting is handed over at most once, and one with a token only to a tab that
\* carries it, whatever claims lapse and whatever tabs are duplicated, renamed or
\* closed.
THEOREM EachReachesItsTab == Spec => []ImportsReachTheirTab
<1>1. DeliveryInv => ImportsReachTheirTab
  BY DEF DeliveryInv
<1> QED BY <1>1, InitInv, NextInv, InitDelivery, NextDelivery, PTL DEF Spec
=============================================================================
