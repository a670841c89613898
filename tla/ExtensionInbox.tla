--------------------------- MODULE ExtensionInbox ---------------------------
(***************************************************************************)
(* The hand-off of job postings from the browser extension to a tab        *)
(* (server/extension/routes.ts, src/hooks/useExtensionInbox.ts): the       *)
(* server queues each posting, prepares one at a time in the background,   *)
(* and hands it to the tab that polls for it.                              *)
(*                                                                         *)
(* The extension gives each posting a claim token and opens a tab whose    *)
(* address carries it; older extensions send none.  A token is the number  *)
(* of the posting it was made for, 0 is no token.                          *)
(***************************************************************************)
EXTENDS Naturals, Sequences, FiniteSets

CONSTANTS
    Tabs,         \* tabs the browser opens, each once
    MaxImports,   \* bound on postings sent by the extension
    Tokenless,    \* the postings sent without a token
    Cap,          \* EXTENSION_INBOX_MAX
    MaxFaults,    \* bound on failed polls, expired postings and restarts
    MaxMoves      \* bound on what the user and time do

Imports == 1 .. MaxImports
Token(i) == IF i \in Tokenless THEN 0 ELSE i
Nobody == "nobody"

ASSUME InboxAssumption ==
    /\ MaxImports \in Nat /\ Cap \in Nat \ {0}
    /\ MaxFaults \in Nat /\ MaxMoves \in Nat
    /\ Tokenless \subseteq Imports
    /\ Nobody \notin Tabs

\* A queued posting.  quiet: its owner has not polled for 8 s; expired: queued 10
\* minutes ago.
Entry == [id : Imports, status : {"preparing", "done"}, owner : Tabs \cup {Nobody},
          quiet : BOOLEAN, expired : BOOLEAN]

\* A tab: the token in its address and the one its hook started with, the session
\* id it names itself by, and the hook's variables.
Tab == [state : {"new", "loading", "open", "closed"}, url : 0 .. MaxImports,
        token : 0 .. MaxImports, name : Tabs, hidden : BOOLEAN, preparing : BOOLEAN,
        claim : BOOLEAN, timer : BOOLEAN, retries : 0 .. 3,
        call : {"none", "sent", "answered", "importing"},
        reply : {"null", "preparing", "import"}, item : 0 .. MaxImports]

VARIABLES
    inbox,     \* extensionInbox; the ids are in the order of the queue
    running,   \* the prepares under way (extensionPreparing)
    arrived,   \* extensionImportSeq
    tab,       \* each tab of the browser
    faults,    \* counter of faults
    moves,     \* counter of moves
    given      \* history: the tokens of the tabs each posting was handed to

vars == <<inbox, running, arrived, tab, faults, moves, given>>

NewTab(t) ==
    [state |-> "new", url |-> 0, token |-> 0, name |-> t, hidden |-> FALSE,
     preparing |-> FALSE, claim |-> FALSE, timer |-> FALSE, retries |-> 0,
     call |-> "none", reply |-> "null", item |-> 0]

Init ==
    /\ inbox = {} /\ running = {} /\ arrived = 0
    /\ tab = [t \in Tabs |-> NewTab(t)]
    /\ faults = 0 /\ moves = 0
    /\ given = [i \in Imports |-> <<>>]

Fault == faults < MaxFaults /\ faults' = faults + 1 /\ UNCHANGED moves
Move == moves < MaxMoves /\ moves' = moves + 1 /\ UNCHANGED faults
Becomes(t, tb) == tab' = [tab EXCEPT ![t] = tb]
Open(t) == tab[t].state = "open"

-----------------------------------------------------------------------------
(* The server's queue *)

Oldest(S) == CHOOSE e \in S : \A f \in S : e.id <= f.id

UpdatedCopy(box, entry) == box \cup {entry}
Updated(box, entry) == {e \in box : e.id # entry.id} \cup {entry}

\* pruneExtensionInbox: expired entries go, then the oldest settled ones over the
\* limit.
EvictedByAge(box) ==
    {e \in box : Cardinality({f \in box : f.id <= e.id}) + Cap <= Cardinality(box)}
Evicted(box) ==
    LET settled == {e \in box : e.status = "done"}
    IN  {e \in settled : Cardinality({f \in settled : f.id <= e.id}) + Cap <= Cardinality(box)}
Pruned(box) ==
    LET live == {e \in box : ~e.expired}
    IN  live \ Evicted(live)

\* releaseStaleExtensionClaims.
Released(box) == {IF e.quiet THEN [e EXCEPT !.owner = Nobody] ELSE e : e \in box}

\* The entry a poll is answered with: the one its token names, else the one the
\* tab owns, else the oldest one that is not reserved for a token.
AnyUnclaimed(box) == {e \in box : e.owner = Nobody}
Unclaimed(box) == {e \in box : e.owner = Nobody /\ Token(e.id) = 0}
Chosen(box, token, name) ==
    LET named == {e \in box : token # 0 /\ Token(e.id) = token}
        owned == {e \in box : e.owner = name}
    IN  CASE named # {} -> {Oldest(named)}
          [] named = {} /\ owned # {} -> {Oldest(owned)}
          [] OTHER -> IF Unclaimed(box) = {} THEN {} ELSE {Oldest(Unclaimed(box))}

\* POST /api/extension/import.
Import ==
    LET i == arrived + 1
        entry == [id |-> i, status |-> "preparing", owner |-> Nobody,
                  quiet |-> FALSE, expired |-> FALSE]
    IN  /\ i \in Imports
        /\ arrived' = i
        /\ inbox' = Pruned(inbox \cup {entry})
        /\ running' = IF running = {} THEN {i} ELSE running
        /\ UNCHANGED <<faults, moves, tab, given>>

\* runExtensionPrepare ends, with the full text or with what was captured, and
\* goes on with the next entry.
NoneNext(box) == {}
NextToPrepare(box) ==
    LET waiting == {e \in box : e.status = "preparing"}
    IN  IF waiting = {} THEN {} ELSE {Oldest(waiting).id}
PrepareEnds ==
    /\ \E i \in running :
          LET box == {IF e.id = i THEN [e EXCEPT !.status = "done"] ELSE e : e \in inbox}
          IN  /\ inbox' = box
              /\ running' = (running \ {i}) \cup NextToPrepare(box)
    /\ UNCHANGED <<faults, moves, arrived, tab, given>>

\* GET /api/extension/inbox: the entry is handed over once it is done.
ServerPoll(t) ==
    LET tb == tab[t]
        box == Released(Pruned(inbox))
        chosen == Chosen(box, tb.token, tb.name)
        answered == [tb EXCEPT !.call = "answered"]
    IN  /\ tb.call = "sent"
        /\ \/ /\ chosen = {}
              /\ inbox' = box
              /\ Becomes(t, [answered EXCEPT !.reply = "null"])
           \/ \E e \in chosen :
              /\ e.status = "preparing"
              /\ inbox' = Updated(box, [e EXCEPT !.owner = tb.name, !.quiet = FALSE])
              /\ Becomes(t, [answered EXCEPT !.reply = "preparing"])
           \/ \E e \in chosen :
              /\ e.status = "done"
              /\ inbox' = box \ {e}
              /\ Becomes(t, [answered EXCEPT !.reply = "import", !.item = e.id])
        /\ UNCHANGED <<faults, moves, running, arrived, given>>

\* Time passes.
OwnerQuiet ==
    /\ \E e \in inbox :
          /\ e.owner # Nobody /\ ~e.quiet
          /\ inbox' = Updated(inbox, [e EXCEPT !.quiet = TRUE])
    /\ Move
    /\ UNCHANGED <<running, arrived, tab, given>>

Expire ==
    /\ Fault
    /\ \E e \in inbox :
          /\ ~e.expired
          /\ inbox' = Updated(inbox, [e EXCEPT !.expired = TRUE])
    /\ UNCHANGED <<running, arrived, tab, given>>

\* The queue and the preparation are lost with the server's process.  The code
\* numbers the postings after a restart from 1 again; here arrived goes on, since
\* a number only tells postings apart and orders those of one process.
Restart ==
    /\ Fault
    /\ inbox' = {} /\ running' = {}
    /\ UNCHANGED <<arrived, tab, given>>

-----------------------------------------------------------------------------
(* A tab *)

Owns(tb) == tb.preparing \/ tb.claim
HiddenAlways(tb) == tb.hidden
HandsOff(tb) == tb.hidden /\ ~Owns(tb)

\* checkInbox: one poll at a time, and none from a hidden tab that owns nothing.
CheckInbox(tb) ==
    [tb EXCEPT !.timer = FALSE,
               !.call = IF tb.call = "none" /\ ~HandsOff(tb) THEN "sent" ELSE @]

\* scheduleTransientRetry.
Retry(tb) ==
    IF Owns(tb) \/ tb.retries < 3
    THEN [tb EXCEPT !.timer = TRUE, !.retries = IF @ < 3 THEN @ + 1 ELSE @] ELSE tb

\* The extension opens a tab for the posting it has sent; the user opens others.
OpenTab(t) ==
    /\ tab[t].state = "new"
    /\ \E token \in 0 .. arrived :
          /\ token = 0 \/ (Token(token) = token /\ \A u \in Tabs : tab[u].url # token)
          /\ Becomes(t, [tab[t] EXCEPT !.state = "loading", !.url = token])
    /\ UNCHANGED <<faults, moves, inbox, running, arrived, given>>

\* A duplicated tab has the address and, at first, the session id of its original.
DuplicateTab(t, u) ==
    /\ Open(t) /\ tab[u].state = "new"
    /\ Becomes(u, [tab[u] EXCEPT !.state = "loading", !.url = tab[t].url, !.name = tab[t].name])
    /\ Move
    /\ UNCHANGED <<inbox, running, arrived, given>>

\* tabPresence finds the other tab and regenerates the id.
Rename(t) ==
    /\ tab[t].name # t
    /\ Becomes(t, [tab[t] EXCEPT !.name = t])
    /\ UNCHANGED <<faults, moves, inbox, running, arrived, given>>

\* The hook starts once the tracker is loaded.
Start(t) ==
    /\ tab[t].state = "loading"
    /\ Becomes(t, CheckInbox([tab[t] EXCEPT !.state = "open", !.token = tab[t].url,
                                            !.claim = tab[t].url # 0]))
    /\ UNCHANGED <<faults, moves, inbox, running, arrived, given>>

TimerFires(t) ==
    /\ Open(t) /\ tab[t].timer
    /\ Becomes(t, CheckInbox(tab[t]))
    /\ UNCHANGED <<faults, moves, inbox, running, arrived, given>>

\* The window gets the focus, or the tab becomes visible.
Wake(t) ==
    /\ Open(t)
    /\ Becomes(t, CheckInbox([tab[t] EXCEPT !.hidden = FALSE]))
    /\ Move
    /\ UNCHANGED <<inbox, running, arrived, given>>

Hide(t) ==
    /\ Open(t) /\ ~tab[t].hidden
    /\ Becomes(t, [tab[t] EXCEPT !.hidden = TRUE])
    /\ Move
    /\ UNCHANGED <<inbox, running, arrived, given>>

\* The poll is over.
Ended(tb) == [tb EXCEPT !.call = "none", !.reply = "null", !.item = 0]

\* Nothing to receive: a tab that waited leaves its receiving state.
SettleNull(t) ==
    LET tb == tab[t]
        ended == [Ended(tb) EXCEPT !.retries = 0, !.preparing = FALSE]
    IN  /\ tb.call = "answered" /\ tb.reply = "null"
        /\ Becomes(t, IF tb.token = 0 THEN ended ELSE [ended EXCEPT !.claim = FALSE, !.url = 0])
        /\ UNCHANGED <<faults, moves, inbox, running, arrived, given>>

SettlePreparing(t) ==
    /\ tab[t].call = "answered" /\ tab[t].reply = "preparing"
    /\ Becomes(t, [Ended(tab[t]) EXCEPT !.retries = 0,
                                 !.preparing = TRUE, !.timer = TRUE])
    /\ UNCHANGED <<faults, moves, inbox, running, arrived, given>>

SettleImport(t) ==
    /\ tab[t].call = "answered" /\ tab[t].reply = "import"
    /\ Becomes(t, [tab[t] EXCEPT !.call = "importing", !.retries = 0, !.preparing = FALSE])
    /\ given' = [given EXCEPT ![tab[t].item] = Append(@, tab[t].token)]
    /\ UNCHANGED <<faults, moves, inbox, running, arrived>>

\* onImport has taken the posting: the token has served.
Imported(t) ==
    /\ tab[t].call = "importing"
    /\ Becomes(t, [Ended(tab[t]) EXCEPT !.claim = FALSE, !.url = 0])
    /\ UNCHANGED <<faults, moves, inbox, running, arrived, given>>

\* The network or the server fails, before or after the poll was answered, or
\* onImport throws.
FailPoll(t) ==
    /\ tab[t].call # "none" /\ Fault
    /\ Becomes(t, Retry(Ended(tab[t])))
    /\ UNCHANGED <<inbox, running, arrived, given>>

\* The server refuses the poll for good.
RefusePoll(t) ==
    /\ tab[t].call = "sent" /\ Fault
    /\ Becomes(t, [Ended(tab[t]) EXCEPT !.preparing = FALSE])
    /\ UNCHANGED <<inbox, running, arrived, given>>

Reload(t) ==
    /\ Open(t)
    /\ Becomes(t, [NewTab(t) EXCEPT !.state = "loading", !.url = tab[t].url, !.name = tab[t].name])
    /\ Move
    /\ UNCHANGED <<inbox, running, arrived, given>>

Close(t) ==
    /\ Open(t)
    /\ Becomes(t, [NewTab(t) EXCEPT !.state = "closed"])
    /\ Move
    /\ UNCHANGED <<inbox, running, arrived, given>>

-----------------------------------------------------------------------------
(* The system *)

TabStep(t) ==
    \/ Start(t) \/ TimerFires(t) \/ ServerPoll(t)
    \/ SettleNull(t) \/ SettlePreparing(t) \/ SettleImport(t) \/ Imported(t)

User(t) ==
    \/ OpenTab(t) \/ Rename(t) \/ Wake(t) \/ Hide(t) \/ Reload(t) \/ Close(t)
    \/ \E u \in Tabs : DuplicateTab(t, u)

Next ==
    \/ Import \/ PrepareEnds \/ OwnerQuiet \/ Expire \/ Restart
    \/ \E t \in Tabs : TabStep(t) \/ User(t) \/ FailPoll(t) \/ RefusePoll(t)

Spec == Init /\ [][Next]_vars

-----------------------------------------------------------------------------
(* Properties *)

\* Type correctness of the queue and the tabs; a posting is queued once, after it
\* has arrived.
TypeOK ==
    /\ inbox \subseteq Entry
    /\ \A e, f \in inbox : e.id = f.id => e = f
    /\ \A e \in inbox : e.id <= arrived
    /\ running \subseteq Imports
    /\ arrived \in 0 .. MaxImports
    /\ tab \in [Tabs -> Tab]
    /\ faults \in 0 .. MaxFaults /\ moves \in 0 .. MaxMoves
    /\ given \in [Imports -> Seq(0 .. MaxImports)]

\* A posting is handed over at most once, and one with a token only to a tab that
\* carries the token, the one opened for it or a duplicate of that, whatever claims
\* expire and whatever tabs are duplicated.
ImportsReachTheirTab ==
    \A i \in Imports :
        /\ Len(given[i]) <= 1
        /\ \A n \in DOMAIN given[i] : Token(i) # 0 => given[i][n] = i

\* pruneExtensionInbox: making room never drops a posting that is being prepared;
\* only its age and a restart do.
PreparingIsKept ==
    [][\A e \in inbox : e.status = "preparing" /\ ~e.expired
        => (inbox' = {} /\ running' = {}) \/ \E f \in inbox' : f.id = e.id]_vars

\* Postings are prepared one at a time, and none waits while nothing is being
\* prepared.
PreparesInTurn ==
    /\ Cardinality(running) <= 1
    /\ (\E e \in inbox : e.status = "preparing") => running # {}

\* checkInbox: a tab that shows it is receiving a posting never stops asking for
\* it, hidden or not and however often its polls fail: a poll or a timer is under
\* way.
ReceivingAwake ==
    \A t \in Tabs : Open(t) /\ tab[t].preparing => tab[t].timer \/ tab[t].call # "none"
=============================================================================
