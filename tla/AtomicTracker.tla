---------------------------- MODULE AtomicTracker ----------------------------
(***************************************************************************)
(* What the tracker's routes promise their clients: a map of records that  *)
(* each request changes at most once, in one step, like a compare-and-swap *)
(* on the records it names.  A request that was answered as saved changed  *)
(* the map, one that was answered otherwise did not, and whatever tracker  *)
(* an answer carries is the map as it was while the request was under way. *)
(* Only a request that gets no answer leaves its client in doubt.          *)
(*                                                                         *)
(* TrackerStore implements this with files, awaits, a cache and rollbacks. *)
(***************************************************************************)
EXTENDS Naturals

CONSTANTS
    Requests,
    Trackers    \* the maps from application ids to records, each with its rev

\* named: the records a request may change; base: the revision it sent for each;
\* strict: whether a base of 0 means that there must be no such record.
VARIABLES
    tracker,    \* the records
    ask,        \* what each request asks
    state,      \* where each request stands
    told        \* the trackers that answers have carried

vars == <<tracker, ask, state, told>>

Init ==
    /\ tracker \in Trackers
    /\ state = [r \in Requests |-> "idle"]
    /\ DOMAIN ask = Requests
    /\ told = {}

Call(r) ==
    /\ state[r] = "idle"
    /\ state' = [state EXCEPT ![r] = "asked"]
    /\ \A s \in Requests \ {r} : ask'[s] = ask[s]
    /\ UNCHANGED <<tracker, told>>

MayChange(r, i) ==
    /\ i \in ask[r].named
    /\ \/ ask[r].base[i] = tracker[i].rev
       \/ ask[r].base[i] = 0 /\ ~ask[r].strict

Change(r) ==
    /\ state[r] = "asked"
    /\ state' = [state EXCEPT ![r] = "changed"]
    /\ tracker' \in Trackers
    /\ \A i \in DOMAIN tracker : tracker'[i] # tracker[i] => MayChange(r, i)
    /\ UNCHANGED <<ask, told>>

\* The tracker an answer will carry is taken while the request is under way.
Read(r) ==
    /\ state[r] \in {"asked", "changed"}
    /\ told' = told \cup {tracker}
    /\ UNCHANGED <<tracker, ask, state>>

Answer(r) ==
    /\ \/ state[r] = "changed" /\ state' = [state EXCEPT ![r] = "saved"]
       \/ state[r] = "asked" /\ state' = [state EXCEPT ![r] = "kept"]
    /\ told' \in {told, told \cup {tracker}}
    /\ UNCHANGED <<tracker, ask>>

\* A crash loses the answers still due.
Lose ==
    /\ state' = [r \in Requests |-> IF state[r] \in {"asked", "changed"} THEN "lost" ELSE state[r]]
    /\ UNCHANGED <<tracker, ask, told>>

Next == Lose \/ \E r \in Requests : Call(r) \/ Change(r) \/ Read(r) \/ Answer(r)

Spec == Init /\ [][Next]_vars
=============================================================================
