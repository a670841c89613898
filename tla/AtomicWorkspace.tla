--------------------------- MODULE AtomicWorkspace ---------------------------
(***************************************************************************)
(* What the server promises about replacing the workspace: there is one    *)
(* workspace at every moment, a restore replaces it in one step or leaves  *)
(* it, no save reaches another workspace than the one it was asked for or  *)
(* is refused unless a restore came in between, and a tab is shown nothing *)
(* else.  Each answer says which of these happened.  Only a roll-back that *)
(* fails, or a crash while a restore is at work, may put something else in *)
(* the workspace's place.                                                  *)
(*                                                                         *)
(* WorkspaceRestore implements this with renames, two locks and a gate.    *)
(***************************************************************************)
CONSTANTS
    Savers, Restores, Tabs,
    Fresh,      \* a workspace made where there was none
    NoTree      \* there is no workspace

VARIABLES
    workspace,  \* the tree that is the workspace; a restore brings its own
    state,      \* where each request stands
    base,       \* the workspace each save was asked for, or each restore found
    shown       \* the tree each tab has loaded

vars == <<workspace, state, base, shown>>

Requests == Savers \cup Restores

\* A restore has been let in, or has the workspace to itself.
Working == {"begun", "swapped", "stranding"}
Closed == \E r \in Restores : state[r] \in Working \cup {"asked"}
Alone == \A r \in Restores : state[r] \notin Working

Init ==
    /\ state = [j \in Requests |-> "idle"]
    /\ base = [j \in Requests |-> NoTree]
    /\ shown = [t \in Tabs |-> NoTree]

Moves(j, from, to) == state[j] = from /\ state' = [state EXCEPT ![j] = to]

AskSave(j) ==
    /\ \/ Moves(j, "idle", "asked") /\ ~Closed /\ base' = [base EXCEPT ![j] = workspace]
       \/ Moves(j, "idle", "late") /\ Closed /\ UNCHANGED base
    /\ UNCHANGED <<workspace, shown>>

\* A save writes to the workspace it was asked for; where there was none, to
\* the one it makes or another save has made.
Save(j) ==
    /\ (Moves(j, "asked", "saved") \/ Moves(j, "overtaken", "saved")) /\ Alone
    /\ workspace = base[j] \/ (base[j] = NoTree /\ workspace = Fresh)
    /\ workspace' = workspace \/ (workspace = NoTree /\ workspace' = Fresh)
    /\ UNCHANGED <<base, shown>>

\* A backup makes the workspace it finds missing.
Make ==
    /\ Alone /\ workspace = NoTree /\ workspace' = Fresh
    /\ UNCHANGED <<state, base, shown>>

RefuseSave(j) ==
    /\ Moves(j, "overtaken", "refused") \/ Moves(j, "late", "refused")
    /\ UNCHANGED <<workspace, base, shown>>

\* One restore at a time; it overtakes the saves that have been asked.
AskRestore(r) ==
    /\ state[r] = "idle" /\ ~Closed
    /\ state' = [j \in Requests |-> IF j = r THEN "asked"
                                    ELSE IF state[j] = "asked" THEN "overtaken" ELSE state[j]]
    /\ UNCHANGED <<workspace, base, shown>>

RefuseRestore(r) ==
    /\ Moves(r, "idle", "refused") /\ Closed
    /\ UNCHANGED <<workspace, base, shown>>

Begin(r) ==
    /\ Moves(r, "asked", "begun")
    /\ base' = [base EXCEPT ![r] = workspace]
    /\ UNCHANGED <<workspace, shown>>

\* The one step that replaces the workspace, and the one that fails to keep it.
Swap(r) ==
    /\ Moves(r, "begun", "swapped") /\ workspace' = r
    /\ UNCHANGED <<base, shown>>
Strand(r) ==
    /\ Moves(r, "begun", "stranding") /\ workspace' \in {r, NoTree}
    /\ UNCHANGED <<base, shown>>

AnswerRestore(r) ==
    /\ \/ Moves(r, "swapped", "restored") /\ workspace = r
       \/ Moves(r, "begun", "kept") /\ workspace = base[r]
       \/ Moves(r, "stranding", "stranded") /\ workspace \in {r, NoTree}
    /\ UNCHANGED <<workspace, base, shown>>

Load(t) ==
    /\ shown' = [shown EXCEPT ![t] = workspace] /\ workspace # NoTree /\ ~Closed
    /\ UNCHANGED <<workspace, state, base>>

\* A crash loses the answers still due and whatever is on its way.  Between two
\* renames it may leave the restored tree, an empty workspace or none.
Answered == {"saved", "refused", "restored", "kept", "stranded", "lost"}
Crash ==
    /\ DOMAIN state' = Requests
    /\ \A j \in Requests : state'[j] \in IF state[j] = "idle" THEN {"idle", "lost"}
                                         ELSE IF state[j] \in Answered THEN {state[j]} ELSE {"lost"}
    /\ \/ workspace' = workspace
       \/ workspace = NoTree /\ workspace' = Fresh
       \/ \E r \in Restores : state[r] = "begun" /\ workspace' \in {r, Fresh, NoTree}
    /\ UNCHANGED <<base, shown>>

Next ==
    \/ \E j \in Savers : AskSave(j) \/ Save(j) \/ RefuseSave(j)
    \/ \E r \in Restores : \/ AskRestore(r) \/ RefuseRestore(r) \/ Begin(r)
                           \/ Swap(r) \/ Strand(r) \/ AnswerRestore(r)
    \/ \E t \in Tabs : Load(t)
    \/ Make
    \/ Crash

Spec == Init /\ [][Next]_vars
=============================================================================
