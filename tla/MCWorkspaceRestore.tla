-------------------------- MODULE MCWorkspaceRestore -------------------------
(***************************************************************************)
(* Small instances of WorkspaceRestore for TLC.                            *)
(***************************************************************************)
EXTENDS WorkspaceRestore, TLC

CONSTANTS s1, t1, b1, r1, r2

\* A save under the workspace lock, or one under the tracker lock.
OneResume == s1 :> "workspace"
OneTracker == s1 :> "tracker"

\* The two restores are interchangeable.
EitherRestore == Permutations({r1, r2})
=============================================================================
