----------------------- MODULE MCWorkspacePreferences -----------------------
(***************************************************************************)
(* Small instances of WorkspacePreferences for TLC.                        *)
(***************************************************************************)
EXTENDS WorkspacePreferences, TLC

CONSTANTS theme, profile, t1, t2, s1, s2

\* Each tab's user changes a setting of their own.
Apart == t1 :> {theme} @@ t2 :> {profile}
Both == t1 :> {theme, profile}
Symmetry == Permutations(Slots)
=============================================================================
