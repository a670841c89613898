---------------------------- MODULE MCTrackerTab ----------------------------
(***************************************************************************)
(* Small instances of TrackerTab for TLC.                                  *)
(***************************************************************************)
EXTENDS TrackerTab, TLC

CONSTANTS a, b, t1

ByTheFirst == b :> t1
=============================================================================
