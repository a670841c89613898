------------------------- MODULE MCApplicationRecord -------------------------
(***************************************************************************)
(* Small instances of ApplicationRecord for TLC.                           *)
(***************************************************************************)
EXTENDS ApplicationRecord, TLC

CONSTANTS t1

\* The stages with rules of their own; offer and the final ones add none.
Kinds == {"draft", "not_applying", "applied", "interviewing", "ghosted"}
=============================================================================
