-------------------------- MODULE MCExtensionInbox --------------------------
(***************************************************************************)
(* Small instances of ExtensionInbox for TLC.  The tabs are interchange-   *)
(* able.                                                                   *)
(***************************************************************************)
EXTENDS ExtensionInbox, TLC

CONSTANTS t1, t2

Symmetry == Permutations(Tabs)
=============================================================================
