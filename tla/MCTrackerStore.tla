--------------------------- MODULE MCTrackerStore ---------------------------
(***************************************************************************)
(* Small instances of TrackerStore for TLC.                                *)
(***************************************************************************)
EXTENDS TrackerStore, TLC

CONSTANTS a, b, pdf, src, cov, b1, b2, r1, r2, r3

\* One slot with a PDF and a source; one slot with a source; a resume source and
\* a cover source.  Each is written in the order the code lists them.
OneSlot == {{pdf, src}}
PdfFirst == (pdf :> 1) @@ (src :> 2)
SrcSlot == {{src}}
SrcOnly == src :> 1
TwoSources == {{src}, {cov}}
SrcFirst == (src :> 1) @@ (cov :> 2)
SameJob == {<<a, b>>, <<b, a>>}
NoneSimilar == {}

\* An empty workspace; a submission with its documents, alone or beside a
\* draft; a version 0 tracker whose Interested record still has a document; and
\* the folder of a deleted record that could not be moved to the trash.
Holding(stage, folder) == [rev |-> 1, stage |-> stage, docs |-> folder]
Stored(form, recs, folder) ==
    [form |-> form, recs |-> recs, files |-> [i \in Ids |-> IF i = a THEN folder ELSE EmptyFolder]]
FolderOf(S) == [f \in Files |-> IF f \in S THEN b1 ELSE None]
Alone(stage, folder) == [i \in Ids |-> IF i = a THEN Holding(stage, folder) ELSE NoRecord]
WithDraft(stage, folder) ==
    [i \in Ids |-> Holding(IF i = a THEN stage ELSE "draft", IF i = a THEN folder ELSE EmptyFolder)]

Empty == Stored("missing", EmptyTracker, EmptyFolder)
Submitted(S) == Stored("current", WithDraft("sent", FolderOf(S)), FolderOf(S))
Legacy(S) == Stored("older", WithDraft("interested", FolderOf(S)), FolderOf(S))

StartAny == {Empty, Submitted({src}), Legacy({src})}
StartHeld == {Submitted({src}), Legacy({src})}
StartFullSlot == {Submitted({pdf, src})}
StartAlone == {Stored("current", EmptyTracker, FolderOf({src})),
               Stored("current", Alone("sent", FolderOf({src})), FolderOf({src})),
               Stored("older", Alone("interested", FolderOf({src})), FolderOf({src}))}
Symmetry == Permutations(Requests)
=============================================================================
