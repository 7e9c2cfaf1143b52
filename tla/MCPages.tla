------------------------------- MODULE MCPages -------------------------------
(***************************************************************************)
(* An instance of WebPages for TLC.  Where a page is not the one that moves,  *)
(* it stays in one initial state.                                           *)
(***************************************************************************)
EXTENDS WebPages, TLC

CONSTANTS code, report, table, notes \* the problems, reference files

CodeThenReport == <<code, report>>
FilesOf == (code :> {table, notes}) @@ (report :> {table})
SnapshotsOf == (code :> 1) @@ (report :> 2)
\* A table with a title, and one without whose first column has the names.
TwoTables == {<<<<"email:", "">>, <<"a", "word">>>>, <<<<"word", "a">>, <<"word", "b">>>>}

MCInit ==
    /\ PagesInit
    /\ (part # "watch" => visible /\ focused)
    /\ (part # "desk" => \A d \in Deadlines : deadline <= d)
    /\ (part # "reference" => files = <<>>)
    /\ (part # "settings" => created = 0)
    /\ (part # "assessment" => problems[1].id = code /\ \A u \in Users : assigned[u] = 0)

MCSpec == MCInit /\ [][PagesNext]_pagesVars
=============================================================================
