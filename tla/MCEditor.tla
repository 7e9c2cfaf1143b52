------------------------------ MODULE MCEditor ------------------------------
(***************************************************************************)
(* Instances of EditorState for TLC: two languages, three calls in flight   *)
(* (what Finish sends at once) and one fault.                               *)
(***************************************************************************)
EXTENDS EditorState

\* Bound: after a write based on a stale row no property but TypeOK claims anything.
BeforeStale == order # "stale"
=============================================================================
