------------------------------- MODULE ExamEnd -------------------------------
(***************************************************************************)
(* The end of an exam on the page (attempts/[id]/page.tsx): the dialog that  *)
(* tells, before the candidate ends the exam, what was submitted of each     *)
(* problem.  The executions come and are judged meanwhile; ExamRoom tells    *)
(* how the page asks for them.                                              *)
(***************************************************************************)
EXTENDS Integers, Sequences, FiniteSets, SequencesExt

CONSTANTS
    Coded, Reports, \* the problems, by deliverable
    Kinds,          \* the kinds of execution: "run", "submit"
    None,           \* no score, no summary
    MaxRows,        \* bound: executions
    MaxLists,       \* bound: requests for the list under way
    MaxMishaps      \* bound: requests that fail

VARIABLES
    rows,       \* the attempt's executions, by created_at
    modal,      \* confirmFinish
    told,       \* submitStatus, summed up problem by problem
    lists,      \* the requests for the list under way
    opened,     \* history: how many rows there were at the last opening
    misled,     \* history: what told the dialog something else
    mishaps,    \* how many requests failed
    ended       \* finishedRef

endVars == <<rows, modal, told, lists, opened, misled, mishaps, ended>>

Problems == Coded \cup Reports

----------------------------------------------------------------------------
(* What the dialog makes of the list *)

Row(p, kind) == [problem |-> p, kind |-> kind, score |-> None,
                 status |-> IF p \in Reports THEN "done" ELSE "pending"]

\* The score for the comparison; one that is not there is the lowest.
ScoreOf(e) == IF e.score = None THEN -1 ELSE e.score

\* Mutant: runs count as submissions.
AnyKind(e) == TRUE
Submitted(e) == e.kind = "submit"
Submissions(list, p) == {i \in DOMAIN list : list[i].problem = p /\ Submitted(list[i])}

\* bestSubmit: the earliest of the submissions with the highest score; 0 is none.
Missing == [id |-> 0, status |-> "none"]
Best(list, p) ==
    LET mine == Submissions(list, p)
        Beats(i, j) == \/ ScoreOf(list[i]) > ScoreOf(list[j])
                       \/ ScoreOf(list[i]) = ScoreOf(list[j]) /\ i <= j
    IN  IF mine = {} THEN Missing
        ELSE LET i == CHOOSE i \in mine : \A j \in mine : Beats(i, j)
             IN  [id |-> i, status |-> list[i].status]
bestSubmit(list) == [p \in Problems |-> Best(list, p)]

unsubmitted == {p \in Problems : told[p].id = 0}

\* The line of a problem.
Line(p) ==
    CASE p \in unsubmitted                          -> "unsubmitted"
      [] p \in Reports \ unsubmitted                -> "submitted"
      [] p \in Coded \ unsubmitted /\ told[p].status = "done" -> "verdict"
      [] OTHER                                      -> "judging"

----------------------------------------------------------------------------
Init ==
    /\ rows = <<>>
    /\ modal = FALSE /\ told = None /\ lists = <<>>
    /\ opened = 0 /\ misled = {} /\ mishaps = 0
    /\ ended = FALSE

\* The executions: one is asked for, one is judged.
Ask ==
    /\ Len(rows) < MaxRows
    /\ \E p \in Problems : \E kind \in IF p \in Reports THEN {"submit"} ELSE Kinds :
          rows' = Append(rows, Row(p, kind))
    /\ UNCHANGED <<modal, told, lists, opened, misled, mishaps, ended>>

\* A submission that was judged has a score, unless the judge failed.
Judge(i) ==
    /\ rows[i].status = "pending"
    /\ \/ \E score \in IF rows[i].kind = "submit" THEN {0, 1} ELSE {None} :
             rows' = [rows EXCEPT ![i].status = "done", ![i].score = score]
       \/ rows' = [rows EXCEPT ![i].status = "error"]
    /\ UNCHANGED <<modal, told, lists, opened, misled, mishaps, ended>>

----------------------------------------------------------------------------
(* openFinishModal *)

Open ==
    /\ ~ended /\ ~modal
    /\ Len(lists) < MaxLists
    /\ modal' = TRUE
    /\ told' = None
    /\ lists' = Append([k \in DOMAIN lists |-> [lists[k] EXCEPT !.current = FALSE]],
                       [current |-> TRUE, read |-> FALSE, best |-> bestSubmit(<<>>)])
    /\ opened' = Len(rows)
    /\ UNCHANGED <<rows, misled, mishaps, ended>>

Close ==
    /\ ~ended /\ modal
    /\ modal' = FALSE
    /\ UNCHANGED <<rows, told, lists, opened, misled, mishaps, ended>>

\* list_executions
ReadList(k) ==
    /\ ~lists[k].read
    /\ lists' = [lists EXCEPT ![k].read = TRUE, ![k].best = bestSubmit(rows)]
    /\ UNCHANGED <<rows, modal, told, opened, misled, mishaps, ended>>

\* The answer to an earlier opening is taken for this one's.
ListTold(k) ==
    /\ lists[k].read
    /\ lists' = RemoveAt(lists, k)
    /\ told' = lists[k].best
    /\ misled' = IF lists[k].current THEN misled ELSE misled \cup {"late"}
    /\ UNCHANGED <<rows, modal, opened, mishaps, ended>>

\* A request that fails is shown as if nothing had been submitted.
ListFails(k) ==
    /\ mishaps < MaxMishaps
    /\ mishaps' = mishaps + 1
    /\ lists' = RemoveAt(lists, k)
    /\ told' = bestSubmit(<<>>)
    /\ misled' = misled \cup {"failed"}
    /\ UNCHANGED <<rows, modal, opened, ended>>

\* "End the exam" in the dialog, or the timer: to the dashboard.
Finish ==
    /\ ~ended
    /\ ended' = TRUE
    /\ modal' = FALSE /\ told' = None /\ lists' = <<>>
    /\ UNCHANGED <<rows, opened, misled, mishaps>>

----------------------------------------------------------------------------
Next ==
    \/ Ask \/ \E i \in DOMAIN rows : Judge(i)
    \/ Open \/ Close
    \/ \E k \in DOMAIN lists : ReadList(k) \/ ListTold(k) \/ ListFails(k)
    \/ Finish

Spec == Init /\ [][Next]_endVars

----------------------------------------------------------------------------
(* Properties *)

\* "Check what was submitted of each problem": a problem is called submitted only if
\* it was, and not submitted (to be marked zero) only if it was not when the dialog
\* was opened; a verdict is of a submission that has a score.  Not so when the request
\* failed, or an earlier opening's answer came late.
DialogTruthful ==
    told # None => \A p \in Problems :
        LET real == {i \in DOMAIN rows : rows[i].problem = p /\ rows[i].kind = "submit"}
        IN  CASE Line(p) = "unsubmitted" -> misled # {} \/ \A i \in real : i > opened
              [] Line(p) = "verdict"     -> told[p].id \in real /\ rows[told[p].id].score # None
              [] OTHER                   -> told[p].id \in real

----------------------------------------------------------------------------
(* The invariant the proofs use *)

Execution == [problem : Problems, kind : Kinds \cup {"submit"}, score : {None, 0, 1},
              status : {"pending", "done", "error"}]
Answer == [Problems -> [id : Nat, status : {"none", "pending", "done", "error"}]]

TypeOK ==
    /\ rows \in Seq(Execution)
    /\ told \in Answer \cup {None}
    /\ lists \in Seq([current : BOOLEAN, read : BOOLEAN, best : Answer])
    /\ opened \in Nat /\ opened <= Len(rows)

\* Whatever was submitted and judged has a score.
ScoreInv ==
    \A i \in DOMAIN rows :
        rows[i].problem \in Coded /\ rows[i].kind = "submit" /\ rows[i].status = "done" => rows[i].score # None

\* An answer that names a submission is right for good, one that names none is right
\* about the time of the opening it was asked for.
Right(best, excused) ==
    \A p \in Problems :
        IF best[p].id = 0
        THEN excused \/ \A i \in DOMAIN rows : rows[i].problem = p /\ rows[i].kind = "submit" => i > opened
        ELSE /\ best[p].id \in DOMAIN rows
             /\ rows[best[p].id].problem = p /\ rows[best[p].id].kind = "submit"
             /\ p \in Coded /\ best[p].status = "done" => rows[best[p].id].score # None

ListInv == \A k \in DOMAIN lists : lists[k].read => Right(lists[k].best, ~lists[k].current)
ToldInv == told # None => Right(told, misled # {})

EndInv == TypeOK /\ ScoreInv /\ ListInv /\ ToldInv
=============================================================================
