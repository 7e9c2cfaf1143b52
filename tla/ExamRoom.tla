------------------------------ MODULE ExamRoom ------------------------------
(***************************************************************************)
(* What the exam page (attempts/[id]/page.tsx) shows of the executions of   *)
(* its attempt, and when it lets the candidate ask for another: running,    *)
(* submitting, handing in a report, the polls that wait for results, and    *)
(* the results restored after a reload.  How an execution is judged is       *)
(* JudgePipeline's subject, how the code is saved EditorState's; here an      *)
(* execution is a row whose status advances.                                *)
(***************************************************************************)
EXTENDS Naturals, Sequences, FiniteSets, SequencesExt

CONSTANTS
    ProblemList,   \* attempt.problems, in their order
    Reports,       \* those of them whose deliverable is a report
    None,          \* no dialog
    MaxPending,    \* MAX_PENDING
    MaxExecutions, \* bound: executions asked for
    MaxSurprises   \* bound: how often a request fails or the page is reloaded

ASSUME ListAssumption == ProblemList \in Seq(ToSet(ProblemList)) /\ ProblemList # <<>>

Problems == ToSet(ProblemList)

VARIABLES
    (* Postgres *)
    executions, \* the rows, by created_at
    open,       \* the attempt is in progress
    (* the page *)
    at,         \* whether it is closed, open, or gone to the dashboard
    problem,    \* the problem at activeIdx
    shown,      \* executions: what is known of each problem's execution
    busy,       \* busy
    dialog,     \* the submission that awaits confirmation
    posts,      \* the requests to execute under way
    polls,      \* the requests for one execution under way, or about to be made
    listing,    \* restoreExecutions is about to learn the list
    restoring,  \* latest: by problem, the executions it is yet to fetch
    (* history *)
    slips,      \* the ways the page was led astray so far
    surprises   \* how many surprises there were

store   == <<executions, open>>
console == <<shown, busy, posts, polls, listing, restoring>>
vars    == <<store, at, problem, console, dialog, slips, surprises>>

----------------------------------------------------------------------------
(* Data *)

Statuses == {"queued", "running", "done", "error"}
Execution(p, kind) ==
    [problem |-> p, kind |-> kind, status |-> IF p \in Reports THEN "done" ELSE "queued"]
Unfinished(status) == status \in {"queued", "running"}
Pending == {i \in DOMAIN executions : Unfinished(executions[i].status)}

\* What the page knows of an execution; 0 is none.
View(id, status) == [id |-> id, status |-> status]
NoView == View(0, "none")

\* ExecutionResults: a hint, a spinner, or the verdict.
Console(p) ==
    CASE shown[p].id = 0              -> "hint"
      [] Unfinished(shown[p].status)  -> "waiting"
      [] OTHER                        -> "verdict"

Ids(p) == {i \in DOMAIN executions : executions[i].problem = p}
\* The last of a list in the order of time; 0 if there is none.
Latest(p) == IF Ids(p) = {} THEN 0 ELSE CHOOSE i \in Ids(p) : \A j \in Ids(p) : j <= i

Post(p, kind) == [problem |-> p, kind |-> kind, step |-> "sent", id |-> 0, heard |-> at = "open"]
\* A request for execution i: by the page that asked for it, for the first time
\* after a reload, or because that one found it unfinished.
Poll(i, origin) == [id |-> i, origin |-> origin, step |-> "asking", status |-> "none"]

Surprise == surprises < MaxSurprises /\ surprises' = surprises + 1

Init ==
    /\ executions = <<>> /\ open = TRUE
    /\ at = "closed"
    /\ problem = Head(ProblemList)
    /\ shown = [p \in Problems |-> NoView]
    /\ busy = FALSE
    /\ dialog = None
    /\ posts = <<>> /\ polls = {}
    /\ listing = FALSE /\ restoring = <<>>
    /\ slips = {} /\ surprises = 0

----------------------------------------------------------------------------
(* The executions *)

Start(i) ==
    /\ executions[i].status = "queued"
    /\ executions' = [executions EXCEPT ![i].status = "running"]
    /\ UNCHANGED <<open, at, problem, console, dialog, slips, surprises>>

\* report_result.
Judge(i) ==
    /\ executions[i].status = "running"
    /\ \E status \in {"done", "error"} : executions' = [executions EXCEPT ![i].status = status]
    /\ UNCHANGED <<open, at, problem, console, dialog, slips, surprises>>

\* finish_attempt, or the deadline.
CloseAttempt ==
    /\ open
    /\ open' = FALSE
    /\ UNCHANGED <<executions, at, problem, console, dialog, slips, surprises>>

\* create_execution and submit_report, up to their answer.
Serve(k) ==
    /\ posts[k].step = "sent"
    /\ IF open /\ (posts[k].kind = "report" \/ Cardinality(Pending) < MaxPending)
       THEN /\ executions' = Append(executions,
                 Execution(posts[k].problem, IF posts[k].kind = "report" THEN "submit" ELSE posts[k].kind))
            /\ posts' = [posts EXCEPT ![k].step = "answered", ![k].id = Len(executions) + 1]
       ELSE /\ posts' = [posts EXCEPT ![k].step = "refused"]
            /\ UNCHANGED executions
    /\ UNCHANGED <<open, at, problem, shown, busy, polls, listing, restoring, dialog, slips, surprises>>

----------------------------------------------------------------------------
(* The page comes and goes *)

Empty ==
    /\ shown' = [p \in Problems |-> NoView]
    /\ busy' = FALSE
    /\ polls' = {} /\ restoring' = <<>>
    /\ posts' = [k \in DOMAIN posts |-> [posts[k] EXCEPT !.heard = FALSE]]

Load ==
    /\ at = "closed"
    /\ open
    /\ at' = "open"
    /\ problem' = Head(ProblemList)
    /\ Empty
    /\ listing' = TRUE
    /\ UNCHANGED <<store, dialog, slips, surprises>>

\* A request of this page will be served after it, and its answer heard by nobody.
Leave ==
    /\ at = "open"
    /\ Surprise
    /\ at' = "closed"
    /\ Empty
    /\ listing' = FALSE
    /\ dialog' = None
    /\ slips' = IF posts # <<>> THEN slips \cup {"unheard"} ELSE slips
    /\ UNCHANGED <<store, problem>>

\* The dialog's button, or the timer: to the dashboard, a dialog that asks for
\* confirmation stays open over it.
Finish ==
    /\ at = "open"
    /\ at' = "left"
    /\ Empty
    /\ listing' = FALSE
    /\ UNCHANGED <<store, problem, dialog, slips, surprises>>

----------------------------------------------------------------------------
(* Restoring the results *)

RestoreList ==
    /\ listing
    /\ listing' = FALSE
    /\ restoring' = [k \in {k \in DOMAIN ProblemList : Latest(ProblemList[k]) # 0} |-> Latest(ProblemList[k])]
    /\ UNCHANGED <<store, at, problem, shown, busy, posts, polls, dialog, slips, surprises>>

\* Nothing is restored.
ListFails ==
    /\ listing
    /\ Surprise
    /\ listing' = FALSE
    /\ slips' = slips \cup {"unheard"}
    /\ UNCHANGED <<store, at, problem, shown, busy, posts, polls, restoring, dialog>>

\* One after the other, in the order of the problems.
FetchDetail(k) ==
    /\ \A j \in DOMAIN restoring : k <= j
    /\ \A r \in polls : r.origin # "detail"
    /\ polls' = polls \cup {Poll(restoring[k], "detail")}
    /\ restoring' = [j \in DOMAIN restoring \ {k} |-> restoring[j]]
    /\ UNCHANGED <<store, at, problem, shown, busy, posts, listing, dialog, slips, surprises>>

Restoring == listing \/ DOMAIN restoring # {} \/ \E r \in polls : r.origin # "own"

----------------------------------------------------------------------------
(* poll *)

PollRead(r) ==
    /\ r.step = "asking"
    /\ polls' = (polls \ {r}) \cup {[r EXCEPT !.step = "answered", !.status = executions[r.id].status]}
    /\ UNCHANGED <<store, at, problem, shown, busy, posts, listing, restoring, dialog, slips, surprises>>

\* Mutant: a result that comes late does not unlock.
UnlockIfShown(r) == IF executions[r.id].problem = problem /\ r.origin # "detail" THEN FALSE ELSE busy
\* Whichever poll ends, the page is free; only the first request after a reload
\* does not unlock.
Unlock(r) == IF r.origin = "detail" THEN busy ELSE FALSE

\* Whatever is shown gives way to the answer.
PollTold(r) ==
    /\ r.step = "answered"
    /\ shown' = [shown EXCEPT ![executions[r.id].problem] = View(r.id, r.status)]
    /\ IF Unfinished(r.status)
       THEN /\ polls' = (polls \ {r}) \cup {Poll(r.id, IF r.origin = "detail" THEN "resumed" ELSE r.origin)}
            /\ UNCHANGED busy
       ELSE /\ polls' = polls \ {r}
            /\ busy' = Unlock(r)
    /\ UNCHANGED <<store, at, problem, posts, listing, restoring, dialog, slips, surprises>>

\* The poll ends; the restoration is given up.
PollFails(r) ==
    /\ Surprise
    /\ polls' = polls \ {r}
    /\ busy' = Unlock(r)
    /\ restoring' = IF r.origin = "detail" THEN <<>> ELSE restoring
    /\ slips' = slips \cup {"unheard"}
    /\ UNCHANGED <<store, at, problem, shown, posts, listing, dialog>>

----------------------------------------------------------------------------
(* execute, submitReport *)

\* Mutant: what is unfinished on the console does not lock.
WhileIdle == Console(problem) # "waiting"
\* The buttons are disabled while busy; a dialog covers the page.
Clickable == at = "open" /\ dialog = None
Free == ~busy

Request(p, kind) ==
    /\ busy' = (at = "open")
    /\ posts' = Append(posts, Post(p, kind))
    /\ slips' = IF Restoring THEN slips \cup {"overlap"} ELSE slips

Bounded == Len(executions) + Cardinality({k \in DOMAIN posts : posts[k].step = "sent"}) < MaxExecutions

Run ==
    /\ Clickable
    /\ Free
    /\ problem \notin Reports
    /\ Bounded
    /\ Request(problem, "run")
    /\ UNCHANGED <<store, at, problem, shown, polls, listing, restoring, dialog, surprises>>

Submit ==
    /\ Clickable
    /\ Free
    /\ Bounded
    /\ dialog' = Post(problem, IF problem \in Reports THEN "report" ELSE "submit")
    /\ UNCHANGED <<store, at, problem, console, slips, surprises>>

\* What was true when the button was pressed is not asked again.
Confirm ==
    /\ dialog # None
    /\ dialog' = None
    /\ Request(dialog.problem, dialog.kind)
    /\ UNCHANGED <<store, at, problem, shown, polls, listing, restoring, surprises>>

Dismiss ==
    /\ dialog # None
    /\ dialog' = None
    /\ UNCHANGED <<store, at, problem, console, slips, surprises>>

PostTold(k) ==
    /\ posts[k].step # "sent"
    /\ posts' = RemoveAt(posts, k)
    /\ IF posts[k].heard /\ posts[k].step = "answered"
       THEN LET p == posts[k].problem IN
            IF p \in Reports
            THEN /\ shown' = [shown EXCEPT ![p] = View(posts[k].id, "done")]
                 /\ busy' = FALSE
                 /\ UNCHANGED polls
            ELSE /\ shown' = [shown EXCEPT ![p] = View(posts[k].id, "queued")]
                 /\ polls' = polls \cup {Poll(posts[k].id, "own")}
                 /\ UNCHANGED busy
       ELSE /\ busy' = (busy /\ ~posts[k].heard)
            /\ UNCHANGED <<shown, polls>>
    /\ UNCHANGED <<store, at, problem, listing, restoring, dialog, slips, surprises>>

\* The request may be served all the same.
PostFails(k) ==
    /\ posts[k].heard
    /\ Surprise
    /\ posts' = [posts EXCEPT ![k].heard = FALSE]
    /\ busy' = FALSE
    /\ slips' = slips \cup {"unheard"}
    /\ UNCHANGED <<store, at, problem, shown, polls, listing, restoring, dialog>>

SwitchProblem ==
    /\ Clickable
    /\ problem' \in Problems \ {problem}
    /\ UNCHANGED <<store, at, console, dialog, slips, surprises>>

----------------------------------------------------------------------------
Next ==
    \/ \E i \in DOMAIN executions : Start(i) \/ Judge(i)
    \/ CloseAttempt
    \/ \E k \in DOMAIN posts : Serve(k) \/ PostTold(k) \/ PostFails(k)
    \/ Load \/ Leave \/ Finish
    \/ RestoreList \/ ListFails
    \/ \E k \in DOMAIN restoring : FetchDetail(k)
    \/ \E r \in polls : PollRead(r) \/ PollTold(r) \/ PollFails(r)
    \/ Run \/ Submit \/ Confirm \/ Dismiss \/ SwitchProblem

Spec == Init /\ [][Next]_vars

----------------------------------------------------------------------------
(* Properties *)

OwnWork == (\E k \in DOMAIN posts : posts[k].heard) \/ \E r \in polls : r.origin = "own"

\* The page is locked exactly while it waits for what it has asked for: whatever
\* request fails, the lock is taken away in the end, and nothing else takes it away,
\* unless the candidate asked while results of the page before were being restored.
BusyMeansWork ==
    at = "open" => /\ busy => OwnWork
                   /\ OwnWork => busy \/ "overlap" \in slips

Settled ==
    /\ at = "open" /\ posts = <<>> /\ polls = {}
    /\ ~listing /\ DOMAIN restoring = {}
    /\ Pending = {}

\* When nothing is under way any more, the console of every problem shows the
\* verdict of its newest execution, after reloads, restorations and refusals, in
\* whatever order answers come: unless a request failed or its page was gone, or an
\* execution was asked for during a restoration, whose poll may end last.
ConsoleShowsNewest ==
    Settled /\ slips \cap {"overlap", "unheard"} = {} =>
        \A p \in Problems :
            /\ shown[p].id = Latest(p)
            /\ Latest(p) # 0 => Console(p) = "verdict"

----------------------------------------------------------------------------
(* The invariant the proofs use *)

Row    == [problem : Problems, kind : {"run", "submit"}, status : Statuses]
Asked  == [problem : Problems, kind : {"run", "submit", "report"}, step : {"sent", "answered", "refused"},
           id : Nat, heard : BOOLEAN]
Polled == [id : DOMAIN executions, origin : {"own", "detail", "resumed"}, step : {"asking", "answered"},
           status : Statuses \cup {"none"}]

TypeOK ==
    /\ executions \in Seq(Row) /\ open \in BOOLEAN
    /\ at \in {"closed", "open", "left"} /\ problem \in Problems
    /\ shown \in [Problems -> [id : Nat, status : Statuses \cup {"none"}]]
    /\ \A p \in Problems : shown[p].id \in Ids(p) \cup {0}
    /\ busy \in BOOLEAN
    /\ dialog # None => dialog \in Asked /\ dialog.step = "sent"
    /\ posts \in Seq(Asked)
    /\ \A k \in DOMAIN posts : posts[k].step = "answered" =>
           posts[k].id \in DOMAIN executions /\ executions[posts[k].id].problem = posts[k].problem
    /\ polls \subseteq Polled
    /\ \A r \in polls : r.step = "answered" => r.status \in Statuses
    /\ listing \in BOOLEAN
    /\ restoring \in [DOMAIN restoring -> DOMAIN executions]
    /\ slips \subseteq {"overlap", "unheard"}

Heard == {k \in DOMAIN posts : posts[k].heard}
Owned == {r \in polls : r.origin = "own"}

\* The page is locked only for work of its own, and only while nothing asks for confirmation; where it is not
\* open nothing is under way.
LockInv ==
    /\ busy => OwnWork /\ dialog = None
    /\ at # "open" => ~OwnWork /\ ~Restoring

\* Without an overlap it waits for one thing at a time, locked and done with restoring.
AloneInv ==
    "overlap" \notin slips /\ OwnWork =>
        /\ busy /\ ~Restoring
        /\ \A j, k \in Heard : j = k
        /\ \A q, r \in Owned : q = r
        /\ Heard = {} \/ Owned = {}

Clean == slips \cap {"overlap", "unheard"} = {}

\* No request of a page before is under way.
HeardInv ==
    /\ at = "closed" => dialog = None
    /\ Clean /\ at = "closed" => posts = <<>>
    /\ Clean /\ at = "open" => \A k \in DOMAIN posts : posts[k].heard

\* Each problem has its newest execution, and only those are asked for, or their answer awaited.
Newest(i) == \A j \in DOMAIN executions : executions[j].problem = executions[i].problem => j <= i
NewestInv ==
    /\ \A p \in Problems : Ids(p) # {} => Latest(p) \in Ids(p) /\ \A i \in Ids(p) : i <= Latest(p)
    /\ Clean => /\ \A k \in DOMAIN restoring : Newest(restoring[k])
                /\ \A r \in polls : Newest(r.id)
                /\ at = "open" => \A k \in DOMAIN posts : posts[k].step = "answered" => Newest(posts[k].id)

\* What the console of a problem does not show yet is on its way to it.
OnItsWay(i) ==
    \/ listing
    \/ \E k \in DOMAIN restoring : restoring[k] = i
    \/ \E r \in polls : r.id = i
    \/ \E k \in DOMAIN posts : posts[k].step = "answered" /\ posts[k].id = i
TrackInv ==
    Clean /\ at = "open" =>
        \A p \in Problems : Latest(p) # 0 =>
            OnItsWay(Latest(p)) \/ (shown[p].id = Latest(p) /\ ~Unfinished(shown[p].status))

RoomInv == TypeOK /\ LockInv /\ AloneInv /\ HeardInv /\ NewestInv /\ TrackInv
=============================================================================
