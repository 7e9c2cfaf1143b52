--------------------------- MODULE JudgePipeline ---------------------------
(***************************************************************************)
(* The judging pipeline: POST /attempts/{id}/executions in the API, the     *)
(* Redis list, the judge worker's dispatcher and threads, and the internal  *)
(* endpoints the worker calls back.                                         *)
(*                                                                          *)
(* The API is one asyncio process: a handler runs without interruption      *)
(* between two awaits, so a handler is split exactly at the awaits where    *)
(* it reads or writes shared state.  A worker is one process with a         *)
(* dispatcher loop and a thread per job; several workers may share the      *)
(* queue (docker compose up --scale judge=4).                               *)
(***************************************************************************)
EXTENDS Naturals, Sequences, FiniteSets

CONSTANTS
    Execs,          \* the executions clients may ask for
    Attempts,       \* the attempts (exam sittings) they belong to
    AttemptOf,      \* AttemptOf[e]: the attempt of execution e
    KindOf,         \* KindOf[e]: "run" (sample tests), "submit" (all tests) or
                    \* "report" (submit_report: recorded, never judged)
    Workers,        \* judge processes
    None,           \* no job
    Concurrency,    \* JUDGE_CONCURRENCY, the threads of one worker
    MaxPending,     \* MAX_PENDING of create_execution
    MaxTries,       \* how many times the worker posts one report
    Outcomes,       \* the verdicts judge_job may reach
    Tabs,           \* bound: requests one attempt has in the API at once
    MaxVersion,     \* bound: how often the problem's tests are replaced
    Resettable,     \* bound: the attempts staff may reset
    MaxFaults       \* bound: MaxFaults[k], how often fault k strikes

Kinds == {"run", "submit", "report"}
Verdicts == {"AC", "WA", "CE", "IE"}
FaultKinds == {"timeout", "api", "worker", "redis"}

ASSUME ExecsAssumption ==
    /\ IsFiniteSet(Execs)
    /\ None \notin Execs
    /\ AttemptOf \in [Execs -> Attempts]
    /\ KindOf \in [Execs -> Kinds]
ASSUME LimitsAssumption ==
    /\ Concurrency \in Nat \ {0}
    /\ MaxPending \in Nat \ {0}
    /\ MaxTries \in Nat \ {0}
    /\ Tabs \in Nat \ {0}
    /\ MaxVersion \in Nat
    /\ Outcomes \subseteq Verdicts
    /\ Resettable \subseteq Attempts
    /\ MaxFaults \in [FaultKinds -> Nat]

VARIABLES
    (* Postgres *)
    row,            \* row[e]: the executions row, NoRow when there is none
    events,         \* events[e]: how many "{kind}_result" events e has
    version,        \* the generation of the problem's test cases
    gone,           \* attempts deleted by a reset
    (* API process *)
    request,        \* request[e]: where create_execution for e stands
    jobVersion,     \* jobVersion[e]: the generation of tests e's job carries
    mark,           \* mark[e]: where the mark_running request for e stands
    reports,        \* reports[e][i]: where the i-th report_result for e stands
    (* Redis *)
    queue,          \* harnesser:judge:queue
    (* judge workers *)
    holding,        \* holding[w]: the job popped and waiting for a slot
    slots,          \* slots[w]: the semaphore's counter
    thread,         \* thread[w][e]: what w's thread for job e is doing
    tries,          \* tries[e]: how often the report of e was posted
    outcome,        \* outcome[e]: the verdict judge_job reached
    (* environment *)
    faults          \* faults[k]: how often fault k struck so far

database == <<row, events, version, gone>>
api      == <<request, jobVersion, mark, reports>>
worker   == <<holding, slots, thread, tries, outcome>>
vars     == <<database, api, queue, worker, faults>>

----------------------------------------------------------------------------
(* Data *)

Statuses == {"none", "queued", "running", "done", "error"}
Scores == {"none", "low", "full"}
Rows == [status : Statuses, verdict : Verdicts \cup {"none"},
         score : Scores, finished : BOOLEAN]
NoRow == [status |-> "none", verdict |-> "none", score |-> "none", finished |-> FALSE]
NewRow == [NoRow EXCEPT !.status = "queued"]
ReportRow == [NoRow EXCEPT !.status = "done", !.finished = TRUE]

Tries == 1 .. MaxTries
ReportStages == {"idle", "sent", "loaded", "weighed", "ok", "error", "lost"}
NoReport == [at |-> "idle", seen |-> NoRow, ver |-> 0]
Reports == [at : ReportStages, seen : Rows, ver : 0 .. MaxVersion]

Exists(e)  == row[e].status # "none"
Pending(e) == row[e].status \in {"queued", "running"}
Final(e)   == row[e].status \in {"done", "error"}

PendingOf(a)  == {e \in Execs : AttemptOf[e] = a /\ Pending(e)}
InFlight(a)   == {e \in Execs : AttemptOf[e] = a /\ request[e] \in {"checked", "built", "committed"}}

\* What the worker puts into body.status for a verdict of judge_job/handle.
StatusOf(v) == IF v = "IE" THEN "error" ELSE "done"

\* The score report_result computes: 100 * passed / total over the weights of
\* the reported tests that still exist, 0.0 when none of them does.
ScoreOf(v, sameTests) == IF v = "AC" /\ sameTests THEN "full" ELSE "low"

\* Mutant: the first value is kept.
WriteOnce(current, seen, new) == IF current = "none" THEN new ELSE current

\* A unit of work writes only the columns it changed since it loaded the row:
\* column c becomes new when new differs from the loaded value.
Write(current, seen, new) == IF new = seen THEN current ELSE new

\* The environment spends one fault of kind k.
Spend(k) ==
    /\ faults[k] < MaxFaults[k]
    /\ faults' = [faults EXCEPT ![k] = @ + 1]

----------------------------------------------------------------------------
Init ==
    /\ row = [e \in Execs |-> NoRow]
    /\ events = [e \in Execs |-> 0]
    /\ version = 0
    /\ gone = {}
    /\ request = [e \in Execs |-> "idle"]
    /\ jobVersion = [e \in Execs |-> 0]
    /\ mark = [e \in Execs |-> "idle"]
    /\ reports = [e \in Execs |-> [i \in Tries |-> NoReport]]
    /\ queue = <<>>
    /\ holding = [w \in Workers |-> None]
    /\ slots = [w \in Workers |-> Concurrency]
    /\ thread = [w \in Workers |-> [e \in Execs |-> "none"]]
    /\ tries = [e \in Execs |-> 0]
    /\ outcome = [e \in Execs |-> "none"]
    /\ faults = [k \in FaultKinds |-> 0]

----------------------------------------------------------------------------
(* create_execution *)

\* Mutant: off by one.
RoomForOneMore(a) == Cardinality(PendingOf(a)) <= MaxPending

\* The pending query lets the request pass.
Room(a) == Cardinality(PendingOf(a)) < MaxPending

\* The guards up to the pending query.  A refused request changes nothing.
CheckPending(e) ==
    LET a == AttemptOf[e] IN
    /\ KindOf[e] # "report"
    /\ request[e] = "idle"
    /\ a \notin gone
    /\ Cardinality(InFlight(a)) < Tabs
    /\ Room(a)
    /\ request' = [request EXCEPT ![e] = "checked"]
    /\ UNCHANGED <<database, jobVersion, mark, reports, queue, worker, faults>>

ReadTests(e) ==
    /\ request[e] = "checked"
    /\ request' = [request EXCEPT ![e] = "built"]
    /\ jobVersion' = [jobVersion EXCEPT ![e] = version]
    /\ UNCHANGED <<database, mark, reports, queue, worker, faults>>

\* The row and its "{kind}_requested" event; the foreign key refuses them when
\* the attempt was deleted meanwhile.
CommitRow(e) ==
    /\ request[e] = "built"
    /\ \/ /\ AttemptOf[e] \notin gone
          /\ request' = [request EXCEPT ![e] = "committed"]
          /\ row' = [row EXCEPT ![e] = NewRow]
       \/ /\ AttemptOf[e] \in gone
          /\ request' = [request EXCEPT ![e] = "failed"]
          /\ UNCHANGED row
    /\ UNCHANGED <<events, version, gone, jobVersion, mark, reports, queue, worker, faults>>

\* enqueue_execution, after the commit.
Enqueue(e) ==
    /\ request[e] = "committed"
    /\ request' = [request EXCEPT ![e] = "answered"]
    /\ queue' = Append(queue, e)
    /\ UNCHANGED <<database, jobVersion, mark, reports, worker, faults>>

EnqueueFails(e) ==
    /\ request[e] = "committed"
    /\ Spend("redis")
    /\ request' = [request EXCEPT ![e] = "failed"]
    /\ UNCHANGED <<database, jobVersion, mark, reports, queue, worker>>

\* submit_report: a row that is done from the start; the judge never sees it.
SubmitReport(e) ==
    /\ KindOf[e] = "report"
    /\ request[e] = "idle"
    /\ AttemptOf[e] \notin gone
    /\ request' = [request EXCEPT ![e] = "answered"]
    /\ row' = [row EXCEPT ![e] = ReportRow]
    /\ UNCHANGED <<events, version, gone, jobVersion, mark, reports, queue, worker, faults>>

----------------------------------------------------------------------------
(* worker.main: the dispatcher *)

\* Mutant: the job stays in the list.
Peeked(q) == q
\* What BRPOP leaves in the list.
Popped(q) == Tail(q)

\* BRPOP takes the job out of Redis before a slot is known to be free.
Pop(w) ==
    /\ holding[w] = None
    /\ queue # <<>>
    /\ holding' = [holding EXCEPT ![w] = Head(queue)]
    /\ queue' = Popped(queue)
    /\ UNCHANGED <<database, api, slots, thread, tries, outcome, faults>>

\* The connection breaks after Redis removed the job: RedisError, sleep, loop.
PopLost(w) ==
    /\ holding[w] = None
    /\ queue # <<>>
    /\ Spend("redis")
    /\ queue' = Popped(queue)
    /\ UNCHANGED <<database, api, worker>>

\* Mutant: a job that finds no free slot is dropped.
SpawnOrDrop(w) ==
    /\ holding[w] # None
    /\ IF slots[w] > 0
       THEN /\ slots' = [slots EXCEPT ![w] = @ - 1]
            /\ thread' = [thread EXCEPT ![w][holding[w]] = "marking"]
            /\ mark' = [mark EXCEPT ![holding[w]] = "sent"]
       ELSE UNCHANGED <<slots, thread, mark>>
    /\ holding' = [holding EXCEPT ![w] = None]
    /\ UNCHANGED <<database, request, jobVersion, reports, queue, tries, outcome, faults>>

\* Mutant: one slot is always kept free.
AcquireKeepsOne(w) == slots[w] > 1 /\ slots' = [slots EXCEPT ![w] = @ - 1]

\* slots.acquire() returns only with a free slot.
Acquire(w) == slots[w] > 0 /\ slots' = [slots EXCEPT ![w] = @ - 1]

\* slots.acquire(), then a thread that runs handle: it posts mark_running.
Spawn(w) ==
    /\ holding[w] # None
    /\ Acquire(w)
    /\ thread' = [thread EXCEPT ![w][holding[w]] = "marking"]
    /\ mark' = [mark EXCEPT ![holding[w]] = "sent"]
    /\ holding' = [holding EXCEPT ![w] = None]
    /\ UNCHANGED <<database, request, jobVersion, reports, queue, tries, outcome, faults>>

----------------------------------------------------------------------------
(* internal.mark_running *)

MarkLoads(e) ==
    /\ mark[e] = "sent"
    /\ mark' = [mark EXCEPT ![e] = IF row[e].status = "queued" THEN "loaded" ELSE "over"]
    /\ UNCHANGED <<database, request, jobVersion, reports, queue, worker, faults>>

\* The UPDATE sets the one changed column, whatever the row holds by now.
MarkCommits(e) ==
    /\ mark[e] = "loaded"
    /\ mark' = [mark EXCEPT ![e] = "over"]
    /\ \/ Exists(e) /\ row' = [row EXCEPT ![e].status = "running"]
       \/ ~Exists(e) /\ UNCHANGED row
    /\ UNCHANGED <<events, version, gone, request, jobVersion, reports, queue, worker, faults>>

----------------------------------------------------------------------------
(* worker.handle: the thread of one job *)

\* Mutant: the thread does not wait for the answer of mark_running.
MarkNotAwaited(e) == TRUE

MarkDone(e) == mark[e] = "over"

MarkAnswered(w, e) ==
    /\ thread[w][e] = "marking"
    /\ MarkDone(e)
    /\ thread' = [thread EXCEPT ![w][e] = "judging"]
    /\ UNCHANGED <<database, api, queue, holding, slots, tries, outcome, faults>>

\* The 5 s timeout of mark_running: the thread goes on, the handler too.
MarkTimesOut(w, e) ==
    /\ thread[w][e] = "marking"
    /\ mark[e] # "over"
    /\ Spend("timeout")
    /\ thread' = [thread EXCEPT ![w][e] = "judging"]
    /\ UNCHANGED <<database, api, queue, holding, slots, tries, outcome>>

\* judge_job reaches verdict v ("IE" also when it raises); report posts it.
Judge(w, e, v) ==
    /\ thread[w][e] = "judging"
    /\ thread' = [thread EXCEPT ![w][e] = "reporting"]
    /\ outcome' = [outcome EXCEPT ![e] = v]
    /\ tries' = [tries EXCEPT ![e] = 1]
    /\ reports' = [reports EXCEPT ![e][1].at = "sent"]
    /\ UNCHANGED <<database, request, jobVersion, mark, queue, holding, slots, faults>>

\* Mutant: the release is not in a finally / is done twice.
EndThreadKeepsSlot(w, e) ==
    /\ thread' = [thread EXCEPT ![w][e] = "none"]
    /\ UNCHANGED slots

\* The thread ends and its slot is released.
EndThread(w, e) ==
    /\ thread' = [thread EXCEPT ![w][e] = "none"]
    /\ slots' = [slots EXCEPT ![w] = @ + 1]

\* A status below 500: 200, or 404 for an execution that no longer exists.
ReportAnswered(w, e) ==
    /\ thread[w][e] = "reporting"
    /\ reports[e][tries[e]].at = "ok"
    /\ EndThread(w, e)
    /\ UNCHANGED <<database, api, queue, holding, tries, outcome, faults>>

\* The post failed: a 5xx or a broken connection, or the 15 s timeout ran out.
PostFailed(e) ==
    \/ reports[e][tries[e]].at \in {"error", "lost"} /\ UNCHANGED faults
    \/ reports[e][tries[e]].at \in {"sent", "loaded", "weighed", "ok"} /\ Spend("timeout")

Retry(w, e) ==
    /\ thread[w][e] = "reporting"
    /\ tries[e] < MaxTries
    /\ PostFailed(e)
    /\ tries' = [tries EXCEPT ![e] = @ + 1]
    /\ reports' = [reports EXCEPT ![e][tries[e] + 1].at = "sent"]
    /\ UNCHANGED <<database, request, jobVersion, mark, queue, holding, slots, thread, outcome>>

GiveUp(w, e) ==
    /\ thread[w][e] = "reporting"
    /\ tries[e] = MaxTries
    /\ PostFailed(e)
    /\ EndThread(w, e)
    /\ UNCHANGED <<database, api, queue, holding, tries, outcome>>

----------------------------------------------------------------------------
(* internal.report_result *)

\* Only a "submit" that was judged is scored.
Scored(e) == KindOf[e] = "submit" /\ StatusOf(outcome[e]) = "done"

ReportLoads(e, i) ==
    /\ reports[e][i].at = "sent"
    /\ \/ Exists(e) /\ reports' = [reports EXCEPT ![e][i] = [@ EXCEPT !.at = "loaded", !.seen = row[e]]]
       \/ ~Exists(e) /\ reports' = [reports EXCEPT ![e][i].at = "ok"]
    /\ UNCHANGED <<database, request, jobVersion, mark, queue, worker, faults>>

ReportReadsTests(e, i) ==
    /\ reports[e][i].at = "loaded"
    /\ Scored(e)
    /\ reports' = [reports EXCEPT ![e][i].at = "weighed", ![e][i].ver = version]
    /\ UNCHANGED <<database, request, jobVersion, mark, queue, worker, faults>>

\* The values report_result assigns to the loaded object.
Assigned(e, i) ==
    LET r == reports[e][i] IN
    [status   |-> StatusOf(outcome[e]),
     verdict  |-> outcome[e],
     score    |-> IF Scored(e) THEN ScoreOf(outcome[e], r.ver = jobVersion[e]) ELSE r.seen.score,
     finished |-> TRUE]

\* The commit: the changed columns and one "{kind}_result" event.  The row may
\* have been deleted since it was loaded: the UPDATE matches nothing, a 500.
ReportCommits(e, i) ==
    LET r == reports[e][i]
        new == Assigned(e, i) IN
    /\ r.at = IF Scored(e) THEN "weighed" ELSE "loaded"
    /\ \/ /\ Exists(e)
          /\ row' = [row EXCEPT ![e] =
                       [status   |-> Write(@.status, r.seen.status, new.status),
                        verdict  |-> Write(@.verdict, r.seen.verdict, new.verdict),
                        score    |-> Write(@.score, r.seen.score, new.score),
                        finished |-> TRUE]]
          /\ events' = [events EXCEPT ![e] = @ + 1]
          /\ reports' = [reports EXCEPT ![e][i] = [NoReport EXCEPT !.at = "ok"]]
       \/ /\ ~Exists(e)
          /\ reports' = [reports EXCEPT ![e][i] = [NoReport EXCEPT !.at = "error"]]
          /\ UNCHANGED <<row, events>>
    /\ UNCHANGED <<version, gone, request, jobVersion, mark, queue, worker, faults>>

----------------------------------------------------------------------------
(* Staff *)

\* update_problem: every test case row is replaced, so every test id is new.
EditProblem ==
    /\ version < MaxVersion
    /\ version' = version + 1
    /\ UNCHANGED <<row, events, gone, api, queue, worker, faults>>

\* reset_attempt: the attempt goes, and its executions and events with it.
ResetAttempt(a) ==
    /\ a \notin gone
    /\ gone' = gone \cup {a}
    /\ row' = [e \in Execs |-> IF AttemptOf[e] = a THEN NoRow ELSE row[e]]
    /\ events' = [e \in Execs |-> IF AttemptOf[e] = a THEN 0 ELSE events[e]]
    /\ UNCHANGED <<version, api, queue, worker, faults>>

----------------------------------------------------------------------------
(* Faults *)

\* The worker process dies and is restarted: its memory is empty again.
WorkerCrash(w) ==
    /\ Spend("worker")
    /\ holding' = [holding EXCEPT ![w] = None]
    /\ slots' = [slots EXCEPT ![w] = Concurrency]
    /\ thread' = [thread EXCEPT ![w] = [e \in Execs |-> "none"]]
    /\ UNCHANGED <<database, api, queue, tries, outcome>>

\* The API process dies and is restarted: every request in it is gone, and the
\* answers already written reach the worker or do not (answersLost).
ApiCrash(answersLost) ==
    /\ Spend("api")
    /\ request' = [e \in Execs |->
                     IF request[e] \in {"checked", "built", "committed"} THEN "failed" ELSE request[e]]
    /\ mark' = [e \in Execs |-> IF mark[e] \in {"sent", "loaded"} THEN "over" ELSE mark[e]]
    /\ reports' = [e \in Execs |-> [i \in Tries |->
                     IF \/ reports[e][i].at \in {"sent", "loaded", "weighed"}
                        \/ reports[e][i].at = "ok" /\ answersLost
                     THEN [NoReport EXCEPT !.at = "lost"] ELSE reports[e][i]]]
    /\ UNCHANGED <<database, jobVersion, queue, worker>>

\* Redis restarts: its list is not on a volume.
RedisLoss ==
    /\ queue # <<>>
    /\ Spend("redis")
    /\ queue' = <<>>
    /\ UNCHANGED <<database, api, worker>>

----------------------------------------------------------------------------
Client(e) == SubmitReport(e) \/ CheckPending(e) \/ ReadTests(e) \/ CommitRow(e) \/ Enqueue(e)

Handlers(e) ==
    \/ MarkLoads(e)
    \/ MarkCommits(e)
    \/ \E i \in Tries : ReportLoads(e, i) \/ ReportReadsTests(e, i) \/ ReportCommits(e, i)

Thread(w, e) ==
    \/ MarkAnswered(w, e)
    \/ \E v \in Outcomes : Judge(w, e, v)
    \/ ReportAnswered(w, e)
    \/ Retry(w, e)
    \/ GiveUp(w, e)

Staff == EditProblem \/ \E a \in Resettable : ResetAttempt(a)

Fault ==
    \/ \E e \in Execs : EnqueueFails(e)
    \/ \E w \in Workers, e \in Execs : MarkTimesOut(w, e)
    \/ \E w \in Workers : PopLost(w) \/ WorkerCrash(w)
    \/ \E answersLost \in BOOLEAN : ApiCrash(answersLost)
    \/ RedisLoss

Next ==
    \/ \E e \in Execs : Client(e) \/ Handlers(e)
    \/ \E w \in Workers : Pop(w) \/ Spawn(w) \/ \E e \in Execs : Thread(w, e)
    \/ Staff
    \/ Fault

Spec == Init /\ [][Next]_vars

(***************************************************************************)
(* Fairness: a request the API accepted is carried on by the event loop,   *)
(* the dispatcher loops for ever, a started thread runs.  Clients need not *)
(* ask, staff need not act, faults need not strike.                        *)
(***************************************************************************)
Fairness ==
    /\ \A e \in Execs : WF_vars(ReadTests(e) \/ CommitRow(e) \/ Enqueue(e))
    /\ \A e \in Execs : WF_vars(MarkLoads(e) \/ MarkCommits(e))
    /\ \A e \in Execs, i \in Tries :
          WF_vars(ReportLoads(e, i) \/ ReportReadsTests(e, i) \/ ReportCommits(e, i))
    /\ \A w \in Workers : WF_vars(Pop(w)) /\ WF_vars(Spawn(w))
    /\ \A w \in Workers, e \in Execs : WF_vars(Thread(w, e))

FairSpec == Spec /\ Fairness

----------------------------------------------------------------------------
(* Properties *)

\* Every variable keeps to the values the code gives it.
TypeOK ==
    /\ row \in [Execs -> Rows]
    /\ events \in [Execs -> Nat]
    /\ version \in 0 .. MaxVersion
    /\ gone \subseteq Attempts
    /\ request \in [Execs -> {"idle", "checked", "built", "committed", "answered", "failed"}]
    /\ jobVersion \in [Execs -> 0 .. MaxVersion]
    /\ mark \in [Execs -> {"idle", "sent", "loaded", "over"}]
    /\ reports \in [Execs -> [Tries -> Reports]]
    /\ queue \in Seq(Execs)
    /\ holding \in [Workers -> Execs \cup {None}]
    /\ slots \in [Workers -> Nat]
    /\ thread \in [Workers -> [Execs -> {"none", "marking", "judging", "reporting"}]]
    /\ tries \in [Execs -> 0 .. MaxTries]
    /\ outcome \in [Execs -> Verdicts \cup {"none"}]
    /\ faults \in [FaultKinds -> Nat]

Queued(e) == \E i \in DOMAIN queue : queue[i] = e
Held(w)   == {e \in Execs : holding[w] = e \/ thread[w][e] # "none"}
Carried(e) == request[e] = "committed" \/ Queued(e) \/ \E w \in Workers : e \in Held(w)

\* A job is in one place: once in the Redis list, or with one worker, and there
\* either popped or on a thread.  Two carriers would judge and report it twice
\* (LPUSH once per row, BRPOP removes, the dispatcher hands over).
OneCarrier ==
    /\ \A i, j \in DOMAIN queue : queue[i] = queue[j] => i = j
    /\ \A e \in Execs, w \in Workers :
          e \in Held(w) => /\ ~Queued(e)
                           /\ (holding[w] = e => thread[w][e] = "none")
                           /\ \A v \in Workers : e \in Held(v) => v = w

Stranded == {e \in Execs : Pending(e) /\ ~Carried(e)}

\* Nobody works on a pending execution only if a fault struck: the code has no
\* sweep that finds such a row, and it counts against MAX_PENDING for ever.
StrandedOnlyByFault == Stranded # {} => \E k \in FaultKinds : faults[k] > 0

\* A finished execution stays done or error unless a request timed out: only a
\* mark_running that outlives its caller can overtake the report and put the
\* row back to "running".
FinishedIsFinal == \A e \in Execs : row[e].finished => Final(e) \/ faults["timeout"] > 0

Fresh(a)   == {e \in PendingOf(a) : ~row[e].finished}
Counted(a) == {e \in Execs : AttemptOf[e] = a /\ request[e] \in {"checked", "built"}}

\* What the pending check of create_execution really promises: with Tabs
\* requests at once, MAX_PENDING - 1 + Tabs executions wait at most.
PendingOverrunBounded ==
    \A a \in Attempts :
        Cardinality(Fresh(a)) + Cardinality(Counted(a)) <= MaxPending - 1 + Tabs

\* Every execution the API committed is finished or deleted with its attempt, or
\* else a fault has stranded it: the queue, the dispatcher, the slots and the
\* callbacks never block a job for ever.
EveryExecutionFinishes ==
    \A e \in Execs :
        request[e] = "committed" ~> Final(e) \/ AttemptOf[e] \in gone \/ e \in Stranded

\* A worker whose threads are all busy gets a slot back, also when the API fails
\* or the worker itself dies: report gives up after its tries, and release is in
\* a finally.
SlotsComeBack == \A w \in Workers : slots[w] = 0 ~> slots[w] > 0

----------------------------------------------------------------------------
(* The inductive strengthening the proofs rest on, in named parts.           *)

NoTimeout == faults["timeout"] = 0
NoFault   == \A k \in FaultKinds : faults[k] = 0

InHand(e)   == Queued(e) \/ \E w \in Workers : holding[w] = e
OnThread(e) == \E w \in Workers : thread[w][e] # "none"
Young(e)    == request[e] \in {"idle", "checked", "built", "committed"} \/ InHand(e)
Marking(e)  == \E w \in Workers : thread[w][e] = "marking"
Judging(e)  == \E w \in Workers : thread[w][e] \in {"judging", "reporting"}
Unreported(e) == ~row[e].finished /\ \A i \in Tries : reports[e][i].at = "idle"

\* Only a job that was enqueued travels.
TravelInv == \A e \in Execs : InHand(e) \/ OnThread(e) => request[e] = "answered"

\* Until its thread starts, nothing has happened to a job, and until the thread
\* judges, nothing has been reported.
YoungInv ==
    \A e \in Execs :
        /\ (Young(e) => mark[e] = "idle" /\ Unreported(e))
        /\ (Marking(e) => Unreported(e))

\* Without timeouts mark_running is over before the job is judged.
MarkInv ==
    NoTimeout => \A e \in Execs :
        /\ (mark[e] \in {"sent", "loaded"} => Unreported(e))
        /\ (Judging(e) => mark[e] = "over")

\* A thread that reports has posted its report at least once.
PostedInv == \A e \in Execs, w \in Workers : thread[w][e] = "reporting" => tries[e] \in Tries

\* A row is final only because it is finished.
RowInv == \A e \in Execs : Final(e) => row[e].finished

\* Without timeouts a finished row stays final, and so does one a report has seen.
FinalInv ==
    NoTimeout => \A e \in Execs :
        /\ (row[e].finished => Final(e))
        /\ \A i \in Tries :
              reports[e][i].at \in {"loaded", "weighed"} /\ reports[e][i].seen.status \in {"done", "error"}
                => ~Pending(e)

\* Without faults an answered report leaves no pending row behind, and a failed
\* one no row at all.
AnswerInv ==
    NoFault => \A e \in Execs, i \in Tries :
        /\ (reports[e][i].at = "ok" => ~Pending(e))
        /\ (reports[e][i].at = "error" => ~Exists(e))
        /\ reports[e][i].at # "lost"

\* Without faults somebody works on every pending execution.
CarriedInv == NoFault => \A e \in Execs : Pending(e) => Carried(e)

\* There is a row only once the request has committed it, a verdict only in a
\* row; a report deliverable is never sent to the judge.
EntryInv ==
    \A e \in Execs :
        /\ (request[e] \in {"idle", "checked", "built"} => ~Exists(e))
        /\ (~Exists(e) => row[e].verdict = "none")
        /\ (KindOf[e] = "report" =>
              request[e] \in {"idle", "answered"} /\ ~InHand(e) /\ ~OnThread(e) /\ outcome[e] = "none")

\* A job is judged before its first report and never after one.
JudgedInv ==
    \A e \in Execs :
        /\ \A w \in Workers : thread[w][e] = "judging" => Unreported(e)
        /\ (tries[e] > 0 => outcome[e] # "none")
        /\ \A i \in Tries : reports[e][i].at # "idle" => outcome[e] # "none"

\* Without timeouts the only verdict a row, or a report that loaded it, can hold is
\* the one the judge reached, and then the row waits no more.
VerdictInv ==
    NoTimeout => \A e \in Execs :
        /\ (Pending(e) => row[e].verdict = "none")
        /\ (Final(e) => row[e].verdict = outcome[e])
        /\ \A i \in Tries :
              reports[e][i].at \in {"loaded", "weighed"} /\ reports[e][i].seen.verdict # "none"
                => reports[e][i].seen.verdict = outcome[e] /\ ~Pending(e)

JudgeInv == TypeOK /\ OneCarrier /\ TravelInv /\ YoungInv /\ MarkInv
            /\ PostedInv /\ RowInv /\ FinalInv /\ AnswerInv /\ CarriedInv

LedgerInv == EntryInv /\ JudgedInv /\ VerdictInv

----------------------------------------------------------------------------
(* Refinement *)

StageOf(e) == IF Final(e) THEN "decided" ELSE IF Pending(e) THEN "pending" ELSE "absent"

Ledger == INSTANCE ExecutionLedger WITH
    stage   <- [e \in Execs |-> StageOf(e)],
    verdict <- [e \in Execs |-> row[e].verdict],
    notices <- events

\* As long as no request times out, the rows and the timeline are a ledger: the
\* retries of report_result, crashes of the API and of workers, a lost queue and
\* edits of the problem never undo or change a decision.
ImplementsLedger == Ledger!LedgerSpec
=============================================================================
