------------------------ MODULE JudgePipeline_proofs ------------------------
(***************************************************************************)
(* Theorems about JudgePipeline, for every number of executions, workers,  *)
(* slots, tries and faults.                                                *)
(***************************************************************************)
EXTENDS JudgePipeline, FiniteSetTheorems, TLAPS

LEMMA RowTypes == NoRow \in Rows /\ NewRow \in Rows /\ ReportRow \in Rows
BY DEF NoRow, NewRow, ReportRow, Rows, Statuses, Scores, Verdicts

LEMMA ReportTypes == NoReport \in Reports /\ 1 \in Tries
BY LimitsAssumption, RowTypes DEF NoReport, Reports, ReportStages, Tries

LEMMA ReportUpdate ==
    ASSUME NEW r \in Reports, NEW s \in ReportStages
    PROVE  [r EXCEPT !.at = s] \in Reports
BY DEF Reports

LEMMA ReportsUpdate ==
    ASSUME NEW f \in [Execs -> [Tries -> Reports]], NEW e \in Execs, NEW i \in Tries,
           NEW r \in Reports
    PROVE  [f EXCEPT ![e][i] = r] \in [Execs -> [Tries -> Reports]]
OBVIOUS

LEMMA ReportsAtUpdate ==
    ASSUME NEW f \in [Execs -> [Tries -> Reports]], NEW e \in Execs, NEW i \in Tries,
           NEW s \in ReportStages
    PROVE  [f EXCEPT ![e][i].at = s] \in [Execs -> [Tries -> Reports]]
<1>1. [f[e][i] EXCEPT !.at = s] \in Reports
    BY ReportUpdate
<1>2. [f EXCEPT ![e][i].at = s] = [f EXCEPT ![e][i] = [f[e][i] EXCEPT !.at = s]]
    OBVIOUS
<1> QED
    BY <1>1, <1>2, ReportsUpdate

LEMMA InitTypeOK == Init => TypeOK
<1> SUFFICES ASSUME Init PROVE TypeOK
    OBVIOUS
<1> QED
    BY RowTypes, ReportTypes, LimitsAssumption
    DEF Init, TypeOK

\* A fault leaves its counter a natural number.
LEMMA SpendType ==
    ASSUME TypeOK, NEW k \in FaultKinds, Spend(k)
    PROVE  faults' \in [FaultKinds -> Nat]
BY DEF TypeOK, Spend

\* The steps of create_execution and submit_report keep the types.
LEMMA ClientType ==
    ASSUME TypeOK, NEW e \in Execs, Client(e) \/ EnqueueFails(e)
    PROVE  TypeOK'
<1>1. CASE SubmitReport(e)
    BY <1>1, RowTypes DEF SubmitReport, TypeOK, worker
<1>2. CASE CheckPending(e)
    BY <1>2 DEF CheckPending, TypeOK, worker, database
<1>3. CASE ReadTests(e)
    BY <1>3 DEF ReadTests, TypeOK, worker, database
<1>4. CASE CommitRow(e)
    <2>1. /\ row' \in [Execs -> Rows]
          /\ request' \in [Execs -> {"idle", "checked", "built", "committed", "answered", "failed"}]
        <3> /\ row \in [Execs -> Rows]
            /\ request \in [Execs -> {"idle", "checked", "built", "committed", "answered", "failed"}]
            BY DEF TypeOK
        <3> QED
            BY <1>4, RowTypes DEF CommitRow
    <2> QED
        BY <1>4, <2>1 DEF CommitRow, TypeOK, worker
<1>5. CASE Enqueue(e)
    BY <1>5 DEF Enqueue, TypeOK, worker, database
<1>6. CASE EnqueueFails(e)
    BY <1>6, SpendType DEF EnqueueFails, FaultKinds, TypeOK, worker, database
<1> QED
    BY <1>1, <1>2, <1>3, <1>4, <1>5, <1>6 DEF Client

\* So do the dispatcher and the loss of Redis' list.
LEMMA DispatcherType ==
    ASSUME TypeOK,
           RedisLoss \/ \E w \in Workers : Pop(w) \/ PopLost(w) \/ Spawn(w)
    PROVE  TypeOK'
<1>1. ASSUME NEW w \in Workers, Pop(w) PROVE TypeOK'
    BY <1>1 DEF Pop, Popped, TypeOK, api, database
<1>2. ASSUME NEW w \in Workers, PopLost(w) PROVE TypeOK'
    <2>1. faults' \in [FaultKinds -> Nat]
        BY <1>2, SpendType DEF PopLost, FaultKinds
    <2>2. queue' \in Seq(Execs)
        BY <1>2 DEF PopLost, Popped, TypeOK
    <2> QED
        BY <1>2, <2>1, <2>2 DEF PopLost, TypeOK, api, database, worker
<1>3. ASSUME NEW w \in Workers, Spawn(w) PROVE TypeOK'
    <2>1. holding[w] \in Execs /\ slots[w] - 1 \in Nat
        BY <1>3 DEF Spawn, Acquire, TypeOK
    <2>2. /\ slots' \in [Workers -> Nat]
          /\ thread' \in [Workers -> [Execs -> {"none", "marking", "judging", "reporting"}]]
          /\ mark' \in [Execs -> {"idle", "sent", "loaded", "over"}]
          /\ holding' \in [Workers -> Execs \cup {None}]
        BY <1>3, <2>1 DEF Spawn, Acquire, TypeOK
    <2> QED
        BY <1>3, <2>2 DEF Spawn, TypeOK, database
<1>4. CASE RedisLoss
    <2>1. faults' \in [FaultKinds -> Nat]
        BY <1>4, SpendType DEF RedisLoss, FaultKinds
    <2> QED
        BY <1>4, <2>1 DEF RedisLoss, TypeOK, api, database, worker
<1> QED
    BY <1>1, <1>2, <1>3, <1>4

\* The threads and the mark_running handler.
LEMMA ThreadType ==
    ASSUME TypeOK, NEW w \in Workers, NEW e \in Execs,
           Thread(w, e) \/ MarkTimesOut(w, e)
    PROVE  TypeOK'
<1>1. CASE MarkAnswered(w, e)
    BY <1>1 DEF MarkAnswered, TypeOK, api, database
<1>2. CASE MarkTimesOut(w, e)
    <2>1. faults' \in [FaultKinds -> Nat]
        BY <1>2, SpendType DEF MarkTimesOut, FaultKinds
    <2> QED
        BY <1>2, <2>1 DEF MarkTimesOut, TypeOK, api, database
<1>3. ASSUME NEW v \in Outcomes, Judge(w, e, v) PROVE TypeOK'
    <2>1. reports' \in [Execs -> [Tries -> Reports]]
        BY <1>3, ReportTypes, ReportsAtUpdate DEF Judge, TypeOK, ReportStages
    <2> QED
        BY <1>3, <2>1, LimitsAssumption DEF Judge, TypeOK, database
<1>4. ASSUME PostFailed(e) PROVE faults' \in [FaultKinds -> Nat]
    BY <1>4, SpendType DEF PostFailed, FaultKinds, TypeOK
<1>5. CASE Retry(w, e)
    <2>1. tries[e] + 1 \in Tries /\ tries[e] + 1 \in 0 .. MaxTries
        BY <1>5, LimitsAssumption DEF Retry, TypeOK, Tries
    <2>2. reports' \in [Execs -> [Tries -> Reports]]
        BY <1>5, <2>1, ReportsAtUpdate DEF Retry, TypeOK, ReportStages
    <2> QED
        BY <1>4, <1>5, <2>1, <2>2 DEF Retry, TypeOK, database
<1>6. ASSUME EndThread(w, e)
      PROVE  /\ thread' \in [Workers -> [Execs -> {"none", "marking", "judging", "reporting"}]]
             /\ slots' \in [Workers -> Nat]
    BY <1>6 DEF EndThread, TypeOK
<1>7. CASE ReportAnswered(w, e)
    BY <1>6, <1>7 DEF ReportAnswered, TypeOK, api, database
<1>8. CASE GiveUp(w, e)
    BY <1>4, <1>6, <1>8 DEF GiveUp, TypeOK, api, database
<1> QED
    BY <1>1, <1>2, <1>3, <1>5, <1>7, <1>8 DEF Thread

\* The handlers of the worker's callbacks.
LEMMA HandlerType ==
    ASSUME TypeOK, NEW e \in Execs, Handlers(e)
    PROVE  TypeOK'
<1> /\ row \in [Execs -> Rows] /\ row[e] \in Rows
    /\ reports \in [Execs -> [Tries -> Reports]]
    /\ version \in 0 .. MaxVersion
    /\ events \in [Execs -> Nat]
    /\ outcome[e] \in Verdicts \cup {"none"}
    BY DEF TypeOK
<1>1. CASE MarkLoads(e)
    BY <1>1 DEF MarkLoads, TypeOK, database, worker
<1>2. CASE MarkCommits(e)
    <2>1. [row[e] EXCEPT !.status = "running"] \in Rows
        BY DEF Rows, Statuses
    <2>2. row' \in [Execs -> Rows]
        BY <1>2, <2>1 DEF MarkCommits
    <2> QED
        BY <1>2, <2>2 DEF MarkCommits, TypeOK, worker
<1>3. ASSUME NEW i \in Tries, ReportLoads(e, i) PROVE TypeOK'
    <2>1. reports[e][i] \in Reports
        OBVIOUS
    <2>2. [reports[e][i] EXCEPT !.at = "loaded", !.seen = row[e]] \in Reports
        BY <2>1 DEF Reports, ReportStages
    <2>3. reports' \in [Execs -> [Tries -> Reports]]
        <3>1. CASE Exists(e)
            <4>1. reports' = [reports EXCEPT ![e][i] = [reports[e][i] EXCEPT !.at = "loaded", !.seen = row[e]]]
                BY <1>3, <3>1 DEF ReportLoads
            <4> QED
                BY <2>2, <4>1, ReportsUpdate, Zenon
        <3>2. CASE ~Exists(e)
            <4>1. reports' = [reports EXCEPT ![e][i].at = "ok"]
                BY <1>3, <3>2 DEF ReportLoads
            <4> QED
                BY <4>1, ReportsAtUpdate DEF ReportStages
        <3> QED
            BY <3>1, <3>2
    <2> QED
        BY <1>3, <2>3 DEF ReportLoads, TypeOK, database, worker
<1>4. ASSUME NEW i \in Tries, ReportReadsTests(e, i) PROVE TypeOK'
    <2> DEFINE r == [reports[e][i] EXCEPT !.at = "weighed", !.ver = version]
    <2>1. reports[e][i] \in Reports
        OBVIOUS
    <2>2. r \in Reports
        BY <2>1 DEF Reports, ReportStages
    <2>3. reports' = [reports EXCEPT ![e][i] = r]
        BY <1>4 DEF ReportReadsTests
    <2>4. reports' \in [Execs -> [Tries -> Reports]]
        BY <2>2, <2>3, ReportsUpdate
    <2> QED
        BY <1>4, <2>4 DEF ReportReadsTests, TypeOK, database, worker
<1>5. ASSUME NEW i \in Tries, ReportCommits(e, i) PROVE TypeOK'
    <2> DEFINE r == reports[e][i]
               new == Assigned(e, i)
               written == [status   |-> Write(row[e].status, r.seen.status, new.status),
                           verdict  |-> Write(row[e].verdict, r.seen.verdict, new.verdict),
                           score    |-> Write(row[e].score, r.seen.score, new.score),
                           finished |-> TRUE]
    <2>1. \/ /\ row' = [row EXCEPT ![e] = written]
             /\ events' = [events EXCEPT ![e] = @ + 1]
             /\ reports' = [reports EXCEPT ![e][i] = [NoReport EXCEPT !.at = "ok"]]
          \/ /\ reports' = [reports EXCEPT ![e][i] = [NoReport EXCEPT !.at = "error"]]
             /\ UNCHANGED <<row, events>>
        BY <1>5 DEF ReportCommits
    <2>2. /\ [NoReport EXCEPT !.at = "ok"] \in Reports
          /\ [NoReport EXCEPT !.at = "error"] \in Reports
        BY ReportTypes, ReportUpdate DEF ReportStages
    <2>3. reports' \in [Execs -> [Tries -> Reports]]
        <3>1. PICK q \in Reports : reports' = [reports EXCEPT ![e][i] = q]
            BY <2>1, <2>2, Zenon
        <3> QED
            BY <3>1, ReportsUpdate
    <2>4. events' \in [Execs -> Nat]
        BY <2>1
    <2>5. r \in Reports /\ r.seen \in Rows
        BY DEF Reports
    <2>6. new.status \in Statuses /\ new.verdict \in Verdicts \cup {"none"} /\ new.score \in Scores
        BY <2>5 DEF Assigned, StatusOf, Statuses, ScoreOf, Scores, Rows
    <2>7. written \in Rows
        BY <2>6 DEF Write, Rows
    <2>8. row' \in [Execs -> Rows]
        BY <2>1, <2>7
    <2> QED
        BY <1>5, <2>3, <2>4, <2>8 DEF ReportCommits, TypeOK, worker
<1> QED
    BY <1>1, <1>2, <1>3, <1>4, <1>5 DEF Handlers

\* Staff, and the crashes.
LEMMA EnvironmentType ==
    ASSUME TypeOK,
           \/ Staff
           \/ \E w \in Workers : WorkerCrash(w)
           \/ \E answersLost \in BOOLEAN : ApiCrash(answersLost)
    PROVE  TypeOK'
<1>1. CASE EditProblem
    BY <1>1, LimitsAssumption DEF EditProblem, TypeOK, api, worker
<1>2. ASSUME NEW a \in Resettable, ResetAttempt(a) PROVE TypeOK'
    BY <1>2, RowTypes, LimitsAssumption DEF ResetAttempt, TypeOK, api, worker
<1>3. ASSUME NEW w \in Workers, WorkerCrash(w) PROVE TypeOK'
    <2>1. faults' \in [FaultKinds -> Nat]
        BY <1>3, SpendType DEF WorkerCrash, FaultKinds
    <2> QED
        BY <1>3, <2>1, LimitsAssumption DEF WorkerCrash, TypeOK, database, api
<1>4. ASSUME NEW b \in BOOLEAN, ApiCrash(b) PROVE TypeOK'
    <2>1. faults' \in [FaultKinds -> Nat]
        BY <1>4, SpendType DEF ApiCrash, FaultKinds
    <2>2. [NoReport EXCEPT !.at = "lost"] \in Reports
        BY ReportTypes, ReportUpdate DEF ReportStages
    <2>3. reports' \in [Execs -> [Tries -> Reports]]
        BY <1>4, <2>2 DEF ApiCrash, TypeOK
    <2>4. /\ request' \in [Execs -> {"idle", "checked", "built", "committed", "answered", "failed"}]
          /\ mark' \in [Execs -> {"idle", "sent", "loaded", "over"}]
        BY <1>4 DEF ApiCrash, TypeOK
    <2> QED
        BY <1>4, <2>1, <2>3, <2>4 DEF ApiCrash, TypeOK, database, worker
<1> QED
    BY <1>1, <1>2, <1>3, <1>4 DEF Staff

\* Every step keeps every variable in its type.
LEMMA NextTypeOK == TypeOK /\ [Next]_vars => TypeOK'
<1> SUFFICES ASSUME TypeOK, [Next]_vars PROVE TypeOK'
    OBVIOUS
<1>1. CASE UNCHANGED vars
    BY <1>1 DEF vars, database, api, worker, TypeOK
<1>2. CASE Next
    BY <1>2, ClientType, DispatcherType, ThreadType, HandlerType, EnvironmentType
    DEF Next, Fault
<1> QED
    BY <1>1, <1>2

\* Type correctness: the rows, requests, handlers, jobs and threads of the
\* pipeline only ever hold the values the code gives them.
THEOREM TypeCorrect == Spec => []TypeOK
BY InitTypeOK, NextTypeOK, PTL DEF Spec

----------------------------------------------------------------------------
(* One carrier per job *)

\* What most steps do to the carriers: no job starts to travel, none is put on
\* another thread, and an answered request stays answered.
CarryFrame ==
    /\ queue' = queue
    /\ \A w \in Workers, e \in Execs :
          /\ (holding'[w] = e => holding[w] = e)
          /\ (thread'[w][e] # "none" => thread[w][e] # "none")
    /\ \A e \in Execs : request[e] = "answered" => request'[e] = "answered"

LEMMA CarryFrameKeeps ==
    ASSUME OneCarrier, TravelInv, CarryFrame
    PROVE  OneCarrier' /\ TravelInv'
BY DEF OneCarrier, TravelInv, CarryFrame, Held, Queued, InHand, OnThread

LEMMA CarryUnchanged ==
    ASSUME UNCHANGED <<queue, holding, thread, request>>
    PROVE  CarryFrame
BY DEF CarryFrame

LEMMA CarryFrameSteps ==
    ASSUME TypeOK, [Next]_vars,
           ~ \E e \in Execs : Enqueue(e),
           ~ \E w \in Workers : Pop(w) \/ PopLost(w) \/ Spawn(w),
           ~ RedisLoss
    PROVE  CarryFrame
<1> request \in [Execs -> {"idle", "checked", "built", "committed", "answered", "failed"}]
    BY DEF TypeOK
<1> thread \in [Workers -> [Execs -> {"none", "marking", "judging", "reporting"}]]
    BY DEF TypeOK
<1> holding \in [Workers -> Execs \cup {None}]
    BY DEF TypeOK
<1>1. CASE UNCHANGED vars
    BY <1>1, CarryUnchanged DEF vars, api, worker
<1>2. ASSUME NEW e \in Execs, SubmitReport(e) \/ CheckPending(e) \/ ReadTests(e) \/ CommitRow(e) \/ EnqueueFails(e)
      PROVE  CarryFrame
    BY <1>2 DEF SubmitReport, CheckPending, ReadTests, CommitRow, EnqueueFails, worker, CarryFrame
<1>3. ASSUME NEW e \in Execs, Handlers(e) PROVE CarryFrame
    BY <1>3, CarryUnchanged
    DEF Handlers, MarkLoads, MarkCommits, ReportLoads, ReportReadsTests, ReportCommits, worker
<1>4. ASSUME NEW w \in Workers, NEW e \in Execs, Thread(w, e) \/ MarkTimesOut(w, e) PROVE CarryFrame
    <2>1. CASE MarkAnswered(w, e) \/ MarkTimesOut(w, e)
        <3>1. /\ thread' = [thread EXCEPT ![w][e] = "judging"]
              /\ thread[w][e] = "marking"
              /\ UNCHANGED <<queue, holding, request>>
            BY <2>1 DEF MarkAnswered, MarkTimesOut, api
        <3> QED
            BY <3>1 DEF CarryFrame
    <2>2. ASSUME NEW v \in Outcomes, Judge(w, e, v) PROVE CarryFrame
        BY <2>2 DEF Judge, CarryFrame
    <2>3. CASE ReportAnswered(w, e) \/ GiveUp(w, e)
        BY <2>3 DEF ReportAnswered, GiveUp, EndThread, api, CarryFrame
    <2>4. CASE Retry(w, e)
        BY <2>4, CarryUnchanged DEF Retry
    <2> QED
        BY <1>4, <2>1, <2>2, <2>3, <2>4 DEF Thread
<1>5. CASE Staff
    BY <1>5, CarryUnchanged DEF Staff, EditProblem, ResetAttempt, api, worker
<1>6. ASSUME NEW w \in Workers, WorkerCrash(w) PROVE CarryFrame
    BY <1>6, ExecsAssumption DEF WorkerCrash, api, CarryFrame
<1>7. ASSUME NEW b \in BOOLEAN, ApiCrash(b) PROVE CarryFrame
    BY <1>7 DEF ApiCrash, worker, CarryFrame
<1> QED
    BY <1>1, <1>2, <1>3, <1>4, <1>5, <1>6, <1>7 DEF Next, Client, Fault

\* The steps that move a job.
LEMMA CarryMoves ==
    ASSUME TypeOK, OneCarrier, TravelInv,
           \/ \E e \in Execs : Enqueue(e)
           \/ \E w \in Workers : Pop(w) \/ PopLost(w) \/ Spawn(w)
           \/ RedisLoss
    PROVE  OneCarrier' /\ TravelInv'
<1> /\ request \in [Execs -> {"idle", "checked", "built", "committed", "answered", "failed"}]
    /\ thread \in [Workers -> [Execs -> {"none", "marking", "judging", "reporting"}]]
    /\ holding \in [Workers -> Execs \cup {None}]
    /\ queue \in Seq(Execs)
    BY DEF TypeOK
<1>1. ASSUME NEW e \in Execs, Enqueue(e) PROVE OneCarrier' /\ TravelInv'
    <2>1. /\ request[e] = "committed"
          /\ request' = [request EXCEPT ![e] = "answered"]
          /\ queue' = Append(queue, e)
          /\ UNCHANGED <<holding, thread>>
        BY <1>1 DEF Enqueue, worker
    <2>2. ~Queued(e) /\ \A w \in Workers : e \notin Held(w)
        BY <2>1 DEF TravelInv, InHand, OnThread, Held
    <2>3. \A f \in Execs : Queued(f)' => Queued(f) \/ f = e
        BY <2>1 DEF Queued
    <2>4. \A i, j \in DOMAIN queue' : queue'[i] = queue'[j] => i = j
        BY <2>1, <2>2 DEF OneCarrier, Queued
    <2>5. OneCarrier'
        BY <2>1, <2>2, <2>3, <2>4 DEF OneCarrier, Held
    <2>6. TravelInv'
        BY <2>1, <2>3 DEF TravelInv, InHand, OnThread
    <2> QED
        BY <2>5, <2>6
<1>2. ASSUME NEW w \in Workers, Pop(w) \/ PopLost(w) PROVE OneCarrier' /\ TravelInv'
    <2>1. /\ queue # <<>>
          /\ queue' = Tail(queue)
          /\ UNCHANGED <<request, thread>>
          /\ \/ holding' = [holding EXCEPT ![w] = Head(queue)] /\ holding[w] = None
             \/ UNCHANGED holding
        BY <1>2 DEF Pop, PopLost, Popped, api, worker
    <2>2. Head(queue) \in Execs /\ Queued(Head(queue))
        BY <2>1 DEF Queued
    <2>3. \A f \in Execs : Queued(f)' => Queued(f) /\ f # Head(queue)
        <3> SUFFICES ASSUME NEW f \in Execs, Queued(f)' PROVE Queued(f) /\ f # Head(queue)
            OBVIOUS
        <3>1. PICK i \in DOMAIN queue' : queue'[i] = f
            BY DEF Queued
        <3>2. i + 1 \in DOMAIN queue /\ queue[i + 1] = f /\ i + 1 # 1 /\ 1 \in DOMAIN queue
            BY <2>1, <3>1
        <3> QED
            BY <3>2 DEF Queued, OneCarrier
    <2>4. \A i, j \in DOMAIN queue' : queue'[i] = queue'[j] => i = j
        BY <2>1 DEF OneCarrier
    <2>5. \A f \in Execs, v \in Workers :
            (f \in Held(v))' => f \in Held(v) \/ (f = Head(queue) /\ v = w)
        BY <2>1 DEF Held
    <2>6. \A v \in Workers : Head(queue) \notin Held(v)
        BY <2>2 DEF OneCarrier
    <2>7. \A f \in Execs, v \in Workers :
            (f \in Held(v))' => /\ ~Queued(f)'
                                /\ (holding'[v] = f => thread'[v][f] = "none")
                                /\ \A u \in Workers : (f \in Held(u))' => u = v
        <3> SUFFICES ASSUME NEW f \in Execs, NEW v \in Workers, (f \in Held(v))'
                     PROVE  /\ ~Queued(f)'
                            /\ (holding'[v] = f => thread'[v][f] = "none")
                            /\ \A u \in Workers : (f \in Held(u))' => u = v
            OBVIOUS
        <3>1. CASE f = Head(queue)
            BY <2>1, <2>3, <2>5, <2>6, <3>1 DEF Held
        <3>2. CASE f # Head(queue)
            BY <2>1, <2>3, <2>5, <3>2 DEF Held, OneCarrier
        <3> QED
            BY <3>1, <3>2
    <2>8. OneCarrier'
        BY <2>4, <2>7 DEF OneCarrier
    <2>9. TravelInv'
        BY <2>1, <2>2, <2>3 DEF TravelInv, InHand, OnThread
    <2> QED
        BY <2>8, <2>9
<1>3. ASSUME NEW w \in Workers, Spawn(w) PROVE OneCarrier' /\ TravelInv'
    <2>1. /\ holding[w] \in Execs
          /\ thread' = [thread EXCEPT ![w][holding[w]] = "marking"]
          /\ holding' = [holding EXCEPT ![w] = None]
          /\ UNCHANGED <<request, queue>>
        BY <1>3 DEF Spawn
    <2>2. \A f \in Execs, v \in Workers : (f \in Held(v))' => f \in Held(v)
        BY <2>1, ExecsAssumption DEF Held
    <2>3. OneCarrier'
        BY <2>1, <2>2, ExecsAssumption DEF OneCarrier, Held, Queued
    <2>4. TravelInv'
        BY <2>1, ExecsAssumption DEF TravelInv, InHand, OnThread, Queued
    <2> QED
        BY <2>3, <2>4
<1>4. CASE RedisLoss
    BY <1>4 DEF RedisLoss, api, worker, OneCarrier, TravelInv, Held, Queued, InHand, OnThread
<1> QED
    BY <1>1, <1>2, <1>3, <1>4

LEMMA CarryStep == TypeOK /\ OneCarrier /\ TravelInv /\ [Next]_vars => OneCarrier' /\ TravelInv'
BY CarryFrameKeeps, CarryFrameSteps, CarryMoves

LEMMA CarryInit == Init => OneCarrier /\ TravelInv
BY ExecsAssumption DEF Init, OneCarrier, TravelInv, Held, Queued, InHand, OnThread

\* At every moment a job is carried by one place at most, whatever crashes, so
\* that no execution is judged or reported by two threads.
THEOREM JobsAreCarriedOnce == Spec => []OneCarrier
BY InitTypeOK, NextTypeOK, CarryInit, CarryStep, PTL DEF Spec

----------------------------------------------------------------------------
(* What has not happened yet to a young job *)

\* What most steps do: no execution becomes young, or starts to be marked, and
\* nothing is reported that was not.
YoungFrame ==
    \A e \in Execs :
        /\ (Young(e)' => Young(e))
        /\ (Marking(e)' => Marking(e))
        /\ (mark[e] = "idle" => mark'[e] = "idle")
        /\ (Unreported(e) => Unreported(e)')

LEMMA YoungFrameKeeps == ASSUME YoungInv, YoungFrame PROVE YoungInv'
BY DEF YoungInv, YoungFrame

\* A job on a thread is not young, and no other thread has it.
LEMMA OnThreadNotYoung ==
    ASSUME OneCarrier, TravelInv, NEW w \in Workers, NEW e \in Execs, thread[w][e] # "none"
    PROVE  /\ ~Young(e)
           /\ \A v \in Workers : thread[v][e] # "none" => v = w
BY DEF OneCarrier, TravelInv, Young, InHand, OnThread, Held

LEMMA YoungClient ==
    ASSUME TypeOK, TravelInv, YoungInv, NEW e \in Execs, Client(e) \/ EnqueueFails(e)
    PROVE  YoungInv'
<1> /\ row \in [Execs -> Rows]
    /\ request \in [Execs -> {"idle", "checked", "built", "committed", "answered", "failed"}]
    /\ queue \in Seq(Execs)
    BY DEF TypeOK
<1>1. CASE CheckPending(e) \/ ReadTests(e) \/ EnqueueFails(e)
    <2>1. YoungFrame
        BY <1>1
        DEF CheckPending, ReadTests, EnqueueFails, YoungFrame, Young, Marking, Unreported,
            InHand, Queued, worker, database
    <2> QED
        BY <2>1, YoungFrameKeeps
<1>2. CASE CommitRow(e)
    <2>1. YoungFrame
        BY <1>2 DEF CommitRow, NewRow, NoRow, YoungFrame, Young, Marking, Unreported,
            InHand, Queued, worker
    <2> QED
        BY <2>1, YoungFrameKeeps
<1>3. CASE Enqueue(e)
    <2>1. YoungFrame
        <3>1. \A f \in Execs : Queued(f)' => Queued(f) \/ f = e
            BY <1>3 DEF Enqueue, Queued
        <3> QED
            BY <1>3, <3>1 DEF Enqueue, YoungFrame, Young, Marking, Unreported, InHand,
                worker, database
    <2> QED
        BY <2>1, YoungFrameKeeps
<1>4. CASE SubmitReport(e)
    <2>1. /\ request[e] = "idle"
          /\ request' = [request EXCEPT ![e] = "answered"]
          /\ row' = [row EXCEPT ![e] = ReportRow]
          /\ UNCHANGED <<mark, reports, queue, holding, thread>>
        BY <1>4 DEF SubmitReport, worker
    <2>2. ~InHand(e) /\ ~OnThread(e)
        BY <2>1 DEF TravelInv
    <2> QED
        BY <2>1, <2>2 DEF YoungInv, Young, Marking, Unreported, InHand, OnThread, Queued
<1> QED
    BY <1>1, <1>2, <1>3, <1>4 DEF Client

LEMMA YoungDispatcher ==
    ASSUME TypeOK, OneCarrier, TravelInv, YoungInv,
           RedisLoss \/ \E w \in Workers : Pop(w) \/ PopLost(w) \/ Spawn(w)
    PROVE  YoungInv'
<1> /\ queue \in Seq(Execs)
    /\ holding \in [Workers -> Execs \cup {None}]
    /\ thread \in [Workers -> [Execs -> {"none", "marking", "judging", "reporting"}]]
    /\ mark \in [Execs -> {"idle", "sent", "loaded", "over"}]
    BY DEF TypeOK
<1>1. ASSUME NEW w \in Workers, Pop(w) \/ PopLost(w) PROVE YoungInv'
    <2>1. /\ queue # <<>>
          /\ queue' = Tail(queue)
          /\ UNCHANGED <<row, request, mark, reports, thread>>
          /\ holding' = [holding EXCEPT ![w] = Head(queue)] \/ UNCHANGED holding
        BY <1>1 DEF Pop, PopLost, Popped, api, database, worker
    <2>2. Head(queue) \in Execs /\ Queued(Head(queue))
        BY <2>1 DEF Queued
    <2>3. \A f \in Execs : Queued(f)' => Queued(f)
        BY <2>1 DEF Queued
    <2>4. YoungFrame
        BY <2>1, <2>2, <2>3 DEF YoungFrame, Young, Marking, Unreported, InHand
    <2> QED
        BY <2>4, YoungFrameKeeps
<1>2. ASSUME NEW w \in Workers, Spawn(w) PROVE YoungInv'
    <2>0. PICK h \in Execs : h = holding[w]
        BY <1>2 DEF Spawn
    <2>1. /\ thread' = [thread EXCEPT ![w][h] = "marking"]
          /\ mark' = [mark EXCEPT ![h] = "sent"]
          /\ holding' = [holding EXCEPT ![w] = None]
          /\ UNCHANGED <<row, request, reports, queue>>
        BY <1>2, <2>0 DEF Spawn, database
    <2>2. /\ InHand(h) /\ request[h] = "answered"
          /\ ~Queued(h)
          /\ \A v \in Workers : holding[v] = h => v = w
        BY <2>0 DEF InHand, TravelInv, OneCarrier, Held
    <2>3. ~Young(h)'
        BY <2>1, <2>2, ExecsAssumption DEF Young, InHand, Queued
    <2>4. Unreported(h)
        BY <2>1, <2>2 DEF YoungInv, Young
    <2>5. \A f \in Execs : /\ (Unreported(f) => Unreported(f)')
                           /\ (Young(f)' => Young(f))
        BY <2>1, ExecsAssumption DEF Unreported, Young, InHand, Queued
    <2>6. \A f \in Execs : f # h => mark'[f] = mark[f] /\ (Marking(f)' => Marking(f))
        BY <2>1 DEF Marking
    <2> QED
        BY <2>3, <2>4, <2>5, <2>6 DEF YoungInv
<1>3. CASE RedisLoss
    <2>1. YoungFrame
        BY <1>3 DEF RedisLoss, YoungFrame, Young, Marking, Unreported, InHand, Queued, api, database, worker
    <2> QED
        BY <2>1, YoungFrameKeeps
<1> QED
    BY <1>1, <1>2, <1>3

\* The threads: a job that is being judged is not young any more.
LEMMA YoungThread ==
    ASSUME TypeOK, OneCarrier, TravelInv, YoungInv,
           NEW w \in Workers, NEW e \in Execs, Thread(w, e) \/ MarkTimesOut(w, e)
    PROVE  YoungInv'
<1> /\ thread \in [Workers -> [Execs -> {"none", "marking", "judging", "reporting"}]]
    /\ reports \in [Execs -> [Tries -> Reports]]
    BY DEF TypeOK
<1>1. CASE MarkAnswered(w, e) \/ MarkTimesOut(w, e) \/ ReportAnswered(w, e) \/ GiveUp(w, e)
    <2>1. /\ UNCHANGED <<row, request, mark, reports, queue, holding>>
          /\ \/ thread' = [thread EXCEPT ![w][e] = "judging"]
             \/ thread' = [thread EXCEPT ![w][e] = "none"]
        BY <1>1 DEF MarkAnswered, MarkTimesOut, ReportAnswered, GiveUp, EndThread, api, database
    <2>2. \A v \in Workers, f \in Execs : thread'[v][f] = "marking" => thread[v][f] = "marking"
        <3>1. CASE thread' = [thread EXCEPT ![w][e] = "judging"]
            BY <3>1
        <3>2. CASE thread' = [thread EXCEPT ![w][e] = "none"]
            BY <3>2
        <3> QED
            BY <2>1, <3>1, <3>2
    <2>3. YoungFrame
        BY <2>1, <2>2 DEF YoungFrame, Young, Marking, Unreported, InHand, Queued
    <2> QED
        BY <2>3, YoungFrameKeeps
<1>2. CASE Retry(w, e) \/ \E v \in Outcomes : Judge(w, e, v)
    <2>1. /\ UNCHANGED <<row, request, mark, queue, holding>>
          /\ thread[w][e] \in {"judging", "reporting"}
          /\ thread' = [thread EXCEPT ![w][e] = "reporting"] \/ thread' = thread
          /\ \E i : reports' = [reports EXCEPT ![e][i].at = "sent"]
        BY <1>2 DEF Retry, Judge, database
    <2>2. ~Young(e) /\ ~Marking(e)
        BY <2>1, OnThreadNotYoung DEF Marking
    <2>3. \A f \in Execs : /\ (Young(f)' => Young(f))
                           /\ (Marking(f)' => Marking(f))
        BY <2>1 DEF Young, Marking, InHand, Queued
    <2>4. \A f \in Execs : f # e /\ Unreported(f) => Unreported(f)'
        BY <2>1 DEF Unreported
    <2> QED
        BY <2>1, <2>2, <2>3, <2>4 DEF YoungInv
<1> QED
    BY <1>1, <1>2 DEF Thread

\* The handlers: one that reports has a posted report, so its job is not young.
LEMMA YoungHandler ==
    ASSUME TypeOK, YoungInv, NEW e \in Execs, Handlers(e)
    PROVE  YoungInv'
<1> /\ mark \in [Execs -> {"idle", "sent", "loaded", "over"}]
    /\ row \in [Execs -> Rows]
    /\ reports \in [Execs -> [Tries -> Reports]]
    BY DEF TypeOK
<1>1. CASE MarkLoads(e) \/ MarkCommits(e)
    <2>1. /\ UNCHANGED <<request, reports, queue, holding, thread>>
          /\ mark[e] # "idle" /\ \E m : mark' = [mark EXCEPT ![e] = m]
          /\ row' = [row EXCEPT ![e].status = "running"] \/ row' = row
        BY <1>1 DEF MarkLoads, MarkCommits, database, worker
    <2>2. \A f \in Execs : row'[f].finished = row[f].finished
        <3>1. CASE row' = [row EXCEPT ![e].status = "running"]
            <4>1. [row[e] EXCEPT !.status = "running"].finished = row[e].finished
                BY DEF Rows
            <4> QED
                BY <3>1, <4>1
        <3>2. CASE row' = row
            BY <3>2
        <3> QED
            BY <2>1, <3>1, <3>2
    <2>3. YoungFrame
        BY <2>1, <2>2 DEF YoungFrame, Young, Marking, Unreported, InHand, Queued
    <2> QED
        BY <2>3, YoungFrameKeeps
<1>2. ASSUME NEW i \in Tries, ReportLoads(e, i) \/ ReportReadsTests(e, i) \/ ReportCommits(e, i)
      PROVE  YoungInv'
    <2>1. /\ UNCHANGED <<request, mark, queue, holding, thread>>
          /\ reports[e][i].at # "idle"
          /\ \E r : row' = [row EXCEPT ![e] = r] \/ row' = row
          /\ \E r : reports' = [reports EXCEPT ![e][i] = r]
        <3>1. CASE ReportLoads(e, i)
            BY <3>1, Zenon DEF ReportLoads, database, worker
        <3>2. CASE ReportReadsTests(e, i)
            BY <3>2 DEF ReportReadsTests, database, worker
        <3>3. CASE ReportCommits(e, i)
            BY <3>3, Zenon DEF ReportCommits, worker
        <3> QED
            BY <1>2, <3>1, <3>2, <3>3
    <2>2. ~Unreported(e)
        BY <2>1 DEF Unreported
    <2>3. \A f \in Execs : f # e /\ Unreported(f) => Unreported(f)'
        BY <2>1 DEF Unreported
    <2>4. YoungFrame
        BY <2>1, <2>2, <2>3 DEF YoungFrame, Young, Marking, InHand, Queued
    <2> QED
        BY <2>4, YoungFrameKeeps
<1> QED
    BY <1>1, <1>2 DEF Handlers

LEMMA YoungEnvironment ==
    ASSUME TypeOK, YoungInv,
           \/ Staff
           \/ \E w \in Workers : WorkerCrash(w)
           \/ \E answersLost \in BOOLEAN : ApiCrash(answersLost)
           \/ UNCHANGED vars
    PROVE  YoungInv'
<1> /\ request \in [Execs -> {"idle", "checked", "built", "committed", "answered", "failed"}]
    /\ mark \in [Execs -> {"idle", "sent", "loaded", "over"}]
    /\ row \in [Execs -> Rows]
    /\ holding \in [Workers -> Execs \cup {None}]
    /\ thread \in [Workers -> [Execs -> {"none", "marking", "judging", "reporting"}]]
    BY DEF TypeOK
<1>1. CASE EditProblem \/ UNCHANGED vars
    <2>1. UNCHANGED <<row, request, mark, reports, queue, holding, thread>>
        BY <1>1 DEF EditProblem, vars, api, database, worker
    <2>2. YoungFrame
        BY <2>1 DEF YoungFrame, Young, Marking, Unreported, InHand, Queued
    <2> QED
        BY <2>2, YoungFrameKeeps
<1>2. ASSUME NEW a \in Resettable, ResetAttempt(a) PROVE YoungInv'
    <2>1. /\ UNCHANGED <<request, mark, reports, queue, holding, thread>>
          /\ \A f \in Execs : row'[f] = NoRow \/ row'[f] = row[f]
        BY <1>2 DEF ResetAttempt, api, worker
    <2>2. YoungFrame
        BY <2>1 DEF YoungFrame, Young, Marking, Unreported, InHand, Queued, NoRow
    <2> QED
        BY <2>2, YoungFrameKeeps
<1>3. ASSUME NEW w \in Workers, WorkerCrash(w) PROVE YoungInv'
    <2>1. /\ UNCHANGED <<row, request, mark, reports, queue>>
          /\ \A v \in Workers, f \in Execs : /\ (holding'[v] = f => holding[v] = f)
                                             /\ thread'[v][f] \in {"none", thread[v][f]}
        BY <1>3, ExecsAssumption DEF WorkerCrash, api, database
    <2>2. YoungFrame
        BY <2>1 DEF YoungFrame, Young, Marking, Unreported, InHand, Queued
    <2> QED
        BY <2>2, YoungFrameKeeps
<1>4. ASSUME NEW b \in BOOLEAN, ApiCrash(b) PROVE YoungInv'
    <2>1. /\ UNCHANGED <<row, queue, holding, thread>>
          /\ \A f \in Execs : /\ request'[f] \in {"failed", request[f]}
                              /\ (mark[f] = "idle" => mark'[f] = "idle")
        BY <1>4 DEF ApiCrash, database, worker
    <2>2. \A f \in Execs, i \in Tries : reports[f][i].at = "idle" => reports'[f][i].at = "idle"
        BY <1>4 DEF ApiCrash
    <2>3. YoungFrame
        BY <2>1, <2>2 DEF YoungFrame, Young, Marking, Unreported, InHand, Queued
    <2> QED
        BY <2>3, YoungFrameKeeps
<1> QED
    BY <1>1, <1>2, <1>3, <1>4 DEF Staff

LEMMA YoungStep == TypeOK /\ OneCarrier /\ TravelInv /\ YoungInv /\ [Next]_vars => YoungInv'
BY YoungClient, YoungDispatcher, YoungThread, YoungHandler, YoungEnvironment DEF Next, Fault

----------------------------------------------------------------------------
(* Faults are never forgotten *)

LEMMA FaultsGrow ==
    ASSUME TypeOK, [Next]_vars
    PROVE  /\ (NoTimeout' => NoTimeout)
           /\ (NoFault' => NoFault)
<1> faults \in [FaultKinds -> Nat]
    BY DEF TypeOK
<1>1. \A k \in FaultKinds : Spend(k) => (NoTimeout' => NoTimeout) /\ (NoFault' => NoFault)
    BY DEF Spend, NoTimeout, NoFault, FaultKinds
<1>2. UNCHANGED faults => (NoTimeout' => NoTimeout) /\ (NoFault' => NoFault)
    BY DEF NoTimeout, NoFault
<1>3. UNCHANGED faults \/ \E k \in FaultKinds : Spend(k)
    <2>1. CASE UNCHANGED vars
        BY <2>1 DEF vars
    <2>2. ASSUME NEW e \in Execs, Client(e) \/ Handlers(e) PROVE UNCHANGED faults
        BY <2>2 DEF Client, Handlers, SubmitReport, CheckPending, ReadTests, CommitRow, Enqueue,
            MarkLoads, MarkCommits, ReportLoads, ReportReadsTests, ReportCommits
    <2>3. ASSUME NEW w \in Workers, NEW e \in Execs, Thread(w, e)
          PROVE  UNCHANGED faults \/ Spend("timeout")
        BY <2>3 DEF Thread, MarkAnswered, Judge, ReportAnswered, Retry, GiveUp, PostFailed
    <2>4. ASSUME NEW w \in Workers, Pop(w) \/ Spawn(w) PROVE UNCHANGED faults
        BY <2>4 DEF Pop, Spawn
    <2>5. CASE Staff
        BY <2>5 DEF Staff, EditProblem, ResetAttempt
    <2>6. CASE Fault
        BY <2>6 DEF Fault, EnqueueFails, MarkTimesOut, PopLost, WorkerCrash, ApiCrash, RedisLoss, FaultKinds
    <2> QED
        BY <2>1, <2>2, <2>3, <2>4, <2>5, <2>6 DEF Next, FaultKinds
<1> QED
    BY <1>1, <1>2, <1>3

\* A step that spends a fault makes the fault-free invariants vacuous.
LEMMA SpentFault ==
    ASSUME TypeOK, NEW k \in FaultKinds, Spend(k)
    PROVE  ~NoFault' /\ (k = "timeout" => ~NoTimeout')
BY DEF TypeOK, Spend, NoFault, NoTimeout

----------------------------------------------------------------------------
(* Without timeouts mark_running never overtakes a report *)

MarkFrame ==
    \A e \in Execs :
        /\ (mark'[e] \in {"sent", "loaded"} => mark[e] \in {"sent", "loaded"})
        /\ (mark[e] = "over" => mark'[e] = "over")
        /\ (Judging(e)' => Judging(e))
        /\ (Unreported(e) => Unreported(e)')

LEMMA MarkFrameKeeps ==
    ASSUME TypeOK, [Next]_vars, MarkInv, MarkFrame PROVE MarkInv'
BY FaultsGrow DEF MarkInv, MarkFrame

LEMMA MarkClient ==
    ASSUME TypeOK, TravelInv, YoungInv, MarkInv, [Next]_vars,
           NEW e \in Execs, Client(e) \/ EnqueueFails(e)
    PROVE  MarkInv'
<1> row \in [Execs -> Rows]
    BY DEF TypeOK
<1>1. CASE CheckPending(e) \/ ReadTests(e) \/ EnqueueFails(e) \/ Enqueue(e)
    <2>1. UNCHANGED <<row, mark, reports, thread>>
        BY <1>1 DEF CheckPending, ReadTests, EnqueueFails, Enqueue, worker, database
    <2>2. MarkFrame
        BY <2>1 DEF MarkFrame, Judging, Unreported
    <2> QED
        BY <2>2, MarkFrameKeeps
<1>2. CASE CommitRow(e)
    <2>1. /\ UNCHANGED <<mark, reports, thread>>
          /\ row' = [row EXCEPT ![e] = NewRow] \/ row' = row
        BY <1>2 DEF CommitRow, worker
    <2>2. MarkFrame
        BY <2>1 DEF MarkFrame, Judging, Unreported, NewRow, NoRow
    <2> QED
        BY <2>2, MarkFrameKeeps
<1>3. CASE SubmitReport(e)
    <2>1. /\ request[e] = "idle"
          /\ row' = [row EXCEPT ![e] = ReportRow]
          /\ UNCHANGED <<mark, reports, thread>>
        BY <1>3 DEF SubmitReport, worker
    <2>2. mark[e] = "idle"
        BY <2>1 DEF YoungInv, Young
    <2>3. \A f \in Execs : f # e /\ Unreported(f) => Unreported(f)'
        BY <2>1 DEF Unreported
    <2> QED
        BY <2>1, <2>2, <2>3, FaultsGrow DEF MarkInv, Judging
<1> QED
    BY <1>1, <1>2, <1>3 DEF Client

LEMMA MarkDispatcher ==
    ASSUME TypeOK, OneCarrier, TravelInv, YoungInv, MarkInv, [Next]_vars,
           RedisLoss \/ \E w \in Workers : Pop(w) \/ PopLost(w) \/ Spawn(w)
    PROVE  MarkInv'
<1> /\ holding \in [Workers -> Execs \cup {None}]
    /\ thread \in [Workers -> [Execs -> {"none", "marking", "judging", "reporting"}]]
    /\ mark \in [Execs -> {"idle", "sent", "loaded", "over"}]
    BY DEF TypeOK
<1>1. ASSUME RedisLoss \/ \E w \in Workers : Pop(w) \/ PopLost(w) PROVE MarkInv'
    <2>1. UNCHANGED <<row, mark, reports, thread>>
        BY <1>1 DEF RedisLoss, Pop, PopLost, api, database, worker
    <2>2. MarkFrame
        BY <2>1 DEF MarkFrame, Judging, Unreported
    <2> QED
        BY <2>2, MarkFrameKeeps
<1>2. ASSUME NEW w \in Workers, Spawn(w) PROVE MarkInv'
    <2>0. PICK h \in Execs : h = holding[w]
        BY <1>2 DEF Spawn
    <2>1. /\ thread' = [thread EXCEPT ![w][h] = "marking"]
          /\ mark' = [mark EXCEPT ![h] = "sent"]
          /\ UNCHANGED <<row, reports>>
        BY <1>2, <2>0 DEF Spawn, database
    <2>2. /\ Unreported(h)
          /\ \A v \in Workers : thread[v][h] = "none"
        BY <2>0 DEF YoungInv, Young, InHand, OneCarrier, Held
    <2>3. ~Judging(h)'
        BY <2>1, <2>2 DEF Judging
    <2>4. \A f \in Execs : /\ (Unreported(f) => Unreported(f)')
                           /\ (f # h => mark'[f] = mark[f] /\ (Judging(f)' => Judging(f)))
        BY <2>1 DEF Unreported, Judging
    <2> QED
        BY <2>1, <2>2, <2>3, <2>4, FaultsGrow DEF MarkInv
<1> QED
    BY <1>1, <1>2

LEMMA MarkThread ==
    ASSUME TypeOK, MarkInv, [Next]_vars,
           NEW w \in Workers, NEW e \in Execs, Thread(w, e) \/ MarkTimesOut(w, e)
    PROVE  MarkInv'
<1> /\ thread \in [Workers -> [Execs -> {"none", "marking", "judging", "reporting"}]]
    /\ reports \in [Execs -> [Tries -> Reports]]
    BY DEF TypeOK
<1>1. CASE MarkAnswered(w, e)
    <2>1. /\ mark[e] = "over"
          /\ thread' = [thread EXCEPT ![w][e] = "judging"]
          /\ UNCHANGED <<row, mark, reports>>
        BY <1>1 DEF MarkAnswered, MarkDone, api, database
    <2>2. \A f \in Execs : f # e /\ Judging(f)' => Judging(f)
        BY <2>1 DEF Judging
    <2> QED
        BY <2>1, <2>2, FaultsGrow DEF MarkInv, Unreported
<1>2. CASE MarkTimesOut(w, e)
    BY <1>2, SpentFault DEF MarkTimesOut, FaultKinds, MarkInv
<1>3. CASE ReportAnswered(w, e) \/ GiveUp(w, e)
    <2>1. /\ thread' = [thread EXCEPT ![w][e] = "none"]
          /\ UNCHANGED <<row, mark, reports>>
        BY <1>3 DEF ReportAnswered, GiveUp, EndThread, api, database
    <2>2. MarkFrame
        BY <2>1 DEF MarkFrame, Judging, Unreported
    <2> QED
        BY <2>2, MarkFrameKeeps
<1>4. CASE Retry(w, e) \/ \E v \in Outcomes : Judge(w, e, v)
    <2>1. /\ UNCHANGED <<row, mark>>
          /\ thread[w][e] \in {"judging", "reporting"}
          /\ thread' = [thread EXCEPT ![w][e] = "reporting"] \/ thread' = thread
          /\ \E i : reports' = [reports EXCEPT ![e][i].at = "sent"]
        <3>1. CASE Retry(w, e)
            BY <3>1 DEF Retry, database
        <3>2. ASSUME NEW v \in Outcomes, Judge(w, e, v)
              PROVE  /\ UNCHANGED <<row, mark>>
                     /\ thread[w][e] = "judging"
                     /\ thread' = [thread EXCEPT ![w][e] = "reporting"]
                     /\ \E i : reports' = [reports EXCEPT ![e][i].at = "sent"]
            BY <3>2 DEF Judge, database
        <3> QED
            BY <1>4, <3>1, <3>2
    <2>2. Judging(e)
        BY <2>1 DEF Judging
    <2>3. \A f \in Execs : Judging(f)' => Judging(f)
        <3>1. CASE thread' = [thread EXCEPT ![w][e] = "reporting"]
            BY <2>2, <3>1 DEF Judging
        <3>2. CASE thread' = thread
            BY <3>2 DEF Judging
        <3> QED
            BY <2>1, <3>1, <3>2
    <2>4. \A f \in Execs : f # e /\ Unreported(f) => Unreported(f)'
        BY <2>1 DEF Unreported
    <2> QED
        BY <2>1, <2>2, <2>3, <2>4, FaultsGrow DEF MarkInv
<1> QED
    BY <1>1, <1>2, <1>3, <1>4 DEF Thread

LEMMA MarkHandler ==
    ASSUME TypeOK, MarkInv, [Next]_vars, NEW e \in Execs, Handlers(e)
    PROVE  MarkInv'
<1> /\ mark \in [Execs -> {"idle", "sent", "loaded", "over"}]
    /\ row \in [Execs -> Rows]
    /\ reports \in [Execs -> [Tries -> Reports]]
    BY DEF TypeOK
<1>1. CASE MarkLoads(e) \/ MarkCommits(e)
    <2>1. /\ UNCHANGED <<reports, thread>>
          /\ mark[e] \in {"sent", "loaded"}
          /\ mark' = [mark EXCEPT ![e] = "loaded"] \/ mark' = [mark EXCEPT ![e] = "over"]
          /\ row' = [row EXCEPT ![e].status = "running"] \/ row' = row
        BY <1>1 DEF MarkLoads, MarkCommits, database, worker
    <2>2. \A f \in Execs : row'[f].finished = row[f].finished
        <3>1. CASE row' = [row EXCEPT ![e].status = "running"]
            <4>1. [row[e] EXCEPT !.status = "running"].finished = row[e].finished
                BY DEF Rows
            <4> QED
                BY <3>1, <4>1
        <3>2. CASE row' = row
            BY <3>2
        <3> QED
            BY <2>1, <3>1, <3>2
    <2>3. MarkFrame
        BY <2>1, <2>2 DEF MarkFrame, Judging, Unreported
    <2> QED
        BY <2>3, MarkFrameKeeps
<1>2. ASSUME NEW i \in Tries, ReportLoads(e, i) \/ ReportReadsTests(e, i) \/ ReportCommits(e, i)
      PROVE  MarkInv'
    <2>1. /\ UNCHANGED <<mark, thread>>
          /\ reports[e][i].at # "idle"
          /\ \A f \in Execs : f # e => row'[f] = row[f] /\ reports'[f] = reports[f]
        <3>1. CASE ReportLoads(e, i)
            BY <3>1 DEF ReportLoads, database, worker
        <3>2. CASE ReportReadsTests(e, i)
            BY <3>2 DEF ReportReadsTests, database, worker
        <3>3. CASE ReportCommits(e, i)
            BY <3>3 DEF ReportCommits, worker
        <3> QED
            BY <1>2, <3>1, <3>2, <3>3
    <2>2. ~Unreported(e)
        BY <2>1 DEF Unreported
    <2>3. MarkFrame
        BY <2>1, <2>2 DEF MarkFrame, Judging, Unreported
    <2> QED
        BY <2>3, MarkFrameKeeps
<1> QED
    BY <1>1, <1>2 DEF Handlers

LEMMA MarkEnvironment ==
    ASSUME TypeOK, MarkInv, [Next]_vars,
           \/ Staff
           \/ \E w \in Workers : WorkerCrash(w)
           \/ \E answersLost \in BOOLEAN : ApiCrash(answersLost)
           \/ UNCHANGED vars
    PROVE  MarkInv'
<1> /\ mark \in [Execs -> {"idle", "sent", "loaded", "over"}]
    /\ thread \in [Workers -> [Execs -> {"none", "marking", "judging", "reporting"}]]
    BY DEF TypeOK
<1>1. CASE EditProblem \/ UNCHANGED vars
    <2>1. UNCHANGED <<row, mark, reports, thread>>
        BY <1>1 DEF EditProblem, vars, api, database, worker
    <2>2. MarkFrame
        BY <2>1 DEF MarkFrame, Judging, Unreported
    <2> QED
        BY <2>2, MarkFrameKeeps
<1>2. ASSUME NEW a \in Resettable, ResetAttempt(a) PROVE MarkInv'
    <2>1. /\ UNCHANGED <<mark, reports, thread>>
          /\ \A f \in Execs : row'[f] = NoRow \/ row'[f] = row[f]
        BY <1>2 DEF ResetAttempt, api, worker
    <2>2. MarkFrame
        BY <2>1 DEF MarkFrame, Judging, Unreported, NoRow
    <2> QED
        BY <2>2, MarkFrameKeeps
<1>3. ASSUME NEW w \in Workers, WorkerCrash(w) PROVE MarkInv'
    <2>1. /\ UNCHANGED <<row, mark, reports>>
          /\ \A v \in Workers, f \in Execs : thread'[v][f] \in {"none", thread[v][f]}
        BY <1>3 DEF WorkerCrash, api, database
    <2>2. MarkFrame
        BY <2>1 DEF MarkFrame, Judging, Unreported
    <2> QED
        BY <2>2, MarkFrameKeeps
<1>4. ASSUME NEW b \in BOOLEAN, ApiCrash(b) PROVE MarkInv'
    <2>1. /\ UNCHANGED <<row, thread>>
          /\ \A f \in Execs : mark'[f] \in {"over", mark[f]}
        BY <1>4 DEF ApiCrash, database, worker
    <2>2. \A f \in Execs, i \in Tries : reports[f][i].at = "idle" => reports'[f][i].at = "idle"
        BY <1>4 DEF ApiCrash
    <2>3. MarkFrame
        BY <2>1, <2>2 DEF MarkFrame, Judging, Unreported
    <2> QED
        BY <2>3, MarkFrameKeeps
<1> QED
    BY <1>1, <1>2, <1>3, <1>4 DEF Staff

LEMMA MarkStep ==
    TypeOK /\ OneCarrier /\ TravelInv /\ YoungInv /\ MarkInv /\ [Next]_vars => MarkInv'
BY MarkClient, MarkDispatcher, MarkThread, MarkHandler, MarkEnvironment DEF Next, Fault

----------------------------------------------------------------------------
(* A finished row stays final *)

\* The steps that touch neither a row nor a report.
LEMMA RowFrameKeeps ==
    ASSUME TypeOK, [Next]_vars, RowInv, FinalInv, UNCHANGED <<row, reports>>
    PROVE  RowInv' /\ FinalInv'
BY FaultsGrow DEF RowInv, FinalInv, Final, Pending

LEMMA QuietSteps ==
    ASSUME \/ \E e \in Execs : \/ CheckPending(e) \/ ReadTests(e) \/ Enqueue(e) \/ EnqueueFails(e)
                              \/ MarkLoads(e)
           \/ \E w \in Workers : Pop(w) \/ PopLost(w) \/ Spawn(w) \/ WorkerCrash(w)
           \/ \E w \in Workers, e \in Execs :
                 MarkAnswered(w, e) \/ MarkTimesOut(w, e) \/ ReportAnswered(w, e) \/ GiveUp(w, e)
           \/ EditProblem \/ RedisLoss \/ UNCHANGED vars
    PROVE  UNCHANGED <<row, reports>>
BY DEF CheckPending, ReadTests, Enqueue, EnqueueFails, MarkLoads, Pop, PopLost, Spawn, WorkerCrash,
       MarkAnswered, MarkTimesOut, ReportAnswered, GiveUp, EditProblem, RedisLoss,
       vars, database, api, worker

\* Nothing is reported of an execution whose request has not committed its row.
LEMMA YoungRequest ==
    ASSUME YoungInv, NEW e \in Execs, request[e] \in {"idle", "built"}
    PROVE  Unreported(e)
BY DEF YoungInv, Young

LEMMA FinalClient ==
    ASSUME TypeOK, YoungInv, RowInv, FinalInv, [Next]_vars,
           NEW e \in Execs, SubmitReport(e) \/ CommitRow(e)
    PROVE  RowInv' /\ FinalInv'
<1> row \in [Execs -> Rows]
    BY DEF TypeOK
<1>1. CASE SubmitReport(e)
    <2>1. /\ request[e] = "idle"
          /\ row' = [row EXCEPT ![e] = ReportRow]
          /\ UNCHANGED reports
        BY <1>1 DEF SubmitReport
    <2>2. ReportRow.status = "done" /\ ReportRow.finished = TRUE
        BY DEF ReportRow, NoRow
    <2>3. \A f \in Execs : row'[f] = IF f = e THEN ReportRow ELSE row[f]
        BY <2>1
    <2>4. RowInv'
        BY <2>2, <2>3 DEF RowInv, Final
    <2>5. FinalInv'
        BY <2>1, <2>2, <2>3, FaultsGrow DEF FinalInv, Final, Pending
    <2> QED
        BY <2>4, <2>5
<1>2. CASE CommitRow(e)
    <2>1. /\ request[e] = "built"
          /\ row' = [row EXCEPT ![e] = NewRow] \/ row' = row
          /\ UNCHANGED reports
        BY <1>2 DEF CommitRow
    <2>2. CASE row' = row
        BY <2>1, <2>2, RowFrameKeeps
    <2>3. CASE row' = [row EXCEPT ![e] = NewRow]
        <3>1. NewRow.status = "queued" /\ NewRow.finished = FALSE
            BY DEF NewRow, NoRow
        <3>2. \A f \in Execs : row'[f] = IF f = e THEN NewRow ELSE row[f]
            BY <2>3
        <3>3. \A i \in Tries : reports[e][i].at = "idle"
            BY <2>1, YoungRequest DEF Unreported
        <3>4. RowInv'
            BY <3>1, <3>2 DEF RowInv, Final
        <3>5. FinalInv'
            BY <2>1, <3>1, <3>2, <3>3, FaultsGrow DEF FinalInv, Final, Pending
        <3> QED
            BY <3>4, <3>5
    <2> QED
        BY <2>1, <2>2, <2>3
<1> QED
    BY <1>1, <1>2

\* mark_running writes only over a row of which nothing has been reported.
LEMMA FinalMark ==
    ASSUME TypeOK, MarkInv, RowInv, FinalInv, [Next]_vars, NEW e \in Execs, MarkCommits(e)
    PROVE  RowInv' /\ FinalInv'
<1> row \in [Execs -> Rows]
    BY DEF TypeOK
<1>1. /\ mark[e] = "loaded"
      /\ row' = [row EXCEPT ![e].status = "running"] \/ row' = row
      /\ UNCHANGED reports
    BY DEF MarkCommits
<1>2. CASE row' = row
    BY <1>1, <1>2, RowFrameKeeps
<1>3. CASE row' = [row EXCEPT ![e].status = "running"]
    <2>1. /\ row'[e].status = "running"
          /\ row'[e].finished = row[e].finished
          /\ \A f \in Execs : f # e => row'[f] = row[f]
        <3>1. /\ [row[e] EXCEPT !.status = "running"].status = "running"
              /\ [row[e] EXCEPT !.status = "running"].finished = row[e].finished
            BY DEF Rows
        <3> QED
            BY <1>3, <3>1
    <2>2. NoTimeout => Unreported(e)
        BY <1>1 DEF MarkInv
    <2>3. RowInv'
        BY <2>1 DEF RowInv, Final
    <2>4. FinalInv'
        BY <1>1, <2>1, <2>2, FaultsGrow DEF FinalInv, Final, Pending, Unreported
    <2> QED
        BY <2>3, <2>4
<1> QED
    BY <1>1, <1>2, <1>3

\* What a report writes is final, and it never turns a final row back.
LEMMA FinalReport ==
    ASSUME TypeOK, RowInv, FinalInv, [Next]_vars, NEW e \in Execs, NEW i \in Tries, ReportCommits(e, i)
    PROVE  /\ RowInv' /\ FinalInv'
           /\ NoTimeout => (Final(e)' \/ ~Exists(e)')
           /\ \A f \in Execs : f # e => row'[f] = row[f] /\ reports'[f] = reports[f]
           /\ \A j \in Tries : j # i => reports'[e][j] = reports[e][j]
           /\ (Exists(e) => reports'[e][i].at = "ok")
           /\ (~Exists(e) => reports'[e][i].at = "error" /\ row' = row)
<1> /\ row \in [Execs -> Rows]
    /\ reports \in [Execs -> [Tries -> Reports]]
    BY DEF TypeOK
<1> DEFINE seen == reports[e][i].seen
           new == Assigned(e, i)
<1>1. /\ reports[e][i].at \in {"loaded", "weighed"}
      /\ \/ /\ Exists(e)
            /\ row' = [row EXCEPT ![e] =
                         [status   |-> Write(row[e].status, seen.status, new.status),
                          verdict  |-> Write(row[e].verdict, seen.verdict, new.verdict),
                          score    |-> Write(row[e].score, seen.score, new.score),
                          finished |-> TRUE]]
            /\ reports' = [reports EXCEPT ![e][i] = [NoReport EXCEPT !.at = "ok"]]
         \/ /\ ~Exists(e)
            /\ reports' = [reports EXCEPT ![e][i] = [NoReport EXCEPT !.at = "error"]]
            /\ UNCHANGED row
    BY DEF ReportCommits
<1>2. /\ [NoReport EXCEPT !.at = "ok"].at = "ok"
      /\ [NoReport EXCEPT !.at = "error"].at = "error"
    BY DEF NoReport
<1>3. /\ \A f \in Execs : f # e => row'[f] = row[f] /\ reports'[f] = reports[f]
      /\ \A j \in Tries : j # i => reports'[e][j] = reports[e][j]
      /\ (Exists(e) => reports'[e][i].at = "ok")
      /\ (~Exists(e) => reports'[e][i].at = "error" /\ row' = row)
      /\ (Exists(e) => row'[e].finished /\ row'[e].status = Write(row[e].status, seen.status, new.status))
    <2>1. CASE Exists(e)
        <3>1. PICK written : /\ written.finished = TRUE
                             /\ written.status = Write(row[e].status, seen.status, new.status)
                             /\ row' = [row EXCEPT ![e] = written]
            BY <1>1, <2>1
        <3>2. PICK answer : answer.at = "ok" /\ reports' = [reports EXCEPT ![e][i] = answer]
            BY <1>1, <1>2, <2>1
        <3> QED
            BY <2>1, <3>1, <3>2
    <2>2. CASE ~Exists(e)
        <3>1. PICK answer : answer.at = "error" /\ reports' = [reports EXCEPT ![e][i] = answer]
            BY <1>1, <1>2, <2>2
        <3> QED
            BY <1>1, <2>2, <3>1
    <2> QED
        BY <2>1, <2>2
<1>4. new.status \in {"done", "error"}
    BY DEF Assigned, StatusOf
<1>5. NoTimeout /\ Exists(e) => row'[e].status \in {"done", "error"}
    <2>1. CASE new.status # seen.status
        BY <1>3, <1>4, <2>1 DEF Write
    <2>2. CASE new.status = seen.status
        <3>1. row[e].status \in Statuses
            BY DEF Rows
        <3> QED
            BY <1>1, <1>3, <1>4, <2>2, <3>1 DEF Write, FinalInv, Pending, Exists, Statuses
    <2> QED
        BY <2>1, <2>2
<1>6. RowInv'
    BY <1>3 DEF RowInv, Final
<1>7. FinalInv'
    <2> SUFFICES ASSUME NoTimeout', NEW f \in Execs
                 PROVE  /\ (row'[f].finished => Final(f)')
                        /\ \A j \in Tries :
                              reports'[f][j].at \in {"loaded", "weighed"}
                                /\ reports'[f][j].seen.status \in {"done", "error"} => ~Pending(f)'
        BY DEF FinalInv
    <2>1. NoTimeout
        BY FaultsGrow
    <2>2. CASE f # e
        BY <1>3, <2>1, <2>2 DEF FinalInv, Final, Pending
    <2>3. CASE f = e /\ Exists(e)
        BY <1>5, <2>1, <2>3 DEF Final, Pending
    <2>4. CASE f = e /\ ~Exists(e)
        BY <1>3, <2>1, <2>4 DEF FinalInv, Final, Pending, Exists
    <2> QED
        BY <2>2, <2>3, <2>4
<1>8. NoTimeout => (Final(e)' \/ ~Exists(e)')
    BY <1>3, <1>5 DEF Final, Exists
<1> QED
    BY <1>3, <1>6, <1>7, <1>8

\* The steps that only move reports along.
LEMMA FinalPosts ==
    ASSUME TypeOK, RowInv, FinalInv, [Next]_vars,
           \/ \E w \in Workers, e \in Execs : Retry(w, e) \/ \E v \in Outcomes : Judge(w, e, v)
           \/ \E e \in Execs, i \in Tries : ReportLoads(e, i) \/ ReportReadsTests(e, i)
           \/ \E b \in BOOLEAN : ApiCrash(b)
    PROVE  RowInv' /\ FinalInv'
<1> /\ reports \in [Execs -> [Tries -> Reports]]
    /\ row \in [Execs -> Rows]
    BY DEF TypeOK
<1>1. SUFFICES /\ UNCHANGED row
               /\ \A f \in Execs, j \in Tries :
                     reports'[f][j].at \in {"loaded", "weighed"}
                       => \/ /\ reports[f][j].at \in {"loaded", "weighed"}
                             /\ reports'[f][j].seen = reports[f][j].seen
                          \/ reports'[f][j].seen = row[f]
    <2>1. RowInv'
        BY <1>1 DEF RowInv, Final
    <2>2. FinalInv'
        BY <1>1, FaultsGrow DEF FinalInv, Final, Pending
    <2> QED
        BY <2>1, <2>2
<1>2. ASSUME NEW w \in Workers, NEW e \in Execs, Retry(w, e) \/ \E v \in Outcomes : Judge(w, e, v)
      PROVE  /\ UNCHANGED row
             /\ \A f \in Execs, j \in Tries :
                   reports'[f][j].at \in {"loaded", "weighed"} => reports'[f][j] = reports[f][j]
    <2>1. UNCHANGED row /\ \E i : reports' = [reports EXCEPT ![e][i].at = "sent"]
        <3>1. CASE Retry(w, e)
            BY <3>1 DEF Retry, database
        <3>2. ASSUME NEW v \in Outcomes, Judge(w, e, v)
              PROVE  UNCHANGED row /\ \E i : reports' = [reports EXCEPT ![e][i].at = "sent"]
            BY <3>2 DEF Judge, database
        <3> QED
            BY <1>2, <3>1, <3>2
    <2>2. PICK i : reports' = [reports EXCEPT ![e][i].at = "sent"]
        BY <2>1
    <2>3. \A r \in Reports : [r EXCEPT !.at = "sent"].at = "sent"
        BY DEF Reports
    <2> QED
        BY <2>1, <2>2, <2>3
<1>3. ASSUME NEW e \in Execs, NEW i \in Tries, ReportLoads(e, i)
      PROVE  /\ UNCHANGED row
             /\ \A f \in Execs, j \in Tries :
                   reports'[f][j].at \in {"loaded", "weighed"}
                     => reports'[f][j] = reports[f][j] \/ reports'[f][j].seen = row[f]
    <2> DEFINE r == reports[e][i]
    <2>0. r \in Reports
        OBVIOUS
    <2>1. /\ [r EXCEPT !.at = "loaded", !.seen = row[e]].seen = row[e]
          /\ [r EXCEPT !.at = "ok"].at = "ok"
        BY <2>0 DEF Reports
    <2>2. CASE Exists(e)
        <3>1. /\ UNCHANGED row
              /\ reports' = [reports EXCEPT ![e][i] = [r EXCEPT !.at = "loaded", !.seen = row[e]]]
            BY <1>3, <2>2 DEF ReportLoads, database
        <3> QED
            BY <2>1, <3>1
    <2>3. CASE ~Exists(e)
        <3>1. /\ UNCHANGED row
              /\ reports' = [reports EXCEPT ![e][i] = [r EXCEPT !.at = "ok"]]
            BY <1>3, <2>3 DEF ReportLoads, database
        <3> QED
            BY <2>1, <3>1
    <2> QED
        BY <2>2, <2>3
<1>4. ASSUME NEW e \in Execs, NEW i \in Tries, ReportReadsTests(e, i)
      PROVE  /\ UNCHANGED row
             /\ \A f \in Execs, j \in Tries :
                   reports'[f][j].at \in {"loaded", "weighed"}
                     => /\ reports[f][j].at \in {"loaded", "weighed"}
                        /\ reports'[f][j].seen = reports[f][j].seen
    <2> DEFINE r == reports[e][i]
    <2>0. r \in Reports
        OBVIOUS
    <2>1. [r EXCEPT !.at = "weighed", !.ver = version].seen = r.seen
        BY <2>0 DEF Reports
    <2>2. /\ UNCHANGED row
          /\ r.at = "loaded"
          /\ reports' = [reports EXCEPT ![e][i] = [r EXCEPT !.at = "weighed", !.ver = version]]
        BY <1>4 DEF ReportReadsTests, database
    <2> QED
        BY <2>1, <2>2
<1>5. ASSUME NEW b \in BOOLEAN, ApiCrash(b)
      PROVE  /\ UNCHANGED row
             /\ \A f \in Execs, j \in Tries :
                   reports'[f][j].at \in {"loaded", "weighed"} => reports'[f][j] = reports[f][j]
    <2>1. /\ UNCHANGED row
          /\ \A f \in Execs, j \in Tries :
                reports'[f][j] \in {[NoReport EXCEPT !.at = "lost"], reports[f][j]}
        BY <1>5 DEF ApiCrash, database
    <2>2. [NoReport EXCEPT !.at = "lost"].at = "lost"
        BY DEF NoReport
    <2> QED
        BY <2>1, <2>2
<1> QED
    BY <1>2, <1>3, <1>4, <1>5

LEMMA FinalReset ==
    ASSUME TypeOK, RowInv, FinalInv, [Next]_vars, NEW a \in Resettable, ResetAttempt(a)
    PROVE  RowInv' /\ FinalInv'
<1>1. /\ \A f \in Execs : row'[f] = NoRow \/ row'[f] = row[f]
      /\ UNCHANGED reports
    BY DEF ResetAttempt, api
<1>2. NoRow.status = "none" /\ NoRow.finished = FALSE
    BY DEF NoRow
<1>3. RowInv'
    BY <1>1, <1>2 DEF RowInv, Final
<1>4. FinalInv'
    BY <1>1, <1>2, FaultsGrow DEF FinalInv, Final, Pending
<1> QED
    BY <1>3, <1>4

LEMMA FinalStep ==
    TypeOK /\ YoungInv /\ MarkInv /\ RowInv /\ FinalInv /\ [Next]_vars => RowInv' /\ FinalInv'
<1> SUFFICES ASSUME TypeOK, YoungInv, MarkInv, RowInv, FinalInv, [Next]_vars
             PROVE  RowInv' /\ FinalInv'
    OBVIOUS
<1>1. \/ UNCHANGED <<row, reports>>
      \/ \E e \in Execs : \/ SubmitReport(e) \/ CommitRow(e) \/ MarkCommits(e)
                         \/ \E i \in Tries : ReportCommits(e, i)
      \/ \E w \in Workers, e \in Execs : Retry(w, e) \/ \E v \in Outcomes : Judge(w, e, v)
      \/ \E e \in Execs, i \in Tries : ReportLoads(e, i) \/ ReportReadsTests(e, i)
      \/ \E b \in BOOLEAN : ApiCrash(b)
      \/ \E a \in Resettable : ResetAttempt(a)
    BY QuietSteps DEF Next, Client, Handlers, Thread, Staff, Fault
<1> QED
    BY <1>1, RowFrameKeeps, FinalClient, FinalMark, FinalReport, FinalPosts, FinalReset

----------------------------------------------------------------------------
(* Without faults an answer means that the row is decided or deleted *)

LEMMA AnswerStep ==
    TypeOK /\ YoungInv /\ MarkInv /\ RowInv /\ FinalInv /\ AnswerInv /\ [Next]_vars => AnswerInv'
<1> SUFFICES ASSUME TypeOK, YoungInv, MarkInv, RowInv, FinalInv, AnswerInv, [Next]_vars, NoFault'
             PROVE  AnswerInv'
    BY DEF AnswerInv
<1> /\ row \in [Execs -> Rows]
    /\ reports \in [Execs -> [Tries -> Reports]]
    BY DEF TypeOK
<1>0. NoFault /\ NoTimeout
    BY FaultsGrow DEF NoFault, NoTimeout, FaultKinds
<1>1. CASE UNCHANGED <<row, reports>>
    BY <1>0, <1>1 DEF AnswerInv, Pending, Exists
<1>2. ASSUME NEW e \in Execs, SubmitReport(e) \/ CommitRow(e) \/ MarkCommits(e) PROVE AnswerInv'
    <2>1. UNCHANGED reports /\ \A f \in Execs : f # e => row'[f] = row[f]
        BY <1>2 DEF SubmitReport, CommitRow, MarkCommits
    <2>2. \A i \in Tries : reports[e][i].at = "idle"
        <3>1. CASE SubmitReport(e) \/ CommitRow(e)
            BY <3>1, YoungRequest DEF SubmitReport, CommitRow, Unreported
        <3>2. CASE MarkCommits(e)
            BY <1>0, <3>2 DEF MarkCommits, MarkInv, Unreported
        <3> QED
            BY <1>2, <3>1, <3>2
    <2> QED
        BY <1>0, <2>1, <2>2 DEF AnswerInv, Pending, Exists
<1>3. ASSUME NEW e \in Execs, NEW i \in Tries, ReportCommits(e, i) PROVE AnswerInv'
    <2> SUFFICES ASSUME NEW f \in Execs, NEW j \in Tries
                 PROVE  /\ (reports'[f][j].at = "ok" => ~Pending(f)')
                        /\ (reports'[f][j].at = "error" => ~Exists(f)')
                        /\ reports'[f][j].at # "lost"
        BY DEF AnswerInv
    <2>1. CASE f # e
        BY <1>0, <1>3, <2>1, FinalReport DEF AnswerInv, Pending, Exists
    <2>2. CASE f = e /\ Exists(e)
        <3>1. (Final(e)' \/ ~Exists(e)') /\ reports'[e][i].at = "ok"
            BY <1>0, <1>3, <2>2, FinalReport
        <3>2. ~Pending(e)'
            BY <3>1 DEF Final, Exists, Pending
        <3>3. j # i => reports'[e][j].at # "error" /\ reports'[e][j].at # "lost"
            BY <1>0, <1>3, <2>2, FinalReport DEF AnswerInv
        <3> QED
            BY <2>2, <3>1, <3>2, <3>3
    <2>3. CASE f = e /\ ~Exists(e)
        <3>1. reports'[e][i].at = "error" /\ row' = row
            BY <1>3, <2>3, FinalReport
        <3>2. j # i => reports'[e][j] = reports[e][j]
            BY <1>3, FinalReport
        <3> QED
            BY <1>0, <2>3, <3>1, <3>2 DEF AnswerInv, Exists, Pending
    <2> QED
        BY <2>1, <2>2, <2>3
<1>4. ASSUME NEW w \in Workers, NEW e \in Execs, Retry(w, e) \/ \E v \in Outcomes : Judge(w, e, v)
      PROVE  AnswerInv'
    <2>1. UNCHANGED row /\ \E i : reports' = [reports EXCEPT ![e][i].at = "sent"]
        <3>1. CASE Retry(w, e)
            BY <3>1 DEF Retry, database
        <3>2. ASSUME NEW v \in Outcomes, Judge(w, e, v)
              PROVE  UNCHANGED row /\ \E i : reports' = [reports EXCEPT ![e][i].at = "sent"]
            BY <3>2 DEF Judge, database
        <3> QED
            BY <1>4, <3>1, <3>2
    <2>2. PICK i : reports' = [reports EXCEPT ![e][i].at = "sent"]
        BY <2>1
    <2>3. \A r \in Reports : [r EXCEPT !.at = "sent"].at = "sent"
        BY DEF Reports
    <2>4. \A f \in Execs, j \in Tries : reports'[f][j].at \in {"sent", reports[f][j].at}
        BY <2>2, <2>3
    <2> QED
        BY <1>0, <2>1, <2>4 DEF AnswerInv, Pending, Exists
<1>5. ASSUME NEW e \in Execs, NEW i \in Tries, ReportLoads(e, i) \/ ReportReadsTests(e, i)
      PROVE  AnswerInv'
    <2> DEFINE r == reports[e][i]
    <2>0. r \in Reports
        OBVIOUS
    <2>1. /\ [r EXCEPT !.at = "loaded", !.seen = row[e]].at = "loaded"
          /\ [r EXCEPT !.at = "ok"].at = "ok"
          /\ [r EXCEPT !.at = "weighed", !.ver = version].at = "weighed"
        BY <2>0 DEF Reports
    <2>2. UNCHANGED row
        BY <1>5 DEF ReportLoads, ReportReadsTests, database
    <2>3. PICK q : /\ reports' = [reports EXCEPT ![e][i] = q]
                   /\ q.at \in {"loaded", "weighed"} \/ (q.at = "ok" /\ ~Exists(e))
        <3>1. CASE ReportLoads(e, i) /\ Exists(e)
            <4>1. reports' = [reports EXCEPT ![e][i] = [r EXCEPT !.at = "loaded", !.seen = row[e]]]
                BY <3>1 DEF ReportLoads
            <4> QED
                BY <2>1, <4>1
        <3>2. CASE ReportLoads(e, i) /\ ~Exists(e)
            <4>1. reports' = [reports EXCEPT ![e][i] = [r EXCEPT !.at = "ok"]]
                BY <3>2 DEF ReportLoads
            <4> QED
                BY <2>1, <3>2, <4>1
        <3>3. CASE ReportReadsTests(e, i)
            <4>1. reports' = [reports EXCEPT ![e][i] = [r EXCEPT !.at = "weighed", !.ver = version]]
                BY <3>3 DEF ReportReadsTests
            <4> QED
                BY <2>1, <4>1
        <3> QED
            BY <1>5, <3>1, <3>2, <3>3
    <2>4. \A f \in Execs, j \in Tries : reports'[f][j] = IF f = e /\ j = i THEN q ELSE reports[f][j]
        BY <2>3
    <2> QED
        BY <1>0, <2>2, <2>3, <2>4 DEF AnswerInv, Pending, Exists
<1>6. ASSUME NEW b \in BOOLEAN, ApiCrash(b) PROVE AnswerInv'
    BY <1>6, SpentFault DEF ApiCrash, FaultKinds
<1>7. ASSUME NEW a \in Resettable, ResetAttempt(a) PROVE AnswerInv'
    <2>1. /\ UNCHANGED reports
          /\ \A f \in Execs : row'[f] = NoRow \/ row'[f] = row[f]
        BY <1>7 DEF ResetAttempt, api
    <2> QED
        BY <1>0, <2>1 DEF AnswerInv, Pending, Exists, NoRow
<1>8. \/ UNCHANGED <<row, reports>>
      \/ \E e \in Execs : \/ SubmitReport(e) \/ CommitRow(e) \/ MarkCommits(e)
                         \/ \E i \in Tries : ReportCommits(e, i)
      \/ \E w \in Workers, e \in Execs : Retry(w, e) \/ \E v \in Outcomes : Judge(w, e, v)
      \/ \E e \in Execs, i \in Tries : ReportLoads(e, i) \/ ReportReadsTests(e, i)
      \/ \E b \in BOOLEAN : ApiCrash(b)
      \/ \E a \in Resettable : ResetAttempt(a)
    BY QuietSteps DEF Next, Client, Handlers, Thread, Staff, Fault
<1> QED
    BY <1>1, <1>2, <1>3, <1>4, <1>5, <1>6, <1>7, <1>8

----------------------------------------------------------------------------
(* Without faults somebody works on every pending execution *)

\* No row becomes pending and no carrier lets go.
CarriedFrame ==
    \A e \in Execs : /\ (Pending(e)' => Pending(e))
                     /\ (Carried(e) => Carried(e)')

LEMMA CarriedFrameKeeps ==
    ASSUME CarriedInv, CarriedFrame, NoFault PROVE CarriedInv'
BY DEF CarriedInv, CarriedFrame

LEMMA CarriedClient ==
    ASSUME TypeOK, CarriedInv, NoFault, NEW e \in Execs, Client(e)
    PROVE  CarriedInv'
<1> /\ row \in [Execs -> Rows]
    /\ request \in [Execs -> {"idle", "checked", "built", "committed", "answered", "failed"}]
    /\ queue \in Seq(Execs)
    BY DEF TypeOK
<1>1. CASE SubmitReport(e) \/ CheckPending(e) \/ ReadTests(e)
    <2>1. /\ request[e] # "committed"
          /\ \A f \in Execs : f # e => request'[f] = request[f]
          /\ row' = row \/ row' = [row EXCEPT ![e] = ReportRow]
          /\ UNCHANGED <<queue, holding, thread>>
        BY <1>1 DEF SubmitReport, CheckPending, ReadTests, database, worker
    <2>2. CarriedFrame
        BY <2>1 DEF CarriedFrame, Pending, ReportRow, NoRow, Carried, Queued, Held
    <2> QED
        BY <2>2, CarriedFrameKeeps
<1>2. CASE CommitRow(e)
    <2>1. /\ request[e] = "built"
          /\ \/ request' = [request EXCEPT ![e] = "committed"]
             \/ request' = [request EXCEPT ![e] = "failed"] /\ row' = row
          /\ \A f \in Execs : f # e => row'[f] = row[f]
          /\ UNCHANGED <<queue, holding, thread>>
        BY <1>2 DEF CommitRow, worker
    <2>2. \A f \in Execs : /\ (Carried(f) => Carried(f)')
                           /\ (Pending(f)' => Pending(f) \/ Carried(f)')
        BY <2>1 DEF Pending, Carried, Queued, Held
    <2> QED
        BY <2>2 DEF CarriedInv
<1>3. CASE Enqueue(e)
    <2>1. /\ request' = [request EXCEPT ![e] = "answered"]
          /\ queue' = Append(queue, e)
          /\ UNCHANGED <<row, holding, thread>>
        BY <1>3 DEF Enqueue, database, worker
    <2>2. \A f \in Execs : Queued(f) \/ f = e => Queued(f)'
        <3>1. \A i \in DOMAIN queue : i \in DOMAIN queue' /\ queue'[i] = queue[i]
            BY <2>1
        <3>2. Len(queue) + 1 \in DOMAIN queue' /\ queue'[Len(queue) + 1] = e
            BY <2>1
        <3> QED
            BY <3>1, <3>2 DEF Queued
    <2>3. CarriedFrame
        BY <2>1, <2>2 DEF CarriedFrame, Pending, Carried, Held
    <2> QED
        BY <2>3, CarriedFrameKeeps
<1> QED
    BY <1>1, <1>2, <1>3 DEF Client

LEMMA CarriedDispatcher ==
    ASSUME TypeOK, CarriedInv, NoFault, NEW w \in Workers, Pop(w) \/ Spawn(w)
    PROVE  CarriedInv'
<1> /\ queue \in Seq(Execs)
    /\ holding \in [Workers -> Execs \cup {None}]
    /\ thread \in [Workers -> [Execs -> {"none", "marking", "judging", "reporting"}]]
    BY DEF TypeOK
<1>1. CASE Pop(w)
    <2>0. PICK h \in Execs : h = Head(queue)
        BY <1>1 DEF Pop
    <2>1. /\ holding[w] = None
          /\ queue # <<>>
          /\ holding' = [holding EXCEPT ![w] = h]
          /\ queue' = Tail(queue)
          /\ UNCHANGED <<row, request, thread>>
        BY <1>1, <2>0 DEF Pop, Popped, api, database
    <2>2. \A f \in Execs : Queued(f) => Queued(f)' \/ f = h
        <3> SUFFICES ASSUME NEW f \in Execs, NEW i \in DOMAIN queue, queue[i] = f, f # h
                     PROVE  Queued(f)'
            BY DEF Queued
        <3>1. i # 1
            BY <2>0
        <3>2. i - 1 \in DOMAIN queue' /\ queue'[i - 1] = queue[i]
            BY <2>1, <3>1
        <3> QED
            BY <3>2 DEF Queued
    <2>3. \A f \in Execs, v \in Workers : f \in Held(v) \/ (f = h /\ v = w) => (f \in Held(v))'
        BY <2>1, ExecsAssumption DEF Held
    <2>4. CarriedFrame
        BY <2>1, <2>2, <2>3 DEF CarriedFrame, Pending, Carried
    <2> QED
        BY <2>4, CarriedFrameKeeps
<1>2. CASE Spawn(w)
    <2>0. PICK h \in Execs : h = holding[w]
        BY <1>2 DEF Spawn
    <2>1. /\ thread' = [thread EXCEPT ![w][h] = "marking"]
          /\ holding' = [holding EXCEPT ![w] = None]
          /\ UNCHANGED <<row, request, queue>>
        BY <1>2, <2>0 DEF Spawn, database
    <2>2. \A f \in Execs, v \in Workers : f \in Held(v) => (f \in Held(v))'
        BY <2>0, <2>1, ExecsAssumption DEF Held
    <2>3. CarriedFrame
        BY <2>1, <2>2 DEF CarriedFrame, Pending, Carried, Queued
    <2> QED
        BY <2>3, CarriedFrameKeeps
<1> QED
    BY <1>1, <1>2

LEMMA PostedStep == TypeOK /\ PostedInv /\ [Next]_vars => PostedInv'
<1> SUFFICES ASSUME TypeOK, PostedInv, [Next]_vars,
                    NEW f \in Execs, NEW v \in Workers, thread'[v][f] = "reporting"
             PROVE  tries'[f] \in Tries
    BY DEF PostedInv
<1> /\ thread \in [Workers -> [Execs -> {"none", "marking", "judging", "reporting"}]]
    /\ tries \in [Execs -> 0 .. MaxTries]
    BY DEF TypeOK
<1>1. ASSUME NEW w \in Workers, NEW e \in Execs, NEW o \in Outcomes, Judge(w, e, o)
      PROVE  tries'[f] \in Tries
    <2>1. CASE f = e
        BY <1>1, <2>1, LimitsAssumption DEF Judge, Tries
    <2>2. CASE f # e
        BY <1>1, <2>2 DEF Judge, PostedInv
    <2> QED
        BY <2>1, <2>2
<1>2. ASSUME NEW w \in Workers, NEW e \in Execs, Retry(w, e)
      PROVE  tries'[f] \in Tries
    <2>1. CASE f = e
        BY <1>2, <2>1, LimitsAssumption DEF Retry, Tries
    <2>2. CASE f # e
        BY <1>2, <2>2 DEF Retry, PostedInv
    <2> QED
        BY <2>1, <2>2
<1>3. CASE /\ tries' = tries
           /\ thread'[v][f] = "reporting" => thread[v][f] = "reporting"
    BY <1>3 DEF PostedInv
<1>4. ASSUME NEW w \in Workers, NEW e \in Execs,
             MarkAnswered(w, e) \/ ReportAnswered(w, e) \/ GiveUp(w, e) \/ MarkTimesOut(w, e)
      PROVE  tries'[f] \in Tries
    BY <1>3, <1>4 DEF MarkAnswered, ReportAnswered, GiveUp, MarkTimesOut, EndThread
<1>5. ASSUME NEW w \in Workers, Pop(w) \/ Spawn(w) \/ PopLost(w) \/ WorkerCrash(w)
      PROVE  tries'[f] \in Tries
    <2>1. CASE Pop(w) \/ PopLost(w)
        BY <1>3, <2>1 DEF Pop, PopLost, worker
    <2>2. CASE Spawn(w)
        <3>1. PICK h : h = holding[w]
            OBVIOUS
        <3>2. /\ thread' = [thread EXCEPT ![w][h] = "marking"]
              /\ UNCHANGED tries
            BY <2>2, <3>1 DEF Spawn
        <3> QED
            BY <1>3, <3>2
    <2>3. CASE WorkerCrash(w)
        BY <1>3, <2>3 DEF WorkerCrash
    <2> QED
        BY <1>5, <2>1, <2>2, <2>3
<1>6. ASSUME NEW e \in Execs, Client(e) \/ Handlers(e) \/ EnqueueFails(e)
      PROVE  tries'[f] \in Tries
    BY <1>3, <1>6
    DEF Client, SubmitReport, CheckPending, ReadTests, CommitRow, Enqueue, EnqueueFails,
        Handlers, MarkLoads, MarkCommits, ReportLoads, ReportReadsTests, ReportCommits, worker
<1>7. CASE UNCHANGED vars \/ Staff
    BY <1>3, <1>7 DEF vars, Staff, EditProblem, ResetAttempt, worker
<1>8. CASE RedisLoss \/ \E lost \in BOOLEAN : ApiCrash(lost)
    BY <1>3, <1>8 DEF RedisLoss, ApiCrash, worker
<1> QED
    BY <1>1, <1>2, <1>4, <1>5, <1>6, <1>7, <1>8 DEF Next, Thread, Fault

LEMMA CarriedThread ==
    ASSUME TypeOK, PostedInv, AnswerInv, CarriedInv, NoFault, NoFault',
           NEW w \in Workers, NEW e \in Execs, Thread(w, e)
    PROVE  CarriedInv'
<1> /\ thread \in [Workers -> [Execs -> {"none", "marking", "judging", "reporting"}]]
    /\ tries \in [Execs -> 0 .. MaxTries]
    BY DEF TypeOK
<1>1. ASSUME MarkAnswered(w, e) \/ Retry(w, e) \/ \E v \in Outcomes : Judge(w, e, v) PROVE CarriedInv'
    <2>1. /\ UNCHANGED <<row, request, queue, holding>>
          /\ \A v \in Workers, f \in Execs : thread[v][f] # "none" => thread'[v][f] # "none"
        <3>1. CASE MarkAnswered(w, e)
            BY <3>1 DEF MarkAnswered, api, database
        <3>2. CASE Retry(w, e)
            BY <3>2 DEF Retry, database
        <3>3. ASSUME NEW v \in Outcomes, Judge(w, e, v)
              PROVE  /\ UNCHANGED <<row, request, queue, holding>>
                     /\ \A u \in Workers, f \in Execs : thread[u][f] # "none" => thread'[u][f] # "none"
            BY <3>3 DEF Judge, database
        <3> QED
            BY <1>1, <3>1, <3>2, <3>3
    <2>2. CarriedFrame
        BY <2>1 DEF CarriedFrame, Pending, Carried, Queued, Held
    <2> QED
        BY <2>2, CarriedFrameKeeps
<1>2. CASE ReportAnswered(w, e) \/ GiveUp(w, e)
    <2>1. /\ thread' = [thread EXCEPT ![w][e] = "none"]
          /\ UNCHANGED <<row, request, queue, holding>>
        BY <1>2 DEF ReportAnswered, GiveUp, EndThread, api, database
    <2>2. ~Pending(e)
        <3>1. CASE ReportAnswered(w, e)
            BY <3>1 DEF ReportAnswered, AnswerInv, PostedInv
        <3>2. CASE GiveUp(w, e)
            <4>1. tries[e] \in Tries
                BY <3>2, LimitsAssumption DEF GiveUp, Tries
            <4>2. reports[e][tries[e]].at \in {"error", "lost"}
                BY <3>2, SpentFault DEF GiveUp, PostFailed, FaultKinds
            <4> QED
                BY <4>1, <4>2 DEF AnswerInv, Exists, Pending
        <3> QED
            BY <1>2, <3>1, <3>2
    <2>3. \A f \in Execs : f # e /\ Carried(f) => Carried(f)'
        BY <2>1 DEF Carried, Queued, Held
    <2> QED
        BY <2>1, <2>2, <2>3 DEF CarriedInv, Pending
<1> QED
    BY <1>1, <1>2 DEF Thread

LEMMA CarriedHandler ==
    ASSUME TypeOK, MarkInv, RowInv, FinalInv, CarriedInv, NoFault, [Next]_vars, NEW e \in Execs, Handlers(e)
    PROVE  CarriedInv'
<1> row \in [Execs -> Rows]
    BY DEF TypeOK
<1>0. NoTimeout
    BY DEF NoFault, NoTimeout, FaultKinds
<1>1. /\ UNCHANGED <<request, queue, holding, thread>>
      /\ \A f \in Execs : f # e => row'[f] = row[f]
    BY DEF Handlers, MarkLoads, MarkCommits, ReportLoads, ReportReadsTests, ReportCommits, database, worker
<1>2. Pending(e)' => Pending(e)
    <2>1. ASSUME NEW i \in Tries, ReportCommits(e, i) PROVE ~Pending(e)'
        <3>1. Final(e)' \/ ~Exists(e)'
            BY <1>0, <2>1, FinalReport
        <3> QED
            BY <3>1 DEF Final, Exists, Pending
    <2>2. CASE MarkCommits(e)
        <3>1. row[e].status \in Statuses /\ ~row[e].finished
            BY <1>0, <2>2 DEF MarkCommits, MarkInv, Unreported, Rows
        <3> QED
            BY <2>2, <3>1 DEF MarkCommits, RowInv, Final, Pending, Exists, Statuses
    <2>3. ASSUME NEW i \in Tries, MarkLoads(e) \/ ReportLoads(e, i) \/ ReportReadsTests(e, i)
          PROVE  row' = row
        BY <2>3 DEF MarkLoads, ReportLoads, ReportReadsTests, database
    <2> QED
        BY <2>1, <2>2, <2>3, ReportTypes DEF Handlers, Pending
<1>3. CarriedFrame
    BY <1>1, <1>2 DEF CarriedFrame, Pending, Carried, Queued, Held
<1> QED
    BY <1>3, CarriedFrameKeeps

LEMMA CarriedStep ==
    TypeOK /\ MarkInv /\ PostedInv /\ RowInv /\ FinalInv /\ AnswerInv /\ CarriedInv /\ [Next]_vars
        => CarriedInv'
<1> SUFFICES ASSUME TypeOK, MarkInv, PostedInv, RowInv, FinalInv, AnswerInv, CarriedInv, [Next]_vars, NoFault'
             PROVE  CarriedInv'
    BY DEF CarriedInv
<1>0. NoFault
    BY FaultsGrow
<1>1. CASE UNCHANGED vars \/ Staff
    <2>1. /\ UNCHANGED <<request, queue, holding, thread>>
          /\ \A f \in Execs : row'[f] = NoRow \/ row'[f] = row[f]
        BY <1>1 DEF vars, Staff, EditProblem, ResetAttempt, database, api, worker
    <2>2. CarriedFrame
        BY <2>1 DEF CarriedFrame, Pending, NoRow, Carried, Queued, Held
    <2> QED
        BY <1>0, <2>2, CarriedFrameKeeps
<1>2. CASE Fault
    BY <1>2, SpentFault
    DEF Fault, EnqueueFails, MarkTimesOut, PopLost, WorkerCrash, ApiCrash, RedisLoss, FaultKinds
<1> QED
    BY <1>0, <1>1, <1>2, CarriedClient, CarriedDispatcher, CarriedThread, CarriedHandler DEF Next

----------------------------------------------------------------------------
(* The invariant, and what follows from it *)

LEMMA InitJudgeInv == Init => JudgeInv
<1> SUFFICES ASSUME Init PROVE JudgeInv
    OBVIOUS
<1>1. \A e \in Execs : ~Pending(e) /\ ~Final(e) /\ ~row[e].finished
    BY DEF Init, NoRow, Pending, Final
<1>2. \A e \in Execs, i \in Tries : reports[e][i].at = "idle"
    BY DEF Init, NoReport
<1>3. YoungInv /\ MarkInv
    BY <1>1, <1>2 DEF Init, YoungInv, MarkInv, Young, Marking, Judging, Unreported
<1>4. PostedInv /\ RowInv /\ FinalInv /\ AnswerInv /\ CarriedInv
    BY <1>1, <1>2 DEF Init, PostedInv, RowInv, FinalInv, AnswerInv, CarriedInv
<1> QED
    BY <1>3, <1>4, InitTypeOK, CarryInit DEF JudgeInv

LEMMA NextJudgeInv == JudgeInv /\ [Next]_vars => JudgeInv'
BY NextTypeOK, CarryStep, YoungStep, MarkStep, PostedStep, FinalStep, AnswerStep, CarriedStep DEF JudgeInv

\* The invariant the two theorems below follow from: where a job is, how far its
\* callbacks have come, and what its row may hold by then.
THEOREM JudgeInvariant == Spec => []JudgeInv
BY InitJudgeInv, NextJudgeInv, PTL DEF Spec

\* A finished execution is done or error for good unless a request timed out:
\* crashes, retries, edits and resets never put a row back to "running".
THEOREM FinishedStaysFinal == Spec => []FinishedIsFinal
<1>1. JudgeInv => FinishedIsFinal
    <2>1. TypeOK => (faults["timeout"] > 0 \/ NoTimeout)
        BY DEF TypeOK, NoTimeout, FaultKinds
    <2> QED
        BY <2>1 DEF JudgeInv, FinalInv, FinishedIsFinal
<1> QED
    BY <1>1, JudgeInvariant, PTL

\* An execution nobody works on is the trace of a fault: in the code paths
\* themselves, no order of steps loses a job.
THEOREM StrandedNeedsFault == Spec => []StrandedOnlyByFault
<1>1. JudgeInv => StrandedOnlyByFault
    <2> SUFFICES ASSUME JudgeInv, Stranded # {} PROVE \E k \in FaultKinds : faults[k] > 0
        BY DEF StrandedOnlyByFault
    <2>1. ~NoFault
        BY DEF JudgeInv, CarriedInv, Stranded
    <2> QED
        BY <2>1 DEF JudgeInv, TypeOK, NoFault
<1> QED
    BY <1>1, JudgeInvariant, PTL
----------------------------------------------------------------------------
(* How far the pending check can be overrun *)

LEMMA CountType == ASSUME NEW S \in SUBSET Execs PROVE IsFiniteSet(S) /\ Cardinality(S) \in Nat
BY ExecsAssumption, FS_Subset, FS_CardinalityType

LEMMA FewerExecs == ASSUME NEW S \in SUBSET Execs, NEW T \in SUBSET S PROVE Cardinality(T) <= Cardinality(S)
BY CountType, FS_Subset

LEMMA OneExecMore ==
    ASSUME NEW S \in SUBSET Execs, NEW e \in Execs, NEW T \in SUBSET (S \cup {e})
    PROVE  Cardinality(T) <= Cardinality(S) + 1
<1>1. Cardinality(T) <= Cardinality(S \cup {e})
    BY FewerExecs
<1>2. Cardinality(S \cup {e}) <= Cardinality(S) + 1
    BY CountType, FS_AddElement
<1>3. /\ Cardinality(T) \in Nat
      /\ Cardinality(S) \in Nat
      /\ Cardinality(S \cup {e}) \in Nat
    BY CountType
<1> QED
    BY <1>1, <1>2, <1>3

LEMMA OneExecLess ==
    ASSUME NEW S \in SUBSET Execs, NEW e \in S, NEW T \in SUBSET (S \ {e})
    PROVE  Cardinality(T) <= Cardinality(S) - 1
<1>1. Cardinality(T) <= Cardinality(S \ {e})
    BY FewerExecs
<1>2. Cardinality(S \ {e}) = Cardinality(S) - 1
    BY CountType, FS_RemoveElement
<1> QED
    BY <1>1, <1>2

\* The sets the bound is about, before and after a step.
LEMMA OverrunSets ==
    ASSUME NEW a \in Attempts
    PROVE  /\ Fresh(a) \in SUBSET Execs /\ Fresh(a)' \in SUBSET Execs
           /\ Counted(a) \in SUBSET Execs /\ Counted(a)' \in SUBSET Execs
           /\ Fresh(a) \subseteq PendingOf(a) /\ PendingOf(a) \in SUBSET Execs
           /\ Counted(a) \subseteq InFlight(a) /\ InFlight(a) \in SUBSET Execs
BY DEF Fresh, Counted, PendingOf, InFlight

LEMMA OverrunCounts ==
    ASSUME NEW a \in Attempts
    PROVE  /\ Cardinality(Fresh(a)) \in Nat /\ Cardinality(Fresh(a)') \in Nat
           /\ Cardinality(Counted(a)) \in Nat /\ Cardinality(Counted(a)') \in Nat
           /\ Cardinality(Fresh(a)) <= Cardinality(PendingOf(a)) /\ Cardinality(PendingOf(a)) \in Nat
           /\ Cardinality(Counted(a)) <= Cardinality(InFlight(a)) /\ Cardinality(InFlight(a)) \in Nat
BY OverrunSets, CountType, FewerExecs

\* A step after which nothing more waits, and no request more is past the check.
OverrunFrame(e) ==
    /\ (Pending(e)' /\ ~row'[e].finished => Pending(e) /\ ~row[e].finished)
    /\ (request'[e] \in {"checked", "built"} => request[e] \in {"checked", "built"})

LEMMA OverrunFrameKeeps ==
    ASSUME PendingOverrunBounded, NEW a \in Attempts, \A e \in Execs : AttemptOf[e] = a => OverrunFrame(e)
    PROVE  Cardinality(Fresh(a)') + Cardinality(Counted(a)') <= MaxPending - 1 + Tabs
<1>1. Fresh(a)' \subseteq Fresh(a) /\ Counted(a)' \subseteq Counted(a)
    BY DEF OverrunFrame, Fresh, Counted, PendingOf
<1>2. /\ Cardinality(Fresh(a)') <= Cardinality(Fresh(a))
      /\ Cardinality(Counted(a)') <= Cardinality(Counted(a))
    BY <1>1, OverrunSets, FewerExecs
<1> QED
    BY <1>2, OverrunCounts, LimitsAssumption DEF PendingOverrunBounded

\* The check and the commit are the two steps that move an execution into a counted set.
LEMMA OverrunCheck ==
    ASSUME TypeOK, NEW e \in Execs, CheckPending(e)
    PROVE  Cardinality(Fresh(AttemptOf[e])') + Cardinality(Counted(AttemptOf[e])') <= MaxPending - 1 + Tabs
<1> DEFINE a == AttemptOf[e]
<1>0. a \in Attempts
    BY ExecsAssumption
<1> HIDE DEF a
<1>1. /\ Cardinality(InFlight(a)) < Tabs
      /\ Cardinality(PendingOf(a)) < MaxPending
      /\ request' = [request EXCEPT ![e] = "checked"]
      /\ UNCHANGED row
    BY DEF CheckPending, Room, a, database
<1>2. Fresh(a)' = Fresh(a)
    BY <1>1 DEF Fresh, PendingOf, Pending, a
<1>3. Counted(a)' \subseteq Counted(a) \cup {e}
    BY <1>1 DEF Counted, TypeOK, a
<1>4. Cardinality(Counted(a)') <= Cardinality(Counted(a)) + 1
    BY <1>0, <1>3, OverrunSets, OneExecMore
<1>5. Cardinality(Fresh(a)') + Cardinality(Counted(a)') <= MaxPending - 1 + Tabs
    BY <1>0, <1>1, <1>2, <1>4, OverrunCounts, LimitsAssumption
<1> QED
    BY <1>5 DEF a

LEMMA OverrunCommit ==
    ASSUME TypeOK, PendingOverrunBounded, NEW e \in Execs, request[e] = "built",
           request' = [request EXCEPT ![e] = "committed"], row' = [row EXCEPT ![e] = NewRow]
    PROVE  Cardinality(Fresh(AttemptOf[e])') + Cardinality(Counted(AttemptOf[e])') <= MaxPending - 1 + Tabs
<1> DEFINE a == AttemptOf[e]
<1>0. a \in Attempts
    BY ExecsAssumption
<1> HIDE DEF a
<1>1. Fresh(a)' \subseteq Fresh(a) \cup {e}
    BY DEF Fresh, PendingOf, Pending, TypeOK, a
<1>2. e \in Counted(a) /\ Counted(a)' \subseteq Counted(a) \ {e}
    BY DEF Counted, TypeOK, a
<1>3. Cardinality(Fresh(a)') <= Cardinality(Fresh(a)) + 1
    BY <1>0, <1>1, OverrunSets, OneExecMore
<1>4. Cardinality(Counted(a)') <= Cardinality(Counted(a)) - 1
    BY <1>0, <1>2, OverrunSets, OneExecLess
<1>5. Cardinality(Fresh(a)') + Cardinality(Counted(a)') <= MaxPending - 1 + Tabs
    BY <1>0, <1>3, <1>4, OverrunCounts, LimitsAssumption DEF PendingOverrunBounded
<1> QED
    BY <1>5 DEF a

LEMMA OverrunStep == TypeOK /\ RowInv /\ PendingOverrunBounded /\ [Next]_vars => PendingOverrunBounded'
<1> SUFFICES ASSUME TypeOK, RowInv, PendingOverrunBounded, [Next]_vars, NEW a \in Attempts
             PROVE  Cardinality(Fresh(a)') + Cardinality(Counted(a)') <= MaxPending - 1 + Tabs
    BY DEF PendingOverrunBounded
<1> DEFINE Goal == Cardinality(Fresh(a)') + Cardinality(Counted(a)') <= MaxPending - 1 + Tabs
<1> /\ row \in [Execs -> Rows]
    /\ request \in [Execs -> {"idle", "checked", "built", "committed", "answered", "failed"}]
    BY DEF TypeOK
<1> SUFFICES Goal
    OBVIOUS
<1>1. ASSUME \A f \in Execs : AttemptOf[f] = a => OverrunFrame(f) PROVE Goal
    BY <1>1, OverrunFrameKeeps
<1> HIDE DEF Goal
<1>2. ASSUME UNCHANGED row, \A f \in Execs : request'[f] \in {"checked", "built"} => request[f] \in {"checked", "built"}
      PROVE  Goal
    BY <1>1, <1>2 DEF OverrunFrame, Pending
<1>3. ASSUME NEW e \in Execs, CheckPending(e) PROVE Goal
    <2>1. UNCHANGED row /\ request' = [request EXCEPT ![e] = "checked"]
        BY <1>3 DEF CheckPending, database
    <2>2. CASE AttemptOf[e] = a
        BY <1>3, <2>2, OverrunCheck DEF Goal
    <2>3. CASE AttemptOf[e] # a
        BY <1>1, <2>1, <2>3 DEF OverrunFrame, Pending
    <2> QED
        BY <2>2, <2>3
<1>4. ASSUME NEW e \in Execs, CommitRow(e) PROVE Goal
    <2>1. CASE UNCHANGED row /\ request' = [request EXCEPT ![e] = "failed"]
        BY <1>2, <2>1
    <2>2. CASE request' = [request EXCEPT ![e] = "committed"] /\ row' = [row EXCEPT ![e] = NewRow] /\ request[e] = "built"
        <3>1. CASE AttemptOf[e] = a
            BY <2>2, <3>1, OverrunCommit DEF Goal
        <3>2. CASE AttemptOf[e] # a
            BY <1>1, <2>2, <3>2 DEF OverrunFrame, Pending
        <3> QED
            BY <3>1, <3>2
    <2> QED
        BY <1>4, <2>1, <2>2 DEF CommitRow
<1>5. ASSUME NEW e \in Execs, SubmitReport(e) PROVE Goal
    <2>1. row' = [row EXCEPT ![e] = ReportRow] /\ request' = [request EXCEPT ![e] = "answered"]
        BY <1>5 DEF SubmitReport
    <2>2. \A f \in Execs : OverrunFrame(f)
        BY <2>1, RowTypes DEF OverrunFrame, Pending, ReportRow, NoRow
    <2> QED
        BY <1>1, <2>2
<1>6. ASSUME NEW e \in Execs, MarkCommits(e) PROVE Goal
    <2>1. /\ UNCHANGED row \/ (Exists(e) /\ row' = [row EXCEPT ![e].status = "running"])
          /\ UNCHANGED request
        BY <1>6 DEF MarkCommits
    <2>2. row[e].status \in Statuses
        BY DEF Rows
    <2>3. \A f \in Execs : OverrunFrame(f)
        BY <2>1, <2>2 DEF OverrunFrame, Pending, RowInv, Final, Exists, Statuses, Rows
    <2> QED
        BY <1>1, <2>3
<1>7. ASSUME NEW e \in Execs, NEW i \in Tries, ReportCommits(e, i) PROVE Goal
    <2>1. /\ UNCHANGED row \/ (row'[e].finished /\ \A f \in Execs : f # e => row'[f] = row[f])
          /\ UNCHANGED request
        BY <1>7 DEF ReportCommits
    <2>2. \A f \in Execs : OverrunFrame(f)
        BY <2>1 DEF OverrunFrame, Pending
    <2> QED
        BY <1>1, <2>2
<1>8. ASSUME NEW b \in Resettable, ResetAttempt(b) PROVE Goal
    <2>1. \A f \in Execs : row'[f] = row[f] \/ row'[f].status = "none"
        BY <1>8 DEF ResetAttempt, NoRow
    <2>2. UNCHANGED request
        BY <1>8 DEF ResetAttempt, api
    <2>3. \A f \in Execs : OverrunFrame(f)
        BY <2>1, <2>2 DEF OverrunFrame, Pending
    <2> QED
        BY <1>1, <2>3
<1>9. ASSUME NEW e \in Execs,
             \/ ReadTests(e) \/ Enqueue(e) \/ EnqueueFails(e) \/ MarkLoads(e)
             \/ \E i \in Tries : ReportLoads(e, i) \/ ReportReadsTests(e, i)
      PROVE  Goal
    BY <1>2, <1>9 DEF ReadTests, Enqueue, EnqueueFails, MarkLoads, ReportLoads, ReportReadsTests, database
<1>10. ASSUME NEW w \in Workers, Pop(w) \/ PopLost(w) \/ Spawn(w) \/ WorkerCrash(w) PROVE Goal
    BY <1>2, <1>10 DEF Pop, PopLost, Spawn, WorkerCrash, database, api
<1>11. ASSUME NEW w \in Workers, NEW e \in Execs, Thread(w, e) \/ MarkTimesOut(w, e) PROVE Goal
    <2>1. UNCHANGED <<row, request>>
        BY <1>11 DEF Thread, MarkAnswered, Judge, ReportAnswered, Retry, GiveUp, MarkTimesOut, database, api
    <2> QED
        BY <1>2, <2>1
<1>12. ASSUME EditProblem \/ RedisLoss \/ UNCHANGED vars PROVE Goal
    BY <1>2, <1>12 DEF EditProblem, RedisLoss, vars, database, api
<1>13. ASSUME NEW b \in BOOLEAN, ApiCrash(b) PROVE Goal
    BY <1>2, <1>13 DEF ApiCrash, database
<1> QED
    BY <1>3, <1>4, <1>5, <1>6, <1>7, <1>8, <1>9, <1>10, <1>11, <1>12, <1>13
    DEF Next, Client, Handlers, Staff, Fault

\* However the requests of an attempt's tabs interleave between the pending check
\* and the commit, no more than MAX_PENDING - 1 + Tabs of its executions wait.
THEOREM PendingHolds == Spec => []PendingOverrunBounded
<1>1. Init => PendingOverrunBounded
    <2> SUFFICES ASSUME Init, NEW a \in Attempts
                 PROVE  Cardinality(Fresh(a)) + Cardinality(Counted(a)) <= MaxPending - 1 + Tabs
        BY DEF PendingOverrunBounded
    <2>1. Fresh(a) = {} /\ Counted(a) = {}
        BY DEF Init, Fresh, Counted, PendingOf, Pending, NoRow
    <2> QED
        BY <2>1, FS_EmptySet, LimitsAssumption
<1>2. JudgeInv => TypeOK /\ RowInv
    BY DEF JudgeInv
<1> QED
    BY <1>1, <1>2, OverrunStep, JudgeInvariant, PTL DEF Spec
----------------------------------------------------------------------------
(* Rows, jobs and verdicts keep together *)

\* The steps that write rows, and what the others leave alone.
LEMMA RowSteps ==
    ASSUME [Next]_vars
    PROVE  \/ UNCHANGED <<row, events>>
           \/ \E e \in Execs : \/ SubmitReport(e) \/ CommitRow(e) \/ MarkCommits(e)
                               \/ \E i \in Tries : ReportCommits(e, i)
           \/ \E a \in Resettable : ResetAttempt(a)
<1>1. ASSUME NEW e \in Execs, Client(e) \/ EnqueueFails(e)
      PROVE  UNCHANGED <<row, events>> \/ SubmitReport(e) \/ CommitRow(e)
    BY <1>1 DEF Client, CheckPending, ReadTests, Enqueue, EnqueueFails, database
<1>2. ASSUME NEW e \in Execs, Handlers(e)
      PROVE  UNCHANGED <<row, events>> \/ MarkCommits(e) \/ \E i \in Tries : ReportCommits(e, i)
    BY <1>2 DEF Handlers, MarkLoads, ReportLoads, ReportReadsTests, database
<1>3. ASSUME NEW w \in Workers, Pop(w) \/ PopLost(w) \/ Spawn(w) \/ WorkerCrash(w) PROVE UNCHANGED <<row, events>>
    BY <1>3 DEF Pop, PopLost, Spawn, WorkerCrash, database
<1>4. ASSUME NEW w \in Workers, NEW e \in Execs, Thread(w, e) \/ MarkTimesOut(w, e) PROVE UNCHANGED <<row, events>>
    BY <1>4 DEF Thread, MarkAnswered, Judge, ReportAnswered, Retry, GiveUp, MarkTimesOut, database
<1>5. ASSUME EditProblem \/ RedisLoss \/ UNCHANGED vars \/ \E b \in BOOLEAN : ApiCrash(b) PROVE UNCHANGED <<row, events>>
    BY <1>5 DEF EditProblem, RedisLoss, ApiCrash, vars, database
<1> QED
    BY <1>1, <1>2, <1>3, <1>4, <1>5 DEF Next, Staff, Fault

\* What a step does to a request: it goes on from a stage the handler reached.
LEMMA RequestSteps ==
    ASSUME TypeOK, [Next]_vars, NEW f \in Execs
    PROVE  \/ request'[f] = request[f]
           \/ /\ request[f] = "idle"
              /\ \/ KindOf[f] = "report" /\ request'[f] = "answered"
                 \/ KindOf[f] # "report" /\ request'[f] = "checked"
           \/ request[f] = "checked" /\ request'[f] = "built"
           \/ request[f] = "built" /\ request'[f] = "committed" /\ CommitRow(f)
           \/ request[f] = "committed" /\ request'[f] = "answered"
           \/ request[f] \in {"checked", "built", "committed"} /\ request'[f] = "failed"
<1> request \in [Execs -> {"idle", "checked", "built", "committed", "answered", "failed"}]
    BY DEF TypeOK
<1> DEFINE Goal ==
           \/ request'[f] = request[f]
           \/ /\ request[f] = "idle"
              /\ \/ KindOf[f] = "report" /\ request'[f] = "answered"
                 \/ KindOf[f] # "report" /\ request'[f] = "checked"
           \/ request[f] = "checked" /\ request'[f] = "built"
           \/ request[f] = "built" /\ request'[f] = "committed" /\ CommitRow(f)
           \/ request[f] = "committed" /\ request'[f] = "answered"
           \/ request[f] \in {"checked", "built", "committed"} /\ request'[f] = "failed"
<1>1. ASSUME NEW e \in Execs, SubmitReport(e) \/ CheckPending(e) \/ ReadTests(e) \/ Enqueue(e) \/ EnqueueFails(e) PROVE Goal
    <2>1. e # f => request'[f] = request[f]
        BY <1>1 DEF SubmitReport, CheckPending, ReadTests, Enqueue, EnqueueFails
    <2> QED
        BY <1>1, <2>1 DEF SubmitReport, CheckPending, ReadTests, Enqueue, EnqueueFails
<1>2. ASSUME NEW e \in Execs, CommitRow(e) PROVE Goal
    <2>1. e # f => request'[f] = request[f]
        BY <1>2 DEF CommitRow
    <2>2. e = f => request[f] = "built" /\ request'[f] \in {"committed", "failed"} /\ CommitRow(f)
        BY <1>2 DEF CommitRow
    <2> QED
        BY <2>1, <2>2
<1>3. ASSUME NEW e \in Execs, Handlers(e) PROVE Goal
    BY <1>3 DEF Handlers, MarkLoads, MarkCommits, ReportLoads, ReportReadsTests, ReportCommits
<1>4. ASSUME NEW w \in Workers, Pop(w) \/ PopLost(w) \/ Spawn(w) \/ WorkerCrash(w) PROVE Goal
    BY <1>4 DEF Pop, PopLost, Spawn, WorkerCrash, api
<1>5. ASSUME NEW w \in Workers, NEW e \in Execs, Thread(w, e) \/ MarkTimesOut(w, e) PROVE Goal
    <2>1. UNCHANGED request
        BY <1>5 DEF Thread, MarkAnswered, Judge, ReportAnswered, Retry, GiveUp, MarkTimesOut, api
    <2> QED
        BY <2>1
<1>6. ASSUME EditProblem \/ RedisLoss \/ UNCHANGED vars \/ \E a \in Resettable : ResetAttempt(a) PROVE Goal
    BY <1>6 DEF EditProblem, RedisLoss, ResetAttempt, vars, api
<1>7. ASSUME NEW b \in BOOLEAN, ApiCrash(b) PROVE Goal
    BY <1>7 DEF ApiCrash
<1> QED
    BY <1>1, <1>2, <1>3, <1>4, <1>5, <1>6, <1>7 DEF Next, Client, Staff, Fault

\* A job comes into a worker's hands only over the queue.
LEMMA TravelSteps ==
    ASSUME TypeOK, [Next]_vars, NEW f \in Execs, request[f] # "committed", ~InHand(f), ~OnThread(f)
    PROVE  ~InHand(f)' /\ ~OnThread(f)'
<1> /\ queue \in Seq(Execs)
    /\ holding \in [Workers -> Execs \cup {None}]
    /\ thread \in [Workers -> [Execs -> {"none", "marking", "judging", "reporting"}]]
    BY DEF TypeOK
<1>1. CASE CarryFrame
    BY <1>1 DEF CarryFrame, InHand, OnThread, Queued
<1>2. ASSUME NEW e \in Execs, Enqueue(e) PROVE ~InHand(f)' /\ ~OnThread(f)'
    <2>1. e # f /\ queue' = Append(queue, e) /\ UNCHANGED <<holding, thread>>
        BY <1>2 DEF Enqueue, worker
    <2>2. ~Queued(f)'
        BY <2>1 DEF Queued, InHand
    <2> QED
        BY <2>1, <2>2 DEF InHand, OnThread
<1>3. ASSUME NEW w \in Workers, Pop(w) \/ PopLost(w) PROVE ~InHand(f)' /\ ~OnThread(f)'
    <2>1. /\ queue # <<>> /\ queue' = Tail(queue) /\ UNCHANGED thread
          /\ UNCHANGED holding \/ holding' = [holding EXCEPT ![w] = Head(queue)]
        BY <1>3 DEF Pop, PopLost, Popped, worker
    <2>2. Head(queue) # f /\ ~Queued(f)'
        BY <2>1 DEF Queued, InHand
    <2> QED
        BY <2>1, <2>2 DEF InHand, OnThread
<1>4. ASSUME NEW w \in Workers, Spawn(w) PROVE ~InHand(f)' /\ ~OnThread(f)'
    <2>1. PICK h : h = holding[w]
        OBVIOUS
    <2>2. /\ h # None /\ thread' = [thread EXCEPT ![w][h] = "marking"]
          /\ holding' = [holding EXCEPT ![w] = None]
          /\ UNCHANGED queue
        BY <1>4, <2>1 DEF Spawn
    <2>3. h # f
        BY <2>1 DEF InHand
    <2> QED
        BY <2>2, <2>3, ExecsAssumption DEF InHand, OnThread, Queued
<1>5. CASE RedisLoss
    BY <1>5 DEF RedisLoss, worker, InHand, OnThread, Queued
<1> QED
    BY <1>1, <1>2, <1>3, <1>4, <1>5, CarryFrameSteps

\* The verdict the judge reached changes in one step only.
LEMMA OutcomeSteps ==
    ASSUME TypeOK, [Next]_vars, NEW f \in Execs
    PROVE  outcome'[f] = outcome[f] \/ \E w \in Workers, v \in Outcomes : Judge(w, f, v)
<1> DEFINE Goal == outcome'[f] = outcome[f] \/ \E w \in Workers, v \in Outcomes : Judge(w, f, v)
<1>1. ASSUME NEW e \in Execs, Client(e) \/ EnqueueFails(e) \/ Handlers(e) PROVE Goal
    BY <1>1 DEF Client, SubmitReport, CheckPending, ReadTests, CommitRow, Enqueue, EnqueueFails,
                Handlers, MarkLoads, MarkCommits, ReportLoads, ReportReadsTests, ReportCommits, worker
<1>2. ASSUME NEW w \in Workers, Pop(w) \/ PopLost(w) \/ Spawn(w) \/ WorkerCrash(w) PROVE Goal
    BY <1>2 DEF Pop, PopLost, Spawn, WorkerCrash, worker
<1>3. ASSUME NEW w \in Workers, NEW e \in Execs, Thread(w, e) \/ MarkTimesOut(w, e) PROVE Goal
    <2>1. ASSUME NEW v \in Outcomes, Judge(w, e, v) PROVE Goal
        BY <2>1 DEF Judge, TypeOK
    <2>2. ASSUME MarkAnswered(w, e) \/ ReportAnswered(w, e) \/ Retry(w, e) \/ GiveUp(w, e) \/ MarkTimesOut(w, e)
          PROVE  Goal
        BY <2>2 DEF MarkAnswered, ReportAnswered, Retry, GiveUp, MarkTimesOut
    <2> QED
        BY <1>3, <2>1, <2>2 DEF Thread
<1>4. ASSUME EditProblem \/ RedisLoss \/ UNCHANGED vars \/ (\E a \in Resettable : ResetAttempt(a)) \/ \E b \in BOOLEAN : ApiCrash(b)
      PROVE  Goal
    BY <1>4 DEF EditProblem, RedisLoss, ResetAttempt, ApiCrash, vars, worker
<1> QED
    BY <1>1, <1>2, <1>3, <1>4 DEF Next, Staff, Fault

LEMMA EntryStep == TypeOK /\ EntryInv /\ [Next]_vars => EntryInv'
<1> SUFFICES ASSUME TypeOK, EntryInv, [Next]_vars, NEW f \in Execs
             PROVE  /\ (request'[f] \in {"idle", "checked", "built"} => ~Exists(f)')
                    /\ (~Exists(f)' => row'[f].verdict = "none")
                    /\ (KindOf[f] = "report" =>
                          request'[f] \in {"idle", "answered"} /\ ~InHand(f)' /\ ~OnThread(f)' /\ outcome'[f] = "none")
    BY DEF EntryInv
<1> row \in [Execs -> Rows]
    BY DEF TypeOK
<1>1. /\ (request[f] \in {"idle", "checked", "built"} => ~Exists(f))
      /\ (~Exists(f) => row[f].verdict = "none")
      /\ (KindOf[f] = "report" =>
            request[f] \in {"idle", "answered"} /\ ~InHand(f) /\ ~OnThread(f) /\ outcome[f] = "none")
    BY DEF EntryInv
<1>2. request'[f] \in {"idle", "checked", "built"} => request[f] \in {"idle", "checked", "built"} /\ ~SubmitReport(f) /\ ~CommitRow(f)
    <2>1. SubmitReport(f) \/ CommitRow(f) => request'[f] \in {"answered", "committed", "failed"}
        BY DEF SubmitReport, CommitRow, TypeOK
    <2> QED
        BY <2>1, RequestSteps
<1>3. /\ (request'[f] \in {"idle", "checked", "built"} => ~Exists(f)')
      /\ (~Exists(f)' => row'[f].verdict = "none")
    <2>1. CASE row'[f] = row[f] \/ row'[f] = NoRow
        BY <1>1, <1>2, <2>1 DEF Exists, NoRow
    <2>2. ASSUME NEW e \in Execs, SubmitReport(e) \/ CommitRow(e)
          PROVE  row'[f] = row[f] \/ (e = f /\ Exists(f)')
        BY <2>2 DEF SubmitReport, CommitRow, ReportRow, NewRow, NoRow, Exists
    <2>3. ASSUME NEW e \in Execs, MarkCommits(e)
          PROVE  row'[f] = row[f] \/ (Exists(f) /\ Exists(f)')
        BY <2>3 DEF MarkCommits, Exists, Rows
    <2>4. ASSUME NEW e \in Execs, NEW i \in Tries, ReportCommits(e, i)
          PROVE  row'[f] = row[f] \/ (Exists(f) /\ Exists(f)')
        <3>1. CASE e = f /\ Exists(f)
            <4>1. row'[f].status \in {row[f].status, StatusOf(outcome[f])}
                BY <2>4, <3>1 DEF ReportCommits, Assigned, Write
            <4> QED
                BY <3>1, <4>1 DEF Exists, StatusOf
        <3>2. CASE ~(e = f /\ Exists(f))
            BY <2>4, <3>2 DEF ReportCommits
        <3> QED
            BY <3>1, <3>2
    <2>5. ASSUME NEW a \in Resettable, ResetAttempt(a) PROVE row'[f] = row[f] \/ row'[f] = NoRow
        BY <2>5 DEF ResetAttempt
    <2> QED
        BY <1>1, <1>2, <2>1, <2>2, <2>3, <2>4, <2>5, RowSteps
<1>4. ASSUME KindOf[f] = "report"
      PROVE  request'[f] \in {"idle", "answered"} /\ ~InHand(f)' /\ ~OnThread(f)' /\ outcome'[f] = "none"
    <2>1. request'[f] \in {"idle", "answered"}
        BY <1>1, <1>4, RequestSteps
    <2>2. ~InHand(f)' /\ ~OnThread(f)'
        BY <1>1, <1>4, TravelSteps
    <2>3. outcome'[f] = "none"
        <3>1. \A w \in Workers, v \in Outcomes : ~Judge(w, f, v)
            BY <1>1, <1>4 DEF Judge, OnThread
        <3> QED
            BY <1>1, <1>4, <3>1, OutcomeSteps
    <2> QED
        BY <2>1, <2>2, <2>3
<1> QED
    BY <1>3, <1>4

\* The steps that touch the i-th report of an execution.
LEMMA ReportSteps ==
    ASSUME TypeOK, [Next]_vars, NEW f \in Execs, NEW i \in Tries
    PROVE  \/ reports'[f][i] = reports[f][i]
           \/ \E w \in Workers : Retry(w, f) \/ \E v \in Outcomes : Judge(w, f, v)
           \/ ReportLoads(f, i) \/ ReportReadsTests(f, i) \/ ReportCommits(f, i)
           \/ reports[f][i].at # "idle" /\ reports'[f][i].at = "lost" /\ UNCHANGED row
<1> DEFINE Goal ==
           \/ reports'[f][i] = reports[f][i]
           \/ \E w \in Workers : Retry(w, f) \/ \E v \in Outcomes : Judge(w, f, v)
           \/ ReportLoads(f, i) \/ ReportReadsTests(f, i) \/ ReportCommits(f, i)
           \/ reports[f][i].at # "idle" /\ reports'[f][i].at = "lost" /\ UNCHANGED row
<1> reports \in [Execs -> [Tries -> Reports]]
    BY DEF TypeOK
<1>1. ASSUME UNCHANGED reports PROVE Goal
    BY <1>1
<1>2. ASSUME NEW e \in Execs, NEW j \in Tries, ReportLoads(e, j) \/ ReportReadsTests(e, j) \/ ReportCommits(e, j) PROVE Goal
    <2>1. CASE e = f /\ j = i
        BY <1>2, <2>1
    <2>2. CASE ~(e = f /\ j = i)
        <3>1. PICK r : reports' = [reports EXCEPT ![e][j] = r]
            BY <1>2 DEF ReportLoads, ReportReadsTests, ReportCommits
        <3> QED
            BY <2>2, <3>1
    <2> QED
        BY <2>1, <2>2
<1>3. ASSUME NEW w \in Workers, NEW e \in Execs, Retry(w, e) \/ \E v \in Outcomes : Judge(w, e, v) PROVE Goal
    <2>1. CASE e = f
        BY <1>3, <2>1
    <2>2. CASE e # f
        <3>1. reports'[f] = reports[f]
            BY <1>3, <2>2 DEF Retry, Judge
        <3> QED
            BY <3>1
    <2> QED
        BY <2>1, <2>2
<1>4. ASSUME NEW b \in BOOLEAN, ApiCrash(b) PROVE Goal
    <2>1. \/ reports'[f][i] = reports[f][i]
          \/ reports[f][i].at \in {"sent", "loaded", "weighed", "ok"} /\ reports'[f][i] = [NoReport EXCEPT !.at = "lost"]
        BY <1>4 DEF ApiCrash
    <2>2. UNCHANGED row
        BY <1>4 DEF ApiCrash, database
    <2> QED
        BY <2>1, <2>2 DEF NoReport
<1>5. ASSUME NEW e \in Execs, Client(e) \/ EnqueueFails(e) \/ MarkLoads(e) \/ MarkCommits(e) PROVE Goal
    BY <1>1, <1>5 DEF Client, SubmitReport, CheckPending, ReadTests, CommitRow, Enqueue, EnqueueFails, MarkLoads, MarkCommits
<1>6. ASSUME NEW w \in Workers, Pop(w) \/ PopLost(w) \/ Spawn(w) \/ WorkerCrash(w) PROVE Goal
    BY <1>1, <1>6 DEF Pop, PopLost, Spawn, WorkerCrash, api
<1>7. ASSUME NEW w \in Workers, NEW e \in Execs,
             MarkAnswered(w, e) \/ ReportAnswered(w, e) \/ GiveUp(w, e) \/ MarkTimesOut(w, e)
      PROVE  Goal
    BY <1>1, <1>7 DEF MarkAnswered, ReportAnswered, GiveUp, MarkTimesOut, api
<1>8. ASSUME EditProblem \/ RedisLoss \/ UNCHANGED vars \/ \E a \in Resettable : ResetAttempt(a) PROVE Goal
    BY <1>1, <1>8 DEF EditProblem, RedisLoss, ResetAttempt, vars, api
<1> QED
    BY <1>2, <1>3, <1>4, <1>5, <1>6, <1>7, <1>8 DEF Next, Handlers, Thread, Staff, Fault

\* A thread judges once the one that marked, and posts only while it reports.
LEMMA ThreadSteps ==
    ASSUME TypeOK, [Next]_vars, NEW w \in Workers, NEW f \in Execs
    PROVE  /\ (thread'[w][f] = "judging" => thread[w][f] \in {"marking", "judging"})
           /\ (tries'[f] = tries[f] \/ \E v \in Workers : Retry(v, f) \/ \E o \in Outcomes : Judge(v, f, o))
<1> DEFINE Goal ==
           /\ (thread'[w][f] = "judging" => thread[w][f] \in {"marking", "judging"})
           /\ (tries'[f] = tries[f] \/ \E v \in Workers : Retry(v, f) \/ \E o \in Outcomes : Judge(v, f, o))
<1> /\ thread \in [Workers -> [Execs -> {"none", "marking", "judging", "reporting"}]]
    /\ tries \in [Execs -> 0 .. MaxTries]
    BY DEF TypeOK
<1>1. ASSUME UNCHANGED <<thread, tries>> PROVE Goal
    BY <1>1
<1>2. ASSUME NEW v \in Workers, NEW e \in Execs, MarkAnswered(v, e) \/ MarkTimesOut(v, e) PROVE Goal
    BY <1>2 DEF MarkAnswered, MarkTimesOut
<1>3. ASSUME NEW v \in Workers, NEW e \in Execs, ReportAnswered(v, e) \/ GiveUp(v, e) PROVE Goal
    BY <1>3 DEF ReportAnswered, GiveUp, EndThread
<1>4. ASSUME NEW v \in Workers, NEW e \in Execs, Retry(v, e) PROVE Goal
    BY <1>4 DEF Retry
<1>5. ASSUME NEW v \in Workers, NEW e \in Execs, NEW o \in Outcomes, Judge(v, e, o) PROVE Goal
    BY <1>5 DEF Judge
<1>6. ASSUME NEW v \in Workers, Pop(v) \/ PopLost(v) PROVE Goal
    BY <1>1, <1>6 DEF Pop, PopLost, worker
<1>7. ASSUME NEW v \in Workers, Spawn(v) PROVE Goal
    <2>1. PICK h : h = holding[v]
        OBVIOUS
    <2>2. thread' = [thread EXCEPT ![v][h] = "marking"] /\ UNCHANGED tries
        BY <1>7, <2>1 DEF Spawn
    <2> QED
        BY <2>2
<1>8. ASSUME NEW v \in Workers, WorkerCrash(v) PROVE Goal
    BY <1>8 DEF WorkerCrash
<1>9. ASSUME NEW e \in Execs, Client(e) \/ EnqueueFails(e) \/ Handlers(e) PROVE Goal
    <2>1. UNCHANGED <<thread, tries>>
        BY <1>9 DEF Client, SubmitReport, CheckPending, ReadTests, CommitRow, Enqueue, EnqueueFails,
                    Handlers, MarkLoads, MarkCommits, ReportLoads, ReportReadsTests, ReportCommits, worker
    <2> QED
        BY <1>1, <2>1
<1>10. ASSUME Staff \/ RedisLoss \/ UNCHANGED vars \/ \E b \in BOOLEAN : ApiCrash(b) PROVE Goal
    BY <1>1, <1>10 DEF Staff, EditProblem, RedisLoss, ResetAttempt, ApiCrash, vars, worker
<1> QED
    BY <1>2, <1>3, <1>4, <1>5, <1>6, <1>7, <1>8, <1>9, <1>10 DEF Next, Thread, Fault

LEMMA JudgedStep == JudgeInv /\ JudgedInv /\ [Next]_vars => JudgedInv'
<1> SUFFICES ASSUME JudgeInv, JudgedInv, [Next]_vars, NEW f \in Execs
             PROVE  /\ \A w \in Workers : thread'[w][f] = "judging" => Unreported(f)'
                    /\ (tries'[f] > 0 => outcome'[f] # "none")
                    /\ \A i \in Tries : reports'[f][i].at # "idle" => outcome'[f] # "none"
    BY DEF JudgedInv
<1> /\ TypeOK /\ OneCarrier /\ TravelInv /\ YoungInv /\ PostedInv
    BY DEF JudgeInv
<1> /\ thread \in [Workers -> [Execs -> {"none", "marking", "judging", "reporting"}]]
    /\ reports \in [Execs -> [Tries -> Reports]]
    /\ row \in [Execs -> Rows]
    BY DEF TypeOK
<1>1. ASSUME NEW w \in Workers, NEW v \in Outcomes, Judge(w, f, v) PROVE outcome'[f] # "none"
    BY <1>1, LimitsAssumption DEF Judge, TypeOK, Verdicts
<1>2. ASSUME NEW w \in Workers, Retry(w, f) PROVE outcome[f] # "none"
    BY <1>2, LimitsAssumption DEF Retry, PostedInv, Tries, JudgedInv
<1>3. outcome[f] # "none" => outcome'[f] # "none"
    BY <1>1, OutcomeSteps
<1>4. tries'[f] > 0 => outcome'[f] # "none"
    <2>1. ASSUME NEW w \in Workers PROVE tries'[f] > 0 => outcome'[f] # "none"
        BY <1>1, <1>2, <1>3, ThreadSteps DEF JudgedInv
    <2>2. CASE Workers = {}
        <3>1. tries'[f] = tries[f]
            BY <2>2 DEF Next, Client, SubmitReport, CheckPending, ReadTests, CommitRow, Enqueue, EnqueueFails,
                    Handlers, MarkLoads, MarkCommits, ReportLoads, ReportReadsTests, ReportCommits, worker, vars,
                    Staff, EditProblem, ResetAttempt, Fault, RedisLoss, ApiCrash
        <3> QED
            BY <1>3, <3>1 DEF JudgedInv
    <2> QED
        BY <2>1, <2>2
<1>5. ASSUME NEW i \in Tries, reports'[f][i].at # "idle" PROVE outcome'[f] # "none"
    <2>1. CASE ReportLoads(f, i) \/ ReportReadsTests(f, i) \/ ReportCommits(f, i)
        <3>1. reports[f][i].at # "idle"
            BY <2>1 DEF ReportLoads, ReportReadsTests, ReportCommits
        <3> QED
            BY <1>3, <3>1 DEF JudgedInv
    <2> QED
        BY <1>1, <1>2, <1>3, <1>5, <2>1, ReportSteps DEF JudgedInv
<1>6. ASSUME NEW w \in Workers, thread'[w][f] = "judging" PROVE Unreported(f)'
    <2>1. thread[w][f] \in {"marking", "judging"}
        BY <1>6, ThreadSteps
    <2>2. Unreported(f)
        BY <2>1 DEF YoungInv, Marking, JudgedInv
    <2>3. ~Young(f) /\ \A v \in Workers : thread[v][f] # "none" => v = w
        BY <2>1, OnThreadNotYoung
    <2>4. \A v \in Workers : ~Retry(v, f) /\ \A o \in Outcomes : ~Judge(v, f, o)
        <3>1. ASSUME NEW v \in Workers, Retry(v, f) PROVE FALSE
            BY <2>1, <2>3, <3>1 DEF Retry
        <3>2. ASSUME NEW v \in Workers, NEW o \in Outcomes, Judge(v, f, o) PROVE FALSE
            <4>1. v = w
                BY <2>3, <3>2 DEF Judge
            <4>2. thread'[w][f] = "reporting"
                BY <3>2, <4>1 DEF Judge
            <4> QED
                BY <1>6, <4>2
        <3> QED
            BY <3>1, <3>2
    <2>5. \A i \in Tries : ~ReportLoads(f, i) /\ ~ReportReadsTests(f, i) /\ ~ReportCommits(f, i)
        BY <2>2 DEF Unreported, ReportLoads, ReportReadsTests, ReportCommits
    <2>6. \A i \in Tries : reports'[f][i] = reports[f][i]
        BY <2>2, <2>4, <2>5, ReportSteps DEF Unreported
    <2>7. ~row'[f].finished
        <3>1. CASE UNCHANGED row
            BY <2>2, <3>1 DEF Unreported
        <3>2. ASSUME NEW e \in Execs, SubmitReport(e) \/ CommitRow(e) PROVE ~row'[f].finished
            <4>1. e # f
                BY <2>3, <3>2 DEF Young, SubmitReport, CommitRow
            <4> QED
                BY <2>2, <3>2, <4>1 DEF Unreported, SubmitReport, CommitRow
        <3>3. ASSUME NEW e \in Execs, MarkCommits(e) PROVE ~row'[f].finished
            BY <2>2, <3>3 DEF Unreported, MarkCommits, Rows
        <3>4. ASSUME NEW e \in Execs, NEW i \in Tries, ReportCommits(e, i) PROVE ~row'[f].finished
            <4>1. e # f
                BY <2>5, <3>4
            <4> QED
                BY <2>2, <3>4, <4>1 DEF Unreported, ReportCommits
        <3>5. ASSUME NEW a \in Resettable, ResetAttempt(a) PROVE ~row'[f].finished
            BY <2>2, <3>5 DEF Unreported, ResetAttempt, NoRow
        <3> QED
            BY <3>1, <3>2, <3>3, <3>4, <3>5, RowSteps
    <2> QED
        BY <2>2, <2>6, <2>7 DEF Unreported
<1> QED
    BY <1>4, <1>5, <1>6

\* No execution starts to wait once something of it was reported.
LEMMA WaitingSteps ==
    ASSUME JudgeInv, NoTimeout, [Next]_vars, NEW f \in Execs, ~Unreported(f), Pending(f)' PROVE Pending(f)
<1> /\ TypeOK /\ YoungInv /\ MarkInv /\ RowInv /\ FinalInv
    BY DEF JudgeInv
<1> row \in [Execs -> Rows]
    BY DEF TypeOK
<1>1. CASE UNCHANGED row
    BY <1>1 DEF Pending
<1>2. ASSUME NEW e \in Execs, SubmitReport(e) \/ CommitRow(e) PROVE Pending(f)
    <2>1. e # f
        BY <1>2, YoungRequest DEF SubmitReport, CommitRow
    <2> QED
        BY <1>2, <2>1 DEF SubmitReport, CommitRow, Pending
<1>3. ASSUME NEW e \in Execs, MarkCommits(e) PROVE Pending(f)
    <2>1. e # f
        BY <1>3 DEF MarkCommits, MarkInv
    <2> QED
        BY <1>3, <2>1 DEF MarkCommits, Pending
<1>4. ASSUME NEW e \in Execs, NEW i \in Tries, ReportCommits(e, i) PROVE Pending(f)
    <2>1. (Final(e)' \/ ~Exists(e)') /\ \A g \in Execs : g # e => row'[g] = row[g]
        BY <1>4, FinalReport
    <2> QED
        BY <2>1 DEF Final, Exists, Pending
<1>5. ASSUME NEW a \in Resettable, ResetAttempt(a) PROVE Pending(f)
    BY <1>5 DEF ResetAttempt, Pending, NoRow
<1> QED
    BY <1>1, <1>2, <1>3, <1>4, <1>5, RowSteps

\* What a report that commits writes: the verdict the judge reached, over nothing
\* while the row waits, over itself when the row was decided.
LEMMA VerdictReport ==
    ASSUME JudgeInv, LedgerInv, NoTimeout, [Next]_vars, NEW e \in Execs, NEW i \in Tries,
           ReportCommits(e, i), Exists(e)
    PROVE  /\ Final(e)'
           /\ row'[e].verdict = outcome[e]
           /\ outcome[e] \in Verdicts
           /\ events' = [events EXCEPT ![e] = @ + 1]
           /\ (Final(e) => row[e].verdict = outcome[e])
           /\ Pending(e) \/ Final(e)
<1> /\ TypeOK /\ RowInv /\ FinalInv /\ JudgedInv /\ VerdictInv
    BY DEF JudgeInv, LedgerInv
<1> /\ row \in [Execs -> Rows]
    /\ outcome \in [Execs -> Verdicts \cup {"none"}]
    BY DEF TypeOK
<1>1. reports[e][i].at \in {"loaded", "weighed"}
    BY DEF ReportCommits
<1>2. outcome[e] \in Verdicts
    BY <1>1 DEF JudgedInv
<1>3. Pending(e) \/ Final(e)
    BY DEF Exists, Pending, Final, Rows, Statuses
<1>4. /\ row'[e].verdict = Write(row[e].verdict, reports[e][i].seen.verdict, outcome[e])
      /\ row'[e].status = Write(row[e].status, reports[e][i].seen.status, StatusOf(outcome[e]))
      /\ events' = [events EXCEPT ![e] = @ + 1]
    BY DEF ReportCommits, Assigned
<1>5. Final(e) => row[e].verdict = outcome[e]
    BY DEF VerdictInv
<1>6. row'[e].verdict = outcome[e]
    <2>1. CASE outcome[e] = reports[e][i].seen.verdict
        <3>1. ~Pending(e)
            BY <1>1, <1>2, <2>1 DEF VerdictInv, Verdicts
        <3> QED
            BY <1>3, <1>4, <1>5, <3>1 DEF Write
    <2>2. CASE outcome[e] # reports[e][i].seen.verdict
        BY <1>4, <2>2 DEF Write
    <2> QED
        BY <2>1, <2>2
<1>7. Final(e)'
    <2>1. Exists(e)'
        BY <1>4 DEF Write, StatusOf, Exists
    <2> QED
        BY <2>1, FinalReport
<1> QED
    BY <1>2, <1>3, <1>4, <1>5, <1>6, <1>7

LEMMA VerdictStep == JudgeInv /\ LedgerInv /\ [Next]_vars => VerdictInv'
<1> SUFFICES ASSUME JudgeInv, LedgerInv, [Next]_vars, NoTimeout', NEW f \in Execs
             PROVE  /\ (Pending(f)' => row'[f].verdict = "none")
                    /\ (Final(f)' => row'[f].verdict = outcome'[f])
                    /\ \A i \in Tries :
                          reports'[f][i].at \in {"loaded", "weighed"} /\ reports'[f][i].seen.verdict # "none"
                            => reports'[f][i].seen.verdict = outcome'[f] /\ ~Pending(f)'
    BY DEF VerdictInv
<1> /\ TypeOK /\ YoungInv /\ MarkInv /\ RowInv /\ EntryInv /\ JudgedInv /\ VerdictInv
    BY DEF JudgeInv, LedgerInv
<1> /\ row \in [Execs -> Rows]
    /\ reports \in [Execs -> [Tries -> Reports]]
    BY DEF TypeOK
<1>0. NoTimeout
    BY FaultsGrow
<1>1. /\ (Pending(f) => row[f].verdict = "none")
      /\ (Final(f) => row[f].verdict = outcome[f])
      /\ \A i \in Tries :
            reports[f][i].at \in {"loaded", "weighed"} /\ reports[f][i].seen.verdict # "none"
              => reports[f][i].seen.verdict = outcome[f] /\ ~Pending(f)
    BY <1>0 DEF VerdictInv
<1>2. CASE \E w \in Workers, v \in Outcomes : Judge(w, f, v)
    <2>1. Unreported(f)
        BY <1>2 DEF Judge, JudgedInv
    <2>2. UNCHANGED row /\ \A i \in Tries : reports'[f][i].at \in {"idle", "sent"}
        BY <1>2, <2>1 DEF Judge, database, Unreported
    <2> QED
        BY <1>1, <2>1, <2>2 DEF Unreported, RowInv, Final, Pending
<1>3. CASE ~ \E w \in Workers, v \in Outcomes : Judge(w, f, v)
    <2>0. outcome'[f] = outcome[f]
        BY <1>3, OutcomeSteps
    <2>1. /\ (Pending(f)' => row'[f].verdict = "none")
          /\ (Final(f)' => row'[f].verdict = outcome[f])
        <3>1. CASE row'[f] = row[f]
            BY <1>1, <3>1 DEF Pending, Final
        <3>2. CASE row'[f] = NoRow
            BY <3>2 DEF Pending, Final, NoRow
        <3>3. ASSUME NEW e \in Execs, SubmitReport(e) PROVE row'[f] = row[f] \/ (row'[f] = ReportRow /\ outcome[f] = "none")
            BY <3>3 DEF SubmitReport, EntryInv
        <3>4. ASSUME NEW e \in Execs, CommitRow(e) PROVE row'[f] = row[f] \/ row'[f] = NewRow
            BY <3>4 DEF CommitRow
        <3>5. ASSUME NEW e \in Execs, MarkCommits(e)
              PROVE  \/ row'[f] = row[f]
                     \/ Pending(f) /\ row'[f] = [row[f] EXCEPT !.status = "running"]
            <4>1. Exists(e) => Pending(e)
                <5>1. ~row[e].finished
                    BY <1>0, <3>5 DEF MarkCommits, MarkInv, Unreported
                <5> QED
                    BY <5>1 DEF RowInv, Final, Pending, Exists, Rows, Statuses
            <4> QED
                BY <3>5, <4>1 DEF MarkCommits
        <3>6. ASSUME NEW e \in Execs, NEW i \in Tries, ReportCommits(e, i)
              PROVE  row'[f] = row[f] \/ (Final(f)' /\ row'[f].verdict = outcome[f])
            <4>1. CASE e = f /\ Exists(f)
                BY <1>0, <3>6, <4>1, VerdictReport
            <4>2. CASE ~(e = f /\ Exists(f))
                BY <3>6, <4>2 DEF ReportCommits
            <4> QED
                BY <4>1, <4>2
        <3>7. ASSUME NEW a \in Resettable, ResetAttempt(a) PROVE row'[f] = row[f] \/ row'[f] = NoRow
            BY <3>7 DEF ResetAttempt
        <3>8. ASSUME row'[f] = ReportRow /\ outcome[f] = "none"
              PROVE  (Pending(f)' => row'[f].verdict = "none") /\ (Final(f)' => row'[f].verdict = outcome[f])
            BY <3>8 DEF ReportRow, NoRow, Pending
        <3>9. ASSUME row'[f] = NewRow
              PROVE  (Pending(f)' => row'[f].verdict = "none") /\ (Final(f)' => row'[f].verdict = outcome[f])
            BY <3>9 DEF NewRow, NoRow, Final
        <3>10. ASSUME Pending(f), row'[f] = [row[f] EXCEPT !.status = "running"]
               PROVE  (Pending(f)' => row'[f].verdict = "none") /\ (Final(f)' => row'[f].verdict = outcome[f])
            BY <1>1, <3>10 DEF Final, Rows
        <3>11. ASSUME Final(f)' /\ row'[f].verdict = outcome[f]
               PROVE  (Pending(f)' => row'[f].verdict = "none") /\ (Final(f)' => row'[f].verdict = outcome[f])
            BY <3>11 DEF Final, Pending
        <3> QED
            BY <3>1, <3>2, <3>3, <3>4, <3>5, <3>6, <3>7, <3>8, <3>9, <3>10, <3>11, RowSteps
    <2>2. ASSUME NEW i \in Tries, reports'[f][i].at \in {"loaded", "weighed"}, reports'[f][i].seen.verdict # "none"
          PROVE  reports'[f][i].seen.verdict = outcome[f] /\ ~Pending(f)'
        <3>1. ASSUME reports[f][i].at \in {"loaded", "weighed"}, reports'[f][i].seen = reports[f][i].seen
              PROVE  reports'[f][i].seen.verdict = outcome[f] /\ ~Pending(f)'
            BY <1>0, <1>1, <2>2, <3>1, WaitingSteps DEF Unreported
        <3>2. CASE reports'[f][i] = reports[f][i]
            BY <2>2, <3>1, <3>2
        <3>3. CASE ReportReadsTests(f, i)
            BY <3>1, <3>3 DEF ReportReadsTests, Reports
        <3>4. CASE ReportLoads(f, i)
            <4>0. Exists(f)
                BY <2>2, <3>4 DEF ReportLoads, Reports
            <4>1. Exists(f) /\ reports'[f][i].seen = row[f] /\ UNCHANGED row
                <5>1. reports[f][i] \in Reports /\ reports'[f][i] = [reports[f][i] EXCEPT !.at = "loaded", !.seen = row[f]]
                    BY <3>4, <4>0 DEF ReportLoads
                <5>2. reports'[f][i].seen = row[f]
                    BY <5>1 DEF Reports
                <5> QED
                    BY <3>4, <4>0, <5>2 DEF ReportLoads, database
            <4>2. ~Pending(f) /\ Final(f)
                BY <1>1, <2>2, <4>1 DEF Pending, Final, Exists, Rows, Statuses
            <4> QED
                BY <1>1, <4>1, <4>2 DEF Pending
        <3>5. ~ReportCommits(f, i)
            BY <2>2 DEF ReportCommits, NoReport
        <3>6. ASSUME NEW w \in Workers, Retry(w, f) PROVE reports'[f][i] = reports[f][i]
            <4>1. reports' = [reports EXCEPT ![f][tries[f] + 1].at = "sent"]
                BY <3>6 DEF Retry
            <4> QED
                BY <2>2, <4>1 DEF Reports
        <3> QED
            BY <1>3, <2>2, <3>2, <3>3, <3>4, <3>5, <3>6, ReportSteps
    <2> QED
        BY <2>0, <2>1, <2>2
<1> QED
    BY <1>2, <1>3

LEMMA LedgerStep == JudgeInv /\ LedgerInv /\ [Next]_vars => LedgerInv'
BY EntryStep, JudgedStep, VerdictStep DEF LedgerInv, JudgeInv

LEMMA LedgerStart == Init => LedgerInv
<1> SUFFICES ASSUME Init PROVE LedgerInv
    OBVIOUS
<1>1. \A e \in Execs : ~Pending(e) /\ ~Final(e) /\ ~Exists(e) /\ row[e].verdict = "none"
    BY DEF Init, NoRow, Pending, Final, Exists
<1>2. \A e \in Execs, i \in Tries : reports[e][i].at = "idle"
    BY DEF Init, NoReport
<1>3. EntryInv
    BY <1>1, ExecsAssumption DEF Init, EntryInv, InHand, OnThread, Queued
<1>4. JudgedInv /\ VerdictInv
    BY <1>1, <1>2 DEF Init, JudgedInv, VerdictInv
<1> QED
    BY <1>3, <1>4 DEF LedgerInv

\* Where a job, its row and its verdict are at every stage, whatever crashes.
THEOREM VerdictsKeep == Spec => []LedgerInv
BY LedgerStart, LedgerStep, JudgeInvariant, PTL DEF Spec

----------------------------------------------------------------------------
(* The pipeline implements ExecutionLedger *)

LEMMA LedgerFrame ==
    ASSUME \A e \in Execs : StageOf(e)' = StageOf(e) /\ row'[e].verdict = row[e].verdict, UNCHANGED events
    PROVE  UNCHANGED Ledger!ledger
BY DEF Ledger!ledger

LEMMA LedgerRefines ==
    ASSUME JudgeInv, LedgerInv, NoTimeout, [Next]_vars
    PROVE  [Ledger!LedgerNext]_(Ledger!ledger)
<1> /\ TypeOK /\ RowInv /\ FinalInv /\ MarkInv /\ EntryInv
    BY DEF JudgeInv, LedgerInv
<1> /\ row \in [Execs -> Rows]
    /\ events \in [Execs -> Nat]
    BY DEF TypeOK
<1>1. CASE UNCHANGED <<row, events>>
    BY <1>1, LedgerFrame DEF StageOf, Final, Pending
<1>2. ASSUME NEW e \in Execs, SubmitReport(e) PROVE Ledger!Record(e)
    <2>1. row' = [row EXCEPT ![e] = ReportRow] /\ UNCHANGED events
        BY <1>2 DEF SubmitReport
    <2>2. ~Exists(e) /\ row[e].verdict = "none"
        BY <1>2 DEF SubmitReport, EntryInv
    <2>3. StageOf(e) = "absent"
        BY <2>2 DEF StageOf, Final, Pending, Exists
    <2>4. \A f \in Execs : /\ StageOf(f)' = IF f = e THEN "decided" ELSE StageOf(f)
                           /\ row'[f].verdict = row[f].verdict
        BY <2>1, <2>2 DEF StageOf, Final, Pending, ReportRow, NoRow
    <2> QED
        BY <2>1, <2>3, <2>4 DEF Ledger!Record
<1>3. ASSUME NEW e \in Execs, CommitRow(e) PROVE Ledger!Request(e) \/ UNCHANGED Ledger!ledger
    <2>1. CASE UNCHANGED row
        BY <1>3, <2>1, LedgerFrame DEF CommitRow, StageOf, Final, Pending
    <2>2. CASE row' = [row EXCEPT ![e] = NewRow] /\ UNCHANGED events /\ request[e] = "built"
        <3>1. ~Exists(e) /\ row[e].verdict = "none"
            BY <2>2 DEF EntryInv
        <3>2. StageOf(e) = "absent"
            BY <3>1 DEF StageOf, Final, Pending, Exists
        <3>3. \A f \in Execs : /\ StageOf(f)' = IF f = e THEN "pending" ELSE StageOf(f)
                               /\ row'[f].verdict = row[f].verdict
            BY <2>2, <3>1 DEF StageOf, Final, Pending, NewRow, NoRow
        <3> QED
            BY <2>2, <3>2, <3>3 DEF Ledger!Request
    <2> QED
        BY <1>3, <2>1, <2>2 DEF CommitRow
<1>4. ASSUME NEW e \in Execs, MarkCommits(e) PROVE UNCHANGED Ledger!ledger
    <2>1. ~row[e].finished
        BY <1>4 DEF MarkCommits, MarkInv, Unreported
    <2>2. Exists(e) => Pending(e) /\ ~Final(e)
        BY <2>1 DEF RowInv, Final, Pending, Exists, Rows, Statuses
    <2>3. UNCHANGED row \/ (Exists(e) /\ row' = [row EXCEPT ![e].status = "running"])
        BY <1>4 DEF MarkCommits
    <2>4. \A f \in Execs : StageOf(f)' = StageOf(f) /\ row'[f].verdict = row[f].verdict
        BY <2>2, <2>3 DEF StageOf, Final, Pending, Rows
    <2> QED
        BY <1>4, <2>4, LedgerFrame DEF MarkCommits
<1>5. ASSUME NEW e \in Execs, NEW i \in Tries, ReportCommits(e, i)
      PROVE  \/ \E v \in Verdicts : Ledger!Decide(e, v)
             \/ Ledger!Redeliver(e)
             \/ UNCHANGED Ledger!ledger
    <2>1. CASE ~Exists(e)
        BY <1>5, <2>1, LedgerFrame DEF ReportCommits, StageOf, Final, Pending
    <2>2. CASE Exists(e)
        <3>1. /\ Final(e)' /\ row'[e].verdict = outcome[e] /\ outcome[e] \in Verdicts
              /\ events' = [events EXCEPT ![e] = @ + 1]
              /\ (Final(e) => row[e].verdict = outcome[e])
              /\ Pending(e) \/ Final(e)
            BY <1>5, <2>2, VerdictReport
        <3>2. \A f \in Execs : f # e => row'[f] = row[f]
            BY <1>5, FinalReport
        <3>3. \A f \in Execs : f # e => StageOf(f)' = StageOf(f) /\ row'[f].verdict = row[f].verdict
            BY <3>2 DEF StageOf, Final, Pending
        <3>4. StageOf(e)' = "decided"
            BY <3>1 DEF StageOf
        <3>5. CASE Final(e)
            <4>1. StageOf(e) = "decided"
                BY <3>5 DEF StageOf
            <4> QED
                BY <3>1, <3>3, <3>4, <3>5, <4>1 DEF Ledger!Redeliver
        <3>6. CASE ~Final(e)
            <4>1. StageOf(e) = "pending"
                BY <3>1, <3>6 DEF StageOf
            <4> QED
                BY <3>1, <3>3, <3>4, <4>1 DEF Ledger!Decide
        <3> QED
            BY <3>5, <3>6
    <2> QED
        BY <2>1, <2>2
<1>6. ASSUME NEW a \in Resettable, ResetAttempt(a) PROVE Ledger!Remove(a)
    <2>1. /\ row' = [e \in Execs |-> IF AttemptOf[e] = a THEN NoRow ELSE row[e]]
          /\ events' = [e \in Execs |-> IF AttemptOf[e] = a THEN 0 ELSE events[e]]
        BY <1>6 DEF ResetAttempt
    <2>2. \A e \in Execs :
             /\ StageOf(e)' = IF AttemptOf[e] = a THEN "absent" ELSE StageOf(e)
             /\ row'[e].verdict = IF AttemptOf[e] = a THEN "none" ELSE row[e].verdict
        BY <2>1 DEF StageOf, Final, Pending, NoRow
    <2> QED
        BY <2>1, <2>2 DEF Ledger!Remove
<1>7. \A a \in Resettable : a \in Attempts
    BY LimitsAssumption
<1> QED
    BY <1>1, <1>2, <1>3, <1>4, <1>5, <1>6, <1>7, RowSteps DEF Ledger!LedgerNext

\* As long as no request times out, an execution is requested once and decided
\* once, and neither crashes, retries, edits nor a lost queue change a decision.
THEOREM PipelineKeepsLedger == Spec /\ []NoTimeout => ImplementsLedger
<1>1. Init => Ledger!LedgerInit
    BY DEF Init, Ledger!LedgerInit, StageOf, Final, Pending, NoRow
<1> QED
    BY <1>1, LedgerRefines, JudgeInvariant, VerdictsKeep, PTL
    DEF Spec, ImplementsLedger, Ledger!LedgerSpec
=============================================================================
