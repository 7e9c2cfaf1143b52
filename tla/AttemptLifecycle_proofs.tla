----------------------- MODULE AttemptLifecycle_proofs -----------------------
(***************************************************************************)
(* Proofs about AttemptLifecycle, for any number of attempts and requests  *)
(* and any times: its types, what overlapping requests cannot break, and    *)
(* that it implements AttemptGate.                                          *)
(***************************************************************************)
EXTENDS AttemptLifecycle, FiniteSetTheorems, TLAPS

----------------------------------------------------------------------------
(* Types *)

LEMMA DeadlineType ==
    ASSUME NEW now \in Nat
    PROVE  /\ Deadline(now) \in Nat
           /\ Deadline(now) <= EndsAt
           /\ now <= EndsAt => now <= Deadline(now)
BY TimesAssumption DEF Deadline, LesserOf

LEMMA StartedType == ASSUME NEW now \in Nat PROVE Started(now) \in Row
BY DeadlineType DEF Started, Row, Exists, Closed

\* What the commits make of a row, and how much of it they leave alone.
LEMMA UpdateTypes ==
    ASSUME row \in [Attempts -> Row], NEW a \in Attempts, NEW now \in Nat
    PROVE  /\ Expired(a) \in Row /\ Submitted(a, now) \in Row /\ OldMarked(a) \in Row
           /\ Expired(a).status = "expired" /\ Submitted(a, now).status = "submitted"
           /\ OldMarked(a).status = row[a].status
           /\ Expired(a).superseded = row[a].superseded /\ Submitted(a, now).superseded = row[a].superseded
<1> row[a] \in Row
    OBVIOUS
<1> QED
    BY DEF Expired, Submitted, OldMarked, Row, Exists, Closed

\* What the commit of a retake does to the rows and the logs.
Replaces(r, a, b) ==
    /\ a # b
    /\ row[b].status = "unborn"
    /\ row' \in [Attempts -> Row] /\ log' \in [Attempts -> Seq(EventTypes)]
    /\ row'[a] = OldMarked(a) /\ log'[a] = log[a]
    /\ row'[b] = Started(req[r].now) /\ log'[b] = <<"attempt_started">>
    /\ \A c \in Attempts \ {a, b} : row'[c] = row[c] /\ log'[c] = log[c]

LEMMA ReplaceEffect ==
    ASSUME TypeOK, NEW r \in Requests, Replace(r), NEW a \in Attempts, a = req[r].att, row[a].status \in Exists
    PROVE  \E b \in Attempts : Replaces(r, a, b)
<1> row \in [Attempts -> Row] /\ log \in [Attempts -> Seq(EventTypes)] /\ req[r].now \in Nat
    BY DEF TypeOK
<1>0. row[a].status # "deleted" /\ row[a].status # "unborn"
    BY DEF Exists, Closed
<1>1. PICK b \in Attempts :
        /\ row[b].status = "unborn"
        /\ row' = [row EXCEPT ![a] = OldMarked(a), ![b] = Started(req[r].now)]
        /\ log' = [log EXCEPT ![b] = <<"attempt_started">>]
    BY <1>0 DEF Replace
<1>2. OldMarked(a) \in Row /\ Started(req[r].now) \in Row
    BY StartedType, UpdateTypes
<1>3. a # b
    BY <1>0, <1>1
<1>4. row' \in [Attempts -> Row] /\ row'[a] = OldMarked(a) /\ row'[b] = Started(req[r].now)
      /\ \A c \in Attempts \ {a, b} : row'[c] = row[c]
    BY <1>1, <1>2, <1>3
<1>5. <<"attempt_started">> \in Seq(EventTypes)
    BY DEF EventTypes
<1>6. log' \in [Attempts -> Seq(EventTypes)] /\ log'[b] = <<"attempt_started">>
      /\ \A c \in Attempts \ {b} : log'[c] = log[c]
    BY <1>1, <1>5
<1> QED
    BY <1>1, <1>3, <1>4, <1>6 DEF Replaces

\* Entering a point with an attempt that exists, or leaving, keeps the type of req.
LEMMA EnterType ==
    ASSUME TypeOK, NEW r \in Requests, NEW p \in Points, NEW a \in Attempts, NEW now \in Nat,
           row[a].status # "unborn", Enter(r, p, a, now), UNCHANGED <<row, log>>, clock' = clock,
           raced' \in BOOLEAN
    PROVE  TypeOK'
BY DEF TypeOK, Enter

LEMMA LeaveType ==
    ASSUME TypeOK, NEW r \in Requests, Leave(r), clock' = clock, raced' \in BOOLEAN,
           row' \in [Attempts -> Row], log' \in [Attempts -> Seq(EventTypes)],
           \A a \in Attempts : row[a].status # "unborn" => row'[a].status # "unborn"
    PROVE  TypeOK'
BY DEF TypeOK, Leave, Idle, Points

LEMMA TypeStep == TypeOK /\ [Next]_vars => TypeOK'
<1> SUFFICES ASSUME TypeOK, [Next]_vars PROVE TypeOK'
    OBVIOUS
<1> clock \in Nat /\ raced \in BOOLEAN /\ row \in [Attempts -> Row] /\ log \in [Attempts -> Seq(EventTypes)]
    BY DEF TypeOK
<1> req \in [Requests -> [at : Points, att : Attempts \cup {None}, now : Nat]]
    BY DEF TypeOK
<1>1. ASSUME NEW r \in Requests, Start(r) PROVE TypeOK'
    BY <1>1 DEF Start, Enter, TypeOK, Points
<1>2. ASSUME NEW r \in Requests, Select(r) PROVE TypeOK'
    <2>1. CASE Live = {} /\ req' = [req EXCEPT ![r].at = "create"] /\ NoteRace(r)
        BY <1>2, <2>1 DEF Select, NoteRace, TypeOK, Points, Creating
    <2>2. ASSUME NEW a \in Live, IF Overdue(a) THEN Enter(r, "expire", a, 0) ELSE Leave(r), UNCHANGED raced
          PROVE  TypeOK'
        <3>1. a \in Attempts /\ row[a].status # "unborn"
            BY DEF Live, Exists, Closed
        <3>2. CASE Overdue(a)
            BY <1>2, <2>2, <3>1, <3>2, EnterType DEF Select, Points
        <3>3. CASE ~Overdue(a)
            BY <1>2, <2>2, <3>1, <3>3, LeaveType DEF Select
        <3> QED
            BY <3>2, <3>3
    <2> QED
        BY <1>2, <2>1, <2>2 DEF Select
<1>3. ASSUME NEW r \in Requests, Create(r) PROVE TypeOK'
    <2>1. PICK b \in Attempts : /\ row' = [row EXCEPT ![b] = Started(req[r].now)]
                                /\ log' = [log EXCEPT ![b] = <<"attempt_started">>]
        BY <1>3 DEF Create
    <2>2. Started(req[r].now) \in Row /\ Started(req[r].now).status = "in_progress"
        BY StartedType DEF Started
    <2>3. row' \in [Attempts -> Row] /\ log' \in [Attempts -> Seq(EventTypes)]
        BY <2>1, <2>2 DEF EventTypes
    <2>4. \A a \in Attempts : row[a].status # "unborn" => row'[a].status # "unborn"
        BY <2>1, <2>2
    <2> QED
        BY <1>3, <2>3, <2>4, LeaveType DEF Create
<1>4. ASSUME NEW r \in Requests, Load(r) PROVE TypeOK'
    <2>1. PICK a \in Attempts : \/ LoadOverdue(r, a) \/ LoadToFinish(r, a) \/ LoadToPost(r, a)
                                \/ LoadToRenew(r, a) \/ LoadToRetake(r, a)
        BY <1>4 DEF Load
    <2>2. PICK p \in Points, now \in Nat : Enter(r, p, a, now)
        BY <2>1 DEF LoadOverdue, LoadToFinish, LoadToPost, LoadToRenew, LoadToRetake, Points
    <2>3. row[a].status # "unborn" /\ UNCHANGED <<row, log>> /\ clock' = clock /\ raced' \in BOOLEAN
        BY <2>1 DEF LoadOverdue, LoadToFinish, LoadToPost, LoadToRenew, LoadToRetake, Overdue, Retakable,
                    Closed, NoteRace, Creating
    <2> QED
        BY <2>2, <2>3, EnterType
<1>5. ASSUME NEW r \in Requests, Expire(r) PROVE TypeOK'
    <2> DEFINE a == req[r].att
    <2> a \in Attempts
        BY <1>5 DEF Expire, TypeOK
    <2>1. CASE row[a].status = "deleted" /\ Leave(r) /\ UNCHANGED <<row, log>>
        BY <1>5, <2>1, LeaveType DEF Expire
    <2>2. CASE row[a].status \in Exists /\ row' = [row EXCEPT ![a] = Expired(a)]
               /\ log' = [log EXCEPT ![a] = Append(@, "attempt_expired")]
        <3>1. Expired(a) \in Row /\ Expired(a).status = "expired"
            BY UpdateTypes
        <3>2. row' \in [Attempts -> Row] /\ log' \in [Attempts -> Seq(EventTypes)]
            BY <2>2, <3>1 DEF EventTypes, EndEvents
        <3>3. \A b \in Attempts : row[b].status # "unborn" => row'[b].status # "unborn"
            BY <2>2, <3>1
        <3>4. CASE Leave(r)
            BY <1>5, <3>2, <3>3, <3>4, LeaveType DEF Expire
        <3>5. CASE Enter(r, "assess", a, 0)
            BY <1>5, <3>2, <3>3, <3>5 DEF Expire, Enter, TypeOK, Points
        <3> QED
            BY <1>5, <2>2, <3>4, <3>5 DEF Expire, Exists, Closed
    <2> QED
        BY <1>5, <2>1, <2>2 DEF Expire
<1>6. ASSUME NEW r \in Requests, Finish(r) PROVE TypeOK'
    <2> DEFINE a == req[r].att
    <2> a \in Attempts
        BY <1>6 DEF Finish, TypeOK
    <2>1. row' \in [Attempts -> Row] /\ log' \in [Attempts -> Seq(EventTypes)]
        <3>1. Submitted(a, req[r].now) \in Row
            BY <1>6, UpdateTypes DEF TypeOK
        <3>2. EndTold(a) \in Seq(EventTypes)
            BY DEF EndTold, EventTypes, EndEvents
        <3> QED
            BY <1>6, <3>1, <3>2 DEF Finish
    <2>2. \A b \in Attempts : row[b].status # "unborn" => row'[b].status # "unborn"
        <3>1. Submitted(a, req[r].now).status = "submitted"
            BY <1>6, UpdateTypes DEF TypeOK
        <3> QED
            BY <1>6, <3>1 DEF Finish
    <2> QED
        BY <1>6, <2>1, <2>2, LeaveType DEF Finish
<1>7. ASSUME NEW r \in Requests, Post(r) PROVE TypeOK'
    <2> req[r].att \in Attempts
        BY <1>7 DEF Post, TypeOK
    <2>1. Append(log[req[r].att], "activity") \in Seq(EventTypes)
        BY DEF EventTypes
    <2>2. log' \in [Attempts -> Seq(EventTypes)]
        BY <1>7, <2>1 DEF Post
    <2> QED
        BY <1>7, <2>2, LeaveType DEF Post
<1>8. ASSUME NEW r \in Requests, Assess(r) PROVE TypeOK'
    BY <1>8 DEF Assess, Enter, TypeOK, Points
<1>9. ASSUME NEW r \in Requests, Replace(r) PROVE TypeOK'
    <2> DEFINE a == req[r].att
    <2> a \in Attempts
        BY <1>9 DEF Replace, TypeOK
    <2>1. CASE row[a].status = "deleted" /\ UNCHANGED <<row, log>>
        BY <1>9, <2>1, LeaveType DEF Replace
    <2>2. CASE row[a].status \in Exists
        <3>1. PICK b \in Attempts : Replaces(r, a, b)
            BY <1>9, <2>2, ReplaceEffect
        <3>2. \A c \in Attempts : row[c].status # "unborn" => row'[c].status # "unborn"
            <4>1. OldMarked(a).status = row[a].status /\ Started(req[r].now).status = "in_progress"
                BY UpdateTypes DEF Started, TypeOK
            <4>2. row'[a].status = row[a].status /\ row'[b].status = "in_progress"
                BY <3>1, <4>1 DEF Replaces
            <4> QED
                BY <3>1, <4>2 DEF Replaces
        <3> QED
            BY <1>9, <3>1, <3>2, LeaveType DEF Replace, Replaces
    <2> QED
        BY <1>9, <2>1, <2>2 DEF Replace
<1>10. ASSUME NEW a \in Attempts, Reset(a) PROVE TypeOK'
    BY <1>10 DEF Reset, TypeOK, NoRow, Row
<1>11. CASE Tick
    BY <1>11 DEF Tick, TypeOK
<1>12. CASE ApiRestart
    BY <1>12 DEF ApiRestart, TypeOK, Idle, Points
<1>13. CASE UNCHANGED vars
    BY <1>13 DEF vars, TypeOK
<1> QED
    BY <1>1, <1>2, <1>3, <1>4, <1>5, <1>6, <1>7, <1>8, <1>9, <1>10, <1>11, <1>12, <1>13 DEF Next, Serve

\* The variables of an attempt's life keep their types.
THEOREM TypeCorrect == Spec => []TypeOK
<1>1. Init => TypeOK
    <2> SUFFICES ASSUME Init PROVE TypeOK
        OBVIOUS
    <2>1. NoRow("unborn") \in Row
        BY DEF NoRow, Row
    <2>2. Idle \in [at : Points, att : Attempts \cup {None}, now : Nat] /\ Idle.at = "idle"
        BY DEF Idle, Points
    <2>3. <<>> \in Seq(EventTypes)
        OBVIOUS
    <2>4. \A r \in Requests : req[r].at = "idle"
        BY <2>2 DEF Init
    <2> QED
        BY <2>1, <2>2, <2>3, <2>4 DEF Init, TypeOK
<1> QED
    BY <1>1, TypeStep, PTL DEF Spec

----------------------------------------------------------------------------
(* What a step does to one attempt *)

Keeps(c)   == row'[c] = row[c] /\ log'[c] = log[c]
Opens(c)   == /\ row[c].status = "unborn"
              /\ log'[c] = <<"attempt_started">>
              /\ \E r \in Requests : req[r].at \in {"create", "replace"} /\ row'[c] = Started(req[r].now)
Deletes(c) == row[c].status \in Exists /\ row'[c] = NoRow("deleted") /\ log'[c] = <<>>
\* The commits of the requests that hold c.
Posts(r, c)    == req[r].at = "post" /\ row'[c] = row[c] /\ log'[c] = Append(log[c], "activity")
Expires(r, c)  == req[r].at \in {"expire", "renew"} /\ row'[c] = Expired(c)
                  /\ log'[c] = Append(log[c], "attempt_expired")
Submits(r, c)  == req[r].at = "finish" /\ row'[c] = Submitted(c, req[r].now)
                  /\ log'[c] = Append(log[c], "attempt_finished")
Retires(r, c)  == req[r].at = "replace" /\ row'[c] = OldMarked(c) /\ log'[c] = log[c]
                  /\ \E b \in Attempts : Opens(b)
Commits(r, c) ==
    /\ req[r].att = c /\ row[c].status \in Exists
    /\ req'[r].at \in {"idle", "assess"}
    /\ Posts(r, c) \/ Expires(r, c) \/ Submits(r, c) \/ Retires(r, c)

LEMMA Moves ==
    ASSUME TypeOK, [Next]_vars, NEW c \in Attempts
    PROVE  Keeps(c) \/ Opens(c) \/ Deletes(c) \/ \E r \in Requests : Commits(r, c)
<1> row \in [Attempts -> Row] /\ log \in [Attempts -> Seq(EventTypes)]
    BY DEF TypeOK
<1>0. ASSUME NEW r \in Requests, Leave(r) \/ Enter(r, "assess", req[r].att, 0) PROVE req'[r].at \in {"idle", "assess"}
    BY <1>0 DEF Leave, Enter, Idle, TypeOK
<1>1. CASE UNCHANGED <<row, log>>
    BY <1>1 DEF Keeps
<1>2. ASSUME NEW r \in Requests, Create(r) PROVE Keeps(c) \/ Opens(c)
    <2>1. PICK b \in Attempts : /\ row[b].status = "unborn"
                                /\ row' = [row EXCEPT ![b] = Started(req[r].now)]
                                /\ log' = [log EXCEPT ![b] = <<"attempt_started">>]
        BY <1>2 DEF Create
    <2> QED
        BY <1>2, <2>1 DEF Create, Keeps, Opens
<1>3. ASSUME NEW r \in Requests, Expire(r), ~UNCHANGED <<row, log>> PROVE Keeps(c) \/ Commits(r, c)
    <2>1. row[req[r].att].status \in Exists /\ req[r].at \in {"expire", "renew"}
          /\ row' = [row EXCEPT ![req[r].att] = Expired(req[r].att)]
          /\ log' = [log EXCEPT ![req[r].att] = Append(log[req[r].att], "attempt_expired")]
        BY <1>3 DEF Expire
    <2> QED
        BY <1>0, <1>3, <2>1 DEF Expire, Keeps, Commits, Expires
<1>4. ASSUME NEW r \in Requests, Finish(r), ~UNCHANGED <<row, log>> PROVE Keeps(c) \/ Commits(r, c)
    <2>1. row[req[r].att].status \in Exists /\ req[r].at = "finish"
          /\ row' = [row EXCEPT ![req[r].att] = Submitted(req[r].att, req[r].now)]
          /\ log' = [log EXCEPT ![req[r].att] = Append(log[req[r].att], "attempt_finished")]
        BY <1>4 DEF Finish, EndTold
    <2> QED
        BY <1>0, <1>4, <2>1 DEF Finish, Keeps, Commits, Submits
<1>5. ASSUME NEW r \in Requests, Post(r), ~UNCHANGED <<row, log>> PROVE Keeps(c) \/ Commits(r, c)
    <2>1. row[req[r].att].status \in Exists /\ req[r].at = "post" /\ row' = row
          /\ log' = [log EXCEPT ![req[r].att] = Append(log[req[r].att], "activity")]
        BY <1>5 DEF Post
    <2> QED
        BY <1>0, <1>5, <2>1 DEF Post, Keeps, Commits, Posts
<1>6. ASSUME NEW r \in Requests, Replace(r), ~UNCHANGED <<row, log>>
      PROVE  Keeps(c) \/ Opens(c) \/ Commits(r, c)
    <2> DEFINE a == req[r].att
    <2>1. row[a].status \in Exists /\ req[r].at = "replace" /\ a \in Attempts
        BY <1>6 DEF Replace, TypeOK
    <2>2. PICK b \in Attempts : Replaces(r, a, b)
        BY <1>6, <2>1, ReplaceEffect
    <2>3. Opens(b)
        BY <2>1, <2>2 DEF Replaces, Opens
    <2>4. CASE c = a
        BY <1>0, <1>6, <2>1, <2>2, <2>3, <2>4 DEF Replace, Replaces, Commits, Retires
    <2>5. CASE c \notin {a, b}
        BY <2>2, <2>5 DEF Replaces, Keeps
    <2> QED
        BY <2>3, <2>4, <2>5
<1>7. ASSUME NEW a \in Attempts, Reset(a) PROVE Keeps(c) \/ Deletes(c)
    BY <1>7 DEF Reset, Keeps, Deletes
<1>8. ASSUME NEW r \in Requests, Start(r) \/ Select(r) \/ Load(r) \/ Assess(r) PROVE UNCHANGED <<row, log>>
    BY <1>8 DEF Start, Select, Load, Assess, LoadOverdue, LoadToFinish, LoadToPost, LoadToRenew, LoadToRetake
<1>9. Tick \/ ApiRestart \/ UNCHANGED vars => UNCHANGED <<row, log>>
    BY DEF Tick, ApiRestart, vars
<1> QED
    BY <1>1, <1>2, <1>3, <1>4, <1>5, <1>6, <1>7, <1>8, <1>9 DEF Next, Serve

----------------------------------------------------------------------------
(* What a step does to one request *)

\* A request that has loaded c and will append to its log.
Holds(r, c) == req[r].att = c /\ req[r].at \in {"expire", "renew", "finish", "post"}

\* The points a request reaches and what it has seen there.
Stays(q)   == req'[q] = req[q] \/ req'[q] = Idle
Begins(q)  == clock <= EndsAt /\ req'[q] = [at |-> "select", att |-> None, now |-> clock]
Decides(q) == req[q].at = "select" /\ Live = {} /\ req'[q] = [req[q] EXCEPT !.at = "create"]
Loads(q)   == \E a \in Attempts :
    \/ Overdue(a) /\ req[q].at \in {"idle", "select"} /\ req'[q] = [at |-> "expire", att |-> a, now |-> 0]
    \/ Overdue(a) /\ ~row[a].superseded /\ req'[q] = [at |-> "renew", att |-> a, now |-> 0]
    \/ row[a].status = "in_progress" /\ ~Overdue(a) /\ req'[q] = [at |-> "finish", att |-> a, now |-> clock]
    \/ row[a].status = "in_progress" /\ req'[q] = [at |-> "post", att |-> a, now |-> 0]
    \/ row[a].status \in Closed /\ ~row[a].superseded /\ req'[q] = [at |-> "assess", att |-> a, now |-> 0]
Renews(q) == req[q].at = "renew" /\ row'[req[q].att] = Expired(req[q].att)
             /\ req'[q] = [at |-> "assess", att |-> req[q].att, now |-> 0]
Dates(q)  == req[q].at = "assess" /\ UNCHANGED row
             /\ req'[q] = [at |-> "replace", att |-> req[q].att, now |-> clock]

LEMMA RequestMoves ==
    ASSUME TypeOK, [Next]_vars, NEW q \in Requests
    PROVE  \/ Stays(q)
           \/ (Begins(q) \/ Decides(q) \/ Loads(q)) /\ UNCHANGED <<row, log, clock>>
           \/ Renews(q) /\ clock' = clock
           \/ Dates(q) /\ clock' = clock
<1> req \in [Requests -> [at : Points, att : Attempts \cup {None}, now : Nat]]
    BY DEF TypeOK
<1>1. ASSUME UNCHANGED req PROVE Stays(q)
    BY <1>1 DEF Stays
<1>2. ASSUME NEW r \in Requests, Leave(r) PROVE Stays(q)
    BY <1>2 DEF Leave, Stays
<1>3. ASSUME NEW r \in Requests, Start(r) PROVE (Begins(q) \/ Stays(q)) /\ UNCHANGED <<row, log, clock>>
    BY <1>3 DEF Start, Enter, Begins, Stays
<1>4. ASSUME NEW r \in Requests, Select(r)
      PROVE  (Decides(q) \/ Loads(q) \/ Stays(q)) /\ UNCHANGED <<row, log, clock>>
    <2>1. CASE Live = {} /\ req' = [req EXCEPT ![r].at = "create"]
        BY <1>4, <2>1 DEF Select, Decides, Stays
    <2>2. ASSUME NEW a \in Live, Overdue(a), Enter(r, "expire", a, 0)
          PROVE  Loads(q) \/ Stays(q)
        <3>1. a \in Attempts /\ req[r].at = "select"
            BY <1>4 DEF Live, Select
        <3> QED
            BY <2>2, <3>1 DEF Enter, Loads, Stays
    <2> QED
        BY <1>2, <1>4, <2>1, <2>2 DEF Select
<1>5. ASSUME NEW r \in Requests, Load(r) PROVE (Loads(q) \/ Stays(q)) /\ UNCHANGED <<row, log, clock>>
    <2>1. PICK a \in Attempts : \/ LoadOverdue(r, a) \/ LoadToFinish(r, a) \/ LoadToPost(r, a)
                                \/ LoadToRenew(r, a) \/ LoadToRetake(r, a)
        BY <1>5 DEF Load
    <2>2. UNCHANGED <<row, log, clock>>
        BY <2>1 DEF LoadOverdue, LoadToFinish, LoadToPost, LoadToRenew, LoadToRetake
    <2>3. CASE q # r
        BY <2>1, <2>3 DEF LoadOverdue, LoadToFinish, LoadToPost, LoadToRenew, LoadToRetake, Enter, Stays
    <2>4. CASE q = r
        <3>1. Loads(q)
            BY <2>1, <2>4 DEF LoadOverdue, LoadToFinish, LoadToPost, LoadToRenew, LoadToRetake, Enter,
                              Retakable, Loads
        <3> QED
            BY <2>2, <3>1
    <2> QED
        BY <2>2, <2>3, <2>4
<1>6. ASSUME NEW r \in Requests, Expire(r), ~Leave(r) PROVE (Renews(q) \/ Stays(q)) /\ clock' = clock
    <2>1. /\ req[r].at = "renew" /\ Enter(r, "assess", req[r].att, 0)
          /\ row' = [row EXCEPT ![req[r].att] = Expired(req[r].att)] /\ clock' = clock
        BY <1>6 DEF Expire
    <2>2. req[r].att \in Attempts /\ row \in [Attempts -> Row]
        BY <2>1 DEF TypeOK
    <2> QED
        BY <2>1, <2>2 DEF Enter, Renews, Stays
<1>7. ASSUME NEW r \in Requests, Assess(r) PROVE (Dates(q) \/ Stays(q)) /\ clock' = clock
    BY <1>7 DEF Assess, Enter, Dates, Stays
<1>8. CASE ApiRestart
    BY <1>8 DEF ApiRestart, Stays
<1>9. ASSUME NEW r \in Requests, Create(r) \/ Finish(r) \/ Post(r) \/ Replace(r) PROVE Leave(r)
    BY <1>9 DEF Create, Finish, Post, Replace
<1>10. (\E a \in Attempts : Reset(a)) \/ Tick \/ UNCHANGED vars => UNCHANGED req
    BY DEF Reset, Tick, vars
<1> QED
    BY <1>1, <1>2, <1>3, <1>4, <1>5, <1>6, <1>7, <1>8, <1>9, <1>10 DEF Next, Serve

----------------------------------------------------------------------------
(* A retake supersedes closed attempts only *)

\* Closed stays closed, until the row is deleted.
Shut(a) == row[a].status \in Closed \cup {"deleted"}

LEMMA ShutStays ==
    ASSUME TypeOK, [Next]_vars, NEW c \in Attempts, Shut(c)
    PROVE  Shut(c)'
<1> row \in [Attempts -> Row] /\ req \in [Requests -> [at : Points, att : Attempts \cup {None}, now : Nat]]
    BY DEF TypeOK
<1>1. CASE Keeps(c)
    BY <1>1 DEF Keeps, Shut
<1>2. CASE Opens(c)
    BY <1>2 DEF Opens, Shut, Closed
<1>3. CASE Deletes(c)
    BY <1>3 DEF Deletes, Shut, NoRow
<1>4. ASSUME NEW r \in Requests, Commits(r, c) PROVE Shut(c)'
    <2>1. req[r].now \in Nat
        OBVIOUS
    <2>2. row'[c] \in {row[c], Expired(c), Submitted(c, req[r].now), OldMarked(c)}
        BY <1>4 DEF Commits, Posts, Expires, Submits, Retires
    <2>3. row'[c].status \in {row[c].status, "expired", "submitted"}
        BY <2>1, <2>2, UpdateTypes
    <2> QED
        BY <2>3 DEF Shut, Closed
<1> QED
    BY Moves, <1>1, <1>2, <1>3, <1>4

\* The attempt a retake is about to replace is shut: it was seen closed.
AssessedIsShut == \A r \in Requests : req[r].at \in {"assess", "replace"} => Shut(req[r].att)

LEMMA SupersededStep ==
    TypeOK /\ AssessedIsShut /\ SupersededIsClosed /\ [Next]_vars => AssessedIsShut' /\ SupersededIsClosed'
<1> SUFFICES ASSUME TypeOK, AssessedIsShut, SupersededIsClosed, [Next]_vars
             PROVE  AssessedIsShut' /\ SupersededIsClosed'
    OBVIOUS
<1> row \in [Attempts -> Row] /\ req \in [Requests -> [at : Points, att : Attempts \cup {None}, now : Nat]]
    BY DEF TypeOK
<1> \A r \in Requests : req[r].at \in {"assess", "replace", "renew"} => req[r].att \in Attempts
    BY DEF TypeOK
<1>1. ASSUME NEW q \in Requests, req'[q].at \in {"assess", "replace"}
      PROVE  row'[req'[q].att].status \in Closed \cup {"deleted"}
    <2>1. CASE Stays(q)
        <3>1. req'[q] = req[q] /\ req[q].at \in {"assess", "replace"}
            BY <1>1, <2>1 DEF Stays, Idle
        <3> QED
            BY <3>1, ShutStays DEF AssessedIsShut, Shut
    <2>2. CASE (Begins(q) \/ Decides(q) \/ Loads(q)) /\ UNCHANGED <<row, log, clock>>
        <3>1. Loads(q)
            BY <1>1, <2>2 DEF Begins, Decides
        <3>2. PICK a \in Attempts : row[a].status \in Closed /\ req'[q] = [at |-> "assess", att |-> a, now |-> 0]
            BY <1>1, <3>1 DEF Loads
        <3> QED
            BY <2>2, <3>2 DEF Shut
    <2>3. CASE Renews(q)
        <3>1. req[q].att \in Attempts /\ row'[req[q].att].status = "expired" /\ req'[q].att = req[q].att
            BY <2>3, UpdateTypes DEF Renews
        <3> QED
            BY <3>1 DEF Shut, Closed
    <2>4. CASE Dates(q)
        BY <2>4 DEF Dates, AssessedIsShut, Shut
    <2> QED
        BY <2>1, <2>2, <2>3, <2>4, RequestMoves
<1>2. ASSUME NEW c \in Attempts, row'[c].superseded PROVE row'[c].status \in Closed
    <2>1. CASE Keeps(c)
        BY <1>2, <2>1 DEF Keeps, SupersededIsClosed
    <2>2. CASE Opens(c) \/ Deletes(c)
        <3>1. CASE Deletes(c)
            BY <1>2, <3>1 DEF Deletes, NoRow
        <3>2. CASE Opens(c)
            <4>1. PICK r \in Requests : row'[c] = Started(req[r].now)
                BY <3>2 DEF Opens
            <4>2. ~Started(req[r].now).superseded
                BY DEF Started
            <4> QED
                BY <1>2, <4>1, <4>2
        <3> QED
            BY <2>2, <3>1, <3>2
    <2>3. ASSUME NEW r \in Requests, Commits(r, c) PROVE row'[c].status \in Closed
        <3> req[r].now \in Nat
            OBVIOUS
        <3>1. CASE Posts(r, c)
            BY <1>2, <3>1 DEF Posts, SupersededIsClosed
        <3>2. CASE Expires(r, c)
            BY <3>2, UpdateTypes DEF Expires, Closed
        <3>3. CASE Submits(r, c)
            BY <3>3, UpdateTypes DEF Submits, Closed
        <3>4. CASE Retires(r, c)
            <4>1. Shut(c) /\ row[c].status \in Exists
                BY <2>3, <3>4 DEF Commits, Retires, AssessedIsShut
            <4>2. row'[c].status = row[c].status
                BY <3>4, UpdateTypes DEF Retires
            <4> QED
                BY <4>1, <4>2 DEF Shut, Closed, Exists
        <3> QED
            BY <2>3, <3>1, <3>2, <3>3, <3>4 DEF Commits
    <2> QED
        BY <2>1, <2>2, <2>3, Moves
<1>3. AssessedIsShut'
    BY <1>1 DEF AssessedIsShut, Shut
<1> QED
    BY <1>2, <1>3 DEF SupersededIsClosed

\* A retake supersedes closed attempts only, whatever runs beside it.
THEOREM RetakesCloseFirst == Spec => []SupersededIsClosed
<1>1. Init => AssessedIsShut /\ SupersededIsClosed
    BY DEF Init, AssessedIsShut, SupersededIsClosed, Idle, NoRow
<1> QED
    BY <1>1, SupersededStep, TypeCorrect, PTL DEF Spec

----------------------------------------------------------------------------
(* The timeline ends on the status *)

LEMMA AppendEnds ==
    ASSUME NEW s \in Seq(EventTypes), NEW e \in EventTypes
    PROVE  /\ Append(s, e) \in Seq(EventTypes)
           /\ Len(Append(s, e)) = Len(s) + 1
           /\ \A i \in DOMAIN Append(s, e) : i \in DOMAIN s \/ i = Len(s) + 1
           /\ \A i \in DOMAIN s : i \in DOMAIN Append(s, e) /\ i <= Len(s) /\ Append(s, e)[i] = s[i]
           /\ Len(s) + 1 \in DOMAIN Append(s, e) /\ Append(s, e)[Len(s) + 1] = e
OBVIOUS

\* The positions of the ends after a commit.
LEMMA CommitEnds ==
    ASSUME TypeOK, NEW r \in Requests, NEW c \in Attempts, Commits(r, c)
    PROVE  /\ Posts(r, c) \/ Retires(r, c) => Ends(c)' = Ends(c)
           /\ Expires(r, c) \/ Submits(r, c) => Ends(c)' = Ends(c) \cup {Len(log[c]) + 1}
           /\ Len(log[c]) \in Nat /\ \A i \in Ends(c) : i \in Nat /\ i <= Len(log[c]) /\ log'[c][i] = log[c][i]
           /\ Expires(r, c) => log'[c][Len(log[c]) + 1] = "attempt_expired"
           /\ Submits(r, c) => log'[c][Len(log[c]) + 1] = "attempt_finished"
<1> log[c] \in Seq(EventTypes)
    BY DEF TypeOK
<1> {"activity", "attempt_expired", "attempt_finished"} \subseteq EventTypes /\ "activity" \notin EndEvents
    /\ "attempt_expired" \in EndEvents /\ "attempt_finished" \in EndEvents
    BY DEF EventTypes, EndEvents
<1>1. CASE Retires(r, c)
    BY <1>1 DEF Retires, Expires, Submits, Ends
<1>2. CASE Posts(r, c)
    <2>1. log'[c] = Append(log[c], "activity") /\ req[r].at = "post"
        BY <1>2 DEF Posts
    <2> QED
        BY <2>1, AppendEnds DEF Expires, Submits, Ends
<1>3. CASE Expires(r, c)
    <2>1. log'[c] = Append(log[c], "attempt_expired") /\ req[r].at \in {"expire", "renew"}
        BY <1>3 DEF Expires
    <2> QED
        BY <2>1, AppendEnds DEF Posts, Retires, Submits, Ends
<1>4. CASE Submits(r, c)
    <2>1. log'[c] = Append(log[c], "attempt_finished") /\ req[r].at = "finish"
        BY <1>4 DEF Submits
    <2> QED
        BY <2>1, AppendEnds DEF Posts, Retires, Expires, Ends
<1> QED
    BY <1>1, <1>2, <1>3, <1>4 DEF Commits

LEMMA LogStep == TypeOK /\ LogTellsEnd /\ [Next]_vars => LogTellsEnd'
<1> SUFFICES ASSUME TypeOK, LogTellsEnd, [Next]_vars, NEW c \in Attempts
             PROVE  /\ row'[c].status = "in_progress" => Ends(c)' = {}
                    /\ row'[c].status \in Closed =>
                         \E i \in Ends(c)' : /\ \A j \in Ends(c)' : j <= i
                                             /\ log'[c][i] = EndEvent(row'[c].status)
    BY DEF LogTellsEnd
<1> row \in [Attempts -> Row] /\ req \in [Requests -> [at : Points, att : Attempts \cup {None}, now : Nat]]
    BY DEF TypeOK
<1>1. CASE Keeps(c)
    BY <1>1 DEF Keeps, LogTellsEnd, Ends
<1>2. CASE Opens(c)
    <2>1. row'[c].status = "in_progress" /\ log'[c] = <<"attempt_started">>
        BY <1>2 DEF Opens, Started
    <2> QED
        BY <2>1 DEF Ends, EndEvents, Closed
<1>3. CASE Deletes(c)
    BY <1>3 DEF Deletes, NoRow, Closed
<1>4. ASSUME NEW r \in Requests, Commits(r, c)
      PROVE  /\ row'[c].status = "in_progress" => Ends(c)' = {}
             /\ row'[c].status \in Closed =>
                  \E i \in Ends(c)' : /\ \A j \in Ends(c)' : j <= i
                                      /\ log'[c][i] = EndEvent(row'[c].status)
    <2> req[r].now \in Nat
        OBVIOUS
    <2>1. CASE Posts(r, c) \/ Retires(r, c)
        <3>1. row'[c].status = row[c].status
            BY <2>1, UpdateTypes DEF Posts, Retires
        <3>2. Ends(c)' = Ends(c) /\ \A i \in Ends(c) : log'[c][i] = log[c][i]
            BY <1>4, <2>1, CommitEnds
        <3> QED
            BY <3>1, <3>2 DEF LogTellsEnd
    <2>2. CASE Expires(r, c) \/ Submits(r, c)
        <3> DEFINE n == Len(log[c]) + 1
        <3>1. n \in Ends(c)' /\ \A j \in Ends(c)' : j <= n
            BY <1>4, <2>2, CommitEnds
        <3>2. row'[c].status \in Closed /\ log'[c][n] = EndEvent(row'[c].status)
            BY <1>4, <2>2, CommitEnds, UpdateTypes DEF Expires, Submits, Closed, EndEvent
        <3>3. row'[c].status # "in_progress"
            BY <3>2 DEF Closed
        <3> HIDE DEF n
        <3> QED
            BY <3>1, <3>2, <3>3
    <2> QED
        BY <1>4, <2>1, <2>2 DEF Commits
<1> QED
    BY <1>1, <1>2, <1>3, <1>4, Moves

\* The status of an attempt and the end of its timeline agree, whatever overlaps.
THEOREM TimelineTellsEnd == Spec => []LogTellsEnd
<1>1. Init => LogTellsEnd
    BY DEF Init, LogTellsEnd, NoRow, Closed, Ends
<1> QED
    BY <1>1, LogStep, TypeCorrect, PTL DEF Spec

----------------------------------------------------------------------------
(* When an attempt ends *)

\* The rows keep the deadline they were inserted with, and the times the requests
\* carry come from the clock.
RowTimes == \A a \in Attempts :
    row[a].status \in Exists => row[a].started <= clock /\ row[a].deadline = Deadline(row[a].started)
RequestTimes == \A r \in Requests :
    /\ req[r].at \in {"select", "create", "replace"} => req[r].now <= clock
    /\ req[r].at = "finish" /\ row[req[r].att].status \in Exists =>
         /\ row[req[r].att].started <= req[r].now
         /\ req[r].now <= row[req[r].att].deadline + Grace

LEMMA ClockMoves == ASSUME TypeOK, [Next]_vars PROVE clock' \in Nat /\ clock <= clock'
<1> clock \in Nat /\ TimesAssumption
    BY TimesAssumption DEF TypeOK
<1>1. CASE Tick
    BY <1>1 DEF Tick
<1>2. CASE clock' = clock
    BY <1>2
<1>3. ASSUME NEW r \in Requests, Serve(r) PROVE clock' = clock
    BY <1>3 DEF Serve, Start, Select, Create, Load, LoadOverdue, LoadToFinish, LoadToPost, LoadToRenew,
                LoadToRetake, Expire, Finish, Post, Assess, Replace
<1> QED
    BY <1>1, <1>2, <1>3 DEF Next, Reset, ApiRestart, vars

LEMMA UpdateTimes ==
    ASSUME row \in [Attempts -> Row], NEW a \in Attempts, NEW now \in Nat
    PROVE  /\ Expired(a).started = row[a].started /\ Expired(a).deadline = row[a].deadline
           /\ Submitted(a, now).started = row[a].started /\ Submitted(a, now).deadline = row[a].deadline
           /\ OldMarked(a).started = row[a].started /\ OldMarked(a).deadline = row[a].deadline
           /\ Expired(a).ended = row[a].deadline
           /\ Submitted(a, now).ended = now
           /\ OldMarked(a).ended = row[a].ended
           /\ row[a].started \in Nat /\ row[a].deadline \in Nat /\ row[a].ended \in Nat
<1> row[a] \in Row
    OBVIOUS
<1> QED
    BY DEF Expired, Submitted, OldMarked, Row

\* A row that exists keeps its start and its deadline, or is deleted.
LEMMA TimesStay ==
    ASSUME TypeOK, [Next]_vars, NEW c \in Attempts, row[c].status # "unborn", row'[c].status \in Exists
    PROVE  /\ row[c].status \in Exists
           /\ row'[c].started = row[c].started /\ row'[c].deadline = row[c].deadline
<1> row \in [Attempts -> Row] /\ req \in [Requests -> [at : Points, att : Attempts \cup {None}, now : Nat]]
    BY DEF TypeOK
<1>1. CASE Keeps(c)
    BY <1>1 DEF Keeps
<1>2. ASSUME NEW r \in Requests, Commits(r, c)
      PROVE  row'[c].started = row[c].started /\ row'[c].deadline = row[c].deadline
    <2>1. req[r].now \in Nat
        OBVIOUS
    <2>2. row'[c] \in {row[c], Expired(c), Submitted(c, req[r].now), OldMarked(c)}
        BY <1>2 DEF Commits, Posts, Expires, Submits, Retires
    <2> QED
        BY <2>1, <2>2, UpdateTimes
<1>3. ~Opens(c)
    BY DEF Opens
<1>4. ~Deletes(c)
    BY DEF Deletes, NoRow, Exists, Closed
<1> QED
    BY <1>1, <1>2, <1>3, <1>4, Moves DEF Commits

\* Where a request that moves arrives, and with which time.
LEMMA Arrives ==
    ASSUME TypeOK, NEW q \in Requests
    PROVE  /\ Stays(q) => req'[q] = req[q] \/ (req'[q].at = "idle" /\ req'[q].now = 0)
           /\ Begins(q) => req'[q].at = "select" /\ req'[q].now = clock
           /\ Decides(q) => req'[q].at = "create" /\ req'[q].now = req[q].now
           /\ Loads(q) => req'[q].at \in {"expire", "renew", "finish", "post", "assess"}
                          /\ req'[q].now \in {0, clock}
           /\ Renews(q) => req'[q].at = "assess" /\ req'[q].now = 0
           /\ Dates(q) => req'[q].at = "replace" /\ req'[q].now = clock
<1> req[q] \in [at : Points, att : Attempts \cup {None}, now : Nat]
    BY DEF TypeOK
<1>1. Loads(q) => req'[q].at \in {"expire", "renew", "finish", "post", "assess"} /\ req'[q].now \in {0, clock}
    <2> SUFFICES ASSUME Loads(q)
                 PROVE  req'[q].at \in {"expire", "renew", "finish", "post", "assess"} /\ req'[q].now \in {0, clock}
        OBVIOUS
    <2>1. PICK a \in Attempts, p \in {"expire", "renew", "finish", "post", "assess"}, now \in {0, clock} :
            req'[q] = [at |-> p, att |-> a, now |-> now]
        BY DEF Loads
    <2> QED
        BY <2>1
<1>2. Stays(q) => req'[q] = req[q] \/ (req'[q].at = "idle" /\ req'[q].now = 0)
    BY DEF Stays, Idle
<1>3. Decides(q) => req'[q].at = "create" /\ req'[q].now = req[q].now
    BY DEF Decides
<1>4. /\ Begins(q) => req'[q].at = "select" /\ req'[q].now = clock
      /\ Renews(q) => req'[q].at = "assess" /\ req'[q].now = 0
      /\ Dates(q) => req'[q].at = "replace" /\ req'[q].now = clock
    BY DEF Begins, Renews, Dates
<1> QED
    BY <1>1, <1>2, <1>3, <1>4

LEMMA TimesStep == TypeOK /\ RowTimes /\ RequestTimes /\ [Next]_vars => RowTimes' /\ RequestTimes'
<1> SUFFICES ASSUME TypeOK, RowTimes, RequestTimes, [Next]_vars PROVE RowTimes' /\ RequestTimes'
    OBVIOUS
<1> row \in [Attempts -> Row] /\ req \in [Requests -> [at : Points, att : Attempts \cup {None}, now : Nat]]
    /\ clock \in Nat
    BY DEF TypeOK
<1>0. clock' \in Nat /\ clock <= clock'
    BY ClockMoves
<1>1. ASSUME NEW c \in Attempts, row'[c].status \in Exists
      PROVE  row'[c].started <= clock' /\ row'[c].deadline = Deadline(row'[c].started)
    <2>1. CASE row[c].status # "unborn"
        <3>1. row[c].started \in Nat
            BY UpdateTimes
        <3> QED
            BY <1>0, <1>1, <2>1, <3>1, TimesStay DEF RowTimes
    <2>2. CASE row[c].status = "unborn"
        <3>1. Opens(c)
            BY <1>1, <2>2, Moves DEF Keeps, Deletes, Commits, Exists, Closed
        <3>2. PICK r \in Requests : req[r].at \in {"create", "replace"} /\ row'[c] = Started(req[r].now)
            BY <3>1 DEF Opens
        <3>3. req[r].now <= clock /\ req[r].now \in Nat
            BY <3>2 DEF RequestTimes
        <3>4. row'[c].started = req[r].now /\ row'[c].deadline = Deadline(req[r].now)
            BY <3>2 DEF Started
        <3> QED
            BY <1>0, <3>3, <3>4
    <2> QED
        BY <2>1, <2>2
<1>2. ASSUME NEW q \in Requests, req'[q].at \in {"select", "create", "replace"} PROVE req'[q].now <= clock'
    <2>1. req'[q].now \in {clock, 0} \/ req'[q] = req[q] \/ Decides(q)
        BY <1>2, RequestMoves, Arrives
    <2>2. Decides(q) => req[q].at = "select" /\ req'[q].now = req[q].now
        BY DEF Decides
    <2>3. req[q].now \in Nat
        OBVIOUS
    <2> QED
        BY <1>0, <1>2, <2>1, <2>2, <2>3 DEF RequestTimes
<1>3. ASSUME NEW q \in Requests, req'[q].at = "finish", row'[req'[q].att].status \in Exists
      PROVE  row'[req'[q].att].started <= req'[q].now /\ req'[q].now <= row'[req'[q].att].deadline + Grace
    <2>1. CASE req'[q] = req[q]
        <3>1. req[q].att \in Attempts /\ row[req[q].att].status # "unborn"
            BY <1>3, <2>1 DEF TypeOK
        <3> QED
            BY <1>3, <2>1, <3>1, TimesStay DEF RequestTimes
    <2>2. CASE Loads(q) /\ UNCHANGED row
        <3>1. PICK a \in Attempts : /\ row[a].status = "in_progress" /\ ~Overdue(a)
                                    /\ req'[q] = [at |-> "finish", att |-> a, now |-> clock]
            BY <1>3, <2>2 DEF Loads
        <3>2. row[a].started \in Nat /\ row[a].deadline \in Nat /\ Grace \in Nat
            BY UpdateTimes, TimesAssumption
        <3>3. row[a].started <= clock /\ clock <= row[a].deadline + Grace
            BY <3>1, <3>2 DEF Overdue, RowTimes, Exists
        <3> QED
            BY <2>2, <3>1, <3>3
    <2> QED
        BY <1>3, <2>1, <2>2, RequestMoves, Arrives
<1> QED
    BY <1>1, <1>2, <1>3 DEF RowTimes, RequestTimes

LEMMA ClosedStep ==
    TypeOK /\ RowTimes /\ RequestTimes /\ ClosedInTime /\ [Next]_vars => ClosedInTime'
<1> SUFFICES ASSUME TypeOK, RowTimes, RequestTimes, ClosedInTime, [Next]_vars, NEW c \in Attempts,
                    row'[c].status \in Closed
             PROVE  /\ row'[c].ended <= row'[c].deadline + Grace
                    /\ row'[c].started <= EndsAt => row'[c].started <= row'[c].ended
    BY DEF ClosedInTime
<1> row \in [Attempts -> Row] /\ req \in [Requests -> [at : Points, att : Attempts \cup {None}, now : Nat]]
    BY DEF TypeOK
<1> /\ row[c].started \in Nat /\ row[c].deadline \in Nat /\ row[c].ended \in Nat
    /\ Grace \in Nat /\ EndsAt \in Nat
    BY UpdateTimes, TimesAssumption
<1>1. CASE Keeps(c)
    BY <1>1 DEF Keeps, ClosedInTime
<1>2. ~Opens(c) /\ ~Deletes(c)
    <2>1. Opens(c) => row'[c].status = "in_progress"
        BY DEF Opens, Started
    <2>2. Deletes(c) => row'[c].status = "deleted"
        BY DEF Deletes, NoRow
    <2> QED
        BY <2>1, <2>2 DEF Closed
<1>3. ASSUME NEW r \in Requests, Commits(r, c)
      PROVE  /\ row'[c].ended <= row'[c].deadline + Grace
             /\ row'[c].started <= EndsAt => row'[c].started <= row'[c].ended
    <2>1. req[r].now \in Nat /\ row[c].status \in Exists /\ req[r].att = c
        BY <1>3 DEF Commits
    <2>2. CASE Posts(r, c)
        BY <2>2 DEF Posts, ClosedInTime
    <2>3. CASE Retires(r, c)
        <3>1. row'[c].status = row[c].status /\ row'[c].ended = row[c].ended
              /\ row'[c].started = row[c].started /\ row'[c].deadline = row[c].deadline
            BY <2>3, UpdateTypes, UpdateTimes DEF Retires
        <3> QED
            BY <3>1 DEF ClosedInTime
    <2>4. CASE Expires(r, c)
        <3>1. row'[c].ended = row[c].deadline /\ row'[c].started = row[c].started /\ row'[c].deadline = row[c].deadline
            BY <2>4, UpdateTimes DEF Expires
        <3>2. row[c].started <= EndsAt => row[c].started <= row[c].deadline
            BY <2>1, DeadlineType DEF RowTimes
        <3> QED
            BY <3>1, <3>2
    <2>5. CASE Submits(r, c)
        <3>1. row'[c].ended = req[r].now /\ row'[c].started = row[c].started /\ row'[c].deadline = row[c].deadline
            BY <2>1, <2>5, UpdateTimes DEF Submits
        <3>2. row[c].started <= req[r].now /\ req[r].now <= row[c].deadline + Grace
            BY <2>1, <2>5 DEF RequestTimes, Submits
        <3> QED
            BY <3>1, <3>2
    <2> QED
        BY <1>3, <2>2, <2>3, <2>4, <2>5 DEF Commits
<1> QED
    BY <1>1, <1>2, <1>3, Moves

\* An attempt ends no later than the grace period allows and, but for late retakes,
\* no earlier than it starts.
THEOREM EndsInTime == Spec => []ClosedInTime
<1>1. Init => RowTimes /\ RequestTimes /\ ClosedInTime
    BY DEF Init, RowTimes, RequestTimes, ClosedInTime, Idle, NoRow, Exists, Closed
<1> QED
    BY <1>1, TimesStep, ClosedStep, TypeCorrect, PTL DEF Spec

----------------------------------------------------------------------------
(* One live attempt, and always one *)

LEMMA OpensLive == ASSUME TypeOK, NEW b \in Attempts, Opens(b) PROVE b \in Live'
<1>1. row'[b].status = "in_progress" /\ ~row'[b].superseded
    BY DEF Opens, Started
<1> QED
    BY <1>1 DEF Live, Exists

\* Only an opened attempt joins the live ones, only a retired or deleted one leaves.
LEMMA LiveMoves ==
    ASSUME TypeOK, [Next]_vars, NEW c \in Attempts
    PROVE  /\ c \in Live' => c \in Live \/ Opens(c)
           /\ c \in Live => c \in Live' \/ row'[c].status = "deleted" \/ \E b \in Attempts : Opens(b)
<1> row \in [Attempts -> Row] /\ req \in [Requests -> [at : Points, att : Attempts \cup {None}, now : Nat]]
    BY DEF TypeOK
<1>1. CASE Keeps(c)
    BY <1>1 DEF Keeps, Live
<1>2. CASE Opens(c)
    BY <1>2
<1>3. CASE Deletes(c)
    BY <1>3 DEF Deletes, NoRow, Live, Exists, Closed
<1>4. ASSUME NEW r \in Requests, Commits(r, c)
      PROVE  /\ c \in Live' => c \in Live
             /\ c \in Live => c \in Live' \/ \E b \in Attempts : Opens(b)
    <2> req[r].now \in Nat /\ row[c].status \in Exists /\ row[c] \in Row
        BY <1>4 DEF Commits
    <2>1. CASE Posts(r, c)
        BY <2>1 DEF Posts, Live
    <2>2. CASE Expires(r, c) \/ Submits(r, c)
        <3>1. row'[c].status \in Exists /\ row'[c].superseded = row[c].superseded
            BY <2>2, UpdateTypes DEF Expires, Submits, Exists, Closed
        <3> QED
            BY <3>1 DEF Live
    <2>3. CASE Retires(r, c)
        <3>1. row'[c].superseded
            BY <2>3 DEF Retires, OldMarked, Row
        <3> QED
            BY <2>3, <3>1 DEF Retires, Live
    <2> QED
        BY <1>4, <2>1, <2>2, <2>3 DEF Commits
<1> QED
    BY <1>1, <1>2, <1>3, <1>4, Moves

LEMMA HeadStep == TypeOK /\ HistoryHasHead /\ [Next]_vars => HistoryHasHead'
<1> SUFFICES ASSUME TypeOK, HistoryHasHead, [Next]_vars, NEW x \in Attempts, row'[x].status \in Exists,
                    \A a \in Attempts : row'[a].status # "deleted"
             PROVE  Live' # {}
    BY DEF HistoryHasHead
<1>1. CASE \E b \in Attempts : Opens(b)
    BY <1>1, OpensLive
<1>2. CASE ~\E b \in Attempts : Opens(b)
    <2>1. row[x].status \in Exists
        BY <1>2, Moves DEF Keeps, Deletes, NoRow, Commits, Exists, Closed
    <2>2. ASSUME NEW a \in Attempts PROVE row[a].status # "deleted"
        BY <1>2, Moves DEF Keeps, Deletes, Commits, Exists, Closed
    <2>3. PICK l \in Live : TRUE
        BY <2>1, <2>2 DEF HistoryHasHead
    <2> QED
        BY <1>2, <2>3, LiveMoves DEF Live
<1> QED
    BY <1>1, <1>2

\* A retake replaces in one commit: no user loses the head of a history to it.
THEOREM RetakesLeaveAHead == Spec => []HistoryHasHead
<1>1. Init => HistoryHasHead
    BY DEF Init, HistoryHasHead, NoRow, Exists, Closed
<1> QED
    BY <1>1, HeadStep, TypeCorrect, PTL DEF Spec

\* Until two requests decide at once: there is one live attempt, one request at a
\* time is about to create another, and it has seen all there is.
OneCreator == \A o, p \in Requests : Creating(o) /\ Creating(p) => o = p
CreatorSees == \A r \in Requests :
    /\ req[r].at = "create" => Live = {}
    /\ req[r].at \in {"renew", "assess", "replace"} => Live \subseteq {req[r].att}
RaceInv == raced \/ ((\A a, b \in Live : a = b) /\ OneCreator /\ CreatorSees)

\* A request decides to create an attempt, or none does and those that did go on.
NewCreator(r) ==
    /\ UNCHANGED row
    /\ raced' = (raced \/ \E o \in Requests \ {r} : Creating(o))
    /\ \A q \in Requests \ {r} : req'[q] = req[q]
    /\ \/ Live = {} /\ req'[r].at = "create"
       \/ req'[r].att \in Live /\ req'[r].at \in {"renew", "assess"}
OldCreators ==
    /\ raced' = raced
    /\ \A q \in Requests : Creating(q)' =>
         /\ Creating(q)
         /\ req'[q].at = "create" => req[q].at = "create"
         /\ req'[q].at # "create" => req[q].at # "create" /\ req'[q].att = req[q].att

LEMMA CreatorMoves ==
    ASSUME TypeOK, [Next]_vars
    PROVE  OldCreators \/ \E r \in Requests : NewCreator(r)
<1> req \in [Requests -> [at : Points, att : Attempts \cup {None}, now : Nat]]
    BY DEF TypeOK
<1>1. ASSUME UNCHANGED <<req, raced>> PROVE OldCreators
    BY <1>1 DEF OldCreators, Creating
<1>2. ASSUME NEW r \in Requests, Leave(r), raced' = raced PROVE OldCreators
    BY <1>2 DEF Leave, Idle, OldCreators, Creating
<1>3. ASSUME NEW r \in Requests, NEW p \in {"select", "expire", "finish", "post"}, NEW a \in Attempts \cup {None},
             NEW now \in Nat, Enter(r, p, a, now), raced' = raced
      PROVE  OldCreators
    BY <1>3 DEF Enter, OldCreators, Creating
<1>4. ASSUME NEW r \in Requests, req[r].at \in {"renew", "assess"}, NEW p \in {"assess", "replace"},
             NEW now \in Nat, Enter(r, p, req[r].att, now), raced' = raced
      PROVE  OldCreators
    BY <1>4 DEF Enter, OldCreators, Creating
<1>5. ASSUME NEW r \in Requests, Select(r) PROVE OldCreators \/ NewCreator(r)
    <2>1. CASE Live = {} /\ req' = [req EXCEPT ![r].at = "create"] /\ NoteRace(r)
        <3>1. req'[r].at = "create" /\ \A q \in Requests \ {r} : req'[q] = req[q]
            BY <2>1
        <3> QED
            BY <1>5, <2>1, <3>1 DEF Select, NoteRace, NewCreator
    <2>2. ASSUME NEW a \in Live, IF Overdue(a) THEN Enter(r, "expire", a, 0) ELSE Leave(r), raced' = raced
          PROVE  OldCreators
        <3> a \in Attempts
            BY DEF Live
        <3> QED
            BY <1>2, <1>3, <2>2
    <2> QED
        BY <1>5, <2>1, <2>2 DEF Select
<1>6. ASSUME NEW r \in Requests, Load(r) PROVE OldCreators \/ NewCreator(r)
    <2>1. PICK a \in Attempts : \/ LoadOverdue(r, a) \/ LoadToFinish(r, a) \/ LoadToPost(r, a)
                                \/ LoadToRenew(r, a) \/ LoadToRetake(r, a)
        BY <1>6 DEF Load
    <2>2. CASE LoadOverdue(r, a) \/ LoadToFinish(r, a) \/ LoadToPost(r, a)
        <3> clock \in Nat
            BY DEF TypeOK
        <3> QED
            BY <1>3, <2>2 DEF LoadOverdue, LoadToFinish, LoadToPost
    <2>3. CASE LoadToRenew(r, a) \/ LoadToRetake(r, a)
        <3>1. a \in Live
            BY <2>3 DEF LoadToRenew, LoadToRetake, Overdue, Retakable, Live, Exists
        <3>2. PICK p \in {"renew", "assess"} : Enter(r, p, a, 0)
            BY <2>3 DEF LoadToRenew, LoadToRetake
        <3>3. req'[r].att = a /\ req'[r].at \in {"renew", "assess"} /\ \A q \in Requests \ {r} : req'[q] = req[q]
            BY <3>2 DEF Enter
        <3>4. UNCHANGED row /\ NoteRace(r)
            BY <2>3 DEF LoadToRenew, LoadToRetake
        <3> QED
            BY <3>1, <3>3, <3>4 DEF NoteRace, NewCreator
    <2> QED
        BY <2>1, <2>2, <2>3
<1>7. ASSUME NEW r \in Requests, Start(r) PROVE OldCreators
    <2> clock \in Nat
        BY DEF TypeOK
    <2> QED
        BY <1>3, <1>7 DEF Start
<1>8. ASSUME NEW r \in Requests, Expire(r) PROVE OldCreators
    BY <1>2, <1>4, <1>8 DEF Expire
<1>9. ASSUME NEW r \in Requests, Assess(r) PROVE OldCreators
    <2> clock \in Nat
        BY DEF TypeOK
    <2> QED
        BY <1>4, <1>9 DEF Assess
<1>10. ASSUME NEW r \in Requests, Create(r) \/ Finish(r) \/ Post(r) \/ Replace(r) PROVE OldCreators
    BY <1>2, <1>10 DEF Create, Finish, Post, Replace
<1>11. CASE ApiRestart
    BY <1>11 DEF ApiRestart, Idle, OldCreators, Creating
<1>12. (\E a \in Attempts : Reset(a)) \/ Tick \/ UNCHANGED vars => UNCHANGED <<req, raced>>
    BY DEF Reset, Tick, vars
<1> QED
    BY <1>1, <1>5, <1>6, <1>7, <1>8, <1>9, <1>10, <1>11, <1>12 DEF Next, Serve

\* Who opens an attempt had decided to, leaves, and retires the one it replaces.
LEMMA Openers ==
    ASSUME TypeOK, [Next]_vars, NEW b \in Attempts, Opens(b)
    PROVE  /\ \A c \in Attempts : Opens(c) => c = b
           /\ \E r \in Requests : /\ Creating(r) /\ ~Creating(r)'
                                  /\ req[r].at # "create" => req[r].att \notin Live'
<1> row \in [Attempts -> Row] /\ req \in [Requests -> [at : Points, att : Attempts \cup {None}, now : Nat]]
    BY DEF TypeOK
<1>0. \A c \in Attempts : Opens(c) => row[c].status = "unborn" /\ row'[c].status = "in_progress"
    BY DEF Opens, Started
<1>1. ASSUME NEW r \in Requests, Create(r)
      PROVE  (\A c \in Attempts : Opens(c) => c = b) /\ Creating(r) /\ ~Creating(r)' /\ req[r].at = "create"
    <2>1. PICK d \in Attempts : row' = [row EXCEPT ![d] = Started(req[r].now)]
        BY <1>1 DEF Create
    <2>2. \A c \in Attempts : Opens(c) => c = d
        BY <1>0, <2>1
    <2> QED
        BY <1>1, <2>2 DEF Create, Leave, Idle, Creating
<1>2. ASSUME NEW r \in Requests, Replace(r)
      PROVE  (\A c \in Attempts : Opens(c) => c = b) /\ Creating(r) /\ ~Creating(r)' /\ req[r].att \notin Live'
    <2>0. row[req[r].att].status \in Exists /\ req[r].att \in Attempts
        BY <1>0, <1>2 DEF Replace, TypeOK
    <2>1. PICK d \in Attempts : Replaces(r, req[r].att, d)
        BY <1>2, <2>0, ReplaceEffect
    <2>2. \A c \in Attempts : Opens(c) => c = d
        BY <1>0, <2>0, <2>1 DEF Replaces, Exists, Closed
    <2>3. row'[req[r].att].superseded
        BY <2>0, <2>1 DEF Replaces, OldMarked, Row
    <2> QED
        BY <1>2, <2>2, <2>3 DEF Replace, Leave, Idle, Creating, Live
<1>3. CASE \A r \in Requests : ~Create(r) /\ ~Replace(r)
    <2>1. ASSUME NEW r \in Requests, Expire(r) \/ Finish(r) PROVE row'[b].status # "in_progress" \/ row'[b] = row[b]
        <3>1. req[r].att \in Attempts /\ req[r].now \in Nat
            BY <2>1 DEF Expire, Finish, TypeOK
        <3>2. Expired(req[r].att).status = "expired" /\ Submitted(req[r].att, req[r].now).status = "submitted"
            BY <3>1, UpdateTypes
        <3> QED
            BY <2>1, <3>1, <3>2 DEF Expire, Finish
    <2>2. ASSUME NEW a \in Attempts, Reset(a) PROVE row'[b].status # "in_progress" \/ row'[b] = row[b]
        BY <2>2 DEF Reset, NoRow
    <2>3. ASSUME NEW r \in Requests, Start(r) \/ Select(r) \/ Load(r) \/ Post(r) \/ Assess(r) PROVE row' = row
        BY <2>3 DEF Start, Select, Load, Post, Assess, LoadOverdue, LoadToFinish, LoadToPost, LoadToRenew, LoadToRetake
    <2>4. Tick \/ ApiRestart \/ UNCHANGED vars => row' = row
        BY DEF Tick, ApiRestart, vars
    <2>5. row'[b].status # "in_progress" \/ row'[b] = row[b]
        BY <1>3, <2>1, <2>2, <2>3, <2>4 DEF Next, Serve
    <2> QED
        BY <1>0, <2>5
<1> QED
    BY <1>1, <1>2, <1>3

LEMMA RaceStep == TypeOK /\ RaceInv /\ [Next]_vars => RaceInv'
<1> SUFFICES ASSUME TypeOK, RaceInv, [Next]_vars, ~raced'
             PROVE  (\A a, b \in Live' : a = b) /\ OneCreator' /\ CreatorSees'
    BY DEF RaceInv
<1>1. ~raced
    BY CreatorMoves DEF OldCreators, NewCreator
<1>2. (\A a, b \in Live : a = b) /\ OneCreator /\ CreatorSees
    BY <1>1 DEF RaceInv
<1>3. ASSUME NEW r \in Requests, NewCreator(r)
      PROVE  (\A a, b \in Live' : a = b) /\ OneCreator' /\ CreatorSees'
    <2>1. Live' = Live
        BY <1>3 DEF NewCreator, Live
    <2>2. \A q \in Requests \ {r} : ~Creating(q) /\ ~Creating(q)' /\ req'[q] = req[q]
        BY <1>3 DEF NewCreator, Creating
    <2>3. (req'[r].at = "create" => Live = {})
          /\ (req'[r].at \in {"renew", "assess", "replace"} => Live \subseteq {req'[r].att})
        BY <1>2, <1>3 DEF NewCreator
    <2>4. CreatorSees'
        BY <2>1, <2>2, <2>3 DEF CreatorSees, Creating
    <2> QED
        BY <1>2, <2>1, <2>2, <2>4 DEF OneCreator
<1>4. CASE OldCreators /\ ~\E b \in Attempts : Opens(b)
    <2>1. Live' \subseteq Live
        BY <1>4, LiveMoves DEF Live
    <2>2. CreatorSees'
        BY <1>2, <1>4, <2>1 DEF OldCreators, CreatorSees, Creating
    <2> QED
        BY <1>2, <1>4, <2>1, <2>2 DEF OldCreators, OneCreator
<1>5. ASSUME OldCreators, NEW b \in Attempts, Opens(b)
      PROVE  (\A a, c \in Live' : a = c) /\ OneCreator' /\ CreatorSees'
    <2>1. PICK r \in Requests : /\ Creating(r) /\ ~Creating(r)'
                                /\ req[r].at # "create" => req[r].att \notin Live'
        BY <1>5, Openers
    <2>2. \A q \in Requests : ~Creating(q)'
        BY <1>2, <1>5, <2>1 DEF OldCreators, OneCreator
    <2>3. Live' \subseteq Live \cup {b}
        BY <1>5, LiveMoves, Openers DEF Live
    <2>4. Live' \subseteq {b}
        BY <1>2, <2>1, <2>3 DEF CreatorSees, Creating
    <2> QED
        BY <2>2, <2>4 DEF OneCreator, CreatorSees, Creating
<1> QED
    BY <1>3, <1>4, <1>5, CreatorMoves

\* Without two overlapping decisions a user has one live attempt at most.
THEOREM OneLiveAttempt == Spec => []OneLiveUnlessRaced
<1>1. Init => RaceInv
    BY DEF Init, RaceInv, OneCreator, CreatorSees, Creating, Live, Idle, NoRow, Exists, Closed
<1>2. RaceInv => OneLiveUnlessRaced
    BY DEF RaceInv, OneLiveUnlessRaced
<1> QED
    BY <1>1, <1>2, RaceStep, TypeCorrect, PTL DEF Spec

----------------------------------------------------------------------------
(* What follows the end of a timeline *)

\* The requests that will still append to the log of c.
InFlight(c) == {r \in Requests : Holds(r, c)}

LEMMA InFlightFinite ==
    ASSUME NEW c
    PROVE  IsFiniteSet(InFlight(c)) /\ Cardinality(InFlight(c)) \in Nat
BY SetsAssumption, FS_Subset, FS_CardinalityType DEF InFlight

\* Only an attempt in progress is loaded by further requests.
LEMMA InFlightMoves ==
    ASSUME TypeOK, [Next]_vars, NEW c \in Attempts, row[c].status # "in_progress"
    PROVE  InFlight(c)' \subseteq InFlight(c)
<1> SUFFICES ASSUME NEW q \in Requests, Holds(q, c)' PROVE Holds(q, c)
    BY DEF InFlight
<1>1. req'[q].att = c /\ req'[q].at \in {"expire", "renew", "finish", "post"}
    BY DEF Holds
<1>2. ~Begins(q) /\ ~Decides(q) /\ ~Renews(q) /\ ~Dates(q)
    <2>1. req'[q].at \notin {"select", "create", "assess", "replace"}
        BY <1>1
    <2>2. /\ Begins(q) => req'[q].at = "select"
          /\ Decides(q) => req'[q].at = "create"
          /\ Renews(q) => req'[q].at = "assess"
          /\ Dates(q) => req'[q].at = "replace"
        BY Arrives
    <2> QED
        BY <2>1, <2>2
<1>3. ~Loads(q)
    <2> SUFFICES ASSUME Loads(q) PROVE FALSE
        OBVIOUS
    <2>1. PICK a \in Attempts : /\ req'[q].att = a
                                /\ (req'[q].at = "assess" \/ row[a].status = "in_progress")
        BY DEF Loads, Overdue
    <2>2. a = c
        BY <1>1, <2>1
    <2>3. req'[q].at # "assess"
        BY <1>1
    <2> QED
        BY <2>1, <2>2, <2>3
<1>4. req'[q] = req[q]
    BY <1>1, <1>2, <1>3, RequestMoves, Arrives
<1> QED
    BY <1>1, <1>4 DEF Holds

\* The entries after an end were appended by requests in flight then; those still in
\* flight may append one more each.
AftermathInv == \A c \in Attempts : \A i \in Ends(c) :
    Len(log[c]) - i + Cardinality(InFlight(c)) < Cardinality(Requests)

LEMMA AftermathStep == TypeOK /\ LogTellsEnd /\ AftermathInv /\ [Next]_vars => AftermathInv'
<1> SUFFICES ASSUME TypeOK, LogTellsEnd, AftermathInv, [Next]_vars, NEW c \in Attempts, NEW i \in Ends(c)'
             PROVE  Len(log'[c]) - i + Cardinality(InFlight(c)') < Cardinality(Requests)
    BY DEF AftermathInv
<1> DEFINE before == Cardinality(InFlight(c))
           after  == Cardinality(InFlight(c)')
<1>0. /\ IsFiniteSet(InFlight(c)) /\ IsFiniteSet(InFlight(c)') /\ before \in Nat /\ after \in Nat
      /\ IsFiniteSet(Requests) /\ Cardinality(Requests) \in Nat
    <2>1. InFlight(c)' \subseteq Requests
        BY DEF InFlight
    <2> QED
        BY <2>1, InFlightFinite, SetsAssumption, FS_Subset, FS_CardinalityType
<1>1. log[c] \in Seq(EventTypes) /\ Len(log[c]) \in Nat
    BY DEF TypeOK
<1>2. Ends(c) # {} => row[c].status # "in_progress"
    BY DEF LogTellsEnd
<1>3. Ends(c) # {} => after <= before
    BY <1>0, <1>2, InFlightMoves, FS_Subset
<1>4. \A j \in Ends(c) : j \in Nat /\ j <= Len(log[c]) /\ Len(log[c]) - j + before < Cardinality(Requests)
    BY <1>1 DEF Ends, AftermathInv
<1>5. CASE Keeps(c)
    <2>1. i \in Ends(c) /\ log'[c] = log[c]
        BY <1>5 DEF Keeps, Ends
    <2>2. after <= before
        BY <1>3, <2>1
    <2>3. i \in Nat /\ i <= Len(log[c]) /\ Len(log[c]) - i + before < Cardinality(Requests)
        BY <1>4, <2>1
    <2>4. Len(log'[c]) = Len(log[c])
        BY <2>1
    <2> HIDE DEF before, after
    <2>5. Len(log'[c]) - i + after < Cardinality(Requests)
        BY <1>0, <1>1, <2>2, <2>3, <2>4
    <2> QED
        BY <2>5 DEF after
<1>6. CASE Opens(c)
    <2>1. log'[c] = <<"attempt_started">>
        BY <1>6 DEF Opens
    <2> QED
        BY <2>1 DEF Ends, EndEvents
<1>7. CASE Deletes(c)
    BY <1>7 DEF Deletes, Ends
<1>8. ASSUME NEW r \in Requests, Commits(r, c)
      PROVE  Len(log'[c]) - i + after < Cardinality(Requests)
    <2>1. r \notin InFlight(c)'
        BY <1>8 DEF Commits, InFlight, Holds
    <2>2. CASE Retires(r, c)
        <3>1. i \in Ends(c) /\ log'[c] = log[c]
            BY <1>8, <2>2, CommitEnds DEF Retires
        <3> HIDE DEF before, after
        <3> QED
            BY <1>0, <1>1, <1>3, <1>4, <3>1
    <2>3. CASE ~Retires(r, c)
        <3>1. r \in InFlight(c) /\ Len(log'[c]) = Len(log[c]) + 1
            <4>1. PICK e \in EventTypes : log'[c] = Append(log[c], e)
                BY <1>8, <2>3 DEF Commits, Posts, Expires, Submits, EventTypes, EndEvents
            <4> QED
                BY <1>1, <1>8, <2>3, <4>1, AppendEnds
                   DEF Commits, Posts, Expires, Submits, InFlight, Holds
        <3>2. CASE i \in Ends(c)
            <4>1. InFlight(c)' \subseteq InFlight(c) \ {r}
                BY <1>2, <2>1, <3>2, InFlightMoves
            <4>2. after <= before - 1
                <5>1. IsFiniteSet(InFlight(c) \ {r}) /\ Cardinality(InFlight(c) \ {r}) = before - 1
                    BY <1>0, <3>1, FS_RemoveElement
                <5> QED
                    BY <4>1, <5>1, FS_Subset
            <4> HIDE DEF before, after
            <4> QED
                BY <1>0, <1>1, <1>4, <3>1, <3>2, <4>2
        <3>3. CASE i \notin Ends(c)
            <4>1. i = Len(log'[c])
                BY <1>8, <3>1, <3>3, CommitEnds DEF Commits
            <4>2. after <= Cardinality(Requests) - 1
                <5>1. IsFiniteSet(Requests \ {r}) /\ Cardinality(Requests \ {r}) = Cardinality(Requests) - 1
                    BY <1>0, FS_RemoveElement
                <5>2. InFlight(c)' \subseteq Requests \ {r}
                    BY <2>1 DEF InFlight
                <5> QED
                    BY <5>1, <5>2, FS_Subset
            <4> HIDE DEF after
            <4> QED
                BY <1>0, <1>1, <3>1, <4>1, <4>2
        <3> QED
            BY <3>2, <3>3
    <2> QED
        BY <2>2, <2>3
<1> QED
    BY <1>5, <1>6, <1>7, <1>8, Moves

\* After the first end in a timeline, the handlers of attempts.py commit to it less often
\* than there are requests at once: each other request that was in progress at most once,
\* a batch of the exam page's events or another end.  Executions, their reports and the
\* assistant's turns, which are not in this module, are not counted.
THEOREM FewLateCommits == Spec => []LateCommitsBounded
<1>1. Init => AftermathInv
    BY DEF Init, AftermathInv, Ends
<1>2. TypeOK /\ AftermathInv => LateCommitsBounded
    <2> SUFFICES ASSUME TypeOK, AftermathInv, NEW c \in Attempts, NEW i \in Ends(c)
                 PROVE  Len(log[c]) - i < Cardinality(Requests)
        BY DEF LateCommitsBounded
    <2>1. Len(log[c]) \in Nat /\ i \in Nat
        BY DEF TypeOK, Ends
    <2>2. Cardinality(InFlight(c)) \in Nat /\ Cardinality(Requests) \in Nat
        BY InFlightFinite, SetsAssumption, FS_CardinalityType
    <2>3. Len(log[c]) - i + Cardinality(InFlight(c)) < Cardinality(Requests)
        BY DEF AftermathInv
    <2> QED
        BY <2>1, <2>2, <2>3
<1> QED
    BY <1>1, <1>2, AftermathStep, TimelineTellsEnd, TypeCorrect, PTL DEF Spec

----------------------------------------------------------------------------
(* The implementation of AttemptGate *)

\* A step that moves the stage of one attempt only.
LEMMA StageMoves ==
    ASSUME TypeOK, NEW a \in Attempts, NEW f \in Row, row' = [row EXCEPT ![a] = f], f.superseded = row[a].superseded
    PROVE  /\ [c \in Attempts |-> Stage(c)]' = [[c \in Attempts |-> Stage(c)] EXCEPT ![a] = Stage(a)']
           /\ {c \in Attempts : row[c].superseded}' = {c \in Attempts : row[c].superseded}
           /\ row'[a] = f
<1> row \in [Attempts -> Row]
    BY DEF TypeOK
<1>1. row'[a] = f /\ \A c \in Attempts \ {a} : row'[c] = row[c]
    OBVIOUS
<1>2. \A c \in Attempts \ {a} : Stage(c)' = Stage(c)
    BY <1>1 DEF Stage
<1> QED
    BY <1>1, <1>2

LEMMA GateFrame == UNCHANGED row => UNCHANGED Gate!gate
BY DEF Gate!gate, Stage

\* Expiring and finishing close an open attempt, and leave a closed one closed.
LEMMA ClosesGate ==
    ASSUME TypeOK, NEW a \in Attempts, NEW f \in Row, row[a].status \in Exists,
           row' = [row EXCEPT ![a] = f], f.superseded = row[a].superseded, f.status \in Closed
    PROVE  [Gate!GateNext]_Gate!gate
<1>0. row'[a] = f
    BY StageMoves
<1>1. Stage(a)' = "closed"
    <2>1. row'[a].status \in Closed
        BY <1>0
    <2> QED
        BY <2>1 DEF Stage, Closed
<1>2. CASE row[a].status = "in_progress"
    <2>1. Stage(a) = "open"
        BY <1>2 DEF Stage, Closed
    <2>2. [c \in Attempts |-> Stage(c)]' = [[c \in Attempts |-> Stage(c)] EXCEPT ![a] = "closed"]
        BY <1>1, StageMoves
    <2>3. {c \in Attempts : row[c].superseded}' = {c \in Attempts : row[c].superseded}
        BY StageMoves
    <2>4. [c \in Attempts |-> Stage(c)][a] = "open"
        BY <2>1
    <2> QED
        BY <2>2, <2>3, <2>4 DEF Gate!GateNext, Gate!Close
<1>3. CASE row[a].status \in Closed
    <2>1. Stage(a) = "closed"
        BY <1>3 DEF Stage, Closed
    <2> QED
        BY <1>1, <2>1, StageMoves DEF Gate!gate
<1> QED
    BY <1>2, <1>3 DEF Exists

LEMMA GateStep ==
    TypeOK /\ AssessedIsShut /\ SupersededIsClosed /\ [Next]_vars => [Gate!GateNext]_Gate!gate
<1> SUFFICES ASSUME TypeOK, AssessedIsShut, SupersededIsClosed, [Next]_vars
             PROVE  [Gate!GateNext]_Gate!gate
    OBVIOUS
<1> row \in [Attempts -> Row] /\ req \in [Requests -> [at : Points, att : Attempts \cup {None}, now : Nat]]
    BY DEF TypeOK
<1>1. CASE UNCHANGED row
    BY <1>1, GateFrame
<1>2. ASSUME NEW r \in Requests, Create(r) PROVE [Gate!GateNext]_Gate!gate
    <2>1. PICK b \in Attempts : row[b].status = "unborn" /\ row' = [row EXCEPT ![b] = Started(req[r].now)]
        BY <1>2 DEF Create
    <2>2. /\ Started(req[r].now) \in Row /\ Started(req[r].now).status = "in_progress"
          /\ ~Started(req[r].now).superseded /\ ~row[b].superseded
        <3>1. req[r].now \in Nat
            OBVIOUS
        <3>2. ~row[b].superseded
            BY <2>1 DEF SupersededIsClosed, Closed
        <3> QED
            BY <3>1, <3>2, StartedType DEF Started
    <2>3. Started(req[r].now).superseded = row[b].superseded
        <3>1. Started(req[r].now).superseded \in BOOLEAN /\ row[b].superseded \in BOOLEAN
            BY <2>2 DEF Row
        <3> QED
            BY <2>2, <3>1
    <2>4. Stage(b) = "unborn" /\ Stage(b)' = "open"
        BY <2>1, <2>2, <2>3, StageMoves DEF Stage, Closed
    <2> QED
        BY <2>1, <2>2, <2>3, <2>4, StageMoves DEF Gate!GateNext, Gate!Open
<1>3. ASSUME NEW r \in Requests, Expire(r) \/ Finish(r), ~UNCHANGED row PROVE [Gate!GateNext]_Gate!gate
    <2>1. req[r].att \in Attempts /\ req[r].now \in Nat /\ row[req[r].att].status \in Exists
        BY <1>3 DEF Expire, Finish, TypeOK
    <2>2. \/ row' = [row EXCEPT ![req[r].att] = Expired(req[r].att)]
          \/ row' = [row EXCEPT ![req[r].att] = Submitted(req[r].att, req[r].now)]
        BY <1>3 DEF Expire, Finish
    <2>3. {"expired", "submitted"} \subseteq Closed
        BY DEF Closed
    <2> QED
        BY <2>1, <2>2, <2>3, UpdateTypes, ClosesGate
<1>4. ASSUME NEW r \in Requests, Replace(r), ~UNCHANGED row PROVE [Gate!GateNext]_Gate!gate
    <2>1. PICK a \in Attempts : a = req[r].att
        BY <1>4 DEF Replace, TypeOK
    <2>2. row[a].status \in Exists /\ Shut(a)
        BY <1>4, <2>1 DEF Replace, AssessedIsShut
    <2>3. PICK b \in Attempts : Replaces(r, a, b)
        BY <1>4, <2>1, <2>2, ReplaceEffect
    <2>4. OldMarked(a).status = row[a].status /\ OldMarked(a).superseded
          /\ Started(req[r].now).status = "in_progress" /\ ~Started(req[r].now).superseded
        BY UpdateTypes DEF OldMarked, Row, Started
    <2>5. row[a].status \in Closed /\ ~row[b].superseded
        BY <2>2, <2>3 DEF Shut, Exists, Closed, Replaces, SupersededIsClosed
    <2>6. Stage(a) = "closed" /\ Stage(a)' = "closed" /\ Stage(b) = "unborn" /\ Stage(b)' = "open"
        BY <2>3, <2>4, <2>5 DEF Replaces, Stage, Closed
    <2>7. \A c \in Attempts \ {a, b} : Stage(c)' = Stage(c) /\ row'[c] = row[c]
        BY <2>3 DEF Replaces, Stage
    <2>8. [c \in Attempts |-> Stage(c)]' = [[c \in Attempts |-> Stage(c)] EXCEPT ![b] = "open"]
        BY <2>3, <2>6, <2>7 DEF Replaces
    <2>9. {c \in Attempts : row[c].superseded}' = {c \in Attempts : row[c].superseded} \cup {a}
        BY <2>3, <2>4, <2>5, <2>7 DEF Replaces
    <2> QED
        BY <2>6, <2>8, <2>9 DEF Gate!GateNext, Gate!Replace
<1>5. ASSUME NEW a \in Attempts, Reset(a) PROVE [Gate!GateNext]_Gate!gate
    <2>1. row' = [row EXCEPT ![a] = NoRow("deleted")] /\ row[a].status \in Exists
        BY <1>5 DEF Reset
    <2>2. NoRow("deleted").status = "deleted" /\ ~NoRow("deleted").superseded
        BY DEF NoRow
    <2>3. row'[a] = NoRow("deleted") /\ \A c \in Attempts \ {a} : row'[c] = row[c] /\ Stage(c)' = Stage(c)
        BY <2>1 DEF Stage
    <2>4. Stage(a) \in {"open", "closed"} /\ Stage(a)' = "removed"
        BY <2>1, <2>2, <2>3 DEF Stage, Exists, Closed
    <2>5. [c \in Attempts |-> Stage(c)]' = [[c \in Attempts |-> Stage(c)] EXCEPT ![a] = "removed"]
        BY <2>3, <2>4
    <2>6. {c \in Attempts : row[c].superseded}' = {c \in Attempts : row[c].superseded} \ {a}
        BY <2>2, <2>3
    <2> QED
        BY <2>4, <2>5, <2>6 DEF Gate!GateNext, Gate!Remove
<1>6. ASSUME NEW r \in Requests, Start(r) \/ Select(r) \/ Load(r) \/ Post(r) \/ Assess(r) PROVE UNCHANGED row
    BY <1>6 DEF Start, Select, Load, Post, Assess, LoadOverdue, LoadToFinish, LoadToPost, LoadToRenew, LoadToRetake
<1>7. Tick \/ ApiRestart \/ UNCHANGED vars => UNCHANGED row
    BY DEF Tick, ApiRestart, vars
<1> QED
    BY <1>1, <1>2, <1>3, <1>4, <1>5, <1>6, <1>7 DEF Next, Serve

\* AttemptLifecycle implements AttemptGate: attempts are closed for good, and
\* replaced only when closed.
THEOREM AttemptsAreGated == Spec => ImplementsGate
<1>1. Init => Gate!GateInit
    BY DEF Init, NoRow, Stage, Closed, Gate!GateInit
<1>2. Init => AssessedIsShut /\ SupersededIsClosed
    BY DEF Init, AssessedIsShut, SupersededIsClosed, Idle, NoRow
<1> QED
    BY <1>1, <1>2, SupersededStep, GateStep, TypeCorrect, PTL DEF Spec, ImplementsGate, Gate!GateSpec
=============================================================================
