-------------------------- MODULE AttemptLifecycle --------------------------
(***************************************************************************)
(* The attempts of one user at one assessment (routers/attempts.py):       *)
(* start, retake, finish, the lazy expiry check_expired that every reader   *)
(* runs, the events posted by the exam page, and the reset by staff.        *)
(*                                                                         *)
(* A request loads the attempt, awaits, and commits what it decided on the *)
(* loaded copy; the ORM writes the columns it changed by primary key,       *)
(* whatever the row holds by then.  Two requests of a user run side by side *)
(* (two tabs, the exam page and the dashboard, the reviewer).               *)
(***************************************************************************)
EXTENDS Naturals, Sequences, FiniteSets

CONSTANTS
    Attempts,   \* the attempts that may come to exist
    Requests,   \* the requests that may be in progress at once
    None,       \* no attempt
    StartsAt,   \* starts_at of the assessment
    EndsAt,     \* ends_at of the assessment
    Duration,   \* duration_min
    Grace,      \* DEADLINE_GRACE
    MaxTime,    \* bound: where the clock stops
    MaxLog      \* bound: no event is posted to a longer log

ASSUME SetsAssumption ==
    /\ IsFiniteSet(Requests)
    /\ Requests # {}
    /\ None \notin Attempts
ASSUME TimesAssumption ==
    /\ {StartsAt, EndsAt, Grace, MaxTime, MaxLog} \subseteq Nat
    /\ Duration \in Nat \ {0}

VARIABLES
    clock,  \* utcnow()
    row,    \* row[a]: the attempts row
    log,    \* log[a]: what these handlers have committed to its timeline, in order: the
            \* type of an event, "activity" for a batch from the exam page; what executions,
            \* reports and the assistant's turns add to the timeline is not in it
    req,    \* req[r]: what request r has loaded and is about to commit
    raced   \* history: two requests decided to create an attempt at once

vars == <<clock, row, log, req, raced>>

----------------------------------------------------------------------------
(* Data *)

Closed == {"submitted", "expired"}
Exists == Closed \cup {"in_progress"}

\* "unborn" is an id not in use yet, "deleted" one whose row is gone.
Row == [status     : Exists \cup {"unborn", "deleted"},
        superseded : BOOLEAN,
        started    : Nat,
        deadline   : Nat,
        ended      : Nat]    \* submitted_at, 0 before

NoRow(status) == [status |-> status, superseded |-> FALSE, started |-> 0, deadline |-> 0, ended |-> 0]

EndEvents  == {"attempt_finished", "attempt_expired"}
EventTypes == EndEvents \cup {"attempt_started", "activity"}

\* What a request does next: "renew" is a retake that first expires the old attempt.
Points == {"idle", "select", "create", "expire", "finish", "post", "renew", "assess", "replace"}
Idle   == [at |-> "idle", att |-> None, now |-> 0]

LesserOf(x, y) == IF x < y THEN x ELSE y

\* Attempts a retake has not replaced: start_attempt and the dashboard see these.
Live == {a \in Attempts : row[a].status \in Exists /\ ~row[a].superseded}

\* A request that has decided to create an attempt.
Creating(r) == req[r].at \in {"create", "renew", "assess", "replace"}

Init ==
    /\ clock = 0
    /\ row = [a \in Attempts |-> NoRow("unborn")]
    /\ log = [a \in Attempts |-> <<>>]
    /\ req = [r \in Requests |-> Idle]
    /\ raced = FALSE

----------------------------------------------------------------------------
(* Helpers of the handlers *)

Enter(r, at, a, now) == req' = [req EXCEPT ![r] = [at |-> at, att |-> a, now |-> now]]
Leave(r) == req' = [req EXCEPT ![r] = Idle]

NoteRace(r) == raced' = (raced \/ \E o \in Requests \ {r} : Creating(o))

\* check_expired, its condition.
Overdue(a) == row[a].status = "in_progress" /\ clock > row[a].deadline + Grace

Deadline(now) == LesserOf(now + Duration, EndsAt)

\* Mutant: the flag of the attempt it replaces is copied.
StartedCopied(now) == [status |-> "in_progress", superseded |-> now > StartsAt,
                       started |-> now, deadline |-> Deadline(now), ended |-> 0]
\* The row a start or a retake inserts.
Started(now) == [status |-> "in_progress", superseded |-> FALSE,
                 started |-> now, deadline |-> Deadline(now), ended |-> 0]

----------------------------------------------------------------------------
(* POST /assessments/{id}/attempts, for a user who is assigned or staff *)

\* The window is checked at the time the request uses from then on.
Start(r) ==
    /\ req[r].at = "idle"
    /\ clock >= StartsAt
    /\ clock <= EndsAt
    /\ Enter(r, "select", None, clock)
    /\ UNCHANGED <<clock, row, log, raced>>

Latest(a) == a \in Live /\ \A b \in Live : row[b].started <= row[a].started

\* The latest live attempt is handed out again, or refused when it is closed;
\* an overdue one is expired first.
Select(r) ==
    /\ req[r].at = "select"
    /\ \/ /\ Live = {}
          /\ req' = [req EXCEPT ![r].at = "create"]
          /\ NoteRace(r)
       \/ \E a \in Live :
            /\ Latest(a)
            /\ IF Overdue(a) THEN Enter(r, "expire", a, 0) ELSE Leave(r)
            /\ UNCHANGED raced
    /\ UNCHANGED <<clock, row, log>>

Create(r) ==
    /\ req[r].at = "create"
    /\ \E b \in Attempts :
         /\ row[b].status = "unborn"
         /\ row' = [row EXCEPT ![b] = Started(req[r].now)]
         /\ log' = [log EXCEPT ![b] = <<"attempt_started">>]
    /\ Leave(r)
    /\ UNCHANGED <<clock, raced>>

----------------------------------------------------------------------------
(* Loading an attempt: get_attempt_for and the head of retake_attempt, which only *)
(* serves staff on attempts of their own                                          *)

\* Whoever loads an overdue attempt, to list it, to read it, to finish it or to post
\* to it, goes on to expire it and then finds it closed.
LoadOverdue(r, a) ==
    /\ req[r].at = "idle"
    /\ Overdue(a)
    /\ Enter(r, "expire", a, 0)
    /\ UNCHANGED <<clock, row, log, raced>>

\* A retake expires it as well, and goes on with the copy it has loaded.
LoadToRenew(r, a) ==
    /\ req[r].at = "idle"
    /\ Overdue(a)
    /\ ~row[a].superseded
    /\ Enter(r, "renew", a, 0)
    /\ NoteRace(r)
    /\ UNCHANGED <<clock, row, log>>

LoadToFinish(r, a) ==
    /\ req[r].at = "idle"
    /\ row[a].status = "in_progress"
    /\ ~Overdue(a)
    /\ Enter(r, "finish", a, clock)
    /\ UNCHANGED <<clock, row, log, raced>>

LoadToPost(r, a) ==
    /\ req[r].at = "idle"
    /\ row[a].status = "in_progress"
    /\ ~Overdue(a)
    /\ Len(log[a]) < MaxLog
    /\ Enter(r, "post", a, 0)
    /\ UNCHANGED <<clock, row, log, raced>>

Retakable(a) == row[a].status \in Closed

LoadToRetake(r, a) ==
    /\ req[r].at = "idle"
    /\ Retakable(a)
    /\ ~row[a].superseded
    /\ Enter(r, "assess", a, 0)
    /\ NoteRace(r)
    /\ UNCHANGED <<clock, row, log>>

----------------------------------------------------------------------------
(* The commits *)

\* Mutant: the status alone.
StatusOnly(a) == [row[a] EXCEPT !.status = "expired"]
Expired(a) == [row[a] EXCEPT !.status = "expired", !.ended = row[a].deadline]

\* check_expired commits.  The update of a deleted row fails the request.
Expire(r) ==
    LET a == req[r].att IN
    /\ req[r].at \in {"expire", "renew"}
    /\ \/ /\ row[a].status \in Exists
          /\ row' = [row EXCEPT ![a] = Expired(a)]
          /\ log' = [log EXCEPT ![a] = Append(@, "attempt_expired")]
          /\ IF req[r].at = "renew" THEN Enter(r, "assess", a, 0) ELSE Leave(r)
       \/ /\ row[a].status = "deleted"
          /\ Leave(r)
          /\ UNCHANGED <<row, log>>
    /\ UNCHANGED <<clock, raced>>

Submitted(a, now) == [row[a] EXCEPT !.status = "submitted", !.ended = now]

\* Mutant: the event of the end is left out.
EndUntold(a) == log[a]
EndTold(a) == Append(log[a], "attempt_finished")

\* finish_attempt commits what it decided when it loaded the attempt.
Finish(r) ==
    LET a == req[r].att IN
    /\ req[r].at = "finish"
    /\ \/ /\ row[a].status \in Exists
          /\ row' = [row EXCEPT ![a] = Submitted(a, req[r].now)]
          /\ log' = [log EXCEPT ![a] = EndTold(a)]
       \/ /\ row[a].status = "deleted"
          /\ UNCHANGED <<row, log>>
    /\ Leave(r)
    /\ UNCHANGED <<clock, raced>>

\* post_events commits a batch, one entry here, of the types the exam page sends; the
\* foreign key refuses events of a deleted attempt.
Post(r) ==
    LET a == req[r].att IN
    /\ req[r].at = "post"
    /\ \/ /\ row[a].status \in Exists
          /\ log' = [log EXCEPT ![a] = Append(@, "activity")]
       \/ /\ row[a].status = "deleted"
          /\ UNCHANGED log
    /\ Leave(r)
    /\ UNCHANGED <<clock, row, raced>>

\* retake_attempt reads the assessment, and takes its time after that.
Assess(r) ==
    /\ req[r].at = "assess"
    /\ Enter(r, "replace", req[r].att, clock)
    /\ UNCHANGED <<clock, row, log, raced>>

\* Mutants: the old attempt is not marked; it is opened again.
OldKept(a) == row[a]
OldReopened(a) == [row[a] EXCEPT !.superseded = TRUE, !.status = "in_progress"]
OldMarked(a) == [row[a] EXCEPT !.superseded = TRUE]

Replace(r) ==
    LET a == req[r].att IN
    /\ req[r].at = "replace"
    /\ \/ /\ row[a].status \in Exists
          /\ \E b \in Attempts :
               /\ row[b].status = "unborn"
               /\ row' = [row EXCEPT ![a] = OldMarked(a), ![b] = Started(req[r].now)]
               /\ log' = [log EXCEPT ![b] = <<"attempt_started">>]
       \/ /\ row[a].status = "deleted"
          /\ UNCHANGED <<row, log>>
    /\ Leave(r)
    /\ UNCHANGED <<clock, raced>>

----------------------------------------------------------------------------
(* Staff, the clock, the process *)

\* DELETE /attempts/{id}: the row and, by cascade, its events.
Reset(a) ==
    /\ row[a].status \in Exists
    /\ row' = [row EXCEPT ![a] = NoRow("deleted")]
    /\ log' = [log EXCEPT ![a] = <<>>]
    /\ UNCHANGED <<clock, req, raced>>

Tick ==
    /\ clock < MaxTime
    /\ clock' = clock + 1
    /\ UNCHANGED <<row, log, req, raced>>

\* The API process dies: what was not committed is rolled back.
ApiRestart ==
    /\ req # [r \in Requests |-> Idle]
    /\ req' = [r \in Requests |-> Idle]
    /\ UNCHANGED <<clock, row, log, raced>>

Load(r) == \E a \in Attempts :
    \/ LoadOverdue(r, a) \/ LoadToFinish(r, a) \/ LoadToPost(r, a)
    \/ LoadToRenew(r, a) \/ LoadToRetake(r, a)
Serve(r) ==
    \/ Start(r) \/ Select(r) \/ Create(r) \/ Load(r) \/ Expire(r)
    \/ Finish(r) \/ Post(r) \/ Assess(r) \/ Replace(r)

Next ==
    \/ \E r \in Requests : Serve(r)
    \/ \E a \in Attempts : Reset(a)
    \/ Tick
    \/ ApiRestart

Spec == Init /\ [][Next]_vars

----------------------------------------------------------------------------
(* Properties *)

\* The variables keep their types; a request that is not idle or selecting names
\* an attempt that came to exist.
TypeOK ==
    /\ clock \in Nat
    /\ row \in [Attempts -> Row]
    /\ log \in [Attempts -> Seq(EventTypes)]
    /\ req \in [Requests -> [at : Points, att : Attempts \cup {None}, now : Nat]]
    /\ raced \in BOOLEAN
    /\ \A r \in Requests : req[r].at \notin {"idle", "select", "create"} =>
         req[r].att \in Attempts /\ row[req[r].att].status # "unborn"

\* start_attempt and retake_attempt look before they insert, in transactions of
\* their own, and no constraint backs them: as long as no two of them overlap, a
\* user has at most one attempt that is not superseded.
OneLiveUnlessRaced ==
    raced \/ \A a, b \in Live : a = b

\* A retake, also one that expires the old attempt itself or overlaps with
\* others, supersedes only closed attempts: no running exam drops out of sight.
SupersededIsClosed ==
    \A a \in Attempts : row[a].superseded => row[a].status \in Closed

\* A retake replaces in one commit: until staff delete an attempt, a user who has
\* attempts has a live one, and the dashboard shows it.
HistoryHasHead ==
    (\E a \in Attempts : row[a].status \in Exists) /\ (\A a \in Attempts : row[a].status # "deleted")
        => Live # {}

\* Positions of the events in a log that say how the attempt ended.
Ends(a) == {i \in DOMAIN log[a] : log[a][i] \in EndEvents}

EndEvent(status) == IF status = "submitted" THEN "attempt_finished" ELSE "attempt_expired"

\* Finishing and expiring may both commit, in either order and more than once; the
\* status the reviewer sees is still the one the timeline ends on, and an attempt
\* in progress has no end in its timeline.
LogTellsEnd == \A a \in Attempts :
    /\ row[a].status = "in_progress" => Ends(a) = {}
    /\ row[a].status \in Closed =>
         \E i \in Ends(a) : /\ \A j \in Ends(a) : j <= i
                            /\ log[a][i] = EndEvent(row[a].status)

\* submitted_at, whichever request wrote it last, is no later than the grace period
\* allows, and no earlier than the start, but for a retake begun after the
\* assessment ended, whose deadline is already over (retake_attempt checks no
\* window).
ClosedInTime == \A a \in Attempts :
    row[a].status \in Closed =>
        /\ row[a].ended <= row[a].deadline + Grace
        /\ row[a].started <= EndsAt => row[a].started <= row[a].ended

\* Of the commits of these handlers to a timeline those after its first end come from
\* the requests that were in progress at that moment, which had seen the attempt open: at
\* most one of each of the others, a batch of the exam page's events or another end.
LateCommitsBounded == \A a \in Attempts : \A i \in Ends(a) :
    Len(log[a]) - i < Cardinality(Requests)

Stage(a) == CASE row[a].status \in Closed        -> "closed"
              [] row[a].status = "in_progress"   -> "open"
              [] row[a].status = "unborn"        -> "unborn"
              [] row[a].status = "deleted"       -> "removed"

Gate == INSTANCE AttemptGate WITH
    stage    <- [a \in Attempts |-> Stage(a)],
    replaced <- {a \in Attempts : row[a].superseded}

\* Whatever requests overlap, the rows keep the promises of AttemptGate: closed for
\* good, replaced only when closed and only by a newly opened attempt.
ImplementsGate == Gate!GateSpec

\* check_expired says that it expires the attempts in progress: no other attempt
\* becomes expired.
OnlyOpenExpire ==
    [][\A a \in Attempts : row'[a].status = "expired" /\ row[a].status # "expired"
                             => row[a].status = "in_progress"]_vars
=============================================================================
