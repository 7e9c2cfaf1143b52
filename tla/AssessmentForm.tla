---------------------------- MODULE AssessmentForm ----------------------------
(***************************************************************************)
(* The form of an assessment (components/AssessmentForm.tsx) with the        *)
(* endpoints that load and store it (routers/assessments.py), while others   *)
(* archive problems (routers/problems.py) and delete or promote users.       *)
(*                                                                          *)
(* The form shows what the lists of problems and candidates offer, marked    *)
(* when the form has it; only what is shown can be taken out of the form.    *)
(***************************************************************************)
EXTENDS Naturals, Sequences, FiniteSets, Lists

CONSTANTS
    None,
    Problems, Users,
    MaxChanges, \* bound: changes of the form
    MaxOthers,  \* bound: problems archived, users deleted or promoted
    MaxVisits   \* bound: times the page is opened

VARIABLES
    live,     \* the problems that are not archived
    people,   \* people[u]: "candidate", "staff" or "gone"
    problems, \* the assessment as stored: its problems in order, with points
    assigned, \* assigned[u]: None, or the visit on whose save u was assigned
    page,     \* "away", "loading" until the form is shown, "open", "saving"
    titled,   \* the form has a title
    form,     \* form.problems
    chosen,   \* form.assignee_ids
    offered,  \* allProblems, None until they arrive
    listed,   \* candidates, None until they arrive
    \* to state the properties
    changes, others, visits,
    since,    \* since[u]: the visit on whose save u came among the assigned, to stay there
    strangers \* chosen users who were no candidates any more when the list was loaded

formVars == <<live, people, problems, assigned, page, titled, form, chosen, offered, listed,
              changes, others, visits, since, strangers>>

store  == <<live, people, problems, assigned>>
inputs == <<titled, form, chosen>>
lists  == <<offered, listed>>

Ids(ps) == {ps[i].id : i \in DOMAIN ps}
Candidates == {u \in Users : people[u] = "candidate"}

Init ==
    /\ live = Problems /\ people = [u \in Users |-> "candidate"]
    /\ problems \in {<<[id |-> p, points |-> 100]>> : p \in Problems}
    /\ assigned \in [Users -> {None, 0}]
    /\ page = "away"
    /\ titled = TRUE /\ form = <<>> /\ chosen = {}
    /\ offered = None /\ listed = None
    /\ changes = 0 /\ others = 0 /\ visits = 0
    /\ since = assigned /\ strangers = {}

----------------------------------------------------------------------------
(* Others *)

archiveProblem(p) ==
    /\ others < MaxOthers
    /\ others' = others + 1
    /\ p \in live
    /\ live' = live \ {p}
    /\ UNCHANGED <<people, problems, assigned, page, inputs, lists, changes, visits, since, strangers>>

\* With a user go the assignments.
deleteUser(u) ==
    /\ others < MaxOthers
    /\ others' = others + 1
    /\ people[u] # "gone"
    /\ people' = [people EXCEPT ![u] = "gone"]
    /\ assigned' = [assigned EXCEPT ![u] = None]
    /\ since' = [since EXCEPT ![u] = None]
    /\ UNCHANGED <<live, problems, page, inputs, lists, changes, visits, strangers>>

changeRole(u) ==
    /\ others < MaxOthers
    /\ others' = others + 1
    /\ people[u] = "candidate"
    /\ people' = [people EXCEPT ![u] = "staff"]
    /\ UNCHANGED <<live, problems, assigned, page, inputs, lists, changes, visits, since, strangers>>

----------------------------------------------------------------------------
(* The page *)

\* The assessment is loaded; then the form is shown and asks for the lists.
Open ==
    /\ page = "away"
    /\ visits < MaxVisits
    /\ visits' = visits + 1
    /\ page' = "open"
    /\ titled' = TRUE
    /\ form' = problems
    /\ chosen' = {u \in Users : assigned[u] # None}
    /\ offered' = None /\ listed' = None
    /\ strangers' = {}
    /\ UNCHANGED <<store, changes, others, since>>

ProblemsArrive ==
    /\ page = "open" /\ offered = None
    /\ offered' = live
    /\ UNCHANGED <<store, page, inputs, listed, changes, others, visits, since, strangers>>

CandidatesArrive ==
    /\ page = "open" /\ listed = None
    /\ listed' = Candidates
    /\ strangers' = chosen \ Candidates
    /\ UNCHANGED <<store, page, inputs, offered, changes, others, visits, since>>

Change ==
    /\ page = "open"
    /\ changes < MaxChanges
    /\ changes' = changes + 1

setTitle ==
    /\ Change
    /\ titled' = ~titled
    /\ UNCHANGED <<store, page, form, chosen, lists, others, visits, since, strangers>>

\* Taken out, or put at the end with 100 points.
toggleProblem(p) ==
    /\ offered # None
    /\ p \in offered
    /\ Change
    /\ form' = IF p \in Ids(form) THEN Kept(form, {i \in DOMAIN form : form[i].id # p})
               ELSE Append(form, [id |-> p, points |-> 100])
    /\ UNCHANGED <<store, page, titled, chosen, lists, others, visits, since, strangers>>

setPoints(p) ==
    /\ offered # None
    /\ p \in offered \cap Ids(form)
    /\ Change
    /\ form' = [i \in DOMAIN form |-> IF form[i].id = p THEN [form[i] EXCEPT !.points = 50] ELSE form[i]]
    /\ UNCHANGED <<store, page, titled, chosen, lists, others, visits, since, strangers>>

toggleAssignee(u) ==
    /\ listed # None
    /\ u \in listed
    /\ Change
    /\ chosen' = IF u \in chosen THEN chosen \ {u} ELSE chosen \cup {u}
    /\ UNCHANGED <<store, page, titled, form, lists, others, visits, since, strangers>>

save ==
    /\ page = "open"
    /\ titled /\ form # <<>>
    /\ page' = "saving"
    /\ UNCHANGED <<store, inputs, lists, changes, others, visits, since, strangers>>

----------------------------------------------------------------------------
(* PUT /assessments/{id} *)

\* Mutant: everybody is assigned anew.
Nobody(u) == FALSE
\* Assigned before and chosen again.
Stays(u) == assigned[u] # None /\ u \in chosen

Unknown == {p \in Ids(form) : p \notin live} \cup {u \in chosen : ~Stays(u) /\ people[u] = "gone"}

\* All of it or, when a problem is archived or a new assignee gone, none.  The problems
\* are stored anew in their order, the assignments of those who stay are left alone.
\* When the answer is lost the form stays open.
update_assessment ==
    /\ page = "saving"
    /\ IF Unknown # {}
       THEN /\ page' = "open"
            /\ UNCHANGED <<problems, assigned, since>>
       ELSE /\ problems' = form
            /\ assigned' = [u \in Users |-> IF Stays(u) THEN assigned[u]
                                            ELSE IF u \in chosen THEN visits ELSE None]
            /\ since' = [u \in Users |-> IF assigned'[u] = None THEN None
                                         ELSE IF assigned[u] = None THEN visits ELSE since[u]]
            /\ page' \in {"away", "open"}
    /\ UNCHANGED <<live, people, inputs, lists, changes, others, visits, strangers>>

\* The request is lost; the form stays.
SaveFails ==
    /\ page = "saving"
    /\ page' = "open"
    /\ UNCHANGED <<store, inputs, lists, changes, others, visits, since, strangers>>

Leave ==
    /\ page = "open"
    /\ page' = "away"
    /\ UNCHANGED <<store, inputs, lists, changes, others, visits, since, strangers>>

----------------------------------------------------------------------------
Next ==
    \/ \E p \in Problems : archiveProblem(p) \/ toggleProblem(p) \/ setPoints(p)
    \/ \E u \in Users : deleteUser(u) \/ changeRole(u) \/ toggleAssignee(u)
    \/ Open \/ ProblemsArrive \/ CandidatesArrive \/ setTitle
    \/ save \/ update_assessment \/ SaveFails \/ Leave

Spec == Init /\ [][Next]_formVars

----------------------------------------------------------------------------
(* Properties *)

\* Who stays among the assigned keeps the assignment, which the attempts belong to: it is of
\* the save that brought the user in, and no later one has replaced it.
AssignmentsStay == assigned = since

\* What makes a save fail can be seen and taken out of the form, when the lists are
\* there.  Except a problem that was archived while the assessment had it: it is on no
\* list, and no save succeeds any more; and a user who was assigned, was deleted or promoted
\* before the list of candidates was loaded, and is deleted by now: opening the form again
\* helps.
Blocked == Unknown \ (offered \cup listed)
SaveCanSucceed ==
    (page = "open" /\ offered # None /\ listed # None) =>
        \A x \in Blocked : IF x \in Problems THEN x \in Ids(problems) ELSE x \in strangers

\* The problems of the assessment are distinct.
ProblemsDistinct == Cardinality(Ids(problems)) = Len(problems)

FormSound == AssignmentsStay /\ SaveCanSucceed /\ ProblemsDistinct

\* Behind it: a problem of the form that is not offered is one of those stored, and a user
\* who is not listed was chosen from the start.
Entries == [id : Problems, points : {50, 100}]
Distinct(ps) == \A i, j \in DOMAIN ps : ps[i].id = ps[j].id => i = j
FormInv ==
    /\ live \in SUBSET Problems /\ chosen \in SUBSET Users
    /\ problems \in Seq(Entries) /\ form \in Seq(Entries)
    /\ people \in [Users -> {"candidate", "staff", "gone"}]
    /\ DOMAIN assigned = Users
    /\ AssignmentsStay
    /\ Distinct(problems) /\ Distinct(form)
    /\ page # "away" => Ids(form) \subseteq Ids(problems) \cup (IF offered = None THEN {} ELSE offered)
    /\ listed # None => chosen \subseteq listed \cup strangers
=============================================================================
