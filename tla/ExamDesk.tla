------------------------------ MODULE ExamDesk ------------------------------
(***************************************************************************)
(* What the candidate has in front of them on the exam page                 *)
(* (attempts/[id]/page.tsx, Timer.tsx): the problem, the tab of the left     *)
(* panel, the reference files opened in the middle, the report's preview,    *)
(* the chat panel, and the countdown.                                       *)
(***************************************************************************)
EXTENDS Integers, Sequences, Functions, Lists

CONSTANTS
    Problems, FirstProblem,
    Reports,    \* those whose deliverable is a report
    Files,      \* Files[p]: the paths of p's reference files
    NoDoc,      \* activeDoc is null: the editor is shown
    Aided,      \* attempt.mode is "ai_assisted"
    Deadlines,  \* bound: the deadlines looked at
    MaxLatency  \* bound: how long the attempt takes to arrive

\* Time is counted in quarters of a second since the server answered.
Second == 4

VARIABLES
    problem,   \* the problem at activeIdx
    leftTab,   \* leftTab
    openDocs,  \* openDocs
    activeDoc, \* activeDoc
    preview,   \* the report is previewed
    showChat,  \* showChat
    deadline,  \* deadline_at
    clock,     \* now
    endAt,     \* endAtRef
    timer      \* waits for the attempt, runs, or has expired

tabs     == <<problem, leftTab, openDocs, activeDoc, preview>>
countdown == <<deadline, clock, endAt, timer>>
deskVars == <<tabs, showChat, countdown>>

Paths == UNION {Files[p] : p \in Problems}

----------------------------------------------------------------------------
\* What the middle shows: a file, the report or the code.
Centre(doc, p) ==
    IF doc \in Files[p] THEN "viewer" ELSE IF p \in Reports THEN "report" ELSE "code"
\* The preview goes when the report is no longer there.
KeepPreview(doc, p) == preview' = (preview /\ Centre(doc, p) = "report")

\* The tabs: the open files that the problem has.
Listed == Range(openDocs) \cap Files[problem]

\* remaining_seconds is rounded down by the server.
Remaining == deadline \div Second
\* Mutant: rounded down here, too.
LeftDown == (endAt - clock) \div Second
\* Math.round
Left == (endAt - clock + Second \div 2) \div Second

Init ==
    /\ problem = FirstProblem
    /\ leftTab = "statement"
    /\ openDocs = <<>> /\ activeDoc = NoDoc
    /\ preview = FALSE
    /\ showChat = TRUE
    /\ deadline \in Deadlines
    /\ clock = 0 /\ endAt = 0 /\ timer = "waiting"

OnPage == timer = "running"

----------------------------------------------------------------------------
\* Also to the problem that is shown already.
switchProblem(p) ==
    /\ OnPage
    /\ problem' = p
    /\ activeDoc' = NoDoc /\ openDocs' = <<>>
    /\ leftTab' = "statement"
    /\ KeepPreview(NoDoc, p)
    /\ UNCHANGED <<showChat, countdown>>

setLeftTab(tab) ==
    /\ OnPage
    /\ leftTab' = tab
    /\ UNCHANGED <<problem, openDocs, activeDoc, preview, showChat, countdown>>

openRef(path) ==
    /\ OnPage
    /\ leftTab = "reference"
    /\ path \in Files[problem]
    /\ openDocs' = IF path \in Range(openDocs) THEN openDocs ELSE Append(openDocs, path)
    /\ activeDoc' = path
    /\ KeepPreview(path, problem)
    /\ UNCHANGED <<problem, leftTab, showChat, countdown>>

\* Back to the editor, if it was shown.
AfterClosing(path) == IF activeDoc = path THEN NoDoc ELSE activeDoc

closeRef(path) ==
    /\ OnPage
    /\ path \in Listed
    /\ openDocs' = Kept(openDocs, {i \in DOMAIN openDocs : openDocs[i] # path})
    /\ activeDoc' = AfterClosing(path)
    /\ KeepPreview(AfterClosing(path), problem)
    /\ UNCHANGED <<problem, leftTab, showChat, countdown>>

setActiveDoc(doc) ==
    /\ OnPage
    /\ doc \in Listed \cup {NoDoc}
    /\ activeDoc' = doc
    /\ KeepPreview(doc, problem)
    /\ UNCHANGED <<problem, leftTab, openDocs, showChat, countdown>>

togglePreview ==
    /\ OnPage
    /\ Centre(activeDoc, problem) = "report"
    /\ preview' = ~preview
    /\ UNCHANGED <<problem, leftTab, openDocs, activeDoc, showChat, countdown>>

toggleChat ==
    /\ OnPage
    /\ Aided
    /\ showChat' = ~showChat
    /\ UNCHANGED <<tabs, countdown>>

----------------------------------------------------------------------------
Pass ==
    /\ timer # "expired"
    /\ clock < deadline + Second
    /\ clock' = clock + 1
    /\ UNCHANGED <<tabs, showChat, deadline, endAt, timer>>

\* The attempt arrives, and the countdown starts from here.
Arrive ==
    /\ timer = "waiting"
    /\ clock <= MaxLatency
    /\ timer' = "running"
    /\ endAt' = clock + Remaining * Second
    /\ UNCHANGED <<tabs, showChat, deadline, clock>>

\* Looked at every half second, or later if the browser sleeps; once.
Expire ==
    /\ timer = "running"
    /\ Left <= 0
    /\ timer' = "expired"
    /\ UNCHANGED <<tabs, showChat, deadline, clock, endAt>>

Next ==
    \/ \E p \in Problems : switchProblem(p)
    \/ \E tab \in {"statement", "reference", "grading"} : setLeftTab(tab)
    \/ \E path \in Paths :
          openRef(path) \/ closeRef(path)
    \/ \E doc \in Paths \cup {NoDoc} : setActiveDoc(doc)
    \/ togglePreview \/ toggleChat
    \/ Pass \/ Arrive \/ Expire

Spec == Init /\ [][Next]_deskVars

----------------------------------------------------------------------------
(* Properties *)

\* Whatever is opened, closed and switched: the file in the middle is one of the
\* problem's and has a tab that closes it; no file has two tabs; a preview is of a
\* report that is shown.
DeskConsistent ==
    /\ activeDoc \in Listed \cup {NoDoc}
    /\ IsInjective(openDocs)
    /\ preview => Centre(activeDoc, problem) = "report"

\* The countdown never takes a second and a half or more from the candidate: less
\* than one for rounding the remaining time down, half a second for rounding what is
\* left.
NotEndedEarly == timer = "expired" => clock + Second + Second \div 2 > deadline

DeskSound == DeskConsistent /\ NotEndedEarly

\* Behind it: the countdown starts when the attempt arrives, not before the server
\* answered, from the whole seconds that were left then.
DeskInv ==
    /\ openDocs \in Seq(Paths) /\ preview \in BOOLEAN
    /\ deadline \in Nat /\ clock \in Nat /\ endAt \in Nat
    /\ timer # "waiting" => endAt >= Remaining * Second
    /\ DeskSound
=============================================================================
