----------------------------- MODULE EditorState -----------------------------
(***************************************************************************)
(* What a candidate types in one problem of one attempt, on its way from    *)
(* the exam page (attempts/[id]/page.tsx) to the row the reviewer reads     *)
(* (attempt_problem_states, written by routers/attempts.py).                *)
(*                                                                         *)
(* The page sends two kinds of call without waiting for an answer: code     *)
(* snapshots (one language, also an event of the timeline) and saves of the *)
(* state (every language).  The server handles the calls side by side, each *)
(* as select, merge in memory, write.                                       *)
(***************************************************************************)
EXTENDS Naturals, Sequences, SequencesExt

CONSTANTS
    Langs,      \* languages of the editor
    FirstLang,  \* the language of a fresh page: "python"
    None,       \* no row, no mark
    MaxEdits,   \* bound: edits and language changes of the candidate
    MaxCalls,   \* bound: calls in flight, one more for Finish
    MayFail     \* whether one call or page may be lost (bound: one)

ASSUME LangAssumption  == FirstLang \in Langs
ASSUME BoundAssumption == {MaxEdits, MaxCalls} \subseteq Nat /\ MayFail \in BOOLEAN

VARIABLES
    at,        \* where the candidate is: at this problem, at another, ...
    lang,      \* language of the editor
    text,      \* text[l]: the edit that made the code of language l, 0 = starter code
    marked,    \* lastStateSaveRef: what the last save sent
    snapped,   \* lastSnapshotRef: what the last snapshot sent
    timer,     \* saveTimerRef: the debounced save is due
    calls,     \* the calls in flight, in the order of sending
    row,       \* the row of this problem
    status,    \* status of the attempt
    edits,     \* edits made so far
    failed,    \* history: a call failed or a page was lost
    order      \* history: how the calls were handled so far

page  == <<at, lang, text, marked, snapped, timer>>
typed == <<lang, text, edits>>
store == <<row, status>>
vars  == <<page, calls, store, edits, failed, order>>

----------------------------------------------------------------------------
(* Data *)

Places == {"closed", "shown", "hidden", "finished"}
OnPage == at \in {"shown", "hidden"}

Texts  == [Langs -> Nat]
Code   == [lang : Langs, code : Nat]
Whole  == [lang : Langs, text : Texts]
Row    == [lang : Langs, code : Nat, byLang : Texts]

ASSUME NoneAssumption == None \notin Row \cup Whole \cup Code

\* A call in flight: langs are the languages whose text it sends; row the copy the
\* handler selected; heard whether the page waits to learn that this save failed.
Call   == [kind  : {"snapshot", "save", "finish"},
           step  : {"sent", "admitted", "selected"},
           lang  : Langs,
           langs : SUBSET Langs,
           text  : Texts,
           row   : Row \cup {None},
           heard : BOOLEAN]

\* One after the other; one stored while an earlier one, or one of the page before,
\* was in flight; one that wrote over a row changed since it selected it.
Orders == {"serial", "crossed", "stale"}

Blank == [l \in Langs |-> 0]

Init ==
    /\ at = "closed"
    /\ lang = FirstLang
    /\ text = Blank
    /\ marked = None
    /\ snapped = None
    /\ timer = FALSE
    /\ calls = <<>>
    /\ row = None
    /\ status = "in_progress"
    /\ edits = 0
    /\ failed = FALSE
    /\ order = "serial"

----------------------------------------------------------------------------
(* What the page sends *)

Shown == [lang |-> lang, code |-> text[lang]]
All   == [lang |-> lang, text |-> text]

NewCall(kind, langs, heard) ==
    [kind |-> kind, step |-> "sent", lang |-> lang, langs |-> langs,
     text |-> [l \in Langs |-> IF l \in langs THEN text[l] ELSE 0],
     row |-> None, heard |-> heard]

Snapshot(force) ==
    IF force \/ snapped # Shown
    THEN <<NewCall("snapshot", {lang}, FALSE)>> ELSE <<>>

\* Mutant: only the language is compared with the mark.
SaveLanguage(force) ==
    IF force \/ marked = None \/ (marked # None /\ marked.lang # lang)
    THEN <<NewCall("save", Langs, TRUE)>> ELSE <<>>
SaveState(force) ==
    IF force \/ marked # All
    THEN <<NewCall("save", Langs, TRUE)>> ELSE <<>>

\* Mutant: only the language shown is sent.
BeaconShown == <<NewCall("save", {lang}, FALSE)>>
Beacon == <<NewCall("save", Langs, FALSE)>>

\* A page that is gone hears no answers, and its timer and marks are gone with it.
Unheard(s) == [i \in DOMAIN s |-> [s[i] EXCEPT !.heard = FALSE]]
Forget == timer' = FALSE /\ marked' = None /\ snapped' = None

Send(s) ==
    /\ Len(calls) + Len(s) <= MaxCalls
    /\ calls' = calls \o s

SendBoth(force) ==
    /\ Send(Snapshot(force) \o SaveState(force))
    /\ snapped' = Shown
    /\ marked' = All

----------------------------------------------------------------------------
(* The exam page *)

\* The page loads the attempt, and the saved state over the starter code.
Open ==
    /\ at \in {"closed", "finished"}
    /\ status = "in_progress"
    /\ at' = "shown"
    /\ IF row = None
       THEN lang' = FirstLang /\ text' = Blank
       ELSE lang' = row.lang /\ text' = [row.byLang EXCEPT ![row.lang] = row.code]
    /\ Forget
    /\ order' = IF calls # <<>> /\ order = "serial" THEN "crossed" ELSE order
    /\ UNCHANGED <<calls, store, edits, failed>>

Edit ==
    /\ at = "shown"
    /\ edits < MaxEdits
    /\ edits' = edits + 1
    /\ text' = [text EXCEPT ![lang] = edits + 1]
    /\ timer' = TRUE
    /\ UNCHANGED <<at, lang, marked, snapped, calls, store, failed, order>>

Other == Langs \ {lang}

ChangeLanguage ==
    /\ at = "shown"
    /\ edits < MaxEdits
    /\ edits' = edits + 1
    /\ \E l \in Other : lang' = l
    /\ timer' = TRUE
    /\ UNCHANGED <<at, text, marked, snapped, calls, store, failed, order>>

TimerFires ==
    /\ OnPage
    /\ timer
    /\ timer' = FALSE
    /\ Send(SaveState(FALSE))
    /\ marked' = All
    /\ UNCHANGED <<at, typed, snapped, store, failed, order>>

\* To another problem, which saves this one, and back.
SwitchAway ==
    /\ at = "shown"
    /\ at' = "hidden"
    /\ Send(SaveState(FALSE))
    /\ marked' = All
    /\ UNCHANGED <<typed, snapped, timer, store, failed, order>>

SwitchBack ==
    /\ at = "hidden"
    /\ at' = "shown"
    /\ UNCHANGED <<typed, marked, snapped, timer, calls, store, failed, order>>

\* The one timer of the page is restarted for another problem.
EditOther ==
    /\ at = "hidden"
    /\ timer
    /\ timer' = FALSE
    /\ UNCHANGED <<at, typed, marked, snapped, calls, store, failed, order>>

Interval ==
    /\ OnPage
    /\ snapped # Shown
    /\ Send(Snapshot(FALSE))
    /\ snapped' = Shown
    /\ UNCHANGED <<at, typed, marked, timer, store, failed, order>>

\* The dialog that ends the exam is opened.
FlushAll ==
    /\ OnPage
    /\ SendBoth(FALSE)
    /\ UNCHANGED <<at, typed, timer, store, failed, order>>

\* Run, submit, or submit the report; the execution itself is not here.
Execute ==
    /\ at = "shown"
    /\ SendBoth(TRUE)
    /\ UNCHANGED <<at, typed, timer, store, failed, order>>

\* Three calls in a row, none awaited before the next; then to the dashboard.
Finish ==
    /\ OnPage
    /\ Len(calls) + 3 <= MaxCalls + 1
    /\ at' = "finished"
    /\ calls' = Unheard(calls \o Snapshot(TRUE) \o SaveState(TRUE)
                        \o <<NewCall("finish", {}, FALSE)>>)
    /\ Forget
    /\ UNCHANGED <<typed, store, failed, order>>

\* beforeunload asks the candidate, who stays.
StayAfterAll ==
    /\ OnPage
    /\ Send(Beacon)
    /\ UNCHANGED <<page, store, edits, failed, order>>

\* pagehide: the page sends a last state and is gone.
Leave ==
    /\ OnPage
    /\ Len(calls) < MaxCalls
    /\ at' = "closed"
    /\ calls' = Unheard(calls) \o Beacon
    /\ Forget
    /\ UNCHANGED <<typed, store, failed, order>>

\* The browser dies.
Vanish ==
    /\ OnPage
    /\ MayFail /\ ~failed
    /\ failed' = TRUE
    /\ at' = "closed"
    /\ calls' = Unheard(calls)
    /\ Forget
    /\ UNCHANGED <<typed, store, order>>

----------------------------------------------------------------------------
(* The server *)

\* A save that fails while the page listens takes the mark away, whatever was
\* marked since.
\* Mutant: the failure is not caught.
StillMarked(i) == marked
Unmarked(i) == IF calls[i].heard THEN None ELSE marked

End(i, refused) ==
    /\ calls' = RemoveAt(calls, i)
    /\ marked' = IF refused THEN Unmarked(i) ELSE marked

\* get_attempt_for; a closed attempt is answered and nothing is stored.
Admit(i) ==
    /\ calls[i].step = "sent"
    /\ IF status = "in_progress"
       THEN /\ calls' = [calls EXCEPT ![i].step = "admitted"]
            /\ UNCHANGED marked
       ELSE End(i, FALSE)
    /\ UNCHANGED <<at, typed, snapped, timer, store, failed, order>>

Select(i) ==
    /\ calls[i].step = "admitted"
    /\ calls[i].kind # "finish"
    /\ calls' = [calls EXCEPT ![i].step = "selected", ![i].row = row]
    /\ UNCHANGED <<page, store, edits, failed, order>>

\* _upsert_state: the languages sent over those of the selected row.
\* Mutant: not merged.
Alone(c, old) == [l \in Langs |-> IF l \in c.langs THEN c.text[l] ELSE 0]
Over(c, old) == [l \in Langs |-> IF l \in c.langs THEN c.text[l] ELSE old[l]]

Upserted(c) ==
    [lang   |-> c.lang,
     code   |-> c.text[c.lang],
     byLang |-> Over(c, IF c.row = None THEN Blank ELSE c.row.byLang)]

\* An insert, or an update of the columns that differ from the selected ones.
Column(current, selected, new) == IF new = selected THEN current ELSE new

Written(c) ==
    LET new == Upserted(c) IN
    IF c.row = None THEN new
    ELSE [lang   |-> Column(row.lang, c.row.lang, new.lang),
          code   |-> Column(row.code, c.row.code, new.code),
          byLang |-> Column(row.byLang, c.row.byLang, new.byLang)]

\* The commit of an insert, refused when another call has inserted the row.
Refuse(i) ==
    /\ calls[i].step = "selected"
    /\ calls[i].row = None
    /\ row # None
    /\ End(i, TRUE)
    /\ failed' = TRUE
    /\ UNCHANGED <<at, typed, snapped, timer, store, order>>

Store(i) ==
    /\ calls[i].step = "selected"
    /\ calls[i].row = None => row = None
    /\ row' = Written(calls[i])
    /\ order' = IF calls[i].row # row THEN "stale"
                ELSE IF i > 1 /\ order = "serial" THEN "crossed" ELSE order
    /\ End(i, FALSE)
    /\ UNCHANGED <<at, typed, snapped, timer, status, failed>>

\* finish_attempt: the attempt it has loaded was open.
CloseExam(i) ==
    /\ calls[i].step = "admitted"
    /\ calls[i].kind = "finish"
    /\ status' = "submitted"
    /\ End(i, FALSE)
    /\ UNCHANGED <<at, typed, snapped, timer, row, failed, order>>

Serve(i) == i \in DOMAIN calls /\ (Admit(i) \/ Select(i) \/ Refuse(i) \/ Store(i) \/ CloseExam(i))

\* The connection or the API process fails: the page is told so, and the call is
\* lost or goes on.
FailCall(i) ==
    /\ MayFail /\ ~failed
    /\ failed' = TRUE
    /\ \/ End(i, TRUE)
       \/ /\ calls' = [calls EXCEPT ![i].heard = FALSE]
          /\ marked' = Unmarked(i)
    /\ UNCHANGED <<at, typed, snapped, timer, store, order>>

\* check_expired, in whatever request comes first after the deadline.
Expire ==
    /\ status = "in_progress"
    /\ status' = "expired"
    /\ UNCHANGED <<page, calls, row, edits, failed, order>>

Exam ==
    \/ Open \/ Edit \/ ChangeLanguage \/ TimerFires
    \/ SwitchAway \/ SwitchBack \/ EditOther
    \/ Interval \/ FlushAll \/ Execute \/ Finish
    \/ StayAfterAll \/ Leave \/ Vanish

Next ==
    \/ Exam
    \/ \E i \in DOMAIN calls : Serve(i) \/ FailCall(i)
    \/ Expire

Spec == Init /\ [][Next]_vars

----------------------------------------------------------------------------
(* Properties *)

\* Every variable keeps its type.
TypeOK ==
    /\ at \in Places
    /\ lang \in Langs
    /\ text \in Texts
    /\ marked \in Whole \cup {None}
    /\ snapped \in Code \cup {None}
    /\ timer \in BOOLEAN
    /\ calls \in Seq(Call)
    /\ row \in Row \cup {None}
    /\ status \in {"in_progress", "submitted", "expired"}
    /\ edits \in Nat
    /\ failed \in BOOLEAN
    /\ order \in Orders

Quiet == calls = <<>>
Open_ == status = "in_progress"

\* The row's code is the code of the row's language, so that the page restores and
\* the reviewer reads the same text, unless a handler wrote over a row changed since
\* it selected it: the ORM then leaves columns as another call set them.
RowIsWhole == row # None /\ order # "stale" => row.code = row.byLang[row.lang]

\* lastStateSaveRef is to be trusted: when it says the state is saved and no call is
\* in flight, the row holds every language as the page does, whatever calls failed,
\* as long as the calls were handled one after the other.
MarkMeansStored ==
    OnPage /\ Quiet /\ Open_ /\ marked = All /\ order = "serial"
        => row # None /\ row.byLang = text

\* Calls handled one after the other never put an older text in the place of a newer
\* one, across snapshots, saves, beacons, reloads and lost calls.
StoredTextAdvances ==
    [][order' = "serial" /\ row # None
        => row' # None /\ \A l \in Langs : row'.byLang[l] >= row.byLang[l]]_vars

\* A candidate who leaves and comes back finds language and code as they were: the
\* beacon, the merge and the loading undo each other.
ReopenedAsLeft ==
    [][at = "closed" /\ at' = "shown" /\ ~failed /\ order' = "serial"
        => lang' = lang /\ text' = text]_vars

\* What is typed reaches the row without any further action of the candidate, who
\* may change language, go to another problem and type there: as long as calls are
\* handled one after the other and none fails, a text that is not in the row is in a
\* call in flight, or the save timer is running.
InRow(l)    == IF row = None THEN 0 ELSE row.byLang[l]
InFlight(l) == \E i \in DOMAIN calls : l \in calls[i].langs /\ calls[i].text[l] = text[l]
WorkOnItsWay ==
    OnPage /\ Open_ /\ order = "serial" /\ ~failed
        => timer \/ \A l \in Langs : InRow(l) = text[l] \/ InFlight(l)

\* models.py: the row is the final code for the review.  Not so: the calls of Finish
\* race, and the one that closes the attempt may be the first to be admitted.
FinalCode ==
    at = "finished" /\ status = "submitted" /\ Quiet /\ ~failed /\ order = "serial"
        => \/ text[lang] = 0
           \/ row # None /\ row.byLang[lang] = text[lang]
=============================================================================
