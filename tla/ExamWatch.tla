------------------------------ MODULE ExamWatch ------------------------------
(***************************************************************************)
(* How the exam page watches the candidate (attempts/[id]/page.tsx): it     *)
(* tells the timeline when the page is hidden or its window left, for how    *)
(* long the pointer is out of it, and when its size changes.  What happens   *)
(* to the window is up to the candidate; "blur", "focus" and the change of   *)
(* visibility are separate events, and the 150 ms after a blur, during which *)
(* the page waits to tell a tab left from a window left, may be cut short by  *)
(* any of them.  What is told is a POST nobody waits for and nobody repeats: *)
(* it reaches the timeline sooner or later, or is lost.                      *)
(***************************************************************************)
EXTENDS Integers, Sequences, SequencesExt

CONSTANTS
    MaxSize,    \* bound: sizes of the window are 0..MaxSize
    Slight,     \* the changes of size that are not worth telling
    MaxOrphans, \* bound: blur timers nobody can clear any more
    MaxOlder,   \* bound: POSTs of earlier sizes still under way
    MaxLoads    \* bound: times the page is loaded

VARIABLES
    (* the window *)
    visible,    \* document.visibilityState
    focused,    \* whether it has the focus
    pointer,    \* in, out, or out for three seconds and more
    size,       \* its size
    (* the page *)
    loads,      \* how often it was loaded
    away,       \* away: none, or the kind of absence
    blurTimer,  \* the timer of the last blur is running
    orphans,    \* those of earlier blurs that are
    lastSize,   \* lastSize
    resizeTimer,\* the change of size is yet to be looked at
    (* history *)
    tellings,   \* records of the last absence that reach the timeline
    missed,     \* those that are lost
    newest,     \* the last size that was posted (lastSize): carried, told, or astray:
                \* lost or overtaken by an earlier one
    older,      \* the earlier ones under way
    toldSize,   \* the size the timeline was told last, or the page was loaded with
    oddities    \* what can lead the watch astray

window == <<visible, focused, pointer, size>>
watch  == <<away, blurTimer, orphans, lastSize, resizeTimer>>
told   == <<tellings, missed>>
sizes  == <<newest, older, toldSize>>
watchVars == <<window, loads, watch, told, sizes, oddities>>

----------------------------------------------------------------------------
Present == visible /\ focused
\* What a candidate who is present begins now is not told yet.
Leaving(n) == IF Present THEN 0 ELSE n
\* Bound: two records and more are all the same.
Enough(n) == n >= 2
Oddity(cond, what) == IF cond THEN {what} ELSE {}

Init ==
    /\ visible \in BOOLEAN /\ focused \in BOOLEAN /\ (focused => visible)
    /\ pointer = "in"
    /\ size = 0
    /\ loads = 0
    /\ away = "none" /\ blurTimer = FALSE /\ orphans = 0
    /\ lastSize = 0 /\ resizeTimer = FALSE
    /\ tellings = 0 /\ missed = 0
    /\ newest = "told" /\ older = <<>> /\ toldSize = 0
    /\ oddities = {}

Loaded == loads > 0

\* The POST of the newest size, when another one is made or the page is left.
Behind == IF newest = "carried" THEN Append(older, lastSize) ELSE older

\* The listeners start from nothing, whatever the window is like.
Load ==
    /\ loads < MaxLoads
    /\ loads' = loads + 1
    /\ away' = "none" /\ blurTimer' = FALSE /\ orphans' = 0
    /\ lastSize' = size /\ toldSize' = size /\ resizeTimer' = FALSE
    /\ newest' = "told" /\ older' = Behind /\ Len(Behind) <= MaxOlder
    /\ pointer' = "in"
    /\ tellings' = 0 /\ missed' = 0
    /\ oddities' = Oddity(~Present, "background")
    /\ UNCHANGED <<visible, focused, size>>

----------------------------------------------------------------------------
(* The absences *)

\* The POST of one more record of an absence; its failure is swallowed.
record(reached, lost) ==
    \/ Enough(reached + lost) /\ tellings' = reached /\ missed' = lost
    \/ ~Enough(reached + lost) /\ tellings' = reached + 1 /\ missed' = lost
    \/ ~Enough(reached + lost) /\ tellings' = reached /\ missed' = lost + 1

\* What begins without a record.
Begin == tellings' = Leaving(tellings) /\ missed' = Leaving(missed)

\* Mutant: whatever is told already.
goAwayAgain(kind) == away' = kind /\ record(Leaving(tellings), Leaving(missed))
\* One record at the start of an absence, none while it lasts.
goAway(kind) ==
    IF away = "none"
    THEN away' = kind /\ record(Leaving(tellings), Leaving(missed))
    ELSE away' = away /\ Begin

comeBack == away' = "none"

\* The timer of an earlier blur can no longer be cleared.
Blur ==
    /\ Loaded /\ focused
    /\ blurTimer => orphans < MaxOrphans
    /\ focused' = FALSE
    /\ blurTimer' = TRUE
    /\ orphans' = IF blurTimer THEN orphans + 1 ELSE orphans
    /\ Begin
    /\ UNCHANGED <<visible, pointer, size, loads, away, lastSize, resizeTimer, sizes, oddities>>

\* It is a window that was left, if the page is still to be seen.
BlurTold ==
    IF visible THEN goAway("window") ELSE UNCHANGED <<away, told>>

BlurTimer ==
    /\ blurTimer
    /\ blurTimer' = FALSE
    /\ BlurTold
    /\ UNCHANGED <<window, loads, orphans, lastSize, resizeTimer, sizes, oddities>>

Orphan ==
    /\ orphans > 0
    /\ orphans' = orphans - 1
    /\ BlurTold
    /\ UNCHANGED <<window, loads, blurTimer, lastSize, resizeTimer, sizes, oddities>>

\* Whatever the absence; the timer of the blur goes on.
Focus ==
    /\ Loaded /\ visible /\ ~focused
    /\ focused' = TRUE
    /\ comeBack
    /\ oddities' = oddities \cup Oddity(blurTimer \/ orphans > 0, "hasty")
                            \cup Oddity(pointer # "in", "pointer")
    /\ UNCHANGED <<visible, pointer, size, loads, blurTimer, orphans, lastSize, resizeTimer, told, sizes>>

\* The tab is left: with a blur before, a blur after, or none.
Hide ==
    /\ Loaded /\ visible
    /\ visible' = FALSE
    /\ blurTimer' = FALSE
    /\ goAway("tab")
    /\ UNCHANGED <<focused, pointer, size, loads, orphans, lastSize, resizeTimer, sizes, oddities>>

Show ==
    /\ Loaded /\ ~visible
    /\ visible' = TRUE
    /\ IF away = "tab" THEN comeBack ELSE UNCHANGED away
    /\ oddities' = oddities \cup Oddity(~focused, "unfocused")
                            \cup Oddity(focused /\ pointer # "in", "pointer")
    /\ UNCHANGED <<focused, pointer, size, loads, blurTimer, orphans, lastSize, resizeTimer, told, sizes>>

----------------------------------------------------------------------------
(* The pointer *)

MouseLeave ==
    /\ Loaded /\ pointer = "in"
    /\ pointer' = "out"
    /\ Begin
    /\ UNCHANGED <<visible, focused, size, loads, watch, sizes, oddities>>

ThreeSeconds ==
    /\ pointer = "out"
    /\ pointer' = "long"
    /\ UNCHANGED <<visible, focused, size, loads, watch, told, sizes, oddities>>

\* Told when no absence is being told; one that is over is told again.
MouseEnter ==
    /\ Loaded /\ visible /\ pointer # "in"
    /\ pointer' = "in"
    /\ IF pointer = "long" /\ away = "none" /\ tellings + missed > 0
       THEN record(tellings, missed)
       ELSE UNCHANGED told
    /\ UNCHANGED <<visible, focused, size, loads, watch, sizes, oddities>>

----------------------------------------------------------------------------
(* The size *)

Distance(a, b) == IF a > b THEN a - b ELSE b - a

Resize ==
    /\ Loaded
    /\ size' \in (0..MaxSize) \ {size}
    /\ resizeTimer' = TRUE
    /\ UNCHANGED <<visible, focused, pointer, loads, away, blurTimer, orphans, lastSize, told, sizes, oddities>>

\* lastSize is the size that was posted, whether or not the POST arrives.
SizeTold == IF Distance(size, lastSize) > Slight THEN size ELSE lastSize

ResizeTimer ==
    /\ resizeTimer
    /\ resizeTimer' = FALSE
    /\ lastSize' = SizeTold
    /\ IF Distance(size, lastSize) > Slight
       THEN newest' = "carried" /\ older' = Behind /\ Len(Behind) <= MaxOlder
       ELSE UNCHANGED <<newest, older>>
    /\ UNCHANGED <<window, loads, away, blurTimer, orphans, told, toldSize, oddities>>

\* The POST of the newest size reaches the timeline, or is lost.
SizeArrives ==
    /\ newest = "carried"
    /\ \/ newest' = "told" /\ toldSize' = lastSize
       \/ newest' = "astray" /\ UNCHANGED toldSize
    /\ UNCHANGED <<window, loads, watch, told, older, oddities>>

\* So does an earlier one, whenever it does.
OlderArrives(i) ==
    /\ older' = RemoveAt(older, i)
    /\ \/ toldSize' = older[i] /\ newest' = IF newest = "told" THEN "astray" ELSE newest
       \/ UNCHANGED <<newest, toldSize>>
    /\ UNCHANGED <<window, loads, watch, told, oddities>>

----------------------------------------------------------------------------
Next ==
    \/ Load
    \/ Blur \/ BlurTimer \/ Orphan \/ Focus \/ Hide \/ Show
    \/ MouseLeave \/ ThreeSeconds \/ MouseEnter
    \/ Resize \/ ResizeTimer \/ SizeArrives
    \/ \E i \in DOMAIN older : OlderArrives(i)

Spec == Init /\ [][Next]_watchVars

----------------------------------------------------------------------------
(* Properties *)

\* "Blur and visibilitychange may both fire: one state machine, no double record":
\* once the blur timers have run out, exactly one record of an absence in progress was
\* posted, which the timeline has or which was lost, and a candidate who is present is
\* not taken for absent.  Not so for a page that was loaded in the background, came into
\* view without the focus, or got the focus back before the timer of its blur.  No second
\* record of an absence is posted, unless the page came into view without the focus, or
\* the pointer was out of it when it ended.
AbsenceToldOnce ==
    /\ Loaded /\ ~blurTimer /\ orphans = 0 /\ oddities \cap {"background", "unfocused", "hasty"} = {}
          => IF Present THEN away = "none" ELSE away # "none" /\ tellings + missed = 1
    /\ oddities \cap {"unfocused", "pointer"} = {} => tellings + missed <= 1

\* However slowly the window is resized: once the timer has run out, what the timeline was
\* told last does not differ from the size by more than a slight change, unless the newest
\* record is still under way, was lost, or was overtaken by an earlier one.  A record that
\* was lost or overtaken is made up for by the next.
SizeDriftTold == Loaded /\ ~resizeTimer /\ newest = "told" => Distance(size, toldSize) <= Slight

WatchSound == AbsenceToldOnce /\ SizeDriftTold

----------------------------------------------------------------------------
(* The invariant the proofs use *)

Unhurried == "hasty" \notin oddities
Followed  == Unhurried /\ "background" \notin oddities /\ "unfocused" \notin oddities
Steady    == "unfocused" \notin oddities /\ "pointer" \notin oddities

TypeOK ==
    /\ size \in Int /\ lastSize \in Int
    /\ loads \in Nat /\ orphans \in Nat /\ tellings \in 0..2 /\ missed \in 0..2

\* Unless the focus came back early, timers run only while the window has none.
TimerInv == Unhurried => orphans = 0 /\ (focused => ~blurTimer)

\* An absence is recorded, or the timer that will record it runs.
AwayInv ==
    Loaded /\ Followed =>
        /\ IF Present THEN away = "none"
           ELSE IF away = "none" THEN visible /\ blurTimer /\ tellings + missed = 0 ELSE tellings + missed = 1
        /\ focused => away \in {"none", "tab"}

\* What would be recorded next has no record yet.
OnceInv ==
    Steady =>
        /\ tellings + missed <= 1
        /\ away = "none" /\ (~Present \/ pointer # "in") => tellings + missed = 0

SizeInv == (newest = "told" => lastSize = toldSize) /\ (~resizeTimer => Distance(size, lastSize) <= Slight)

WatchInv == TypeOK /\ TimerInv /\ AwayInv /\ OnceInv /\ SizeInv
=============================================================================
