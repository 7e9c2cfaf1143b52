----------------------------- MODULE ReviewRoom -----------------------------
(***************************************************************************)
(* The page on which an evaluator reviews an attempt                        *)
(* (review/attempts/[id]/page.tsx) with its snapshot player, and the         *)
(* endpoints behind its two forms: the automatic evaluation and the          *)
(* evaluator's opinion.  The attempt may still be going on: the candidate    *)
(* saves snapshots, other evaluators store opinions.                         *)
(***************************************************************************)
EXTENDS Integers, Sequences, FiniteSets, SequencesExt

CONSTANTS
    ProblemList,  \* detail.problems, in their order
    Recorded,     \* how many snapshots of each there are when the page is opened
    MaxSnapshots, \* bound: snapshots of a problem
    MaxOpinions,  \* bound: texts typed
    MaxCalls,     \* bound: evaluations and opinions asked for, or stored by others
    MaxMishaps    \* bound: requests that fail or whose answer is lost

Problems == ToSet(ProblemList)

VARIABLES
    (* Postgres *)
    snapshots, \* snapshots[p]: how many code_snapshot events there are
    stored,    \* the evaluations: 0 an automatic one, -1 somebody else's, else the opinion
    (* the page *)
    detail,    \* what of them it has loaded
    loads,     \* the loads under way
    tab,       \* the tab shown
    filter,    \* problemFilter
    idx,       \* SnapshotPlayer: the position
    playing,   \* SnapshotPlayer: whether it runs
    text,      \* OverviewTab: the opinion typed; 0 if empty
    busy,      \* OverviewTab: what it waits for, busy and evalBusy
    mount,     \* which OverviewTab it is: a new one each time the tab is opened
    posts,     \* the evaluations and opinions under way
    (* history *)
    typed,     \* texts typed so far
    given,     \* texts the evaluator has replaced, or typed while one was being saved or left behind
    asked,     \* requests so far
    mishaps    \* what went wrong, or overlapped

player == <<idx, playing>>
form   == <<text, busy, mount>>
history == <<typed, given, asked, mishaps>>
reviewVars == <<snapshots, stored, detail, loads, tab, filter, player, form, posts, history>>

Stored == [evaluations |-> Len(stored), snapshots |-> snapshots]

Init ==
    /\ snapshots = Recorded
    /\ stored = <<>>
    /\ detail = Stored /\ loads = <<>>
    /\ tab = "overview" /\ filter = "all"
    /\ idx = 0 /\ playing = FALSE
    /\ text = 0 /\ busy = {} /\ mount = 1
    /\ posts = <<>>
    /\ typed = 0 /\ given = {} /\ asked = 0 /\ mishaps = {}

Mishap(what) == Cardinality(mishaps) < MaxMishaps /\ mishaps' = mishaps \union {what}

----------------------------------------------------------------------------
(* Others *)

CandidateSaves(p) ==
    /\ snapshots[p] < MaxSnapshots
    /\ snapshots' = [snapshots EXCEPT ![p] = @ + 1]
    /\ UNCHANGED <<stored, detail, loads, tab, filter, player, form, posts, history>>

OtherEvaluates ==
    /\ asked < MaxCalls
    /\ asked' = asked + 1
    /\ stored' = Append(stored, -1)
    /\ UNCHANGED <<snapshots, detail, loads, tab, filter, player, form, posts, typed, given, mishaps>>

----------------------------------------------------------------------------
(* What is looked at *)

\* playerProblemId: the player needs a problem.
Played(chosen) == IF chosen = "all" THEN Head(ProblemList) ELSE chosen

\* The effect on the problem and its number of snapshots; it starts at the last one.
Rewind(p, d) ==
    /\ idx' = IF d.snapshots[p] > 0 THEN d.snapshots[p] - 1 ELSE 0
    /\ playing' = FALSE

\* After a change of the player's properties: a new player, the effect, or neither.
PlayerRenders(t, chosen, d) ==
    IF t = "player" /\ (tab # "player" \/ Played(chosen) # Played(filter)
                        \/ d.snapshots[Played(chosen)] # detail.snapshots[Played(filter)])
    THEN Rewind(Played(chosen), d)
    ELSE IF t # "player" THEN idx' = 0 /\ playing' = FALSE ELSE UNCHANGED player

\* The OverviewTab comes and goes with its tab, and with it what was typed.
Leave(t) ==
    IF tab = "overview" /\ t # "overview"
    THEN /\ text' = 0 /\ busy' = {} /\ mount' = mount + 1
         /\ given' = given \union ({text} \ {0})
    ELSE UNCHANGED <<form, given>>

setTab(t) ==
    /\ t # tab /\ mount <= MaxCalls
    /\ tab' = t
    /\ Leave(t) /\ PlayerRenders(t, filter, detail)
    /\ UNCHANGED <<snapshots, stored, detail, loads, filter, posts, typed, asked, mishaps>>

\* The chips of the filter; the player's tab does not offer all.
setProblemFilter(chosen) ==
    /\ tab # "overview"
    /\ chosen # filter /\ (tab = "player" => chosen # "all")
    /\ filter' = chosen
    /\ PlayerRenders(tab, chosen, detail)
    /\ UNCHANGED <<snapshots, stored, detail, loads, tab, form, posts, history>>

openProblemRecords(p) ==
    /\ tab = "overview" /\ mount <= MaxCalls
    /\ filter' = p /\ tab' = "records"
    /\ Leave("records") /\ PlayerRenders("records", p, detail)
    /\ UNCHANGED <<snapshots, stored, detail, loads, posts, typed, asked, mishaps>>

Count == detail.snapshots[Played(filter)]

togglePlay ==
    /\ tab = "player" /\ Count > 0
    /\ playing' = ~playing
    /\ UNCHANGED <<snapshots, stored, detail, loads, tab, filter, idx, form, posts, history>>

\* The interval.
Advance ==
    /\ playing
    /\ IF idx >= Count - 1 THEN playing' = FALSE /\ UNCHANGED idx
                           ELSE idx' = idx + 1 /\ UNCHANGED playing
    /\ UNCHANGED <<snapshots, stored, detail, loads, tab, filter, form, posts, history>>

seek(i) ==
    /\ tab = "player" /\ i < Count /\ i # idx
    /\ idx' = i /\ playing' = FALSE
    /\ UNCHANGED <<snapshots, stored, detail, loads, tab, filter, form, posts, history>>

----------------------------------------------------------------------------
(* Loading: nothing orders the loads *)

ServeLoad(k) ==
    /\ ~loads[k].served
    /\ loads' = [loads EXCEPT ![k] = [served |-> TRUE, answer |-> Stored]]
    /\ UNCHANGED <<snapshots, stored, detail, tab, filter, player, form, posts, history>>

\* setDetail.
Show(k) ==
    /\ loads[k].served
    /\ loads' = RemoveAt(loads, k)
    /\ detail' = loads[k].answer
    /\ PlayerRenders(tab, filter, loads[k].answer)
    /\ UNCHANGED <<snapshots, stored, tab, filter, form, posts, history>>

\* Nothing catches it.
LoadFails(k) ==
    /\ Mishap("load failed")
    /\ loads' = RemoveAt(loads, k)
    /\ UNCHANGED <<snapshots, stored, detail, tab, filter, player, form, posts, typed, given, asked>>

----------------------------------------------------------------------------
(* The two forms *)

\* The text is replaced by another; nothing stops that during a save.
Type ==
    /\ tab = "overview" /\ typed < MaxOpinions
    /\ typed' = typed + 1 /\ text' = typed + 1
    /\ given' = (given \union ({text} \ {0})) \union (IF "opinion" \in busy THEN {typed + 1} ELSE {})
    /\ UNCHANGED <<snapshots, stored, detail, loads, tab, filter, player, busy, mount, posts, asked, mishaps>>

Send(kind, opinion) ==
    /\ tab = "overview" /\ kind \notin busy
    /\ asked < MaxCalls
    /\ asked' = asked + 1
    /\ busy' = busy \union {kind}
    /\ posts' = Append(posts, [kind |-> kind, text |-> opinion, from |-> mount, step |-> "sent"])
    /\ UNCHANGED <<snapshots, stored, detail, loads, tab, filter, player, text, mount, typed, given, mishaps>>

saveHuman == text # 0 /\ Send("opinion", text)
runAutoEval == Send("auto", 0)

\* run_auto_eval: the context, the model's answer, the row; create_evaluation stores at once.
Serve(k) ==
    /\ posts[k].step = "sent"
    /\ posts' = [posts EXCEPT ![k].step = "stored"]
    /\ stored' = Append(stored, posts[k].text)
    /\ UNCHANGED <<snapshots, detail, loads, tab, filter, player, form, history>>

\* 404, 503, or the request never arrived.
ServeFails(k) ==
    /\ posts[k].step = "sent"
    /\ Mishap("refused")
    /\ posts' = [posts EXCEPT ![k].step = "failed"]
    /\ UNCHANGED <<snapshots, stored, detail, loads, tab, filter, player, form, typed, given, asked>>

AnswerLost(k) ==
    /\ posts[k].step = "stored"
    /\ Mishap("answer lost")
    /\ posts' = [posts EXCEPT ![k].step = "failed"]
    /\ UNCHANGED <<snapshots, stored, detail, loads, tab, filter, player, form, typed, given, asked>>

Mounted(post) == post.from = mount /\ tab = "overview"
\* Mutant: in the finally.
ClearedAnyway(post) == IF post.kind = "opinion" THEN 0 ELSE text
\* What the answer does to the form: the text goes once it is stored.
Cleared(post) == IF post.kind = "opinion" /\ post.step = "stored" THEN 0 ELSE text

\* onSaved after a success; the form, if it is still there, is unlocked in any case.
Answer(k) ==
    LET post == posts[k] IN
    /\ post.step \in {"stored", "failed"}
    /\ posts' = RemoveAt(posts, k)
    /\ IF Mounted(post) THEN text' = Cleared(post) /\ busy' = busy \ {post.kind}
                        ELSE UNCHANGED <<text, busy>>
    /\ IF post.step = "stored"
       THEN /\ loads' = Append(loads, [served |-> FALSE, answer |-> detail])
            /\ mishaps' = IF loads = <<>> THEN mishaps ELSE mishaps \union {"loads overlap"}
       ELSE UNCHANGED <<loads, mishaps>>
    /\ UNCHANGED <<snapshots, stored, detail, tab, filter, player, mount, typed, given, asked>>

----------------------------------------------------------------------------
Next ==
    \/ \E p \in Problems : CandidateSaves(p)
    \/ OtherEvaluates
    \/ \E t \in {"overview", "player", "records"} : setTab(t)
    \/ \E chosen \in Problems \union {"all"} : setProblemFilter(chosen)
    \/ \E p \in Problems : openProblemRecords(p)
    \/ togglePlay \/ Advance
    \/ \E i \in 0..MaxSnapshots : seek(i)
    \/ \E k \in DOMAIN loads : ServeLoad(k) \/ Show(k) \/ LoadFails(k)
    \/ Type \/ saveHuman \/ runAutoEval
    \/ \E k \in DOMAIN posts : Serve(k) \/ ServeFails(k) \/ AnswerLost(k) \/ Answer(k)

Spec == Init /\ [][Next]_reviewVars

----------------------------------------------------------------------------
(* Properties *)

\* A text typed is in the form or stored, unless the evaluator replaced it, left the tab,
\* or typed it while an earlier one was being saved, whose success clears the form.
OpinionsKept == \A w \in 1..typed : w \in {text} \union ToSet(stored) \union given

\* An opinion is stored twice only after a success the page was not told of.
OpinionsOnce ==
    \A i, j \in DOMAIN stored :
        stored[i] = stored[j] /\ stored[i] > 0 /\ i # j => "answer lost" \in mishaps

\* At rest the page shows every evaluation it has asked for, unless a load failed, an
\* answer was lost, or two loads overlapped and the older one came last.
ShownIsStored ==
    posts = <<>> /\ loads = <<>> /\ mishaps \subseteq {"refused"} =>
        \A i \in DOMAIN stored : stored[i] >= 0 => i <= detail.evaluations

\* The player is at a snapshot of the problem it plays, whatever is filtered, loaded or
\* selected while it runs.
PlayerHolds == tab = "player" /\ Count > 0 => idx < Count

ReviewSound == OpinionsKept /\ OpinionsOnce /\ ShownIsStored /\ PlayerHolds

----------------------------------------------------------------------------
(* The invariant the proofs use *)

Loaded == [evaluations : Nat, snapshots : [Problems -> Nat]]
Load == [served : BOOLEAN, answer : Loaded]
Post == [kind : {"opinion", "auto"}, text : Nat, from : Nat, step : {"sent", "stored", "failed"}]

TypeOK ==
    /\ snapshots \in [Problems -> Nat] /\ stored \in Seq(Int)
    /\ detail \in Loaded /\ loads \in Seq(Load)
    /\ tab \in {"overview", "player", "records"} /\ filter \in Problems \union {"all"}
    /\ idx \in Nat /\ playing \in BOOLEAN
    /\ text \in 0..typed /\ busy \subseteq {"opinion", "auto"} /\ mount \in Nat
    /\ posts \in Seq(Post)
    /\ typed \in Nat /\ asked \in Nat

IsOpinion(k) == posts[k].kind = "opinion"
Waiting(k) == IsOpinion(k) /\ posts[k].from = mount

\* The form waits for the opinions it has sent, and what it shows was sent by it, or is a
\* text given away.
FormInv ==
    /\ \A k \in DOMAIN posts : posts[k].from <= mount /\ (posts[k].from = mount => tab = "overview")
    /\ \A k \in DOMAIN posts : Waiting(k) => "opinion" \in busy /\ text \in {posts[k].text} \union given
    /\ \A k \in DOMAIN posts : IsOpinion(k) <=> posts[k].text # 0
    /\ \A k \in DOMAIN posts : posts[k].text <= typed /\ (posts[k].step = "stored" => posts[k].text \in ToSet(stored))
    /\ \A j, k \in DOMAIN posts : Waiting(j) /\ Waiting(k) => j = k

\* An opinion is under way once, is not stored before, and leaves the form as it is stored.
OnceInv ==
    /\ \A i \in DOMAIN stored : stored[i] <= typed
    /\ \A k \in DOMAIN posts : IsOpinion(k) /\ posts[k].text = text => posts[k].from = mount
    /\ \A j, k \in DOMAIN posts : IsOpinion(j) /\ posts[j].text = posts[k].text => j = k
    /\ "answer lost" \notin mishaps =>
          /\ \A k \in DOMAIN posts : IsOpinion(k) /\ posts[k].step # "stored" => posts[k].text \notin ToSet(stored)
          /\ text # 0 /\ text \in ToSet(stored) =>
                \E k \in DOMAIN posts : Waiting(k) /\ posts[k].text = text /\ posts[k].step = "stored"

\* What the page has asked for is shown, or on its way: one load at a time, each newer than
\* what is shown.
LoadInv ==
    /\ detail.evaluations <= Len(stored)
    /\ \A k \in DOMAIN loads : loads[k].answer.evaluations <= Len(stored)
    /\ mishaps \subseteq {"refused"} =>
          /\ Len(loads) <= 1
          /\ \A k \in DOMAIN loads : loads[k].served => detail.evaluations <= loads[k].answer.evaluations
          /\ \A i \in DOMAIN stored : stored[i] >= 0 =>
                \/ i <= detail.evaluations
                \/ \E k \in DOMAIN posts : posts[k].step = "stored"
                \/ \E k \in DOMAIN loads : loads[k].served => i <= loads[k].answer.evaluations

ReviewInv == TypeOK /\ FormInv /\ OnceInv /\ OpinionsKept /\ OpinionsOnce /\ LoadInv /\ PlayerHolds
=============================================================================
