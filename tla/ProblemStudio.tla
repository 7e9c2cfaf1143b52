---------------------------- MODULE ProblemStudio ----------------------------
(***************************************************************************)
(* The draft of a problem (authoring/ProblemStudio.tsx), edited by hand in   *)
(* the tabs and by the assistant's tools, and saved by hand.                 *)
(*                                                                          *)
(* A tool's edit is in the state at once but is rendered a little later;     *)
(* an edit by hand is rendered before the next event.  The handlers of the   *)
(* page compute lists from what is rendered.                                 *)
(***************************************************************************)
EXTENDS Naturals, Sequences, FiniteSets, SequencesExt, Lists

CONSTANTS
    None,
    Languages, \* how many LANGUAGES there are
    MaxItems,  \* bound: items of a list
    MaxEdits   \* bound: edits of the draft

\* A value of the draft is the number of the edit that wrote it, 0 from the start.
\* The title, limits and form of the answer are written one by one, but alike; the
\* weights are those of the criteria, which are one list here.
Plain == {"basic", "statement", "weights"}
Lists == {"starter", "tests", "grading"}
Tabs  == {"basic", "statement", "reference"} \cup Lists
TabOf(f) == IF f = "weights" THEN "grading" ELSE f
Edit  == 1..MaxEdits

VARIABLES
    form,    \* form, with every update applied
    shown,   \* form as rendered: the handlers' form, formRef.current
    tab,     \* tab
    saving,  \* busy, or where the page went: the list after a save, away
    sent,    \* the body of the PUT or POST under way
    stored,  \* the problem as stored
    \* to state the properties
    edits,   \* edits made
    kept,    \* those that nobody has replaced or removed
    nameless,\* those that make, or leave, a criterion without a name
    excess,  \* those of criteria or weights that are beyond the server's limits
    slips    \* what went wrong: an edit of a stale list, an edit too late for the save

values     == <<nameless, excess>>
studioVars == <<form, shown, tab, saving, sent, stored, edits, kept, values, slips>>

New  == [plain |-> [f \in Plain |-> 0],
         lists |-> [starter |-> [i \in 1..Languages |-> 0], tests |-> <<0, 0>>, grading |-> <<0>>]]
EditsIn(f) == (Range(f.plain) \cup UNION {Range(f.lists[l]) : l \in Lists}) \ {0}

Init ==
    /\ form = New /\ shown = New
    /\ tab = "basic"
    /\ saving = "no" /\ sent = None /\ stored = None
    /\ edits = 0 /\ kept = {} /\ nameless = {} /\ excess = {} /\ slips = {}

----------------------------------------------------------------------------
OnPage == saving \in {"no", "sent"}

\* How an edit may be written, as the server takes it.
Written(f) ==
    CASE f = "grading" -> {"well", "nameless", "excess"}
      [] f = "weights" -> {"well", "excess"}
      [] OTHER         -> {"well"}

\* The next edit replaces those of gone.
Writes(gone, stale, how) ==
    /\ OnPage
    /\ edits < MaxEdits
    /\ edits' = edits + 1
    /\ kept' = (kept \ gone) \cup {edits + 1}
    /\ nameless' = nameless \cup (IF how = "nameless" THEN {edits + 1} ELSE {})
    /\ excess' = excess \cup (IF how = "excess" THEN {edits + 1} ELSE {})
    /\ slips' = slips \cup (IF stale THEN {"unrendered"} ELSE {})
                      \cup (IF saving = "sent" THEN {"late"} ELSE {})

Render ==
    /\ OnPage
    /\ shown # form
    /\ shown' = form
    /\ UNCHANGED <<form, tab, saving, sent, stored, edits, kept, values, slips>>

setTab(t) ==
    /\ OnPage
    /\ tab # t
    /\ tab' = t
    /\ UNCHANGED <<form, shown, saving, sent, stored, edits, kept, values, slips>>

(* By hand *)

\* Mutant: set as setForm({...form, [key]: value}).
AsRendered == shown
AsUpdated == form

\* set(key, value), which leaves the other fields as they are by now.
setPlain(f, how) ==
    /\ tab = TabOf(f)
    /\ Writes({form.plain[f]}, FALSE, how)
    /\ form' = [AsUpdated EXCEPT !.plain[f] = edits + 1]
    /\ shown' = form'
    /\ UNCHANGED <<tab, saving, sent, stored>>

\* set(list, ...), computed from the list that is rendered.
setList(l, new, gone, how) ==
    /\ tab = l
    /\ Writes(gone, shown.lists[l] # form.lists[l], how)
    /\ form' = [AsUpdated EXCEPT !.lists[l] = new]
    /\ shown' = form'
    /\ UNCHANGED <<tab, saving, sent, stored>>

\* setTc, and an item of the starter codes or of the criteria
setItem(l, i, how) ==
    /\ i \in DOMAIN shown.lists[l]
    /\ setList(l, [shown.lists[l] EXCEPT ![i] = edits + 1], {shown.lists[l][i]}, how)

\* A new criterion has no name yet.
addItem(l) ==
    /\ l # "starter"
    /\ Len(shown.lists[l]) < MaxItems
    /\ setList(l, Append(shown.lists[l], edits + 1), {}, IF l = "grading" THEN "nameless" ELSE "well")

\* Removes an item, which is an edit without a value.
removeItem(l, i) ==
    /\ OnPage
    /\ tab = l /\ l # "starter"
    /\ i \in DOMAIN shown.lists[l]
    /\ form' = [AsUpdated EXCEPT !.lists[l] = RemoveAt(shown.lists[l], i)]
    /\ shown' = form'
    /\ kept' = kept \ {shown.lists[l][i]}
    /\ slips' = slips \cup (IF shown.lists[l] # form.lists[l] THEN {"unrendered"} ELSE {})
                      \cup (IF saving = "sent" THEN {"late"} ELSE {})
    /\ UNCHANGED <<tab, saving, sent, stored, edits, values>>

(* By the assistant: applyTool *)

ToolWrites(new, gone, t) ==
    /\ Writes(gone, FALSE, "well")
    /\ form' = new
    /\ tab' = t
    /\ UNCHANGED <<shown, saving, sent, stored>>

\* update_basic_info, update_statement
update_plain(f) == ToolWrites([form EXCEPT !.plain[f] = edits + 1], {form.plain[f]}, f)

update_starter_code(i) ==
    ToolWrites([form EXCEPT !.lists["starter"][i] = edits + 1], {form.lists["starter"][i]}, "starter")

set_test_cases ==
    ToolWrites([form EXCEPT !.lists["tests"] = <<edits + 1>>], Range(form.lists["tests"]), "tests")

add_test_case ==
    /\ Len(form.lists["tests"]) < MaxItems
    /\ ToolWrites([form EXCEPT !.lists["tests"] = Append(@, edits + 1)], {}, "tests")

----------------------------------------------------------------------------
(* Saving *)

\* normalize_grading_criteria: criteria without a name are dropped, texts and numbers
\* cut to the limits, which is 0 here; without any criterion the defaults are taken.
Named(f) == Kept(f.lists["grading"], {i \in DOMAIN f.lists["grading"] : f.lists["grading"][i] \notin nameless})
Within(v) == IF v \in excess THEN 0 ELSE v
Normalized(f) ==
    IF Named(f) = <<>>
    THEN [f EXCEPT !.plain["weights"] = 0, !.lists["grading"] = New.lists["grading"]]
    ELSE [f EXCEPT !.plain["weights"] = Within(@),
                   !.lists["grading"] = [i \in DOMAIN Named(f) |-> Within(Named(f)[i])]]

Titled == shown.plain["basic"] # 0

save ==
    /\ saving = "no"
    /\ IF Titled
       THEN /\ saving' = "sent" /\ sent' = shown
            /\ slips' = slips \cup (IF shown # form THEN {"unrendered"} ELSE {})
            /\ UNCHANGED tab
       ELSE /\ tab' = "basic"
            /\ UNCHANGED <<saving, sent, slips>>
    /\ UNCHANGED <<form, shown, stored, edits, kept, values>>

\* The list of problems is shown.
Saved ==
    /\ saving = "sent"
    /\ stored' = Normalized(sent)
    /\ saving' = "saved" /\ sent' = None
    /\ UNCHANGED <<form, shown, tab, edits, kept, values, slips>>

\* The request or its answer is lost; the page stays, with every edit.
SaveFails ==
    /\ saving = "sent"
    /\ stored' \in {stored, Normalized(sent)}
    /\ saving' = "no" /\ sent' = None
    /\ UNCHANGED <<form, shown, tab, edits, kept, values, slips>>

\* Cancelled, or the problem is deleted (None); nobody asks about the edits, and a
\* request under way may be carried out or not.
Leave ==
    /\ OnPage
    /\ saving' = "away" /\ sent' = None
    /\ stored' \in {stored, None} \cup (IF sent = None THEN {} ELSE {Normalized(sent)})
    /\ UNCHANGED <<form, shown, tab, edits, kept, values, slips>>

----------------------------------------------------------------------------
Next ==
    \/ Render
    \/ \E t \in Tabs : setTab(t)
    \/ \E f \in Plain : \E how \in Written(f) : setPlain(f, how)
    \/ \E f \in Plain \ {"weights"} : update_plain(f)
    \/ \E l \in Lists : addItem(l)
    \/ \E l \in Lists, i \in 1..MaxItems : removeItem(l, i) \/ \E how \in Written(l) : setItem(l, i, how)
    \/ \E i \in 1..Languages : update_starter_code(i)
    \/ set_test_cases \/ add_test_case
    \/ save \/ Saved \/ SaveFails \/ Leave

Spec == Init /\ [][Next]_studioVars

----------------------------------------------------------------------------
(* Properties *)

\* No edit, the author's or the assistant's, is lost unless somebody replaced or removed
\* it: while the page is open the draft has it, and after a save the stored problem has
\* it.  Except that an edit by hand of a list takes back the tool's edit of that list
\* that is not rendered yet, and what is edited while a save runs is not saved.  Of the
\* grading criteria the server drops those without a name, which "add" makes, cuts what is
\* beyond its limits, and takes its default weights when no criterion has a name; it
\* leaves every other edit alone.
Dropped(f) ==
    nameless \cup excess \cup
    (IF \A i \in DOMAIN f.lists["grading"] : f.lists["grading"][i] \in nameless THEN {f.plain["weights"]} ELSE {})

WorkKept ==
    slips = {} => /\ OnPage => kept \subseteq EditsIn(form)
                  /\ saving = "saved" => kept \ Dropped(form) \subseteq EditsIn(stored)

----------------------------------------------------------------------------
(* The invariant the proofs use *)

\* There is one starter code for each language.
Draft == {f \in [plain : [Plain -> Nat], lists : [Lists -> Seq(Nat)]] : DOMAIN f.lists["starter"] = 1..Languages}

TypeOK ==
    /\ form \in Draft /\ shown \in Draft
    /\ tab \in Tabs
    /\ saving \in {"no", "sent", "saved", "away"}
    /\ edits \in Nat /\ kept \subseteq Nat \ {0}

\* What is under way to the API is the draft as it is, or an edit came too late.
SentInv == slips = {} /\ saving = "sent" => sent = form

StudioInv == TypeOK /\ SentInv /\ WorkKept
=============================================================================
