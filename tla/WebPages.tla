------------------------------- MODULE WebPages -------------------------------
(***************************************************************************)
(* The pages of the web interface: the executions of the exam page, as in     *)
(* ExamRoom, and instances of what else the exam page keeps and of the other   *)
(* pages.  They share no state in the browser, and what they share in the      *)
(* database each module has as changes made by others: a behaviour is of one   *)
(* page, part, chosen at the start, and the others stay as they are.          *)
(***************************************************************************)
EXTENDS ExamRoom, Integers

CONSTANTS
    Coded, ExecKinds,                          \* the exam: problems of code, kinds of execution
    MaxListed, MaxLists, MaxMishaps,           \* the closing dialog
    MaxSize, Slight, MaxOrphans, MaxOlder, MaxLoads, \* the watch
    FirstProblem, Files, Deadlines, MaxLatency,\* the desk
    Languages, MaxItems, MaxEdits,             \* the studio
    MaxFiles, MaxFileChanges,                  \* reference files
    Admins, MaxProviders, MaxChanges, MaxCalls,\* the settings
    Emails, Tables, MaxRows, MaxSteps,         \* the users
    Users, MaxOthers, MaxVisits, MaxFormChanges, \* an assessment
    Recorded, MaxSnapshots, MaxOpinions, MaxPosts, MaxReviewMishaps \* a review

ASSUME EndAssumption == Coded \cap Reports = {} /\ None \notin {0, 1}
ASSUME WatchAssumption == MaxSize \in Nat /\ Slight \in Nat
ASSUME DeskAssumption == Deadlines \in SUBSET Nat
ASSUME StudioAssumption == Languages \in Nat
ASSUME FormAssumption == Users \cap Problems = {}
ASSUME ReviewAssumption == Recorded \in [Problems -> Nat]

VARIABLES
    part,
    listed, modal, told, lists, opened, misled, mishaps, ended,
    visible, focused, pointer, size, loads, away, blurTimer, orphans, lastSize, resizeTimer,
    tellings, missed, newest, older, toldSize, oddities,
    deskProblem, leftTab, openDocs, activeDoc, preview, showChat, deadline, clock, endAt, timer,
    draft, drawn, studioTab, saving, sent, saved, edits, kept, nameless, excess, studioSlips,
    files, selected, mounted, reading, fileChanges, mine, fileMishaps,
    providers, created, list, editor, request, changes, calls, meant, races,
    users, rows, common, grid, call, result, steps, made, hidden, userSlips,
    live, people, problems, assigned, page, titled, form, chosen, offered, candidates,
    formChanges, others, visits, since, strangers,
    snapshots, stored, detail, reviewLoads, tab, filter, idx, playing, text, waits, mount, reviewPosts,
    typed, given, asked, reviewMishaps

endVars   == <<listed, modal, told, lists, opened, misled, mishaps, ended>>
watchVars == <<visible, focused, pointer, size, loads, away, blurTimer, orphans, lastSize, resizeTimer,
               tellings, missed, newest, older, toldSize, oddities>>
deskVars  == <<deskProblem, leftTab, openDocs, activeDoc, preview, showChat, deadline, clock, endAt, timer>>
studioVars == <<draft, drawn, studioTab, saving, sent, saved, edits, kept, nameless, excess, studioSlips>>
fileVars   == <<files, selected, mounted, reading, fileChanges, mine, fileMishaps>>
settingsVars == <<providers, created, list, editor, request, changes, calls, meant, races>>
userVars   == <<users, rows, common, grid, call, result, steps, made, hidden, userSlips>>
formVars   == <<live, people, problems, assigned, page, titled, form, chosen, offered, candidates,
                formChanges, others, visits, since, strangers>>
reviewVars == <<snapshots, stored, detail, reviewLoads, tab, filter, idx, playing, text, waits, mount,
                reviewPosts, typed, given, asked, reviewMishaps>>
pagesVars == <<part, vars, endVars, watchVars, deskVars, studioVars, fileVars, settingsVars, userVars, formVars, reviewVars>>

----------------------------------------------------------------------------
(* The pages *)

End   == INSTANCE ExamEnd WITH rows <- listed, Kinds <- ExecKinds, MaxRows <- MaxListed
Watch == INSTANCE ExamWatch
Desk  == INSTANCE ExamDesk WITH problem <- deskProblem, NoDoc <- None, Aided <- TRUE
Studio == INSTANCE ProblemStudio WITH form <- draft, shown <- drawn, tab <- studioTab, stored <- saved,
                                      slips <- studioSlips
Reference == INSTANCE ReferenceFiles WITH changes <- fileChanges, mishaps <- fileMishaps,
                                          MaxChanges <- MaxFileChanges
Settings == INSTANCE ProviderSettings WITH rows <- providers, dialog <- editor, call <- request,
                                           MaxRows <- MaxProviders
Accounts == INSTANCE UserPages WITH slips <- userSlips, Grids <- Tables
Assessment == INSTANCE AssessmentForm WITH listed <- candidates, changes <- formChanges,
                                           MaxChanges <- MaxFormChanges
Review == INSTANCE ReviewRoom WITH loads <- reviewLoads, posts <- reviewPosts, busy <- waits,
                                   mishaps <- reviewMishaps,
                                   MaxCalls <- MaxPosts, MaxMishaps <- MaxReviewMishaps

ASSUME SettingsAssumption == MaxProviders \in Nat /\ None \notin Settings!Keys
ASSUME AccountsAssumption ==
    /\ None \notin Accounts!Call
    /\ \A g \in Tables : g \in Seq({g[i] : i \in DOMAIN g}) /\ g # <<>>

Parts == {"room", "end", "watch", "desk", "studio", "reference", "settings", "accounts", "assessment", "review"}

PagesInit ==
    /\ part \in Parts
    /\ Init /\ End!Init /\ Watch!Init /\ Desk!Init
    /\ Studio!Init /\ Reference!Init /\ Settings!Init /\ Accounts!Init /\ Assessment!Init /\ Review!Init

PagesNext ==
    /\ UNCHANGED part
    /\ \/ /\ part = "room" /\ Next
          /\ UNCHANGED <<endVars, watchVars, deskVars, studioVars, fileVars, settingsVars, userVars, formVars,
                         reviewVars>>
       \/ /\ part = "end" /\ End!Next
          /\ UNCHANGED <<vars, watchVars, deskVars, studioVars, fileVars, settingsVars, userVars, formVars, reviewVars>>
       \/ /\ part = "watch" /\ Watch!Next
          /\ UNCHANGED <<vars, endVars, deskVars, studioVars, fileVars, settingsVars, userVars, formVars, reviewVars>>
       \/ /\ part = "desk" /\ Desk!Next
          /\ UNCHANGED <<vars, endVars, watchVars, studioVars, fileVars, settingsVars, userVars, formVars, reviewVars>>
       \/ /\ part = "studio" /\ Studio!Next
          /\ UNCHANGED <<vars, endVars, watchVars, deskVars, fileVars, settingsVars, userVars, formVars, reviewVars>>
       \/ /\ part = "reference" /\ Reference!Next
          /\ UNCHANGED <<vars, endVars, watchVars, deskVars, studioVars, settingsVars, userVars, formVars, reviewVars>>
       \/ /\ part = "settings" /\ Settings!Next
          /\ UNCHANGED <<vars, endVars, watchVars, deskVars, studioVars, fileVars, userVars, formVars, reviewVars>>
       \/ /\ part = "accounts" /\ Accounts!Next
          /\ UNCHANGED <<vars, endVars, watchVars, deskVars, studioVars, fileVars, settingsVars, formVars, reviewVars>>
       \/ /\ part = "assessment" /\ Assessment!Next
          /\ UNCHANGED <<vars, endVars, watchVars, deskVars, studioVars, fileVars, settingsVars, userVars, reviewVars>>
       \/ /\ part = "review" /\ Review!Next
          /\ UNCHANGED <<vars, endVars, watchVars, deskVars, studioVars, fileVars, settingsVars, userVars, formVars>>

PagesSpec == PagesInit /\ [][PagesNext]_pagesVars

----------------------------------------------------------------------------
(* Properties *)

\* The closing dialog tells what was submitted.
DialogTruthful == part = "end" => End!DialogTruthful
\* Every absence of the candidate has one record, unless it is lost, and the window's size is told.
WatchSound == part = "watch" => Watch!WatchSound
\* Tabs and the file in the middle agree, and the countdown ends in time.
DeskSound == part = "desk" => Desk!DeskSound
\* No edit of a problem, the author's or the assistant's, is lost.
WorkKept == part = "studio" => Studio!WorkKept
\* Reference files are told apart, and keep what was written.
FilesSound == part = "reference" => Reference!FilesSound
\* Nothing written in the studio is lost, in the draft or in the reference files.
StudioSound == WorkKept /\ FilesSound
\* One default provider for each use, with the settings and the key saved last.
SettingsSound == part = "settings" => Settings!SettingsSound
\* The credentials handed out are those of the accounts made.
CredentialsSound == part = "accounts" => Accounts!CredentialsSound
\* Assignments survive a save, and a save that fails can be made to succeed.
FormSound == part = "assessment" => Assessment!FormSound
\* An opinion is stored once, and what is stored is shown.
ReviewSound == part = "review" => Review!ReviewSound
=============================================================================
