# harnesser in TLA+

harnesser is an online coding-exam platform: a FastAPI process (`src/apps/api`) over
Postgres, judge workers (`src/apps/judge`) fed through a Redis list, and a Next.js
front end (`src/apps/web`).  Candidates sit an *attempt* at an *assessment*: they write
code, run and submit it, and, when the assessment allows it, ask an AI.  Everything they
do lands in an append-only event log that reviewers read afterwards.

This directory holds TLA+ models of the parts whose correctness depends on the order
of things, the TLC configurations that check them on small instances, and theorems
checked by TLAPS.

| Component | Specification | Abstract specification | Proofs | Model checking |
|---|---|---|---|---|
| judging of executions | `JudgePipeline` | `ExecutionLedger` | `JudgePipeline_proofs` | `MCJudge`, `MCJudge_*.cfg` |
| AI chat turns | `ChatTurn` | `QuestionLedger` | `ChatTurn_proofs` | `MCChat`, `MCChat_*.cfg` |
| lifecycle of attempts | `AttemptLifecycle` | `AttemptGate` | `AttemptLifecycle_proofs` | `MCAttempt`, `MCAttempt_*.cfg` |
| editor state of the exam page | `EditorState` | | `EditorState_proofs` | `MCEditor`, `MCEditor_*.cfg` |
| chat panel and its socket | `ChatSocket` | | `ChatSocket_proofs` | `MCChatSocket`, `MCChatSocket_panel.cfg` |
| conversation with the authoring assistant | `AuthoringTurn` | | `AuthoringTurn_proofs` | `MCAuthoring`, `MCAuthoring_turns.cfg` |
| the rest of the exam page | `ExamRoom`, `ExamEnd`, `ExamWatch`, `ExamDesk` | | `ExamPages_proofs` | `MCPages`, `MCPages_web.cfg` |
| problem studio | `ProblemStudio`, `ReferenceFiles` | | `StaffPages_proofs` | the same |
| pages of the staff | `ProviderSettings`, `UserPages`, `AssessmentForm`, `ReviewRoom` | | `StaffPages_proofs` | the same |

`WebPages` composes the last three rows (it extends `ExamRoom` and instantiates the other
nine); `Lists` has the filter that four of them and `ChatSocket` use.

## 1. Inventory

### The process model

The API is one asyncio process.  A handler runs without interruption from one `await`
to the next, so all its races come from state it read before an `await` and used after
it; the models split every handler exactly there and nowhere else.  SQLAlchemy loads a
copy of a row, and a commit writes *the columns that changed on the copy*, by primary
key, whatever the row holds by then (`expire_on_commit` is off, no row is locked, no
version column is kept).  The judge worker is a separate process with a dispatcher loop
and one thread per job.  Every container is restarted when it dies
(`docker-compose.yml`, `restart: unless-stopped`); Redis has no volume, Postgres has.

### Components

* **Execution requests and results** (`routers/executions.py`).  State: the `executions`
  rows (status, verdict, score, finished_at).  Operations: `create_execution` (count the
  pending rows, read the tests, insert, commit, then push the job), `submit_report`.
  Correct when an execution reaches one final answer, a job accepted is judged, and an
  attempt does not flood the queue.
* **Judge queue** (`judge/queue.py`).  State: one Redis list.  LPUSH from the API, BRPOP
  by the workers: the pop removes the job before anybody has judged it.
* **Judge worker** (`apps/judge/worker.py`).  State: a semaphore, a thread per job, the
  job the dispatcher holds.  Calls back `mark_running` (errors ignored, five second
  timeout) and `report` (five tries).  Correct when slots are neither lost nor given
  back twice and a job is carried in one place.
* **Judge callbacks** (`routers/internal.py`).  `mark_running` and `report_result` load,
  await, and commit; the second computes the score from the test weights it reads then.
* **AI chat turns** (`ai/chat_service.py`, `routers/ai.py`).  State: the registry
  `_ACTIVE` (one handle per attempt, in memory), the `ai_messages` rows, a task per turn
  that streams the answer and a task that saves it, shielded from cancellation.
  Operations: `start_turn`, `cancel_turn`, `_generate`, `_persist`, and the older HTTP
  endpoint, which streams the answer itself and does not know the registry.  Correct
  when turns of an attempt do not overlap, a recorded question is charged unless its
  answer was stored empty, and no answer is lost or stored twice but for a named cause.
* **Attempt lifecycle** (`routers/attempts.py`).  State: the `attempts` rows (status,
  superseded, deadline_at, submitted_at) and their `events`.  Operations: start, retake,
  finish, `check_expired` inside every reader, `post_events`, `save_state`, reset.
  Nothing expires in the background.  Correct when a user has one live attempt, only
  closed attempts are superseded, and the row and the timeline agree on the end.
* **Editor state** (`_upsert_state`, `web/app/attempts/[id]/page.tsx`).  State: the code
  per language on the page, the marks of what was last sent, one debounce timer, the calls
  in flight, the `attempt_problem_states` rows.  Correct when what the candidate typed last
  comes back after a reload and is what the reviewer sees.
* **Exam page** (the same page, `Timer.tsx`, `ExecutionResults.tsx`).  State: the newest
  execution shown of each problem, one busy flag, the polls, the closing dialog and what it
  tells, the watch over the candidate's absences, the open tabs, the countdown.  Correct
  when the console shows the newest execution, the lock stands for work under way, the
  dialog tells what was submitted, an absence is recorded once, and the exam does not end
  before its deadline.
* **AI chat socket** (`routers/ai_ws.py`, `AiChat.tsx`).  State: the handler's
  subscription and pump; the panel's list of messages, the text of the running turn, its
  lock, its connection.  Replays the running turn to a page that connects, pumps deltas,
  falls back to `POST ai/chat` after four failures, loads the stored thread to catch up.
  Correct when the panel at rest shows the stored thread and is unlocked, and shows each
  text once.
* **Authoring assistant** (`routers/authoring_ws.py`, `ai/authoring.py`,
  `AuthoringChat.tsx`, `ProblemStudio.tsx`).  State: the conversation of a connection, the
  call whose result is awaited, the draft on the page.  A model edits the draft through
  tool calls the *page* carries out, with a time limit; the history is trimmed at a
  question.  Correct when the conversation stays one a provider accepts, the model is told
  what happened to the draft, no edit is lost, and the panel is freed after every turn.
* **Provider settings** (`routers/settings.py`, `admin/settings/page.tsx`).  State:
  provider rows with a default flag per use, and what each open page has loaded of them.
  Correct when each use has at most one default and keys and settings are those saved last.
* **Review and evaluation** (`routers/review.py`, `review/attempts/[id]/page.tsx`,
  `SnapshotPlayer.tsx`).  State: the evaluations, what the page has loaded, the opinion
  typed, the position of the player.  Correct when an opinion is stored once and shown.
* **Administration** (`users.py`, `assessments.py`, `problems.py` and their pages).  State:
  the accounts, an assessment with its problems and assignments, the forms.  Correct when
  the list of credentials is true, and saving an assessment keeps its assignments.
* **Accounts and sessions** (`auth.py`, `deps.py`, `security.py`), the application shell,
  seed data, and the pages that list things.

### Interactions

    page --POST executions--> API --LPUSH--> Redis --BRPOP--> worker
                               ^------ mark_running, report_result ------'
    page --WebSocket / POST ai/chat--> API --task--> model provider
    page --POST events, state, finish--> API         dashboard, reviewer --GET--> check_expired
    studio <--WebSocket: tool calls, results--> API --HTTP--> model provider
    staff --DELETE attempt, PUT problem, settings, users--> API  (under all of the above)

What is hard: checks and inserts in separate statements (the pending limit, the question
quota, the turn registry, the live attempt), stale copies written back (mark_running over
a finished report, expiry over a finish), callbacks that time out although they were
carried out, processes dying between two steps, cancellation of tasks at each of their
awaits, resets that delete rows under requests that hold them, and in the browser answers
that come in another order than their requests, timers nobody cleared, handlers that
compute from a list rendered before the last change, and React's updaters, which run at
the next render and read references that have moved on.  `PROJECT.json` lists
each hazard at its line with the properties that cover it.

## 2. The models and the code

### JudgePipeline

`row`, `events`, `version` and `gone` are Postgres; `request`, `mark` and `reports` say
where each API request stands; `queue` is the Redis list; `holding`, `slots`, `thread`,
`tries` and `outcome` are the workers.

| Code | Actions |
|---|---|
| `create_execution`: pending check, tests, commit, enqueue | the request actions, among them `ReadTests`, `CommitRow`, `Enqueue` |
| `submit_report` | the report request, recorded in one commit and never judged |
| worker main loop: BRPOP, semaphore, thread | `Pop`, `Spawn` |
| `handle`, `mark_running`, `report` in a thread | `Thread` with its parts, `PostFailed`, `Retry`, `GiveUp` |
| `internal.mark_running` | `MarkLoads`, `MarkCommits` |
| `internal.report_result` | `ReportLoads`, `ReportReadsTests`, `ReportCommits` |
| `update_problem`, `reset_attempt` | `EditProblem`, `ResetAttempt` |
| process deaths, Redis loss, timeouts | `ApiCrash`, `WorkerCrash`, `RedisLoss`, the "lost" stage of a call |

`Write(current, seen, new)` is the ORM's column-wise update.  `judge_job` is reduced to
the verdict it reaches, scores to "full" or "low": the properties tell no others apart.

`ExecutionLedger` is the promise to the reader of a row: an execution is requested once
and decided once, the decision never changes, and every delivery of it leaves a notice
in the timeline; only a reset removes it, with its whole attempt.

### ChatTurn

One instance is the chat of one attempt.  `attempt`, `log` (the messages in stored order)
and `refunded` are Postgres; `active` is the registry; `turn[t]` says how far the request
and the task of question `t` have come, `text` whether its buffer holds anything,
`saving[t]` where its saving task stands, `cancelling` which tasks have a cancellation
they have not met yet.  A cancelled task meets it at its next step: before its first
(`Kill`), in the stream, or while it waits for the shielded saving (`CutShort`).  The
tool loop and the provider's protocol are reduced to the text they leave in the buffer.
`Sockets` are the questions that came over the WebSocket, the others use `POST ai/chat`.

`QuestionLedger` is the promise to the candidate.  A question is charged when it is
asked, then decided once: refunded when its answer was stored empty, answered otherwise.
It counts the answers stored: one, or two for a question over POST whose client left,
since the generator's `finally` cannot tell that the saving it waited for has committed.
A question that stays charged without an answer is not a stutter but the status
"abandoned", and only a mishap leads there: a task killed before its first step, a crash
of the process, a failing database.

### AttemptLifecycle

One instance is the attempts of one user at one assessment.  `row` and `log` are
Postgres, `clock` is `utcnow()`, `req[r]` is what an open request has loaded: the attempt
and, for a start, a finish or a retake, the time it will write.

| Code | Actions |
|---|---|
| `start_attempt` | `Start` (window), `Select` (the latest live attempt), `Create` |
| `get_attempt_for`, `my_assignments`, `check_expired` | `LoadOverdue`, `Expire` |
| `finish_attempt` | `LoadToFinish`, `Finish` |
| `post_events` | `LoadToPost`, `Post` (a batch is one entry) |
| `retake_attempt` | `LoadToRetake`, or `LoadToRenew` and `Expire`, then `Assess`, `Replace` |
| `reset_attempt` | `Reset` |
| time, a restart of the API | `Tick`, `ApiRestart` |

Updating a row deleted meanwhile fails the request, as the ORM and the foreign key do.
The dashboard's loop over all attempts is one `LoadOverdue` per attempt.  Role and
assignment checks are taken as passed.  Events are told apart only as start, end and
activity: the activity is what the exam page sends.  Entries other handlers append
(executions, chat) are not in this model.

`AttemptGate` is the promise to the rest: an attempt opens once, closes for good, is
replaced only when closed and by an attempt that opens in the same commit.

### EditorState

One instance is one problem of one attempt, on one page.  A text is the number of the
edit that made it, 0 the starter code; numbers grow, so "older" and "newer" have a
meaning.  `lang`, `text`, `marked` (`lastStateSaveRef`), `snapped` (`lastSnapshotRef`)
and `timer` (`saveTimerRef`) are the page; `calls` are its calls in flight in the order
of sending, each with the stage its handler has reached and the row it selected; `row`
and `status` are Postgres.

| Code | Actions |
|---|---|
| initial load, saved state over starter code | `Open` |
| editor, language menu, debounce | `Edit`, `ChangeLanguage`, `TimerFires` |
| `switchProblem`, typing in another problem (one timer for all problems) | `SwitchAway`, `SwitchBack`, `EditOther` |
| snapshot interval, end dialog, run and submit | `Interval`, `FlushAll`, `Execute` |
| `finish`: snapshot, save, `/finish`, none awaited | `Finish` |
| `beforeunload`, `pagehide`, a dead browser | `StayAfterAll`, `Leave`, `Vanish` |
| `post_events`, `save_state`, `_upsert_state`: status, select, merge, commit | `Admit`, `Select`, `Store`, `Refuse` |
| `finish_attempt`, `check_expired` | `CloseExam`, `Expire` |
| a call that fails on its way or on its way back | `FailCall` |

`Column` is the ORM's column-wise update against the copy the handler selected; `Refuse`
is the unique constraint.  `Unmarked` is the `catch` that takes the mark away, whatever
was marked since.  The event a snapshot leaves in the timeline is in `AttemptLifecycle`;
the execution a run asks for is in `JudgePipeline`.

`order` is a history variable: "serial" as long as each commit was of the oldest call in
flight over the row it had selected and every page was opened with none in flight,
"crossed" when that failed, "stale" when a handler wrote over a row that had changed
since it selected it.  Nothing in the code keeps a serial order; most properties below
say what the page's marks and the server's merges promise with it, every failed call and
lost page included.

### ChatSocket

One instance is the chat panel of one page, the handler at the other end of its socket,
and the turns of `ChatTurn` as subscribers and readers of the thread see them (`stage`,
`length`, `log`).  `serving`, `activeNow`, `handling`, `queue`, `pump` are the handler
between its awaits; `up`, `down`, `reply` the messages under way; `streamReq`,
`streamProblem`, `streamText` the refs of those names, `messages` what is rendered and
`updates` what `setMessages` was given since.  React computes the updaters when it
renders, so they read the refs of that moment.

| Code | Actions |
|---|---|
| `start_turn`, the task of a turn or the generator of a POST | `Register`, `Refuse`, `Delta`, `EndStream`, `Save`, `Settle`, `SaveAgain` |
| `ws_chat`: ready, replay, pump, chat, cancel | `Ready`, `Replay`, `ReplayText`, `EndReplay`, `Pump`, `ReceiveChat`, `SwapPump`, `ReceiveCancel` |
| `onmessage` by type | `OnReady`, `OnTurnStart`, `OnReplay`, `OnDelta`, `OnTurnEnd`, `OnError` |
| `loadMessages` | `ReadThread` (on the server), `ShowThread`, `LoseThread` (its `.catch`) |
| `send`, the POST fallback and its stream, the stop button | `Send`, `Post`, `OnReply`, `BreakPost` (`fetch` or `reader.read()` rejects), `Cancel` |
| rendering; connections, reloads, another problem | `Render`; `Open`, `Close`, `Reload`, `SwitchProblem` |

`slips` remembers by name the ways in which the panel was led astray: deltas of a turn that
ended before its replay, a pump swapped before its turn's end, a thread that arrived after
it was out of date or not at all, a question whose POST was rejected.  At the limit of its
tools a turn of the socket puts a notice into its buffer, and so into the database, that no
subscriber is sent (`chat_service.py:239`): `noticed`, and `untold` where somebody followed.
`send` has no `try`: a rejected POST leaves `busy` set and the refs as they were
(`BreakPost`, `broken`).  Each property names the slips it tolerates, and nothing else may
break it.

### AuthoringTurn

One instance is one panel and its conversation.  `messages` is the history the model is
shown (questions, answers, calls, results), `turn` the task: where it is, its round, the
calls still to make and the results so far; `pending` the call in `pending_tools`;
`applied` the calls the page has carried out.  `ModelCalls`, `RejectCall`, `request_tool`,
`ToolAnswered`, `ToolTimesOut`, `EndRound` are the loop of `run_turn` with
`request_tool`; `run_chat` trims; `TurnFails` is an exception at any point; `onclose` and
`Unmount` end the connection and with it the conversation, and an answer under way is lost.

### The exam page besides the editor

`ExamRoom`: executions are rows whose status advances; `posts` are the requests under way,
`polls` the polls, each with what started it (its own request, or a restoration after a
reload), `shown` what the console of each problem has, `busy` the lock.  `Run`, `Submit`,
`Confirm`, `Finish` are the buttons, `Serve`, `PostTold`, `PostFails` the request,
`PollRead`, `PollTold`, `PollFails` one tick of `pollExecution`, `Load`, `RestoreList`,
`ListFails`, `FetchDetail` the restoration.  `ExamEnd` is the closing dialog: the list of
executions is read when it opens, by a request nobody cancels.  `ExamWatch` has the
listeners for blur, focus, visibility, pointer and size with their timers.  What it tells is
a POST whose failure is swallowed (`record`): `tellings` are the records of the last absence
that reach the timeline, `missed` those that are lost; of the sizes, `newest` and `older`
are under way, lost or arrive, in any order, while `lastSize` has advanced.  `ExamDesk` has
the tabs, the files opened in the middle, the preview of a report, the chat panel, and the
countdown in quarters of a second.

### The problem studio

`ProblemStudio`: `form` is the draft with every update applied, `shown` the draft as
rendered, from which the handlers compute lists.  A value of the draft is the number of the
edit that wrote it, so a lost edit can be seen.  By hand `setPlain`, `setItem`, `addItem`,
`removeItem`; by the tools `update_plain`, `update_starter_code`, `set_test_cases`,
`add_test_case`; `save`, `Saved`, `SaveFails`, `Leave`.  What is stored is `Normalized`, as
the server normalizes the grading criteria: an edit of them is written `well`, leaves the
criterion `nameless`, or writes what is in `excess` of a limit.  `ReferenceFiles` is the editor of
reference files, where a file has no identity but its path and an upload adds to the list
from before it was read.

### The pages of the staff

`ProviderSettings` has several open pages: `list[a]` is what page `a` has loaded,
`dialog[a]` its form, `call[a]` its request.  A request reads (`Begin...`) and commits
(`Commit...`) the columns that differ from what it read.  `UserPages` is the form of bulk
creation with its import of a table, the request as read, decide row by row, and commit all
at once, and the single accounts others make and delete meanwhile.  `AssessmentForm` is the
form of an assessment with the two lists it offers, while others archive problems and
delete or promote users.  `ReviewRoom` is the review page: `loads` and `posts` under way,
the filter and the position of the snapshot player, the opinion typed, while the candidate
goes on and other evaluators store opinions.

`WebPages` puts these ten together.  The pages share no state in the browser, and
what they share in the database each has as changes made by others, so a behaviour is one
of one module (`part`) and the others rest in their initial states: the states add up and do
not multiply, and nothing is checked less than in ten runs.  `MCPages` gives the constants
values and one initial state to the pages that rest.

### History variables

`raced` (in `ChatTurn` and `AttemptLifecycle`) remembers that two requests were between
their check and their insert at once; `races`, `slips`, `mishaps`, `misled` and `oddities`
of the pages that an overlap, a failed request or an order of events of the named kind has
happened.  The code has no lock, sequence number or retry there, so the unconditional
properties are false; the conditional ones say that nothing else breaks them.

## 3. Runs

| Run | Instance | Shows |
|---|---|---|
| `judge_faults` | a submit, a run and a report of one attempt, 2 workers with one slot, 2 tries, each kind of fault once, one edit, one reset, one verdict, since nothing here tells verdicts apart (595k states) | `OneCarrier`, `StrandedOnlyByFault`, `FinishedIsFinal` |
| `judge_live` | three runs, two requests at once, MAX_PENDING 1, one slot, API, worker and Redis fail once each, fair (56k states) | `PendingOverrunBounded`, `EveryExecutionFinishes`, `SlotsComeBack`, `ImplementsLedger` |
| `chat_turns` | two socket turns and an HTTP turn, quota one, API and database fail once, a reset (744k states) | `OneTurnUnlessRaced`, `QuotaOverrunBounded`, `NoAnswerLost`, `AnswersNotRepeated`, `ImplementsQuestionLedger` |
| `chat_live` | the same turns admitted one at a time, quota two, fair (74k states) | `HistoryInOrder`, `RegistryReleased`, `QuestionsSettle` |
| `chat_birth` | two socket turns | violation of `AnswerAssured` |
| `attempt_safe` | 2 attempts, 2 requests, window 1..2, duration 1, grace 1, clock to 4, logs to 2 entries (325k states) | `OneLiveUnlessRaced`, `HistoryHasHead`, `LogTellsEnd`, `ClosedInTime`, `ImplementsGate` |
| `attempt_expire` | one window, two requests | violation of `OnlyOpenExpire` |
| `editor_safe` | 2 languages, 2 edits or changes of language, 2 calls in flight (3 at the finish), one failed call or lost page, not followed beyond a stale write (1.4M states) | `MarkMeansStored`, `WorkOnItsWay`, `StoredTextAdvances`, `ReopenedAsLeft` |
| `editor_final` | one edit, no failure | violation of `FinalCode` |
| `chat_panel` | 2 problems, 2 questions of one piece each; one question with two surprises or two with none; a render takes at most two updates (3.1M states) | `RestShowsThread`, `LockExplained`, `TextInOrder` |
| `authoring_turns` | three questions, four tool calls in answers of one or two, three mishaps, rounds 2, history 5 (347k states) | `HistoryWellFormed`, `ToolsToldTruly`, `PanelUnlocks` |
| `web_pages` | the ten pages, one per behaviour (2.4M states) | `StudioSound` of the studio with its reference files, two properties of `ExamRoom`, one of each other page |

The properties of `web_pages`:

* `BusyMeansWork`, `ConsoleShowsNewest` (`ExamRoom`): the lock stands for a request or poll
  of the page's own; when nothing is under way each console has the verdict of the newest
  execution.
* `DialogTruthful` (`ExamEnd`): "not submitted" is told only when it was so on opening.
* `WatchSound` (`ExamWatch`): one record posted per absence, which arrives or is lost, none for
  a present candidate; the size last told differs from the window's by a slight change at
  most, unless the newest record of it is under way, lost or overtaken.
* `DeskSound` (`ExamDesk`): the file in the middle has one tab and belongs to the problem;
  the countdown takes less than a second and a half from the candidate.
* `StudioSound`: `WorkKept` (`ProblemStudio`) and `FilesSound` (`ReferenceFiles`).  An edit of author or assistant is in the draft, and after a
  save in the stored problem, until somebody replaces or removes it, or the server's
  normalization drops it; of the reference files what was written stays until replaced or
  removed, and one file is edited.
* `SettingsSound` (`ProviderSettings`): one default per use; key and settings are those
  saved last, whatever toggles and defaults are sent in between.
* `CredentialsSound` (`UserPages`): the list of credentials tells the accounts that were
  made with the passwords they have, and nobody's password is lost with them.
* `FormSound` (`AssessmentForm`): a save leaves the assignments that stay alone; what makes
  a save fail can be taken out of the form, except a problem archived since and a user
  deleted who was no candidate any more when the list was loaded.
* `ReviewSound` (`ReviewRoom`): an opinion typed is in the form or stored, once; the page
  shows what it stored; the player stays within the snapshots it plays.

**Why these bounds.**  Judge: two workers and two executions are what a doubled job needs,
two tries what a repeated report needs, one slot makes the dispatcher wait with a job in
hand.  `MaxFaults` gives each kind one strike; a second strike of the same kind meets the
same states again with another execution.  `judge_live` has a limit of one waiting
execution, so that two requests at once overrun it and a third is refused.  Chat: two
socket turns race for the registry, the third question overlaps them on the other endpoint,
quota one makes the second a refusal or an overrun.  Attempts: two attempts are a retake,
two requests every pair of overlapping handlers; the window 1..2 with the clock to 4 has a
time before it, two starts inside it, a deadline cut by `ends_at`, a retake after it, and
an instant past every grace period.  Editor: two languages let one be lost while the other
is saved, two calls are a snapshot and a save side by side, two edits an older and a newer
text or one in each language; no property says anything after a stale write, so the state
constraint `BeforeStale` cuts there and hides nothing.  Panel: the second question is the
one whose start meets the end of the first, two problems let a thread arrive at the wrong
one, two failures in a row give the socket up, two surprises are a break and a reload, a
rejected POST and a load that fails, or a cancel and a notice.  Authoring: the history of five and the two rounds are met within three
questions, so trimming falls on every place of a turn; a third mishap follows two timed-out
calls with a break.  Pages: two of whatever can be older and newer (executions, lists,
opinions, uploads, pages at the settings), and the surprises, mishaps or changes named in
`MCPages_web.cfg`; the deadlines lie on and between full seconds.

Deadlock checking is off in all of them: when all clients are done and nothing is pending
the system rests.

**Fairness.**  `JudgePipeline!Fairness` and `ChatTurn!Fairness` are weak fairness of the
steps the code's own schedulers take: the event loop carries on what it accepted, the
dispatcher loops, a started thread runs, a provider's stream ends (the HTTP client has a
timeout).  `AuthoringTurn!Fairness` is weak fairness of the page's `onmessage`, of the
server's receive loop and of the turn's task: `wait_for` ends a wait for a tool, and the
provider's client answers or raises.  No client, member of staff, cancel or fault is fair:
a tool's timeout needs none, since a page that is open answers.  `AttemptLifecycle` states
no liveness: nothing in the code expires an attempt unless somebody reads it.

## 4. Where the code and its words differ

Three runs show it:

* `AnswerAssured` (`chat_service.py:268`): a cancel that reaches the turn's task before its
  first step leaves the question charged, unanswered, and the registry blocked.
* `OnlyOpenExpire` (`attempts.py:39`): an expiry that overlaps a finish turns a submitted
  attempt into an expired one.
* `FinalCode` (`models.py:150`): the row is not always the final code.  `finish` does not
  wait for its last save, and when `/finish` is handled first the save is dropped.

Others are the conditions of properties that hold, each found as a counterexample to the
unconditional form:

* The limit of `executions.py:25` on waiting executions is overrun by requests that
  overlap; `PendingOverrunBounded` gives the bound that holds.
* `users.py:40` has the rows of a bulk creation succeed and fail one by one, without a
  rollback of the whole; they are committed together, and an account that somebody makes
  between its read and its commit fails every row, unreported (`UserPages!CommitBulk`).
* `chat_service.py:3` has one turn per attempt; two tabs may start two
  (`OneTurnUnlessRaced`).
* The language of an editor row can stay behind: py, then cpp, then py again within the
  debounce interval, with a snapshot in between, leaves the row at cpp while the mark says
  everything is saved.  The first snapshot and the first save of a problem may both find no
  row; one is refused by the unique constraint, and if it is the snapshot its events are
  lost (`page.tsx:222` ignores the failure).
* A panel stays locked when the socket breaks before `turn_start`, is given up during a
  turn, `ready` names a turn that ends before its replay, or the POST of a question is
  rejected (`LockExplained`); two POST streams can write into one bubble (`TextInOrder`).
  The notice of the tool limit is shown only once the thread is loaded again, and a load
  that fails leaves the list as it is (`RestShowsThread`).
* A failed request makes the closing dialog call everything unsubmitted
  (`DialogTruthful`); an execution asked for during the restoration after a reload may be
  hidden by a restored one that ends later (`ConsoleShowsNewest`).
* A focus within 150 ms of a blur leaves a present candidate recorded as absent, and a page
  shown without the focus has one absence recorded twice; a record whose POST fails is not
  sent again, so an absence may be missing, and the window's size is wrong in the timeline
  until the next change (`WatchSound`).
* An edit by hand takes back a tool's edit of the same list that is not rendered yet, and
  edits during a save are not in it; a criterion without a name, which "+ 항목 추가" makes, is
  dropped by the server unsaid, and when none has a name the weights too
  (`WorkKept`); an upload takes back what was written while its files were read
  (`FilesSound`).
* Two creations, or a creation and a choice, can make two defaults; a page that has not seen
  an edit undoes it with a toggle (`SettingsSound`).
* The list of credentials tells the common password for rows that had one of their own, and
  the common password as it is when the list is downloaded, with the spaces around it that
  were not sent (`CredentialsSound`).
* A problem archived while an assessment has it makes every later save of the assessment
  fail, and an assigned user whom no list shows, once deleted, those of the form that is open
  (`FormSound`); an answer lost has an opinion stored twice, and a text typed while one
  is saved is cleared with it (`ReviewSound`).

## 5. Proofs

Every theorem holds for all values of the constants under the assumptions the modules
name.  `ExecsAssumption`, `TurnsAssumption`, `LimitsAssumption`, `BoundsAssumption` and
`SetsAssumption` say that sets are finite, limits positive and bounds natural,
`TimesAssumption` that times are natural and the duration positive (no relation between the
start, the end and the grace is assumed), `NamesAssumption`, `NoneAssumption` that None is
no turn, problem or row.  Of the pages, `ListAssumption` and `LangAssumption` say that there
is a first problem and a first language, `EndAssumption` that a problem is not both coded and
a report, `FormAssumption` that no user is a problem, `AccountsAssumption` that a table has
rows, `WatchAssumption`, `DeskAssumption`, `StudioAssumption`, `SettingsAssumption` and
`ReviewAssumption` that sizes, times and counts are natural.  None relates a bound to the
size of the system.

**JudgePipeline.**  `TypeCorrect`, `JobsAreCarriedOnce` (`OneCarrier`),
`FinishedStaysFinal` (`FinishedIsFinal`), `StrandedNeedsFault` (`StrandedOnlyByFault`).
Neither of the last two is inductive: that a final row is never touched again depends on
where the callbacks of its job stand, which depends on where the job is.
`JudgeInvariant` relates the three: for every place of a job, the stages its mark and
report may have reached and the rows they may have written, with the faults that break a
link recorded in `faults`.  `FinishedIsFinal` holds as long as no request timed out: a
`mark_running` that outlives its client's timeout may commit over a finished report.
`PendingHolds` (`PendingOverrunBounded`) is inductive once it counts the requests past
their check together with the rows that wait (`Fresh`, `Counted`): a check that passed saw
fewer than `MAX_PENDING`, and each tab has one request.  `PipelineKeepsLedger` is the
refinement of `ExecutionLedger` (`ImplementsLedger`), for behaviours in which no request
times out (`[]NoTimeout`; the run checks it under the same condition).  It rests on
`VerdictsKeep`: `LedgerInv` says which entries of the timeline and which verdicts go with
each stage of a report, so that a repeated report decides as the first one did.

**ChatTurn.**  `TypeCorrect`; `OneTurnAtATime` from `RaceInv`
(unless raced, one socket turn at most is anywhere between its check and its end, and a
turn whose task works is the one in the registry); `QuotaHolds` from `AdmitInv` (no more
than `Tabs` requests are being admitted) and the property itself, which counts the
questions already charged together with the requests about to record one;
`AnswersAreNotLost`; `RecordsAgree`, the invariant that ties the log, the buffer, the
saving and the refunds together at each stage of a turn; `NoAnswerTwice`
(`AnswersNotRepeated`) from `CopyInv`, which counts the answers a turn has stored together
with the one being saved; and with both
`QuestionsAreChargedRight`, the refinement of `QuestionLedger`.  `HistoryAlternates`
(`HistoryInOrder`) needs `KilledInv` besides: a turn killed before its first step keeps the
registry, so that no socket turn follows the question it leaves unanswered.

**AttemptLifecycle.**  `TypeCorrect` and every property of `attempt_safe`.
`RetakesCloseFirst` needs `AssessedIsShut`: what a retake holds loaded was closed when it
was loaded, and no step reopens it.  `TimelineTellsEnd` is inductive by itself, since
an end is appended in the commit that writes the status.  `EndsInTime` adds what rows and requests know
about times (a row's deadline against its start and `ends_at`, a loaded time against the
deadline it will be compared with).  `RetakesLeaveAHead` follows from the single commit
of a retake.  `OneLiveAttempt` uses `RaceInv`: unless raced, at most one request has
decided to create, and the only live attempt it may see is the one it replaces.
`FewLateCommits` uses `AftermathInv`: commits after an end plus the requests still
holding the attempt stay below the number of requests.  It counts the commits of
`attempts.py` (a batch of the page's events is one), not what executions, reports and the
assistant's turns add to the timeline.  `AttemptsAreGated` is the
refinement of `AttemptGate`, step by step.

**EditorState.**  `TypeCorrect`, from `Inv`: a row never goes away, no call has selected
one while there is none, every snapshot and save carries the language it names.
`RowWhole` (`RowIsWhole`): a write over the row it selected writes all columns
(`WritesAll`), and code and languages of one call agree.  `TextAdvances`
(`StoredTextAdvances`) rests on `Chain`: along the row, the calls in the order of sending
and the page, the text of each language never gets older; each kind of step keeps it
(`ChainSend`, `ChainDrop`, `ChainStore`, ...), and it holds as long as `order` is serial.
`MarksAreTrue` (`MarkMeansStored`) and `NothingIsForgotten` (`WorkOnItsWay`) need more:
the mark is set when the save is sent, so the invariant `Work` says of a mark that equals
the page that the row or a save in flight the page listens to holds it (`MarkKept`), and
that a text neither stored nor in flight is due and shown (`Pending`).  An edit makes the
mark older than the page (`Marks`, `Latest`), a failed save takes it away, a commit in
its turn turns "in flight" into "stored" (`StoreEffect`).  `ComesBackAsLeft`
(`ReopenedAsLeft`) adds `Left`: behind a page that is gone the last call in flight is its
beacon, and once all calls are stored the row is what the page showed.

**AuthoringTurn.**  `TypeCorrect`, from `Types`: a socket that is connecting or open has
failures left.  `HistoryStaysWellFormed` (`HistoryWellFormed`) from `HistoryInv`: the last
message is calls without results exactly while tools are carried out (`Open`), and then it
is the results of the round followed by the calls left, in order (`Answering`); so what
`EndRound` appends answers it call by call.  A trimmed history is the old one from a
question on, or from its beginning (`TrimCuts`), since a question was just appended: the
cut to two messages is out of reach.  `ModelToldTruly` (`ToolsToldTruly`) from `TruthInv`:
a call is on its way once and not carried out yet, a result comes of a call carried out
(`WireInv`); the calls left are distinct and not sent, but for the one waited for, nor told
(`PlanInv`, `ToldInv`).  A call is told as refused only when it was never sent, and its
number is given once, so no late message can carry it out.

**ChatSocket.**  `LockHasReason` (`LockExplained`) from `LockKept`, the invariant `LockInv`:
what is on the wires has the types the code gives it (`WiresInv`), a question is asked once
(`AskedInv`), over the socket or over POST (`ApartInv`), the handler is subscribed to what it tells of (`HandlerInv`), every message
that locks the panel is followed by one that unlocks it or by an end still to come
(`FollowedInv`), and a locked panel not led astray has an end, an error, an unanswered
question or a "ready" on its way (`PanelInv`).  Four cases lock it for good, and the theorem
names them: the socket broke before "turn_start" (`lost`), it was given up in mid-turn
(`fallen`), "ready" named a turn that was over before its replay (`misled`), the POST of a
question was rejected (`broken`).

`TextsInOrder` (`TextInOrder`) from `TextInv`.  For a turn of the socket, `HeardInv` gives to
each place on the wire the texts the panel may have once it has taken the messages up to
there (`Tells`: an opening message leaves the empty text, a delta adds its pieces): all of
them are in order, and with the last of them the panel goes on well (`Meets`) with the piece
that the subscription's queue holds next (`QueueFrom`).  A replay told while deltas were
queued goes further than the queue; that is the one break that may come of it, and then
`overlapped` is recorded.  For a question over POST, `SseInv` says that the text so far and
the rest of the response are the answer, and that a response that is still read beside it
has only its end left.  `ListsInv` follows from both: updates, bubbles and loaded threads
are made of such texts (`AppliedIsSound`, `RenderedIsSound`, `ThreadIsSound`).  `EarlyInv`
says that a turn not yet begun has sent nothing.

**The pages** (theorems of `PagesSpec`).  A page's own steps keep its invariant, and a step of
the composition is one of the page it is about or leaves it alone.

* `RoomKept`, and with it `LockExact` (`BusyMeansWork`) and `ConsoleNewest`
  (`ConsoleShowsNewest`): `RoomInv` follows the newest execution of a problem from the request
  to the console (`OnItsWay`), over polls, the restoration and its list.
* `DialogTells` (`DialogTruthful`): a list read is right for the time it was read
  (`ListInv`), and what the dialog tells was such a list (`ToldInv`).
* `AbsencesToldOnce` (`WatchSound`): `AwayInv` and `OnceInv` relate focus, visibility, pointer
  and the pending timer to the records of the absence in progress.
* `DeskHolds` (`DeskSound`): closing a tab leaves the others (`KeptPicks`); the countdown
  starts after the server counted whole seconds.
* `EditsAreKept` (`WorkKept`): what is under way to the API is the draft as it is (`SentInv`),
  and the server's normalization drops no edit but those named (`NormalizedKeeps`).
* `FilesStay` (`FilesSound`): what an upload adds has other paths than the list it is added
  to (`FilesInv`); among more numbers than paths one is free (`SomeFree`).
  `StudioHolds` (`StudioSound`) puts the two together.
* `DefaultsAndEditsStand` (`SettingsSound`): what a request has read is what is stored, or an
  overlap has been recorded (`SeenInv`, `DefaultInv`, `EditInv`).
* `CredentialsHold` (`CredentialsSound`): the server's decision takes an address once
  (`DecidesRightly`), so every row of an answer has the account made for it (`Pending`); only
  an answer on its way holds a password nobody else has (`Hidden`).
* `SavesKeepAssignments` (`FormSound`): a problem of the form that the list of problems does
  not offer is stored with the assessment, and a user the list does not have was chosen
  before the list came (`FormInv`).
* `OpinionsStand` (`ReviewSound`): an opinion is under way once, the form waits for those it
  has sent, and the newest load shows what was stored (`FormInv`, `OnceInv`, `LoadInv`).

**Induction.**  The library's induction theorems take an operator and cannot be used here.
What a list or a recursive function needs is had from the least number at which it would
fail (`Least`, by `NatLessThanWellFounded` and `WFMin`): that a filter keeps what it is to
keep, in order (`RunPicks`, `KeptPicks`); that a function defined step by step exists and is the
only one (`RunExists`, `SameRun` of `ChatSocket_proofs`).  `Kept` of `Lists` and `Rendered` of
`ChatSocket` are recursive functions for that reason.

**Proved, not run.**  `SupersededIsClosed`, `LateCommitsBounded` (`AttemptLifecycle`),
`RowIsWhole` (`EditorState`), the type invariants and the inductive invariants.

**Model-checked only.**  The liveness properties (`EveryExecutionFinishes`, `SlotsComeBack`,
`RegistryReleased`, `QuestionsSettle`, `PanelUnlocks`): fairness and ENABLED are out of the
prover's reach.  `RestShowsThread` of `ChatSocket`, which compares the whole list, rebuilt
by a fold over updates, with a filter of the log.

## 6. Not modelled

The sandbox (operating-system limits around a child process), the HTTP clients and prompts
of the model providers, `resolve_ai` (a query), the schemas of the tools, the default
texts of a problem, seed data, start-up migrations, token handling, the lists and the
dashboard, layout, nginx and the deployment files: I/O, wording, queries without state or
declarations without a protocol.  Where a model depends on one of them, it is taken in as
it is used: the verdict of a sandboxed run, the end of a provider's stream, the unique
constraint a migration drops.

Left out of modelled parts: two tabs of one attempt in the editor and the panel (they are in
`ChatTurn` and `AttemptLifecycle`, where they matter to the server), the records of copied
and pasted text, the truncation of long code, command-line providers and the test of a
connection, the arithmetic of scores and totals, the creation and deletion of assessments
(single statements), and a page of the settings that goes on before its request is
answered.

## 7. What is left

1. Proofs: `RestShowsThread`, on top of `TextsInOrder`: the list, the updates and what is
   under way have to be one sequence with the stored thread.
2. The composition of `ChatTurn` with the clock of `AttemptLifecycle`: `start_turn` asks the
   stored status, so an overdue attempt that nobody has loaded is still answered.
3. The totals of the review and the best submission as functions checked against a
   reference definition.
