------------------------------ MODULE ChatTurn ------------------------------
(***************************************************************************)
(* The AI chat of one attempt: chat_service.start_turn with its registry   *)
(* _ACTIVE, the background task _generate, the task _persist it leaves the *)
(* saving to, cancel_turn, and the HTTP endpoint POST .../ai/chat, which    *)
(* streams the answer itself and knows no registry.                         *)
(*                                                                         *)
(* The API is one asyncio process: a step of a request or of a task runs   *)
(* from one await to the next.  cancel() on a task only takes effect at     *)
(* the task's next step, whatever that step is.                             *)
(***************************************************************************)
EXTENDS Naturals, Sequences, FiniteSets

CONSTANTS
    Turns,      \* the questions the candidate's tabs may send
    Sockets,    \* those sent over the WebSocket; the others use POST /ai/chat
    None,       \* no turn
    MaxTurns,   \* ai_max_turns of the assessment
    Tabs,       \* bound: requests that are being admitted at once
    MaxFaults   \* bound: MaxFaults[k], how often fault k strikes

FaultKinds == {"api", "db"}

ASSUME TurnsAssumption ==
    /\ IsFiniteSet(Turns)
    /\ Sockets \subseteq Turns
    /\ None \notin Turns
ASSUME LimitsAssumption ==
    /\ MaxTurns \in Nat
    /\ Tabs \in Nat \ {0}
    /\ MaxFaults \in [FaultKinds -> Nat]

VARIABLES
    (* Postgres *)
    attempt,    \* the attempt: "open", "closed" (submitted, expired) or "gone"
    log,        \* its ai_messages in the order of created_at
    refunded,   \* the turns whose question carries meta.failed
    (* API process *)
    active,     \* _ACTIVE.get(attempt_id)
    turn,       \* turn[t]: how far t's request and its task have come
    text,       \* the turns whose buffer holds some text
    saving,     \* saving[t]: where the task that saves the answer stands
    cancelling, \* the turns whose task has a cancel() it has not met yet
    (* history *)
    raced,      \* two socket requests were between check and registration at once
    (* environment *)
    faults      \* faults[k]: how often fault k struck so far

database == <<attempt, log, refunded>>
vars == <<database, active, turn, text, saving, cancelling, raced, faults>>

----------------------------------------------------------------------------
(* Data *)

\* One row of ai_messages: role "user" or "assistant".
Message(role, t) == [role |-> role, turn |-> t]
Messages == {Message(role, t) : role \in {"user", "assistant"}, t \in Turns}

\* A request is checked against _ACTIVE, finds the attempt open, is counted
\* against the quota, is recorded; its task is created, streams, waits for the
\* saving, is over.  "cut" ended without waiting for the saving, "killed" before
\* its first step, "lost" with the API process.
Admission == {"checked", "open", "counted", "recorded"}
Working   == {"created", "streaming", "persisting"}
Stages    == {"idle", "refused", "over", "cut", "killed", "lost"} \cup Admission \cup Working

Written(role, t) == \E i \in DOMAIN log : log[i] = Message(role, t)
Asked(t)    == Written("user", t)
Answered(t) == Written("assistant", t)

\* used_turns: the questions that are not marked failed.
Charged == {t \in Turns : Asked(t) /\ t \notin refunded}

Admitting == {t \in Turns : turn[t] \in Admission}

Spend(k) ==
    /\ faults[k] < MaxFaults[k]
    /\ faults' = [faults EXCEPT ![k] = @ + 1]

----------------------------------------------------------------------------
Init ==
    /\ attempt = "open"
    /\ log = <<>>
    /\ refunded = {}
    /\ active = None
    /\ turn = [t \in Turns |-> "idle"]
    /\ text = {}
    /\ saving = [t \in Turns |-> "none"]
    /\ cancelling = {}
    /\ raced = FALSE
    /\ faults = [k \in FaultKinds |-> 0]

----------------------------------------------------------------------------
(* start_turn, and the head of POST /ai/chat *)

\* Mutant: the registry is not asked.
FreeAlways == TRUE
\* attempt_id in _ACTIVE refuses the turn.
Free == active = None

\* A refusal answers 409 and changes nothing.
CheckActive(t) ==
    /\ t \in Sockets
    /\ turn[t] = "idle"
    /\ Cardinality(Admitting) < Tabs
    /\ Free
    /\ turn' = [turn EXCEPT ![t] = "checked"]
    /\ raced' = (raced \/ Admitting \cap Sockets # {})
    /\ UNCHANGED <<database, active, text, saving, cancelling, faults>>

\* The attempt is read: it must still be in progress.
ReadAttempt(t) ==
    /\ \/ turn[t] = "checked"
       \/ t \notin Sockets /\ turn[t] = "idle" /\ Cardinality(Admitting) < Tabs
    /\ turn' = [turn EXCEPT ![t] = IF attempt = "open" THEN "open" ELSE "refused"]
    /\ UNCHANGED <<database, active, text, saving, cancelling, raced, faults>>

\* Mutant: off by one.
QuotaLeftPlusOne == Cardinality(Charged) <= MaxTurns
QuotaLeft == Cardinality(Charged) < MaxTurns

CountTurns(t) ==
    /\ turn[t] = "open"
    /\ turn' = [turn EXCEPT ![t] = IF QuotaLeft THEN "counted" ELSE "refused"]
    /\ UNCHANGED <<database, active, text, saving, cancelling, raced, faults>>

\* POST /ai/chat goes on to stream without registering anything.
RecordedStage(t) == IF t \in Sockets THEN "recorded" ELSE "streaming"

\* The question and its event are committed before the model is asked; the
\* foreign key refuses them when the attempt has been deleted.
RecordQuestion(t) ==
    /\ turn[t] = "counted"
    /\ \/ /\ attempt # "gone"
          /\ log' = Append(log, Message("user", t))
          /\ turn' = [turn EXCEPT ![t] = RecordedStage(t)]
       \/ /\ attempt = "gone"
          /\ turn' = [turn EXCEPT ![t] = "refused"]
          /\ UNCHANGED log
    /\ UNCHANGED <<attempt, refunded, active, text, saving, cancelling, raced, faults>>

\* The handle goes into _ACTIVE, over whatever is there, and the task is created.
Register(t) ==
    /\ turn[t] = "recorded"
    /\ turn' = [turn EXCEPT ![t] = "created"]
    /\ active' = t
    /\ UNCHANGED <<database, text, saving, cancelling, raced, faults>>

----------------------------------------------------------------------------
(* _generate *)

Begin(t) ==
    /\ turn[t] = "created"
    /\ t \notin cancelling
    /\ turn' = [turn EXCEPT ![t] = "streaming"]
    /\ UNCHANGED <<database, active, text, saving, cancelling, raced, faults>>

\* A task that is cancelled before its first step never enters its try block:
\* nothing is saved and the registry keeps the handle.
Kill(t) ==
    /\ turn[t] = "created"
    /\ t \in cancelling
    /\ turn' = [turn EXCEPT ![t] = "killed"]
    /\ cancelling' = cancelling \ {t}
    /\ UNCHANGED <<database, active, text, saving, raced, faults>>

Delta(t) ==
    /\ turn[t] = "streaming"
    /\ t \notin cancelling
    /\ text' = text \cup {t}
    /\ UNCHANGED <<database, active, turn, saving, cancelling, raced, faults>>

\* The stream ends, fails or is cancelled: in each case a task of its own saves
\* what the buffer holds, and the turn waits for it behind a shield.
EndStream(t) ==
    /\ turn[t] = "streaming"
    /\ turn' = [turn EXCEPT ![t] = "persisting"]
    /\ saving' = [saving EXCEPT ![t] = "pending"]
    /\ cancelling' = cancelling \ {t}
    /\ UNCHANGED <<database, active, text, raced, faults>>

\* Mutant: the entry stays.
UnregisterNothing(t) == active
\* _ACTIVE.pop(attempt_id): the attempt's entry, whoever's it is.
Unregistered(t) == IF t \in Sockets THEN None ELSE active

\* Mutant: the saving is not awaited.
SavedSoon(t) == TRUE
Saved(t) == saving[t] \in IF t \in Sockets THEN {"ok", "failed"} ELSE {"ok"}

\* The saving has returned: turn_end goes out and the registry is cleared.
Settle(t) ==
    /\ turn[t] = "persisting"
    /\ Saved(t)
    /\ t \notin cancelling
    /\ turn' = [turn EXCEPT ![t] = "over"]
    /\ active' = Unregistered(t)
    /\ UNCHANGED <<database, text, saving, cancelling, raced, faults>>

\* Mutants: the saving dies with its turn; it is started once more.
SavingDies(t)   == [saving EXCEPT ![t] = "failed"]
SavingAgain(t)  == [saving EXCEPT ![t] = "pending"]
\* The shield keeps the cancel away from the saving.
Shielded(t) == saving

\* A cancel while the turn waits for the saving: it ends at once.
CutShort(t) ==
    /\ turn[t] = "persisting"
    /\ t \in cancelling
    /\ turn' = [turn EXCEPT ![t] = "cut"]
    /\ saving' = Shielded(t)
    /\ active' = Unregistered(t)
    /\ cancelling' = cancelling \ {t}
    /\ UNCHANGED <<database, text, raced, faults>>

----------------------------------------------------------------------------
(* _persist, and persist of POST /ai/chat *)

\* Mutant: a turn that was cut short is refunded whatever it said.
RefundIfCut(t) == IF turn[t] = "cut" THEN {t} ELSE {}
\* An answer without a single character is not charged.
Refund(t) == IF t \in text THEN {} ELSE {t}

\* The answer, its event and the refund in one commit; nothing can be saved for
\* an attempt that is gone.
SaveCommits(t) ==
    /\ saving[t] = "pending"
    /\ \/ /\ attempt # "gone"
          /\ log' = Append(log, Message("assistant", t))
          /\ refunded' = refunded \cup Refund(t)
          /\ saving' = [saving EXCEPT ![t] = "ok"]
       \/ /\ attempt = "gone"
          /\ saving' = [saving EXCEPT ![t] = "failed"]
          /\ UNCHANGED <<log, refunded>>
    /\ UNCHANGED <<attempt, active, turn, text, cancelling, raced, faults>>

\* The database fails: the commit raises.
SaveFails(t) ==
    /\ saving[t] = "pending"
    /\ Spend("db")
    /\ saving' = [saving EXCEPT ![t] = "failed"]
    /\ UNCHANGED <<database, active, turn, text, cancelling, raced>>

\* POST /ai/chat: the client leaves, or the saving raised, and the generator's
\* finally starts a task that saves, also when a first saving has just committed.
LeaveStream(t) ==
    /\ t \notin Sockets
    /\ turn[t] \in {"streaming", "persisting"}
    /\ turn' = [turn EXCEPT ![t] = "cut"]
    /\ saving' = [saving EXCEPT ![t] = "pending"]
    /\ UNCHANGED <<database, active, text, cancelling, raced, faults>>

----------------------------------------------------------------------------
(* cancel_turn, the rest of the system, faults *)

\* handle.task exists and handle.done is not set.
CancelTurn ==
    /\ active # None
    /\ turn[active] \in Working
    /\ cancelling' = cancelling \cup {active}
    /\ UNCHANGED <<database, active, turn, text, saving, raced, faults>>

\* finish_attempt or check_expired.
CloseAttempt ==
    /\ attempt = "open"
    /\ attempt' = "closed"
    /\ UNCHANGED <<log, refunded, active, turn, text, saving, cancelling, raced, faults>>

\* reset_attempt: the messages go with the attempt.
ResetAttempt ==
    /\ attempt # "gone"
    /\ attempt' = "gone"
    /\ log' = <<>>
    /\ refunded' = {}
    /\ UNCHANGED <<active, turn, text, saving, cancelling, raced, faults>>

\* The API process dies and is restarted: requests, tasks and registry are gone.
ApiCrash ==
    /\ Spend("api")
    /\ active' = None
    /\ turn' = [t \in Turns |-> IF turn[t] \in Admission \cup Working THEN "lost" ELSE turn[t]]
    /\ saving' = [t \in Turns |-> IF saving[t] = "pending" THEN "failed" ELSE saving[t]]
    /\ cancelling' = {}
    /\ UNCHANGED <<database, text, raced>>

----------------------------------------------------------------------------
Admit(t) == CheckActive(t) \/ ReadAttempt(t) \/ CountTurns(t) \/ RecordQuestion(t) \/ Register(t)
Generate(t) == Begin(t) \/ Kill(t) \/ Delta(t) \/ EndStream(t) \/ Settle(t) \/ CutShort(t) \/ LeaveStream(t)
Save(t) == SaveCommits(t) \/ SaveFails(t)
Others == CancelTurn \/ CloseAttempt \/ ResetAttempt \/ ApiCrash

Next == Others \/ \E t \in Turns : Admit(t) \/ Generate(t) \/ Save(t)

Spec == Init /\ [][Next]_vars

(***************************************************************************)
(* Fairness: the event loop carries on every admitted request and every    *)
(* created task, and a provider's stream ends.  Nobody needs to ask or to  *)
(* cancel, staff need not act, faults need not strike.                      *)
(***************************************************************************)
Fairness ==
    \A t \in Turns :
        /\ WF_vars(CountTurns(t) \/ RecordQuestion(t) \/ Register(t))
        /\ WF_vars(Begin(t) \/ Kill(t))
        /\ WF_vars(EndStream(t))
        /\ WF_vars(SaveCommits(t))
        /\ WF_vars(Settle(t) \/ CutShort(t) \/ (LeaveStream(t) /\ saving[t] = "failed"))

FairSpec == Spec /\ Fairness

----------------------------------------------------------------------------
(* Properties *)

\* Every variable keeps to the values the code gives it.
TypeOK ==
    /\ attempt \in {"open", "closed", "gone"}
    /\ log \in Seq(Messages)
    /\ refunded \subseteq Turns
    /\ active \in Sockets \cup {None}
    /\ turn \in [Turns -> Stages]
    /\ \A t \in Turns \ Sockets : turn[t] \notin {"checked", "recorded", "created", "killed"}
    /\ text \subseteq Turns
    /\ saving \in [Turns -> {"none", "pending", "ok", "failed"}]
    /\ cancelling \subseteq Sockets
    /\ raced \in BOOLEAN
    /\ faults \in [FaultKinds -> Nat]

Running == {t \in Sockets : turn[t] \in Working}

\* Two turns run at once only if two requests overlapped between the check of
\* the registry and the registration, four awaits later: cancels, a second
\* cancel, crashes, resets and the pop of the registry never let one in.
OneTurnUnlessRaced == raced \/ \A t, u \in Running : t = u

Counted == {t \in Turns : turn[t] = "counted"}

\* What the quota check promises: with Tabs requests being admitted at once, the
\* charged questions exceed ai_max_turns by Tabs - 1 at most.
QuotaOverrunBounded ==
    Cardinality(Charged) + Cardinality(Counted) < MaxTurns + Tabs

Before(m, n) == \E i, j \in DOMAIN log : i < j /\ log[i] = m /\ log[j] = n

\* The history sent to the model alternates: a question asked over the socket
\* is answered before the next one is recorded.  Only a race, a failure, or a
\* cancel of a turn that is already saving puts two questions in a row.
HistoryInOrder ==
    (~raced /\ \A k \in FaultKinds : faults[k] = 0) =>
        \A t, u \in Sockets :
            Before(Message("user", t), Message("user", u)) =>
                Before(Message("assistant", t), Message("user", u)) \/ turn[t] = "cut"

\* A question without an answer is being worked on, or its task was killed at
\* birth, or a fault struck: disconnects and cancels lose no answer.
NoAnswerLost ==
    \A t \in Turns : Asked(t) /\ ~Answered(t) =>
        \/ turn[t] \in Working \cup {"recorded", "killed"}
        \/ saving[t] = "pending"
        \/ \E k \in FaultKinds : faults[k] > 0

\* chat_service.py:268, "the saving is guaranteed independently of cancellation".
AnswerAssured ==
    \A t \in Sockets :
        turn[t] \in {"over", "cut", "killed"} => saving[t] # "none"

Copies(t) == {i \in DOMAIN log : log[i] = Message("assistant", t)}

\* An answer is stored once.  Only over POST may it be stored a second time, and
\* only because the client left: the generator's finally does not know that the
\* saving it waited for has committed.
AnswersNotRepeated ==
    \A t \in Turns :
        Cardinality(Copies(t)) <= IF t \notin Sockets /\ turn[t] = "cut" THEN 2 ELSE 1

\* A registered turn leaves the registry, so that the candidate can ask again,
\* unless it was killed at birth.
RegistryReleased == \A t \in Sockets : active = t ~> active # t \/ turn[t] = "killed"

\* Every recorded question is answered, or its attempt is reset, or its task was
\* killed at birth, or a fault struck.
QuestionsSettle ==
    \A t \in Turns :
        Asked(t) ~> \/ Answered(t) \/ attempt = "gone" \/ turn[t] = "killed"
                    \/ \E k \in FaultKinds : faults[k] > 0

----------------------------------------------------------------------------
(* The inductive strengthening the proofs rest on, in named parts.           *)

\* No more than Tabs requests are between their check and their task.
AdmitInv == Cardinality(Admitting) <= Tabs

\* Without a race one socket turn at most is on its way, and once it works the
\* registry names it.
RaceInv ==
    ~raced =>
        /\ \A t, u \in Sockets :
              turn[t] \in Admission \cup Working /\ turn[u] \in Admission \cup Working => t = u
        /\ \A t \in Sockets : turn[t] \in Working => active = t

\* What the log, the buffer and the saving may hold at each stage of a turn.
StageInv ==
    \A t \in Turns :
        /\ (turn[t] \in {"idle", "refused", "checked", "open", "counted"} => ~Asked(t) /\ t \notin text)
        /\ (turn[t] \in {"idle", "refused", "killed"} \cup Admission \cup {"created", "streaming"}
              => ~Answered(t) /\ saving[t] = "none")
        /\ (saving[t] = "pending" => turn[t] \in {"persisting", "cut"})
        /\ (turn[t] \in {"recorded", "persisting", "cut"} \cup Working /\ attempt # "gone" => Asked(t))

\* A question is marked failed exactly when its answer was stored empty.
RefundInv == \A t \in Turns : t \in refunded <=> Answered(t) /\ t \notin text

\* The messages of a deleted attempt are deleted, and no answer stands alone.
LogInv ==
    /\ (attempt = "gone" => log = <<>>)
    /\ \A t \in Turns : Answered(t) => Asked(t)

\* How many answers a turn has stored, with what it may still store.
CopyInv ==
    \A t \in Turns :
        /\ Cardinality(Copies(t)) <= IF t \notin Sockets /\ turn[t] = "cut" THEN 2 ELSE 1
        /\ saving[t] = "pending" =>
              Cardinality(Copies(t)) <= IF t \notin Sockets /\ turn[t] = "cut" THEN 1 ELSE 0

\* Without faults a turn that ended has its saving behind it or under way.
SavedInv ==
    (\A k \in FaultKinds : faults[k] = 0) =>
        \A t \in Turns :
            /\ turn[t] # "lost"
            /\ (turn[t] \in {"persisting", "over", "cut"} => saving[t] # "none")
            /\ (saving[t] = "ok" /\ attempt # "gone" => Answered(t))
            /\ (saving[t] = "failed" => attempt = "gone")

\* A turn killed at birth keeps the registry, so that no socket turn follows it.
KilledInv ==
    (~raced /\ \A k \in FaultKinds : faults[k] = 0) =>
        \A t, u \in Sockets :
            turn[t] = "killed" => active = t /\ turn[u] \notin Admission \cup Working

ChatInv == TypeOK /\ AdmitInv /\ RaceInv /\ QuotaOverrunBounded
           /\ StageInv /\ RefundInv /\ LogInv /\ CopyInv /\ SavedInv /\ KilledInv

----------------------------------------------------------------------------
(* Refinement *)

\* Nobody is left who would store an answer to t.
GaveUp(t) ==
    /\ saving[t] # "pending"
    /\ \/ turn[t] \in {"killed", "lost"}
       \/ saving[t] = "failed" /\ (t \in Sockets \/ turn[t] = "cut")

StatusOf(t) ==
    IF ~Asked(t) THEN "absent"
    ELSE IF t \in refunded THEN "refunded"
    ELSE IF Answered(t) THEN "answered"
    ELSE IF GaveUp(t) THEN "abandoned" ELSE "asked"

\* Killed before its first step, or in a process or on a database that failed.
Struck == {t \in Turns : turn[t] = "killed" \/ \E k \in FaultKinds : faults[k] > 0}

Ledger == INSTANCE QuestionLedger WITH
    Leavable <- Turns \ Sockets,
    status   <- [t \in Turns |-> StatusOf(t)],
    heard    <- text,
    copies   <- [t \in Turns |-> Cardinality(Copies(t))],
    struck   <- Struck

\* A question is charged when it is recorded and refunded exactly when its
\* answer was stored empty, whatever is cancelled, left or raced.  It stays
\* charged without an answer only after a kill at birth, a crash or a failing
\* database, and its answer is stored twice only over POST.
ImplementsQuestionLedger == Ledger!QuestionSpec
=============================================================================
