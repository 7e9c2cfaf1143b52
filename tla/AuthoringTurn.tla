---------------------------- MODULE AuthoringTurn ----------------------------
(***************************************************************************)
(* A conversation of the problem authoring assistant: the panel             *)
(* (AuthoringChat.tsx), its WebSocket, and the turn on the server            *)
(* (routers/authoring_ws.py, ai/authoring.py).  The model's tool calls are   *)
(* carried out by the page, one at a time: the server sends the call and     *)
(* waits for the result, but no longer than a time limit.  The history the   *)
(* model is shown belongs to the connection.                                 *)
(*                                                                          *)
(* The model provider and the network are the environment: an answer is any  *)
(* number of calls or none, and may be an exception; a connection may break  *)
(* at any moment, a result may come late.                                    *)
(***************************************************************************)
EXTENDS Naturals, Sequences, FiniteSets, SequencesExt

CONSTANTS
    None,
    MaxIterations, \* MAX_ITERATIONS, 12 in the code
    MaxItems,      \* trim_history's max_items, 60 in the code
    MaxFailures,   \* connections that fail in a row before the panel gives up, 4
    MaxBatch,      \* bound: tool calls in one answer
    MaxCalls,      \* bound: tool calls
    MaxQuestions,  \* bound: messages the author sends
    MaxMishaps     \* bound: connections lost or refused, tools too slow

ASSUME LimitsAssumption == {MaxIterations, MaxItems, MaxFailures} \subseteq Nat \ {0}
ASSUME BoundsAssumption == {MaxBatch, MaxCalls, MaxQuestions, MaxMishaps} \subseteq Nat

VARIABLES
    link,     \* the panel's socket: connecting, open, down until the timer, left
    failures, \* failuresRef
    busy,     \* busy
    applied,  \* the calls the page has carried out on the draft, in order
    toServer, \* messages on their way to the server
    toClient, \* envelopes on their way to the panel
    messages, \* the conversation, as the model is shown it
    turn,     \* the turn task: where it is, its rounds, calls left, results so far
    pending,  \* the call whose future waits in pending_tools
    arrived,  \* its result has arrived
    calls,    \* tool calls so far; a call is its number
    asked,    \* messages the author has sent
    mishaps

page   == <<link, failures, busy, applied>>
wire   == <<toServer, toClient>>
server == <<messages, turn, pending, arrived>>
count  == <<calls, asked, mishaps>>
vars   == <<page, wire, server, count>>

Call == 1..MaxCalls
\* A result is what the page answered, a violation of the tool's schema, or a timeout.
Result == [id : Call, told : {"answer", "rejected", "failed"}]

Question   == [kind |-> "question"]
Answer     == [kind |-> "answer"]
Calls(ids) == [kind |-> "calls", ids |-> ids]
Results(r) == [kind |-> "results", results |-> r]
IsQuestion(m) == m.kind = "question"

NoTurn == [pc |-> "idle", round |-> 0, todo |-> <<>>, results |-> <<>>]

TypeOK ==
    /\ link \in {"connecting", "open", "down", "left"}
    /\ failures \in 0..MaxFailures
    /\ busy \in BOOLEAN
    /\ applied \in Seq(Call)
    /\ \A i \in DOMAIN toServer : toServer[i].type \in {"chat", "tool_result"}
    /\ \A i \in DOMAIN toClient : toClient[i].type \in {"tool_call", "turn_end", "error"}
    /\ turn.pc \in {"idle", "starting", "model", "tools", "waiting", "closing", "ending"}
    /\ turn.round \in 0..MaxIterations
    /\ turn.todo \in Seq(Call) /\ turn.results \in Seq(Result)
    /\ pending \in Call \cup {None} /\ arrived \in BOOLEAN

Init ==
    /\ link = "connecting" /\ failures = 0 /\ busy = FALSE /\ applied = <<>>
    /\ toServer = <<>> /\ toClient = <<>>
    /\ messages = <<>> /\ turn = NoTurn /\ pending = None /\ arrived = FALSE
    /\ calls = 0 /\ asked = 0 /\ mishaps = 0

----------------------------------------------------------------------------
(* The history *)

\* Mutant: cut where the limit falls.
JustTheLast(s) == IF Len(s) <= MaxItems THEN s ELSE SubSeq(s, Len(s) - MaxItems + 1, Len(s))

\* The last max_items, from a question on; the last two when no question is among them.
trim_history(s) ==
    IF Len(s) <= MaxItems THEN s
    ELSE LET starts == {i \in (Len(s) - MaxItems + 1)..Len(s) : IsQuestion(s[i])}
         IN IF starts = {} THEN SubSeq(s, Len(s) - 1, Len(s))
            ELSE SubSeq(s, Min(starts), Len(s))

----------------------------------------------------------------------------
(* The panel and its socket *)

connect ==
    /\ link = "down"
    /\ failures < MaxFailures
    /\ link' = "connecting"
    /\ UNCHANGED <<failures, busy, applied, wire, server, count>>

\* The server begins a new conversation.
onopen ==
    /\ link = "connecting"
    /\ link' = "open"
    /\ failures' = 0
    /\ messages' = <<>> /\ turn' = NoTurn /\ pending' = None /\ arrived' = FALSE
    /\ UNCHANGED <<busy, applied, wire, count>>

\* What was on its way is lost, and the server cancels the turn.
Disconnect ==
    /\ busy' = FALSE
    /\ toServer' = <<>> /\ toClient' = <<>>
    /\ messages' = <<>> /\ turn' = NoTurn /\ pending' = None /\ arrived' = FALSE

onclose ==
    /\ link \in {"connecting", "open"}
    /\ mishaps < MaxMishaps
    /\ mishaps' = mishaps + 1
    /\ link' = "down"
    /\ failures' = failures + 1
    /\ Disconnect
    /\ UNCHANGED <<applied, calls, asked>>

Unmount ==
    /\ link # "left"
    /\ link' = "left"
    /\ Disconnect
    /\ UNCHANGED <<failures, applied, count>>

send ==
    /\ link = "open" /\ ~busy
    /\ asked < MaxQuestions
    /\ asked' = asked + 1
    /\ busy' = TRUE
    /\ toServer' = Append(toServer, [type |-> "chat"])
    /\ UNCHANGED <<link, failures, applied, toClient, server, calls, mishaps>>

\* An edit that throws is answered with the exception.
onmessage ==
    /\ toClient # <<>>
    /\ LET ev == Head(toClient) IN
       IF ev.type = "tool_call"
       THEN /\ applied' = Append(applied, ev.call)
            /\ toServer' = Append(toServer, [type |-> "tool_result", call |-> ev.call])
            /\ UNCHANGED busy
       ELSE /\ busy' = FALSE
            /\ UNCHANGED <<applied, toServer>>
    /\ toClient' = Tail(toClient)
    /\ UNCHANGED <<link, failures, server, count>>

----------------------------------------------------------------------------
(* The receive loop of the server *)

ReceiveChat ==
    /\ toServer # <<>> /\ Head(toServer).type = "chat"
    /\ toServer' = Tail(toServer)
    /\ IF turn.pc = "idle"
       THEN /\ turn' = [NoTurn EXCEPT !.pc = "starting"]
            /\ UNCHANGED toClient
       ELSE /\ toClient' = Append(toClient, [type |-> "error"])
            /\ UNCHANGED turn
    /\ UNCHANGED <<page, messages, pending, arrived, count>>

\* Mutant: whichever call waits.
Waits(call) == pending # None
Awaited(call) == pending = call

\* The result of a call that waits no longer is dropped.
ReceiveResult ==
    /\ toServer # <<>> /\ Head(toServer).type = "tool_result"
    /\ toServer' = Tail(toServer)
    /\ arrived' = (arrived \/ Awaited(Head(toServer).call))
    /\ UNCHANGED <<page, toClient, messages, turn, pending, count>>

----------------------------------------------------------------------------
(* The turn *)

NoProvider ==
    /\ turn.pc = "starting"
    /\ toClient' = Append(toClient, [type |-> "error"])
    /\ turn' = [turn EXCEPT !.pc = "ending"]
    /\ UNCHANGED <<page, toServer, messages, pending, arrived, count>>

run_chat ==
    /\ turn.pc = "starting"
    /\ messages' = trim_history(Append(messages, Question))
    /\ turn' = [turn EXCEPT !.pc = "model"]
    /\ UNCHANGED <<page, wire, pending, arrived, count>>

\* Mutant: the page is told of answers only.
Silently == "ending"
\* Every way out of a turn that has begun ends with turn_end.
AfterFailure == "closing"

\* The database or the provider raises.
TurnFails ==
    /\ turn.pc \in {"starting", "model"}
    /\ turn' = [turn EXCEPT !.pc = AfterFailure]
    /\ UNCHANGED <<page, wire, messages, pending, arrived, count>>

\* An answer without calls, or from a provider that has no tools.
ModelAnswers ==
    /\ turn.pc = "model"
    /\ messages' = Append(messages, Answer)
    /\ turn' = [turn EXCEPT !.pc = "closing"]
    /\ UNCHANGED <<page, wire, pending, arrived, count>>

ModelCalls(n) ==
    /\ turn.pc = "model"
    /\ calls + n <= MaxCalls
    /\ calls' = calls + n
    /\ LET ids == [i \in 1..n |-> calls + i] IN
       /\ messages' = Append(messages, Calls(ids))
       /\ turn' = [turn EXCEPT !.pc = "tools", !.todo = ids, !.results = <<>>]
    /\ UNCHANGED <<page, wire, pending, arrived, asked, mishaps>>

\* The call at the head of todo has its result.
Told(how) ==
    turn' = [turn EXCEPT !.pc = "tools", !.todo = Tail(@),
                         !.results = Append(@, [id |-> Head(turn.todo), told |-> how])]

\* validate_tool_input finds the input against the schema, or the tool unknown.
RejectCall ==
    /\ turn.pc = "tools" /\ turn.todo # <<>>
    /\ Told("rejected")
    /\ UNCHANGED <<page, wire, messages, pending, arrived, count>>

request_tool ==
    /\ turn.pc = "tools" /\ turn.todo # <<>>
    /\ pending' = Head(turn.todo) /\ arrived' = FALSE
    /\ toClient' = Append(toClient, [type |-> "tool_call", call |-> Head(turn.todo)])
    /\ turn' = [turn EXCEPT !.pc = "waiting"]
    /\ UNCHANGED <<page, toServer, messages, count>>

ToolAnswered ==
    /\ turn.pc = "waiting" /\ arrived
    /\ Told("answer")
    /\ pending' = None /\ arrived' = FALSE
    /\ UNCHANGED <<page, wire, messages, count>>

ToolTimesOut ==
    /\ turn.pc = "waiting" /\ ~arrived
    /\ mishaps < MaxMishaps
    /\ mishaps' = mishaps + 1
    /\ Told("failed")
    /\ pending' = None
    /\ UNCHANGED <<page, wire, messages, arrived, calls, asked>>

\* The round is over; after the last one the turn says so and stops.
EndRound ==
    /\ turn.pc = "tools" /\ turn.todo = <<>>
    /\ LET told == Append(messages, Results(turn.results)) IN
       IF turn.round + 1 < MaxIterations
       THEN /\ messages' = told
            /\ turn' = [turn EXCEPT !.pc = "model", !.round = @ + 1, !.results = <<>>]
       ELSE /\ messages' = Append(told, Answer)
            /\ turn' = [NoTurn EXCEPT !.pc = "closing", !.round = MaxIterations]
    /\ UNCHANGED <<page, wire, pending, arrived, count>>

SendTurnEnd ==
    /\ turn.pc = "closing"
    /\ toClient' = Append(toClient, [type |-> "turn_end"])
    /\ turn' = [turn EXCEPT !.pc = "ending"]
    /\ UNCHANGED <<page, toServer, messages, pending, arrived, count>>

\* Only now the task is done, and the next message is taken.
TaskDone ==
    /\ turn.pc = "ending"
    /\ turn' = NoTurn
    /\ UNCHANGED <<page, wire, messages, pending, arrived, count>>

----------------------------------------------------------------------------
Panel == connect \/ onopen \/ send \/ onmessage
Loop  == ReceiveChat \/ ReceiveResult
Turn  ==
    \/ NoProvider \/ run_chat \/ TurnFails
    \/ ModelAnswers \/ (\E n \in 1..MaxBatch : ModelCalls(n))
    \/ RejectCall \/ request_tool \/ ToolAnswered \/ ToolTimesOut \/ EndRound
    \/ SendTurnEnd \/ TaskDone

Next == Panel \/ Loop \/ Turn \/ onclose \/ Unmount

\* The provider's client and the database answer or raise in the end, the socket
\* delivers what it has or breaks, and the page's event loop runs.
Fairness == WF_vars(onmessage) /\ WF_vars(Loop) /\ WF_vars(Turn)

Spec == Init /\ [][Next]_vars /\ Fairness

----------------------------------------------------------------------------
(* Properties *)

\* What a provider demands of a conversation: it begins with a question, results stand
\* right behind the calls they answer, one for each call and in their order, and calls
\* without results are only the last message, while the turn carries them out.
HistoryWellFormed ==
    /\ messages # <<>> => IsQuestion(messages[1])
    /\ \A i \in DOMAIN messages :
          /\ messages[i].kind = "results" =>
                /\ i > 1 /\ messages[i - 1].kind = "calls"
                /\ messages[i - 1].ids = [j \in DOMAIN messages[i].results |-> messages[i].results[j].id]
          /\ messages[i].kind = "calls" =>
                \/ i < Len(messages) /\ messages[i + 1].kind = "results"
                \/ i = Len(messages) /\ turn.pc \in {"tools", "waiting"}

\* The results the model has been told or will be: those of the history and the round's.
ToldResults ==
    Range(turn.results)
      \cup UNION {Range(messages[i].results) : i \in {j \in DOMAIN messages : messages[j].kind = "results"}}

\* The model is told the truth about the draft: what was answered has been carried out,
\* what was rejected never is, and nothing is carried out twice.  A call that timed out
\* may have been carried out or may yet be.
ToolsToldTruly ==
    /\ \A r \in ToldResults :
          /\ r.told = "answer" => Contains(applied, r.id)
          /\ r.told = "rejected" => ~Contains(applied, r.id)
    /\ IsInjective(applied)

\* A panel that waits is freed: by the end of the turn, an error or a closed socket.
PanelUnlocks == busy ~> ~busy
=============================================================================
