----------------------------- MODULE ChatSocket -----------------------------
(***************************************************************************)
(* The chat panel of the exam page (AiChat.tsx) at the other end of the    *)
(* WebSocket of ai_ws.py: the handler that tells what is going on, replays *)
(* the turn in progress and pumps its subscription; the panel that keeps   *)
(* the running text, its list of messages and its lock, reconnects, falls  *)
(* back to POST /ai/chat, and loads the stored thread when it must catch   *)
(* up.  How a turn is admitted, saved and refunded is ChatTurn's subject;   *)
(* here a turn is what subscribers, and readers of the thread, see of it.   *)
(*                                                                         *)
(* React computes the updaters given to setMessages when it renders, which *)
(* may be after several events: they wait in "updates" and read the panel's *)
(* refs at that time.                                                      *)
(***************************************************************************)
EXTENDS Naturals, Sequences, FiniteSets, SequencesExt, Lists

CONSTANTS
    Problems,     \* the problems of the attempt, one thread each
    FirstProblem, \* the one the page opens with
    None,         \* no turn, no problem
    Turns,        \* the questions the candidate may ask, each once
    Sse,          \* the name the panel gives to every stream of POST /ai/chat
    MaxFailures,  \* MAX_WS_FAILURES
    Chunks,       \* bound: pieces of an answer
    MaxGets,      \* bound: requests for the thread under way at once, besides those
                  \* of a switch
    MaxBatch,     \* bound: updates one render takes
    MaxSurprises  \* bound: how often a socket, a POST or a load of the thread
                  \* breaks, a question is refused, the page is reloaded, the
                  \* problem switched, a turn cancelled or ended at the limit of
                  \* its tools; every question but the first counts as two

ASSUME NamesAssumption ==
    /\ FirstProblem \in Problems
    /\ None \notin Problems \cup Turns \cup {Sse}
    /\ Sse \notin Turns
ASSUME BoundsAssumption ==
    /\ MaxFailures \in Nat \ {0}
    /\ Chunks \in Nat
    /\ MaxGets \in Nat \ {0}
    /\ MaxBatch \in Nat \ {0}
    /\ MaxSurprises \in Nat

VARIABLES
    (* API process and Postgres *)
    stage,      \* stage[t]: how far turn t has come
    problemOf,  \* problemOf[t]: the thread t belongs to
    length,     \* length[t]: pieces of the answer in t's buffer
    noticed,    \* the turns whose buffer ends with the notice of the tool limit
    log,        \* ai_messages by created_at: <<role, turn>>
    active,     \* the registered turn
    (* the connection and its handler *)
    serving,    \* where the handler of the connection stands
    activeNow,  \* active_now, the turn it will name in "ready"
    handling,   \* the turn it is starting or replaying
    queue,      \* queue[t]: its subscription to t
    subscribed, \* the turns that publish into those queues
    pump,       \* the turn whose queue is being pumped
    up, down,   \* the messages under way on the socket
    posted,     \* the turns asked over POST /ai/chat
    reading,    \* those whose response the page is reading
    reply,      \* reply[t]: events under way on t's response
    (* the panel *)
    problem,    \* problemId
    conn,       \* conn
    failures,   \* failuresRef
    busy,       \* busy
    streamReq, streamProblem, streamText, \* the refs of those names
    messages,   \* what is rendered
    updates,    \* what setMessages was given since
    gets,       \* requests for the thread under way
    (* history *)
    slips,      \* the ways the panel was led astray so far
    surprises   \* how many surprises there were

server     == <<stage, problemOf, length, noticed, log, active>>
connection == <<serving, activeNow, handling, queue, subscribed, pump>>
wires      == <<up, down>>
fallback   == <<posted, reading, reply>>
stream     == <<streamReq, streamProblem, streamText>>
panel      == <<problem, conn, failures, busy, stream, messages, updates, gets>>
vars       == <<server, connection, wires, fallback, panel, slips, surprises>>

----------------------------------------------------------------------------
(* Data *)

Stages == {"idle", "asked", "starting", "refused", "streaming", "saving", "resaving", "over"}

\* A piece of text: the k-th of turn t; a question, or the
\* error told in place of an answer, counts as its piece 0.
Piece(t, k) == <<t, k>>
\* The buffer: what was published, and the notice, which never is.
Text(t) == [k \in 1..(length[t] + IF t \in noticed THEN 1 ELSE 0) |-> Piece(t, k)]

\* An envelope names its turn, or None; "delta" carries pieces.
Envelope(type, t, pieces) == [type |-> type, turn |-> t, text |-> pieces]

\* One message of the panel.  "note" is an error told in a bubble.
Bubble(role, text, streaming) == [role |-> role, text |-> text, streaming |-> streaming]
Question(t) == Bubble("user", <<Piece(t, 0)>>, FALSE)

\* The stored thread of a problem, as GET .../ai/messages lists it.
Row(m) == IF m[1] = "user" THEN Question(m[2]) ELSE Bubble("assistant", Text(m[2]), FALSE)
OfProblem(p, m) == problemOf[m[2]] = p
Thread(p) == LET rows == Kept(log, {i \in DOMAIN log : OfProblem(p, log[i])})
             IN  [i \in DOMAIN rows |-> Row(rows[i])]

Stored(role, t) == \E i \in DOMAIN log : log[i] = <<role, t>>

Surprising(n) == surprises + n <= MaxSurprises /\ surprises' = surprises + n
Surprise == Surprising(1)
Asking == Surprising(IF \A t \in Turns : stage[t] = "idle" THEN 0 ELSE 2)

\* The panel holds the text of t while t is running.
Follows(t) == streamReq = t \/ (streamReq = Sse /\ t \in reading)
\* It is yet to be told something of t.
Awaits(t) ==
    \/ Follows(t)
    \/ handling = t
    \/ queue[t] # <<>>
    \/ \E i \in DOMAIN down : down[i].turn = t

----------------------------------------------------------------------------
(* What the panel does with its list: each updater is computed when rendered. *)

LastStreams(ms) == ms # <<>> /\ ms[Len(ms)].streaming
ReplaceLast(ms, m) == [ms EXCEPT ![Len(ms)] = m]

\* appendDelta: the bubble shows the ref as it is now.
WithDelta(ms) ==
    IF LastStreams(ms)
    THEN ReplaceLast(ms, Bubble("assistant", streamText, TRUE))
    ELSE Append(ms, Bubble("assistant", streamText, TRUE))
\* turn_start: an empty bubble, unless one is open.
WithBubble(ms) == IF LastStreams(ms) THEN ms ELSE Append(ms, Bubble("assistant", <<>>, TRUE))
\* finalizeStream: the open bubble is closed.
Finalized(ms) == IF LastStreams(ms) THEN [ms EXCEPT ![Len(ms)].streaming = FALSE] ELSE ms
\* "error" of another request: the open bubble is turned into the note.
WithNote(ms) ==
    IF LastStreams(ms) THEN ReplaceLast(ms, Bubble("note", <<>>, FALSE))
                       ELSE Append(ms, Bubble("note", <<>>, FALSE))

Update(kind, rows) == [kind |-> kind, rows |-> rows]

Applied(ms, u) ==
    CASE u.kind = "delta"    -> WithDelta(ms)
      [] u.kind = "bubble"   -> WithBubble(ms)
      [] u.kind = "finalize" -> Finalized(ms)
      [] u.kind = "note"     -> WithNote(ms)
      [] u.kind = "append"   -> ms \o u.rows
      [] u.kind = "set"      -> u.rows

\* setMessages
SetMessages(us) == Len(updates) + Len(us) <= MaxBatch /\ updates' = updates \o us

\* What the updates make of the list, one after the other.
Rendered ==
    LET shown[n \in 0..Len(updates)] ==
            IF n = 0 THEN messages ELSE Applied(shown[n - 1], updates[n])
    IN  shown[Len(updates)]

\* React renders what has been set.
Render ==
    /\ updates # <<>>
    /\ messages' = Rendered
    /\ updates' = <<>>
    /\ UNCHANGED <<server, connection, wires, fallback, problem, conn, failures, busy, stream, gets, slips, surprises>>

\* Mutant: in whichever thread.
streamingAnywhere == streamReq # None
\* The turn in progress belongs to the thread that is shown.
streamingVisible == streamReq # None /\ streamProblem \in {None, problem}

\* finalizeStream resets the refs at once, the bubble at the next render.
finalizeStream ==
    /\ streamReq' = None
    /\ streamProblem' = None
    /\ streamText' = <<>>
    /\ busy' = FALSE

DeltaPending == \E i \in DOMAIN updates : updates[i].kind = "delta"
\* Bookkeeping of what led the panel astray.
Slip(cond, why) == IF cond THEN {why} ELSE {}

\* loadMessages: a request for the thread that is shown now.
Request(p) == [problem |-> p, rows |-> <<>>, read |-> FALSE]
loadMessages == Len(gets) < MaxGets /\ gets' = Append(gets, Request(problem))

----------------------------------------------------------------------------
Init ==
    /\ stage = [t \in Turns |-> "idle"]
    /\ problemOf = [t \in Turns |-> None]
    /\ length = [t \in Turns |-> 0]
    /\ noticed = {}
    /\ log = <<>>
    /\ active = None
    /\ serving = "none" /\ activeNow = None /\ handling = None
    /\ queue = [t \in Turns |-> <<>>]
    /\ subscribed = {} /\ pump = None
    /\ up = <<>> /\ down = <<>>
    /\ posted = {} /\ reading = {} /\ reply = [t \in Turns |-> <<>>]
    /\ problem = FirstProblem
    /\ conn = "connecting" /\ failures = 0
    /\ busy = FALSE
    /\ streamReq = None /\ streamProblem = None /\ streamText = <<>>
    /\ messages = <<>> /\ updates = <<>>
    /\ gets = <<Request(FirstProblem)>>
    /\ slips = {}
    /\ surprises = 0

----------------------------------------------------------------------------
(* The turn: what chat_service, or POST /ai/chat, tells of it *)

\* publish: into the queue of this connection, if it is subscribed.
Published(t, e) == IF t \in subscribed THEN [queue EXCEPT ![t] = Append(@, e)] ELSE queue

\* The question is recorded; the socket's turn is registered.  The handler that
\* asked, if it is still there, subscribes and announces the turn.
Register(t) ==
    /\ stage[t] = "starting"
    /\ stage' = [stage EXCEPT ![t] = "streaming"]
    /\ log' = Append(log, <<"user", t>>)
    /\ active' = IF t \in posted THEN active ELSE t
    /\ IF handling = t
       THEN /\ serving' = "started"
            /\ subscribed' = subscribed \cup {t}
            /\ down' = Append(down, Envelope("turn_start", t, <<>>))
       ELSE UNCHANGED <<serving, subscribed, down>>
    /\ UNCHANGED <<problemOf, length, noticed, activeNow, handling, queue, pump, up, fallback, panel, slips, surprises>>

\* The attempt is over, the quota is used up, or no provider is configured.
Refuse(t) ==
    /\ stage[t] = "starting"
    /\ Surprise
    /\ stage' = [stage EXCEPT ![t] = "refused"]
    /\ reply' = IF t \in posted
                THEN [reply EXCEPT ![t] = <<Envelope("delta", t, <<Piece(t, 0)>>), Envelope("refused", t, <<>>)>>]
                ELSE reply
    /\ IF handling = t
       THEN serving' = "looping" /\ handling' = None /\ down' = Append(down, Envelope("error", t, <<>>))
       ELSE UNCHANGED <<serving, handling, down>>
    /\ UNCHANGED <<problemOf, length, noticed, log, active, activeNow, queue, subscribed, pump, up, posted, reading,
                   panel, slips>>

Delta(t) ==
    /\ stage[t] = "streaming"
    /\ length[t] < Chunks
    /\ length' = [length EXCEPT ![t] = @ + 1]
    /\ LET e == Envelope("delta", t, <<Piece(t, length[t] + 1)>>)
       IN  /\ queue' = Published(t, e)
           /\ reply' = IF t \in posted THEN [reply EXCEPT ![t] = Append(@, e)] ELSE reply
    /\ UNCHANGED <<stage, problemOf, noticed, log, active, serving, activeNow, handling, subscribed, pump, wires,
                   posted, reading, panel, slips, surprises>>

\* The stream ends, is cancelled, or its POST has lost its client.  After
\* MAX_TOOL_ITERATIONS calls of tools a notice goes into the socket turn's
\* buffer, and to the database, but to no subscriber.
EndStream(t) ==
    /\ stage[t] = "streaming"
    /\ stage' = [stage EXCEPT ![t] = "saving"]
    /\ \/ UNCHANGED <<noticed, slips, surprises>>
       \/ /\ t \notin posted
          /\ Surprise
          /\ noticed' = noticed \cup {t}
          /\ slips' = slips \cup Slip(t \in subscribed, "untold")
    /\ UNCHANGED <<problemOf, length, log, active, connection, wires, fallback, panel>>

\* Nobody who shows the thread is told of this change of it.
Unseen(t) == ~Follows(t) /\ t \notin subscribed

Save(t) ==
    /\ stage[t] \in {"saving", "over"}
    /\ Stored("user", t) /\ ~Stored("assistant", t)
    /\ log' = Append(log, <<"assistant", t>>)
    /\ slips' = slips \cup Slip(Unseen(t), "missed") \cup Slip(stage[t] = "over", "late")
    /\ UNCHANGED <<stage, problemOf, length, noticed, active, connection, wires, fallback, panel, surprises>>

\* turn_end goes to the subscribers and the registry is cleared.
Over(t) ==
    /\ stage' = [stage EXCEPT ![t] = "over"]
    /\ active' = IF t \in posted THEN active ELSE None
    /\ queue' = Published(t, Envelope("turn_end", t, <<>>))
    /\ reply' = IF t \in posted
                THEN [reply EXCEPT ![t] = @ \o <<Envelope("done", t, <<>>), Envelope("eof", t, <<>>)>>]
                ELSE reply
    /\ slips' = slips \cup Slip(Unseen(t), "missed")

Settle(t) ==
    /\ stage[t] = "saving"
    /\ Stored("assistant", t)
    /\ Over(t)
    /\ UNCHANGED <<problemOf, length, noticed, log, serving, activeNow, handling, subscribed, pump, wires, posted,
                   reading, panel, surprises>>

\* The client of a POST leaves: an answer that is stored just then is stored
\* again, because the generator's finally does not know it yet.
Resaved(t) == IF stage[t] = "saving" /\ Stored("assistant", t) THEN "resaving" ELSE stage[t]

SaveAgain(t) ==
    /\ stage[t] = "resaving"
    /\ stage' = [stage EXCEPT ![t] = "over"]
    /\ log' = Append(log, <<"assistant", t>>)
    /\ slips' = slips \cup {"missed"}
    /\ UNCHANGED <<problemOf, length, noticed, active, connection, wires, fallback, panel, surprises>>

----------------------------------------------------------------------------
(* The handler of one connection *)

Offline ==
    /\ serving' = "none" /\ activeNow' = None /\ handling' = None
    /\ queue' = [t \in Turns |-> <<>>]
    /\ subscribed' = {} /\ pump' = None
    /\ up' = <<>> /\ down' = <<>>

\* "ready" names the turn it found before the usage was read, if it still runs.
Ready ==
    /\ serving = "accepted"
    /\ serving' = "readied"
    /\ LET running == activeNow # None /\ stage[activeNow] # "over"
       IN  down' = Append(down, Envelope("ready", IF running THEN activeNow ELSE None, <<>>))
    /\ UNCHANGED <<server, activeNow, handling, queue, subscribed, pump, up, fallback, panel, slips, surprises>>

\* The registry is asked again: subscribe and announce the replay.
Replay ==
    /\ serving = "readied"
    /\ IF active = None
       THEN serving' = "looping" /\ UNCHANGED <<handling, subscribed, down>>
       ELSE /\ serving' = "replaying"
            /\ handling' = active
            /\ subscribed' = subscribed \cup {active}
            /\ down' = Append(down, Envelope("replay", active, <<>>))
    /\ slips' = slips \cup Slip(active = None /\ activeNow # None, "misled")
    /\ activeNow' = None
    /\ UNCHANGED <<server, queue, pump, up, fallback, panel, surprises>>

\* A turn that ended meanwhile is ended directly, what its queue holds is dropped.
Resume(t) ==
    /\ serving' = "looping"
    /\ handling' = None
    /\ IF stage[t] = "over"
       THEN /\ down' = Append(down, Envelope("turn_end", t, <<>>))
            /\ queue' = [queue EXCEPT ![t] = <<>>]
            /\ subscribed' = subscribed \ {t}
            /\ UNCHANGED pump
       ELSE pump' = t /\ UNCHANGED <<down, queue, subscribed>>

QueuedDelta(t) == \E i \in DOMAIN queue[t] : queue[t][i].type = "delta"

\* The text so far, in one delta; without any text nothing is sent.
ReplayText ==
    /\ serving = "replaying"
    /\ Text(handling) # <<>>
    /\ serving' = "replayed"
    /\ down' = Append(down, Envelope("delta", handling, Text(handling)))
    /\ slips' = slips \cup Slip(QueuedDelta(handling), "overlapped")
    /\ UNCHANGED <<server, activeNow, handling, queue, subscribed, pump, up, fallback, panel, surprises>>

EndReplay ==
    /\ \/ serving = "replaying" /\ Text(handling) = <<>>
       \/ serving = "replayed"
    /\ Resume(handling)
    /\ slips' = slips \cup Slip(stage[handling] = "over" /\ QueuedDelta(handling), "overlapped")
    /\ UNCHANGED <<server, activeNow, up, fallback, panel, surprises>>

\* _pump
Pump ==
    /\ pump # None
    /\ queue[pump] # <<>>
    /\ down' = Append(down, Head(queue[pump]))
    /\ queue' = [queue EXCEPT ![pump] = Tail(@)]
    /\ UNCHANGED <<server, serving, activeNow, handling, subscribed, pump, up, fallback, panel, slips, surprises>>

Receive(type) ==
    /\ serving = "looping"
    /\ up # <<>>
    /\ Head(up).type = type
    /\ up' = Tail(up)

ReceiveChat ==
    /\ Receive("chat")
    /\ LET t == Head(up).turn
       IN  IF active = None
           THEN /\ stage' = [stage EXCEPT ![t] = "starting"]
                /\ serving' = "starting"
                /\ handling' = t
                /\ UNCHANGED down
           ELSE /\ stage' = [stage EXCEPT ![t] = "refused"]
                /\ down' = Append(down, Envelope("error", t, <<>>))
                /\ UNCHANGED <<serving, handling>>
    /\ UNCHANGED <<problemOf, length, noticed, log, active, activeNow, queue, subscribed, pump, fallback, panel, slips, surprises>>

\* _swap_pump: the pump of the turn before is stopped, its queue dropped.
SwapPump ==
    /\ serving = "started"
    /\ serving' = "looping"
    /\ handling' = None
    /\ pump' = handling
    /\ subscribed' = subscribed \ {pump}
    /\ queue' = [t \in Turns |-> IF t = pump THEN <<>> ELSE queue[t]]
    /\ UNCHANGED <<server, activeNow, wires, fallback, panel, slips, surprises>>

\* cancel_turn: the stream ends; a turn that is being saved ends at once.
ReceiveCancel ==
    /\ Receive("cancel")
    /\ \/ /\ active # None
          /\ stage[active] = "streaming"
          /\ stage' = [stage EXCEPT ![active] = "saving"]
          /\ UNCHANGED <<active, queue, reply, slips>>
       \/ /\ active # None
          /\ stage[active] = "saving"
          /\ Over(active)
       \/ /\ active = None
          /\ UNCHANGED <<stage, active, queue, reply, slips>>
    /\ UNCHANGED <<problemOf, length, noticed, log, serving, activeNow, handling, subscribed, pump, down, posted, reading,
                   panel, surprises>>

----------------------------------------------------------------------------
(* The panel's connection *)

\* onopen, which follows the handler's accept().
Open ==
    /\ conn = "connecting"
    /\ serving = "none"
    /\ conn' = "online"
    /\ failures' = 0
    /\ IF failures > 0 THEN loadMessages ELSE UNCHANGED gets
    /\ serving' = "accepted"
    /\ activeNow' = active
    /\ UNCHANGED <<server, handling, queue, subscribed, pump, wires, fallback, problem, busy, stream, messages,
                   updates, slips, surprises>>

\* onclose: the next attempt is timed, or the panel gives the socket up.
Close ==
    /\ conn # "fallback"
    /\ Surprise
    /\ failures' = failures + 1
    /\ conn' = IF failures + 1 >= MaxFailures THEN "fallback" ELSE "connecting"
    /\ Offline
    /\ slips' = slips \cup Slip(busy /\ streamReq = None, "lost")
                      \cup Slip(busy /\ streamReq # Sse /\ conn' = "fallback", "fallen")
    /\ UNCHANGED <<server, fallback, problem, busy, stream, messages, updates, gets>>

\* The page is reloaded: the panel starts anew.
Reload ==
    /\ Surprise
    /\ Offline
    /\ problem' = FirstProblem
    /\ conn' = "connecting" /\ failures' = 0
    /\ busy' = FALSE
    /\ streamReq' = None /\ streamProblem' = None /\ streamText' = <<>>
    /\ messages' = <<>> /\ updates' = <<>>
    /\ gets' = <<Request(FirstProblem)>>
    /\ stage' = [t \in Turns |-> IF t \in reading THEN Resaved(t) ELSE stage[t]]
    /\ reading' = {}
    /\ UNCHANGED <<problemOf, length, noticed, log, active, posted, reply, slips>>

----------------------------------------------------------------------------
(* onmessage *)

Take(type) ==
    /\ down # <<>>
    /\ Head(down).type = type
    /\ down' = Tail(down)

\* Mutant: nobody asks.
EndMissedNever == FALSE
\* The panel follows a turn and the server has none.
EndMissed == Head(down).turn = None /\ streamReq # None

OnReady ==
    /\ Take("ready")
    /\ IF EndMissed
       THEN finalizeStream /\ SetMessages(<<Update("finalize", <<>>)>>) /\ loadMessages
       ELSE UNCHANGED <<stream, busy, updates, gets>>
    /\ slips' = slips \cup Slip(Head(down).turn = None /\ streamReq = Sse, "interrupted")
    /\ UNCHANGED <<server, connection, up, fallback, problem, conn, failures, messages, surprises>>

OnTurnStart ==
    /\ Take("turn_start")
    /\ LET t == Head(down).turn
       IN  /\ streamReq' = t
           /\ streamProblem' = problemOf[t]
           /\ IF problemOf[t] = problem THEN SetMessages(<<Update("bubble", <<>>)>>) ELSE UNCHANGED updates
    /\ streamText' = <<>>
    /\ busy' = TRUE
    /\ slips' = slips \cup Slip(streamReq # None, "interrupted")
    /\ UNCHANGED <<server, connection, up, fallback, problem, conn, failures, messages, gets, surprises>>

\* Mutant: the text is kept.
ReplayKeeps == streamText
\* The replayed text fills the ref anew.
ReplayFrom == <<>>

OnReplay ==
    /\ Take("replay")
    /\ streamReq' = Head(down).turn
    /\ streamProblem' = problemOf[Head(down).turn]
    /\ streamText' = ReplayFrom
    /\ busy' = TRUE
    /\ loadMessages
    /\ slips' = slips \cup Slip(streamReq = Sse, "interrupted")
    /\ UNCHANGED <<server, connection, up, fallback, problem, conn, failures, messages, updates, surprises>>

\* appendDelta: nothing of a stream the panel does not follow.
appendDelta(req, pieces) ==
    /\ streamText' = IF streamReq = req THEN streamText \o pieces ELSE streamText
    /\ IF streamReq = req /\ streamingVisible THEN SetMessages(<<Update("delta", <<>>)>>) ELSE UNCHANGED updates
    /\ UNCHANGED <<streamReq, streamProblem>>

OnDelta ==
    /\ Take("delta")
    /\ appendDelta(Head(down).turn, Head(down).text)
    /\ UNCHANGED <<server, connection, up, fallback, problem, conn, failures, busy, messages, gets, slips, surprises>>

\* Whatever stream is followed is finalised; a delta that waits to be rendered
\* will find the ref empty.
Finish(t) ==
    /\ finalizeStream
    /\ SetMessages(<<Update("finalize", <<>>)>>)
    /\ slips' = slips \cup Slip(streamReq \notin {None, t}, "interrupted")
                      \cup Slip(DeltaPending, "batched")

OnTurnEnd ==
    /\ Take("turn_end")
    /\ Finish(Head(down).turn)
    /\ UNCHANGED <<server, connection, up, fallback, problem, conn, failures, messages, gets, surprises>>

OnError ==
    /\ Take("error")
    /\ IF streamReq = Head(down).turn
       THEN Finish(streamReq)
       ELSE /\ SetMessages(<<Update("note", <<>>)>>)
            /\ busy' = FALSE
            /\ slips' = slips \cup Slip(streamReq # None, "overwritten")
            /\ UNCHANGED stream
    /\ UNCHANGED <<server, connection, up, fallback, problem, conn, failures, messages, gets, surprises>>

\* streamAiChat reads the response: onDelta; onDone for the last event and once
\* more at its end; a refusal is told and the stream finalised.
OnReply(t) ==
    /\ t \in reading
    /\ reply[t] # <<>>
    /\ reply' = [reply EXCEPT ![t] = Tail(@)]
    /\ IF Head(reply[t]).type = "delta"
       THEN appendDelta(Sse, Head(reply[t]).text) /\ UNCHANGED <<busy, reading, slips>>
       ELSE /\ Finish(IF Head(reply[t]).type = "eof" THEN None ELSE Sse)
            /\ reading' = IF Head(reply[t]).type = "done" THEN reading ELSE reading \ {t}
    /\ UNCHANGED <<server, connection, wires, posted, problem, conn, failures, messages, gets, surprises>>

\* fetch or reader.read() rejects: nobody in send catches it, so that neither
\* finalizeStream nor setBusy(false) runs.  The request may not have arrived.
BreakPost(t) ==
    /\ t \in reading
    /\ Surprise
    /\ reading' = reading \ {t}
    /\ \/ stage' = [stage EXCEPT ![t] = Resaved(t)]
       \/ stage[t] = "starting" /\ stage' = [stage EXCEPT ![t] = "refused"]
    /\ slips' = slips \cup {"broken"}
    /\ UNCHANGED <<problemOf, length, noticed, log, active, connection, wires, posted, reply, panel>>

----------------------------------------------------------------------------
(* The thread, and the candidate *)

\* list_messages answers with what is stored now.
ReadThread(i) ==
    /\ ~gets[i].read
    /\ gets' = [gets EXCEPT ![i] = [@ EXCEPT !.rows = Thread(gets[i].problem), !.read = TRUE]]
    /\ UNCHANGED <<server, connection, wires, fallback, problem, conn, failures, busy, stream, messages, updates,
                   slips, surprises>>

\* The answer replaces the list, whichever problem it was asked for; the open
\* bubble is put back from the ref.
ShowThread(i) ==
    /\ gets[i].read
    /\ gets' = RemoveAt(gets, i)
    /\ LET open == IF streamingVisible THEN <<Bubble("assistant", streamText, TRUE)>> ELSE <<>>
       IN  SetMessages(<<Update("set", gets[i].rows \o open)>>)
    /\ slips' = slips
         \cup Slip(gets[i].problem # problem, "crossed")
         \cup Slip(gets[i].rows # Thread(gets[i].problem) \/ \E t \in Turns : stage[t] \in {"asked", "starting"}, "stale")
         \cup Slip(\E t \in Turns : Awaits(t) /\ Stored("assistant", t), "doubled")
    /\ UNCHANGED <<server, connection, wires, fallback, problem, conn, failures, busy, stream, messages, surprises>>

\* A load that fails is swallowed: the list stays as it is.
LoseThread(i) ==
    /\ Surprise
    /\ gets' = RemoveAt(gets, i)
    /\ slips' = slips \cup {"unloaded"}
    /\ UNCHANGED <<server, connection, wires, fallback, problem, conn, failures, busy, stream, messages, updates>>

SwitchProblem(p) ==
    /\ Surprise
    /\ p # problem
    /\ problem' = p
    /\ SetMessages(<<Update("set", <<>>)>>)
    /\ gets' = Append(gets, Request(p))
    /\ UNCHANGED <<server, connection, wires, fallback, conn, failures, busy, stream, messages, slips>>

\* The chat bar: the send button, or while a turn runs online the stop button.
Sendable(t) == ~busy /\ stage[t] = "idle"
Stoppable == busy /\ conn = "online"

\* send over the open socket.
Send(t) ==
    /\ Sendable(t)
    /\ Asking
    /\ conn = "online"
    /\ busy' = TRUE
    /\ SetMessages(<<Update("append", <<Question(t)>>)>>)
    /\ up' = Append(up, Envelope("chat", t, <<>>))
    /\ stage' = [stage EXCEPT ![t] = "asked"]
    /\ problemOf' = [problemOf EXCEPT ![t] = problem]
    /\ UNCHANGED <<length, noticed, log, active, connection, down, fallback, problem, conn, failures, stream, messages, gets, slips>>

\* send without a socket: POST /ai/chat, with an open bubble from the start.
Post(t) ==
    /\ Sendable(t)
    /\ Asking
    /\ conn # "online"
    /\ busy' = TRUE
    /\ SetMessages(<<Update("append", <<Question(t), Bubble("assistant", <<>>, TRUE)>>)>>)
    /\ streamReq' = Sse
    /\ streamProblem' = problem
    /\ streamText' = <<>>
    /\ stage' = [stage EXCEPT ![t] = "starting"]
    /\ problemOf' = [problemOf EXCEPT ![t] = problem]
    /\ posted' = posted \cup {t}
    /\ reading' = reading \cup {t}
    /\ slips' = slips \cup Slip(streamReq # None, "interrupted")
    /\ UNCHANGED <<length, noticed, log, active, connection, wires, reply, problem, conn, failures, messages, gets>>

Cancel ==
    /\ Stoppable
    /\ Surprise
    /\ up' = Append(up, Envelope("cancel", None, <<>>))
    /\ UNCHANGED <<server, connection, down, fallback, panel, slips>>

----------------------------------------------------------------------------
Turn(t)  == Register(t) \/ Refuse(t) \/ Delta(t) \/ EndStream(t) \/ Save(t) \/ Settle(t) \/ SaveAgain(t)
Handler  == Ready \/ Replay \/ ReplayText \/ EndReplay \/ Pump \/ ReceiveChat \/ SwapPump \/ ReceiveCancel
Messages == OnReady \/ OnTurnStart \/ OnReplay \/ OnDelta \/ OnTurnEnd \/ OnError
Catching == \E i \in DOMAIN gets : ReadThread(i) \/ ShowThread(i) \/ LoseThread(i)

Next ==
    \/ \E t \in Turns : Turn(t) \/ OnReply(t) \/ BreakPost(t) \/ Send(t) \/ Post(t)
    \/ Handler \/ Messages \/ Catching \/ Render
    \/ Open \/ Close \/ Reload \/ Cancel
    \/ \E p \in Problems : SwitchProblem(p)

Spec == Init /\ [][Next]_vars

----------------------------------------------------------------------------
(* Properties *)

Slips == {"missed", "late", "misled", "overlapped", "lost", "fallen", "interrupted", "batched", "overwritten",
          "crossed", "stale", "doubled", "untold", "unloaded", "broken"}

\* Every variable keeps to the values the code gives it.
TypeOK ==
    /\ stage \in [Turns -> Stages]
    /\ problemOf \in [Turns -> Problems \cup {None}]
    /\ length \in [Turns -> 0..Chunks] /\ noticed \subseteq Turns
    /\ active \in Turns \cup {None}
    /\ serving \in {"none", "accepted", "readied", "replaying", "replayed", "looping", "starting", "started"}
    /\ (conn = "online" <=> serving # "none")
    /\ {activeNow, handling, pump} \subseteq Turns \cup {None}
    /\ reading \subseteq posted /\ posted \cup subscribed \subseteq Turns
    /\ problem \in Problems
    /\ conn \in {"connecting", "online", "fallback"}
    /\ failures \in 0..MaxFailures /\ (conn # "fallback" => failures < MaxFailures)
    /\ busy \in BOOLEAN
    /\ streamReq \in Turns \cup {Sse, None}
    /\ streamProblem \in Problems \cup {None}
    /\ slips \subseteq Slips
    /\ surprises \in 0..MaxSurprises

\* Nothing is under way any more between the panel and the API.
AtRest ==
    /\ updates = <<>> /\ gets = <<>> /\ up = <<>> /\ down = <<>> /\ reading = {}
    /\ conn # "connecting" /\ serving \in {"none", "looping"}
    /\ (pump # None => queue[pump] = <<>>)
    /\ \A t \in Turns : stage[t] \in {"idle", "asked", "refused", "over"}
    /\ \A t \in Turns : Stored("user", t) => Stored("assistant", t)

\* The list without what tells of no recorded turn: errors, refused questions.
OfRecord(m) ==
    /\ m.role # "note"
    /\ m.text # <<>> /\ Last(m.text)[2] = 0 => m.role = "user" /\ Stored("user", Last(m.text)[1])
Shown == SelectSeq(messages, OfRecord)

\* AiChat.tsx:52 and :85, "no loss", "safe against ordering races": at rest the
\* unlocked panel shows the stored thread of its problem, message by message,
\* each once and with its whole text.  Whatever breaks, reconnects, is replayed
\* or reloaded: only the named slips can make it differ, among them a notice that
\* was stored and never sent, and a load of the thread that failed.
RestShowsThread == AtRest /\ ~busy /\ slips = {} => Shown = Thread(problem)

Locking == {"lost", "fallen", "misled", "broken"}

\* The panel asks again only when it is unlocked.  At rest it stays locked for
\* good in four cases: the socket broke before turn_start, the socket was given
\* up during a turn, the turn "ready" named was over before its replay, or the
\* POST of a question was rejected.
LockExplained == AtRest /\ busy => slips \cap Locking # {}

\* The places where a text does not go on with the next piece.
Breaks(x) == {j \in 2..Len(x) : x[j][2] # x[j - 1][2] + 1}

\* A bubble never mixes two answers, leaves out a piece in the middle, or starts
\* in the middle; a piece is repeated only where deltas were queued during a
\* replay, and there once.  Two responses of POST /ai/chat that are read at
\* once, after "ready" unlocked the first, do write into one bubble.
TextInOrder ==
    "interrupted" \notin slips =>
        \A i \in DOMAIN messages :
            LET x == messages[i].text
            IN  /\ \A j \in DOMAIN x : x[j][1] = x[1][1]
                /\ (x # <<>> => x[1][2] \in {0, 1})
                /\ \A j \in Breaks(x) : x[j][2] <= x[j - 1][2]
                /\ Cardinality(Breaks(x)) <= (IF "overlapped" \in slips THEN 1 ELSE 0)

----------------------------------------------------------------------------
(* The invariant the proofs use *)

Underway == {"streaming", "saving"}
Unlocking == {"turn_end", "error"}
Opening == {"turn_start", "replay"}
Has(q, types) == \E i \in DOMAIN q : q[i].type \in types

Pieces == Seq(Turns \X Nat)
Queued == [type : {"delta", "turn_end"}, turn : Turns, text : Pieces]
Wired == Queued \cup [type : Opening \cup {"error"}, turn : Turns, text : Pieces]
                \cup [type : {"ready"}, turn : Turns \cup {None}, text : Pieces]
Asked == [type : {"chat"}, turn : Turns, text : Pieces] \cup [type : {"cancel"}, turn : {None}, text : Pieces]

WiresInv ==
    /\ down \in Seq(Wired) /\ up \in Seq(Asked)
    /\ queue \in [Turns -> Seq(Queued)]
    /\ conn # "online" => down = <<>> /\ up = <<>>

\* A question is asked once, and a turn in the registry is neither over nor a POST's.
AskedInv ==
    /\ \A i \in DOMAIN up : up[i].type = "chat" => stage[up[i].turn] = "asked"
    /\ \A i, j \in DOMAIN up : up[i].type = "chat" /\ up[j].type = "chat" /\ up[i].turn = up[j].turn => i = j
    /\ active # None => active \notin posted /\ stage[active] \in Underway

\* The turns of the socket and those of POST /ai/chat are apart.
ApartInv ==
    /\ \A t \in posted : stage[t] \notin {"idle", "asked"}
    /\ \A t \in subscribed : stage[t] # "idle"
    /\ posted \cap (subscribed \cup {handling}) = {}

\* The end of turn t is still to come through its queue.
EndComing(t) == stage[t] \in Underway \/ Has(queue[t], {"turn_end"})

\* The handler is subscribed to the turn it tells of, and to the one it pumps.
HandlerInv ==
    /\ (handling = None <=> serving \in {"none", "accepted", "readied", "looping"})
    /\ serving = "starting" => stage[handling] = "starting"
    /\ serving \in {"replaying", "replayed", "started"} =>
          handling \in subscribed /\ stage[handling] \in Underway \cup {"over"}
    /\ serving = "started" => EndComing(handling)
    /\ serving \in {"none", "accepted", "readied", "replaying", "replayed"} => pump = None
    /\ pump # None => pump \in subscribed /\ pump # handling /\ stage[pump] \in Underway \cup {"over"}

\* The handler will send what unlocks the panel.
EndDue ==
    \/ pump # None /\ EndComing(pump)
    \/ serving \in {"starting", "replaying", "replayed", "started"}

\* What locks the panel is followed by what unlocks it.
FollowedInv ==
    \A i \in DOMAIN down : down[i].type \in Opening =>
        EndDue \/ \E j \in DOMAIN down : j > i /\ down[j].type \in Unlocking

\* Something that unlocks the panel is on its way: an end or an error; a question not yet
\* answered; or what tells a panel that follows a turn that there is none.
UnlockComing ==
    \/ Has(down, Unlocking) \/ EndDue
    \/ Has(up, {"chat"})
    \/ streamReq # None /\ (serving = "accepted" \/ \E i \in DOMAIN down : down[i].type = "ready" /\ down[i].turn = None)
    \/ serving = "readied" /\ activeNow # None

PanelInv ==
    /\ streamReq = Sse /\ "broken" \notin slips => reading # {}
    /\ busy /\ streamReq # Sse /\ slips \cap Locking = {} =>
          \/ conn = "connecting" /\ streamReq # None
          \/ conn = "online" /\ UnlockComing

LockInv == TypeOK /\ WiresInv /\ AskedInv /\ ApartInv /\ HandlerInv /\ FollowedInv /\ PanelInv
=============================================================================
