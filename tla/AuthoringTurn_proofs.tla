------------------------ MODULE AuthoringTurn_proofs ------------------------
(***************************************************************************)
(* Proofs about AuthoringTurn: its types, that the model is told the truth  *)
(* about the draft, and that the conversation stays one a provider accepts, *)
(* wherever it is trimmed and whenever a turn fails.                        *)
(***************************************************************************)
EXTENDS AuthoringTurn, SequenceTheorems, WellFoundedInduction, TLAPS

Message  == {Question, Answer} \cup [kind : {"calls"}, ids : Seq(Call)]
                               \cup [kind : {"results"}, results : Seq(Result)]
Request  == [type : {"chat"}] \cup [type : {"tool_result"}, call : Call]
Envelope == [type : {"turn_end", "error"}] \cup [type : {"tool_call"}, call : Call]
Turns    == [pc : {"idle", "starting", "model", "tools", "waiting", "closing", "ending"},
             round : 0..MaxIterations, todo : Seq(Call), results : Seq(Result)]

\* TypeOK with the elements of the sequences and what keeps the counters in range.
Types ==
    /\ link \in {"connecting", "open", "down", "left"}
    /\ failures \in 0..MaxFailures
    /\ link \in {"connecting", "open"} => failures < MaxFailures
    /\ busy \in BOOLEAN
    /\ applied \in Seq(Call)
    /\ toServer \in Seq(Request) /\ toClient \in Seq(Envelope)
    /\ messages \in Seq(Message)
    /\ turn \in Turns
    /\ pending \in Call \cup {None} /\ arrived \in BOOLEAN
    /\ calls \in 0..MaxCalls

LEMMA Limits == /\ MaxIterations \in Nat \ {0} /\ MaxItems \in Nat \ {0} /\ MaxFailures \in Nat \ {0}
                /\ MaxBatch \in Nat /\ MaxCalls \in Nat
BY LimitsAssumption, BoundsAssumption

LEMMA Typed == Types => TypeOK
<1> SUFFICES ASSUME Types PROVE TypeOK
    OBVIOUS
<1>1. \A i \in DOMAIN toServer : toServer[i].type \in {"chat", "tool_result"}
    BY DEF Types, Request
<1>2. \A i \in DOMAIN toClient : toClient[i].type \in {"tool_call", "turn_end", "error"}
    BY DEF Types, Envelope
<1>3. /\ turn.pc \in {"idle", "starting", "model", "tools", "waiting", "closing", "ending"}
      /\ turn.round \in 0..MaxIterations
      /\ turn.todo \in Seq(Call) /\ turn.results \in Seq(Result)
    BY DEF Types, Turns
<1> QED
    BY <1>1, <1>2, <1>3 DEF Types, TypeOK

LEMMA NoTurnTyped == NoTurn \in Turns
BY Limits DEF NoTurn, Turns

LEMMA InitTypes == Init => Types
<1> SUFFICES ASSUME Init PROVE Types
    OBVIOUS
<1>1. applied \in Seq(Call) /\ toServer \in Seq(Request) /\ toClient \in Seq(Envelope)
      /\ messages \in Seq(Message)
    BY DEF Init
<1>2. failures \in 0..MaxFailures /\ failures < MaxFailures /\ calls \in 0..MaxCalls
    BY Limits DEF Init
<1> QED
    BY <1>1, <1>2, NoTurnTyped DEF Init, Types

\* What is put at the end of the sequences.
LEMMA Elements ==
    /\ Question \in Message /\ Answer \in Message
    /\ \A ids \in Seq(Call) : Calls(ids) \in Message
    /\ \A r \in Seq(Result) : Results(r) \in Message
    /\ [type |-> "chat"] \in Request
    /\ \A c \in Call : [type |-> "tool_result", call |-> c] \in Request
    /\ [type |-> "turn_end"] \in Envelope /\ [type |-> "error"] \in Envelope
    /\ \A c \in Call : [type |-> "tool_call", call |-> c] \in Envelope
BY DEF Message, Request, Envelope, Calls, Results

\* A trimmed history is the old one from some place on.
LEMMA TrimCuts ==
    ASSUME NEW s \in Seq(Message), s # <<>>, IsQuestion(s[Len(s)])
    PROVE  \E k \in 1..Len(s) : trim_history(s) = SubSeq(s, k, Len(s)) /\ (k = 1 \/ IsQuestion(s[k]))
<1>1. CASE Len(s) <= MaxItems
    <2>1. SubSeq(s, 1, Len(s)) = s
        OBVIOUS
    <2> QED
        BY <1>1, <2>1 DEF trim_history
<1>2. CASE ~(Len(s) <= MaxItems)
    <2> DEFINE starts == {i \in (Len(s) - MaxItems + 1)..Len(s) : IsQuestion(s[i])}
    <2>1. Len(s) \in starts /\ starts \subseteq 1..Len(s)
        BY <1>2, Limits
    <2>2. PICK k \in starts : \A i \in starts : k <= i
        <3> DEFINE less == {p \in Nat \X Nat : p[1] < p[2]}
        <3>1. IsWellFoundedOn(less, Nat)
            BY NatLessThanWellFounded, IsWellFoundedOnSubrelation DEF OpToRel
        <3>2. starts \subseteq Nat /\ starts # {}
            BY <2>1
        <3>3. PICK k \in starts : \A i \in starts : <<i, k>> \notin less
            BY <3>1, <3>2, WFMin
        <3>4. ASSUME NEW i \in starts PROVE k <= i
            <4>1. i \in Nat /\ k \in Nat /\ <<i, k>> \notin less
                BY <3>2, <3>3
            <4>2. i < k => <<i, k>> \in less
                BY <4>1
            <4> HIDE DEF less
            <4> QED
                BY <4>1, <4>2
        <3> QED
            BY <3>4
    <2>3. Min(starts) = k
        BY <2>1, <2>2 DEF Min
    <2>4. trim_history(s) = SubSeq(s, k, Len(s))
        BY <1>2, <2>1, <2>3 DEF trim_history
    <2> QED
        BY <2>1, <2>4
<1> QED
    BY <1>1, <1>2

LEMMA TrimTyped ==
    ASSUME NEW s \in Seq(Message), s # <<>>, IsQuestion(s[Len(s)])
    PROVE  trim_history(s) \in Seq(Message)
<1>1. PICK k \in 1..Len(s) : trim_history(s) = SubSeq(s, k, Len(s))
    BY TrimCuts
<1> QED
    BY <1>1

\* The steps of a turn between its places, and to the next call.
LEMMA TurnStep ==
    ASSUME turn \in Turns
    PROVE  /\ \A p \in {"starting", "model", "tools", "waiting", "closing", "ending"} :
                  [turn EXCEPT !.pc = p] \in Turns
           /\ [NoTurn EXCEPT !.pc = "starting"] \in Turns
           /\ [NoTurn EXCEPT !.pc = "closing", !.round = MaxIterations] \in Turns
<1>1. \A p \in {"starting", "model", "tools", "waiting", "closing", "ending"} :
            [turn EXCEPT !.pc = p] \in Turns
    BY DEF Turns
<1>2. \A t \in Turns : /\ [t EXCEPT !.pc = "starting"] \in Turns
                       /\ [t EXCEPT !.pc = "closing", !.round = MaxIterations] \in Turns
    <2>1. MaxIterations \in 0..MaxIterations
        BY Limits
    <2> QED
        BY <2>1 DEF Turns
<1> QED
    BY <1>1, <1>2, NoTurnTyped

LEMMA ToldTyped ==
    ASSUME turn \in Turns, turn.todo # <<>>, NEW how \in {"answer", "rejected", "failed"}, Told(how)
    PROVE  turn' \in Turns
<1>1. Head(turn.todo) \in Call /\ Tail(turn.todo) \in Seq(Call) /\ turn.results \in Seq(Result)
    BY DEF Turns
<1>2. Append(turn.results, [id |-> Head(turn.todo), told |-> how]) \in Seq(Result)
    BY <1>1 DEF Result
<1> QED
    BY <1>1, <1>2 DEF Turns, Told

LEMMA DisconnectTyped ==
    ASSUME Disconnect
    PROVE  /\ busy' \in BOOLEAN
           /\ toServer' \in Seq(Request) /\ toClient' \in Seq(Envelope) /\ messages' \in Seq(Message)
           /\ turn' \in Turns /\ pending' \in Call \cup {None} /\ arrived' \in BOOLEAN
<1>1. /\ busy' = FALSE /\ arrived' = FALSE /\ toServer' = <<>> /\ toClient' = <<>> /\ messages' = <<>>
      /\ turn' = NoTurn /\ pending' = None
    BY DEF Disconnect
<1>2. <<>> \in Seq(Request) /\ <<>> \in Seq(Envelope) /\ <<>> \in Seq(Message)
    OBVIOUS
<1>3. turn' \in Turns
    BY <1>1, NoTurnTyped
<1>4. busy' \in BOOLEAN /\ arrived' \in BOOLEAN
    BY <1>1
<1> QED
    BY <1>1, <1>2, <1>3, <1>4

\* While a call waits it is the next.
Waiting == turn.pc = "waiting" => turn.todo # <<>> /\ pending = turn.todo[1]

LEMMA PanelTypes == ASSUME Types, Panel PROVE Types'
<1>1. CASE connect
    BY <1>1 DEF connect, Types, wire, server, count
<1>2. CASE onopen
    <2>1. messages' \in Seq(Message) /\ failures' \in 0..MaxFailures /\ failures' < MaxFailures
        BY <1>2, Limits DEF onopen
    <2> QED
        BY <1>2, <2>1, NoTurnTyped DEF onopen, Types, wire, count
<1>3. CASE send
    <2>1. toServer' \in Seq(Request)
        BY <1>3, Elements DEF send, Types
    <2> QED
        BY <1>3, <2>1 DEF send, Types, server
<1>4. CASE onmessage
    <2>1. toClient' \in Seq(Envelope) /\ Head(toClient) \in Envelope
        BY <1>4 DEF onmessage, Types
    <2>2. /\ busy' \in BOOLEAN /\ applied' \in Seq(Call) /\ toServer' \in Seq(Request)
        <3>1. CASE Head(toClient).type = "tool_call"
            <4>1. Head(toClient).call \in Call
                BY <2>1, <3>1 DEF Envelope
            <4>2. /\ applied' = Append(applied, Head(toClient).call)
                  /\ toServer' = Append(toServer, [type |-> "tool_result", call |-> Head(toClient).call])
                  /\ busy' = busy
                BY <1>4, <3>1 DEF onmessage
            <4>3. [type |-> "tool_result", call |-> Head(toClient).call] \in Request
                BY <4>1, Elements
            <4> QED
                BY <4>1, <4>2, <4>3 DEF Types
        <3>2. CASE Head(toClient).type # "tool_call"
            BY <1>4, <3>2 DEF onmessage, Types
        <3> QED
            BY <3>1, <3>2
    <2> QED
        BY <1>4, <2>1, <2>2 DEF onmessage, Types, server, count
<1> QED
    BY <1>1, <1>2, <1>3, <1>4 DEF Panel

LEMMA LoopTypes == ASSUME Types, Loop PROVE Types'
<1>1. CASE ReceiveChat
    <2>1. toServer' \in Seq(Request)
        BY <1>1 DEF ReceiveChat, Types
    <2>2. toClient' \in Seq(Envelope)
        <3>1. toClient' = toClient \/ toClient' = Append(toClient, [type |-> "error"])
            BY <1>1 DEF ReceiveChat
        <3>2. [type |-> "error"] \in Envelope
            BY Elements
        <3>3. toClient \in Seq(Envelope)
            BY DEF Types
        <3>4. Append(toClient, [type |-> "error"]) \in Seq(Envelope)
            BY <3>2, <3>3
        <3> QED
            BY <3>1, <3>3, <3>4
    <2>3. turn' \in Turns
        BY <1>1, TurnStep DEF ReceiveChat, Types
    <2> QED
        BY <1>1, <2>1, <2>2, <2>3 DEF ReceiveChat, Types, page, count
<1>2. CASE ReceiveResult
    <2>1. toServer' \in Seq(Request)
        BY <1>2 DEF ReceiveResult, Types
    <2>2. arrived' \in BOOLEAN
        BY <1>2 DEF ReceiveResult, Types
    <2> QED
        BY <1>2, <2>1, <2>2 DEF ReceiveResult, Types, page, count
<1> QED
    BY <1>1, <1>2 DEF Loop

LEMMA TurnTypes == ASSUME Types, Waiting, Turn PROVE Types'
<1>1. CASE NoProvider
    <2>1. toClient' \in Seq(Envelope) /\ turn' \in Turns
        BY <1>1, Elements, TurnStep DEF NoProvider, Types
    <2> QED
        BY <1>1, <2>1 DEF NoProvider, Types, page, count
<1>2. CASE run_chat
    <2>1. turn' \in Turns
        BY <1>2, TurnStep DEF run_chat, Types
    <2>2. messages' \in Seq(Message)
        <3> DEFINE s == Append(messages, Question)
        <3>1. s \in Seq(Message) /\ s # <<>> /\ s[Len(s)] = Question
            <4>1. messages \in Seq(Message) /\ Question \in Message
                BY Elements DEF Types
            <4> QED
                BY <4>1
        <3>2. IsQuestion(Question)
            BY DEF IsQuestion, Question
        <3>3. messages' = trim_history(s)
            BY <1>2 DEF run_chat
        <3> HIDE DEF s
        <3> QED
            BY <3>1, <3>2, <3>3, TrimTyped
    <2> QED
        BY <1>2, <2>1, <2>2 DEF run_chat, Types, page, wire, count
<1>3. CASE TurnFails
    <2>1. turn' \in Turns
        BY <1>3, TurnStep DEF TurnFails, AfterFailure, Types
    <2> QED
        BY <1>3, <2>1 DEF TurnFails, Types, page, wire, count
<1>4. CASE ModelAnswers
    <2>1. turn' \in Turns /\ messages' \in Seq(Message)
        BY <1>4, TurnStep, Elements DEF ModelAnswers, Types
    <2> QED
        BY <1>4, <2>1 DEF ModelAnswers, Types, page, wire, count
<1>5. ASSUME NEW n \in 1..MaxBatch, ModelCalls(n) PROVE Types'
    <2> DEFINE ids == [i \in 1..n |-> calls + i]
    <2>1. calls' \in 0..MaxCalls /\ ids \in Seq(Call)
        <3>1. calls \in 0..MaxCalls /\ n \in Nat /\ calls + n <= MaxCalls /\ calls' = calls + n
            BY <1>5, Limits DEF ModelCalls, Types
        <3>2. \A i \in 1..n : calls + i \in Call
            BY <3>1, Limits DEF Call
        <3> QED
            BY <3>1, <3>2, Limits
    <2>2. messages' \in Seq(Message) /\ turn' \in Turns
        <3>1. turn' = [turn EXCEPT !.pc = "tools", !.todo = ids, !.results = <<>>]
              /\ messages' = Append(messages, Calls(ids))
            BY <1>5 DEF ModelCalls
        <3>2. Calls(ids) \in Message /\ <<>> \in Seq(Result)
            BY <2>1, Elements
        <3> HIDE DEF ids
        <3>3. messages' \in Seq(Message)
            BY <3>1, <3>2 DEF Types
        <3>4. turn' \in Turns
            BY <2>1, <3>1, <3>2 DEF Types, Turns
        <3> QED
            BY <3>3, <3>4
    <2> QED
        BY <1>5, <2>1, <2>2 DEF ModelCalls, Types, page, wire
<1>6. CASE RejectCall
    <2>1. turn' \in Turns
        BY <1>6, ToldTyped DEF RejectCall, Types
    <2> QED
        BY <1>6, <2>1 DEF RejectCall, Types, page, wire, count
<1>7. CASE request_tool
    <2>1. Head(turn.todo) \in Call
        BY <1>7 DEF request_tool, Types, Turns
    <2>2. toClient' \in Seq(Envelope) /\ turn' \in Turns /\ pending' \in Call \cup {None}
        BY <1>7, <2>1, Elements, TurnStep DEF request_tool, Types
    <2> QED
        BY <1>7, <2>2 DEF request_tool, Types, page, count
<1>8. CASE ToolAnswered
    <2>1. turn' \in Turns /\ pending' \in Call \cup {None}
        BY <1>8, ToldTyped DEF ToolAnswered, Waiting, Types
    <2> QED
        BY <1>8, <2>1 DEF ToolAnswered, Types, page, wire, count
<1>9. CASE ToolTimesOut
    <2>1. turn' \in Turns /\ pending' \in Call \cup {None}
        BY <1>9, ToldTyped DEF ToolTimesOut, Waiting, Types
    <2> QED
        BY <1>9, <2>1 DEF ToolTimesOut, Types, page, wire
<1>10. CASE EndRound
    <2>1. turn' \in Turns
        <3>1. CASE turn.round + 1 < MaxIterations
            <4>1. turn' = [turn EXCEPT !.pc = "model", !.round = @ + 1, !.results = <<>>]
                BY <1>10, <3>1 DEF EndRound
            <4>2. turn.round + 1 \in 0..MaxIterations /\ <<>> \in Seq(Result)
                BY <3>1, Limits DEF Types, Turns
            <4> QED
                BY <4>1, <4>2 DEF Types, Turns
        <3>2. CASE ~(turn.round + 1 < MaxIterations)
            BY <1>10, <3>2, TurnStep DEF EndRound, Types
        <3> QED
            BY <3>1, <3>2
    <2>2. messages' \in Seq(Message)
        <3>1. Results(turn.results) \in Message
            BY Elements DEF Types, Turns
        <3>2. Append(messages, Results(turn.results)) \in Seq(Message)
            BY <3>1 DEF Types
        <3>3. \/ messages' = Append(messages, Results(turn.results))
              \/ messages' = Append(Append(messages, Results(turn.results)), Answer)
            BY <1>10 DEF EndRound
        <3>4. Append(Append(messages, Results(turn.results)), Answer) \in Seq(Message)
            BY <3>2, Elements
        <3> QED
            BY <3>2, <3>3, <3>4
    <2> QED
        BY <1>10, <2>1, <2>2 DEF EndRound, Types, page, wire, count
<1>11. CASE SendTurnEnd
    <2>1. toClient' \in Seq(Envelope) /\ turn' \in Turns
        BY <1>11, Elements, TurnStep DEF SendTurnEnd, Types
    <2> QED
        BY <1>11, <2>1 DEF SendTurnEnd, Types, page, count
<1>12. CASE TaskDone
    BY <1>12, NoTurnTyped DEF TaskDone, Types, page, wire, count
<1> QED
    BY <1>1, <1>2, <1>3, <1>4, <1>5, <1>6, <1>7, <1>8, <1>9, <1>10, <1>11, <1>12 DEF Turn
LEMMA LeaveTypes == ASSUME Types, onclose \/ Unmount PROVE Types'
<1>1. /\ link' \in {"connecting", "open", "down", "left"}
      /\ failures' \in 0..MaxFailures
      /\ link' \in {"connecting", "open"} => failures' < MaxFailures
      /\ applied' = applied /\ calls' = calls /\ Disconnect
    <2>1. CASE onclose
        <3>1. failures < MaxFailures /\ failures' = failures + 1
            BY <2>1 DEF onclose, Types
        <3> QED
            BY <2>1, <3>1, Limits DEF onclose, Types
    <2>2. CASE Unmount
        BY <2>2 DEF Unmount, Types, count
    <2> QED
        BY <2>1, <2>2
<1> QED
    BY <1>1, DisconnectTyped DEF Types

LEMMA IdleTypes == ASSUME Types, UNCHANGED vars PROVE Types'
BY DEF vars, page, wire, server, count, Types

LEMMA TypesKept == ASSUME Types, Waiting, [Next]_vars PROVE Types'
BY PanelTypes, LoopTypes, TurnTypes, LeaveTypes, IdleTypes DEF Next

LEMMA WaitingKept == ASSUME Types, Waiting, [Next]_vars PROVE Waiting'
<1>1. CASE request_tool
    <2>1. turn.todo \in Seq(Call) /\ turn.todo # <<>> /\ turn'.todo = turn.todo
          /\ pending' = Head(turn.todo)
        BY <1>1 DEF request_tool, Types, Turns
    <2> QED
        BY <2>1 DEF Waiting
<1>2. CASE /\ turn' = turn \/ turn'.pc # "waiting"
           /\ pending' = pending \/ turn'.pc # "waiting"
    BY <1>2 DEF Waiting
<1>3. ASSUME NEW how \in {"answer", "rejected", "failed"}, Told(how) PROVE turn'.pc # "waiting"
    BY <1>3 DEF Told, Types, Turns
<1>4. NoTurn.pc # "waiting" /\ [NoTurn EXCEPT !.pc = "starting"].pc # "waiting"
      /\ [NoTurn EXCEPT !.pc = "closing", !.round = MaxIterations].pc # "waiting"
    BY DEF NoTurn
<1>5. \A p \in {"starting", "model", "tools", "closing", "ending"} :
            [turn EXCEPT !.pc = p].pc # "waiting"
    BY DEF Types, Turns
<1>6. CASE Panel
    BY <1>2, <1>4, <1>6 DEF Panel, connect, onopen, send, onmessage, server
<1>7. CASE Loop
    BY <1>2, <1>4, <1>7 DEF Loop, ReceiveChat, ReceiveResult
<1>8. CASE Turn
    <2>1. CASE NoProvider \/ run_chat \/ TurnFails \/ ModelAnswers \/ SendTurnEnd \/ TaskDone
        BY <1>2, <1>4, <1>5, <2>1
        DEF NoProvider, run_chat, TurnFails, AfterFailure, ModelAnswers, SendTurnEnd, TaskDone
    <2>2. ASSUME NEW n \in 1..MaxBatch, ModelCalls(n) PROVE turn'.pc # "waiting"
        BY <2>2 DEF ModelCalls, Types, Turns
    <2>3. CASE RejectCall \/ ToolAnswered \/ ToolTimesOut
        BY <1>2, <1>3, <2>3 DEF RejectCall, ToolAnswered, ToolTimesOut
    <2>4. CASE EndRound
        <3>1. turn'.pc # "waiting"
            BY <1>4, <2>4 DEF EndRound, Types, Turns
        <3> QED
            BY <1>2, <3>1
    <2> QED
        BY <1>1, <1>2, <1>8, <2>1, <2>2, <2>3, <2>4 DEF Turn
<1>9. CASE onclose \/ Unmount
    BY <1>2, <1>4, <1>9 DEF onclose, Unmount, Disconnect
<1>10. CASE UNCHANGED vars
    BY <1>2, <1>10 DEF vars, server
<1> QED
    BY <1>6, <1>7, <1>8, <1>9, <1>10 DEF Next

LEMMA TypesAlways == Spec => [](Types /\ Waiting)
<1>1. Init => Types /\ Waiting
    <2>1. Init => Waiting
        BY DEF Init, Waiting, NoTurn
    <2> QED
        BY <2>1, InitTypes
<1>2. Types /\ Waiting /\ [Next]_vars => (Types /\ Waiting)'
    BY TypesKept, WaitingKept
<1> QED
    BY <1>1, <1>2, PTL DEF Spec

\* Every state of the panel, the wire and the turn keeps its type.
THEOREM TypeCorrect == Spec => []TypeOK
<1>1. Types => TypeOK
    BY Typed
<1> QED
    BY <1>1, TypesAlways, PTL
----------------------------------------------------------------------------
(* The history a provider accepts *)

\* Its last message is calls that have no results.
Open(m) == m # <<>> /\ m[Len(m)].kind = "calls"

\* HistoryWellFormed of any history, but for the last message.
Sound(m) ==
    /\ m # <<>> => IsQuestion(m[1])
    /\ \A i \in 1..Len(m) :
          m[i].kind = "results" =>
            /\ i > 1 /\ m[i - 1].kind = "calls"
            /\ m[i - 1].ids = [j \in DOMAIN m[i].results |-> m[i].results[j].id]
    /\ \A i \in 1..Len(m) : m[i].kind = "calls" /\ i < Len(m) => m[i + 1].kind = "results"

\* While tools are carried out, the last message is their calls: first those that have
\* results, in their order, then those that have none.
Answering ==
    turn.pc \in {"tools", "waiting"} =>
      /\ Open(messages)
      /\ LET ids == messages[Len(messages)].ids IN
         /\ Len(ids) = Len(turn.results) + Len(turn.todo)
         /\ \A j \in 1..Len(turn.results) : ids[j] = turn.results[j].id
         /\ \A j \in 1..Len(turn.todo) : ids[Len(turn.results) + j] = turn.todo[j]

HistoryInv ==
    /\ Sound(messages)
    /\ Open(messages) => turn.pc \in {"tools", "waiting"}
    /\ turn.pc = "model" => messages # <<>>
    /\ Answering

LEMMA Kinds ==
    /\ Question.kind = "question" /\ Answer.kind = "answer" /\ IsQuestion(Question)
    /\ \A ids : Calls(ids).kind = "calls" /\ Calls(ids).ids = ids
    /\ \A r : Results(r).kind = "results" /\ Results(r).results = r
    /\ \A m : IsQuestion(m) => m.kind = "question"
BY DEF Question, Answer, Calls, Results, IsQuestion

LEMMA AppendIs ==
    ASSUME NEW m \in Seq(Message), NEW e \in Message
    PROVE  /\ Len(Append(m, e)) = Len(m) + 1 /\ Append(m, e) # <<>> /\ Len(m) \in Nat
           /\ Append(m, e)[Len(Append(m, e))] = e
           /\ \A i \in 1..Len(m) : Append(m, e)[i] = m[i]
OBVIOUS

\* Behind a history that waits for nothing comes anything but results.
LEMMA AppendSound ==
    ASSUME NEW m \in Seq(Message), NEW e \in Message, Sound(m), ~Open(m),
           e.kind # "results", m = <<>> => IsQuestion(e)
    PROVE  Sound(Append(m, e))
<1> DEFINE n == Append(m, e)
<1>1. /\ Len(n) = Len(m) + 1 /\ n # <<>> /\ n[Len(n)] = e /\ Len(m) \in Nat
      /\ \A i \in 1..Len(m) : n[i] = m[i]
    BY AppendIs
<1>2. IsQuestion(n[1])
    BY <1>1 DEF Sound
<1>3. ASSUME NEW i \in 1..Len(n), n[i].kind = "results"
      PROVE  /\ i > 1 /\ n[i - 1].kind = "calls"
             /\ n[i - 1].ids = [j \in DOMAIN n[i].results |-> n[i].results[j].id]
    <2>1. i \in 1..Len(m)
        BY <1>1, <1>3
    <2>2. i > 1 /\ m[i - 1].kind = "calls"
          /\ m[i - 1].ids = [j \in DOMAIN m[i].results |-> m[i].results[j].id]
        BY <1>1, <1>3, <2>1 DEF Sound
    <2>3. i - 1 \in 1..Len(m)
        BY <1>1, <2>1, <2>2
    <2> QED
        BY <1>1, <2>1, <2>2, <2>3
<1>4. ASSUME NEW i \in 1..Len(n), n[i].kind = "calls", i < Len(n) PROVE n[i + 1].kind = "results"
    <2>1. i \in 1..Len(m) /\ m[i].kind = "calls"
        BY <1>1, <1>4
    <2>2. i < Len(m)
        <3>1. m # <<>>
            BY <2>1
        <3> QED
            BY <1>1, <2>1, <3>1 DEF Open
    <2>3. m[i + 1].kind = "results" /\ i + 1 \in 1..Len(m)
        BY <1>1, <2>1, <2>2 DEF Sound
    <2> QED
        BY <1>1, <2>3
<1> HIDE DEF n
<1>5. Sound(n)
    BY <1>2, <1>3, <1>4 DEF Sound
<1> QED
    BY <1>5 DEF n

\* Behind calls come their results.
LEMMA AppendResults ==
    ASSUME NEW m \in Seq(Message), NEW r \in Seq(Result), Sound(m), Open(m),
           m[Len(m)].ids = [j \in DOMAIN r |-> r[j].id]
    PROVE  Sound(Append(m, Results(r))) /\ ~Open(Append(m, Results(r)))
<1> DEFINE n == Append(m, Results(r))
<1>1. /\ Len(n) = Len(m) + 1 /\ n # <<>> /\ n[Len(n)] = Results(r) /\ Len(m) \in Nat
      /\ \A i \in 1..Len(m) : n[i] = m[i]
    <2>1. Results(r) \in Message
        BY Elements
    <2> QED
        BY <2>1, AppendIs
<1> HIDE DEF n
<1>2. m # <<>> /\ Len(m) >= 1 /\ m[Len(m)].kind = "calls"
    BY <1>1 DEF Open
<1>3. IsQuestion(n[1])
    BY <1>1, <1>2 DEF Sound
<1>4. ASSUME NEW i \in 1..Len(n), n[i].kind = "results"
      PROVE  /\ i > 1 /\ n[i - 1].kind = "calls"
             /\ n[i - 1].ids = [j \in DOMAIN n[i].results |-> n[i].results[j].id]
    <2>1. CASE i \in 1..Len(m)
        <3>1. i > 1 /\ m[i - 1].kind = "calls"
              /\ m[i - 1].ids = [j \in DOMAIN m[i].results |-> m[i].results[j].id]
            BY <1>1, <1>4, <2>1 DEF Sound
        <3>2. i - 1 \in 1..Len(m)
            BY <1>1, <2>1, <3>1
        <3> QED
            BY <1>1, <2>1, <3>1, <3>2
    <2>2. CASE i = Len(m) + 1
        <3>1. n[i].results = r /\ n[i - 1] = m[Len(m)] /\ i > 1
            BY <1>1, <1>2, <2>2, Kinds
        <3> QED
            BY <1>2, <3>1
    <2> QED
        BY <1>1, <2>1, <2>2
<1>5. ASSUME NEW i \in 1..Len(n), n[i].kind = "calls", i < Len(n) PROVE n[i + 1].kind = "results"
    <2>1. i \in 1..Len(m) /\ m[i].kind = "calls"
        BY <1>1, <1>5
    <2>2. CASE i = Len(m)
        BY <1>1, <2>2, Kinds
    <2>3. CASE i < Len(m)
        <3>1. m[i + 1].kind = "results" /\ i + 1 \in 1..Len(m)
            BY <1>1, <2>1, <2>3 DEF Sound
        <3> QED
            BY <1>1, <3>1
    <2> QED
        BY <1>1, <2>1, <2>2, <2>3
<1>6. n[Len(n)].kind # "calls"
    BY <1>1, Kinds
<1>7. Sound(n) /\ ~Open(n)
    BY <1>3, <1>4, <1>5, <1>6 DEF Sound, Open
<1> QED
    BY <1>7 DEF n

\* A history cut at a question, or not at all, loses no calls of results it keeps.
LEMMA TrimSound ==
    ASSUME NEW s \in Seq(Message), s # <<>>, Sound(s), IsQuestion(s[Len(s)])
    PROVE  Sound(trim_history(s)) /\ ~Open(trim_history(s)) /\ trim_history(s) # <<>>
<1>1. PICK k \in 1..Len(s) : trim_history(s) = SubSeq(s, k, Len(s)) /\ (k = 1 \/ IsQuestion(s[k]))
    BY TrimCuts
<1> DEFINE n == SubSeq(s, k, Len(s))
<1>2. /\ Len(s) \in Nat /\ Len(n) = Len(s) - k + 1 /\ n # <<>>
      /\ \A i \in 1..Len(n) : n[i] = s[k + i - 1] /\ k + i - 1 \in 1..Len(s)
    BY <1>1
<1>3. IsQuestion(s[k])
    BY <1>1 DEF Sound
<1>4. n[1] = s[k] /\ n[Len(n)] = s[Len(s)] /\ 1 \in 1..Len(n)
    BY <1>1, <1>2
<1>5. ASSUME NEW i \in 1..Len(n), n[i].kind = "results"
      PROVE  /\ i > 1 /\ n[i - 1].kind = "calls"
             /\ n[i - 1].ids = [j \in DOMAIN n[i].results |-> n[i].results[j].id]
    <2>1. i # 1
        BY <1>3, <1>4, <1>5, Kinds
    <2>2. i > 1 /\ i - 1 \in 1..Len(n)
        BY <1>2, <2>1
    <2> DEFINE p == k + i - 1
    <2>3. p \in 1..Len(s) /\ n[i] = s[p] /\ n[i - 1] = s[p - 1]
        BY <1>2, <2>2
    <2> HIDE DEF p, n
    <2>4. s[p - 1].kind = "calls" /\ s[p - 1].ids = [j \in DOMAIN s[p].results |-> s[p].results[j].id]
        BY <1>5, <2>3 DEF Sound
    <2> QED
        BY <2>2, <2>3, <2>4
<1>6. ASSUME NEW i \in 1..Len(n), n[i].kind = "calls", i < Len(n) PROVE n[i + 1].kind = "results"
    <2> DEFINE p == k + i - 1
    <2>1. i + 1 \in 1..Len(n) /\ k + (i + 1) - 1 = p + 1
        BY <1>2, <1>6
    <2>2. p \in 1..Len(s) /\ n[i] = s[p] /\ n[i + 1] = s[p + 1]
        BY <1>2, <1>6, <2>1
    <2>3. p < Len(s)
        BY <1>2, <1>6
    <2> HIDE DEF p, n
    <2> QED
        BY <1>6, <2>2, <2>3 DEF Sound
<1>7. n[Len(n)].kind # "calls"
    BY <1>4, Kinds
<1> HIDE DEF n
<1>8. Sound(n) /\ ~Open(n)
    BY <1>3, <1>4, <1>5, <1>6, <1>7 DEF Sound, Open
<1> QED
    BY <1>1, <1>2, <1>8 DEF n
\* A tool has its result.
LEMMA ToldHistory ==
    ASSUME Types, HistoryInv, turn.pc \in {"tools", "waiting"}, turn.todo # <<>>,
           NEW how \in {"answer", "rejected", "failed"}, Told(how), UNCHANGED messages
    PROVE  HistoryInv'
<1> DEFINE ids == messages[Len(messages)].ids
           td  == turn.todo
           rs  == turn.results
           new == [id |-> Head(td), told |-> how]
<1>1. td \in Seq(Call) /\ td # <<>> /\ rs \in Seq(Result) /\ new \in Result
    BY DEF Types, Turns, Result
<1>2. turn'.pc = "tools" /\ turn'.todo = Tail(td) /\ turn'.results = Append(rs, new)
    BY DEF Told, Types, Turns
<1>3. /\ Len(ids) = Len(rs) + Len(td)
      /\ \A j \in 1..Len(rs) : ids[j] = rs[j].id
      /\ \A j \in 1..Len(td) : ids[Len(rs) + j] = td[j]
      /\ Open(messages)
    BY DEF HistoryInv, Answering
<1>4. /\ Len(Tail(td)) = Len(td) - 1 /\ Len(Append(rs, new)) = Len(rs) + 1
      /\ \A j \in 1..Len(Tail(td)) : Tail(td)[j] = td[j + 1]
      /\ Append(rs, new)[Len(rs) + 1] = new
      /\ \A j \in 1..Len(rs) : Append(rs, new)[j] = rs[j]
      /\ Head(td) = td[1] /\ Len(td) >= 1 /\ Len(td) \in Nat /\ Len(rs) \in Nat
    BY <1>1
<1>5. new.id = td[1]
    BY <1>4
<1> HIDE DEF td, rs, ids, new
<1>6. Len(ids) = Len(Append(rs, new)) + Len(Tail(td))
    <2>1. \A a, b \in Nat : a + b = (a + 1) + (b - 1)
        OBVIOUS
    <2>2. /\ Len(Tail(td)) = Len(td) - 1 /\ Len(Append(rs, new)) = Len(rs) + 1
          /\ Len(ids) = Len(rs) + Len(td) /\ Len(td) \in Nat /\ Len(rs) \in Nat
        BY <1>3, <1>4
    <2> QED
        BY <2>1, <2>2
<1>7. ASSUME NEW j \in 1..Len(Append(rs, new)) PROVE ids[j] = Append(rs, new)[j].id
    <2>1. CASE j \in 1..Len(rs)
        BY <1>3, <1>4, <2>1
    <2>2. CASE j = Len(rs) + 1
        BY <1>3, <1>4, <1>5, <2>2
    <2> QED
        BY <1>4, <2>1, <2>2
<1>8. ASSUME NEW j \in 1..Len(Tail(td)) PROVE ids[Len(Append(rs, new)) + j] = Tail(td)[j]
    <2>1. j + 1 \in 1..Len(td) /\ Len(rs) + (j + 1) = Len(Append(rs, new)) + j
        BY <1>4
    <2> QED
        BY <1>3, <1>4, <2>1
<1>9. Answering'
    <2> USE DEF ids
    <2> QED
        BY <1>2, <1>3, <1>6, <1>7, <1>8 DEF Answering, Open
<1> QED
    BY <1>2, <1>9 DEF HistoryInv, Sound, Open

LEMMA PanelHistory == ASSUME Types, HistoryInv, Panel PROVE HistoryInv'
<1>1. CASE UNCHANGED <<messages, turn>>
    BY <1>1 DEF HistoryInv, Sound, Open, Answering
<1>2. CASE messages' = <<>> /\ turn' = NoTurn
    BY <1>2 DEF HistoryInv, Sound, Open, Answering, NoTurn
<1> QED
    BY <1>1, <1>2 DEF Panel, connect, onopen, send, onmessage, server

LEMMA LeaveHistory == ASSUME onclose \/ Unmount PROVE HistoryInv'
<1>1. messages' = <<>> /\ turn' = NoTurn
    BY DEF onclose, Unmount, Disconnect
<1> QED
    BY <1>1 DEF HistoryInv, Sound, Open, Answering, NoTurn

\* A turn passes between places where it waits for no tool.
LEMMA CalmHistory ==
    ASSUME HistoryInv, UNCHANGED messages, turn.pc \notin {"tools", "waiting"},
           turn'.pc \notin {"model", "tools", "waiting"}
    PROVE  HistoryInv'
<1>1. Sound(messages') /\ (Open(messages') <=> Open(messages)) /\ (messages' # <<>> <=> messages # <<>>)
    BY DEF HistoryInv
<1>2. ~Open(messages)
    BY DEF HistoryInv
<1>3. Answering'
    BY DEF Answering
<1> QED
    BY <1>1, <1>2, <1>3 DEF HistoryInv

LEMMA LoopHistory == ASSUME Types, HistoryInv, Loop PROVE HistoryInv'
<1>1. CASE UNCHANGED <<messages, turn>>
    BY <1>1 DEF HistoryInv, Sound, Open, Answering
<1>2. CASE turn.pc = "idle" /\ turn' = [NoTurn EXCEPT !.pc = "starting"] /\ UNCHANGED messages
    <2>1. turn'.pc = "starting"
        BY <1>2 DEF NoTurn
    <2> QED
        BY <1>2, <2>1, CalmHistory
<1> QED
    BY <1>1, <1>2 DEF Loop, ReceiveChat, ReceiveResult

LEMMA TurnHistory == ASSUME Types, Waiting, HistoryInv, Turn PROVE HistoryInv'
<1>1. CASE NoProvider \/ TurnFails \/ SendTurnEnd \/ TaskDone
    <2>1. turn'.pc \in {"idle", "closing", "ending"}
        BY <1>1 DEF NoProvider, TurnFails, AfterFailure, SendTurnEnd, TaskDone, NoTurn, Types, Turns
    <2>2. turn.pc \notin {"tools", "waiting"} /\ UNCHANGED messages
        BY <1>1 DEF NoProvider, TurnFails, SendTurnEnd, TaskDone
    <2> QED
        BY <2>1, <2>2, CalmHistory
<1>2. CASE run_chat
    <2> DEFINE s == Append(messages, Question)
    <2>1. messages \in Seq(Message) /\ Question \in Message
        BY Elements DEF Types
    <2>2. ~Open(messages) /\ Sound(messages)
        BY <1>2 DEF run_chat, HistoryInv
    <2>3. Sound(s)
        BY <2>1, <2>2, AppendSound, Kinds
    <2>4. s \in Seq(Message) /\ s # <<>> /\ IsQuestion(s[Len(s)])
        BY <2>1, AppendIs, Kinds
    <2> HIDE DEF s
    <2>5. Sound(trim_history(s)) /\ ~Open(trim_history(s)) /\ trim_history(s) # <<>>
        BY <2>3, <2>4, TrimSound
    <2>6. messages' = trim_history(s)
        BY <1>2 DEF run_chat, s
    <2>7. turn'.pc = "model"
        BY <1>2 DEF run_chat, Types, Turns
    <2>8. Sound(messages') /\ ~Open(messages') /\ messages' # <<>>
        BY <2>5, <2>6
    <2> QED
        BY <2>7, <2>8 DEF HistoryInv, Answering, Sound, Open
<1>3. CASE ModelAnswers
    <2> DEFINE s == Append(messages, Answer)
    <2>1. messages \in Seq(Message) /\ Answer \in Message
        BY Elements DEF Types
    <2>2. ~Open(messages) /\ Sound(messages) /\ messages # <<>>
        BY <1>3 DEF ModelAnswers, HistoryInv
    <2>3. Sound(s)
        BY <2>1, <2>2, AppendSound, Kinds
    <2>4. s[Len(s)].kind # "calls"
        BY <2>1, AppendIs, Kinds
    <2> HIDE DEF s
    <2>5. messages' = s /\ turn'.pc = "closing"
        BY <1>3 DEF ModelAnswers, s, Types, Turns
    <2>6. Sound(messages') /\ ~Open(messages')
        BY <2>3, <2>4, <2>5 DEF Open
    <2> QED
        BY <2>5, <2>6 DEF HistoryInv, Answering, Sound, Open
<1>4. ASSUME NEW n \in 1..MaxBatch, ModelCalls(n) PROVE HistoryInv'
    <2> DEFINE ids == [i \in 1..n |-> calls + i]
               s   == Append(messages, Calls(ids))
    <2>1. messages \in Seq(Message) /\ ids \in Seq(Call) /\ n \in Nat
        <3>1. calls \in 0..MaxCalls /\ n \in Nat /\ calls + n <= MaxCalls
            BY <1>4, Limits DEF ModelCalls, Types
        <3>2. \A i \in 1..n : calls + i \in Call
            BY <3>1, Limits DEF Call
        <3> QED
            BY <3>1, <3>2 DEF Types
    <2>2. Len(ids) = n
        BY <2>1
    <2>3. Calls(ids) \in Message /\ Calls(ids).kind = "calls" /\ Calls(ids).ids = ids
        BY <2>1, Elements, Kinds
    <2>4. messages' = s /\ turn'.pc = "tools" /\ turn'.todo = ids /\ turn'.results = <<>>
        BY <1>4 DEF ModelCalls, Types, Turns
    <2>5. ~Open(messages) /\ Sound(messages) /\ messages # <<>>
        BY <1>4 DEF ModelCalls, HistoryInv
    <2> HIDE DEF ids
    <2>6. Sound(s)
        BY <2>1, <2>3, <2>5, AppendSound
    <2>7. s # <<>> /\ s[Len(s)] = Calls(ids)
        BY <2>1, <2>3, AppendIs
    <2> HIDE DEF s
    <2>8. Sound(messages') /\ Open(messages') /\ messages' # <<>>
        BY <2>3, <2>4, <2>6, <2>7 DEF Open
    <2>9. messages'[Len(messages')].ids = ids /\ Len(turn'.results) = 0
        BY <2>3, <2>4, <2>7
    <2>10. \A j \in 1..n : 0 + j = j
        BY <2>1
    <2>11. Answering'
        BY <2>2, <2>4, <2>8, <2>9, <2>10 DEF Answering, Open
    <2> QED
        BY <2>4, <2>8, <2>11 DEF HistoryInv, Sound, Open
<1>5. CASE RejectCall
    BY <1>5, ToldHistory DEF RejectCall
<1>6. CASE request_tool
    <2>1. turn'.pc = "waiting" /\ turn'.todo = turn.todo /\ turn'.results = turn.results
          /\ UNCHANGED messages /\ turn.pc = "tools"
        BY <1>6 DEF request_tool, Types, Turns
    <2> QED
        BY <2>1 DEF HistoryInv, Sound, Open, Answering
<1>7. CASE ToolAnswered \/ ToolTimesOut
    BY <1>7, ToldHistory DEF ToolAnswered, ToolTimesOut, Waiting
<1>8. CASE EndRound
    <2> DEFINE r == turn.results
               s == Append(messages, Results(r))
    <2>1. messages \in Seq(Message) /\ r \in Seq(Result) /\ Answer \in Message /\ turn.todo = <<>>
        BY <1>8, Elements DEF EndRound, Types, Turns
    <2>2. Sound(messages) /\ Open(messages)
        BY <1>8 DEF EndRound, HistoryInv, Answering
    <2>3. messages[Len(messages)].ids = [j \in DOMAIN r |-> r[j].id]
        <3> DEFINE ids == messages[Len(messages)].ids
        <3>1. Len(ids) = Len(r) /\ \A j \in 1..Len(r) : ids[j] = r[j].id
            <4>1. Len(ids) = Len(r) + Len(turn.todo) /\ Len(turn.todo) = 0 /\ Len(r) \in Nat
                BY <1>8, <2>1 DEF EndRound, HistoryInv, Answering
            <4>2. \A j \in 1..Len(r) : ids[j] = r[j].id
                BY <1>8 DEF EndRound, HistoryInv, Answering
            <4> QED
                BY <4>1, <4>2
        <3>2. ids \in Seq(Call)
            <4>1. messages[Len(messages)] \in Message
                BY <2>1, <2>2 DEF Open
            <4>2. messages[Len(messages)].kind = "calls"
                BY <2>2 DEF Open
            <4>3. \A e \in Message : e.kind = "calls" => e.ids \in Seq(Call)
                BY DEF Message, Question, Answer
            <4> QED
                BY <4>1, <4>2, <4>3
        <3>3. DOMAIN r = 1..Len(r)
            BY <2>1
        <3> HIDE DEF ids, r
        <3>4. ids = [j \in 1..Len(r) |-> r[j].id]
            BY <3>1, <3>2
        <3> QED
            BY <3>3, <3>4 DEF ids
    <2>4. Results(r) \in Message
        BY <2>1, Elements
    <2> HIDE DEF r
    <2>5. Sound(s) /\ ~Open(s)
        BY <2>1, <2>2, <2>3, AppendResults
    <2>6. s \in Seq(Message) /\ s # <<>>
        BY <2>1, <2>4, AppendIs
    <2> HIDE DEF s
    <2>7. CASE turn.round + 1 < MaxIterations
        <3>1. messages' = s /\ turn'.pc = "model"
            BY <1>8, <2>7 DEF EndRound, s, r, Types, Turns
        <3>2. Sound(messages') /\ ~Open(messages') /\ messages' # <<>>
            BY <2>5, <2>6, <3>1
        <3> QED
            BY <3>1, <3>2 DEF HistoryInv, Sound, Open, Answering
    <2>8. CASE ~(turn.round + 1 < MaxIterations)
        <3>1. messages' = Append(s, Answer) /\ turn'.pc = "closing"
            BY <1>8, <2>8 DEF EndRound, s, r, NoTurn
        <3>2. Sound(Append(s, Answer))
            BY <2>1, <2>5, <2>6, AppendSound, Kinds
        <3>3. Append(s, Answer)[Len(Append(s, Answer))].kind # "calls"
            BY <2>1, <2>6, AppendIs, Kinds
        <3>4. Sound(messages') /\ ~Open(messages')
            BY <3>1, <3>2, <3>3 DEF Open
        <3> QED
            BY <3>1, <3>4 DEF HistoryInv, Sound, Open, Answering
    <2> QED
        BY <2>7, <2>8
<1> QED
    BY <1>1, <1>2, <1>3, <1>4, <1>5, <1>6, <1>7, <1>8 DEF Turn

LEMMA HistoryKept == ASSUME Types, Waiting, HistoryInv, [Next]_vars PROVE HistoryInv'
<1>1. CASE UNCHANGED vars
    BY <1>1 DEF vars, server, HistoryInv, Sound, Open, Answering
<1> QED
    BY <1>1, PanelHistory, LoopHistory, TurnHistory, LeaveHistory DEF Next

LEMMA HistoryShows == Types /\ HistoryInv => HistoryWellFormed
<1> SUFFICES ASSUME Types, HistoryInv PROVE HistoryWellFormed
    OBVIOUS
<1>1. DOMAIN messages = 1..Len(messages) /\ Len(messages) \in Nat
    BY DEF Types
<1>2. ASSUME NEW i \in 1..Len(messages), messages[i].kind = "calls"
      PROVE  \/ i < Len(messages) /\ messages[i + 1].kind = "results"
             \/ i = Len(messages) /\ turn.pc \in {"tools", "waiting"}
    <2>1. CASE i < Len(messages)
        BY <1>2, <2>1 DEF HistoryInv, Sound
    <2>2. CASE i = Len(messages)
        <3>1. messages # <<>>
            BY <1>1
        <3> QED
            BY <1>2, <2>2, <3>1 DEF HistoryInv, Open
    <2>3. i < Len(messages) \/ i = Len(messages)
        <3>1. \A n \in Nat : \A k \in 1..n : k < n \/ k = n
            OBVIOUS
        <3> QED
            BY <1>1, <3>1
    <2> QED
        BY <2>1, <2>2, <2>3
<1> QED
    BY <1>1, <1>2 DEF HistoryInv, Sound, HistoryWellFormed

\* What trim_history leaves and every turn adds is a conversation a provider accepts: a
\* question first, and the results of each answer's calls right behind it.
THEOREM HistoryStaysWellFormed == Spec => []HistoryWellFormed
<1>1. Init => HistoryInv
    BY DEF Init, HistoryInv, Sound, Open, Answering, NoTurn
<1>2. Types /\ Waiting /\ HistoryInv /\ [Next]_vars => HistoryInv'
    BY HistoryKept
<1>3. Types /\ HistoryInv => HistoryWellFormed
    BY HistoryShows
<1> QED
    BY <1>1, <1>2, <1>3, TypesAlways, PTL DEF Spec
----------------------------------------------------------------------------
(* What the model is told of the draft *)

CallEnvelope(c) == [type |-> "tool_call", call |-> c]

Carried  == Range(applied)
OnItsWay == {c \in Call : \E i \in 1..Len(toClient) : toClient[i] = CallEnvelope(c)}
Sent     == Carried \cup OnItsWay

HistoryResults(m) == UNION {Range(m[i].results) : i \in {j \in DOMAIN m : m[j].kind = "results"}}

\* A call is sent once; a result comes of a call carried out.
WireInv ==
    /\ IsInjective(applied)
    /\ \A c \in OnItsWay : c \notin Carried
    /\ \A i, j \in 1..Len(toClient) :
          \A c \in Call : toClient[i] = CallEnvelope(c) /\ toClient[j] = CallEnvelope(c) => i = j
    /\ \A i \in 1..Len(toServer) : toServer[i].type = "tool_result" => toServer[i].call \in Carried

\* The calls left have not been sent, but for the one waited for, nor told; no call has
\* a number yet to be given.
PlanInv ==
    /\ arrived => pending \in Carried
    /\ \A i, j \in 1..Len(turn.todo) : turn.todo[i] = turn.todo[j] => i = j
    /\ \A j \in 1..Len(turn.todo) : j > 1 \/ turn.pc # "waiting" => turn.todo[j] \notin Sent
    /\ \A j \in 1..Len(turn.todo) : turn.todo[j] <= calls
    /\ \A c \in Sent : c <= calls

ToldInv ==
    \A r \in ToldResults :
      /\ r.id <= calls
      /\ \A j \in 1..Len(turn.todo) : turn.todo[j] # r.id
      /\ r.told = "answer" => r.id \in Carried
      /\ r.told = "rejected" => r.id \notin Sent

TruthInv == WireInv /\ PlanInv /\ ToldInv

LEMMA RangeAppend ==
    ASSUME NEW S, NEW s \in Seq(S), NEW e \in S
    PROVE  Range(Append(s, e)) = Range(s) \cup {e}
<1>1. /\ DOMAIN Append(s, e) = 1..(Len(s) + 1) /\ DOMAIN s = 1..Len(s) /\ Len(s) \in Nat
      /\ Append(s, e)[Len(s) + 1] = e
      /\ \A i \in 1..Len(s) : Append(s, e)[i] = s[i]
    OBVIOUS
<1>2. 1..(Len(s) + 1) = 1..Len(s) \cup {Len(s) + 1}
    BY <1>1
<1> QED
    BY <1>1, <1>2 DEF Range

LEMMA InjectiveAppend ==
    ASSUME NEW S, NEW s \in Seq(S), NEW e \in S, IsInjective(s), e \notin Range(s)
    PROVE  IsInjective(Append(s, e))
<1>1. /\ DOMAIN Append(s, e) = 1..(Len(s) + 1) /\ DOMAIN s = 1..Len(s) /\ Len(s) \in Nat
      /\ Append(s, e)[Len(s) + 1] = e
      /\ \A i \in 1..Len(s) : Append(s, e)[i] = s[i]
    OBVIOUS
<1>2. 1..(Len(s) + 1) = 1..Len(s) \cup {Len(s) + 1}
    BY <1>1
<1> QED
    BY <1>1, <1>2 DEF Range, IsInjective

LEMMA ResultsOfAppend ==
    ASSUME NEW m \in Seq(Message), NEW e \in Message
    PROVE  /\ e.kind # "results" => HistoryResults(Append(m, e)) \subseteq HistoryResults(m)
           /\ HistoryResults(Append(m, e)) \subseteq HistoryResults(m) \cup Range(e.results)
<1> DEFINE n == Append(m, e)
<1>1. /\ DOMAIN n = 1..(Len(m) + 1) /\ DOMAIN m = 1..Len(m) /\ Len(m) \in Nat
      /\ n[Len(m) + 1] = e
      /\ \A i \in 1..Len(m) : n[i] = m[i]
    OBVIOUS
<1>2. 1..(Len(m) + 1) = 1..Len(m) \cup {Len(m) + 1}
    BY <1>1
<1> HIDE DEF n
<1>3. ASSUME NEW i \in DOMAIN n, n[i].kind = "results"
      PROVE  \/ i \in DOMAIN m /\ n[i] = m[i]
             \/ n[i] = e
    BY <1>1, <1>2
<1>4. ASSUME NEW r \in HistoryResults(n)
      PROVE  r \in HistoryResults(m) \/ (e.kind = "results" /\ r \in Range(e.results))
    <2>1. PICK i \in DOMAIN n : n[i].kind = "results" /\ r \in Range(n[i].results)
        BY <1>4 DEF HistoryResults
    <2>2. CASE i \in DOMAIN m /\ n[i] = m[i]
        BY <2>1, <2>2 DEF HistoryResults
    <2>3. CASE n[i] = e
        BY <2>1, <2>3
    <2> QED
        BY <1>3, <2>1, <2>2, <2>3
<1> QED
    BY <1>4 DEF n

LEMMA ResultsOfTrim ==
    ASSUME NEW s \in Seq(Message), s # <<>>, IsQuestion(s[Len(s)])
    PROVE  HistoryResults(trim_history(s)) \subseteq HistoryResults(s)
<1>1. PICK k \in 1..Len(s) : trim_history(s) = SubSeq(s, k, Len(s))
    BY TrimCuts
<1> DEFINE n == SubSeq(s, k, Len(s))
<1>2. /\ DOMAIN n = 1..Len(n) /\ DOMAIN s = 1..Len(s)
      /\ \A i \in 1..Len(n) : n[i] = s[k + i - 1] /\ k + i - 1 \in 1..Len(s)
    BY <1>1
<1> HIDE DEF n
<1>3. ASSUME NEW r \in HistoryResults(n) PROVE r \in HistoryResults(s)
    <2>1. PICK i \in DOMAIN n : n[i].kind = "results" /\ r \in Range(n[i].results)
        BY <1>3 DEF HistoryResults
    <2>2. PICK j \in DOMAIN s : n[i] = s[j]
        BY <1>2
    <2> QED
        BY <2>1, <2>2 DEF HistoryResults
<1> QED
    BY <1>1, <1>3 DEF n

LEMMA ToldIs == ToldResults = Range(turn.results) \cup HistoryResults(messages)
BY DEF ToldResults, HistoryResults

LEMMA ToldResultsTyped == ASSUME Types PROVE ToldResults \subseteq Result
<1>1. Range(turn.results) \subseteq Result
    BY DEF Types, Turns, Range
<1>2. \A m \in Message : m.kind = "results" => Range(m.results) \subseteq Result
    BY DEF Message, Question, Answer, Range
<1>3. \A i \in DOMAIN messages : messages[i] \in Message
    BY DEF Types
<1> QED
    BY <1>1, <1>2, <1>3 DEF ToldResults

LEMMA ResultsOfNone == HistoryResults(<<>>) = {} /\ Range(<<>>) = {}
BY DEF HistoryResults, Range
\* What leaves the page's mailbox, or is no call, sends no call anew.
LEMMA ClientQuiet ==
    ASSUME Types, WireInv,
           \/ toClient' = toClient
           \/ toClient' = <<>>
           \/ toClient # <<>> /\ toClient' = Tail(toClient)
           \/ \E e \in Envelope : e.type # "tool_call" /\ toClient' = Append(toClient, e)
    PROVE  /\ OnItsWay' \subseteq OnItsWay
           /\ \A i, j \in 1..Len(toClient') :
                 \A c \in Call : toClient'[i] = CallEnvelope(c) /\ toClient'[j] = CallEnvelope(c) => i = j
<1>1. toClient \in Seq(Envelope)
    BY DEF Types
<1>2. CASE toClient' = toClient
    BY <1>2 DEF OnItsWay, WireInv
<1>3. CASE toClient' = <<>>
    BY <1>3 DEF OnItsWay
<1>4. CASE toClient # <<>> /\ toClient' = Tail(toClient)
    <2>1. /\ Len(toClient) \in Nat /\ Len(toClient') = Len(toClient) - 1
          /\ \A i \in 1..Len(toClient') : toClient'[i] = toClient[i + 1] /\ i + 1 \in 1..Len(toClient)
        BY <1>1, <1>4
    <2>2. OnItsWay' \subseteq OnItsWay
        BY <2>1 DEF OnItsWay
    <2>3. ASSUME NEW i \in 1..Len(toClient'), NEW j \in 1..Len(toClient'), NEW c \in Call,
                 toClient'[i] = CallEnvelope(c), toClient'[j] = CallEnvelope(c)
          PROVE  i = j
        <3>1. /\ i + 1 \in 1..Len(toClient) /\ toClient[i + 1] = CallEnvelope(c)
              /\ j + 1 \in 1..Len(toClient) /\ toClient[j + 1] = CallEnvelope(c)
            BY <2>1, <2>3
        <3>2. i + 1 = j + 1
            BY <3>1 DEF WireInv
        <3> QED
            BY <2>1, <3>2
    <2> QED
        BY <2>2, <2>3
<1>5. ASSUME NEW e \in Envelope, e.type # "tool_call", toClient' = Append(toClient, e)
      PROVE  /\ OnItsWay' \subseteq OnItsWay
             /\ \A i, j \in 1..Len(toClient') :
                   \A c \in Call : toClient'[i] = CallEnvelope(c) /\ toClient'[j] = CallEnvelope(c) => i = j
    <2>1. /\ Len(toClient) \in Nat /\ Len(toClient') = Len(toClient) + 1
          /\ \A i \in 1..Len(toClient) : toClient'[i] = toClient[i]
          /\ toClient'[Len(toClient) + 1] = e
        BY <1>1, <1>5
    <2>2. \A c \in Call : CallEnvelope(c) # e
        BY <1>5 DEF CallEnvelope
    <2>3. \A i \in 1..Len(toClient') : \A c \in Call :
              toClient'[i] = CallEnvelope(c) => i \in 1..Len(toClient) /\ toClient[i] = CallEnvelope(c)
        <3>1. \A i \in 1..Len(toClient') : i \in 1..Len(toClient) \/ i = Len(toClient) + 1
            BY <2>1
        <3> QED
            BY <2>1, <2>2, <3>1
    <2> QED
        BY <2>3 DEF OnItsWay, WireInv
<1> QED
    BY <1>2, <1>3, <1>4, <1>5

\* Nor does a question, or what the server has read.
LEMMA ServerQuiet ==
    ASSUME Types, WireInv,
           \/ toServer' = toServer
           \/ toServer' = <<>>
           \/ toServer # <<>> /\ toServer' = Tail(toServer)
           \/ toServer' = Append(toServer, [type |-> "chat"])
    PROVE  \A i \in 1..Len(toServer') :
              toServer'[i].type = "tool_result" => toServer'[i].call \in Carried
<1>1. toServer \in Seq(Request) /\ [type |-> "chat"] \in Request
    BY Elements DEF Types
<1>2. CASE toServer' = toServer \/ toServer' = <<>>
    BY <1>2 DEF WireInv
<1>3. CASE toServer # <<>> /\ toServer' = Tail(toServer)
    <2>1. \A i \in 1..Len(toServer') : toServer'[i] = toServer[i + 1] /\ i + 1 \in 1..Len(toServer)
        BY <1>1, <1>3
    <2> QED
        BY <2>1 DEF WireInv
<1>4. CASE toServer' = Append(toServer, [type |-> "chat"])
    <2>1. /\ Len(toServer) \in Nat /\ Len(toServer') = Len(toServer) + 1
          /\ \A i \in 1..Len(toServer) : toServer'[i] = toServer[i]
          /\ toServer'[Len(toServer) + 1] = [type |-> "chat"]
        BY <1>1, <1>4
    <2>2. \A i \in 1..Len(toServer') : i \in 1..Len(toServer) \/ i = Len(toServer) + 1
        BY <2>1
    <2> QED
        BY <2>1, <2>2 DEF WireInv
<1> QED
    BY <1>2, <1>3, <1>4

LEMMA QuietWire ==
    ASSUME Types, WireInv, UNCHANGED applied,
           \/ toClient' = toClient
           \/ toClient' = <<>>
           \/ toClient # <<>> /\ toClient' = Tail(toClient)
           \/ \E e \in Envelope : e.type # "tool_call" /\ toClient' = Append(toClient, e),
           \/ toServer' = toServer
           \/ toServer' = <<>>
           \/ toServer # <<>> /\ toServer' = Tail(toServer)
           \/ toServer' = Append(toServer, [type |-> "chat"])
    PROVE  WireInv' /\ Carried' = Carried /\ Sent' \subseteq Sent
<1>1. Carried' = Carried
    BY DEF Carried
<1>2. OnItsWay' \subseteq OnItsWay
    BY ClientQuiet
<1>3. WireInv'
    <2>1. IsInjective(applied')
        BY DEF WireInv
    <2>2. \A c \in OnItsWay' : c \notin Carried'
        BY <1>1, <1>2 DEF WireInv
    <2>3. \A i, j \in 1..Len(toClient') :
             \A c \in Call : toClient'[i] = CallEnvelope(c) /\ toClient'[j] = CallEnvelope(c) => i = j
        BY ClientQuiet
    <2>4. \A i \in 1..Len(toServer') :
              toServer'[i].type = "tool_result" => toServer'[i].call \in Carried'
        BY <1>1, ServerQuiet
    <2> QED
        BY <2>1, <2>2, <2>3, <2>4 DEF WireInv
<1> QED
    BY <1>1, <1>2, <1>3 DEF Sent

\* The page carries out a call that was on its way, once.
LEMMA PageCarries ==
    ASSUME Types, WireInv, onmessage, Head(toClient).type = "tool_call"
    PROVE  WireInv' /\ Carried \subseteq Carried' /\ Sent' \subseteq Sent
<1> DEFINE c == Head(toClient).call
<1>1. /\ toClient \in Seq(Envelope) /\ toClient # <<>> /\ toClient' = Tail(toClient)
      /\ applied \in Seq(Call) /\ applied' = Append(applied, c)
      /\ toServer \in Seq(Request) /\ toServer' = Append(toServer, [type |-> "tool_result", call |-> c])
    BY DEF onmessage, Types
<1>2. c \in Call /\ Head(toClient) = CallEnvelope(c)
    <2>1. Head(toClient) \in Envelope
        BY <1>1
    <2> QED
        BY <2>1 DEF Envelope, CallEnvelope
<1> HIDE DEF c
<1>3. toClient[1] = CallEnvelope(c) /\ 1 \in 1..Len(toClient)
    BY <1>1, <1>2
<1>4. c \in OnItsWay /\ c \notin Carried
    BY <1>2, <1>3 DEF OnItsWay, WireInv
<1>5. OnItsWay' \subseteq OnItsWay
    BY <1>1, ClientQuiet
<1>6. c \notin OnItsWay'
    <2>1. SUFFICES ASSUME NEW i \in 1..Len(toClient'), toClient'[i] = CallEnvelope(c) PROVE FALSE
        BY DEF OnItsWay
    <2>2. toClient'[i] = toClient[i + 1] /\ i + 1 \in 1..Len(toClient) /\ i \in Nat /\ i >= 1
        BY <1>1
    <2>3. i + 1 = 1
        BY <1>2, <1>3, <2>1, <2>2 DEF WireInv
    <2> QED
        BY <2>2, <2>3
<1>7. Carried' = Carried \cup {c}
    BY <1>1, <1>2, RangeAppend DEF Carried
<1>8. WireInv'
    <2>1. IsInjective(applied')
        BY <1>1, <1>2, <1>4, InjectiveAppend DEF WireInv, Carried
    <2>2. \A d \in OnItsWay' : d \notin Carried'
        BY <1>5, <1>6, <1>7 DEF WireInv
    <2>3. \A i, j \in 1..Len(toClient') :
             \A d \in Call : toClient'[i] = CallEnvelope(d) /\ toClient'[j] = CallEnvelope(d) => i = j
        BY <1>1, ClientQuiet
    <2>4. \A i \in 1..Len(toServer') :
              toServer'[i].type = "tool_result" => toServer'[i].call \in Carried'
        <3> DEFINE e == [type |-> "tool_result", call |-> c]
        <3>1. e \in Request /\ e.call = c
            BY <1>2, Elements
        <3> HIDE DEF e
        <3>2. /\ Len(toServer) \in Nat /\ Len(toServer') = Len(toServer) + 1
              /\ \A i \in 1..Len(toServer) : toServer'[i] = toServer[i]
              /\ toServer'[Len(toServer) + 1] = e
            BY <1>1, <3>1 DEF e
        <3>3. \A i \in 1..Len(toServer') : i \in 1..Len(toServer) \/ i = Len(toServer) + 1
            BY <3>2
        <3> QED
            BY <1>7, <3>1, <3>2, <3>3 DEF WireInv
    <2> QED
        BY <2>1, <2>2, <2>3, <2>4 DEF WireInv
<1> QED
    BY <1>4, <1>5, <1>7, <1>8 DEF Sent

\* The server sends a call that was not sent before.
LEMMA ServerSends ==
    ASSUME Types, TruthInv, request_tool
    PROVE  WireInv' /\ Carried' = Carried /\ Sent' \subseteq Sent \cup {Head(turn.todo)}
<1> DEFINE c == Head(turn.todo)
           e == CallEnvelope(c)
<1>1. turn.todo \in Seq(Call) /\ turn.todo # <<>> /\ turn.pc = "tools"
    BY DEF request_tool, Types, Turns
<1>2. c \in Call /\ c = turn.todo[1] /\ 1 \in 1..Len(turn.todo)
    BY <1>1
<1>3. c \notin Carried /\ c \notin OnItsWay
    BY <1>1, <1>2 DEF TruthInv, PlanInv, Sent
<1>4. e \in Envelope
    BY <1>2, Elements DEF CallEnvelope
<1>5. toClient' = Append(toClient, e) /\ applied' = applied /\ toServer' = toServer
      /\ toClient \in Seq(Envelope)
    BY DEF request_tool, page, CallEnvelope, Types
<1>6. \A d \in Call : CallEnvelope(d) = e => d = c
    <2>1. \A d \in Call : CallEnvelope(d).call = d
        BY DEF CallEnvelope
    <2> QED
        BY <1>2, <2>1
<1> HIDE DEF e, c
<1>7. /\ Len(toClient) \in Nat /\ Len(toClient') = Len(toClient) + 1
      /\ \A i \in 1..Len(toClient) : toClient'[i] = toClient[i]
      /\ toClient'[Len(toClient) + 1] = e
    BY <1>4, <1>5
<1>8. \A i \in 1..Len(toClient') : i \in 1..Len(toClient) \/ i = Len(toClient) + 1
    BY <1>7
<1>9. OnItsWay' \subseteq OnItsWay \cup {c}
    BY <1>6, <1>7, <1>8 DEF OnItsWay
<1>10. Carried' = Carried
    BY <1>5 DEF Carried
<1>11. WireInv'
    <2>1. IsInjective(applied')
        BY <1>5 DEF TruthInv, WireInv
    <2>2. \A d \in OnItsWay' : d \notin Carried'
        BY <1>3, <1>9, <1>10 DEF TruthInv, WireInv
    <2>3. ASSUME NEW i \in 1..Len(toClient'), NEW j \in 1..Len(toClient'), NEW d \in Call,
                 toClient'[i] = CallEnvelope(d), toClient'[j] = CallEnvelope(d)
          PROVE  i = j
        <3>1. CASE i \in 1..Len(toClient) /\ j \in 1..Len(toClient)
            BY <1>7, <2>3, <3>1 DEF TruthInv, WireInv
        <3>2. CASE i \in 1..Len(toClient) /\ j = Len(toClient) + 1
            <4>1. d = c /\ toClient[i] = CallEnvelope(d)
                BY <1>6, <1>7, <2>3, <3>2
            <4> QED
                BY <1>3, <3>2, <4>1 DEF OnItsWay
        <3>3. CASE j \in 1..Len(toClient) /\ i = Len(toClient) + 1
            <4>1. d = c /\ toClient[j] = CallEnvelope(d)
                BY <1>6, <1>7, <2>3, <3>3
            <4> QED
                BY <1>3, <3>3, <4>1 DEF OnItsWay
        <3> QED
            BY <1>8, <3>1, <3>2, <3>3
    <2>4. \A i \in 1..Len(toServer') :
              toServer'[i].type = "tool_result" => toServer'[i].call \in Carried'
        BY <1>5, <1>10 DEF TruthInv, WireInv
    <2> QED
        BY <2>1, <2>2, <2>3, <2>4 DEF WireInv
<1> QED
    BY <1>9, <1>10, <1>11 DEF Sent, c
\* A step that sends nothing and tells nothing new.
LEMMA Steady ==
    ASSUME Types, PlanInv, ToldInv,
           Carried \subseteq Carried', Sent' \subseteq Sent, calls' = calls,
           arrived' => pending' \in Carried',
           \/ turn'.todo = turn.todo /\ (turn'.pc = "waiting" <=> turn.pc = "waiting")
           \/ turn'.todo = <<>>,
           ToldResults' \subseteq ToldResults
    PROVE  PlanInv' /\ ToldInv'
<1>1. PlanInv'
    BY DEF PlanInv
<1>2. ASSUME NEW r \in ToldResults'
      PROVE  /\ r.id <= calls'
             /\ \A j \in 1..Len(turn'.todo) : turn'.todo[j] # r.id
             /\ r.told = "answer" => r.id \in Carried'
             /\ r.told = "rejected" => r.id \notin Sent'
    BY <1>2 DEF ToldInv
<1> QED
    BY <1>1, <1>2 DEF ToldInv

LEMMA TellTruth ==
    ASSUME Types, TruthInv, turn.todo # <<>>,
           NEW how \in {"answer", "rejected", "failed"}, Told(how),
           UNCHANGED <<messages, applied, toClient, toServer, calls>>,
           arrived' => pending' \in Carried,
           how = "answer" => turn.todo[1] \in Carried,
           how = "rejected" => turn.todo[1] \notin Sent
    PROVE  TruthInv'
<1> DEFINE td  == turn.todo
           rs  == turn.results
           new == [id |-> Head(td), told |-> how]
<1>1. td \in Seq(Call) /\ td # <<>> /\ rs \in Seq(Result) /\ new \in Result
    BY DEF Types, Turns, Result
<1>2. turn'.pc = "tools" /\ turn'.todo = Tail(td) /\ turn'.results = Append(rs, new)
    BY DEF Told, Types, Turns
<1>3. WireInv' /\ Carried' = Carried /\ Sent' = Sent
    BY DEF TruthInv, WireInv, Carried, Sent, OnItsWay
<1>4. /\ \A j \in 1..Len(Tail(td)) : Tail(td)[j] = td[j + 1] /\ j + 1 \in 1..Len(td) /\ j + 1 > 1
      /\ 1 \in 1..Len(td)
    BY <1>1
<1>5. new.id = td[1] /\ new.told = how
    BY <1>1
<1>6. ToldResults' \subseteq ToldResults \cup {new}
    BY <1>1, <1>2, RangeAppend, ToldIs DEF ToldResults, HistoryResults
<1>7. PlanInv'
    <2>1. \A i, j \in 1..Len(Tail(td)) : Tail(td)[i] = Tail(td)[j] => i = j
        <3>1. \A i, j \in 1..Len(Tail(td)) : td[i + 1] = td[j + 1] => i + 1 = j + 1
            BY <1>4 DEF TruthInv, PlanInv
        <3> QED
            BY <1>4, <3>1
    <2>2. \A j \in 1..Len(Tail(td)) : Tail(td)[j] \notin Sent /\ Tail(td)[j] <= calls
        BY <1>4 DEF TruthInv, PlanInv
    <2>3. \A c \in Sent : c <= calls
        BY DEF TruthInv, PlanInv
    <2> QED
        BY <1>2, <1>3, <2>1, <2>2, <2>3 DEF PlanInv
<1>8. ASSUME NEW r \in ToldResults'
      PROVE  /\ r.id <= calls
             /\ \A j \in 1..Len(Tail(td)) : Tail(td)[j] # r.id
             /\ r.told = "answer" => r.id \in Carried
             /\ r.told = "rejected" => r.id \notin Sent
    <2>1. CASE r \in ToldResults
        BY <1>4, <2>1 DEF TruthInv, ToldInv
    <2>2. CASE r = new
        <3>1. \A j \in 1..Len(Tail(td)) : Tail(td)[j] # td[1]
            <4>1. \A j \in 1..Len(Tail(td)) : td[j + 1] = td[1] => j + 1 = 1
                BY <1>4 DEF TruthInv, PlanInv
            <4> QED
                BY <1>4, <4>1
        <3>2. td[1] <= calls
            BY <1>4 DEF TruthInv, PlanInv
        <3> QED
            BY <1>5, <2>2, <3>1, <3>2
    <2> QED
        BY <1>6, <1>8, <2>1, <2>2
<1> QED
    BY <1>2, <1>3, <1>7, <1>8 DEF TruthInv, ToldInv

LEMMA PanelTruth == ASSUME Types, TruthInv, Panel PROVE TruthInv'
<1>1. CASE connect \/ send
    <2>1. WireInv' /\ Carried' = Carried /\ Sent' \subseteq Sent
        BY <1>1, QuietWire DEF connect, send, wire, TruthInv
    <2>2. calls' = calls /\ turn' = turn /\ messages' = messages /\ pending' = pending /\ arrived' = arrived
        BY <1>1 DEF connect, send, server, count
    <2>3. ToldResults' = ToldResults
        BY <2>2 DEF ToldResults
    <2> QED
        BY <2>1, <2>2, <2>3, Steady DEF TruthInv, PlanInv
<1>2. CASE onopen
    <2>1. WireInv' /\ Carried' = Carried /\ Sent' \subseteq Sent
        BY <1>2, QuietWire DEF onopen, wire, TruthInv
    <2>2. calls' = calls /\ turn' = NoTurn /\ messages' = <<>> /\ arrived' = FALSE
        BY <1>2 DEF onopen, count
    <2>3. ToldResults' = {}
        BY <2>2, ToldIs, ResultsOfNone DEF ToldResults, HistoryResults, NoTurn
    <2> QED
        BY <2>1, <2>2, <2>3, Steady DEF TruthInv, NoTurn
<1>3. CASE onmessage
    <2>1. WireInv' /\ Carried \subseteq Carried' /\ Sent' \subseteq Sent
        <3>1. CASE Head(toClient).type = "tool_call"
            BY <1>3, <3>1, PageCarries DEF TruthInv
        <3>2. CASE Head(toClient).type # "tool_call"
            BY <1>3, <3>2, QuietWire DEF onmessage, TruthInv
        <3> QED
            BY <3>1, <3>2
    <2>2. calls' = calls /\ turn' = turn /\ messages' = messages /\ pending' = pending /\ arrived' = arrived
        BY <1>3 DEF onmessage, server, count
    <2>3. ToldResults' = ToldResults
        BY <2>2 DEF ToldResults
    <2> QED
        BY <2>1, <2>2, <2>3, Steady DEF TruthInv, PlanInv
<1> QED
    BY <1>1, <1>2, <1>3 DEF Panel

LEMMA LeaveTruth == ASSUME Types, TruthInv, onclose \/ Unmount PROVE TruthInv'
<1>1. /\ calls' = calls /\ turn' = NoTurn /\ messages' = <<>> /\ arrived' = FALSE
      /\ applied' = applied /\ toServer' = <<>> /\ toClient' = <<>>
    BY DEF onclose, Unmount, Disconnect, count
<1>2. WireInv' /\ Carried' = Carried /\ Sent' \subseteq Sent
    BY <1>1, QuietWire DEF TruthInv
<1>3. ToldResults' = {}
    BY <1>1, ResultsOfNone DEF ToldResults, HistoryResults, NoTurn
<1> QED
    BY <1>1, <1>2, <1>3, Steady DEF TruthInv, NoTurn

LEMMA LoopTruth == ASSUME Types, TruthInv, Loop PROVE TruthInv'
<1>1. CASE ReceiveChat
    <2>1. WireInv' /\ Carried' = Carried /\ Sent' \subseteq Sent
        <3>1. [type |-> "error"] \in Envelope /\ [type |-> "error"].type # "tool_call"
            BY Elements
        <3>2. /\ applied' = applied /\ toServer # <<>> /\ toServer' = Tail(toServer)
              /\ toClient' = toClient \/ toClient' = Append(toClient, [type |-> "error"])
            BY <1>1 DEF ReceiveChat, page
        <3> QED
            BY <3>1, <3>2, QuietWire DEF TruthInv
    <2>2. calls' = calls /\ messages' = messages /\ pending' = pending /\ arrived' = arrived
        BY <1>1 DEF ReceiveChat, count
    <2>3. \/ turn' = turn
          \/ turn'.todo = <<>> /\ turn'.results = <<>>
        BY <1>1 DEF ReceiveChat, NoTurn
    <2>4. ToldResults' \subseteq ToldResults
        BY <2>2, <2>3, ResultsOfNone DEF ToldResults
    <2> QED
        BY <2>1, <2>2, <2>3, <2>4, Steady DEF TruthInv, PlanInv
<1>2. CASE ReceiveResult
    <2>1. WireInv' /\ Carried' = Carried /\ Sent' \subseteq Sent
        BY <1>2, QuietWire DEF ReceiveResult, page, TruthInv
    <2>2. calls' = calls /\ messages' = messages /\ pending' = pending /\ turn' = turn
        BY <1>2 DEF ReceiveResult, count
    <2>3. arrived' => pending' \in Carried'
        <3>1. Head(toServer) = toServer[1] /\ 1 \in 1..Len(toServer)
            BY <1>2 DEF ReceiveResult, Types
        <3>2. Head(toServer).call \in Carried
            BY <1>2, <3>1 DEF ReceiveResult, TruthInv, WireInv
        <3> QED
            BY <1>2, <2>1, <2>2, <3>2 DEF ReceiveResult, Awaited, TruthInv, PlanInv
    <2>4. ToldResults' = ToldResults
        BY <2>2 DEF ToldResults
    <2> QED
        BY <2>1, <2>2, <2>3, <2>4, Steady DEF TruthInv
<1> QED
    BY <1>1, <1>2 DEF Loop
LEMMA TurnTruth == ASSUME Types, Waiting, TruthInv, Turn PROVE TruthInv'
<1>1. ASSUME \/ NoProvider \/ run_chat \/ TurnFails \/ ModelAnswers
             \/ EndRound \/ SendTurnEnd \/ TaskDone
      PROVE  TruthInv'
    <2>1. WireInv' /\ Carried' = Carried /\ Sent' \subseteq Sent
        <3>1. /\ [type |-> "error"] \in Envelope /\ [type |-> "error"].type # "tool_call"
              /\ [type |-> "turn_end"] \in Envelope /\ [type |-> "turn_end"].type # "tool_call"
            BY Elements
        <3>2. /\ applied' = applied /\ toServer' = toServer
              /\ \/ toClient' = toClient
                 \/ toClient' = Append(toClient, [type |-> "error"])
                 \/ toClient' = Append(toClient, [type |-> "turn_end"])
            BY <1>1 DEF NoProvider, run_chat, TurnFails, ModelAnswers, EndRound, SendTurnEnd, TaskDone,
                        page, wire
        <3> QED
            BY <3>1, <3>2, QuietWire DEF TruthInv
    <2>2. calls' = calls /\ pending' = pending /\ arrived' = arrived
        BY <1>1 DEF NoProvider, run_chat, TurnFails, ModelAnswers, EndRound, SendTurnEnd, TaskDone, count
    <2>3. \/ turn'.todo = turn.todo /\ (turn'.pc = "waiting" <=> turn.pc = "waiting")
          \/ turn'.todo = <<>>
        <3>1. CASE EndRound
            BY <3>1 DEF EndRound, Types, Turns, NoTurn
        <3>2. CASE TaskDone
            BY <3>2 DEF TaskDone, NoTurn
        <3>3. CASE NoProvider \/ run_chat \/ TurnFails \/ ModelAnswers \/ SendTurnEnd
            BY <3>3 DEF NoProvider, run_chat, TurnFails, AfterFailure, ModelAnswers, SendTurnEnd, Types, Turns
        <3> QED
            BY <1>1, <3>1, <3>2, <3>3
    <2>4. ToldResults' \subseteq ToldResults
        <3> DEFINE hr == HistoryResults(messages)
        <3>0. ToldResults' = Range(turn'.results) \cup HistoryResults(messages')
            BY DEF ToldResults, HistoryResults
        <3>1. CASE NoProvider \/ TurnFails \/ SendTurnEnd
            <4>1. turn'.results = turn.results /\ messages' = messages
                BY <3>1 DEF NoProvider, TurnFails, SendTurnEnd, AfterFailure, Types, Turns
            <4> QED
                BY <4>1 DEF ToldResults
        <3>2. CASE TaskDone
            <4>1. turn'.results = <<>> /\ messages' = messages
                BY <3>2 DEF TaskDone, NoTurn
            <4> QED
                BY <3>0, <4>1, ToldIs, ResultsOfNone
        <3>3. CASE ModelAnswers
            <4>1. turn'.results = turn.results /\ messages' = Append(messages, Answer)
                BY <3>3 DEF ModelAnswers, Types, Turns
            <4>2. HistoryResults(messages') \subseteq hr
                BY <4>1, ResultsOfAppend, Elements, Kinds DEF Types
            <4> QED
                BY <3>0, <4>1, <4>2, ToldIs
        <3>4. CASE run_chat
            <4> DEFINE s == Append(messages, Question)
            <4>1. turn'.results = turn.results /\ messages' = trim_history(s)
                BY <3>4 DEF run_chat, Types, Turns
            <4>2. messages \in Seq(Message) /\ Question \in Message
                BY Elements DEF Types
            <4>3. s \in Seq(Message) /\ s # <<>> /\ IsQuestion(s[Len(s)])
                BY <4>2, AppendIs, Kinds
            <4>4. HistoryResults(s) \subseteq hr
                BY <4>2, ResultsOfAppend, Kinds
            <4> HIDE DEF s
            <4>5. HistoryResults(messages') \subseteq hr
                BY <4>1, <4>3, <4>4, ResultsOfTrim
            <4> QED
                BY <3>0, <4>1, <4>5, ToldIs
        <3>5. CASE EndRound
            <4> DEFINE r == turn.results
                       s == Append(messages, Results(r))
            <4>1. messages \in Seq(Message) /\ r \in Seq(Result) /\ Answer \in Message
                BY Elements DEF Types, Turns
            <4>2. Results(r) \in Message /\ Results(r).results = r
                BY <4>1, Elements, Kinds
            <4>3. HistoryResults(s) \subseteq hr \cup Range(r)
                BY <4>1, <4>2, ResultsOfAppend
            <4>4. s \in Seq(Message)
                BY <4>1, <4>2
            <4> HIDE DEF s
            <4>5. HistoryResults(Append(s, Answer)) \subseteq HistoryResults(s)
                BY <4>1, <4>4, ResultsOfAppend, Kinds
            <4>6. turn'.results = <<>> /\ (messages' = s \/ messages' = Append(s, Answer))
                BY <3>5 DEF EndRound, s, r, NoTurn, Types, Turns
            <4>7. HistoryResults(messages') \subseteq hr \cup Range(r)
                BY <4>3, <4>5, <4>6
            <4> QED
                BY <3>0, <4>6, <4>7, ToldIs, ResultsOfNone DEF r
        <3> QED
            BY <1>1, <3>1, <3>2, <3>3, <3>4, <3>5
    <2> QED
        BY <2>1, <2>2, <2>3, <2>4, Steady DEF TruthInv, PlanInv
<1>2. ASSUME NEW n \in 1..MaxBatch, ModelCalls(n) PROVE TruthInv'
    <2> DEFINE ids == [i \in 1..n |-> calls + i]
    <2>1. /\ calls \in Nat /\ n \in Nat /\ calls' = calls + n
          /\ messages' = Append(messages, Calls(ids))
          /\ turn'.pc = "tools" /\ turn'.todo = ids /\ turn'.results = <<>>
          /\ pending' = pending /\ arrived' = arrived
        BY <1>2, Limits DEF ModelCalls, Types, Turns
    <2>2. ids \in Seq(Call)
        <3>1. \A i \in 1..n : calls + i \in Call
            BY <1>2, <2>1, Limits DEF ModelCalls, Call
        <3> QED
            BY <2>1, <3>1
    <2>3. Len(ids) = n /\ \A j \in 1..n : ids[j] = calls + j /\ ids[j] > calls /\ ids[j] <= calls + n
        BY <2>1
    <2>4. WireInv' /\ Carried' = Carried /\ Sent' = Sent
        BY <1>2 DEF ModelCalls, page, wire, TruthInv, WireInv, Carried, Sent, OnItsWay
    <2>5. Calls(ids) \in Message /\ Calls(ids).kind # "results"
        BY <2>2, Elements, Kinds
    <2> HIDE DEF ids
    <2>6. ToldResults' \subseteq ToldResults
        <3>1. HistoryResults(messages') \subseteq HistoryResults(messages)
            BY <2>1, <2>5, ResultsOfAppend DEF Types
        <3>2. ToldResults' = Range(turn'.results) \cup HistoryResults(messages')
            BY DEF ToldResults, HistoryResults
        <3> QED
            BY <2>1, <3>1, <3>2, ToldIs, ResultsOfNone
    <2>7. \A c \in Sent : c \in Call /\ c <= calls
        <3>1. \A c \in Sent : c \in Call
            BY DEF Sent, Carried, OnItsWay, Types, Range
        <3> QED
            BY <3>1 DEF TruthInv, PlanInv
    <2>8. PlanInv'
        <3>1. \A i, j \in 1..n : ids[i] = ids[j] => i = j
            BY <2>1, <2>3
        <3>2. \A j \in 1..n : ids[j] \notin Sent
            <4>1. \A c \in Call : c \in Nat
                BY Limits DEF Call
            <4>2. \A j \in 1..n, c \in Sent : ids[j] # c
                BY <2>1, <2>3, <2>7, <4>1
            <4> QED
                BY <4>2
        <3>3. \A c \in Sent : c <= calls + n
            <4>1. \A c \in Call : c \in Nat
                BY Limits DEF Call
            <4> QED
                BY <2>1, <2>7, <4>1
        <3>4. arrived' => pending' \in Carried'
            BY <2>1, <2>4 DEF TruthInv, PlanInv
        <3> QED
            BY <2>1, <2>3, <2>4, <3>1, <3>2, <3>3, <3>4 DEF PlanInv
    <2>9. ToldInv'
        <3>1. ASSUME NEW r \in ToldResults
              PROVE  /\ r.id <= calls + n
                     /\ \A j \in 1..n : ids[j] # r.id
                     /\ r.told = "answer" => r.id \in Carried
                     /\ r.told = "rejected" => r.id \notin Sent
            <4>1. r.id \in Nat
                BY <3>1, ToldResultsTyped, Limits DEF Result, Call
            <4>2. r.id <= calls
                BY <3>1 DEF TruthInv, ToldInv
            <4>3. r.id <= calls + n /\ \A j \in 1..n : ids[j] # r.id
                BY <2>1, <2>3, <4>1, <4>2
            <4> QED
                BY <3>1, <4>3 DEF TruthInv, ToldInv
        <3> QED
            BY <2>1, <2>3, <2>4, <2>6, <3>1 DEF ToldInv
    <2> QED
        BY <2>4, <2>8, <2>9 DEF TruthInv
<1>3. CASE RejectCall
    <2>1. turn.todo[1] \notin Sent
        <3>1. 1 \in 1..Len(turn.todo)
            BY <1>3 DEF RejectCall, Types, Turns
        <3> QED
            BY <1>3, <3>1 DEF RejectCall, TruthInv, PlanInv
    <2> QED
        BY <1>3, <2>1, TellTruth DEF RejectCall, page, wire, count, TruthInv, PlanInv
<1>4. CASE ToolAnswered
    <2>1. turn.todo # <<>> /\ turn.todo[1] \in Carried
        BY <1>4 DEF ToolAnswered, Waiting, TruthInv, PlanInv
    <2> QED
        BY <1>4, <2>1, TellTruth DEF ToolAnswered, page, wire, count
<1>5. CASE ToolTimesOut
    <2>1. turn.todo # <<>>
        BY <1>5 DEF ToolTimesOut, Waiting
    <2> QED
        BY <1>5, <2>1, TellTruth DEF ToolTimesOut, page, wire
<1>6. CASE request_tool
    <2> DEFINE td == turn.todo
    <2>1. WireInv' /\ Carried' = Carried /\ Sent' \subseteq Sent \cup {td[1]}
        <3>1. Head(td) = td[1]
            BY <1>6 DEF request_tool, Types, Turns
        <3> QED
            BY <1>6, <3>1, ServerSends
    <2>2. /\ turn'.pc = "waiting" /\ turn'.todo = td /\ turn'.results = turn.results
          /\ arrived' = FALSE /\ messages' = messages /\ calls' = calls
        BY <1>6 DEF request_tool, count, Types, Turns
    <2>3. 1 \in 1..Len(td) /\ \A j \in 1..Len(td) : j > 1 => td[j] # td[1]
        <3>1. 1 \in 1..Len(td)
            BY <1>6 DEF request_tool, Types, Turns
        <3>2. \A j \in 1..Len(td) : td[j] = td[1] => j = 1
            BY <3>1 DEF TruthInv, PlanInv
        <3> QED
            BY <3>1, <3>2
    <2>4. PlanInv'
        <3>1. \A j \in 1..Len(td) : j > 1 => td[j] \notin Sent'
            BY <2>1, <2>3 DEF TruthInv, PlanInv
        <3>2. \A c \in Sent' : c <= calls
            BY <2>1, <2>3 DEF TruthInv, PlanInv
        <3> QED
            BY <2>2, <3>1, <3>2 DEF TruthInv, PlanInv
    <2>5. ToldInv'
        <3>1. ToldResults' = ToldResults
            BY <2>2 DEF ToldResults
        <3> QED
            BY <2>1, <2>2, <2>3, <3>1 DEF TruthInv, ToldInv
    <2> QED
        BY <2>1, <2>4, <2>5 DEF TruthInv
<1> QED
    BY <1>1, <1>2, <1>3, <1>4, <1>5, <1>6 DEF Turn

LEMMA TruthKept == ASSUME Types, Waiting, TruthInv, [Next]_vars PROVE TruthInv'
<1>1. CASE UNCHANGED vars
    BY <1>1 DEF vars, page, wire, server, count, TruthInv, WireInv, PlanInv, ToldInv, ToldResults,
                Sent, Carried, OnItsWay
<1> QED
    BY <1>1, PanelTruth, LoopTruth, TurnTruth, LeaveTruth DEF Next

LEMMA InitTruth == Init => TruthInv
<1> SUFFICES ASSUME Init PROVE TruthInv
    OBVIOUS
<1>1. Carried = {} /\ OnItsWay = {} /\ Sent = {}
    BY ResultsOfNone DEF Init, Carried, OnItsWay, Sent
<1>2. ToldResults = {}
    BY ResultsOfNone, ToldIs DEF Init, NoTurn
<1>3. IsInjective(applied)
    BY DEF Init, IsInjective
<1> QED
    BY <1>1, <1>2, <1>3 DEF Init, TruthInv, WireInv, PlanInv, ToldInv, NoTurn

LEMMA TruthShows == Types /\ TruthInv => ToolsToldTruly
<1> SUFFICES ASSUME Types, TruthInv PROVE ToolsToldTruly
    OBVIOUS
<1>1. \A c : Contains(applied, c) <=> c \in Carried
    BY DEF Contains, Carried, Range, Types
<1>2. \A r \in ToldResults : /\ r.told = "answer" => r.id \in Carried
                             /\ r.told = "rejected" => r.id \notin Carried
    BY DEF TruthInv, ToldInv, Sent
<1> QED
    BY <1>1, <1>2 DEF TruthInv, WireInv, ToolsToldTruly

\* Whatever is late, lost or refused, the model is told of no edit that was not made, and
\* no edit it was told is refused is ever made: a call is sent once and before its result.
THEOREM ModelToldTruly == Spec => []ToolsToldTruly
<1>1. Init => TruthInv
    BY InitTruth
<1>2. Types /\ Waiting /\ TruthInv /\ [Next]_vars => TruthInv'
    BY TruthKept
<1>3. Types /\ TruthInv => ToolsToldTruly
    BY TruthShows
<1> QED
    BY <1>1, <1>2, <1>3, TypesAlways, PTL DEF Spec
=============================================================================
