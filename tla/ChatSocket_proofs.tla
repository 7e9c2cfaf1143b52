-------------------------- MODULE ChatSocket_proofs --------------------------
(***************************************************************************)
(* Two results about the panel of ChatSocket.                               *)
(*                                                                         *)
(* It stays locked for good only in the ways LockExplained names: while it  *)
(* is locked, something that unlocks it is on its way, at the panel, on the *)
(* socket, in the queue the handler pumps, or in what the handler still has *)
(* to do (PanelInv), because whatever locks it is followed by what unlocks  *)
(* it (FollowedInv).  One lemma for the types, then one lemma per action,   *)
(* or group of actions that do the same to the lock.                        *)
(*                                                                         *)
(* Its texts stay in order: message by message on the socket, what it may   *)
(* have of a turn goes on with what the queue holds next (HeardInv); what   *)
(* it has of a response goes on with the rest of the response (SseInv); so  *)
(* all it puts on its lists is in order (ListsInv).                         *)
(***************************************************************************)
EXTENDS ChatSocket, SequenceTheorems, FiniteSetTheorems, WellFoundedInduction, TLAPS

USE DEF server, connection, wires, fallback, stream, panel

----------------------------------------------------------------------------
(* Sequences *)

LEMMA Taken ==
    ASSUME NEW S, NEW q \in Seq(S), q # <<>>
    PROVE  /\ Head(q) \in S /\ Tail(q) \in Seq(S) /\ Head(q) = q[1] /\ 1 \in DOMAIN q
           /\ \A i \in DOMAIN Tail(q) : i \in Nat /\ i + 1 \in DOMAIN q /\ Tail(q)[i] = q[i + 1]
           /\ \A i \in DOMAIN q : i \in Nat /\ (i = 1 \/ (i - 1 \in DOMAIN Tail(q) /\ q[i] = Tail(q)[i - 1]))
<1>1. /\ Len(q) \in Nat \ {0} /\ DOMAIN q = 1..Len(q) /\ Head(q) = q[1] /\ q[1] \in S
      /\ Tail(q) \in Seq(S)
  OBVIOUS
<1>2. /\ Len(Tail(q)) = Len(q) - 1 /\ DOMAIN Tail(q) = 1..Len(Tail(q))
      /\ \A i \in 1..Len(Tail(q)) : Tail(q)[i] = q[i + 1]
  BY <1>1
<1>3. \A i \in DOMAIN Tail(q) : i \in Nat /\ i + 1 \in DOMAIN q /\ Tail(q)[i] = q[i + 1]
  BY <1>1, <1>2
<1>4. ASSUME NEW i \in DOMAIN q
      PROVE  i \in Nat /\ (i = 1 \/ (i - 1 \in DOMAIN Tail(q) /\ q[i] = Tail(q)[i - 1]))
  <2>1. CASE i = 1
    BY <2>1
  <2>2. CASE i # 1
    <3>1. i \in Nat /\ i - 1 \in DOMAIN Tail(q) /\ (i - 1) + 1 = i
      BY <1>1, <1>2, <2>2
    <3> QED
      BY <1>3, <3>1
  <2> QED
    BY <2>1, <2>2
<1> QED
  BY <1>1, <1>3, <1>4

LEMMA Put ==
    ASSUME NEW S, NEW q \in Seq(S), NEW e \in S
    PROVE  /\ Append(q, e) \in Seq(S)
           /\ \A i \in DOMAIN q : i \in Nat /\ i \in DOMAIN Append(q, e) /\ Append(q, e)[i] = q[i]
           /\ Len(q) + 1 \in DOMAIN Append(q, e) /\ Append(q, e)[Len(q) + 1] = e
           /\ \A i \in DOMAIN Append(q, e) : i \in DOMAIN q \/ i = Len(q) + 1
           /\ \A i \in DOMAIN q : i < Len(q) + 1
<1>1. /\ Len(q) \in Nat /\ DOMAIN q = 1..Len(q) /\ Append(q, e) \in Seq(S)
      /\ Len(Append(q, e)) = Len(q) + 1
  OBVIOUS
<1>2. /\ DOMAIN Append(q, e) = 1..(Len(q) + 1) /\ Append(q, e)[Len(q) + 1] = e
      /\ \A i \in 1..Len(q) : Append(q, e)[i] = q[i]
  BY <1>1
<1> QED
  BY <1>1, <1>2

\* What a message on its way through a queue adds to it, and what is left of the rest.
LEMMA HasPut ==
    ASSUME NEW S, NEW q \in Seq(S), NEW e \in S, NEW types
    PROVE  Has(Append(q, e), types) <=> Has(q, types) \/ e.type \in types
BY Put DEF Has

LEMMA HasTaken ==
    ASSUME NEW S, NEW q \in Seq(S), q # <<>>, NEW types
    PROVE  Has(q, types) <=> Has(Tail(q), types) \/ Head(q).type \in types
<1>1. ASSUME NEW i \in DOMAIN Tail(q), Tail(q)[i].type \in types PROVE Has(q, types)
  BY <1>1, Taken DEF Has
<1>2. ASSUME Head(q).type \in types PROVE Has(q, types)
  <2>1. 1 \in DOMAIN q /\ q[1].type \in types
    BY <1>2, Taken
  <2> QED
    BY <2>1 DEF Has
<1>3. ASSUME NEW i \in DOMAIN q, q[i].type \in types PROVE Has(Tail(q), types) \/ Head(q).type \in types
  <2>1. CASE i = 1
    BY <1>3, <2>1, Taken
  <2>2. CASE i # 1
    <3>1. i - 1 \in DOMAIN Tail(q) /\ Tail(q)[i - 1].type \in types
      BY <1>3, <2>2, Taken
    <3> QED
      BY <3>1 DEF Has
  <2> QED
    BY <2>1, <2>2
<1> QED
  BY <1>1, <1>2, <1>3 DEF Has

\* The envelopes are those of their wires.
LEMMA Envelopes ==
    ASSUME NEW t \in Turns, NEW pieces \in Pieces
    PROVE  /\ Envelope("delta", t, pieces) \in Queued /\ Envelope("turn_end", t, pieces) \in Queued
           /\ Envelope("turn_start", t, pieces) \in Wired /\ Envelope("replay", t, pieces) \in Wired
           /\ Envelope("error", t, pieces) \in Wired /\ Envelope("chat", t, pieces) \in Asked
           /\ Queued \subseteq Wired
BY DEF Envelope, Queued, Wired, Asked, Opening

LEMMA TextIsPieces == ASSUME TypeOK, NEW t \in Turns PROVE Text(t) \in Pieces
<1> DEFINE n == length[t] + IF t \in noticed THEN 1 ELSE 0
<1>1. n \in Nat
  BY BoundsAssumption DEF TypeOK
<1>2. Text(t) = [k \in 1..n |-> Piece(t, k)]
  BY DEF Text
<1> HIDE DEF n
<1>3. \A k \in 1..n : Piece(t, k) \in Turns \X Nat
  BY <1>1 DEF Piece
<1> QED
  BY <1>1, <1>2, <1>3 DEF Pieces

\* What comes down from the handler tells the panel of a turn, if it is not "ready".
LEMMA Told ==
    ASSUME NEW e \in Wired
    PROVE  /\ e.type \in {"ready", "turn_start", "replay", "delta", "turn_end", "error"}
           /\ e.turn \in Turns \cup {None}
           /\ e.type # "ready" => e.turn \in Turns
BY DEF Wired, Queued, Opening

----------------------------------------------------------------------------
(* Types *)

LEMMA TypeInit == Init => TypeOK
<1> SUFFICES ASSUME Init PROVE TypeOK
  OBVIOUS
<1>1. /\ stage \in [Turns -> Stages] /\ problemOf \in [Turns -> Problems \cup {None}]
      /\ length \in [Turns -> 0..Chunks] /\ failures \in 0..MaxFailures /\ failures < MaxFailures
      /\ surprises \in 0..MaxSurprises
  BY BoundsAssumption DEF Init, Stages
<1> QED
  BY <1>1, NamesAssumption DEF Init, TypeOK

LEMMA SurpriseBounded == ASSUME TypeOK, NEW n \in Nat, Surprising(n) PROVE surprises' \in 0..MaxSurprises
BY BoundsAssumption DEF TypeOK, Surprising

LEMMA TurnTypes == ASSUME TypeOK, HandlerInv, NEW t \in Turns, Turn(t) PROVE TypeOK'
<1>0. handling = t => serving # "none"
  BY NamesAssumption DEF HandlerInv
<1>1. CASE Register(t)
  BY <1>0, <1>1 DEF Register, TypeOK, Stages
<1>2. CASE Refuse(t)
  <2>1. surprises' \in 0..MaxSurprises
    BY <1>2, SurpriseBounded DEF Refuse, Surprise
  <2> QED
    BY <1>0, <1>2, <2>1 DEF Refuse, TypeOK, Stages
<1>3. CASE Delta(t)
  <2>1. length' \in [Turns -> 0..Chunks]
    <3>1. length[t] + 1 \in 0..Chunks
      BY <1>3, BoundsAssumption DEF Delta, TypeOK
    <3> QED
      BY <1>3, <3>1 DEF Delta, TypeOK
  <2> QED
    BY <1>3, <2>1 DEF Delta, TypeOK
<1>4. CASE EndStream(t)
  <2>1. surprises' \in 0..MaxSurprises
    BY <1>4, SurpriseBounded DEF EndStream, Surprise, TypeOK
  <2> QED
    BY <1>4, <2>1 DEF EndStream, TypeOK, Stages, Slip, Slips
<1>5. CASE Save(t)
  BY <1>5 DEF Save, TypeOK, Slip, Slips
<1>6. CASE Settle(t)
  BY <1>6 DEF Settle, Over, TypeOK, Slip, Slips, Stages
<1>7. CASE SaveAgain(t)
  BY <1>7 DEF SaveAgain, TypeOK, Slips, Stages
<1> QED
  BY <1>1, <1>2, <1>3, <1>4, <1>5, <1>6, <1>7 DEF Turn

LEMMA HandlerTypes == ASSUME TypeOK, WiresInv, AskedInv, HandlerInv, Handler PROVE TypeOK'
<1>1. CASE Ready
  BY <1>1 DEF Ready, TypeOK
<1>2. CASE Replay
  BY <1>2 DEF Replay, TypeOK, Slip, Slips
<1>3. CASE ReplayText
  BY <1>3 DEF ReplayText, TypeOK, Slip, Slips
<1>4. CASE EndReplay
  BY <1>4 DEF EndReplay, Resume, TypeOK, Slip, Slips
<1>5. CASE Pump
  BY <1>5 DEF Pump, TypeOK
<1>6. CASE ReceiveChat
  <2>1. Head(up).turn \in Turns
    BY <1>6, Taken DEF ReceiveChat, Receive, WiresInv, Asked
  <2> QED
    BY <1>6, <2>1 DEF ReceiveChat, Receive, TypeOK, Stages
<1>7. CASE SwapPump
  BY <1>7 DEF SwapPump, TypeOK, HandlerInv
<1>8. CASE ReceiveCancel
  BY <1>8 DEF ReceiveCancel, Receive, Over, TypeOK, Slip, Slips, Stages
<1> QED
  BY <1>1, <1>2, <1>3, <1>4, <1>5, <1>6, <1>7, <1>8 DEF Handler

LEMMA FinishTypes ==
    ASSUME TypeOK, NEW t, Finish(t)
    PROVE  busy' \in BOOLEAN /\ streamReq' = None /\ streamProblem' = None /\ slips' \subseteq Slips
BY DEF Finish, finalizeStream, TypeOK, Slip, Slips

LEMMA MessageTypes == ASSUME TypeOK, WiresInv, Messages PROVE TypeOK'
<1>0. ASSUME NEW type, Take(type) PROVE Head(down) \in Wired
  BY <1>0, Taken DEF Take, WiresInv
<1>1. CASE OnReady
  <2>1. busy' \in BOOLEAN /\ streamReq' \in Turns \cup {Sse, None} /\ streamProblem' \in Problems \cup {None}
    BY <1>1 DEF OnReady, finalizeStream, TypeOK
  <2> QED
    BY <1>1, <2>1 DEF OnReady, TypeOK, Slip, Slips
<1>2. CASE OnTurnStart
  <2>1. Head(down).turn \in Turns
    BY <1>0, <1>2, Told DEF OnTurnStart, Take
  <2>2. problemOf[Head(down).turn] \in Problems \cup {None}
    BY <2>1 DEF TypeOK
  <2> QED
    BY <1>2, <2>1, <2>2 DEF OnTurnStart, TypeOK, Slip, Slips
<1>3. CASE OnReplay
  <2>1. Head(down).turn \in Turns
    BY <1>0, <1>3, Told DEF OnReplay, Take
  <2>2. problemOf[Head(down).turn] \in Problems \cup {None}
    BY <2>1 DEF TypeOK
  <2> QED
    BY <1>3, <2>1, <2>2 DEF OnReplay, TypeOK, Slip, Slips
<1>4. CASE OnDelta
  BY <1>4 DEF OnDelta, appendDelta, TypeOK
<1>5. CASE OnTurnEnd
  BY <1>5, FinishTypes DEF OnTurnEnd, TypeOK
<1>6. CASE OnError
  <2>1. CASE streamReq = Head(down).turn
    BY <1>6, <2>1, FinishTypes DEF OnError, TypeOK
  <2>2. CASE streamReq # Head(down).turn
    BY <1>6, <2>2 DEF OnError, TypeOK, Slip, Slips
  <2> QED
    BY <2>1, <2>2
<1> QED
  BY <1>1, <1>2, <1>3, <1>4, <1>5, <1>6 DEF Messages

LEMMA PanelTypes ==
    ASSUME TypeOK,
           \/ Catching \/ Render \/ Open \/ Close \/ Reload \/ Cancel
           \/ \E t \in Turns : OnReply(t) \/ BreakPost(t) \/ Send(t) \/ Post(t)
           \/ \E p \in Problems : SwitchProblem(p)
    PROVE  TypeOK'
<1>0. \A t \in Turns : Resaved(t) \in Stages
  BY DEF Resaved, TypeOK, Stages
<1>1. ASSUME NEW i \in DOMAIN gets, ReadThread(i) \/ ShowThread(i) \/ LoseThread(i) PROVE TypeOK'
  <2>1. CASE ReadThread(i) \/ ShowThread(i)
    BY <2>1 DEF ReadThread, ShowThread, TypeOK, Slip, Slips
  <2>2. CASE LoseThread(i)
    <3>1. surprises' \in 0..MaxSurprises
      BY <2>2, SurpriseBounded DEF LoseThread, Surprise
    <3> QED
      BY <2>2, <3>1 DEF LoseThread, TypeOK, Slips
  <2> QED
    BY <1>1, <2>1, <2>2
<1>2. CASE Render
  BY <1>2 DEF Render, TypeOK
<1>3. CASE Open
  <2>1. failures' \in 0..MaxFailures /\ failures' < MaxFailures
    BY <1>3, BoundsAssumption DEF Open
  <2> QED
    BY <1>3, <2>1 DEF Open, TypeOK
<1>4. CASE Close
  <2>1. surprises' \in 0..MaxSurprises
    BY <1>4, SurpriseBounded DEF Close, Surprise
  <2>2. failures' \in 0..MaxFailures /\ (conn' # "fallback" => failures' < MaxFailures)
    BY <1>4, BoundsAssumption DEF Close, TypeOK
  <2> QED
    BY <1>4, <2>1, <2>2 DEF Close, Offline, TypeOK, Slip, Slips
<1>5. CASE Reload
  <2>1. surprises' \in 0..MaxSurprises /\ failures' \in 0..MaxFailures /\ failures' < MaxFailures
    BY <1>5, SurpriseBounded, BoundsAssumption DEF Reload, Surprise
  <2>2. stage' \in [Turns -> Stages]
    BY <1>0, <1>5 DEF Reload, TypeOK
  <2> QED
    BY <1>5, <2>1, <2>2, NamesAssumption DEF Reload, Offline, TypeOK
<1>6. CASE Cancel
  <2>1. surprises' \in 0..MaxSurprises
    BY <1>6, SurpriseBounded DEF Cancel, Surprise
  <2> QED
    BY <1>6, <2>1 DEF Cancel, TypeOK
<1>7. ASSUME NEW t \in Turns, OnReply(t) PROVE TypeOK'
  <2>1. CASE Head(reply[t]).type = "delta"
    BY <1>7, <2>1 DEF OnReply, appendDelta, TypeOK
  <2>2. CASE Head(reply[t]).type # "delta"
    BY <1>7, <2>2, FinishTypes DEF OnReply, TypeOK
  <2> QED
    BY <2>1, <2>2
<1>8. ASSUME NEW t \in Turns, Send(t) PROVE TypeOK'
  <2>1. surprises' \in 0..MaxSurprises
    BY <1>8, SurpriseBounded DEF Send, Asking
  <2> QED
    BY <1>8, <2>1 DEF Send, TypeOK, Stages
<1>9. ASSUME NEW t \in Turns, Post(t) PROVE TypeOK'
  <2>1. surprises' \in 0..MaxSurprises
    BY <1>9, SurpriseBounded DEF Post, Asking
  <2> QED
    BY <1>9, <2>1 DEF Post, TypeOK, Stages, Slip, Slips
<1>10. ASSUME NEW p \in Problems, SwitchProblem(p) PROVE TypeOK'
  <2>1. surprises' \in 0..MaxSurprises
    BY <1>10, SurpriseBounded DEF SwitchProblem, Surprise
  <2> QED
    BY <1>10, <2>1 DEF SwitchProblem, TypeOK
<1>11. ASSUME NEW t \in Turns, BreakPost(t) PROVE TypeOK'
  <2>1. surprises' \in 0..MaxSurprises
    BY <1>11, SurpriseBounded DEF BreakPost, Surprise
  <2>2. stage' \in [Turns -> Stages]
    BY <1>0, <1>11 DEF BreakPost, TypeOK, Stages
  <2> QED
    BY <1>11, <2>1, <2>2 DEF BreakPost, TypeOK, Slips
<1> QED
  BY <1>1, <1>2, <1>3, <1>4, <1>5, <1>6, <1>7, <1>8, <1>9, <1>10, <1>11 DEF Catching

LEMMA TypeStep == LockInv /\ [Next]_vars => TypeOK'
<1> SUFFICES ASSUME LockInv, [Next]_vars PROVE TypeOK'
  OBVIOUS
<1>1. CASE UNCHANGED vars
  BY <1>1 DEF vars, LockInv, TypeOK
<1>2. CASE Next
  BY <1>2, TurnTypes, HandlerTypes, MessageTypes, PanelTypes DEF Next, LockInv
<1> QED
  BY <1>1, <1>2

----------------------------------------------------------------------------
(* What keeps the parts of the invariant, whatever the action *)

\* Nothing in the API, on the socket or at the panel's lock moves.
lockVars == <<stage, active, serving, activeNow, handling, queue, subscribed, pump, up, down, posted, reading,
              conn, busy, streamReq>>

LEMMA StillHolds ==
    ASSUME WiresInv, AskedInv, HandlerInv, FollowedInv, PanelInv, UNCHANGED lockVars, slips \subseteq slips'
    PROVE  WiresInv' /\ AskedInv' /\ HandlerInv' /\ FollowedInv' /\ PanelInv'
<1>1. WiresInv' /\ AskedInv'
  BY DEF lockVars, WiresInv, AskedInv
<1>2. /\ (\A t \in Turns : EndComing(t) <=> EndComing(t)') /\ (EndComing(handling) <=> EndComing(handling)')
      /\ (EndComing(pump) <=> EndComing(pump)')
  BY DEF lockVars, EndComing
<1>3. HandlerInv'
  BY <1>2 DEF lockVars, HandlerInv
<1>4. EndDue <=> EndDue'
  BY <1>2 DEF lockVars, EndDue
<1>5. FollowedInv'
  BY <1>4 DEF lockVars, FollowedInv
<1>6. UnlockComing <=> UnlockComing'
  BY <1>4 DEF lockVars, UnlockComing, Has
<1>7. PanelInv'
  BY <1>6 DEF lockVars, PanelInv
<1> QED
  BY <1>1, <1>3, <1>5, <1>7

LEMMA FollowedHeld ==
    ASSUME FollowedInv, EndDue => EndDue', down' = down
    PROVE  FollowedInv'
BY DEF FollowedInv

LEMMA FollowedPut ==
    ASSUME WiresInv, FollowedInv, NEW e \in Wired, down' = Append(down, e),
           e.type \in Opening => EndDue', EndDue => EndDue' \/ e.type \in Unlocking
    PROVE  FollowedInv'
<1> SUFFICES ASSUME NEW i \in DOMAIN down', down'[i].type \in Opening
             PROVE  EndDue' \/ \E j \in DOMAIN down' : j > i /\ down'[j].type \in Unlocking
  BY DEF FollowedInv
<1> DEFINE new == Len(down) + 1
<1>0. down \in Seq(Wired)
  BY DEF WiresInv
<1>1. /\ \A j \in DOMAIN down : j \in DOMAIN down' /\ down'[j] = down[j] /\ j < new
      /\ new \in DOMAIN down' /\ down'[new] = e
      /\ i \in DOMAIN down \/ i = new
  BY <1>0, Put
<1> HIDE DEF new
<1>2. CASE i = new
  BY <1>1, <1>2
<1>3. CASE i \in DOMAIN down
  <2>1. EndDue \/ \E j \in DOMAIN down : j > i /\ down[j].type \in Unlocking
    BY <1>1, <1>3 DEF FollowedInv
  <2>2. ASSUME e.type \in Unlocking PROVE new > i /\ down'[new].type \in Unlocking
    <3>1. i < new /\ i \in Nat /\ new \in Nat
      BY <1>0, <1>1, <1>3 DEF new
    <3> QED
      BY <1>1, <2>2, <3>1
  <2> QED
    BY <1>1, <2>1, <2>2
<1> QED
  BY <1>1, <1>2, <1>3

LEMMA FollowedTaken ==
    ASSUME WiresInv, FollowedInv, down # <<>>, down' = Tail(down), EndDue => EndDue'
    PROVE  FollowedInv'
<1> SUFFICES ASSUME NEW i \in DOMAIN down', down'[i].type \in Opening
             PROVE  EndDue' \/ \E j \in DOMAIN down' : j > i /\ down'[j].type \in Unlocking
  BY DEF FollowedInv
<1>0. down \in Seq(Wired)
  BY DEF WiresInv
<1>1. i \in Nat /\ i + 1 \in DOMAIN down /\ down[i + 1].type \in Opening
  BY <1>0, Taken
<1>2. EndDue \/ \E j \in DOMAIN down : j > i + 1 /\ down[j].type \in Unlocking
  BY <1>1 DEF FollowedInv
<1>3. ASSUME NEW j \in DOMAIN down, j > i + 1, down[j].type \in Unlocking
      PROVE  j - 1 \in DOMAIN down' /\ j - 1 > i /\ down'[j - 1].type \in Unlocking
  BY <1>0, <1>1, <1>3, Taken
<1> QED
  BY <1>2, <1>3

\* What opens a stream at the panel: the rest of the wire, or the handler, will unlock it.
LEMMA OpenedIsFollowed ==
    ASSUME WiresInv, FollowedInv, down # <<>>, Head(down).type \in Opening
    PROVE  EndDue \/ Has(Tail(down), Unlocking)
<1>0. down \in Seq(Wired)
  BY DEF WiresInv
<1>1. 1 \in DOMAIN down /\ down[1].type \in Opening
  BY <1>0, Taken
<1>2. EndDue \/ \E j \in DOMAIN down : j > 1 /\ down[j].type \in Unlocking
  BY <1>1 DEF FollowedInv
<1>3. ASSUME NEW j \in DOMAIN down, j > 1, down[j].type \in Unlocking PROVE Has(Tail(down), Unlocking)
  <2>1. j - 1 \in DOMAIN Tail(down) /\ Tail(down)[j - 1].type \in Unlocking
    BY <1>0, <1>3, Taken
  <2> QED
    BY <2>1 DEF Has
<1> QED
  BY <1>2, <1>3

\* The lock where the panel does not move: whatever was on its way is so still.
LEMMA PanelHeld ==
    ASSUME PanelInv, UNCHANGED <<reading, conn, busy, streamReq>>, slips \subseteq slips',
           conn = "online" /\ UnlockComing => UnlockComing' \/ "misled" \in slips'
    PROVE  PanelInv'
BY DEF PanelInv, Locking

LEMMA PanelUnlocked ==
    ASSUME ~busy', streamReq' = Sse /\ "broken" \notin slips' => reading' # {}
    PROVE  PanelInv'
BY DEF PanelInv

\* Nothing of what UnlockComing counts is taken away, but at most the end of the handler's turn
\* by its being sent.
LEMMA ComingHeld ==
    ASSUME WiresInv, UnlockComing, UNCHANGED <<up, streamReq, serving, activeNow>>,
           down' = down \/ \E e \in Wired : down' = Append(down, e),
           EndDue => EndDue' \/ Has(down', Unlocking)
    PROVE  UnlockComing'
<1>0. down \in Seq(Wired)
  BY DEF WiresInv
<1>1. ASSUME Has(down, Unlocking) PROVE Has(down', Unlocking)
  BY <1>0, <1>1, HasPut
<1>2. ASSUME NEW i \in DOMAIN down, down[i].type = "ready", down[i].turn = None
      PROVE  i \in DOMAIN down' /\ down'[i] = down[i]
  BY <1>0, Put
<1>3. Has(up', {"chat"}) <=> Has(up, {"chat"})
  BY DEF Has
<1> QED
  BY <1>1, <1>2, <1>3 DEF UnlockComing

\* A message that unlocks nothing has been taken from the wire.
LEMMA ComingTaken ==
    ASSUME WiresInv, UnlockComing, UNCHANGED <<up, serving, activeNow>>,
           down # <<>>, down' = Tail(down), Head(down).type \notin Unlocking,
           streamReq # None => streamReq' # None /\ (Head(down).type # "ready" \/ Head(down).turn # None),
           EndDue => EndDue'
    PROVE  UnlockComing'
<1>0. down \in Seq(Wired)
  BY DEF WiresInv
<1>1. ASSUME Has(down, Unlocking) PROVE Has(down', Unlocking)
  BY <1>0, <1>1, HasTaken
<1>2. ASSUME NEW i \in DOMAIN down, down[i].type = "ready", down[i].turn = None, streamReq # None
      PROVE  i - 1 \in DOMAIN down' /\ down'[i - 1] = down[i]
  BY <1>0, <1>2, Taken
<1>3. Has(up', {"chat"}) <=> Has(up, {"chat"})
  BY DEF Has
<1> QED
  BY <1>1, <1>2, <1>3 DEF UnlockComing

LEMMA HandlerHeld ==
    ASSUME TypeOK, HandlerInv, UNCHANGED <<serving, handling, subscribed, pump>>,
           serving = "starting" => stage'[handling] = stage[handling],
           \A s \in subscribed :
              /\ stage[s] \in Underway \cup {"over"} => stage'[s] \in Underway \cup {"over"}
              /\ EndComing(s) => stage'[s] \in Underway \/ Has(queue'[s], {"turn_end"})
    PROVE  HandlerInv' /\ (EndDue => EndDue')
<1>1. serving \in {"replaying", "replayed", "started"} => handling \in subscribed
  BY DEF HandlerInv
<1>2. serving = "started" => EndComing(handling)'
  BY <1>1 DEF HandlerInv, EndComing
<1>3. pump # None => (EndComing(pump) => EndComing(pump)')
  BY DEF HandlerInv, EndComing
<1>4. HandlerInv'
  BY <1>1, <1>2, <1>3 DEF HandlerInv
<1>5. EndDue => EndDue'
  BY <1>3 DEF EndDue
<1> QED
  BY <1>4, <1>5

----------------------------------------------------------------------------
(* The turn *)

LockParts == WiresInv /\ AskedInv /\ HandlerInv /\ FollowedInv /\ PanelInv

LEMMA NoPieces == <<>> \in Pieces
BY DEF Pieces

LEMMA RegisterHolds == ASSUME TypeOK, LockParts, NEW t \in Turns, Register(t) PROVE LockParts'
<1>0. WiresInv /\ AskedInv /\ HandlerInv /\ FollowedInv /\ PanelInv
  BY DEF LockParts
<1>1. /\ stage[t] = "starting" /\ stage' = [stage EXCEPT ![t] = "streaming"]
      /\ active' = IF t \in posted THEN active ELSE t
      /\ UNCHANGED <<activeNow, handling, queue, pump, up, posted, reading, conn, busy, streamReq, slips>>
  BY DEF Register
<1>2. /\ stage'[t] = "streaming" /\ \A s \in Turns \ {t} : stage'[s] = stage[s]
  BY <1>1 DEF TypeOK
<1>3. AskedInv'
  BY <1>0, <1>1, <1>2, NamesAssumption DEF AskedInv, Underway
<1>4. ASSUME NEW s \in subscribed
      PROVE  /\ stage[s] \in Underway \cup {"over"} => stage'[s] \in Underway \cup {"over"}
             /\ EndComing(s) => stage'[s] \in Underway \/ Has(queue'[s], {"turn_end"})
  BY <1>1, <1>2 DEF TypeOK, Underway, EndComing
<1>5. CASE handling = t
  <2> DEFINE e == Envelope("turn_start", t, <<>>)
  <2>1. /\ serving' = "started" /\ subscribed' = subscribed \cup {t} /\ down' = Append(down, e)
    BY <1>5 DEF Register
  <2>2. e \in Wired /\ e.type = "turn_start"
    BY Envelopes, NoPieces DEF Envelope
  <2>3. handling # None /\ serving # "none" /\ conn = "online"
    BY <1>0, <1>5, NamesAssumption DEF HandlerInv, TypeOK
  <2>4. WiresInv'
    BY <1>0, <1>1, <2>1, <2>2, <2>3, Put DEF WiresInv
  <2>5. EndComing(handling)'
    BY <1>1, <1>2, <1>5 DEF EndComing, Underway
  <2>6. HandlerInv'
    <3>1. stage'[handling'] \in Underway /\ handling' \in subscribed' /\ handling' # None
      BY <1>1, <1>2, <1>5, <2>1, <2>3 DEF Underway
    <3>2. pump' # None => pump' \in subscribed' /\ pump' # handling' /\ stage'[pump'] \in Underway \cup {"over"}
      BY <1>0, <1>1, <1>4, <2>1 DEF HandlerInv
    <3> QED
      BY <2>1, <2>5, <3>1, <3>2 DEF HandlerInv
  <2>7. EndDue'
    BY <2>1 DEF EndDue
  <2>8. FollowedInv'
    BY <1>0, <2>1, <2>2, <2>7, FollowedPut
  <2>9. PanelInv'
    BY <1>0, <1>1, <2>7, PanelHeld DEF UnlockComing
  <2> QED
    BY <1>3, <2>4, <2>6, <2>8, <2>9 DEF LockParts
<1>6. CASE handling # t
  <2>1. UNCHANGED <<serving, subscribed, down>>
    BY <1>6 DEF Register
  <2>2. WiresInv'
    BY <1>0, <1>1, <2>1 DEF WiresInv
  <2>3. serving = "starting" => stage'[handling] = stage[handling]
    BY <1>0, <1>2, <1>6 DEF HandlerInv, TypeOK
  <2>4. HandlerInv' /\ (EndDue => EndDue')
    BY <1>0, <1>1, <1>4, <2>1, <2>3, HandlerHeld
  <2>5. FollowedInv'
    BY <1>0, <2>1, <2>4, FollowedHeld
  <2>6. PanelInv'
    BY <1>0, <1>1, <2>1, <2>4, PanelHeld, ComingHeld
  <2> QED
    BY <1>3, <2>2, <2>4, <2>5, <2>6 DEF LockParts
<1> QED
  BY <1>5, <1>6

LEMMA RefuseHolds == ASSUME TypeOK, LockParts, NEW t \in Turns, Refuse(t) PROVE LockParts'
<1>0. WiresInv /\ AskedInv /\ HandlerInv /\ FollowedInv /\ PanelInv
  BY DEF LockParts
<1>1. /\ stage[t] = "starting" /\ stage' = [stage EXCEPT ![t] = "refused"]
      /\ UNCHANGED <<active, activeNow, queue, subscribed, pump, up, posted, reading, conn, busy, streamReq, slips>>
  BY DEF Refuse
<1>2. /\ stage'[t] = "refused" /\ \A s \in Turns \ {t} : stage'[s] = stage[s]
  BY <1>1 DEF TypeOK
<1>3. AskedInv'
  <2>1. ASSUME NEW i \in DOMAIN up, up[i].type = "chat" PROVE stage'[up[i].turn] = "asked"
    <3>1. stage[up[i].turn] = "asked" /\ up[i] \in Asked
      BY <1>0, <2>1 DEF AskedInv, WiresInv
    <3> QED
      BY <1>1, <1>2, <2>1, <3>1 DEF Asked
  <2>2. active # None => stage'[active] \in Underway
    BY <1>0, <1>1, <1>2 DEF AskedInv, Underway, TypeOK
  <2> QED
    BY <1>0, <1>1, <2>1, <2>2 DEF AskedInv
<1>4. ASSUME NEW s \in subscribed
      PROVE  /\ stage[s] \in Underway \cup {"over"} => stage'[s] \in Underway \cup {"over"}
             /\ EndComing(s) => stage'[s] \in Underway \/ Has(queue'[s], {"turn_end"})
  BY <1>1, <1>2 DEF TypeOK, Underway, EndComing
<1>5. CASE handling = t
  <2> DEFINE e == Envelope("error", t, <<>>)
  <2>1. /\ serving' = "looping" /\ handling' = None /\ down' = Append(down, e)
    BY <1>5 DEF Refuse
  <2>2. e \in Wired /\ e.type = "error"
    BY Envelopes, NoPieces DEF Envelope
  <2>3. handling # None /\ serving # "none" /\ conn = "online"
    BY <1>0, <1>5, NamesAssumption DEF HandlerInv, TypeOK
  <2>4. WiresInv'
    BY <1>0, <1>1, <2>1, <2>2, <2>3, Put DEF WiresInv
  <2>5. HandlerInv'
    BY <1>0, <1>1, <1>4, <2>1 DEF HandlerInv
  <2>6. FollowedInv'
    BY <1>0, <2>1, <2>2, FollowedPut DEF Unlocking, Opening
  <2>7. Has(down', Unlocking)
    BY <1>0, <2>1, <2>2, HasPut DEF WiresInv, Unlocking
  <2>8. PanelInv'
    BY <1>0, <1>1, <2>7, PanelHeld DEF UnlockComing
  <2> QED
    BY <1>3, <2>4, <2>5, <2>6, <2>8 DEF LockParts
<1>6. CASE handling # t
  <2>1. UNCHANGED <<serving, handling, down>>
    BY <1>6 DEF Refuse
  <2>2. WiresInv'
    BY <1>0, <1>1, <2>1 DEF WiresInv
  <2>3. serving = "starting" => stage'[handling] = stage[handling]
    BY <1>0, <1>2, <1>6 DEF HandlerInv, TypeOK
  <2>4. HandlerInv' /\ (EndDue => EndDue')
    BY <1>0, <1>1, <1>4, <2>1, <2>3, HandlerHeld
  <2>5. FollowedInv'
    BY <1>0, <2>1, <2>4, FollowedHeld
  <2>6. PanelInv'
    BY <1>0, <1>1, <2>1, <2>4, PanelHeld, ComingHeld
  <2> QED
    BY <1>3, <2>2, <2>4, <2>5, <2>6 DEF LockParts
<1> QED
  BY <1>5, <1>6

\* The turn goes on, or is over: whoever is subscribed has it under way, or its end.
LEMMA OverFacts ==
    ASSUME TypeOK, WiresInv, NEW t \in Turns, stage[t] = "saving", Over(t)
    PROVE  /\ queue' \in [Turns -> Seq(Queued)] /\ stage'[t] = "over" /\ slips \subseteq slips'
           /\ \A s \in Turns \ {t} : stage'[s] = stage[s] /\ queue'[s] = queue[s]
           /\ t \in subscribed => Has(queue'[t], {"turn_end"})
<1> DEFINE e == Envelope("turn_end", t, <<>>)
<1>1. e \in Queued /\ e.type = "turn_end"
  BY Envelopes, NoPieces DEF Envelope
<1>2. queue[t] \in Seq(Queued)
  BY DEF WiresInv
<1>3. Append(queue[t], e) \in Seq(Queued) /\ Has(Append(queue[t], e), {"turn_end"})
  BY <1>1, <1>2, Put, HasPut
<1>4. /\ stage' = [stage EXCEPT ![t] = "over"] /\ slips \subseteq slips'
      /\ queue' = IF t \in subscribed THEN [queue EXCEPT ![t] = Append(@, e)] ELSE queue
  BY DEF Over, Published
<1> HIDE DEF e
<1> QED
  BY <1>3, <1>4 DEF TypeOK, WiresInv

LEMMA GoesOnHolds ==
    ASSUME TypeOK, LockParts, NEW t \in Turns, Delta(t) \/ EndStream(t) \/ Settle(t)
    PROVE  LockParts'
<1>0. WiresInv /\ AskedInv /\ HandlerInv /\ FollowedInv /\ PanelInv
  BY DEF LockParts
<1>1. /\ stage[t] \in Underway
      /\ UNCHANGED <<serving, activeNow, handling, subscribed, pump, up, down, posted, reading, conn, busy, streamReq>>
      /\ slips \subseteq slips'
  BY DEF Delta, EndStream, Settle, Over, Underway
<1>2. /\ queue' \in [Turns -> Seq(Queued)]
      /\ stage'[t] \in Underway \cup {"over"} /\ \A s \in Turns \ {t} : stage'[s] = stage[s] /\ queue'[s] = queue[s]
      /\ stage'[t] \in Underway \/ (t \in subscribed => Has(queue'[t], {"turn_end"}))
      /\ stage'[t] = "over" => active' # t /\ active' \in {active, None}
      /\ stage'[t] # "over" => active' = active
  <2>1. CASE Delta(t)
    <3> DEFINE e == Envelope("delta", t, <<Piece(t, length[t] + 1)>>)
    <3>1. e \in Queued
      <4>1. length[t] + 1 \in Nat
        BY BoundsAssumption DEF TypeOK
      <4>2. <<Piece(t, length[t] + 1)>> \in Pieces
        BY <4>1 DEF Piece, Pieces
      <4> QED
        BY <4>2, Envelopes
    <3>2. Append(queue[t], e) \in Seq(Queued)
      BY <1>0, <3>1, Put DEF WiresInv
    <3>3. /\ stage' = stage /\ active' = active
          /\ queue' = IF t \in subscribed THEN [queue EXCEPT ![t] = Append(@, e)] ELSE queue
      BY <2>1 DEF Delta, Published
    <3> HIDE DEF e
    <3> QED
      BY <1>0, <1>1, <3>2, <3>3 DEF WiresInv, Underway
  <2>2. CASE EndStream(t)
    BY <1>0, <2>2 DEF EndStream, TypeOK, WiresInv, Underway
  <2>3. CASE Settle(t)
    <3>1. Over(t) /\ stage[t] = "saving" /\ active' = IF t \in posted THEN active ELSE None
      BY <2>3 DEF Settle, Over
    <3>2. active' # t /\ active' \in {active, None}
      BY <1>0, <3>1, NamesAssumption DEF AskedInv
    <3> QED
      BY <1>0, <3>1, <3>2, OverFacts DEF Underway
  <2> QED
    BY <2>1, <2>2, <2>3
<1>3. WiresInv'
  BY <1>0, <1>1, <1>2 DEF WiresInv
<1>4. AskedInv'
  <2>1. ASSUME NEW i \in DOMAIN up, up[i].type = "chat" PROVE stage'[up[i].turn] = "asked"
    <3>1. stage[up[i].turn] = "asked" /\ up[i] \in Asked
      BY <1>0, <2>1 DEF AskedInv, WiresInv
    <3> QED
      BY <1>1, <1>2, <2>1, <3>1 DEF Asked, Underway
  <2>2. active' # None => active' \notin posted /\ stage'[active'] \in Underway
    BY <1>0, <1>2 DEF AskedInv, TypeOK
  <2> QED
    BY <1>0, <1>1, <2>1, <2>2 DEF AskedInv
<1>5. ASSUME NEW s \in subscribed
      PROVE  /\ stage[s] \in Underway \cup {"over"} => stage'[s] \in Underway \cup {"over"}
             /\ EndComing(s) => stage'[s] \in Underway \/ Has(queue'[s], {"turn_end"})
  BY <1>2 DEF TypeOK, EndComing
<1>6. serving = "starting" => stage'[handling] = stage[handling]
  BY <1>0, <1>1, <1>2 DEF HandlerInv, TypeOK, Underway
<1>7. HandlerInv' /\ (EndDue => EndDue')
  BY <1>0, <1>1, <1>5, <1>6, HandlerHeld
<1>8. FollowedInv'
  BY <1>0, <1>1, <1>7, FollowedHeld
<1>9. PanelInv'
  BY <1>0, <1>1, <1>7, PanelHeld, ComingHeld
<1> QED
  BY <1>3, <1>4, <1>7, <1>8, <1>9 DEF LockParts

----------------------------------------------------------------------------
(* The handler *)

\* The registry and the questions, where no turn moves.
LEMMA AskedHeld == ASSUME AskedInv, UNCHANGED <<stage, up, active, posted>> PROVE AskedInv'
BY DEF AskedInv

LEMMA ReadyHolds == ASSUME TypeOK, LockParts, Ready PROVE LockParts'
<1>0. WiresInv /\ AskedInv /\ HandlerInv /\ FollowedInv /\ PanelInv
  BY DEF LockParts
<1> DEFINE told == IF activeNow # None /\ stage[activeNow] # "over" THEN activeNow ELSE None
           e == Envelope("ready", told, <<>>)
<1>1. /\ serving = "accepted" /\ serving' = "readied" /\ down' = Append(down, e)
      /\ UNCHANGED <<stage, active, activeNow, handling, queue, subscribed, pump, up, posted, reading, conn, busy,
                     streamReq, slips>>
  BY DEF Ready
<1>2. e \in Wired /\ e.type = "ready" /\ e.turn = told
  BY NoPieces DEF Envelope, Wired, TypeOK
<1>3. (told = None) \/ activeNow # None
  OBVIOUS
<1> HIDE DEF e, told
<1>4. conn = "online" /\ handling = None /\ pump = None
  BY <1>0, <1>1 DEF TypeOK, HandlerInv
<1>5. WiresInv'
  BY <1>0, <1>1, <1>2, <1>4, Put DEF WiresInv
<1>6. AskedInv'
  BY <1>0, <1>1, AskedHeld
<1>7. HandlerInv'
  BY <1>1, <1>4 DEF HandlerInv
<1>8. ~EndDue
  BY <1>1, <1>4 DEF EndDue
<1>9. FollowedInv'
  BY <1>0, <1>1, <1>2, <1>8, FollowedPut DEF Opening
<1>10. ASSUME UnlockComing PROVE UnlockComing'
  <2>1. CASE Has(down, Unlocking)
    <3>1. Has(down', Unlocking)
      BY <1>0, <1>1, <1>2, <2>1, HasPut DEF WiresInv
    <3> QED
      BY <3>1 DEF UnlockComing
  <2>2. CASE Has(up, {"chat"})
    BY <1>1, <2>2 DEF UnlockComing, Has
  <2>3. CASE streamReq # None
    <3>1. CASE told = None
      <4>1. Len(down) + 1 \in DOMAIN down' /\ down'[Len(down) + 1] = e
        BY <1>0, <1>1, <1>2, Put DEF WiresInv
      <4> QED
        BY <1>1, <1>2, <2>3, <3>1, <4>1 DEF UnlockComing
    <3>2. CASE activeNow # None
      BY <1>1, <3>2 DEF UnlockComing
    <3> QED
      BY <1>3, <3>1, <3>2
  <2> QED
    BY <1>1, <1>8, <1>10, <2>1, <2>2, <2>3 DEF UnlockComing
<1>11. PanelInv'
  BY <1>0, <1>1, <1>10, PanelHeld
<1> QED
  BY <1>5, <1>6, <1>7, <1>9, <1>11 DEF LockParts

LEMMA ReplayHolds == ASSUME TypeOK, LockParts, Replay PROVE LockParts'
<1>0. WiresInv /\ AskedInv /\ HandlerInv /\ FollowedInv /\ PanelInv
  BY DEF LockParts
<1>1. /\ serving = "readied" /\ activeNow' = None /\ slips \subseteq slips'
      /\ active = None /\ activeNow # None => "misled" \in slips'
      /\ UNCHANGED <<stage, active, queue, pump, up, posted, reading, conn, busy, streamReq>>
  BY DEF Replay, Slip
<1>2. conn = "online" /\ handling = None /\ pump = None
  BY <1>0, <1>1 DEF TypeOK, HandlerInv
<1>3. AskedInv'
  BY <1>0, <1>1, AskedHeld
<1>4. ~EndDue
  BY <1>1, <1>2 DEF EndDue
<1>5. CASE active = None
  <2>1. serving' = "looping" /\ UNCHANGED <<handling, subscribed, down>>
    BY <1>5 DEF Replay
  <2>2. WiresInv' /\ HandlerInv'
    BY <1>0, <1>1, <1>2, <2>1 DEF WiresInv, HandlerInv
  <2>3. FollowedInv'
    BY <1>0, <1>4, <2>1, FollowedHeld
  <2>4. UnlockComing => UnlockComing' \/ "misled" \in slips'
    BY <1>1, <1>4, <1>5, <2>1 DEF UnlockComing, Has
  <2>5. PanelInv'
    BY <1>0, <1>1, <2>4, PanelHeld
  <2> QED
    BY <1>3, <2>2, <2>3, <2>5 DEF LockParts
<1>6. CASE active # None
  <2> DEFINE e == Envelope("replay", active, <<>>)
  <2>1. /\ serving' = "replaying" /\ handling' = active /\ subscribed' = subscribed \cup {active}
        /\ down' = Append(down, e)
    BY <1>6 DEF Replay
  <2>2. active \in Turns /\ stage[active] \in Underway
    BY <1>0, <1>6 DEF AskedInv, TypeOK
  <2>3. e \in Wired /\ e.type = "replay"
    BY <2>2, Envelopes, NoPieces DEF Envelope
  <2> HIDE DEF e
  <2>4. WiresInv'
    BY <1>0, <1>1, <1>2, <2>1, <2>3, Put DEF WiresInv
  <2>5. HandlerInv'
    BY <1>1, <1>2, <1>6, <2>1, <2>2 DEF HandlerInv
  <2>6. EndDue'
    BY <2>1 DEF EndDue
  <2>7. FollowedInv'
    BY <1>0, <2>1, <2>3, <2>6, FollowedPut
  <2>8. PanelInv'
    BY <1>0, <1>1, <2>6, PanelHeld DEF UnlockComing
  <2> QED
    BY <1>3, <2>4, <2>5, <2>7, <2>8 DEF LockParts
<1> QED
  BY <1>5, <1>6

LEMMA ReplayTextHolds == ASSUME TypeOK, LockParts, ReplayText PROVE LockParts'
<1>0. WiresInv /\ AskedInv /\ HandlerInv /\ FollowedInv /\ PanelInv
  BY DEF LockParts
<1> DEFINE e == Envelope("delta", handling, Text(handling))
<1>1. /\ serving = "replaying" /\ serving' = "replayed" /\ down' = Append(down, e) /\ slips \subseteq slips'
      /\ UNCHANGED <<stage, active, activeNow, handling, queue, subscribed, pump, up, posted, reading, conn, busy,
                     streamReq>>
  BY DEF ReplayText
<1>2. handling \in Turns /\ conn = "online" /\ pump = None
  BY <1>0, <1>1 DEF HandlerInv, TypeOK
<1>3. e \in Wired /\ e.type = "delta"
  BY <1>2, TextIsPieces, Envelopes DEF Envelope
<1> HIDE DEF e
<1>4. WiresInv'
  BY <1>0, <1>1, <1>2, <1>3, Put DEF WiresInv
<1>5. AskedInv'
  BY <1>0, <1>1, AskedHeld
<1>6. HandlerInv'
  BY <1>0, <1>1 DEF HandlerInv
<1>7. EndDue'
  BY <1>1 DEF EndDue
<1>8. FollowedInv'
  BY <1>0, <1>1, <1>3, <1>7, FollowedPut
<1>9. PanelInv'
  BY <1>0, <1>1, <1>7, PanelHeld DEF UnlockComing
<1> QED
  BY <1>4, <1>5, <1>6, <1>8, <1>9 DEF LockParts

LEMMA EndReplayHolds == ASSUME TypeOK, LockParts, EndReplay PROVE LockParts'
<1>0. WiresInv /\ AskedInv /\ HandlerInv /\ FollowedInv /\ PanelInv
  BY DEF LockParts
<1>1. /\ serving \in {"replaying", "replayed"} /\ serving' = "looping" /\ handling' = None /\ slips \subseteq slips'
      /\ UNCHANGED <<stage, active, activeNow, up, posted, reading, conn, busy, streamReq>>
  BY DEF EndReplay, Resume
<1>2. /\ handling \in subscribed /\ handling \in Turns /\ stage[handling] \in Underway \cup {"over"}
      /\ conn = "online" /\ pump = None /\ handling # None
  BY <1>0, <1>1 DEF HandlerInv, TypeOK
<1>3. AskedInv'
  BY <1>0, <1>1, AskedHeld
<1>4. CASE stage[handling] = "over"
  <2> DEFINE e == Envelope("turn_end", handling, <<>>)
  <2>1. /\ down' = Append(down, e) /\ queue' = [queue EXCEPT ![handling] = <<>>] /\ pump' = pump
    BY <1>4 DEF EndReplay, Resume
  <2>2. e \in Wired /\ e.type = "turn_end"
    BY <1>2, Envelopes, NoPieces DEF Envelope
  <2> HIDE DEF e
  <2>3. WiresInv'
    BY <1>0, <1>1, <1>2, <2>1, <2>2, Put DEF WiresInv
  <2>4. HandlerInv'
    BY <1>1, <1>2, <2>1 DEF HandlerInv
  <2>5. FollowedInv'
    BY <1>0, <2>1, <2>2, FollowedPut DEF Unlocking, Opening
  <2>6. Has(down', Unlocking)
    BY <1>0, <2>1, <2>2, HasPut DEF WiresInv, Unlocking
  <2>7. PanelInv'
    BY <1>0, <1>1, <2>6, PanelHeld DEF UnlockComing
  <2> QED
    BY <1>3, <2>3, <2>4, <2>5, <2>7 DEF LockParts
<1>5. CASE stage[handling] # "over"
  <2>1. pump' = handling /\ UNCHANGED <<down, queue, subscribed>>
    BY <1>5 DEF EndReplay, Resume
  <2>2. WiresInv'
    BY <1>0, <1>1, <2>1 DEF WiresInv
  <2>3. HandlerInv'
    BY <1>1, <1>2, <2>1 DEF HandlerInv
  <2>4. EndComing(pump)' /\ pump' # None
    BY <1>1, <1>2, <1>5, <2>1 DEF EndComing, Underway
  <2>5. EndDue'
    BY <2>4 DEF EndDue
  <2>6. FollowedInv'
    BY <1>0, <2>1, <2>5, FollowedHeld
  <2>7. PanelInv'
    BY <1>0, <1>1, <2>5, PanelHeld DEF UnlockComing
  <2> QED
    BY <1>3, <2>2, <2>3, <2>6, <2>7 DEF LockParts
<1> QED
  BY <1>4, <1>5

LEMMA PumpHolds == ASSUME TypeOK, LockParts, Pump PROVE LockParts'
<1>0. WiresInv /\ AskedInv /\ HandlerInv /\ FollowedInv /\ PanelInv
  BY DEF LockParts
<1> DEFINE e == Head(queue[pump])
<1>1. /\ pump # None /\ queue[pump] # <<>> /\ down' = Append(down, e)
      /\ queue' = [queue EXCEPT ![pump] = Tail(queue[pump])]
      /\ UNCHANGED <<stage, active, serving, activeNow, handling, subscribed, pump, up, posted, reading, conn, busy,
                     streamReq, slips>>
  BY DEF Pump
<1>2. /\ pump \in Turns /\ pump # handling /\ pump \in subscribed /\ stage[pump] \in Underway \cup {"over"}
      /\ conn = "online"
  BY <1>0, <1>1 DEF HandlerInv, TypeOK
<1>3. queue[pump] \in Seq(Queued)
  BY <1>0, <1>2 DEF WiresInv
<1>4. e \in Queued /\ Tail(queue[pump]) \in Seq(Queued) /\ e \in Wired /\ e.type \in {"delta", "turn_end"}
  <2>1. e \in Queued /\ Tail(queue[pump]) \in Seq(Queued)
    BY <1>1, <1>3, Taken
  <2> HIDE DEF e
  <2> QED
    BY <2>1 DEF Wired, Queued
<1>5. Has(queue[pump], {"turn_end"}) => Has(Tail(queue[pump]), {"turn_end"}) \/ e.type \in {"turn_end"}
  BY <1>1, <1>3, HasTaken
<1> HIDE DEF e
<1>6. queue' \in [Turns -> Seq(Queued)] /\ queue'[pump] = Tail(queue[pump])
      /\ \A s \in Turns \ {pump} : queue'[s] = queue[s]
  BY <1>0, <1>1, <1>2, <1>4 DEF WiresInv
<1>7. WiresInv'
  BY <1>0, <1>1, <1>2, <1>4, <1>6, Put DEF WiresInv
<1>8. AskedInv'
  BY <1>0, <1>1, AskedHeld
<1>9. serving = "started" => EndComing(handling)'
  BY <1>0, <1>1, <1>2, <1>6 DEF HandlerInv, EndComing, TypeOK
<1>10. HandlerInv'
  BY <1>0, <1>1, <1>9 DEF HandlerInv
<1>11. EndDue => EndDue' \/ e.type \in Unlocking
  BY <1>1, <1>5, <1>6 DEF EndDue, EndComing, Unlocking
<1>12. FollowedInv'
  BY <1>0, <1>1, <1>4, <1>11, FollowedPut DEF Opening
<1>13. EndDue => EndDue' \/ Has(down', Unlocking)
  BY <1>0, <1>1, <1>4, <1>11, HasPut DEF WiresInv
<1>14. PanelInv'
  BY <1>0, <1>1, <1>4, <1>13, PanelHeld, ComingHeld
<1> QED
  BY <1>7, <1>8, <1>10, <1>12, <1>14 DEF LockParts

LEMMA SwapPumpHolds == ASSUME TypeOK, LockParts, SwapPump PROVE LockParts'
<1>0. WiresInv /\ AskedInv /\ HandlerInv /\ FollowedInv /\ PanelInv
  BY DEF LockParts
<1>1. /\ serving = "started" /\ serving' = "looping" /\ handling' = None /\ pump' = handling
      /\ subscribed' = subscribed \ {pump} /\ queue' = [t \in Turns |-> IF t = pump THEN <<>> ELSE queue[t]]
      /\ UNCHANGED <<stage, active, activeNow, up, down, posted, reading, conn, busy, streamReq, slips>>
  BY DEF SwapPump
<1>2. /\ handling \in subscribed /\ handling \in Turns /\ stage[handling] \in Underway \cup {"over"}
      /\ handling # None /\ pump # handling /\ EndComing(handling) /\ conn = "online"
  BY <1>0, <1>1 DEF HandlerInv, TypeOK
<1>3. WiresInv'
  BY <1>0, <1>1 DEF WiresInv
<1>4. AskedInv'
  BY <1>0, <1>1, AskedHeld
<1>5. HandlerInv'
  BY <1>1, <1>2 DEF HandlerInv
<1>6. queue'[handling] = queue[handling]
  BY <1>1, <1>2
<1>7. EndDue'
  BY <1>1, <1>2, <1>6 DEF EndDue, EndComing
<1>8. FollowedInv'
  BY <1>0, <1>1, <1>7, FollowedHeld
<1>9. PanelInv'
  BY <1>0, <1>1, <1>7, PanelHeld DEF UnlockComing
<1> QED
  BY <1>3, <1>4, <1>5, <1>8, <1>9 DEF LockParts

\* A message has been received: the questions on their way are those behind it.
LEMMA ReceivedRest ==
    ASSUME TypeOK, WiresInv, AskedInv, NEW type, Receive(type)
    PROVE  /\ up' \in Seq(Asked) /\ Head(up) \in Asked
           /\ \A i \in DOMAIN up' : up'[i].type = "chat" =>
                 stage[up'[i].turn] = "asked" /\ (type = "chat" => up'[i].turn # Head(up).turn)
           /\ \A i, j \in DOMAIN up' : up'[i].type = "chat" /\ up'[j].type = "chat" /\ up'[i].turn = up'[j].turn => i = j
           /\ type = "chat" => Head(up).turn \in Turns /\ stage[Head(up).turn] = "asked"
           /\ Has(up, {"chat"}) => Has(up', {"chat"}) \/ type = "chat"
<1>1. up \in Seq(Asked) /\ up # <<>> /\ up' = Tail(up) /\ Head(up).type = type
  BY DEF Receive, WiresInv
<1>2. /\ up' \in Seq(Asked) /\ Head(up) \in Asked /\ Head(up) = up[1] /\ 1 \in DOMAIN up
      /\ \A i \in DOMAIN up' : i \in Nat /\ i + 1 \in DOMAIN up /\ up'[i] = up[i + 1]
      /\ Has(up, {"chat"}) => Has(up', {"chat"}) \/ type \in {"chat"}
  BY <1>1, Taken, HasTaken
<1>3. ASSUME NEW i \in DOMAIN up', up'[i].type = "chat"
      PROVE  stage[up'[i].turn] = "asked" /\ (type = "chat" => up'[i].turn # Head(up).turn)
  <2>1. stage[up[i + 1].turn] = "asked" /\ up'[i] = up[i + 1]
    BY <1>2, <1>3 DEF AskedInv
  <2>2. ASSUME type = "chat", up[i + 1].turn = up[1].turn PROVE FALSE
    <3>1. i + 1 = 1 /\ i \in Nat /\ i # 0
      BY <1>1, <1>2, <1>3, <2>2 DEF AskedInv
    <3> QED
      BY <3>1
  <2> QED
    BY <1>2, <2>1, <2>2
<1>4. ASSUME NEW i \in DOMAIN up', NEW j \in DOMAIN up', up'[i].type = "chat", up'[j].type = "chat",
             up'[i].turn = up'[j].turn
      PROVE  i = j
  <2>1. i + 1 = j + 1 /\ i \in Nat /\ j \in Nat
    BY <1>2, <1>4 DEF AskedInv
  <2> QED
    BY <2>1
<1>5. type = "chat" => Head(up).turn \in Turns /\ stage[Head(up).turn] = "asked"
  BY <1>1, <1>2 DEF AskedInv, Asked
<1> QED
  BY <1>2, <1>3, <1>4, <1>5

LEMMA ReceiveChatHolds == ASSUME TypeOK, LockParts, ReceiveChat PROVE LockParts'
<1>0. WiresInv /\ AskedInv /\ HandlerInv /\ FollowedInv /\ PanelInv
  BY DEF LockParts
<1> DEFINE t == Head(up).turn
           e == Envelope("error", t, <<>>)
<1>1. /\ Receive("chat") /\ serving = "looping"
      /\ UNCHANGED <<active, activeNow, queue, subscribed, pump, posted, reading, conn, busy, streamReq, slips>>
  BY DEF ReceiveChat, Receive
<1>2. /\ up' \in Seq(Asked) /\ t \in Turns /\ stage[t] = "asked"
      /\ \A i \in DOMAIN up' : up'[i].type = "chat" => stage[up'[i].turn] = "asked" /\ up'[i].turn # t
      /\ \A i, j \in DOMAIN up' : up'[i].type = "chat" /\ up'[j].type = "chat" /\ up'[i].turn = up'[j].turn => i = j
  BY <1>0, <1>1, ReceivedRest
<1>3. e \in Wired /\ e.type = "error"
  BY <1>2, Envelopes, NoPieces DEF Envelope
<1>4. \/ /\ stage' = [stage EXCEPT ![t] = "starting"] /\ serving' = "starting" /\ handling' = t /\ down' = down
      \/ /\ stage' = [stage EXCEPT ![t] = "refused"] /\ down' = Append(down, e)
         /\ UNCHANGED <<serving, handling>>
  BY DEF ReceiveChat
<1> HIDE DEF t, e
<1>5. /\ \A s \in Turns \ {t} : stage'[s] = stage[s]
      /\ stage'[t] \in {"starting", "refused"}
  BY <1>2, <1>4 DEF TypeOK
<1>6. conn = "online" /\ handling = None /\ t # None
  <2>1. conn = "online" /\ handling = None
    BY <1>0, <1>1 DEF HandlerInv, TypeOK
  <2>2. t # None
    BY <1>2, NamesAssumption
  <2> QED
    BY <2>1, <2>2
<1>7. WiresInv'
  <2>1. down \in Seq(Wired) /\ Append(down, e) \in Seq(Wired)
    BY <1>0, <1>3, Put DEF WiresInv
  <2>2. down' \in Seq(Wired)
    BY <1>4, <2>1
  <2> QED
    BY <1>0, <1>1, <1>2, <1>6, <2>2 DEF WiresInv
<1>8. AskedInv'
  <2>1. \A i \in DOMAIN up' : up'[i].type = "chat" => up'[i].turn \in Turns
    BY <1>2 DEF Asked
  <2>2. active' # None => active' \notin posted' /\ stage'[active'] \in Underway
    BY <1>0, <1>1, <1>2, <1>5 DEF AskedInv, Underway, TypeOK
  <2>3. \A i \in DOMAIN up' : up'[i].type = "chat" => stage'[up'[i].turn] = "asked"
    BY <1>2, <1>5, <2>1
  <2> QED
    BY <1>2, <2>2, <2>3 DEF AskedInv
<1>9. ASSUME pump # None
      PROVE  /\ pump \in subscribed /\ pump # t /\ stage'[pump] = stage[pump] /\ stage[pump] \in Underway \cup {"over"}
             /\ EndComing(pump) => EndComing(pump)'
  BY <1>0, <1>1, <1>2, <1>5, <1>9 DEF HandlerInv, Underway, TypeOK, EndComing
<1>10. CASE serving' = "starting"
  <2>1. handling' = t /\ stage'[t] = "starting" /\ down' = down
    BY <1>1, <1>2, <1>4, <1>10 DEF TypeOK
  <2>2. HandlerInv'
    BY <1>1, <1>6, <1>9, <1>10, <2>1 DEF HandlerInv
  <2>3. EndDue'
    BY <1>10 DEF EndDue
  <2>4. FollowedInv'
    BY <1>0, <2>1, <2>3, FollowedHeld
  <2>5. PanelInv'
    BY <1>0, <1>1, <2>3, PanelHeld DEF UnlockComing
  <2> QED
    BY <1>7, <1>8, <2>2, <2>4, <2>5 DEF LockParts
<1>11. CASE serving' # "starting"
  <2>1. down' = Append(down, e) /\ UNCHANGED <<serving, handling>>
    BY <1>4, <1>11
  <2>2. HandlerInv'
    BY <1>1, <1>6, <1>9, <2>1 DEF HandlerInv
  <2>3. FollowedInv'
    BY <1>0, <1>3, <2>1, FollowedPut DEF Opening, Unlocking
  <2>4. Has(down', Unlocking)
    BY <1>0, <1>3, <2>1, HasPut DEF WiresInv, Unlocking
  <2>5. PanelInv'
    BY <1>0, <1>1, <2>4, PanelHeld DEF UnlockComing
  <2> QED
    BY <1>7, <1>8, <2>2, <2>3, <2>5 DEF LockParts
<1> QED
  BY <1>10, <1>11

LEMMA ReceiveCancelHolds == ASSUME TypeOK, LockParts, ReceiveCancel PROVE LockParts'
<1>0. WiresInv /\ AskedInv /\ HandlerInv /\ FollowedInv /\ PanelInv
  BY DEF LockParts
<1>1. /\ Receive("cancel") /\ serving = "looping"
      /\ UNCHANGED <<serving, activeNow, handling, subscribed, pump, down, posted, reading, conn, busy, streamReq>>
  BY DEF ReceiveCancel, Receive
<1>2. /\ up' \in Seq(Asked)
      /\ \A i \in DOMAIN up' : up'[i].type = "chat" => stage[up'[i].turn] = "asked"
      /\ \A i, j \in DOMAIN up' : up'[i].type = "chat" /\ up'[j].type = "chat" /\ up'[i].turn = up'[j].turn => i = j
      /\ Has(up, {"chat"}) => Has(up', {"chat"})
  BY <1>0, <1>1, ReceivedRest
<1>3. /\ queue' \in [Turns -> Seq(Queued)] /\ slips \subseteq slips'
      /\ \A s \in Turns : \/ stage'[s] = stage[s] /\ queue'[s] = queue[s]
                          \/ /\ stage[s] \in Underway /\ stage'[s] \in Underway \cup {"over"}
                             /\ stage'[s] \in Underway \/ (s \in subscribed => Has(queue'[s], {"turn_end"}))
      /\ active' # None => active' = active /\ stage'[active] \in Underway
  <2>1. active # None => active \in Turns /\ active \notin posted
    BY <1>0 DEF AskedInv, TypeOK
  <2>2. CASE active # None /\ stage[active] = "streaming" /\ stage' = [stage EXCEPT ![active] = "saving"]
             /\ UNCHANGED <<active, queue, slips>>
    BY <1>0, <2>1, <2>2 DEF WiresInv, TypeOK, Underway
  <2>3. CASE active # None /\ stage[active] = "saving" /\ Over(active)
    <3>1. active' = None
      BY <2>1, <2>3 DEF Over
    <3> QED
      BY <1>0, <2>1, <2>3, <3>1, OverFacts DEF Underway
  <2>4. CASE active = None /\ UNCHANGED <<stage, active, queue, slips>>
    BY <1>0, <2>4 DEF WiresInv
  <2> QED
    BY <2>2, <2>3, <2>4 DEF ReceiveCancel
<1>4. conn = "online"
  BY <1>1 DEF TypeOK
<1>5. WiresInv'
  BY <1>0, <1>1, <1>2, <1>3, <1>4 DEF WiresInv
<1>6. AskedInv'
  <2>1. \A i \in DOMAIN up' : up'[i].type = "chat" => up'[i].turn \in Turns
    BY <1>2 DEF Asked
  <2>2. \A i \in DOMAIN up' : up'[i].type = "chat" => stage'[up'[i].turn] = "asked"
    BY <1>2, <1>3, <2>1 DEF Underway
  <2> QED
    BY <1>0, <1>1, <1>2, <1>3, <2>2 DEF AskedInv
<1>7. ASSUME NEW s \in subscribed
      PROVE  /\ stage[s] \in Underway \cup {"over"} => stage'[s] \in Underway \cup {"over"}
             /\ EndComing(s) => stage'[s] \in Underway \/ Has(queue'[s], {"turn_end"})
  <2>1. s \in Turns
    BY DEF TypeOK
  <2> QED
    BY <1>3, <2>1 DEF EndComing
<1>8. HandlerInv' /\ (EndDue => EndDue')
  BY <1>0, <1>1, <1>7, HandlerHeld
<1>9. FollowedInv'
  BY <1>0, <1>1, <1>8, FollowedHeld
<1>10. UnlockComing => UnlockComing'
  BY <1>1, <1>2, <1>8 DEF UnlockComing, Has
<1>11. PanelInv'
  BY <1>0, <1>1, <1>3, <1>10, PanelHeld
<1> QED
  BY <1>5, <1>6, <1>8, <1>9, <1>11 DEF LockParts

----------------------------------------------------------------------------
(* The panel: what it takes from the wire *)

\* Taking a message leaves everything before the wire as it is.
LEMMA TakenHolds ==
    ASSUME TypeOK, LockParts, NEW type, Take(type),
           UNCHANGED <<stage, active, serving, activeNow, handling, queue, subscribed, pump, up, posted, reading, conn>>
    PROVE  /\ WiresInv' /\ AskedInv' /\ HandlerInv' /\ FollowedInv' /\ (EndDue => EndDue')
           /\ down # <<>> /\ down' = Tail(down) /\ Head(down) \in Wired /\ Head(down).type = type /\ conn = "online"
<1>0. WiresInv /\ AskedInv /\ HandlerInv /\ FollowedInv
  BY DEF LockParts
<1>1. down # <<>> /\ down' = Tail(down) /\ Head(down).type = type
  BY DEF Take
<1>2. Head(down) \in Wired /\ Tail(down) \in Seq(Wired)
  BY <1>0, <1>1, Taken DEF WiresInv
<1>3. conn = "online"
  BY <1>0, <1>1 DEF WiresInv
<1>4. WiresInv'
  BY <1>0, <1>1, <1>2, <1>3 DEF WiresInv
<1>5. AskedInv'
  BY <1>0, AskedHeld
<1>6. HandlerInv' /\ (EndDue => EndDue')
  <2>1. \A s \in subscribed : EndComing(s) => stage'[s] \in Underway \/ Has(queue'[s], {"turn_end"})
    BY DEF EndComing
  <2> QED
    BY <1>0, <2>1, HandlerHeld
<1>7. FollowedInv'
  BY <1>0, <1>1, <1>6, FollowedTaken
<1> QED
  BY <1>1, <1>2, <1>3, <1>4, <1>5, <1>6, <1>7

\* A stream opens at the panel: what will unlock it follows.
LEMMA OpenHolds == ASSUME TypeOK, LockParts, OnTurnStart \/ OnReplay PROVE LockParts'
<1>0. WiresInv /\ AskedInv /\ HandlerInv /\ FollowedInv /\ PanelInv
  BY DEF LockParts
<1>1. PICK type \in Opening : Take(type)
  BY DEF OnTurnStart, OnReplay, Opening
<1>2. /\ UNCHANGED <<stage, active, serving, activeNow, handling, queue, subscribed, pump, up, posted, reading, conn>>
      /\ busy' /\ streamReq' = Head(down).turn
  BY DEF OnTurnStart, OnReplay
<1>3. /\ WiresInv' /\ AskedInv' /\ HandlerInv' /\ FollowedInv' /\ (EndDue => EndDue')
      /\ down # <<>> /\ down' = Tail(down) /\ Head(down) \in Wired /\ Head(down).type = type /\ conn = "online"
  BY <1>1, <1>2, TakenHolds
<1>4. streamReq' # Sse
  BY <1>1, <1>2, <1>3, NamesAssumption, Told DEF Opening
<1>5. EndDue \/ Has(down', Unlocking)
  BY <1>0, <1>1, <1>3, OpenedIsFollowed
<1>6. UnlockComing'
  BY <1>3, <1>5 DEF UnlockComing
<1>7. PanelInv'
  BY <1>2, <1>3, <1>4, <1>6 DEF PanelInv
<1> QED
  BY <1>3, <1>7 DEF LockParts

LEMMA OnDeltaHolds == ASSUME TypeOK, LockParts, OnDelta PROVE LockParts'
<1>0. WiresInv /\ AskedInv /\ HandlerInv /\ FollowedInv /\ PanelInv
  BY DEF LockParts
<1>1. /\ Take("delta")
      /\ UNCHANGED <<stage, active, serving, activeNow, handling, queue, subscribed, pump, up, posted, reading, conn,
                     busy, streamReq, slips>>
  BY DEF OnDelta, appendDelta
<1>2. /\ WiresInv' /\ AskedInv' /\ HandlerInv' /\ FollowedInv' /\ (EndDue => EndDue')
      /\ down # <<>> /\ down' = Tail(down) /\ Head(down).type = "delta"
  BY <1>1, TakenHolds
<1>3. UnlockComing => UnlockComing'
  BY <1>0, <1>1, <1>2, ComingTaken DEF Unlocking
<1>4. PanelInv'
  BY <1>0, <1>1, <1>3, PanelHeld
<1> QED
  BY <1>2, <1>4 DEF LockParts

LEMMA OnReadyHolds == ASSUME TypeOK, LockParts, OnReady PROVE LockParts'
<1>0. WiresInv /\ AskedInv /\ HandlerInv /\ FollowedInv /\ PanelInv
  BY DEF LockParts
<1>1. /\ Take("ready") /\ slips \subseteq slips'
      /\ UNCHANGED <<stage, active, serving, activeNow, handling, queue, subscribed, pump, up, posted, reading, conn>>
  BY DEF OnReady
<1>2. /\ WiresInv' /\ AskedInv' /\ HandlerInv' /\ FollowedInv' /\ (EndDue => EndDue')
      /\ down # <<>> /\ down' = Tail(down) /\ Head(down).type = "ready"
  BY <1>1, TakenHolds
<1>3. CASE EndMissed
  <2>1. ~busy' /\ streamReq' = None
    BY <1>3 DEF OnReady, finalizeStream
  <2>2. PanelInv'
    BY <2>1, NamesAssumption, PanelUnlocked
  <2> QED
    BY <1>2, <2>2 DEF LockParts
<1>4. CASE ~EndMissed
  <2>1. UNCHANGED <<busy, streamReq>>
    BY <1>4 DEF OnReady
  <2>2. streamReq # None => Head(down).turn # None
    BY <1>4 DEF EndMissed
  <2>3. UnlockComing => UnlockComing'
    BY <1>0, <1>1, <1>2, <2>1, <2>2, ComingTaken DEF Unlocking
  <2>4. PanelInv'
    BY <1>0, <1>1, <2>1, <2>3, PanelHeld
  <2> QED
    BY <1>2, <2>4 DEF LockParts
<1> QED
  BY <1>3, <1>4

LEMMA OnEndHolds == ASSUME TypeOK, LockParts, OnTurnEnd \/ OnError PROVE LockParts'
<1>0. PanelInv
  BY DEF LockParts
<1>1. PICK type \in Unlocking : Take(type)
  BY DEF OnTurnEnd, OnError, Unlocking
<1>2. /\ UNCHANGED <<stage, active, serving, activeNow, handling, queue, subscribed, pump, up, posted, reading, conn>>
      /\ ~busy' /\ streamReq' \in {None, streamReq} /\ slips \subseteq slips'
  BY DEF OnTurnEnd, OnError, Finish, finalizeStream
<1>3. WiresInv' /\ AskedInv' /\ HandlerInv' /\ FollowedInv'
  BY <1>1, <1>2, TakenHolds
<1>4. streamReq' = Sse /\ "broken" \notin slips' => reading' # {}
  BY <1>0, <1>2, NamesAssumption DEF PanelInv
<1>5. PanelInv'
  BY <1>2, <1>4, PanelUnlocked
<1> QED
  BY <1>3, <1>5 DEF LockParts

----------------------------------------------------------------------------
(* The panel: what the candidate, the network and React do *)

\* Where the wires stay as they are, and the handler with them.
LEMMA BehindHolds ==
    ASSUME TypeOK, LockParts, UNCHANGED <<serving, handling, queue, subscribed, pump, down, conn>>,
           \A s \in subscribed : stage'[s] = stage[s],
           serving = "starting" => stage'[handling] = stage[handling]
    PROVE  HandlerInv' /\ FollowedInv' /\ (EndDue => EndDue')
<1>0. HandlerInv /\ FollowedInv
  BY DEF LockParts
<1>1. \A s \in subscribed : EndComing(s) => stage'[s] \in Underway \/ Has(queue'[s], {"turn_end"})
  BY DEF EndComing
<1>2. HandlerInv' /\ (EndDue => EndDue')
  BY <1>0, <1>1, HandlerHeld
<1> QED
  BY <1>0, <1>2, FollowedHeld

LEMMA OnReplyHolds == ASSUME TypeOK, LockParts, NEW t \in Turns, OnReply(t) PROVE LockParts'
<1>0. WiresInv /\ AskedInv /\ HandlerInv /\ FollowedInv /\ PanelInv
  BY DEF LockParts
<1>1. UNCHANGED <<stage, active, serving, activeNow, handling, queue, subscribed, pump, up, down, posted, conn>>
  BY DEF OnReply
<1>2. CASE Head(reply[t]).type = "delta"
  <2>1. UNCHANGED lockVars /\ slips \subseteq slips'
    BY <1>2 DEF OnReply, appendDelta, lockVars
  <2> QED
    BY <1>0, <2>1, StillHolds DEF LockParts
<1>3. CASE Head(reply[t]).type # "delta"
  <2>1. ~busy' /\ streamReq' = None
    BY <1>3 DEF OnReply, Finish, finalizeStream
  <2>2. PanelInv'
    BY <2>1, NamesAssumption, PanelUnlocked
  <2>3. HandlerInv' /\ FollowedInv'
    BY <1>1, BehindHolds
  <2>4. WiresInv' /\ AskedInv'
    BY <1>0, <1>1 DEF WiresInv, AskedInv
  <2> QED
    BY <2>2, <2>3, <2>4 DEF LockParts
<1> QED
  BY <1>2, <1>3

\* A question is asked: its turn was idle until now.
LEMMA IdleFacts ==
    ASSUME TypeOK, LockParts, NEW t \in Turns, stage[t] = "idle"
    PROVE  /\ t # active /\ (serving = "starting" => handling # t)
           /\ \A i \in DOMAIN up : up[i].type = "chat" => up[i].turn # t
BY NamesAssumption DEF LockParts, AskedInv, HandlerInv, Underway

LEMMA SendHolds == ASSUME TypeOK, LockParts, NEW t \in Turns, Send(t) PROVE LockParts'
<1>0. WiresInv /\ AskedInv /\ HandlerInv /\ FollowedInv /\ PanelInv
  BY DEF LockParts
<1> DEFINE e == Envelope("chat", t, <<>>)
<1>1. /\ stage[t] = "idle" /\ stage' = [stage EXCEPT ![t] = "asked"] /\ conn = "online" /\ up' = Append(up, e)
      /\ UNCHANGED <<active, serving, activeNow, handling, queue, subscribed, pump, down, posted, reading, conn,
                     streamReq, slips>>
  BY DEF Send, Sendable
<1>2. e \in Asked /\ e.type = "chat" /\ e.turn = t
  BY Envelopes, NoPieces DEF Envelope
<1> HIDE DEF e
<1>3. stage'[t] = "asked" /\ \A s \in Turns \ {t} : stage'[s] = stage[s]
  BY <1>1 DEF TypeOK
<1>4. t # active /\ (serving = "starting" => handling # t) /\ \A i \in DOMAIN up : up[i].type = "chat" => up[i].turn # t
  BY <1>1, IdleFacts
<1>5. /\ up' \in Seq(Asked) /\ \A i \in DOMAIN up : up'[i] = up[i] /\ i \in DOMAIN up'
      /\ Len(up) + 1 \in DOMAIN up' /\ up'[Len(up) + 1] = e
      /\ \A i \in DOMAIN up' : i \in DOMAIN up \/ i = Len(up) + 1
  BY <1>0, <1>1, <1>2, Put DEF WiresInv
<1>6. WiresInv'
  BY <1>0, <1>1, <1>5 DEF WiresInv
<1>7. AskedInv'
  <2>1. \A i \in DOMAIN up : up[i].type = "chat" => up[i].turn \in Turns /\ up[i].turn # t /\ stage[up[i].turn] = "asked"
    BY <1>0, <1>4 DEF WiresInv, AskedInv, Asked
  <2>2. \A i \in DOMAIN up' : up'[i].type = "chat" => stage'[up'[i].turn] = "asked"
    BY <1>2, <1>3, <1>5, <2>1
  <2>3. \A i, j \in DOMAIN up' : up'[i].type = "chat" /\ up'[j].type = "chat" /\ up'[i].turn = up'[j].turn => i = j
    BY <1>0, <1>2, <1>5, <2>1 DEF AskedInv
  <2>4. active' # None => active' \notin posted' /\ stage'[active'] \in Underway
    BY <1>0, <1>1, <1>3, <1>4 DEF AskedInv, TypeOK
  <2> QED
    BY <2>2, <2>3, <2>4 DEF AskedInv
<1>8. HandlerInv' /\ FollowedInv' /\ (EndDue => EndDue')
  <2>2. ASSUME NEW s \in subscribed
        PROVE  /\ stage[s] \in Underway \cup {"over"} => stage'[s] \in Underway \cup {"over"}
               /\ EndComing(s) => stage'[s] \in Underway \/ Has(queue'[s], {"turn_end"})
    BY <1>1, <1>3 DEF TypeOK, Underway, EndComing
  <2>3. serving = "starting" => stage'[handling] = stage[handling]
    BY <1>0, <1>3, <1>4 DEF HandlerInv, TypeOK
  <2>4. HandlerInv' /\ (EndDue => EndDue')
    BY <1>0, <1>1, <2>2, <2>3, HandlerHeld
  <2> QED
    BY <1>0, <1>1, <2>4, FollowedHeld
<1>9. Has(up', {"chat"})
  BY <1>2, <1>5 DEF Has
<1>10. PanelInv'
  BY <1>0, <1>1, <1>9 DEF PanelInv, UnlockComing
<1> QED
  BY <1>6, <1>7, <1>8, <1>10 DEF LockParts

LEMMA PostHolds == ASSUME TypeOK, LockParts, NEW t \in Turns, Post(t) PROVE LockParts'
<1>0. WiresInv /\ AskedInv /\ HandlerInv /\ FollowedInv /\ PanelInv
  BY DEF LockParts
<1>1. /\ stage[t] = "idle" /\ stage' = [stage EXCEPT ![t] = "starting"] /\ streamReq' = Sse
      /\ posted' = posted \cup {t} /\ reading' = reading \cup {t}
      /\ UNCHANGED <<active, serving, activeNow, handling, queue, subscribed, pump, up, down, conn>>
  BY DEF Post, Sendable
<1>3. stage'[t] = "starting" /\ \A s \in Turns \ {t} : stage'[s] = stage[s]
  BY <1>1 DEF TypeOK
<1>4. t # active /\ (serving = "starting" => handling # t) /\ \A i \in DOMAIN up : up[i].type = "chat" => up[i].turn # t
  BY <1>1, IdleFacts
<1>6. WiresInv'
  BY <1>0, <1>1 DEF WiresInv
<1>7. AskedInv'
  <2>1. \A i \in DOMAIN up : up[i].type = "chat" => up[i].turn \in Turns /\ up[i].turn # t /\ stage[up[i].turn] = "asked"
    BY <1>0, <1>4 DEF WiresInv, AskedInv, Asked
  <2>2. active' # None => active' \notin posted' /\ stage'[active'] \in Underway
    BY <1>0, <1>1, <1>3, <1>4 DEF AskedInv, TypeOK
  <2> QED
    BY <1>0, <1>1, <1>3, <2>1, <2>2 DEF AskedInv
<1>8. HandlerInv' /\ FollowedInv'
  <2>2. ASSUME NEW s \in subscribed
        PROVE  /\ stage[s] \in Underway \cup {"over"} => stage'[s] \in Underway \cup {"over"}
               /\ EndComing(s) => stage'[s] \in Underway \/ Has(queue'[s], {"turn_end"})
    BY <1>1, <1>3 DEF TypeOK, Underway, EndComing
  <2>3. serving = "starting" => stage'[handling] = stage[handling]
    BY <1>0, <1>3, <1>4 DEF HandlerInv, TypeOK
  <2>4. HandlerInv' /\ (EndDue => EndDue')
    BY <1>0, <1>1, <2>2, <2>3, HandlerHeld
  <2> QED
    BY <1>0, <1>1, <2>4, FollowedHeld
<1>10. PanelInv'
  BY <1>1 DEF PanelInv, Locking
<1> QED
  BY <1>6, <1>7, <1>8, <1>10 DEF LockParts

\* The wires and the handler of a connection that is gone.
LEMMA OfflineHolds ==
    ASSUME LockParts, Offline, UNCHANGED <<active, posted>>, active # None => stage'[active] = stage[active]
    PROVE  WiresInv' /\ AskedInv' /\ HandlerInv' /\ FollowedInv'
<1>1. /\ serving' = "none" /\ handling' = None /\ pump' = None /\ up' = <<>> /\ down' = <<>>
      /\ queue' = [t \in Turns |-> <<>>]
  BY DEF Offline
<1>2. WiresInv'
  BY <1>1 DEF WiresInv
<1>3. AskedInv'
  BY <1>1 DEF LockParts, AskedInv
<1>4. HandlerInv'
  BY <1>1 DEF HandlerInv
<1>5. FollowedInv'
  BY <1>1 DEF FollowedInv
<1> QED
  BY <1>2, <1>3, <1>4, <1>5

LEMMA OpenConnHolds == ASSUME TypeOK, LockParts, Open PROVE LockParts'
<1>0. WiresInv /\ AskedInv /\ HandlerInv /\ FollowedInv /\ PanelInv
  BY DEF LockParts
<1>1. /\ conn = "connecting" /\ serving = "none" /\ conn' = "online" /\ serving' = "accepted"
      /\ UNCHANGED <<stage, active, handling, queue, subscribed, pump, up, down, posted, reading, busy, streamReq, slips>>
  BY DEF Open
<1>2. handling = None /\ pump = None /\ down = <<>>
  BY <1>0, <1>1 DEF HandlerInv, WiresInv
<1>3. WiresInv' /\ AskedInv'
  BY <1>0, <1>1 DEF WiresInv, AskedInv
<1>4. HandlerInv'
  BY <1>1, <1>2 DEF HandlerInv
<1>5. FollowedInv'
  BY <1>1, <1>2 DEF FollowedInv
<1>6. PanelInv'
  BY <1>0, <1>1 DEF PanelInv, UnlockComing
<1> QED
  BY <1>3, <1>4, <1>5, <1>6 DEF LockParts

LEMMA CloseHolds == ASSUME TypeOK, LockParts, Close PROVE LockParts'
<1>0. PanelInv
  BY DEF LockParts
<1>1. /\ Offline /\ conn' \in {"fallback", "connecting"} /\ slips \subseteq slips'
      /\ busy /\ streamReq = None => "lost" \in slips'
      /\ busy /\ streamReq # Sse /\ conn' = "fallback" => "fallen" \in slips'
      /\ UNCHANGED <<stage, active, posted, reading, busy, streamReq>>
  BY DEF Close, Slip
<1>2. WiresInv' /\ AskedInv' /\ HandlerInv' /\ FollowedInv'
  BY <1>1, OfflineHolds
<1>3. PanelInv'
  BY <1>0, <1>1 DEF PanelInv, Locking
<1> QED
  BY <1>2, <1>3 DEF LockParts

LEMMA ReloadHolds == ASSUME TypeOK, LockParts, Reload PROVE LockParts'
<1>1. /\ Offline /\ ~busy' /\ streamReq' = None /\ UNCHANGED <<active, posted>>
      /\ active # None => stage'[active] = stage[active]
  BY DEF Reload, LockParts, AskedInv, TypeOK
<1>2. WiresInv' /\ AskedInv' /\ HandlerInv' /\ FollowedInv'
  BY <1>1, OfflineHolds
<1>3. PanelInv'
  BY <1>1, NamesAssumption, PanelUnlocked
<1> QED
  BY <1>2, <1>3 DEF LockParts

LEMMA CancelHolds == ASSUME TypeOK, LockParts, Cancel PROVE LockParts'
<1>0. WiresInv /\ AskedInv /\ HandlerInv /\ FollowedInv /\ PanelInv
  BY DEF LockParts
<1> DEFINE e == Envelope("cancel", None, <<>>)
<1>1. /\ conn = "online" /\ up' = Append(up, e)
      /\ UNCHANGED <<stage, active, serving, activeNow, handling, queue, subscribed, pump, down, posted, reading, conn,
                     busy, streamReq, slips>>
  BY DEF Cancel, Stoppable
<1>2. e \in Asked /\ e.type = "cancel"
  BY NoPieces DEF Envelope, Asked
<1> HIDE DEF e
<1>3. /\ up' \in Seq(Asked) /\ \A i \in DOMAIN up' : up'[i].type = "chat" => i \in DOMAIN up /\ up'[i] = up[i]
      /\ \A i \in DOMAIN up : i \in DOMAIN up' /\ up'[i] = up[i]
  BY <1>0, <1>1, <1>2, Put DEF WiresInv
<1>4. WiresInv'
  BY <1>0, <1>1, <1>3 DEF WiresInv
<1>5. AskedInv'
  BY <1>0, <1>1, <1>3 DEF AskedInv
<1>6. HandlerInv' /\ FollowedInv' /\ (EndDue => EndDue')
  BY <1>1, BehindHolds
<1>7. UnlockComing => UnlockComing'
  BY <1>1, <1>3, <1>6 DEF UnlockComing, Has
<1>8. PanelInv'
  BY <1>0, <1>1, <1>7, PanelHeld
<1> QED
  BY <1>4, <1>5, <1>6, <1>8 DEF LockParts

\* The turn of a POST is neither the registered one nor one of the handler's.
LEMMA BreakPostHolds == ASSUME TypeOK, LockParts, ApartInv, NEW t \in Turns, BreakPost(t) PROVE LockParts'
<1>0. WiresInv /\ AskedInv /\ HandlerInv /\ FollowedInv
  BY DEF LockParts
<1>1. /\ t \in posted /\ \A s \in Turns \ {t} : stage'[s] = stage[s]
      /\ UNCHANGED <<active, serving, activeNow, handling, queue, subscribed, pump, up, down, posted, conn>>
  BY DEF BreakPost, TypeOK
<1>2. \A i \in DOMAIN up : up[i].type = "chat" => up[i].turn \in Turns /\ up[i].turn # t
  BY <1>0, <1>1 DEF WiresInv, AskedInv, Asked, ApartInv
<1>3. WiresInv' /\ AskedInv'
  <2>1. active # None => active \in Turns \ {t}
    BY <1>0, <1>1 DEF AskedInv, TypeOK
  <2>2. WiresInv'
    BY <1>0, <1>1 DEF WiresInv
  <2>3. \A i \in DOMAIN up' : up'[i].type = "chat" => stage'[up'[i].turn] = "asked"
    BY <1>0, <1>1, <1>2 DEF AskedInv
  <2>4. posted' = posted
    BY <1>1
  <2> QED
    BY <1>0, <1>1, <2>1, <2>2, <2>3, <2>4 DEF AskedInv
<1>4. /\ \A s \in subscribed : stage'[s] = stage[s]
      /\ serving = "starting" => stage'[handling] = stage[handling]
  BY <1>0, <1>1 DEF ApartInv, HandlerInv, TypeOK
<1>5. HandlerInv' /\ FollowedInv'
  BY <1>1, <1>4, BehindHolds
<1>6. PanelInv'
  BY DEF BreakPost, PanelInv, Locking
<1> QED
  BY <1>3, <1>5, <1>6 DEF LockParts

\* An answer of a POST that is stored twice.
LEMMA SaveAgainHolds == ASSUME TypeOK, LockParts, ApartInv, NEW t \in Turns, SaveAgain(t) PROVE LockParts'
<1>0. WiresInv /\ AskedInv /\ HandlerInv /\ FollowedInv /\ PanelInv
  BY DEF LockParts
<1>1. /\ stage[t] = "resaving" /\ stage'[t] = "over" /\ \A s \in Turns \ {t} : stage'[s] = stage[s]
      /\ slips \subseteq slips'
      /\ UNCHANGED <<active, serving, activeNow, handling, queue, subscribed, pump, up, down, posted, reading, conn,
                     busy, streamReq>>
  BY DEF SaveAgain, TypeOK
<1>2. WiresInv' /\ AskedInv'
  <2>1. active # None => active \in Turns \ {t}
    BY <1>0, <1>1 DEF AskedInv, TypeOK, Underway
  <2>2. WiresInv'
    BY <1>0, <1>1 DEF WiresInv
  <2>3. \A i \in DOMAIN up : up[i].type = "chat" => up[i].turn \in Turns \ {t}
    BY <1>0, <1>1 DEF WiresInv, AskedInv, Asked
  <2>4. \A i \in DOMAIN up' : up'[i].type = "chat" => stage'[up'[i].turn] = "asked"
    BY <1>0, <1>1, <2>3 DEF AskedInv
  <2>5. posted' = posted
    BY <1>1
  <2> QED
    BY <1>0, <1>1, <2>1, <2>2, <2>4, <2>5 DEF AskedInv
<1>3. ASSUME NEW s \in subscribed
      PROVE  /\ stage[s] \in Underway \cup {"over"} => stage'[s] \in Underway \cup {"over"}
             /\ EndComing(s) => stage'[s] \in Underway \/ Has(queue'[s], {"turn_end"})
  BY <1>1 DEF TypeOK, Underway, EndComing
<1>4. serving = "starting" => stage'[handling] = stage[handling]
  BY <1>0, <1>1 DEF HandlerInv, TypeOK
<1>5. HandlerInv' /\ (EndDue => EndDue')
  BY <1>0, <1>1, <1>3, <1>4, HandlerHeld
<1>6. FollowedInv'
  BY <1>0, <1>1, <1>5, FollowedHeld
<1>7. PanelInv'
  BY <1>0, <1>1, <1>5, PanelHeld, ComingHeld
<1> QED
  BY <1>2, <1>5, <1>6, <1>7 DEF LockParts

\* Everything else leaves the lock alone.
LEMMA StillSteps ==
    ASSUME LockParts,
           \/ Render \/ Catching
           \/ \E t \in Turns : Save(t)
           \/ \E p \in Problems : SwitchProblem(p)
    PROVE  LockParts'
<1>1. CASE Render \/ \E p \in Problems : SwitchProblem(p)
  <2>1. UNCHANGED lockVars /\ slips \subseteq slips'
    BY <1>1 DEF Render, SwitchProblem, lockVars
  <2> QED
    BY <2>1, StillHolds DEF LockParts
<1>2. ASSUME NEW i \in DOMAIN gets, ReadThread(i) \/ ShowThread(i) \/ LoseThread(i) PROVE LockParts'
  <2>1. UNCHANGED lockVars /\ slips \subseteq slips'
    BY <1>2 DEF ReadThread, ShowThread, LoseThread, lockVars
  <2> QED
    BY <2>1, StillHolds DEF LockParts
<1>3. ASSUME NEW t \in Turns, Save(t) PROVE LockParts'
  <2>1. UNCHANGED lockVars /\ slips \subseteq slips'
    BY <1>3 DEF Save, lockVars
  <2> QED
    BY <2>1, StillHolds DEF LockParts
<1> QED
  BY <1>1, <1>2, <1>3 DEF Catching

\* The turns of the two ways to ask stay apart.
LEMMA ApartStep == ASSUME TypeOK, LockParts, ApartInv, Next PROVE ApartInv'
<1>0. /\ None \notin Turns /\ posted \subseteq Turns /\ subscribed \subseteq Turns
      /\ \A t \in Turns : stage[t] \in Stages
      /\ (active # None => active \in Turns /\ active \notin posted /\ stage[active] \in Underway)
  BY NamesAssumption DEF LockParts, AskedInv, TypeOK
<1>1. ASSUME UNCHANGED <<stage, posted, subscribed, handling>> PROVE ApartInv'
  BY <1>1 DEF ApartInv
<1>2. ASSUME NEW t \in Turns, Turn(t) PROVE ApartInv'
  <2>1. /\ posted' = posted /\ handling' \in {handling, None}
        /\ subscribed' \subseteq subscribed \cup {t} /\ (t \in subscribed' => t \in subscribed \/ (handling = t /\ stage'[t] = "streaming"))
        /\ \A s \in Turns \ {t} : stage'[s] = stage[s]
        /\ (stage'[t] = stage[t] \/ stage'[t] \notin {"idle", "asked"})
    BY <1>2 DEF Turn, Register, Refuse, Delta, EndStream, Save, Settle, Over, SaveAgain, TypeOK
  <2> QED
    BY <1>0, <2>1 DEF ApartInv
<1>3. CASE Handler
  <2>1. CASE Ready \/ Replay \/ ReplayText \/ EndReplay \/ Pump \/ SwapPump
    BY <1>0, <2>1 DEF Ready, Replay, ReplayText, EndReplay, Resume, Pump, SwapPump, ApartInv, Underway
  <2>2. CASE ReceiveChat
    <3>1. up # <<>> /\ up \in Seq(Asked) /\ Head(up).type = "chat"
      BY <2>2 DEF ReceiveChat, Receive, LockParts, WiresInv
    <3>2. Head(up).turn \in Turns /\ stage[Head(up).turn] = "asked"
      BY <3>1, Taken DEF LockParts, AskedInv, Asked
    <3>3. PICK t \in Turns : t = Head(up).turn
      BY <3>2
    <3>4. /\ posted' = posted /\ subscribed' = subscribed /\ handling' \in {handling, t}
          /\ stage'[t] \notin {"idle", "asked"} /\ \A s \in Turns \ {t} : stage'[s] = stage[s]
      BY <2>2, <3>3 DEF ReceiveChat, TypeOK
    <3>5. t \notin posted
      BY <3>2, <3>3 DEF ApartInv
    <3> QED
      BY <1>0, <3>4, <3>5 DEF ApartInv
  <2>3. CASE ReceiveCancel
    <3>1. /\ UNCHANGED <<posted, subscribed, handling>>
          /\ \A s \in Turns : stage'[s] = stage[s] \/ stage'[s] \notin {"idle", "asked"}
      BY <2>3 DEF ReceiveCancel, Over, TypeOK
    <3> QED
      BY <1>0, <3>1 DEF ApartInv
  <2> QED
    BY <1>3, <2>1, <2>2, <2>3 DEF Handler
<1>4. CASE Messages
  BY <1>1, <1>4 DEF Messages, OnReady, OnTurnStart, OnReplay, OnDelta, OnTurnEnd, OnError
<1>5. CASE Catching \/ Render \/ Open \/ Cancel \/ \E p \in Problems : SwitchProblem(p)
  <2>1. ASSUME NEW i \in DOMAIN gets, ReadThread(i) \/ ShowThread(i) \/ LoseThread(i) PROVE ApartInv'
    BY <1>1, <2>1 DEF ReadThread, ShowThread, LoseThread
  <2>2. CASE Render \/ Open \/ Cancel \/ \E p \in Problems : SwitchProblem(p)
    BY <1>1, <2>2 DEF Render, Open, Cancel, SwitchProblem
  <2> QED
    BY <1>5, <2>1, <2>2 DEF Catching
<1>6. CASE Close \/ Reload
  <2>1. /\ posted' = posted /\ subscribed' = {} /\ handling' = None
        /\ \A s \in Turns : stage'[s] = stage[s] \/ stage'[s] \notin {"idle", "asked"}
    BY <1>6 DEF Close, Reload, Offline, Resaved, TypeOK
  <2> QED
    BY <1>0, <2>1 DEF ApartInv
<1>7. ASSUME NEW t \in Turns, OnReply(t) \/ BreakPost(t) PROVE ApartInv'
  <2>1. /\ UNCHANGED <<posted, subscribed, handling>>
        /\ \A s \in Turns : stage'[s] = stage[s] \/ stage'[s] \notin {"idle", "asked"}
    BY <1>7 DEF OnReply, BreakPost, Resaved, TypeOK
  <2> QED
    BY <1>0, <2>1 DEF ApartInv
<1>8. ASSUME NEW t \in Turns, Send(t) \/ Post(t) PROVE ApartInv'
  <2>1. /\ stage[t] = "idle" /\ stage'[t] # "idle" /\ UNCHANGED <<subscribed, handling>>
        /\ \A s \in Turns \ {t} : stage'[s] = stage[s]
        /\ posted' = posted \/ (posted' = posted \cup {t} /\ stage'[t] # "asked")
    BY <1>8 DEF Send, Post, Sendable, TypeOK
  <2>2. t \notin posted /\ t \notin subscribed
    BY <2>1 DEF ApartInv
  <2>3. handling # t
    BY <1>0, <2>1, <2>2 DEF LockParts, HandlerInv, TypeOK
  <2> QED
    BY <1>0, <2>1, <2>2, <2>3 DEF ApartInv
<1> QED
  BY <1>2, <1>3, <1>4, <1>5, <1>6, <1>7, <1>8 DEF Next

----------------------------------------------------------------------------
(* The theorem *)

LEMMA LockStep == LockInv /\ [Next]_vars => LockInv'
<1> SUFFICES ASSUME LockInv, [Next]_vars PROVE LockInv'
  OBVIOUS
<1>0. TypeOK /\ LockParts /\ ApartInv
  BY DEF LockInv, LockParts
<1>1. TypeOK'
  BY TypeStep
<1>2. LockParts'
  <2>1. CASE UNCHANGED vars
    <3>1. UNCHANGED lockVars /\ slips \subseteq slips'
      BY <2>1 DEF vars, lockVars
    <3> QED
      BY <1>0, <3>1, StillHolds DEF LockParts
  <2>2. ASSUME NEW t \in Turns, Turn(t) \/ OnReply(t) \/ BreakPost(t) \/ Send(t) \/ Post(t) PROVE LockParts'
    <3>1. CASE Turn(t)
      BY <1>0, <3>1, RegisterHolds, RefuseHolds, GoesOnHolds, StillSteps, SaveAgainHolds DEF Turn
    <3>2. CASE OnReply(t) \/ BreakPost(t) \/ Send(t) \/ Post(t)
      BY <1>0, <3>2, OnReplyHolds, BreakPostHolds, SendHolds, PostHolds
    <3> QED
      BY <2>2, <3>1, <3>2
  <2>3. CASE Handler
    BY <1>0, <2>3, ReadyHolds, ReplayHolds, ReplayTextHolds, EndReplayHolds, PumpHolds, ReceiveChatHolds,
       SwapPumpHolds, ReceiveCancelHolds DEF Handler
  <2>4. CASE Messages
    BY <1>0, <2>4, OnReadyHolds, OpenHolds, OnDeltaHolds, OnEndHolds DEF Messages
  <2>5. CASE Catching \/ Render \/ \E p \in Problems : SwitchProblem(p)
    BY <1>0, <2>5, StillSteps
  <2>6. CASE Open \/ Close \/ Reload \/ Cancel
    BY <1>0, <2>6, OpenConnHolds, CloseHolds, ReloadHolds, CancelHolds
  <2> QED
    BY <2>1, <2>2, <2>3, <2>4, <2>5, <2>6 DEF Next
<1>3. ApartInv'
  <2>1. CASE UNCHANGED vars
    BY <1>0, <2>1 DEF vars, ApartInv
  <2>2. CASE Next
    BY <1>0, <2>2, ApartStep
  <2> QED
    BY <2>1, <2>2
<1> QED
  BY <1>1, <1>2, <1>3 DEF LockInv, LockParts

LEMMA LockInit == Init => LockInv
<1> SUFFICES ASSUME Init PROVE LockInv
  OBVIOUS
<1>1. WiresInv /\ AskedInv /\ ApartInv /\ HandlerInv /\ FollowedInv
  BY DEF Init, WiresInv, AskedInv, ApartInv, HandlerInv, FollowedInv
<1>2. PanelInv
  BY NamesAssumption DEF Init, PanelInv
<1> QED
  BY <1>1, <1>2, TypeInit DEF LockInv

LEMMA LockShows == LockInv => LockExplained
<1> SUFFICES ASSUME LockInv, AtRest, busy, slips \cap Locking = {} PROVE FALSE
  BY DEF LockExplained
<1>1. up = <<>> /\ down = <<>> /\ reading = {} /\ conn # "connecting" /\ serving \in {"none", "looping"}
  BY DEF AtRest
<1>2. streamReq # Sse /\ conn = "online" /\ UnlockComing
  BY <1>1 DEF LockInv, PanelInv, Locking
<1>3. ~EndDue
  <2>1. ASSUME pump # None PROVE ~EndComing(pump)
    <3>1. queue[pump] = <<>> /\ stage[pump] \in {"idle", "asked", "refused", "over"}
      BY <2>1 DEF AtRest, LockInv, TypeOK
    <3> QED
      BY <3>1 DEF EndComing, Has, Underway
  <2> QED
    BY <1>1, <2>1 DEF EndDue
<1> QED
  BY <1>1, <1>2, <1>3 DEF UnlockComing, Has

\* The inductive invariant: whatever is replayed, refused or cancelled, and whatever breaks
\* but in the four ways of Locking, a locked panel (busy, AiChat.tsx) has what unlocks it on
\* its way.
THEOREM LockKept == Spec => []LockInv
<1>1. Init => LockInv
  BY LockInit
<1>2. LockInv /\ [Next]_vars => LockInv'
  BY LockStep
<1> QED
  BY <1>1, <1>2, PTL DEF Spec

\* For any number of questions, problems, pieces and failures: at rest the panel is locked
\* only if the socket broke before turn_start, was given up during a turn, "ready" named a
\* turn that was over before its replay (ai_ws.py), or the POST of a question was rejected,
\* which nobody in send catches (AiChat.tsx, lib/api.ts).
THEOREM LockHasReason == Spec => []LockExplained
BY LockKept, LockShows, PTL

----------------------------------------------------------------------------
(* Texts in order *)

\* The first n pieces of turn t.
Upto(t, n) == [k \in 1..n |-> Piece(t, k)]

\* What TextInOrder says of one text.
InOrder(x) ==
    /\ \A j \in DOMAIN x : x[j][1] = x[1][1]
    /\ (x # <<>> => x[1][2] \in {0, 1})
    /\ \A j \in Breaks(x) : x[j][2] <= x[j - 1][2]
    /\ \/ Breaks(x) = {}
       \/ "overlapped" \in slips /\ \E b : Breaks(x) = {b}

\* The last piece of x is the n-th of t.
EndsAt(t, x, n) == IF x = <<>> THEN n = 0 ELSE x[Len(x)] = Piece(t, n)

\* A panel that has x goes on well with the pieces of t after the n-th: x ends there, or
\* it is what a replay told, which went further while the deltas were queued, or there
\* are none.
Meets(t, x, n) ==
    \/ InOrder(x) /\ EndsAt(t, x, n)
    \/ InOrder(x) /\ t \in noticed /\ n = length[t]
    \/ "overlapped" \in slips /\ \E l \in Nat : n <= l /\ x = Upto(t, l)

LEMMA PieceIs == ASSUME NEW t, NEW k PROVE Piece(t, k)[1] = t /\ Piece(t, k)[2] = k
BY DEF Piece

LEMMA UptoIs ==
    ASSUME NEW t \in Turns, NEW n \in Nat
    PROVE  /\ Upto(t, n) \in Pieces /\ Len(Upto(t, n)) = n
           /\ Breaks(Upto(t, n)) = {}
           /\ InOrder(Upto(t, n)) /\ EndsAt(t, Upto(t, n), n)
<1> DEFINE x == Upto(t, n)
<1>1. \A k \in 1..n : Piece(t, k) \in Turns \X Nat
  BY DEF Piece
<1>2. x \in Pieces /\ Len(x) = n /\ DOMAIN x = 1..n
  BY <1>1 DEF Upto, Pieces
<1>3. \A k \in 1..n : x[k] = Piece(t, k) /\ x[k][1] = t /\ x[k][2] = k
  BY PieceIs DEF Upto
<1> HIDE DEF x
<1>4. Breaks(x) = {}
  <2>1. ASSUME NEW j \in 2..Len(x) PROVE x[j][2] = x[j - 1][2] + 1
    <3>1. j \in 1..n /\ j - 1 \in 1..n
      BY <1>2, <2>1
    <3> QED
      BY <1>3, <3>1
  <2> QED
    BY <2>1 DEF Breaks
<1>5. InOrder(x)
  <2>1. \A j \in DOMAIN x : x[j][1] = x[1][1]
    <3> TAKE j \in DOMAIN x
    <3>1. j \in 1..n /\ 1 \in 1..n
      BY <1>2
    <3> QED
      BY <1>3, <3>1
  <2>2. x # <<>> => x[1][2] \in {0, 1}
    <3>1. x # <<>> => n # 0
      BY <1>2 DEF Pieces
    <3> QED
      BY <1>3, <3>1
  <2> QED
    BY <1>4, <2>1, <2>2 DEF InOrder
<1>6. EndsAt(t, x, n)
  <2>1. x = <<>> <=> n = 0
    BY <1>2 DEF Pieces
  <2> QED
    BY <1>2, <1>3, <2>1 DEF EndsAt
<1> QED
  BY <1>2, <1>4, <1>5, <1>6 DEF x

\* A piece more.
LEMMA OneMore ==
    ASSUME NEW x \in Pieces, NEW p \in Turns \X Nat
    PROVE  /\ x \o <<p>> \in Pieces /\ Len(x \o <<p>>) = Len(x) + 1 /\ Len(x) \in Nat
           /\ (x \o <<p>>)[Len(x) + 1] = p
           /\ \A j \in 1..Len(x) : (x \o <<p>>)[j] = x[j]
           /\ DOMAIN x = 1..Len(x) /\ DOMAIN (x \o <<p>>) = 1..(Len(x) + 1)
           /\ x \o <<p>> # <<>>
<1>1. x \in Seq(Turns \X Nat) /\ <<p>> \in Seq(Turns \X Nat) /\ Len(<<p>>) = 1 /\ <<p>>[1] = p
  BY DEF Pieces
<1> QED
  BY <1>1 DEF Pieces

\* The breaks of a longer text: those it had, and perhaps one where it goes on.
LEMMA MoreBreaks ==
    ASSUME NEW x \in Pieces, NEW p \in Turns \X Nat, x # <<>>
    PROVE  Breaks(x \o <<p>>) =
               Breaks(x) \cup (IF p[2] = x[Len(x)][2] + 1 THEN {} ELSE {Len(x) + 1})
<1> DEFINE y == x \o <<p>>
<1>1. /\ Len(y) = Len(x) + 1 /\ Len(x) \in Nat \ {0} /\ y[Len(x) + 1] = p
      /\ \A j \in 1..Len(x) : y[j] = x[j]
  BY OneMore DEF Pieces
<1> HIDE DEF y
<1>2. ASSUME NEW j \in 2..Len(x) PROVE y[j] = x[j] /\ y[j - 1] = x[j - 1]
  <2>1. j \in 1..Len(x) /\ j - 1 \in 1..Len(x)
    BY <1>1
  <2> QED
    BY <1>1, <2>1
<1>3. y[Len(x) + 1] = p /\ y[Len(x)] = x[Len(x)] /\ (Len(x) + 1) - 1 = Len(x)
  BY <1>1
<1>4. \A j : j \in 2..Len(y) <=> j \in 2..Len(x) \/ j = Len(x) + 1
  BY <1>1
<1>5. ASSUME NEW j \in 2..Len(x) PROVE j \in Breaks(y) <=> j \in Breaks(x)
  BY <1>2, <1>4 DEF Breaks
<1>6. Len(x) + 1 \in Breaks(y) <=> p[2] # x[Len(x)][2] + 1
  BY <1>3, <1>4 DEF Breaks
<1>7. Len(x) + 1 \notin 2..Len(x) /\ Breaks(x) \subseteq 2..Len(x) /\ Breaks(y) \subseteq 2..Len(y)
  BY <1>1 DEF Breaks
<1> QED
  BY <1>4, <1>5, <1>6, <1>7 DEF y

LEMMA MoreInOrder ==
    ASSUME NEW t \in Turns, NEW n \in Nat, NEW x \in Pieces, NEW k \in Nat,
           InOrder(x), EndsAt(t, x, n),
           \/ k = n + 1
           \/ "overlapped" \in slips /\ Breaks(x) = {} /\ x # <<>> /\ k <= n
    PROVE  InOrder(x \o <<Piece(t, k)>>) /\ EndsAt(t, x \o <<Piece(t, k)>>, k)
<1> DEFINE p == Piece(t, k)
           y == x \o <<p>>
<1>1. p \in Turns \X Nat /\ p[1] = t /\ p[2] = k
  BY DEF Piece
<1>2. /\ y \in Pieces /\ Len(y) = Len(x) + 1 /\ Len(x) \in Nat /\ y[Len(x) + 1] = p
      /\ \A j \in 1..Len(x) : y[j] = x[j]
      /\ DOMAIN x = 1..Len(x) /\ DOMAIN y = 1..(Len(x) + 1) /\ y # <<>>
  BY <1>1, OneMore
<1>b. x # <<>> => Breaks(y) = Breaks(x) \cup (IF p[2] = x[Len(x)][2] + 1 THEN {} ELSE {Len(x) + 1})
  BY <1>1, MoreBreaks
<1> HIDE DEF y, p
<1>3. EndsAt(t, y, k)
  BY <1>2 DEF EndsAt, p
<1>4. CASE x = <<>>
  <2>1. Len(x) = 0 /\ n = 0 /\ k = 1
    BY <1>4 DEF EndsAt
  <2>2. Breaks(y) = {} /\ (\A j \in DOMAIN y : j = 1) /\ y[1] = p
    BY <1>2, <2>1 DEF Breaks
  <2>3. InOrder(y)
    BY <1>1, <2>1, <2>2 DEF InOrder
  <2> QED
    BY <1>3, <2>3 DEF y, p
<1>5. CASE x # <<>>
  <2>1. Len(x) \in 1..Len(x) /\ 1 \in 1..Len(x) /\ x[Len(x)] = Piece(t, n)
    BY <1>2, <1>5 DEF EndsAt, Pieces
  <2>2. x[Len(x)][1] = t /\ x[Len(x)][2] = n
    BY <2>1, PieceIs
  <2>3. x[1][1] = t /\ y[1] = x[1] /\ x[1][2] \in {0, 1} /\ \A j \in 1..Len(x) : x[j][1] = t
    BY <1>2, <1>5, <2>1, <2>2 DEF InOrder
  <2>4. \A j \in DOMAIN y : y[j][1] = y[1][1]
    <3> TAKE j \in DOMAIN y
    <3>1. j \in 1..Len(x) \/ j = Len(x) + 1
      BY <1>2
    <3> QED
      BY <1>1, <1>2, <2>3, <3>1
  <2>5. \A j \in Breaks(x) : /\ j \in 2..Len(x) /\ j \in 1..Len(x) /\ j - 1 \in 1..Len(x)
                             /\ y[j][2] <= y[j - 1][2]
    <3> TAKE j \in Breaks(x)
    <3>1. j \in 2..Len(x) /\ j \in 1..Len(x) /\ j - 1 \in 1..Len(x)
      BY <1>2 DEF Breaks
    <3>2. x[j][2] <= x[j - 1][2]
      BY DEF InOrder
    <3> QED
      BY <1>2, <3>1, <3>2
  <2>6. CASE k = n + 1
    <3>1. Breaks(y) = Breaks(x)
      BY <1>1, <1>5, <1>b, <2>2, <2>6
    <3> QED
      BY <1>2, <1>3, <2>3, <2>4, <2>5, <3>1 DEF InOrder, y, p
  <2>7. CASE "overlapped" \in slips /\ Breaks(x) = {} /\ k <= n
    <3>1. Breaks(y) = {Len(x) + 1}
      BY <1>1, <1>5, <1>b, <2>2, <2>7
    <3>2. y[Len(x) + 1][2] <= y[(Len(x) + 1) - 1][2]
      <4>1. (Len(x) + 1) - 1 = Len(x)
        BY <1>2
      <4> QED
        BY <1>1, <1>2, <2>1, <2>2, <2>7, <4>1
    <3> QED
      BY <1>2, <1>3, <2>3, <2>4, <2>7, <3>1, <3>2 DEF InOrder, y, p
  <2> QED
    BY <1>5, <2>6, <2>7
<1> QED
  BY <1>4, <1>5

\* A panel that goes on well does so with the next piece.
LEMMA NextMeets ==
    ASSUME NEW t \in Turns, NEW n \in Nat, NEW x \in Pieces, Meets(t, x, n), n # length[t]
    PROVE  LET y == x \o <<Piece(t, n + 1)>>
           IN  y \in Pieces /\ InOrder(y) /\ Meets(t, y, n + 1)
<1> DEFINE y == x \o <<Piece(t, n + 1)>>
<1>1. y \in Pieces
  BY OneMore DEF Piece
<1>2. CASE InOrder(x) /\ EndsAt(t, x, n)
  <2>1. InOrder(y) /\ EndsAt(t, y, n + 1)
    BY <1>2, MoreInOrder
  <2> QED
    BY <1>1, <2>1 DEF Meets
<1>3. ASSUME "overlapped" \in slips, NEW l \in Nat, n <= l, x = Upto(t, l)
      PROVE  InOrder(y) /\ EndsAt(t, y, n + 1)
  <2>1. InOrder(x) /\ EndsAt(t, x, l) /\ Breaks(x) = {} /\ Len(x) = l
    BY <1>3, UptoIs
  <2>2. CASE l = n
    BY <2>1, <2>2, MoreInOrder
  <2>3. CASE l # n
    <3>1. x # <<>> /\ n + 1 <= l /\ n + 1 \in Nat
      BY <1>3, <2>1, <2>3
    <3> QED
      BY <1>3, <2>1, <3>1, MoreInOrder
  <2> QED
    BY <2>2, <2>3
<1> HIDE DEF y
<1>4. InOrder(y) /\ Meets(t, y, n + 1)
  BY <1>2, <1>3 DEF Meets, y
<1> QED
  BY <1>1, <1>4 DEF y

\* Texts stay in order, and go on well, as the ways to be led astray become more.
LEMMA OrderGrows ==
    ASSUME slips \subseteq slips', NEW x, InOrder(x) PROVE InOrder(x)'
BY DEF InOrder

\* A text with the notice at its end grows no more.
NoticesStay == noticed \subseteq noticed' /\ \A t \in noticed : length'[t] = length[t]

LEMMA MeetsGrows ==
    ASSUME slips \subseteq slips', NoticesStay, NEW t, NEW x, NEW n, Meets(t, x, n) PROVE Meets(t, x, n)'
BY OrderGrows DEF Meets, NoticesStay
----------------------------------------------------------------------------
(* What the panel will have heard of a turn *)

\* Of the texts A that the panel may have of turn t, taking the message e makes some of B.
Goes(t, e, A, B) ==
    IF e.turn = t /\ e.type \in Opening THEN <<>> \in B
    ELSE IF e.turn = t /\ e.type = "delta" THEN \A x \in A : x \o e.text \in B
    ELSE A \subseteq B

\* told[k]: what it may have when it has taken k of the messages under way.
Tells(t, told) ==
    /\ told \in [0..Len(down) -> SUBSET Pieces]
    /\ streamReq = t => streamText \in told[0]
    /\ \A k \in 1..Len(down) : Goes(t, down[k], told[k - 1], told[k])
    /\ \A k \in 0..Len(down) : \A x \in told[k] : InOrder(x)

\* The queue of t goes on after its n-th piece.
QueueFrom(t, n) ==
    /\ n <= length[t]
    /\ \/ Len(queue[t]) = length[t] - n
       \/ /\ Len(queue[t]) = length[t] - n + 1 /\ stage[t] = "over"
          /\ queue[t][length[t] - n + 1] = Envelope("turn_end", t, <<>>)
    /\ \A i \in 1..(length[t] - n) : queue[t][i] = Envelope("delta", t, <<Piece(t, n + i)>>)
QueueHas(t, n) == IF t \in subscribed THEN QueueFrom(t, n) ELSE queue[t] = <<>>

\* A panel that has taken all messages waits for the replay, or for the queue.
Waits(t, x, n) ==
    /\ serving = "replaying" /\ handling = t => x = <<>>
    /\ (serving \in {"replayed", "started"} /\ handling = t) \/ pump = t => Meets(t, x, n)

Heard(t, n, told) ==
    /\ Tells(t, told)
    /\ QueueHas(t, n)
    /\ \A x \in told[Len(down)] : Waits(t, x, n)
HeardInv == \A t \in Turns : \E n \in Nat : \E told : Heard(t, n, told)

LEMMA TellsStill ==
    ASSUME NEW t, NEW told, Tells(t, told), down' = down, slips \subseteq slips',
           streamReq' = t => streamReq = t /\ streamText' = streamText
    PROVE  Tells(t, told)'
<1>1. \A x : InOrder(x) => InOrder(x)'
  BY OrderGrows
<1>2. \A k \in 1..Len(down) : Goes(t, down[k], told[k - 1], told[k])'
  BY DEF Tells, Goes
<1> QED
  BY <1>1, <1>2 DEF Tells

LEMMA TellsTaken ==
    ASSUME WiresInv, NEW t, NEW told, Tells(t, told), down # <<>>, down' = Tail(down), slips \subseteq slips',
           streamReq' = t => streamText' \in told[1]
    PROVE  \E after : Tells(t, after)' /\ after[Len(down')] = told[Len(down)]
<1>0. PICK after : after = [k \in 0..Len(down') |-> told[k + 1]]
  OBVIOUS
<1>1. \A x : InOrder(x) => InOrder(x)'
  BY OrderGrows
<1>2. /\ down \in Seq(Wired) /\ Len(down) \in Nat \ {0} /\ Len(down') = Len(down) - 1
      /\ \A k \in 1..Len(down') : down'[k] = down[k + 1]
  BY DEF WiresInv
<1>3. after \in [0..Len(down') -> SUBSET Pieces] /\ \A k \in 0..Len(down') : after[k] = told[k + 1]
  BY <1>0, <1>2 DEF Tells
<1>4. ASSUME NEW k \in 1..Len(down') PROVE Goes(t, down'[k], after[k - 1], after[k])
  <2>1. /\ k + 1 \in 1..Len(down) /\ k - 1 \in 0..Len(down') /\ k \in 0..Len(down')
        /\ (k - 1) + 1 = k /\ (k + 1) - 1 = k
    BY <1>2
  <2>2. Goes(t, down[k + 1], told[k], told[k + 1])
    BY <2>1 DEF Tells
  <2>3. after[k - 1] = told[k] /\ after[k] = told[k + 1] /\ down'[k] = down[k + 1]
    BY <1>2, <1>3, <2>1
  <2> QED
    BY <2>2, <2>3 DEF Goes
<1>5. ASSUME NEW k \in 0..Len(down'), NEW x \in after[k] PROVE InOrder(x)'
  <2>1. k + 1 \in 0..Len(down) /\ after[k] = told[k + 1]
    BY <1>2, <1>3
  <2> QED
    BY <1>1, <1>5, <2>1 DEF Tells
<1>6. 0 \in 0..Len(down') /\ after[0] = told[1] /\ after[Len(down')] = told[Len(down)]
  BY <1>2, <1>3
<1> QED
  BY <1>3, <1>4, <1>5, <1>6 DEF Tells

LEMMA TellsPut ==
    ASSUME WiresInv, NEW t, NEW told, Tells(t, told), NEW e \in Wired, down' = Append(down, e),
           slips \subseteq slips', UNCHANGED <<streamReq, streamText>>,
           NEW B \in SUBSET Pieces, Goes(t, e, told[Len(down)], B), \A x \in B : InOrder(x)'
    PROVE  \E after : Tells(t, after)' /\ after[Len(down')] = B
<1>0. PICK after : after = [k \in 0..Len(down') |-> IF k = Len(down) + 1 THEN B ELSE told[k]]
  OBVIOUS
<1>1. \A x : InOrder(x) => InOrder(x)'
  BY OrderGrows
<1>2. /\ Len(down) \in Nat /\ Len(down') = Len(down) + 1 /\ down'[Len(down) + 1] = e
      /\ \A k \in 1..Len(down) : down'[k] = down[k]
  BY DEF WiresInv
<1>3. /\ after \in [0..Len(down') -> SUBSET Pieces] /\ after[Len(down) + 1] = B
      /\ \A k \in 0..Len(down) : after[k] = told[k]
  BY <1>0, <1>2 DEF Tells
<1>4. ASSUME NEW k \in 1..Len(down') PROVE Goes(t, down'[k], after[k - 1], after[k])
  <2>1. CASE k = Len(down) + 1
    <3>1. k - 1 = Len(down) /\ Len(down) \in 0..Len(down)
      BY <1>2, <2>1
    <3>2. after[k - 1] = told[Len(down)] /\ after[k] = B /\ down'[k] = e
      BY <1>2, <1>3, <2>1, <3>1
    <3> QED
      BY <3>2 DEF Goes
  <2>2. CASE k # Len(down) + 1
    <3>1. k \in 1..Len(down) /\ k \in 0..Len(down) /\ k - 1 \in 0..Len(down)
      BY <1>2, <2>2
    <3>2. after[k - 1] = told[k - 1] /\ after[k] = told[k] /\ down'[k] = down[k]
      BY <1>2, <1>3, <3>1
    <3>3. Goes(t, down[k], told[k - 1], told[k])
      BY <3>1 DEF Tells
    <3> QED
      BY <3>2, <3>3 DEF Goes
  <2> QED
    BY <2>1, <2>2
<1>5. ASSUME NEW k \in 0..Len(down'), NEW x \in after[k] PROVE InOrder(x)'
  <2>1. k = Len(down) + 1 \/ k \in 0..Len(down)
    BY <1>2
  <2> QED
    BY <1>1, <1>3, <1>5, <2>1 DEF Tells
<1>6. after[0] = told[0] /\ after[Len(down')] = B
  BY <1>2, <1>3
<1> QED
  BY <1>3, <1>4, <1>5, <1>6 DEF Tells

\* A message that adds nothing to the text of t.
LEMMA TellsBeside ==
    ASSUME WiresInv, NEW t, NEW told, Tells(t, told), NEW e \in Wired, down' = Append(down, e),
           slips \subseteq slips', UNCHANGED <<streamReq, streamText>>,
           e.turn # t \/ e.type \notin Opening \cup {"delta"}
    PROVE  \E after : Tells(t, after)' /\ after[Len(down')] = told[Len(down)]
<1>1. Len(down) \in 0..Len(down)
  BY DEF WiresInv
<1>2. told[Len(down)] \in SUBSET Pieces /\ \A x \in told[Len(down)] : InOrder(x)'
  BY <1>1, OrderGrows DEF Tells
<1>3. Goes(t, e, told[Len(down)], told[Len(down)])
  BY DEF Goes
<1> QED
  BY <1>2, <1>3, TellsPut
----------------------------------------------------------------------------
(* HeardInv: the steps *)

\* What holds of turns that have not begun, and of a handler that has subscribed to none.
EarlyInv ==
    /\ serving \in {"none", "accepted", "readied"} => subscribed = {}
    /\ \A t \in subscribed : stage[t] \in Underway \cup {"over"}
    /\ \A t \in Turns : stage[t] \in {"idle", "asked", "starting", "refused"} => length[t] = 0
    /\ \A t \in Turns : stage[t] \in {"idle", "asked", "starting"} => reply[t] = <<>>
    /\ \A t \in noticed : t \notin posted /\ stage[t] \in {"saving", "over"}

OverStays == \A t \in Turns : stage[t] = "over" => stage'[t] = "over"

LEMMA QueueStill ==
    ASSUME NEW t \in Turns, NEW n, QueueHas(t, n), UNCHANGED <<queue, length>>, OverStays,
           t \in subscribed <=> t \in subscribed'
    PROVE  QueueHas(t, n)'
BY DEF QueueHas, QueueFrom, OverStays

\* The handler goes on telling what it told of.
WaitsOn ==
    /\ UNCHANGED pump /\ slips \subseteq slips' /\ NoticesStay
    /\ serving' \in {"replaying", "replayed", "started"} => UNCHANGED <<serving, handling>>

LEMMA WaitsStill ==
    ASSUME WaitsOn, NEW t, NEW x, NEW n, Waits(t, x, n)
    PROVE  Waits(t, x, n)'
BY MeetsGrows DEF Waits, WaitsOn

LEMMA HeardStill ==
    ASSUME HeardInv, UNCHANGED <<down, subscribed, queue, length>>, WaitsOn, OverStays,
           streamReq' \in Turns => UNCHANGED <<streamReq, streamText>>
    PROVE  HeardInv'
<1> SUFFICES ASSUME NEW s \in Turns PROVE \E n \in Nat : \E told : Heard(s, n, told)'
  BY DEF HeardInv
<1>1n. PICK n \in Nat : \E told : Heard(s, n, told)
  BY DEF HeardInv
<1>1. PICK told : Heard(s, n, told)
  BY <1>1n
<1>2. Tells(s, told)'
  BY <1>1, TellsStill DEF Heard, WaitsOn
<1>3. QueueHas(s, n)'
  BY <1>1, QueueStill DEF Heard
<1> QED
  BY <1>1, <1>2, <1>3, WaitsStill DEF Heard

\* A message for the panel of which no text comes.
LEMMA HeardBeside ==
    ASSUME WiresInv, HeardInv, NEW e \in Wired, down' = Append(down, e), e.type \notin Opening \cup {"delta"},
           UNCHANGED <<subscribed, queue, length, streamReq, streamText>>, WaitsOn, OverStays
    PROVE  HeardInv'
<1> SUFFICES ASSUME NEW s \in Turns PROVE \E n \in Nat : \E told : Heard(s, n, told)'
  BY DEF HeardInv
<1>1n. PICK n \in Nat : \E told : Heard(s, n, told)
  BY DEF HeardInv
<1>1. PICK told : Heard(s, n, told)
  BY <1>1n
<1>2. PICK after : Tells(s, after)' /\ after[Len(down')] = told[Len(down)]
  BY <1>1, TellsBeside DEF Heard, WaitsOn
<1>3. QueueHas(s, n)'
  BY <1>1, QueueStill DEF Heard
<1> QED
  BY <1>1, <1>2, <1>3, WaitsStill DEF Heard

\* The panel takes a message.
LEMMA HeardTaken ==
    ASSUME WiresInv, HeardInv, down # <<>>, down' = Tail(down), slips \subseteq slips',
           UNCHANGED <<stage, subscribed, queue, length, noticed, serving, handling, pump>>,
           \A s \in Turns : \A told : Tells(s, told) /\ streamReq' = s => streamText' \in told[1]
    PROVE  HeardInv'
<1> SUFFICES ASSUME NEW s \in Turns PROVE \E n \in Nat : \E told : Heard(s, n, told)'
  BY DEF HeardInv
<1>1n. PICK n \in Nat : \E told : Heard(s, n, told)
  BY DEF HeardInv
<1>1. PICK told : Heard(s, n, told)
  BY <1>1n
<1>2. PICK after : Tells(s, after)' /\ after[Len(down')] = told[Len(down)]
  BY <1>1, TellsTaken DEF Heard
<1>3. QueueHas(s, n)'
  BY <1>1, QueueStill DEF Heard, OverStays
<1>4. WaitsOn
  BY DEF WaitsOn, NoticesStay
<1> QED
  BY <1>1, <1>2, <1>3, <1>4, WaitsStill DEF Heard

LEMMA OffersFirst ==
    ASSUME WiresInv, down # <<>>, NEW t, NEW told, Tells(t, told)
    PROVE  Goes(t, Head(down), told[0], told[1])
<1>1. 1 \in 1..Len(down) /\ down[1] = Head(down) /\ 1 - 1 = 0
  BY DEF WiresInv
<1> QED
  BY <1>1 DEF Tells

LEMMA MessagesHeard == ASSUME TypeOK, WiresInv, HeardInv, Messages PROVE HeardInv'
<1>0. ASSUME NEW type, Take(type) PROVE down # <<>> /\ down' = Tail(down) /\ Head(down) \in Wired
  BY <1>0, Taken DEF Take, WiresInv
<1>1. ASSUME NEW s \in Turns, NEW told, Tells(s, told), streamReq' = s, down # <<>>
      PROVE  /\ OnReady \/ OnTurnEnd \/ OnError \/ OnTurnStart \/ OnReplay \/ OnDelta
                => streamText' \in told[1]
  <2>1. Goes(s, Head(down), told[0], told[1]) /\ (streamReq = s => streamText \in told[0])
    BY <1>1, OffersFirst DEF Tells
  <2>2. s # None /\ s # Sse
    BY NamesAssumption
  <2>3. ASSUME OnReady \/ OnTurnEnd \/ OnError PROVE streamText' \in told[1]
    <3>1. UNCHANGED <<streamReq, streamText>> /\ Head(down).type \notin Opening \cup {"delta"}
      BY <1>1, <2>2, <2>3 DEF OnReady, OnTurnEnd, OnError, Finish, finalizeStream, Take, Opening
    <3> QED
      BY <1>1, <2>1, <3>1 DEF Goes
  <2>4. ASSUME OnTurnStart \/ OnReplay PROVE streamText' \in told[1]
    <3>1. streamReq' = Head(down).turn /\ streamText' = <<>> /\ Head(down).type \in Opening
      BY <2>4 DEF OnTurnStart, OnReplay, ReplayFrom, Take, Opening
    <3> QED
      BY <1>1, <2>1, <3>1 DEF Goes
  <2>5. ASSUME OnDelta PROVE streamText' \in told[1]
    <3>1. /\ streamReq' = streamReq /\ Head(down).type = "delta" /\ Head(down).type \notin Opening
          /\ streamText' = IF streamReq = Head(down).turn THEN streamText \o Head(down).text ELSE streamText
      BY <2>5 DEF OnDelta, appendDelta, Take, Opening
    <3> QED
      BY <1>1, <2>1, <3>1 DEF Goes
  <2> QED
    BY <2>3, <2>4, <2>5
<1>2. /\ down # <<>> /\ down' = Tail(down) /\ slips \subseteq slips'
      /\ UNCHANGED <<stage, subscribed, queue, length, noticed, serving, handling, pump>>
  BY <1>0 DEF Messages, OnReady, OnTurnEnd, OnError, OnTurnStart, OnReplay, OnDelta, Finish
<1>3. OnReady \/ OnTurnEnd \/ OnError \/ OnTurnStart \/ OnReplay \/ OnDelta
  BY DEF Messages
<1>4. \A s \in Turns : \A told : Tells(s, told) /\ streamReq' = s => streamText' \in told[1]
  BY <1>1, <1>2, <1>3
<1> QED
  BY <1>2, <1>4, HeardTaken
LEMMA DeltaHeard == ASSUME TypeOK, WiresInv, EarlyInv, HeardInv, NEW t \in Turns, Delta(t) PROVE HeardInv'
<1> SUFFICES ASSUME NEW s \in Turns PROVE \E n \in Nat : \E told : Heard(s, n, told)'
  BY DEF HeardInv
<1>1n. PICK n \in Nat : \E told : Heard(s, n, told)
  BY DEF HeardInv
<1>1. PICK told : Heard(s, n, told)
  BY <1>1n
<1> DEFINE e == Envelope("delta", t, <<Piece(t, length[t] + 1)>>)
<1>2. /\ stage[t] = "streaming" /\ length' = [length EXCEPT ![t] = @ + 1] /\ queue' = Published(t, e)
      /\ UNCHANGED <<stage, noticed, serving, handling, subscribed, pump, down, streamReq, streamText, slips>>
  BY DEF Delta
<1>3. Tells(s, told)'
  BY <1>1, <1>2, TellsStill DEF Heard
<1>4. QueueHas(s, n)'
  <2>1. CASE s # t
    <3>1. queue'[s] = queue[s] /\ length'[s] = length[s]
      BY <1>2, <2>1 DEF Published, WiresInv, TypeOK
    <3> QED
      BY <1>1, <1>2, <3>1 DEF Heard, QueueHas, QueueFrom
  <2>2. CASE s = t /\ t \notin subscribed
    BY <1>1, <1>2, <2>2 DEF Heard, QueueHas, Published
  <2>3. CASE s = t /\ t \in subscribed
    <3> DEFINE q == queue[t]
    <3>1. /\ queue'[t] = Append(q, e) /\ q \in Seq(Queued) /\ length[t] \in Nat /\ length'[t] = length[t] + 1
      BY <1>2, <2>3, BoundsAssumption DEF Published, WiresInv, TypeOK
    <3>2. /\ n <= length[t] /\ Len(q) = length[t] - n
          /\ \A i \in 1..(length[t] - n) : q[i] = Envelope("delta", t, <<Piece(t, n + i)>>)
      BY <1>1, <1>2, <2>3 DEF Heard, QueueHas, QueueFrom
    <3> HIDE DEF q, e
    <3>3. /\ Len(Append(q, e)) = length[t] + 1 - n
          /\ \A i \in 1..Len(q) : Append(q, e)[i] = q[i]
          /\ Append(q, e)[length[t] + 1 - n] = e
      <4>1. /\ Len(Append(q, e)) = Len(q) + 1 /\ \A i \in 1..Len(q) : Append(q, e)[i] = q[i]
            /\ Append(q, e)[Len(q) + 1] = e
        BY <3>1
      <4>2. Len(q) + 1 = length[t] + 1 - n
        BY <3>1, <3>2
      <4> QED
        BY <4>1, <4>2
    <3>4. ASSUME NEW i \in 1..(length[t] + 1 - n)
          PROVE  Append(q, e)[i] = Envelope("delta", t, <<Piece(t, n + i)>>)
      <4>1. CASE i = length[t] + 1 - n
        <5>1. n + i = length[t] + 1
          BY <3>1, <3>2, <4>1
        <5> QED
          BY <3>3, <4>1, <5>1 DEF e
      <4>2. CASE i # length[t] + 1 - n
        <5>1. i \in 1..(length[t] - n) /\ i \in 1..Len(q)
          BY <3>1, <3>2, <4>2
        <5> QED
          BY <3>2, <3>3, <5>1
      <4> QED
        BY <4>1, <4>2
    <3>5. n <= length[t] + 1
      BY <3>1, <3>2
    <3> QED
      BY <1>2, <2>3, <3>1, <3>3, <3>4, <3>5 DEF QueueHas, QueueFrom
  <2> QED
    BY <2>1, <2>2, <2>3
<1>5. WaitsOn
  <2>1. t \notin noticed
    BY <1>2 DEF EarlyInv
  <2>2. \A u \in noticed : length'[u] = length[u]
    BY <1>2, <2>1 DEF TypeOK
  <2> QED
    BY <1>2, <2>2 DEF WaitsOn, NoticesStay
<1> QED
  BY <1>1, <1>2, <1>3, <1>4, <1>5, WaitsStill DEF Heard

\* The end of turn t goes into its queue.
LEMMA OverHeard ==
    ASSUME TypeOK, WiresInv, HeardInv, NEW t \in Turns, stage[t] = "saving", Over(t),
           UNCHANGED <<length, noticed, serving, handling, subscribed, pump, down, streamReq, streamText>>
    PROVE  HeardInv'
<1> SUFFICES ASSUME NEW s \in Turns PROVE \E n \in Nat : \E told : Heard(s, n, told)'
  BY DEF HeardInv
<1>1n. PICK n \in Nat : \E told : Heard(s, n, told)
  BY DEF HeardInv
<1>1. PICK told : Heard(s, n, told)
  BY <1>1n
<1> DEFINE e == Envelope("turn_end", t, <<>>)
<1>2. /\ stage' = [stage EXCEPT ![t] = "over"] /\ queue' = Published(t, e) /\ slips \subseteq slips'
  BY DEF Over
<1>3. Tells(s, told)'
  BY <1>1, <1>2, TellsStill DEF Heard
<1>4. QueueHas(s, n)'
  <2>1. CASE s # t
    <3>1. queue'[s] = queue[s] /\ stage'[s] = stage[s]
      BY <1>2, <2>1 DEF Published, WiresInv, TypeOK
    <3> QED
      BY <1>1, <1>2, <3>1 DEF Heard, QueueHas, QueueFrom
  <2>2. CASE s = t /\ t \notin subscribed
    BY <1>1, <1>2, <2>2 DEF Heard, QueueHas, Published
  <2>3. CASE s = t /\ t \in subscribed
    <3> DEFINE q == queue[t]
    <3>1. /\ queue'[t] = Append(q, e) /\ q \in Seq(Queued) /\ length[t] \in Nat /\ stage'[t] = "over"
      BY <1>2, <2>3, BoundsAssumption DEF Published, WiresInv, TypeOK
    <3>2. /\ n <= length[t] /\ Len(q) = length[t] - n
          /\ \A i \in 1..(length[t] - n) : q[i] = Envelope("delta", t, <<Piece(t, n + i)>>)
      BY <1>1, <2>3 DEF Heard, QueueHas, QueueFrom
    <3> HIDE DEF q, e
    <3>3. /\ Len(Append(q, e)) = length[t] - n + 1
          /\ \A i \in 1..(length[t] - n) : Append(q, e)[i] = q[i]
          /\ Append(q, e)[length[t] - n + 1] = e
      BY <3>1, <3>2
    <3> QED
      BY <1>2, <2>3, <3>1, <3>2, <3>3 DEF QueueHas, QueueFrom, e
  <2> QED
    BY <2>1, <2>2, <2>3
<1>5. WaitsOn
  BY <1>2 DEF WaitsOn, NoticesStay
<1> QED
  BY <1>1, <1>2, <1>3, <1>4, <1>5, WaitsStill DEF Heard

LEMMA NoText ==
    /\ <<>> \in Pieces /\ InOrder(<<>>)
    /\ \A t \in Turns : Meets(t, <<>>, 0)
<1>1. <<>> \in Pieces /\ DOMAIN <<>> = {} /\ Len(<<>>) = 0
  BY DEF Pieces
<1>2. Breaks(<<>>) = {}
  BY <1>1 DEF Breaks
<1>3. InOrder(<<>>)
  BY <1>1, <1>2 DEF InOrder
<1> QED
  BY <1>1, <1>3 DEF Meets, EndsAt

\* A turn is opened at the panel: from here on it has none of its text.
LEMMA OpensText ==
    ASSUME WiresInv, NEW t, NEW told, Tells(t, told), NEW e \in Wired, e.turn = t, e.type \in Opening,
           down' = Append(down, e), slips \subseteq slips', UNCHANGED <<streamReq, streamText>>
    PROVE  \E after : Tells(t, after)' /\ after[Len(down')] = {<<>>}
<1>0. PICK B : B = {<<>>}
  OBVIOUS
<1>1. B \in SUBSET Pieces /\ \A x \in B : InOrder(x)'
  BY <1>0, NoText, OrderGrows
<1>2. Goes(t, e, told[Len(down)], B)
  BY <1>0 DEF Goes
<1>3. \E after : Tells(t, after)' /\ after[Len(down')] = B
  BY <1>1, <1>2, TellsPut, ZenonT(40)
<1> QED
  BY <1>0, <1>3

LEMMA RegisterHeard ==
    ASSUME TypeOK, WiresInv, HandlerInv, EarlyInv, HeardInv, NEW t \in Turns, Register(t)
    PROVE  HeardInv'
<1>1. /\ stage[t] = "starting" /\ stage' = [stage EXCEPT ![t] = "streaming"]
      /\ UNCHANGED <<length, noticed, handling, queue, pump, streamReq, streamText, slips>>
  BY DEF Register
<1>2. OverStays
  BY <1>1 DEF OverStays, TypeOK
<1>3. CASE handling # t
  <2>1. UNCHANGED <<serving, subscribed, down>>
    BY <1>3 DEF Register
  <2> QED
    BY <1>1, <1>2, <2>1, HeardStill DEF WaitsOn, NoticesStay
<1>4. CASE handling = t
  <2> SUFFICES ASSUME NEW s \in Turns PROVE \E n \in Nat : \E told : Heard(s, n, told)'
    BY DEF HeardInv
  <2> DEFINE e == Envelope("turn_start", t, <<>>)
  <2>1. /\ serving' = "started" /\ subscribed' = subscribed \cup {t} /\ down' = Append(down, e)
    BY <1>4 DEF Register
  <2>2. e \in Wired /\ e.type \in Opening /\ e.turn = t
    BY Envelopes, NoPieces DEF Envelope, Opening
  <2>3n. PICK n \in Nat : \E told : Heard(s, n, told)
    BY DEF HeardInv
  <2>3. PICK told : Heard(s, n, told)
    BY <2>3n
  <2> HIDE DEF e
  <2>4. CASE s = t
    <3>1. PICK after : Tells(t, after)' /\ after[Len(down')] = {<<>>}
      BY <1>1, <2>1, <2>2, <2>3, <2>4, OpensText DEF Heard
    <3>2. t \notin subscribed /\ length[t] = 0
      BY <1>1 DEF EarlyInv, Underway
    <3>3. queue[t] = <<>>
      BY <2>3, <2>4, <3>2 DEF Heard, QueueHas
    <3>4. QueueHas(t, 0)'
      <4>1. t \in subscribed' /\ queue'[t] = <<>> /\ length'[t] = 0
        BY <1>1, <2>1, <3>2, <3>3
      <4> QED
        BY <4>1 DEF QueueHas, QueueFrom
    <3>5. Meets(t, <<>>, 0)'
      BY <1>1, NoText, MeetsGrows DEF NoticesStay
    <3>6. \A x \in after[Len(down')] : Waits(t, x, 0)'
      BY <2>1, <3>1, <3>5 DEF Waits
    <3> QED
      BY <2>4, <3>1, <3>4, <3>6 DEF Heard
  <2>5. CASE s # t
    <3>1. PICK after : Tells(s, after)' /\ after[Len(down')] = told[Len(down)]
      BY <1>1, <2>1, <2>2, <2>3, <2>5, TellsBeside DEF Heard
    <3>2. QueueHas(s, n)'
      BY <1>1, <1>2, <2>1, <2>3, <2>5, QueueStill DEF Heard
    <3>3. ASSUME NEW x, Waits(s, x, n) PROVE Waits(s, x, n)'
      BY <1>1, <1>4, <2>1, <2>5, <3>3, MeetsGrows DEF Waits, NoticesStay
    <3> QED
      BY <2>3, <3>1, <3>2, <3>3 DEF Heard
  <2> QED
    BY <2>4, <2>5
<1> QED
  BY <1>3, <1>4

LEMMA TurnHeard ==
    ASSUME TypeOK, WiresInv, HandlerInv, EarlyInv, HeardInv, NEW t \in Turns, Turn(t)
    PROVE  HeardInv'
<1>1. CASE Refuse(t)
  <2>1. /\ stage[t] = "starting" /\ stage' = [stage EXCEPT ![t] = "refused"]
        /\ UNCHANGED <<length, noticed, queue, subscribed, pump, streamReq, streamText, slips>>
    BY <1>1 DEF Refuse
  <2>2. OverStays
    BY <2>1 DEF OverStays, TypeOK
  <2>3. CASE handling = t
    <3> DEFINE e == Envelope("error", t, <<>>)
    <3>1. serving' = "looping" /\ handling' = None /\ down' = Append(down, e)
      BY <1>1, <2>3 DEF Refuse
    <3>2. e \in Wired /\ e.type \notin Opening \cup {"delta"}
      BY Envelopes, NoPieces DEF Envelope, Opening
    <3> QED
      BY <2>1, <2>2, <3>1, <3>2, HeardBeside DEF WaitsOn, NoticesStay
  <2>4. CASE handling # t
    BY <1>1, <2>1, <2>2, <2>4, HeardStill DEF Refuse, WaitsOn, NoticesStay
  <2> QED
    BY <2>3, <2>4
<1>2. CASE EndStream(t)
  <2>1. OverStays
    BY <1>2 DEF EndStream, OverStays, TypeOK
  <2> QED
    BY <1>2, <2>1, HeardStill DEF EndStream, WaitsOn, NoticesStay
<1>3. CASE Save(t)
  BY <1>3, HeardStill DEF Save, WaitsOn, OverStays, NoticesStay
<1>4. CASE Settle(t)
  BY <1>4, OverHeard DEF Settle
<1>5. CASE SaveAgain(t)
  <2>1. OverStays
    BY <1>5 DEF SaveAgain, OverStays, TypeOK
  <2> QED
    BY <1>5, <2>1, HeardStill DEF SaveAgain, WaitsOn, NoticesStay
<1> QED
  BY <1>1, <1>2, <1>3, <1>4, <1>5, RegisterHeard, DeltaHeard DEF Turn
LEMMA ReplayHeard == ASSUME TypeOK, WiresInv, HandlerInv, EarlyInv, HeardInv, Replay PROVE HeardInv'
<1>1. /\ serving = "readied" /\ subscribed = {} /\ pump = None /\ slips \subseteq slips'
      /\ UNCHANGED <<stage, length, noticed, queue, pump, streamReq, streamText>>
  BY DEF Replay, HandlerInv, EarlyInv
<1>2. OverStays
  BY <1>1 DEF OverStays
<1>3. CASE active = None
  <2>1. serving' = "looping" /\ UNCHANGED <<subscribed, down>>
    BY <1>3 DEF Replay
  <2> QED
    BY <1>1, <1>2, <2>1, HeardStill DEF WaitsOn, NoticesStay
<1>4. CASE active # None
  <2> DEFINE t == active
             e == Envelope("replay", t, <<>>)
  <2> SUFFICES ASSUME NEW s \in Turns PROVE \E n \in Nat : \E told : Heard(s, n, told)'
    BY DEF HeardInv
  <2>1. /\ serving' = "replaying" /\ handling' = t /\ subscribed' = subscribed \cup {t} /\ down' = Append(down, e)
        /\ t \in Turns
    BY <1>4 DEF Replay, TypeOK
  <2>2. e \in Wired /\ e.type \in Opening /\ e.turn = t
    BY <2>1, Envelopes, NoPieces DEF Envelope, Opening
  <2>3n. PICK n \in Nat : \E told : Heard(s, n, told)
    BY DEF HeardInv
  <2>3. PICK told : Heard(s, n, told)
    BY <2>3n
  <2> HIDE DEF e
  <2>4. CASE s = t
    <3>1. PICK after : Tells(s, after)' /\ after[Len(down')] = {<<>>}
      BY <1>1, <2>1, <2>2, <2>3, <2>4, OpensText DEF Heard
    <3>2. queue[s] = <<>> /\ length[s] \in Nat
      BY <1>1, <2>3, BoundsAssumption DEF Heard, QueueHas, TypeOK
    <3>3. QueueHas(s, length[s])'
      <4>1. s \in subscribed' /\ queue'[s] = <<>> /\ length'[s] = length[s] /\ length[s] - length[s] = 0 /\ Len(<<>>) = 0
        BY <1>1, <2>1, <2>4, <3>2
      <4> QED
        BY <3>2, <4>1 DEF QueueHas, QueueFrom
    <3>4. \A x \in after[Len(down')] : Waits(s, x, length[s])'
      BY <1>1, <2>1, <3>1, NamesAssumption DEF Waits
    <3>5. length'[s] = length[s]
      BY <1>1
    <3> QED
      BY <3>1, <3>2, <3>3, <3>4, <3>5 DEF Heard
  <2>5. CASE s # t
    <3>1. PICK after : Tells(s, after)' /\ after[Len(down')] = told[Len(down)]
      BY <1>1, <2>1, <2>2, <2>3, <2>5, TellsBeside DEF Heard
    <3>2. QueueHas(s, n)'
      BY <1>1, <1>2, <2>1, <2>3, <2>5, QueueStill DEF Heard
    <3>3. ASSUME NEW x PROVE Waits(s, x, n)'
      BY <1>1, <2>1, <2>5, NamesAssumption DEF Waits
    <3> QED
      BY <2>3, <3>1, <3>2, <3>3 DEF Heard
  <2> QED
    BY <2>4, <2>5
<1> QED
  BY <1>3, <1>4

LEMMA ReplayTextHeard == ASSUME TypeOK, WiresInv, HandlerInv, HeardInv, ReplayText PROVE HeardInv'
<1>0. PICK t : t = handling
  OBVIOUS
<1> DEFINE e == Envelope("delta", t, Text(t))
<1>1. /\ serving = "replaying" /\ serving' = "replayed" /\ down' = Append(down, e) /\ slips \subseteq slips'
      /\ UNCHANGED <<stage, length, noticed, queue, subscribed, handling, pump, streamReq, streamText>>
      /\ (QueuedDelta(t) => "overlapped" \in slips')
  BY <1>0 DEF ReplayText, Slip
<1>2. t \in Turns /\ t \in subscribed /\ pump = None
  BY <1>0, <1>1, NamesAssumption DEF HandlerInv, TypeOK
<1>l. PICK l : l = length[t] + IF t \in noticed THEN 1 ELSE 0
  OBVIOUS
<1>3. /\ length[t] \in Nat /\ l \in Nat /\ length[t] <= l /\ (l # length[t] => t \in noticed)
      /\ Text(t) = Upto(t, l) /\ Text(t) \in Pieces
      /\ e \in Wired /\ e.type = "delta" /\ e.turn = t /\ e.text = Text(t)
  <2>1. /\ length[t] \in Nat /\ l \in Nat /\ length[t] <= l /\ (l # length[t] => t \in noticed)
        /\ Text(t) = Upto(t, l)
    BY <1>2, <1>l, BoundsAssumption DEF TypeOK, Text, Upto
  <2>2. Text(t) \in Pieces
    BY <1>2, TextIsPieces
  <2>3. e \in Wired
    BY <1>2, <2>2, Envelopes
  <2> QED
    BY <2>1, <2>2, <2>3 DEF Envelope
<1>4. OverStays
  BY <1>1 DEF OverStays
<1> HIDE DEF e
<1> SUFFICES ASSUME NEW s \in Turns PROVE \E n \in Nat : \E told : Heard(s, n, told)'
  BY DEF HeardInv
<1>5n. PICK n \in Nat : \E told : Heard(s, n, told)
  BY DEF HeardInv
<1>5. PICK told : Heard(s, n, told)
  BY <1>5n
<1>6. QueueHas(s, n)'
  BY <1>1, <1>4, <1>5, QueueStill DEF Heard
<1>7. CASE s = t
  <2>0. PICK B : B = {Text(t)}
    OBVIOUS
  <2>1. \A x \in told[Len(down)] : x = <<>>
    BY <1>0, <1>1, <1>5, <1>7 DEF Heard, Waits
  <2>2. InOrder(Text(t)) /\ EndsAt(t, Text(t), l)
    BY <1>2, <1>3, UptoIs
  <2>3. B \in SUBSET Pieces /\ \A x \in B : InOrder(x)'
    BY <1>1, <1>3, <2>0, <2>2, OrderGrows
  <2>4. Goes(s, e, told[Len(down)], B)
    <3>1. <<>> \o Text(t) = Text(t)
      BY <1>3 DEF Pieces
    <3> QED
      BY <1>3, <1>7, <2>0, <2>1, <3>1 DEF Goes, Opening
  <2>5. PICK after : Tells(s, after)' /\ after[Len(down')] = B
    BY <1>1, <1>3, <1>5, <2>3, <2>4, TellsPut DEF Heard
  <2>6. n <= length[t] /\ (n # length[t] => QueuedDelta(t))
    <3>1. QueueFrom(t, n)
      BY <1>2, <1>5, <1>7 DEF Heard, QueueHas
    <3>2. ASSUME n # length[t] PROVE QueuedDelta(t)
      <4>1. 1 \in 1..(length[t] - n) /\ Len(queue[t]) \in Nat \ {0} /\ 1 \in DOMAIN queue[t]
        BY <1>2, <1>3, <3>1, <3>2 DEF QueueFrom, WiresInv
      <4>2. queue[t][1] = Envelope("delta", t, <<Piece(t, n + 1)>>)
        BY <3>1, <4>1 DEF QueueFrom
      <4> QED
        BY <4>1, <4>2 DEF QueuedDelta, Envelope
    <3> QED
      BY <3>1, <3>2 DEF QueueFrom
  <2>t. PICK x : x = Text(t)
    OBVIOUS
  <2>7. Meets(s, x, n)'
    <3>1. CASE n = length[t]
      <4>1. Meets(t, x, n)
        BY <1>3, <2>2, <2>t, <3>1 DEF Meets
      <4> QED
        BY <1>1, <1>7, <4>1, MeetsGrows DEF NoticesStay
    <3>2. CASE n # length[t]
      <4>1. "overlapped" \in slips' /\ l \in Nat /\ n <= l /\ x = Upto(s, l)
        BY <1>1, <1>3, <1>7, <2>6, <2>t, <3>2
      <4> QED
        BY <4>1 DEF Meets
    <3> QED
      BY <3>1, <3>2
  <2>8. \A y \in after[Len(down')] : Waits(s, y, n)'
    BY <1>0, <1>1, <1>7, <2>0, <2>5, <2>7, <2>t DEF Waits
  <2> QED
    BY <1>5, <1>6, <2>5, <2>8 DEF Heard
<1>8. CASE s # t
  <2>1. PICK after : Tells(s, after)' /\ after[Len(down')] = told[Len(down)]
    BY <1>1, <1>3, <1>5, <1>8, TellsBeside DEF Heard
  <2>2. ASSUME NEW x PROVE Waits(s, x, n)'
    BY <1>0, <1>1, <1>2, <1>8, NamesAssumption DEF Waits
  <2> QED
    BY <1>5, <1>6, <2>1, <2>2 DEF Heard
<1> QED
  BY <1>7, <1>8

LEMMA EndReplayHeard == ASSUME TypeOK, WiresInv, HandlerInv, HeardInv, EndReplay PROVE HeardInv'
<1>0. PICK t : t = handling
  OBVIOUS
<1> DEFINE e == Envelope("turn_end", t, <<>>)
<1>1. /\ serving \in {"replaying", "replayed"} /\ (serving = "replaying" => length[t] = 0)
      /\ serving' = "looping" /\ slips \subseteq slips'
      /\ UNCHANGED <<stage, length, noticed, streamReq, streamText>>
  <2>1. t \in Turns \/ serving \notin {"replaying", "replayed"}
    BY <1>0, NamesAssumption DEF HandlerInv, TypeOK
  <2>2. t \in Turns /\ Text(t) = <<>> => length[t] = 0
    <3>1. ASSUME t \in Turns, length[t] # 0 PROVE Text(t) # <<>>
      <4>1. PICK l \in Nat : l = length[t] + IF t \in noticed THEN 1 ELSE 0
        BY <3>1, BoundsAssumption DEF TypeOK
      <4>2. l # 0
        BY <3>1, <4>1, BoundsAssumption DEF TypeOK
      <4>3. Text(t) = Upto(t, l)
        BY <4>1 DEF Text, Upto
      <4>4. Upto(t, l) \in Pieces /\ Len(Upto(t, l)) = l
        BY <3>1, UptoIs
      <4> QED
        BY <4>2, <4>3, <4>4
    <3> QED
      BY <3>1
  <2>3. serving \in {"replaying", "replayed"} /\ (serving = "replaying" => Text(t) = <<>>)
    BY <1>0 DEF EndReplay
  <2> QED
    BY <1>0, <2>1, <2>2, <2>3 DEF EndReplay, Resume
<1>2. t \in Turns /\ t \in subscribed /\ pump = None
  BY <1>0, <1>1, NamesAssumption DEF HandlerInv, TypeOK
<1>3. OverStays
  BY <1>1 DEF OverStays
<1> SUFFICES ASSUME NEW s \in Turns PROVE \E n \in Nat : \E told : Heard(s, n, told)'
  BY DEF HeardInv
<1>5n. PICK n \in Nat : \E told : Heard(s, n, told)
  BY DEF HeardInv
<1>5. PICK told : Heard(s, n, told)
  BY <1>5n
<1>6. CASE stage[t] = "over"
  <2>1. /\ down' = Append(down, e) /\ queue' = [queue EXCEPT ![t] = <<>>] /\ subscribed' = subscribed \ {t}
        /\ pump' = pump
    BY <1>0, <1>6 DEF EndReplay, Resume
  <2>2. e \in Wired /\ e.type \notin Opening \cup {"delta"}
    BY <1>2, Envelopes, NoPieces DEF Envelope, Opening
  <2>3. PICK after : Tells(s, after)' /\ after[Len(down')] = told[Len(down)]
    BY <1>1, <1>5, <2>1, <2>2, TellsBeside DEF Heard
  <2>4. QueueHas(s, n)'
    <3>1. CASE s = t
      BY <1>2, <2>1, <3>1 DEF QueueHas, WiresInv
    <3>2. CASE s # t
      <4>1. queue'[s] = queue[s]
        BY <2>1, <3>2 DEF WiresInv
      <4> QED
        BY <1>1, <1>5, <2>1, <3>2, <4>1 DEF Heard, QueueHas, QueueFrom
    <3> QED
      BY <3>1, <3>2
  <2>5. ASSUME NEW x PROVE Waits(s, x, n)'
    BY <1>1, <1>2, <2>1, NamesAssumption DEF Waits
  <2> QED
    BY <1>5, <2>3, <2>4, <2>5 DEF Heard
<1>7. CASE stage[t] # "over"
  <2>1. pump' = t /\ UNCHANGED <<down, queue, subscribed>>
    BY <1>0, <1>7 DEF EndReplay, Resume
  <2>2. Tells(s, told)'
    BY <1>1, <1>5, <2>1, TellsStill DEF Heard
  <2>3. QueueHas(s, n)'
    BY <1>1, <1>3, <1>5, <2>1, QueueStill DEF Heard
  <2>4. ASSUME NEW x \in told[Len(down)] PROVE Waits(s, x, n)'
    <3>1. CASE s # t
      BY <1>1, <2>1, <3>1 DEF Waits
    <3>2. CASE s = t
      <4>1. Waits(t, x, n)
        BY <1>5, <2>4, <3>2 DEF Heard
      <4>2. CASE serving = "replayed"
        <5>1. Meets(t, x, n)'
          BY <1>0, <1>1, <4>1, <4>2, MeetsGrows DEF Waits, NoticesStay
        <5> QED
          BY <1>1, <3>2, <5>1 DEF Waits
      <4>3. CASE serving = "replaying"
        <5>1. x = <<>> /\ n = 0
          BY <1>0, <1>1, <1>2, <1>5, <3>2, <4>1, <4>3 DEF Waits, Heard, QueueHas, QueueFrom
        <5>2. Meets(t, x, n)'
          BY <1>1, <1>2, <5>1, NoText, MeetsGrows DEF NoticesStay
        <5> QED
          BY <1>1, <3>2, <5>2 DEF Waits
      <4> QED
        BY <1>1, <4>2, <4>3
    <3> QED
      BY <3>1, <3>2
  <2> QED
    BY <1>5, <2>1, <2>2, <2>3, <2>4 DEF Heard
<1> QED
  BY <1>6, <1>7
LEMMA PumpHeard == ASSUME TypeOK, WiresInv, HandlerInv, HeardInv, Pump PROVE HeardInv'
<1>0. PICK t : t = pump
  OBVIOUS
<1> DEFINE q == queue[t]
           e == Head(q)
<1>1. /\ t # None /\ q # <<>> /\ down' = Append(down, e) /\ queue' = [queue EXCEPT ![t] = Tail(q)]
      /\ UNCHANGED <<stage, length, noticed, serving, handling, subscribed, pump, streamReq, streamText, slips>>
  BY <1>0 DEF Pump
<1>2. t \in Turns /\ t \in subscribed /\ handling # t /\ serving \notin {"replaying", "replayed"}
  BY <1>0, <1>1 DEF HandlerInv, TypeOK
<1>3. q \in Seq(Queued) /\ queue'[t] = Tail(q) /\ (\A s \in Turns \ {t} : queue'[s] = queue[s])
      /\ e \in Queued /\ e = q[1] /\ Len(q) \in Nat \ {0} /\ Tail(q) \in Seq(Queued)
  BY <1>1, <1>2 DEF WiresInv
<1>4. Len(Tail(q)) = Len(q) - 1 /\ \A i \in 1..(Len(q) - 1) : Tail(q)[i] = q[i + 1]
  BY <1>3
<1>5. e \in Wired /\ length[t] \in Nat
  BY <1>2, <1>3, BoundsAssumption DEF Wired, TypeOK
<1> HIDE DEF q, e
<1> SUFFICES ASSUME NEW s \in Turns PROVE \E n \in Nat : \E told : Heard(s, n, told)'
  BY DEF HeardInv
<1>6n. PICK n \in Nat : \E told : Heard(s, n, told)
  BY DEF HeardInv
<1>6. PICK told : Heard(s, n, told)
  BY <1>6n
<1>7. CASE s # t
  <2>1. e.turn = t
    <3>1. PICK m \in Nat : QueueFrom(t, m)
      BY <1>2 DEF HeardInv, Heard, QueueHas
    <3>2. CASE m = length[t]
      <4>1. e = Envelope("turn_end", t, <<>>)
        BY <1>3, <1>5, <3>1, <3>2 DEF QueueFrom, q
      <4> QED
        BY <4>1 DEF Envelope
    <3>3. CASE m # length[t]
      <4>1. 1 \in 1..(length[t] - m)
        BY <1>5, <3>1, <3>3 DEF QueueFrom
      <4>2. e = Envelope("delta", t, <<Piece(t, m + 1)>>)
        BY <1>3, <3>1, <4>1 DEF QueueFrom, q
      <4> QED
        BY <4>2 DEF Envelope
    <3> QED
      BY <3>2, <3>3
  <2>2. PICK after : Tells(s, after)' /\ after[Len(down')] = told[Len(down)]
    BY <1>1, <1>5, <1>6, <1>7, <2>1, TellsBeside DEF Heard
  <2>3. QueueHas(s, n)'
    BY <1>1, <1>3, <1>6, <1>7 DEF Heard, QueueHas, QueueFrom
  <2>4. WaitsOn
    BY <1>1 DEF WaitsOn, NoticesStay
  <2> QED
    BY <1>6, <2>2, <2>3, <2>4, WaitsStill DEF Heard
<1>8. CASE s = t
  <2>1. /\ n <= length[t] /\ Len(q) \in {length[t] - n, length[t] - n + 1}
        /\ (Len(q) = length[t] - n + 1 =>
               stage[t] = "over" /\ q[length[t] - n + 1] = Envelope("turn_end", t, <<>>))
        /\ \A i \in 1..(length[t] - n) : q[i] = Envelope("delta", t, <<Piece(t, n + i)>>)
    BY <1>2, <1>5, <1>6, <1>8 DEF Heard, QueueHas, QueueFrom, q
  <2>2. CASE n = length[t]
    <3>1. Len(q) = 1 /\ e = Envelope("turn_end", t, <<>>)
      <4>1. length[t] - n = 0 /\ length[t] - n + 1 = 1
        BY <1>5, <2>2
      <4>2. Len(q) = 1
        BY <1>3, <2>1, <4>1
      <4> QED
        BY <1>3, <2>1, <4>1, <4>2
    <3>2. PICK after : Tells(s, after)' /\ after[Len(down')] = told[Len(down)]
      <4>1. e.type \notin Opening \cup {"delta"}
        BY <3>1 DEF Envelope, Opening
      <4> QED
        BY <1>1, <1>5, <1>6, <4>1, TellsBeside DEF Heard
    <3>3. QueueHas(s, n)'
      <4>1. Len(queue'[t]) = length'[t] - n /\ n <= length'[t] /\ 1..(length'[t] - n) = {}
        <5>1. length'[t] = n /\ n - n = 0 /\ n <= n /\ 1..0 = {}
          BY <1>1, <2>2
        <5>2. Len(queue'[t]) = 0
          BY <1>3, <1>4, <3>1
        <5> QED
          BY <5>1, <5>2
      <4> QED
        BY <1>1, <1>2, <1>8, <4>1 DEF QueueHas, QueueFrom
    <3>4. WaitsOn
      BY <1>1 DEF WaitsOn, NoticesStay
    <3> QED
      BY <1>6, <3>2, <3>3, <3>4, WaitsStill DEF Heard
  <2>3. CASE n # length[t]
    <3>1. PICK m \in Nat : m = n + 1
      OBVIOUS
    <3>2. e = Envelope("delta", t, <<Piece(t, m)>>)
      <4>1. 1 \in 1..(length[t] - n)
        BY <1>5, <2>1, <2>3
      <4> QED
        BY <1>3, <2>1, <3>1, <4>1
    <3>3. e.type = "delta" /\ e.turn = t /\ e.text = <<Piece(t, m)>>
      BY <3>2 DEF Envelope
    <3>4. PICK B : B = {x \o e.text : x \in told[Len(down)]}
      OBVIOUS
    <3>5. told[Len(down)] \in SUBSET Pieces
      <4>1. Len(down) \in 0..Len(down)
        BY DEF WiresInv
      <4> QED
        BY <1>6, <4>1 DEF Heard, Tells
    <3>6. ASSUME NEW y \in B PROVE y \in Pieces /\ InOrder(y) /\ Meets(t, y, m)
      <4>1. PICK x \in told[Len(down)] : y = x \o <<Piece(t, m)>>
        BY <3>3, <3>4
      <4>2. x \in Pieces /\ Meets(t, x, n)
        BY <1>0, <1>6, <1>8, <3>5 DEF Heard, Waits
      <4> QED
        BY <1>2, <2>3, <3>1, <4>1, <4>2, NextMeets
    <3>7. B \in SUBSET Pieces /\ \A y \in B : InOrder(y)'
      BY <1>1, <3>6, OrderGrows
    <3>8. Goes(s, e, told[Len(down)], B)
      BY <1>8, <3>3, <3>4 DEF Goes, Opening
    <3>9. PICK after : Tells(s, after)' /\ after[Len(down')] = B
      BY <1>1, <1>5, <1>6, <3>7, <3>8, TellsPut DEF Heard
    <3>10. QueueHas(s, m)'
      <4>1. m <= length[t] /\ length[t] - m = length[t] - n - 1
        BY <1>5, <2>1, <2>3, <3>1
      <4>2. ASSUME NEW i \in 1..(length[t] - m)
            PROVE  Tail(q)[i] = Envelope("delta", t, <<Piece(t, m + i)>>)
        <5>1. i + 1 \in 1..(length[t] - n) /\ i \in 1..(Len(q) - 1) /\ n + (i + 1) = m + i
          <6>1. PICK l \in Nat, k \in Nat : l = length[t] /\ k = Len(q)
            BY <1>3, <1>5
          <6>2. m = n + 1 /\ l - m = l - n - 1 /\ k >= l - n /\ i \in 1..(l - m)
            BY <2>1, <3>1, <4>1, <6>1
          <6>3. i + 1 \in 1..(l - n) /\ i \in 1..(k - 1) /\ n + (i + 1) = m + i
            BY <6>2
          <6> QED
            BY <6>1, <6>3
        <5> QED
          BY <1>4, <2>1, <5>1
      <4>3. CASE Len(q) = length[t] - n
        <5>1. Len(Tail(q)) = length[t] - m
          BY <1>4, <1>5, <4>1, <4>3
        <5> QED
          BY <1>1, <1>2, <1>3, <1>8, <4>1, <4>2, <5>1 DEF QueueHas, QueueFrom
      <4>4. CASE Len(q) = length[t] - n + 1
        <5>1. Len(Tail(q)) = length[t] - m + 1 /\ stage[t] = "over"
          BY <1>4, <1>5, <2>1, <4>1, <4>4
        <5>2. length[t] - m + 1 \in 1..(Len(q) - 1) /\ (length[t] - m + 1) + 1 = length[t] - n + 1
          <6>1. PICK l \in Nat : l = length[t]
            BY <1>2, <1>3, <1>5
          <6>2. PICK k : k = Len(q)
            OBVIOUS
          <6>3. m <= l /\ l - m = l - n - 1 /\ k = l - n + 1
            BY <4>1, <4>4, <6>1, <6>2
          <6>4. l - m + 1 \in 1..(k - 1) /\ (l - m + 1) + 1 = l - n + 1
            BY <6>3
          <6> QED
            BY <6>1, <6>2, <6>4
        <5>3. Tail(q)[length[t] - m + 1] = Envelope("turn_end", t, <<>>)
          BY <1>4, <2>1, <4>4, <5>2
        <5> QED
          BY <1>1, <1>2, <1>3, <1>8, <4>1, <4>2, <5>1, <5>3 DEF QueueHas, QueueFrom
      <4> QED
        BY <2>1, <4>3, <4>4
    <3>11. \A y \in after[Len(down')] : Waits(s, y, m)'
      <4>1. ASSUME NEW y \in B PROVE Meets(t, y, m)'
        BY <1>1, <3>6, <4>1, MeetsGrows DEF NoticesStay
      <4> QED
        BY <1>1, <1>2, <1>8, <3>9, <4>1 DEF Waits
    <3> QED
      BY <3>9, <3>10, <3>11 DEF Heard
  <2> QED
    BY <2>2, <2>3
<1> QED
  BY <1>7, <1>8

LEMMA SwapPumpHeard == ASSUME TypeOK, WiresInv, HandlerInv, HeardInv, SwapPump PROVE HeardInv'
<1>0. PICK t, u : t = handling /\ u = pump
  OBVIOUS
<1>1. /\ serving = "started" /\ serving' = "looping" /\ pump' = t /\ subscribed' = subscribed \ {u}
      /\ UNCHANGED <<stage, length, noticed, down, streamReq, streamText, slips>>
      /\ \A s \in Turns : queue'[s] = IF s = u THEN <<>> ELSE queue[s]
  BY <1>0 DEF SwapPump
<1>2. u # t
  BY <1>0, <1>1, NamesAssumption DEF HandlerInv
<1> SUFFICES ASSUME NEW s \in Turns PROVE \E n \in Nat : \E told : Heard(s, n, told)'
  BY DEF HeardInv
<1>3n. PICK n \in Nat : \E told : Heard(s, n, told)
  BY DEF HeardInv
<1>3. PICK told : Heard(s, n, told)
  BY <1>3n
<1>4. Tells(s, told)'
  BY <1>1, <1>3, TellsStill DEF Heard
<1>5. QueueHas(s, n)'
  BY <1>1, <1>3 DEF Heard, QueueHas, QueueFrom
<1>6. ASSUME NEW x \in told[Len(down)] PROVE Waits(s, x, n)'
  <2>1. CASE s = t
    <3>1. Meets(s, x, n)
      BY <1>0, <1>1, <1>3, <1>6, <2>1 DEF Heard, Waits
    <3>2. Meets(s, x, n)'
      BY <1>1, <3>1, MeetsGrows DEF NoticesStay
    <3> QED
      BY <1>1, <3>2 DEF Waits
  <2>2. CASE s # t
    BY <1>1, <2>2 DEF Waits
  <2> QED
    BY <2>1, <2>2
<1> QED
  BY <1>1, <1>3, <1>4, <1>5, <1>6 DEF Heard

LEMMA HandlerHeard ==
    ASSUME TypeOK, WiresInv, AskedInv, HandlerInv, EarlyInv, HeardInv, Handler
    PROVE  HeardInv'
<1>1. CASE Ready
  <2>1. PICK e : /\ e \in {Envelope("ready", s, <<>>) : s \in Turns \cup {None}}
                 /\ down' = Append(down, e)
    BY <1>1 DEF Ready, TypeOK
  <2>2. e \in Wired /\ e.type \notin Opening \cup {"delta"}
    BY <2>1, NoPieces DEF Envelope, Wired, Opening
  <2>3. UNCHANGED <<stage, subscribed, queue, length, noticed, streamReq, streamText, pump, slips>> /\ serving' = "readied"
    BY <1>1 DEF Ready
  <2> QED
    BY <2>1, <2>2, <2>3, HeardBeside DEF WaitsOn, OverStays, NoticesStay
<1>2. CASE ReceiveChat
  <2>0. PICK t : t = Head(up).turn
    OBVIOUS
  <2>1. /\ up # <<>> /\ Head(up).type = "chat" /\ up[1] = Head(up) /\ 1 \in DOMAIN up /\ t \in Turns
    BY <1>2, <2>0, Taken DEF ReceiveChat, Receive, WiresInv, Asked
  <2>2. stage[t] = "asked"
    BY <2>0, <2>1 DEF AskedInv
  <2>3. /\ stage' \in {[stage EXCEPT ![t] = "starting"], [stage EXCEPT ![t] = "refused"]}
        /\ UNCHANGED <<length, noticed, queue, subscribed, pump, streamReq, streamText, slips>>
    BY <1>2, <2>0 DEF ReceiveChat
  <2>4. OverStays
    BY <2>2, <2>3 DEF OverStays, TypeOK
  <2>5. CASE active = None
    BY <1>2, <2>3, <2>4, <2>5, HeardStill DEF ReceiveChat, WaitsOn, NoticesStay
  <2>6. CASE active # None
    <3> DEFINE e == Envelope("error", t, <<>>)
    <3>1. down' = Append(down, e) /\ UNCHANGED <<serving, handling>>
      BY <1>2, <2>0, <2>6 DEF ReceiveChat
    <3>2. e \in Wired /\ e.type \notin Opening \cup {"delta"}
      BY <2>1, Envelopes, NoPieces DEF Envelope, Opening
    <3> QED
      BY <2>3, <2>4, <3>1, <3>2, HeardBeside DEF WaitsOn, NoticesStay
  <2> QED
    BY <2>5, <2>6
<1>3. CASE ReceiveCancel
  <2>1. UNCHANGED <<length, noticed, serving, handling, subscribed, pump, down, streamReq, streamText>>
    BY <1>3 DEF ReceiveCancel
  <2>2. CASE active # None /\ stage[active] = "saving" /\ Over(active)
    BY <2>1, <2>2, OverHeard DEF TypeOK
  <2>3. CASE /\ \/ stage' = stage
                \/ active \in Turns /\ stage[active] = "streaming" /\ stage' = [stage EXCEPT ![active] = "saving"]
             /\ UNCHANGED <<queue, slips>>
    <3>1. OverStays
      BY <2>3 DEF OverStays, TypeOK
    <3> QED
      BY <2>1, <2>3, <3>1, HeardStill DEF WaitsOn, NoticesStay
  <2> QED
    <3>1. active # None => active \in Turns
      BY DEF TypeOK
    <3>2. \/ /\ active # None /\ stage[active] = "streaming" /\ stage' = [stage EXCEPT ![active] = "saving"]
             /\ UNCHANGED <<active, queue, reply, slips>>
          \/ active # None /\ stage[active] = "saving" /\ Over(active)
          \/ active = None /\ UNCHANGED <<stage, active, queue, reply, slips>>
      BY <1>3, Zenon DEF ReceiveCancel
    <3>3. CASE active # None /\ stage[active] = "saving" /\ Over(active)
      BY <2>2, <3>3
    <3>4. CASE /\ active # None /\ stage[active] = "streaming" /\ stage' = [stage EXCEPT ![active] = "saving"]
               /\ UNCHANGED <<active, queue, reply, slips>>
      BY <2>3, <3>1, <3>4
    <3>5. CASE UNCHANGED <<stage, active, queue, reply, slips>>
      BY <2>3, <3>5
    <3> QED
      BY <3>2, <3>3, <3>4, <3>5
<1> QED
  BY <1>1, <1>2, <1>3, ReplayHeard, ReplayTextHeard, EndReplayHeard, PumpHeard, SwapPumpHeard DEF Handler
\* The connection is gone, and all that was under way on it.
LEMMA OfflineHeard ==
    ASSUME HeardInv, Offline, UNCHANGED length, slips \subseteq slips', streamText' \in Pieces,
           InOrder(streamText)'
    PROVE  HeardInv'
<1> SUFFICES ASSUME NEW s \in Turns PROVE \E n \in Nat : \E told : Heard(s, n, told)'
  BY DEF HeardInv
<1>1. PICK A : A = IF streamReq' = s THEN {streamText'} ELSE {}
  OBVIOUS
<1>2. PICK told : told = [k \in 0..0 |-> A]
  OBVIOUS
<1>3. Len(down') = 0 /\ 0..0 = {0} /\ told[0] = A /\ 1..0 = {}
  BY <1>2 DEF Offline
<1>4. Tells(s, told)'
  <2>1. A \in SUBSET Pieces /\ \A x \in A : InOrder(x)'
    BY <1>1
  <2>2. streamReq' = s => streamText' \in A
    BY <1>1
  <2> QED
    BY <1>2, <1>3, <2>1, <2>2 DEF Tells
<1>5. QueueHas(s, 0)'
  BY DEF Offline, QueueHas
<1>6. ASSUME NEW x PROVE Waits(s, x, 0)'
  BY NamesAssumption DEF Offline, Waits
<1> QED
  BY <1>3, <1>4, <1>5, <1>6 DEF Heard

LEMMA PanelHeard ==
    ASSUME TypeOK, HeardInv, streamText \in Pieces, InOrder(streamText),
           \/ Catching \/ Render \/ Open \/ Close \/ Reload \/ Cancel
           \/ \E t \in Turns : OnReply(t) \/ BreakPost(t) \/ Send(t) \/ Post(t)
           \/ \E p \in Problems : SwitchProblem(p)
    PROVE  HeardInv'
<1>1. CASE Catching \/ Render \/ Cancel \/ Open \/ \E p \in Problems : SwitchProblem(p)
  <2>1. /\ UNCHANGED <<stage, down, subscribed, queue, length, noticed, pump, streamReq, streamText>>
        /\ slips \subseteq slips' /\ (UNCHANGED <<serving, handling>> \/ serving' = "accepted")
    <3>1. ASSUME NEW i \in DOMAIN gets, ReadThread(i) \/ ShowThread(i) \/ LoseThread(i)
          PROVE  /\ UNCHANGED <<stage, down, subscribed, queue, length, noticed, pump, streamReq, streamText>>
                 /\ slips \subseteq slips' /\ UNCHANGED <<serving, handling>>
      BY <3>1 DEF ReadThread, ShowThread, LoseThread
    <3>2. CASE Catching
      BY <3>1, <3>2 DEF Catching
    <3> QED
      BY <1>1, <3>2 DEF Render, Cancel, Open, SwitchProblem
  <2> QED
    BY <2>1, HeardStill DEF WaitsOn, OverStays, NoticesStay
<1>2. CASE Close
  <2>1. Offline /\ UNCHANGED <<length, streamText>> /\ slips \subseteq slips'
    BY <1>2 DEF Close
  <2>2. InOrder(streamText)'
    BY <2>1 DEF InOrder
  <2> QED
    BY <2>1, <2>2, OfflineHeard
<1>3. CASE Reload
  <2>1. Offline /\ UNCHANGED <<length, slips>> /\ streamText' = <<>>
    BY <1>3 DEF Reload
  <2>2. InOrder(streamText)' /\ streamText' \in Pieces
    BY <2>1, NoText DEF InOrder
  <2> QED
    BY <2>1, <2>2, OfflineHeard
<1>4. ASSUME NEW t \in Turns, OnReply(t) PROVE HeardInv'
  <2>1. UNCHANGED <<stage, down, subscribed, queue, length, noticed, pump, serving, handling>>
    BY <1>4 DEF OnReply
  <2>2. slips \subseteq slips' /\ (streamReq' \in Turns => UNCHANGED <<streamReq, streamText>>)
    BY <1>4, NamesAssumption DEF OnReply, appendDelta, Finish, finalizeStream
  <2> QED
    BY <2>1, <2>2, HeardStill DEF WaitsOn, OverStays, NoticesStay
<1>5. ASSUME NEW t \in Turns, Send(t) \/ Post(t) PROVE HeardInv'
  <2>1. /\ stage[t] = "idle" /\ stage' \in {[stage EXCEPT ![t] = "asked"], [stage EXCEPT ![t] = "starting"]}
        /\ UNCHANGED <<down, subscribed, queue, length, noticed, pump, serving, handling>> /\ slips \subseteq slips'
    BY <1>5 DEF Send, Post, Sendable
  <2>2. OverStays
    BY <2>1 DEF OverStays, TypeOK
  <2>3. streamReq' \in Turns => UNCHANGED <<streamReq, streamText>>
    BY <1>5, NamesAssumption DEF Send, Post
  <2> QED
    BY <2>1, <2>2, <2>3, HeardStill DEF WaitsOn, NoticesStay
<1>6. ASSUME NEW t \in Turns, BreakPost(t) PROVE HeardInv'
  <2>1. /\ UNCHANGED <<down, subscribed, queue, length, noticed, pump, serving, handling, streamReq, streamText>>
        /\ slips \subseteq slips'
    BY <1>6 DEF BreakPost
  <2>2. OverStays
    BY <1>6 DEF BreakPost, Resaved, OverStays, TypeOK
  <2> QED
    BY <2>1, <2>2, HeardStill DEF WaitsOn, NoticesStay
<1> QED
  BY <1>1, <1>2, <1>3, <1>4, <1>5, <1>6

----------------------------------------------------------------------------
(* EarlyInv: the steps *)

LEMMA EarlyTurn ==
    ASSUME TypeOK, HandlerInv, EarlyInv, NEW t \in Turns, Turn(t)
    PROVE  EarlyInv'
<1>0. stage \in [Turns -> Stages] /\ length \in [Turns -> 0..Chunks]
  BY DEF TypeOK
<1>1. CASE Register(t)
  <2>1. /\ stage[t] = "starting" /\ stage' = [stage EXCEPT ![t] = "streaming"]
        /\ UNCHANGED <<length, reply, noticed, posted>>
        /\ \/ UNCHANGED <<serving, subscribed>>
           \/ serving' = "started" /\ subscribed' = subscribed \cup {t}
    BY <1>1 DEF Register
  <2> QED
    BY <1>0, <2>1 DEF EarlyInv, Underway
<1>2. CASE Refuse(t)
  <2>1. /\ stage[t] = "starting" /\ stage' = [stage EXCEPT ![t] = "refused"]
        /\ UNCHANGED <<length, subscribed, noticed, posted>>
        /\ \A s \in Turns \ {t} : reply'[s] = reply[s]
        /\ serving' = serving \/ serving' = "looping"
    BY <1>2 DEF Refuse
  <2> QED
    BY <1>0, <2>1 DEF EarlyInv, Underway
<1>3. CASE Delta(t)
  <2>1. /\ stage[t] = "streaming" /\ UNCHANGED <<stage, serving, subscribed, noticed, posted>>
        /\ \A s \in Turns \ {t} : reply'[s] = reply[s] /\ length'[s] = length[s]
    BY <1>0, <1>3 DEF Delta
  <2> QED
    BY <1>0, <2>1 DEF EarlyInv
<1>4. CASE EndStream(t)
  BY <1>0, <1>4 DEF EndStream, EarlyInv, Underway
<1>5. CASE Save(t)
  BY <1>5 DEF Save, EarlyInv
<1>6. CASE Settle(t)
  <2>1. /\ stage[t] = "saving" /\ stage' = [stage EXCEPT ![t] = "over"]
        /\ UNCHANGED <<serving, length, subscribed, noticed, posted>>
        /\ \A s \in Turns \ {t} : reply'[s] = reply[s]
    BY <1>6 DEF Settle, Over
  <2> QED
    BY <1>0, <2>1 DEF EarlyInv, Underway
<1>7. CASE SaveAgain(t)
  BY <1>0, <1>7 DEF SaveAgain, EarlyInv, Underway
<1> QED
  BY <1>1, <1>2, <1>3, <1>4, <1>5, <1>6, <1>7 DEF Turn

LEMMA EarlyHandler ==
    ASSUME TypeOK, WiresInv, AskedInv, HandlerInv, EarlyInv, Handler
    PROVE  EarlyInv'
<1>0. stage \in [Turns -> Stages]
  BY DEF TypeOK
<1>1. CASE Ready \/ ReplayText \/ EndReplay \/ Pump \/ SwapPump
  <2>1. /\ UNCHANGED <<stage, length, reply, noticed, posted>> /\ subscribed' \subseteq subscribed
        /\ serving = "accepted" \/ serving' \notin {"none", "accepted", "readied"} \/ serving' = serving
    BY <1>1 DEF Ready, ReplayText, EndReplay, Resume, Pump, SwapPump
  <2> QED
    BY <2>1 DEF EarlyInv
<1>2. CASE Replay
  <2>1. active # None => active \in Turns /\ stage[active] \in Underway
    BY DEF AskedInv, TypeOK
  <2>2. /\ UNCHANGED <<stage, length, reply, noticed, posted>> /\ serving' \in {"looping", "replaying"}
        /\ subscribed' = subscribed \/ (active # None /\ subscribed' = subscribed \cup {active})
    BY <1>2 DEF Replay
  <2> QED
    BY <2>1, <2>2 DEF EarlyInv
<1>3. CASE ReceiveChat
  <2>0. PICK t : t = Head(up).turn
    OBVIOUS
  <2>1. /\ up # <<>> /\ Head(up).type = "chat" /\ up[1] = Head(up) /\ 1 \in DOMAIN up /\ t \in Turns
    BY <1>3, <2>0, Taken DEF ReceiveChat, Receive, WiresInv, Asked
  <2>2. stage[t] = "asked"
    BY <2>0, <2>1 DEF AskedInv
  <2>3. /\ stage' \in {[stage EXCEPT ![t] = "starting"], [stage EXCEPT ![t] = "refused"]}
        /\ UNCHANGED <<length, subscribed, reply, noticed, posted>> /\ serving' \in {serving, "starting"}
    BY <1>3, <2>0 DEF ReceiveChat
  <2>4. (\A s \in Turns \ {t} : stage'[s] = stage[s]) /\ stage'[t] \in {"starting", "refused"}
    BY <1>0, <2>1, <2>3
  <2>5. length[t] = 0 /\ reply[t] = <<>> /\ t \notin subscribed /\ subscribed \subseteq Turns
        /\ t \notin noticed /\ noticed \subseteq Turns
    BY <2>1, <2>2 DEF EarlyInv, Underway, TypeOK
  <2> QED
    BY <2>3, <2>4, <2>5 DEF EarlyInv
<1>4. CASE ReceiveCancel
  <2>0. /\ UNCHANGED <<length, serving, subscribed, noticed, posted>> /\ subscribed \cup noticed \subseteq Turns
        /\ active # None => active \in Turns /\ stage[active] \in Underway
    BY <1>4 DEF ReceiveCancel, TypeOK, AskedInv
  <2>1. CASE UNCHANGED <<stage, reply>>
    BY <2>0, <2>1 DEF EarlyInv
  <2>2. CASE /\ active # None /\ stage' \in {[stage EXCEPT ![active] = "saving"], [stage EXCEPT ![active] = "over"]}
             /\ \A s \in Turns \ {active} : reply'[s] = reply[s]
    <3>1. (\A s \in Turns \ {active} : stage'[s] = stage[s]) /\ stage'[active] \in {"saving", "over"}
      BY <1>0, <2>0, <2>2
    <3> QED
      BY <2>0, <2>2, <3>1 DEF EarlyInv, Underway
  <2>3. CASE active # None /\ Over(active)
    <3>1. /\ stage' = [stage EXCEPT ![active] = "over"]
          /\ \A s \in Turns \ {active} : reply'[s] = reply[s]
      BY <2>3 DEF Over
    <3> QED
      BY <2>2, <2>3, <3>1
  <2> QED
    BY <1>4, <2>1, <2>2, <2>3 DEF ReceiveCancel
<1> QED
  BY <1>1, <1>2, <1>3, <1>4 DEF Handler

\* The connection is gone, or the page, and with it the readers of responses.
LEMMA CloseGone == ASSUME Close PROVE UNCHANGED <<stage, length, reply, noticed, posted>> /\ subscribed' = {}
BY DEF Close, Offline

LEMMA ReloadGone ==
    ASSUME TypeOK, Reload
    PROVE  /\ UNCHANGED <<length, reply, noticed, posted>> /\ subscribed' = {}
           /\ \A t \in Turns : stage'[t] = stage[t] \/ (t \in posted /\ stage'[t] = "resaving")
<1>1. reading \subseteq posted
  BY DEF TypeOK
<1>2. /\ UNCHANGED <<length, reply, noticed, posted>> /\ subscribed' = {}
      /\ stage' = [t \in Turns |-> IF t \in reading THEN Resaved(t) ELSE stage[t]]
  BY DEF Reload, Offline
<1>3. ASSUME NEW t \in Turns PROVE stage'[t] = stage[t] \/ (t \in posted /\ stage'[t] = "resaving")
  <2>1. stage'[t] = IF t \in reading THEN Resaved(t) ELSE stage[t]
    BY <1>2, Zenon
  <2>2. Resaved(t) \in {stage[t], "resaving"}
    BY DEF Resaved
  <2> QED
    BY <1>1, <2>1, <2>2
<1> QED
  BY <1>2, <1>3

LEMMA EarlyPanel ==
    ASSUME TypeOK, HandlerInv, ApartInv, EarlyInv,
           \/ Messages \/ Catching \/ Render \/ Open \/ Close \/ Reload \/ Cancel
           \/ \E t \in Turns : OnReply(t) \/ BreakPost(t) \/ Send(t) \/ Post(t)
           \/ \E p \in Problems : SwitchProblem(p)
    PROVE  EarlyInv'
<1>1. CASE Messages \/ Catching \/ Render \/ Cancel \/ Open \/ \E p \in Problems : SwitchProblem(p)
  <2>1. /\ UNCHANGED <<stage, length, reply, subscribed, noticed, posted>>
        /\ serving' = serving \/ (serving = "none" /\ serving' = "accepted")
    <3>1. ASSUME NEW i \in DOMAIN gets, ReadThread(i) \/ ShowThread(i) \/ LoseThread(i)
          PROVE  UNCHANGED <<stage, length, reply, subscribed, noticed, posted, serving>>
      BY <3>1 DEF ReadThread, ShowThread, LoseThread
    <3>2. CASE Catching
      BY <3>1, <3>2 DEF Catching
    <3> QED
      BY <1>1, <3>2 DEF Messages, OnReady, OnTurnEnd, OnError, OnTurnStart, OnReplay, OnDelta, Render, Cancel, Open,
                        SwitchProblem
  <2> QED
    BY <2>1 DEF EarlyInv
<1>2. CASE Close \/ Reload
  <2>1. /\ UNCHANGED <<length, reply, noticed, posted>> /\ subscribed' = {}
        /\ \A t \in Turns : stage'[t] = stage[t] \/ (t \in posted /\ stage'[t] = "resaving")
    <3>1. CASE Close
      BY <3>1, CloseGone
    <3>2. CASE Reload
      BY <3>2, ReloadGone
    <3> QED
      BY <1>2, <3>1, <3>2
  <2> QED
    BY <2>1 DEF EarlyInv, TypeOK
<1>3. ASSUME NEW t \in Turns, OnReply(t) PROVE EarlyInv'
  <2>1. /\ UNCHANGED <<stage, length, subscribed, serving, noticed, posted>> /\ reply[t] # <<>>
        /\ reply' = [reply EXCEPT ![t] = Tail(@)]
    BY <1>3 DEF OnReply
  <2>2. \A s \in Turns \ {t} : reply'[s] = reply[s]
    BY <2>1
  <2> QED
    BY <2>1, <2>2 DEF EarlyInv
<1>4. ASSUME NEW t \in Turns, Send(t) \/ Post(t) PROVE EarlyInv'
  <2>1. /\ stage[t] = "idle" /\ stage' \in {[stage EXCEPT ![t] = "asked"], [stage EXCEPT ![t] = "starting"]}
        /\ UNCHANGED <<length, reply, subscribed, serving, noticed>> /\ posted' \subseteq posted \cup {t}
    BY <1>4 DEF Send, Post, Sendable
  <2> QED
    BY <2>1 DEF EarlyInv, TypeOK, Underway
<1>5. ASSUME NEW t \in Turns, BreakPost(t) PROVE EarlyInv'
  <2>1. /\ t \in posted /\ UNCHANGED <<length, reply, subscribed, serving, noticed, posted>>
        /\ \A s \in Turns \ {t} : stage'[s] = stage[s]
        /\ stage'[t] \in {stage[t], "resaving"} \/ (stage[t] = "starting" /\ stage'[t] = "refused")
    BY <1>5 DEF BreakPost, Resaved, TypeOK
  <2>2. t \notin subscribed /\ t \notin noticed
    BY <2>1 DEF ApartInv, EarlyInv
  <2> QED
    BY <2>1, <2>2 DEF EarlyInv, TypeOK
<1> QED
  BY <1>1, <1>2, <1>3, <1>4, <1>5
----------------------------------------------------------------------------
(* The responses of POST /ai/chat *)

Replies == [type : {"delta", "done", "eof", "refused"}, turn : Turns, text : Pieces]

\* The response to t goes on after the n-th piece.
ReplyFrom(t, n) ==
    /\ n <= length[t]
    /\ \/ Len(reply[t]) = length[t] - n
       \/ /\ Len(reply[t]) = length[t] - n + 2 /\ stage[t] = "over"
          /\ reply[t][length[t] - n + 1].type = "done" /\ reply[t][length[t] - n + 2].type = "eof"
    /\ \A i \in 1..(length[t] - n) : reply[t][i] = Envelope("delta", t, <<Piece(t, n + i)>>)

\* The panel has told all of the response to t.
Silent(t) == stage[t] = "over" /\ \A i \in DOMAIN reply[t] : reply[t][i].type = "eof"

\* What the panel has of the response to t goes on with the rest of it.
Reading(t) ==
    IF stage[t] = "refused"
    THEN \A i \in DOMAIN reply[t] :
            \/ i = 1 /\ reply[t][i] = Envelope("delta", t, <<Piece(t, 0)>>) /\ streamText = <<>>
            \/ reply[t][i].type = "refused"
    ELSE \E n \in Nat : ReplyFrom(t, n) /\ streamText = Upto(t, n)

SseInv ==
    /\ reply \in [Turns -> Seq(Replies)]
    /\ streamReq = Sse => \/ \E t \in reading : Reading(t) /\ \A u \in reading \ {t} : Silent(u)
                          \/ "broken" \in slips /\ \A u \in reading : Silent(u)
    /\ streamReq # Sse => \A u \in reading : Silent(u)
    /\ streamReq = None => streamText = <<>>

LEMMA SseStill ==
    ASSUME SseInv, UNCHANGED <<reading, streamReq, streamText>>, slips \subseteq slips', reply' \in [Turns -> Seq(Replies)],
           \A t \in reading : (Reading(t) => Reading(t)') /\ (Silent(t) => Silent(t)')
    PROVE  SseInv'
BY DEF SseInv

LEMMA SameReply ==
    ASSUME NEW t, stage'[t] = stage[t], length'[t] = length[t], reply'[t] = reply[t], streamText' = streamText
    PROVE  (Reading(t) => Reading(t)') /\ (Silent(t) => Silent(t)')
BY DEF Reading, ReplyFrom, Silent

\* The panel moves between streams that are none of a response.
LEMMA StreamMoves ==
    ASSUME SseInv, UNCHANGED <<stage, length, reply, reading>>, streamReq # Sse, streamReq' # Sse,
           streamReq' = None => streamText' = <<>>
    PROVE  SseInv'
BY DEF SseInv, Silent

LEMMA DeltaReply == ASSUME TypeOK, SseInv, NEW t \in reading, Delta(t) PROVE Reading(t) => Reading(t)'
<1> SUFFICES ASSUME Reading(t) PROVE Reading(t)'
  OBVIOUS
<1> DEFINE e == Envelope("delta", t, <<Piece(t, length[t] + 1)>>)
           q == reply[t]
<1>1. /\ t \in Turns /\ t \in posted /\ length[t] \in Nat /\ q \in Seq(Replies)
  BY BoundsAssumption DEF TypeOK, SseInv
<1>2. /\ stage[t] = "streaming" /\ UNCHANGED <<stage, streamText>>
      /\ length'[t] = length[t] + 1 /\ reply'[t] = Append(q, e)
  BY <1>1 DEF Delta, TypeOK, SseInv
<1>3. PICK n \in Nat : ReplyFrom(t, n) /\ streamText = Upto(t, n)
  BY <1>2 DEF Reading
<1>4. /\ n <= length[t] /\ Len(q) = length[t] - n
      /\ \A i \in 1..(length[t] - n) : q[i] = Envelope("delta", t, <<Piece(t, n + i)>>)
  BY <1>2, <1>3 DEF ReplyFrom
<1> HIDE DEF q, e
<1>5. /\ Len(Append(q, e)) = length[t] + 1 - n /\ Append(q, e)[length[t] + 1 - n] = e
      /\ \A i \in 1..Len(q) : Append(q, e)[i] = q[i]
  BY <1>1, <1>4
<1>6. ASSUME NEW i \in 1..(length[t] + 1 - n) PROVE Append(q, e)[i] = Envelope("delta", t, <<Piece(t, n + i)>>)
  <2>1. CASE i = length[t] + 1 - n
    <3>1. n + i = length[t] + 1
      BY <1>1, <1>4, <2>1
    <3> QED
      BY <1>5, <2>1, <3>1 DEF e
  <2>2. CASE i # length[t] + 1 - n
    <3>1. i \in 1..(length[t] - n) /\ i \in 1..Len(q)
      BY <1>1, <1>4, <2>2
    <3> QED
      BY <1>4, <1>5, <3>1
  <2> QED
    BY <2>1, <2>2
<1>7. n <= length'[t] /\ length'[t] - n = length[t] + 1 - n
  BY <1>1, <1>2, <1>4
<1>8. ReplyFrom(t, n)'
  <2>1. Len(reply'[t]) = length'[t] - n
    BY <1>2, <1>5, <1>7
  <2>2. \A i \in 1..(length'[t] - n) : reply'[t][i] = Envelope("delta", t, <<Piece(t, n + i)>>)
    BY <1>2, <1>6, <1>7
  <2> QED
    BY <1>7, <2>1, <2>2 DEF ReplyFrom
<1> QED
  BY <1>2, <1>3, <1>8 DEF Reading

LEMMA OverReply ==
    ASSUME TypeOK, SseInv, NEW t \in reading, stage[t] = "saving", Over(t), UNCHANGED <<length, streamText>>
    PROVE  Reading(t) => Reading(t)'
<1> SUFFICES ASSUME Reading(t) PROVE Reading(t)'
  OBVIOUS
<1> DEFINE d == Envelope("done", t, <<>>)
           f == Envelope("eof", t, <<>>)
           q == reply[t]
<1>1. t \in Turns /\ t \in posted /\ length[t] \in Nat /\ q \in Seq(Replies)
  BY BoundsAssumption DEF TypeOK, SseInv
<1>2. stage'[t] = "over" /\ reply'[t] = q \o <<d, f>>
  BY <1>1 DEF Over, TypeOK, SseInv
<1>3. PICK n \in Nat : ReplyFrom(t, n) /\ streamText = Upto(t, n)
  BY DEF Reading
<1>4. /\ n <= length[t] /\ Len(q) = length[t] - n
      /\ \A i \in 1..(length[t] - n) : q[i] = Envelope("delta", t, <<Piece(t, n + i)>>)
  BY <1>3 DEF ReplyFrom
<1>5. d \in Replies /\ f \in Replies /\ d.type = "done" /\ f.type = "eof"
  BY <1>1, NoPieces DEF Envelope, Replies
<1> HIDE DEF q, d, f
<1>6. /\ Len(q \o <<d, f>>) = length[t] - n + 2
      /\ (q \o <<d, f>>)[length[t] - n + 1] = d /\ (q \o <<d, f>>)[length[t] - n + 2] = f
      /\ \A i \in 1..(length[t] - n) : (q \o <<d, f>>)[i] = q[i]
  <2>1. <<d, f>> \in Seq(Replies) /\ Len(<<d, f>>) = 2 /\ <<d, f>>[1] = d /\ <<d, f>>[2] = f
    BY <1>5
  <2>2. /\ Len(q \o <<d, f>>) = Len(q) + 2
        /\ \A i \in 1..(Len(q) + 2) :
              (q \o <<d, f>>)[i] = IF i <= Len(q) THEN q[i] ELSE <<d, f>>[i - Len(q)]
    BY <1>1, <2>1, ConcatProperties
  <2>3. /\ Len(q) + 1 \in 1..(Len(q) + 2) /\ Len(q) + 2 \in 1..(Len(q) + 2) /\ 1..Len(q) \subseteq 1..(Len(q) + 2)
        /\ (Len(q) + 1) - Len(q) = 1 /\ (Len(q) + 2) - Len(q) = 2
        /\ ~(Len(q) + 1 <= Len(q)) /\ ~(Len(q) + 2 <= Len(q))
    BY <1>1
  <2>4. (q \o <<d, f>>)[Len(q) + 1] = d
    BY <2>1, <2>2, <2>3
  <2>5. (q \o <<d, f>>)[Len(q) + 2] = f
    BY <2>1, <2>2, <2>3
  <2>6. \A i \in 1..Len(q) : (q \o <<d, f>>)[i] = q[i]
    BY <2>2, <2>3
  <2>7. length[t] - n + 1 = Len(q) + 1 /\ length[t] - n + 2 = Len(q) + 2 /\ 1..(length[t] - n) = 1..Len(q)
    BY <1>4
  <2> QED
    BY <2>2, <2>4, <2>5, <2>6, <2>7
<1>7. ReplyFrom(t, n)'
  BY <1>2, <1>4, <1>5, <1>6 DEF ReplyFrom
<1> QED
  BY <1>2, <1>3, <1>7 DEF Reading

LEMMA PieceText == ASSUME NEW t \in Turns, NEW k \in Nat PROVE <<Piece(t, k)>> \in Pieces
<1>1. Piece(t, k) \in Turns \X Nat
  BY DEF Piece
<1> QED
  BY <1>1 DEF Pieces

LEMMA TurnSse ==
    ASSUME TypeOK, EarlyInv, SseInv, NEW t \in Turns, Turn(t)
    PROVE  SseInv'
<1>1. /\ UNCHANGED <<reading, streamReq, streamText>> /\ reading \subseteq Turns /\ reading \subseteq posted
      /\ slips \subseteq slips'
  BY DEF Turn, Register, Refuse, Delta, EndStream, Save, Settle, Over, SaveAgain, TypeOK
<1>2. \A u \in Turns \ {t} : stage'[u] = stage[u] /\ length'[u] = length[u] /\ reply'[u] = reply[u]
  BY DEF Turn, Register, Refuse, Delta, EndStream, Save, Settle, Over, SaveAgain, TypeOK, SseInv
<1>3. length[t] \in Nat /\ reply[t] \in Seq(Replies) /\ \A k \in Nat : <<Piece(t, k)>> \in Pieces
  BY BoundsAssumption, PieceText DEF TypeOK, SseInv
<1>4. reply' \in [Turns -> Seq(Replies)]
  <2>1. CASE Refuse(t)
    <3>1. <<Envelope("delta", t, <<Piece(t, 0)>>), Envelope("refused", t, <<>>)>> \in Seq(Replies)
      <4>1. Envelope("delta", t, <<Piece(t, 0)>>) \in Replies /\ Envelope("refused", t, <<>>) \in Replies
        BY <1>3, NoPieces DEF Envelope, Replies
      <4> QED
        BY <4>1
    <3> QED
      BY <2>1, <3>1 DEF Refuse, SseInv
  <2>2. CASE Delta(t)
    <3>1. Envelope("delta", t, <<Piece(t, length[t] + 1)>>) \in Replies
      BY <1>3 DEF Envelope, Replies
    <3>2. Append(reply[t], Envelope("delta", t, <<Piece(t, length[t] + 1)>>)) \in Seq(Replies)
      BY <1>3, <3>1
    <3> QED
      BY <2>2, <3>2 DEF Delta, SseInv
  <2>3. CASE Settle(t)
    <3>1. Envelope("done", t, <<>>) \in Replies /\ Envelope("eof", t, <<>>) \in Replies
      BY NoPieces DEF Envelope, Replies
    <3>2. reply[t] \o <<Envelope("done", t, <<>>), Envelope("eof", t, <<>>)>> \in Seq(Replies)
      BY <1>3, <3>1
    <3> QED
      BY <2>3, <3>2 DEF Settle, Over, SseInv
  <2>4. CASE Register(t) \/ EndStream(t) \/ Save(t) \/ SaveAgain(t)
    BY <2>4 DEF Register, EndStream, Save, SaveAgain, SseInv
  <2> QED
    BY <2>1, <2>2, <2>3, <2>4 DEF Turn
<1>5. ASSUME t \in reading
      PROVE  (Reading(t) => Reading(t)') /\ (Silent(t) => Silent(t)')
  <2>1. CASE Register(t) \/ EndStream(t)
    <3>1. /\ stage[t] \in {"starting", "streaming"} /\ stage'[t] \in {"streaming", "saving"}
          /\ UNCHANGED <<length, reply, streamText>>
      BY <1>1, <2>1 DEF Register, EndStream, TypeOK
    <3> QED
      BY <3>1 DEF Reading, ReplyFrom, Silent
  <2>2. CASE Refuse(t)
    <3>1. /\ stage[t] = "starting" /\ stage'[t] = "refused" /\ length[t] = 0 /\ reply[t] = <<>>
          /\ reply'[t] = <<Envelope("delta", t, <<Piece(t, 0)>>), Envelope("refused", t, <<>>)>>
      BY <1>1, <1>5, <2>2 DEF Refuse, TypeOK, EarlyInv, SseInv
    <3>2. Reading(t) => streamText' = <<>>
      BY <1>1, <3>1 DEF Reading, ReplyFrom, Upto
    <3>3. DOMAIN reply'[t] = {1, 2} /\ reply'[t][2].type = "refused" /\ reply'[t][1] = Envelope("delta", t, <<Piece(t, 0)>>)
      BY <3>1 DEF Envelope
    <3> QED
      BY <3>1, <3>2, <3>3 DEF Reading, Silent
  <2>3. CASE Delta(t)
    <3>1. ~Silent(t)
      BY <2>3 DEF Delta, Silent
    <3> QED
      BY <1>5, <2>3, <3>1, DeltaReply
  <2>4. CASE Save(t)
    BY <1>1, <2>4, SameReply DEF Save
  <2>5. CASE Settle(t)
    <3>1. stage[t] = "saving" /\ Over(t) /\ UNCHANGED <<length, streamText>> /\ ~Silent(t)
      BY <2>5 DEF Settle, Silent
    <3> QED
      BY <1>5, <3>1, OverReply
  <2>6. CASE SaveAgain(t)
    <3>1. stage[t] = "resaving" /\ stage'[t] = "over" /\ UNCHANGED <<length, reply, streamText>>
      BY <1>1, <1>5, <2>6 DEF SaveAgain, TypeOK
    <3> QED
      BY <3>1 DEF Reading, ReplyFrom, Silent
  <2> QED
    BY <2>1, <2>2, <2>3, <2>4, <2>5, <2>6 DEF Turn
<1>6. \A u \in reading : (Reading(u) => Reading(u)') /\ (Silent(u) => Silent(u)')
  BY <1>1, <1>2, <1>5, SameReply
<1> QED
  BY <1>1, <1>4, <1>6, SseStill
----------------------------------------------------------------------------
(* SseInv: the handler and the panel *)

LEMMA UnchangedSse ==
    ASSUME SseInv, UNCHANGED <<stage, length, reply, reading, streamReq, streamText>>, slips \subseteq slips'
    PROVE  SseInv'
BY SameReply, SseStill DEF SseInv

LEMMA HandlerSse ==
    ASSUME TypeOK, WiresInv, AskedInv, EarlyInv, SseInv, Handler
    PROVE  SseInv'
<1>0. stage \in [Turns -> Stages] /\ reading \subseteq posted /\ reading \subseteq Turns
  BY DEF TypeOK
<1>s. slips \subseteq slips'
  BY DEF Handler, Ready, Replay, ReplayText, EndReplay, Resume, Pump, SwapPump, ReceiveChat, ReceiveCancel, Over
<1>1. CASE Ready \/ Replay \/ ReplayText \/ EndReplay \/ Pump \/ SwapPump
  BY <1>1, <1>s, UnchangedSse DEF Ready, Replay, ReplayText, EndReplay, Resume, Pump, SwapPump
<1>2. CASE ReceiveChat
  <2>0. PICK t : t = Head(up).turn
    OBVIOUS
  <2>1. /\ up # <<>> /\ Head(up).type = "chat" /\ up[1] = Head(up) /\ 1 \in DOMAIN up /\ t \in Turns
    BY <1>2, <2>0, Taken DEF ReceiveChat, Receive, WiresInv, Asked
  <2>2. stage[t] = "asked" /\ reply[t] = <<>>
    BY <2>0, <2>1 DEF AskedInv, EarlyInv
  <2>3. /\ stage' \in {[stage EXCEPT ![t] = "starting"], [stage EXCEPT ![t] = "refused"]}
        /\ UNCHANGED <<length, reply, reading, streamReq, streamText>>
    BY <1>2, <2>0 DEF ReceiveChat
  <2>4. (\A s \in Turns \ {t} : stage'[s] = stage[s]) /\ stage'[t] \in {"starting", "refused"}
    BY <1>0, <2>1, <2>3
  <2>5. ~Silent(t) /\ (Reading(t) => Reading(t)')
    <3>1. CASE stage'[t] = "refused"
      <4>1. DOMAIN reply'[t] = {}
        BY <2>2, <2>3
      <4> QED
        BY <2>2, <3>1, <4>1 DEF Reading, Silent
    <3>2. CASE stage'[t] = "starting"
      BY <2>2, <2>3, <3>2 DEF Reading, Silent, ReplyFrom
    <3> QED
      BY <2>4, <3>1, <3>2
  <2>6. \A u \in reading : (Reading(u) => Reading(u)') /\ (Silent(u) => Silent(u)')
    BY <1>0, <2>3, <2>4, <2>5, SameReply
  <2> QED
    BY <1>s, <2>3, <2>6, SseStill DEF SseInv
<1>3. CASE ReceiveCancel
  <2>1. /\ UNCHANGED <<length, reading, streamReq, streamText>>
        /\ active # None => active \notin reading
    BY <1>0, <1>3 DEF ReceiveCancel, AskedInv
  <2>2. reply' = reply /\ \A u \in reading : stage'[u] = stage[u]
    <3>1. CASE active # None
      <4>1. active \notin posted /\ active \notin reading
        BY <1>0, <3>1 DEF AskedInv
      <4>2. \/ stage' = [stage EXCEPT ![active] = "saving"] /\ UNCHANGED reply
            \/ Over(active)
        BY <1>3, <3>1 DEF ReceiveCancel
      <4>3. CASE Over(active)
        <5>1. stage' = [stage EXCEPT ![active] = "over"] /\ reply' = reply
          BY <4>1, <4>3 DEF Over
        <5> QED
          BY <1>0, <4>1, <5>1
      <4>4. CASE stage' = [stage EXCEPT ![active] = "saving"] /\ UNCHANGED reply
        BY <1>0, <4>1, <4>4
      <4> QED
        BY <4>2, <4>3, <4>4
    <3>2. CASE active = None
      BY <1>3, <3>2 DEF ReceiveCancel
    <3> QED
      BY <3>1, <3>2
  <2>3. \A u \in reading : (Reading(u) => Reading(u)') /\ (Silent(u) => Silent(u)')
    BY <2>1, <2>2, SameReply
  <2> QED
    BY <1>s, <2>1, <2>2, <2>3, SseStill DEF SseInv
<1> QED
  BY <1>1, <1>2, <1>3 DEF Handler

LEMMA MessagesSse ==
    ASSUME TypeOK, WiresInv, SseInv, Messages, "interrupted" \notin slips'
    PROVE  SseInv'
<1>0. ASSUME NEW type, Take(type)
      PROVE  /\ Head(down).type = type
             /\ type # "ready" => Head(down).turn \in Turns
  BY <1>0, Taken, Told DEF Take, WiresInv
<1>1. UNCHANGED <<stage, length, reply, reading>> /\ slips \subseteq slips' /\ None \notin Turns /\ Sse \notin Turns /\ Sse # None
  BY NamesAssumption DEF Messages, OnReady, OnTurnStart, OnReplay, OnDelta, OnTurnEnd, OnError, Finish
<1>2. CASE UNCHANGED <<streamReq, streamText>>
  BY <1>1, <1>2, UnchangedSse
<1>3. CASE streamReq # Sse /\ streamReq' # Sse /\ (streamReq' = None => streamText' = <<>>)
  BY <1>1, <1>3, StreamMoves
<1>4. CASE OnReady
  <2>1. CASE EndMissed
    <3>1. Head(down).turn = None /\ streamReq' = None /\ streamText' = <<>>
      BY <1>4, <2>1 DEF OnReady, finalizeStream, EndMissed
    <3>2. streamReq # Sse
      BY <1>4, <3>1 DEF OnReady, Slip
    <3> QED
      BY <1>1, <1>3, <3>1, <3>2
  <2>2. CASE ~EndMissed
    BY <1>2, <1>4, <2>2 DEF OnReady
  <2> QED
    BY <2>1, <2>2
<1>5. CASE OnTurnStart
  <2>1. streamReq = None /\ streamReq' \in Turns
    BY <1>0, <1>5 DEF OnTurnStart, Slip
  <2> QED
    BY <1>1, <1>3, <2>1
<1>6. CASE OnReplay
  <2>1. streamReq # Sse /\ streamReq' \in Turns
    BY <1>0, <1>6 DEF OnReplay, Slip
  <2> QED
    BY <1>1, <1>3, <2>1
<1>7. CASE OnDelta
  <2>1. streamReq' = streamReq /\ Head(down).turn \in Turns
    BY <1>0, <1>7 DEF OnDelta, appendDelta
  <2>2. CASE streamReq = Head(down).turn
    BY <1>1, <1>3, <2>1, <2>2
  <2>3. CASE streamReq # Head(down).turn
    BY <1>2, <1>7, <2>1, <2>3 DEF OnDelta, appendDelta
  <2> QED
    BY <2>2, <2>3
<1>8. CASE OnTurnEnd \/ OnError
  <2>1. Head(down).turn \in Turns
    BY <1>0, <1>8 DEF OnTurnEnd, OnError
  <2>2. CASE Finish(Head(down).turn)
    <3>1. streamReq \in {None, Head(down).turn} /\ streamReq' = None /\ streamText' = <<>>
      BY <2>2 DEF Finish, finalizeStream, Slip
    <3> QED
      BY <1>1, <1>3, <2>1, <3>1
  <2>3. CASE UNCHANGED <<streamReq, streamText>>
    BY <1>2, <2>3
  <2> QED
    BY <1>8, <2>2, <2>3 DEF OnTurnEnd, OnError
<1> QED
  BY <1>4, <1>5, <1>6, <1>7, <1>8 DEF Messages

LEMMA NextPiece ==
    ASSUME NEW t \in Turns, NEW n \in Nat
    PROVE  /\ Upto(t, n) \o <<Piece(t, n + 1)>> = Upto(t, n + 1)
           /\ Upto(t, 0) = <<>>
           /\ <<>> \o <<Piece(t, 0)>> \in Pieces /\ InOrder(<<>> \o <<Piece(t, 0)>>)
<1> DEFINE x == Upto(t, n)
           y == x \o <<Piece(t, n + 1)>>
           z == <<>> \o <<Piece(t, 0)>>
<1>0. \A k \in Nat : Piece(t, k) \in Turns \X Nat
  BY DEF Piece
<1>1. x \in Pieces /\ Len(x) = n /\ \A k \in 1..n : x[k] = Piece(t, k)
  BY UptoIs DEF Upto
<1> HIDE DEF x
<1>2. /\ y \in Pieces /\ Len(y) = n + 1 /\ DOMAIN y = 1..(n + 1) /\ y[n + 1] = Piece(t, n + 1)
      /\ \A k \in 1..n : y[k] = Piece(t, k)
  <2>1. n + 1 \in Nat /\ Piece(t, n + 1) \in Turns \X Nat
    BY <1>0
  <2>2. /\ y \in Pieces /\ Len(y) = Len(x) + 1 /\ y[Len(x) + 1] = Piece(t, n + 1)
        /\ \A j \in 1..Len(x) : y[j] = x[j]
        /\ DOMAIN y = 1..(Len(x) + 1)
    BY <1>1, <2>1, OneMore
  <2> HIDE DEF y
  <2> QED
    BY <1>1, <2>2
<1>3. Upto(t, n + 1) \in Pieces /\ Len(Upto(t, n + 1)) = n + 1
      /\ \A k \in 1..(n + 1) : Upto(t, n + 1)[k] = Piece(t, k)
  BY UptoIs DEF Upto
<1> HIDE DEF y
<1>4. \A k \in 1..(n + 1) : y[k] = Upto(t, n + 1)[k]
  <2> TAKE k \in 1..(n + 1)
  <2>1. k = n + 1 \/ k \in 1..n
    OBVIOUS
  <2> QED
    BY <1>2, <1>3, <2>1
<1>5. y = Upto(t, n + 1)
  BY <1>2, <1>3, <1>4, SeqEqual DEF Pieces
<1>6. Upto(t, 0) = <<>>
  BY DEF Upto
<1>7. /\ z \in Pieces /\ Len(z) = 1 /\ z[1] = Piece(t, 0) /\ DOMAIN z = 1..1
  <2>1. <<>> \in Pieces /\ Len(<<>>) = 0 /\ Piece(t, 0) \in Turns \X Nat
    BY <1>0, NoPieces
  <2>2. PICK e \in Pieces : e = <<>> /\ Len(e) = 0
    BY <2>1
  <2>3. LET w == e \o <<Piece(t, 0)>>
        IN  w \in Pieces /\ Len(w) = Len(e) + 1 /\ w[Len(e) + 1] = Piece(t, 0) /\ DOMAIN w = 1..(Len(e) + 1)
    BY <2>1, OneMore
  <2> HIDE DEF z
  <2>4. z \in Pieces /\ Len(z) = 0 + 1 /\ z[0 + 1] = Piece(t, 0) /\ DOMAIN z = 1..(0 + 1)
    BY <2>1, <2>2, <2>3 DEF z
  <2> QED
    BY <2>4
<1> HIDE DEF z
<1>8. InOrder(z)
  <2>1. Breaks(z) = {} /\ (\A j \in DOMAIN z : j = 1) /\ z[1][2] = 0
    BY <1>7, PieceIs DEF Breaks
  <2> QED
    BY <2>1 DEF InOrder
<1> QED
  BY <1>5, <1>6, <1>7, <1>8 DEF x, y, z

\* The panel takes a delta of the response it follows.
LEMMA ReplyDelta ==
    ASSUME TypeOK, SseInv, InOrder(streamText), streamText \in Pieces, NEW t \in Turns, OnReply(t),
           Head(reply[t]).type = "delta"
    PROVE  SseInv' /\ InOrder(streamText)' /\ streamText' \in Pieces
<1> DEFINE q == reply[t]
<1>1. /\ t \in reading /\ q # <<>> /\ reply' = [reply EXCEPT ![t] = Tail(q)]
      /\ UNCHANGED <<stage, length, reading, streamReq, slips>>
      /\ streamText' = IF streamReq = Sse THEN streamText \o Head(q).text ELSE streamText
  BY DEF OnReply, appendDelta
<1>2. q \in Seq(Replies) /\ length[t] \in Nat /\ Tail(q) \in Seq(Replies) /\ reply \in [Turns -> Seq(Replies)]
  BY <1>1, BoundsAssumption DEF TypeOK, SseInv
<1>3. /\ Len(q) \in Nat \ {0} /\ Head(q) = q[1] /\ 1 \in DOMAIN q /\ DOMAIN q = 1..Len(q)
      /\ Len(Tail(q)) = Len(q) - 1 /\ DOMAIN Tail(q) = 1..(Len(q) - 1)
      /\ \A i \in 1..(Len(q) - 1) : Tail(q)[i] = q[i + 1]
  BY <1>1, <1>2
<1>4. reply'[t] = Tail(q) /\ \A u \in Turns \ {t} : reply'[u] = reply[u]
  BY <1>1, <1>2
<1>5. ~Silent(t)
  <2>1. q[1].type = "delta"
    BY <1>3
  <2> QED
    BY <1>3, <2>1 DEF Silent
<1>6. streamReq = Sse /\ Reading(t) /\ \A u \in reading \ {t} : Silent(u)
  BY <1>1, <1>5 DEF SseInv
<1>7. \A u \in reading \ {t} : Silent(u)'
  <2>1. \A u \in reading \ {t} : u \in Turns \ {t}
    BY DEF TypeOK
  <2> QED
    BY <1>1, <1>4, <1>6, <2>1 DEF Silent
<1>8. reply' \in [Turns -> Seq(Replies)] /\ Sse # None
  BY <1>1, <1>2, NamesAssumption
<1> SUFFICES Reading(t)' /\ InOrder(streamText)' /\ streamText' \in Pieces
  BY <1>1, <1>6, <1>7, <1>8 DEF SseInv
<1> HIDE DEF q
<1>9. CASE stage[t] = "refused"
  <2>1. /\ q[1] = Envelope("delta", t, <<Piece(t, 0)>>) /\ streamText = <<>>
        /\ \A i \in DOMAIN q : i = 1 \/ q[i].type = "refused"
    BY <1>3, <1>6, <1>9 DEF Reading, q
  <2>2. streamText' = <<>> \o <<Piece(t, 0)>>
    BY <1>1, <1>3, <1>6, <2>1 DEF Envelope
  <2>3. \A i \in DOMAIN Tail(q) : Tail(q)[i].type = "refused"
    <3> TAKE i \in DOMAIN Tail(q)
    <3>1. i + 1 \in DOMAIN q /\ i + 1 # 1 /\ Tail(q)[i] = q[i + 1]
      BY <1>3
    <3> QED
      BY <2>1, <3>1
  <2>4. Reading(t)'
    BY <1>1, <1>4, <1>9, <2>3 DEF Reading
  <2>5. streamText' \in Pieces /\ InOrder(streamText')
    BY <2>2, NextPiece
  <2>6. InOrder(streamText)'
    BY <1>1, <2>5 DEF InOrder
  <2> QED
    BY <2>4, <2>5, <2>6
<1>10. CASE stage[t] # "refused"
  <2>1. PICK n \in Nat : ReplyFrom(t, n) /\ streamText = Upto(t, n)
    BY <1>6, <1>10 DEF Reading
  <2>2. n # length[t]
    <3> SUFFICES ASSUME n = length[t] PROVE FALSE
      OBVIOUS
    <3>1. Len(q) = 2 /\ length[t] - n + 1 = 1
      BY <1>2, <1>3, <2>1 DEF ReplyFrom, q
    <3>2. q[length[t] - n + 1].type = "done"
      BY <1>2, <1>3, <2>1 DEF ReplyFrom, q
    <3> QED
      BY <1>3, <3>1, <3>2 DEF q
  <2>3. /\ n < length[t] /\ n + 1 \in Nat /\ n + 1 <= length[t] /\ 1 \in 1..(length[t] - n)
        /\ length[t] - (n + 1) = (length[t] - n) - 1
    BY <1>2, <2>1, <2>2 DEF ReplyFrom
  <2>4. q[1] = Envelope("delta", t, <<Piece(t, n + 1)>>)
    BY <2>1, <2>3 DEF ReplyFrom, q
  <2>5. streamText' = Upto(t, n + 1)
    <3>1. Head(q).text = <<Piece(t, n + 1)>>
      BY <1>3, <2>4 DEF Envelope
    <3> QED
      BY <1>1, <1>6, <2>1, <3>1, NextPiece DEF q
  <2>6. \A i \in 1..(length[t] - (n + 1)) : Tail(q)[i] = Envelope("delta", t, <<Piece(t, (n + 1) + i)>>)
    <3> TAKE i \in 1..(length[t] - (n + 1))
    <3>1. i + 1 \in 1..(length[t] - n) /\ (n + 1) + i = n + (i + 1)
      BY <1>2, <2>3
    <3>2. q[i + 1] = Envelope("delta", t, <<Piece(t, n + (i + 1))>>)
      BY <2>1, <3>1 DEF ReplyFrom, q
    <3>3. length[t] - n <= Len(q)
      BY <1>2, <1>3, <2>1 DEF ReplyFrom, q
    <3>4. i \in 1..(Len(q) - 1)
      BY <1>2, <1>3, <3>1, <3>3
    <3> QED
      BY <1>3, <3>1, <3>2, <3>4
  <2>7. ReplyFrom(t, n + 1)'
    <3>1. CASE Len(q) = length[t] - n
      BY <1>1, <1>2, <1>3, <1>4, <2>3, <2>6, <3>1 DEF ReplyFrom
    <3>2. CASE /\ Len(q) = length[t] - n + 2 /\ stage[t] = "over"
               /\ q[length[t] - n + 1].type = "done" /\ q[length[t] - n + 2].type = "eof"
      <4>1. /\ length[t] - (n + 1) + 1 = length[t] - n /\ length[t] - (n + 1) + 2 = (length[t] - n) + 1
            /\ length[t] - n \in 1..(Len(q) - 1) /\ (length[t] - n) + 1 \in 1..(Len(q) - 1)
            /\ ((length[t] - n) + 1) + 1 = length[t] - n + 2
            /\ Len(q) - 1 = length[t] - (n + 1) + 2
        <5>1. PICK m \in Nat : m = length[t] - n /\ m # 0
          BY <1>2, <2>3
        <5>2. /\ length[t] - (n + 1) = m - 1 /\ Len(q) = m + 2
          BY <1>2, <2>3, <3>2, <5>1
        <5> QED
          BY <5>1, <5>2
      <4>2. Tail(q)[length[t] - (n + 1) + 1].type = "done" /\ Tail(q)[length[t] - (n + 1) + 2].type = "eof"
        BY <1>3, <3>2, <4>1
      <4> QED
        BY <1>1, <1>3, <1>4, <2>3, <2>6, <3>2, <4>1, <4>2 DEF ReplyFrom
    <3> QED
      BY <2>1, <3>1, <3>2 DEF ReplyFrom, q
  <2>8. streamText' \in Pieces /\ InOrder(streamText')
    BY <2>3, <2>5, UptoIs
  <2>9. InOrder(streamText)'
    BY <1>1, <2>8 DEF InOrder
  <2>10. Reading(t)'
    BY <1>1, <1>10, <2>3, <2>5, <2>7 DEF Reading, Upto
  <2> QED
    BY <2>8, <2>9, <2>10
<1> QED
  BY <1>9, <1>10

\* The panel takes the end of a response.
LEMMA ReplyEnd ==
    ASSUME TypeOK, SseInv, NEW t \in Turns, OnReply(t), Head(reply[t]).type # "delta", "interrupted" \notin slips'
    PROVE  SseInv' /\ streamText' = <<>>
<1> DEFINE q == reply[t]
           kind == Head(q).type
<1>1. /\ t \in reading /\ q # <<>> /\ reply' = [reply EXCEPT ![t] = Tail(q)]
      /\ UNCHANGED <<stage, length>> /\ streamReq' = None /\ streamText' = <<>>
      /\ reading' = IF kind = "done" THEN reading ELSE reading \ {t}
      /\ streamReq \in {None, IF kind = "eof" THEN None ELSE Sse}
  BY DEF OnReply, Finish, finalizeStream, Slip
<1>2. q \in Seq(Replies) /\ length[t] \in Nat /\ Tail(q) \in Seq(Replies) /\ reply \in [Turns -> Seq(Replies)]
  BY <1>1, BoundsAssumption DEF TypeOK, SseInv
<1>3. /\ Len(q) \in Nat \ {0} /\ Head(q) = q[1] /\ 1 \in DOMAIN q /\ DOMAIN q = 1..Len(q)
      /\ Len(Tail(q)) = Len(q) - 1 /\ DOMAIN Tail(q) = 1..(Len(q) - 1)
      /\ \A i \in 1..(Len(q) - 1) : Tail(q)[i] = q[i + 1]
  BY <1>1, <1>2
<1>4. reply'[t] = Tail(q) /\ (\A u \in Turns \ {t} : reply'[u] = reply[u]) /\ reply' \in [Turns -> Seq(Replies)]
  BY <1>1, <1>2
<1>5. Sse # None /\ reading \subseteq Turns
  BY NamesAssumption DEF TypeOK
<1>6. \A u \in reading \ {t} : Silent(u)
  <2>1. CASE streamReq = None
    BY <1>5, <2>1 DEF SseInv
  <2>2. CASE streamReq = Sse
    <3>1. ~Silent(t)
      <4>1. q[1].type # "eof"
        BY <1>1, <1>3, <1>5, <2>2
      <4> QED
        BY <1>3, <4>1 DEF Silent
    <3> QED
      BY <1>1, <2>2, <3>1 DEF SseInv
  <2> QED
    BY <1>1, <2>1, <2>2
<1>7. \A u \in reading \ {t} : Silent(u)'
  BY <1>1, <1>4, <1>5, <1>6 DEF Silent
<1>8. kind = "done" => Silent(t)'
  <2> SUFFICES ASSUME kind = "done" PROVE Silent(t)'
    OBVIOUS
  <2>1. q[1].type = "done" /\ ~Silent(t)
    BY <1>3 DEF Silent
  <2>2. Reading(t)
    BY <1>1, <1>5, <2>1 DEF SseInv
  <2>3. stage[t] # "refused"
    BY <1>3, <2>1, <2>2 DEF Reading, Envelope
  <2>4. PICK n \in Nat : ReplyFrom(t, n)
    BY <2>2, <2>3 DEF Reading
  <2>5. n = length[t]
    <3> SUFFICES ASSUME n # length[t] PROVE FALSE
      OBVIOUS
    <3>1. 1 \in 1..(length[t] - n)
      BY <1>2, <2>4 DEF ReplyFrom
    <3>2. q[1] = Envelope("delta", t, <<Piece(t, n + 1)>>)
      BY <2>4, <3>1 DEF ReplyFrom
    <3> QED
      BY <2>1, <3>2 DEF Envelope
  <2>6. length[t] - n = 0 /\ length[t] - n + 2 = 2
    BY <1>2, <2>5
  <2> HIDE DEF q
  <2>7. Len(q) = 2 /\ stage[t] = "over" /\ q[2].type = "eof"
    <3>1. \/ Len(q) = 0
          \/ Len(q) = 2 /\ stage[t] = "over" /\ q[2].type = "eof"
      BY <2>4, <2>6 DEF ReplyFrom, q
    <3> QED
      BY <1>3, <3>1
  <2>8. DOMAIN Tail(q) = {1} /\ Tail(q)[1] = q[2]
    <3>1. 1..(2 - 1) = {1} /\ 1 \in 1..(Len(q) - 1) /\ 1 + 1 = 2
      BY <2>7
    <3> QED
      BY <1>3, <2>7, <3>1
  <2> QED
    BY <1>1, <1>4, <2>7, <2>8 DEF Silent
<1>9. \A u \in reading' : Silent(u)'
  BY <1>1, <1>7, <1>8
<1> QED
  BY <1>1, <1>4, <1>5, <1>9 DEF SseInv

LEMMA AskSse ==
    ASSUME TypeOK, EarlyInv, SseInv, NEW t \in Turns, Send(t) \/ Post(t), "interrupted" \notin slips'
    PROVE  SseInv'
<1>0. stage \in [Turns -> Stages] /\ reading \subseteq Turns /\ Sse # None /\ length[t] \in Nat
  BY NamesAssumption, BoundsAssumption DEF TypeOK
<1>1. stage[t] = "idle" /\ reply[t] = <<>> /\ length[t] = 0 /\ UNCHANGED <<length, reply>> /\ ~Silent(t)
  BY DEF Send, Post, Sendable, EarlyInv, Silent
<1>2. CASE Send(t)
  <2>1. stage' = [stage EXCEPT ![t] = "asked"] /\ UNCHANGED <<reading, streamReq, streamText>>
    BY <1>2 DEF Send
  <2>2. stage'[t] = "asked" /\ \A u \in Turns \ {t} : stage'[u] = stage[u]
    BY <1>0, <2>1
  <2>3. Reading(t) => Reading(t)'
    BY <1>1, <2>1, <2>2 DEF Reading, ReplyFrom
  <2>4. \A u \in reading : (Reading(u) => Reading(u)') /\ (Silent(u) => Silent(u)')
    BY <1>0, <1>1, <2>1, <2>2, <2>3, SameReply
  <2>5. slips \subseteq slips'
    BY <1>2 DEF Send
  <2> QED
    BY <1>1, <2>1, <2>4, <2>5, SseStill DEF SseInv
<1>3. CASE Post(t)
  <2>1. /\ stage' = [stage EXCEPT ![t] = "starting"] /\ reading' = reading \cup {t}
        /\ streamReq = None /\ streamReq' = Sse /\ streamText' = <<>>
    BY <1>3 DEF Post, Slip
  <2>2. stage'[t] = "starting" /\ \A u \in Turns \ {t} : stage'[u] = stage[u]
    BY <1>0, <2>1
  <2>3. \A u \in reading' \ {t} : Silent(u)'
    BY <1>0, <1>1, <2>1, <2>2 DEF SseInv, Silent
  <2>4. ReplyFrom(t, 0)' /\ streamText' = Upto(t, 0)
    <3>1. length'[t] = 0 /\ 0 - 0 = 0 /\ 1..0 = {} /\ Len(reply'[t]) = 0 /\ 0 <= 0
      BY <1>1
    <3>2. Upto(t, 0) = <<>>
      BY NextPiece
    <3> QED
      BY <2>1, <3>1, <3>2 DEF ReplyFrom
  <2>5. Reading(t)'
    <3>1. 0 \in Nat /\ Upto(t, 0)' = Upto(t, 0)
      BY DEF Upto, Piece
    <3> QED
      BY <2>2, <2>4, <3>1 DEF Reading
  <2> QED
    BY <1>0, <1>1, <2>1, <2>3, <2>5 DEF SseInv
<1> QED
  BY <1>2, <1>3

\* A POST is rejected: what the panel has of its response is all there will be.
LEMMA BreakSse == ASSUME TypeOK, SseInv, NEW t \in Turns, BreakPost(t) PROVE SseInv'
<1>1. /\ t \in reading /\ reading' = reading \ {t} /\ "broken" \in slips' /\ reading \subseteq Turns
      /\ UNCHANGED <<length, reply, streamReq, streamText>>
      /\ \A u \in Turns \ {t} : stage'[u] = stage[u]
  BY DEF BreakPost, TypeOK
<1>2. \A u \in reading' : (Reading(u) => Reading(u)') /\ (Silent(u) => Silent(u)')
  BY <1>1, SameReply
<1>3. reply' \in [Turns -> Seq(Replies)]
  BY <1>1 DEF SseInv
<1>4. CASE streamReq # Sse \/ \A u \in reading : Silent(u)
  BY <1>1, <1>2, <1>3, <1>4 DEF SseInv
<1>5. ASSUME streamReq = Sse, NEW r \in reading, Reading(r), \A u \in reading \ {r} : Silent(u)
      PROVE  SseInv'
  <2>1. Sse # None
    BY NamesAssumption
  <2>2. CASE r = t
    BY <1>1, <1>2, <1>3, <1>5, <2>1, <2>2 DEF SseInv
  <2>3. CASE r # t
    <3>1. r \in reading' /\ Reading(r)' /\ \A u \in reading' \ {r} : Silent(u)'
      BY <1>1, <1>2, <1>5, <2>3
    <3> QED
      BY <1>1, <1>3, <1>5, <2>1, <3>1 DEF SseInv
  <2> QED
    BY <2>2, <2>3
<1> QED
  BY <1>4, <1>5 DEF SseInv

LEMMA PanelSse ==
    ASSUME TypeOK, EarlyInv, SseInv, "interrupted" \notin slips',
           \/ Catching \/ Render \/ Open \/ Close \/ Reload \/ Cancel
           \/ \E t \in Turns : BreakPost(t) \/ Send(t) \/ Post(t)
           \/ \E p \in Problems : SwitchProblem(p)
    PROVE  SseInv'
<1>1. CASE Render \/ Cancel \/ Open \/ Close \/ \E p \in Problems : SwitchProblem(p)
  BY <1>1, UnchangedSse DEF Render, Cancel, Open, Close, SwitchProblem
<1>2. CASE Catching
  <2>1. ASSUME NEW i \in DOMAIN gets, ReadThread(i) \/ ShowThread(i) \/ LoseThread(i) PROVE SseInv'
    BY <2>1, UnchangedSse DEF ReadThread, ShowThread, LoseThread
  <2> QED
    BY <1>2, <2>1 DEF Catching
<1>3. CASE Reload
  <2>1. UNCHANGED reply /\ reading' = {} /\ streamReq' = None /\ streamText' = <<>> /\ Sse # None
    BY <1>3, NamesAssumption DEF Reload
  <2> QED
    BY <2>1 DEF SseInv
<1> QED
  BY <1>1, <1>2, <1>3, AskSse, BreakSse
----------------------------------------------------------------------------
(* Lists: what a recursive definition computes, place by place *)

LEMMA Least ==
    ASSUME NEW T \in SUBSET Nat, T # {}
    PROVE  \E m \in T : \A n \in T : m <= n
<1> DEFINE less == {pair \in Nat \X Nat : pair[1] < pair[2]}
<1>1. IsWellFoundedOn(less, Nat)
  BY NatLessThanWellFounded, IsWellFoundedOnSubrelation DEF OpToRel
<1>2. PICK m \in T : \A n \in T : <<n, m>> \notin less
  BY <1>1, WFMin
<1>3. ASSUME NEW n \in T PROVE m <= n
  <2>1. n \in Nat /\ m \in Nat /\ <<n, m>> \notin less
    BY <1>2
  <2>2. n < m => <<n, m>> \in less
    BY <2>1
  <2> HIDE DEF less
  <2> QED
    BY <2>1, <2>2
<1> QED
  BY <1>3

\* Step by step from a, staying in X.
LEMMA RunExists ==
    ASSUME NEW X, NEW a \in X, NEW m \in Nat, NEW F \in [1..m -> [X -> X]]
    PROVE  \E f \in [0..m -> X] : f[0] = a /\ \A n \in 1..m : f[n] = F[n][f[n - 1]]
<1> DEFINE Run(f, k) == f \in [0..k -> X] /\ f[0] = a /\ \A n \in 1..k : f[n] = F[n][f[n - 1]]
           T == {k \in 0..m : ~\E f : Run(f, k)}
<1>1. SUFFICES ASSUME T # {} PROVE FALSE
  <2>1. m \in 0..m
    OBVIOUS
  <2>2. T = {} => \E f : Run(f, m)
    BY <2>1
  <2> QED
    BY <2>2
<1>2. PICK k \in T : \A n \in T : k <= n
  <2>1. T \in SUBSET Nat
    OBVIOUS
  <2> HIDE DEF T
  <2> QED
    BY <1>1, <2>1, Least
<1>3. CASE k = 0
  <2>1. PICK f : f = [n \in 0..0 |-> a]
    OBVIOUS
  <2>2. Run(f, 0)
    BY <2>1
  <2> QED
    BY <1>2, <1>3, <2>2
<1>4. CASE k # 0
  <2>1. k \in 1..m /\ k - 1 \in 0..m /\ k - 1 \notin T
    <3>1. k \in 0..m
      BY <1>2
    <3>2. k \in 1..m /\ k - 1 \in 0..m /\ ~(k <= k - 1)
      BY <1>4, <3>1
    <3> HIDE DEF T
    <3> QED
      BY <1>2, <3>2
  <2>2. PICK f : Run(f, k - 1)
    BY <2>1
  <2>3. PICK g : g = [n \in 0..k |-> IF n = k THEN F[k][f[k - 1]] ELSE f[n]]
    OBVIOUS
  <2>4. f[k - 1] \in X /\ F[k] \in [X -> X]
    BY <2>1, <2>2
  <2>5. F[k][f[k - 1]] \in X
    BY <2>4
  <2>6. g \in [0..k -> X] /\ g[0] = a
    BY <2>1, <2>2, <2>3, <2>5
  <2>7. ASSUME NEW n \in 1..k PROVE g[n] = F[n][g[n - 1]]
    <3>1. CASE n = k
      <4>1. k - 1 # k /\ k - 1 \in 0..k /\ k \in 0..k
        BY <2>1
      <4> QED
        BY <2>3, <3>1, <4>1
    <3>2. CASE n # k
      <4>1. n \in 1..(k - 1) /\ n \in 0..k /\ n - 1 \in 0..k /\ n - 1 # k
        BY <2>1, <3>2
      <4> QED
        BY <2>2, <2>3, <3>2, <4>1
    <3> QED
      BY <3>1, <3>2
  <2>8. Run(g, k)
    BY <2>6, <2>7
  <2> QED
    BY <1>2, <2>8
<1> QED
  BY <1>3, <1>4

\* Two that start alike and go on alike come to the same.
LEMMA SameRun ==
    ASSUME NEW m \in Nat, NEW f, NEW g, f[0] = g[0], \A n \in 1..m : f[n - 1] = g[n - 1] => f[n] = g[n]
    PROVE  f[m] = g[m]
<1> DEFINE T == {n \in 0..m : f[n] # g[n]}
<1>1. SUFFICES ASSUME T # {} PROVE FALSE
  <2>1. m \in 0..m
    OBVIOUS
  <2> QED
    BY <2>1
<1>2. PICK n \in T : \A k \in T : n <= k
  <2>1. T \in SUBSET Nat
    OBVIOUS
  <2> HIDE DEF T
  <2> QED
    BY <1>1, <2>1, Least
<1>3. n \in 1..m /\ n - 1 \in 0..m /\ ~(n <= n - 1)
  BY <1>2
<1>4. f[n - 1] = g[n - 1]
  BY <1>2, <1>3
<1> QED
  BY <1>2, <1>3, <1>4

LEMMA KeptIsSeq ==
    ASSUME NEW S, NEW s \in Seq(S), NEW K
    PROVE  Kept(s, K) \in Seq(S)
<1> DEFINE IsKept(f) ==
        f = [n \in 0..Len(s) |-> IF n = 0 THEN <<>>
                                 ELSE IF n \in K THEN Append(f[n - 1], s[n]) ELSE f[n - 1]]
           F == [n \in 1..Len(s) |-> [x \in Seq(S) |-> IF n \in K THEN Append(x, s[n]) ELSE x]]
           c == CHOOSE f : IsKept(f)
<1>1. Len(s) \in Nat /\ <<>> \in Seq(S) /\ F \in [1..Len(s) -> [Seq(S) -> Seq(S)]]
  <2>1. Len(s) \in Nat /\ <<>> \in Seq(S)
    OBVIOUS
  <2>2. ASSUME NEW n \in 1..Len(s), NEW x \in Seq(S)
        PROVE  (IF n \in K THEN Append(x, s[n]) ELSE x) \in Seq(S)
    <3>1. s[n] \in S
      OBVIOUS
    <3> QED
      BY <3>1, Put
  <2> QED
    BY <2>1, <2>2
<1>2. PICK f \in [0..Len(s) -> Seq(S)] : f[0] = <<>> /\ \A n \in 1..Len(s) : f[n] = F[n][f[n - 1]]
  <2>1. PICK X, m, a : X = Seq(S) /\ m = Len(s) /\ a = <<>>
    OBVIOUS
  <2>2. m \in Nat /\ a \in X /\ F \in [1..m -> [X -> X]]
    BY <1>1, <2>1
  <2> HIDE DEF F
  <2>3. \E f \in [0..m -> X] : f[0] = a /\ \A n \in 1..m : f[n] = F[n][f[n - 1]]
    BY <2>2, RunExists, SMTT(30)
  <2> QED
    BY <2>1, <2>3
<1>3. \A n \in 1..Len(s) : n - 1 \in 0..Len(s) /\ n \in 0..Len(s) /\ n # 0
  BY <1>1
<1>4. \A n \in 1..Len(s) : f[n] = IF n \in K THEN Append(f[n - 1], s[n]) ELSE f[n - 1]
  BY <1>2, <1>3
<1>5. IsKept(f)
  <2>1. f = [n \in 0..Len(s) |-> f[n]]
    OBVIOUS
  <2>2. \A n \in 0..Len(s) : f[n] = IF n = 0 THEN <<>> ELSE IF n \in K THEN Append(f[n - 1], s[n]) ELSE f[n - 1]
    <3> TAKE n \in 0..Len(s)
    <3>1. CASE n = 0
      BY <1>2, <3>1
    <3>2. CASE n \in 1..Len(s)
      <4>1. n # 0
        BY <1>3, <3>2
      <4>2. f[n] = IF n \in K THEN Append(f[n - 1], s[n]) ELSE f[n - 1]
        BY <1>4, <3>2
      <4> HIDE DEF F, IsKept, c
      <4> QED
        BY <4>1, <4>2, Zenon
    <3> QED
      BY <1>1, <3>1, <3>2
  <2> QED
    BY <2>1, <2>2
<1>6. IsKept(c)
  BY <1>5
<1>7. Kept(s, K) = c[Len(s)]
  BY DEF Kept
<1> HIDE DEF F, c
<1>8. c[0] = <<>> /\ \A n \in 1..Len(s) : c[n] = IF n \in K THEN Append(c[n - 1], s[n]) ELSE c[n - 1]
  <2>1. 0 \in 0..Len(s)
    BY <1>1
  <2>2. c[0] = <<>>
    BY <1>6, <2>1
  <2>3. ASSUME NEW n \in 1..Len(s) PROVE c[n] = IF n \in K THEN Append(c[n - 1], s[n]) ELSE c[n - 1]
    <3>1. n \in 0..Len(s) /\ n # 0
      BY <1>3
    <3> QED
      BY <1>6, <3>1
  <2> QED
    BY <2>2, <2>3
<1>9. c[Len(s)] = f[Len(s)]
  <2>1. \A n \in 1..Len(s) : c[n - 1] = f[n - 1] => c[n] = f[n]
    BY <1>4, <1>8
  <2>2. PICK m \in Nat : m = Len(s)
    BY <1>1
  <2>3. c[0] = f[0] /\ \A n \in 1..m : c[n - 1] = f[n - 1] => c[n] = f[n]
    BY <1>2, <1>8, <2>1, <2>2
  <2>4. c[m] = f[m]
    BY <2>2, <2>3, SameRun
  <2> QED
    BY <2>2, <2>4
<1> QED
  BY <1>1, <1>7, <1>9

\* What is left when an element is taken out.
LEMMA Removed == ASSUME NEW S, NEW s \in Seq(S), NEW i \in DOMAIN s PROVE RemoveAt(s, i) \in Seq(S)
<1>1. i \in 1..Len(s) /\ Len(s) \in Nat
  OBVIOUS
<1>2. SubSeq(s, 1, i - 1) \in Seq(S) /\ SubSeq(s, i + 1, Len(s)) \in Seq(S)
  BY <1>1
<1> QED
  BY <1>2 DEF RemoveAt

----------------------------------------------------------------------------
(* What the panel has on its lists *)

Bubbles == [role : {"user", "assistant", "note"}, text : Pieces, streaming : BOOLEAN]
Sound == {b \in Bubbles : InOrder(b.text)}
Updates == [kind : {"delta", "bubble", "finalize", "note", "append", "set"}, rows : Seq(Sound)]
Requests == [problem : Problems, rows : Seq(Sound), read : BOOLEAN]

\* All the texts it shows, or will show, are in order.
ListsInv ==
    /\ messages \in Seq(Sound) /\ updates \in Seq(Updates) /\ gets \in Seq(Requests)
    /\ streamText \in Pieces /\ InOrder(streamText)
    /\ log \in Seq({"user", "assistant"} \X Turns)

LEMMA SoundGrows ==
    ASSUME slips \subseteq slips'
    PROVE  /\ Seq(Sound) \subseteq Seq(Sound)' /\ Seq(Updates) \subseteq Seq(Updates)'
           /\ Seq(Requests) \subseteq Seq(Requests)'
<1>1. Sound \subseteq Sound'
  <2> SUFFICES ASSUME NEW b \in Sound PROVE b \in Sound'
    OBVIOUS
  <2>1. b \in Bubbles /\ InOrder(b.text)
    BY DEF Sound
  <2>2. \A x : InOrder(x) => InOrder(x)'
    BY OrderGrows
  <2>3. b \in Bubbles' /\ InOrder(b.text)'
    BY <2>1, <2>2 DEF Bubbles, Pieces, InOrder
  <2> QED
    BY <2>3 DEF Sound
<1>2. \A A, B : A \subseteq B => Seq(A) \subseteq Seq(B)
  OBVIOUS
<1>3. Seq(Sound) \subseteq Seq(Sound)'
  BY <1>1, <1>2
<1>4. Updates \subseteq Updates' /\ Requests \subseteq Requests'
  BY <1>3 DEF Updates, Requests
<1> QED
  BY <1>2, <1>3, <1>4

LEMMA ListsStill ==
    ASSUME slips \subseteq slips', messages' \in Seq(Sound), updates' \in Seq(Updates), gets' \in Seq(Requests),
           streamText' \in Pieces, InOrder(streamText)', log' \in Seq({"user", "assistant"} \X Turns)
    PROVE  ListsInv'
<1>1. messages' \in Seq(Sound)' /\ updates' \in Seq(Updates)' /\ gets' \in Seq(Requests)'
  BY SoundGrows
<1>2. streamText' \in Pieces'
  BY DEF Pieces
<1> QED
  BY <1>1, <1>2 DEF ListsInv, Pieces

\* The bubbles the panel makes.
LEMMA Made ==
    /\ \A x \in Pieces, role \in {"user", "assistant", "note"}, s \in BOOLEAN :
           InOrder(x) => Bubble(role, x, s) \in Sound
    /\ Bubble("assistant", <<>>, TRUE) \in Sound /\ Bubble("note", <<>>, FALSE) \in Sound
    /\ \A t \in Turns : Question(t) \in Sound
<1>1. ASSUME NEW x \in Pieces, NEW role \in {"user", "assistant", "note"}, NEW s \in BOOLEAN, InOrder(x)
      PROVE  Bubble(role, x, s) \in Sound
  BY <1>1 DEF Bubble, Bubbles, Sound
<1>2. <<>> \in Pieces /\ InOrder(<<>>)
  BY NoText
<1>3. ASSUME NEW t \in Turns PROVE <<Piece(t, 0)>> \in Pieces /\ InOrder(<<Piece(t, 0)>>)
  <2>1. <<>> \o <<Piece(t, 0)>> = <<Piece(t, 0)>>
    OBVIOUS
  <2>2. <<>> \o <<Piece(t, 0)>> \in Pieces /\ InOrder(<<>> \o <<Piece(t, 0)>>)
    BY NextPiece
  <2> QED
    BY <2>1, <2>2
<1> QED
  BY <1>1, <1>2, <1>3 DEF Question

LEMMA ThreadIsSound ==
    ASSUME TypeOK, log \in Seq({"user", "assistant"} \X Turns), NEW p
    PROVE  Thread(p) \in Seq(Sound)
<1> DEFINE M == {"user", "assistant"} \X Turns
           K == {i \in DOMAIN log : OfProblem(p, log[i])}
<1>1. PICK rows : rows = Kept(log, K)
  OBVIOUS
<1>2. rows \in Seq(M)
  BY <1>1, KeptIsSeq
<1>3. ASSUME NEW m \in M PROVE Row(m) \in Sound
  <2>0. PICK l : l = length[m[2]] + IF m[2] \in noticed THEN 1 ELSE 0
    OBVIOUS
  <2>1. m[2] \in Turns /\ l \in Nat
    BY <2>0, BoundsAssumption DEF TypeOK
  <2>2. Text(m[2]) = Upto(m[2], l)
    BY <2>0 DEF Text, Upto
  <2>3. Text(m[2]) \in Pieces /\ InOrder(Text(m[2]))
    BY <2>1, <2>2, UptoIs
  <2> QED
    BY <2>1, <2>3, Made DEF Row
<1>4. Thread(p) = [i \in DOMAIN rows |-> Row(rows[i])]
  BY <1>1 DEF Thread
<1>5. DOMAIN rows = 1..Len(rows) /\ Len(rows) \in Nat /\ \A i \in DOMAIN rows : rows[i] \in M
  BY <1>2
<1> HIDE DEF M
<1>6. \A i \in 1..Len(rows) : Row(rows[i]) \in Sound
  BY <1>3, <1>5
<1>7. [i \in 1..Len(rows) |-> Row(rows[i])] \in Seq(Sound)
  BY <1>5, <1>6
<1> QED
  BY <1>4, <1>5, <1>7

\* What an update makes of a sound list is sound.
LEMMA AppliedIsSound ==
    ASSUME streamText \in Pieces, InOrder(streamText), NEW ms \in Seq(Sound), NEW u \in Updates
    PROVE  Applied(ms, u) \in Seq(Sound)
<1>1. u.kind \in {"delta", "bubble", "finalize", "note", "append", "set"} /\ u.rows \in Seq(Sound)
  BY DEF Updates
<1>2. /\ Bubble("assistant", streamText, TRUE) \in Sound /\ Bubble("assistant", <<>>, TRUE) \in Sound
      /\ Bubble("note", <<>>, FALSE) \in Sound
  BY Made
<1>3. ASSUME NEW b \in Sound PROVE ReplaceLast(ms, b) \in Seq(Sound) /\ Append(ms, b) \in Seq(Sound)
  <2>1. Append(ms, b) \in Seq(Sound)
    BY <1>3
  <2>2. PICK r : r = ReplaceLast(ms, b)
    OBVIOUS
  <2>3. Len(ms) \in Nat /\ r = [i \in 1..Len(ms) |-> IF i = Len(ms) THEN b ELSE ms[i]]
    <3>1. DOMAIN ms = 1..Len(ms) /\ Len(ms) \in Nat
      OBVIOUS
    <3>2. ms = [i \in 1..Len(ms) |-> ms[i]]
      OBVIOUS
    <3> QED
      BY <2>2, <3>1, <3>2 DEF ReplaceLast
  <2>4. \A i \in 1..Len(ms) : ms[i] \in Sound
    OBVIOUS
  <2>5. r \in Seq(Sound)
    BY <1>3, <2>3, <2>4
  <2> QED
    BY <2>1, <2>2, <2>5
<1>4. WithDelta(ms) \in Seq(Sound) /\ WithBubble(ms) \in Seq(Sound) /\ WithNote(ms) \in Seq(Sound)
  BY <1>2, <1>3 DEF WithDelta, WithBubble, WithNote
<1>5. Finalized(ms) \in Seq(Sound)
  <2>1. CASE LastStreams(ms)
    <3>1. Len(ms) \in DOMAIN ms /\ ms[Len(ms)] \in Sound
      BY <2>1 DEF LastStreams
    <3>2. [ms[Len(ms)] EXCEPT !.streaming = FALSE] \in Sound
      BY <3>1 DEF Sound, Bubbles
    <3>3. Finalized(ms) = ReplaceLast(ms, [ms[Len(ms)] EXCEPT !.streaming = FALSE])
      BY <2>1 DEF Finalized, ReplaceLast
    <3> QED
      BY <1>3, <3>2, <3>3
  <2>2. CASE ~LastStreams(ms)
    BY <2>2 DEF Finalized
  <2> QED
    BY <2>1, <2>2
<1>6. ms \o u.rows \in Seq(Sound)
  BY <1>1
<1> QED
  BY <1>1, <1>4, <1>5, <1>6 DEF Applied

\* What the updates make of the list is sound.
LEMMA RenderedIsSound == ASSUME ListsInv PROVE Rendered \in Seq(Sound)
<1> DEFINE IsShown(f) ==
        f = [n \in 0..Len(updates) |-> IF n = 0 THEN messages ELSE Applied(f[n - 1], updates[n])]
           F == [n \in 1..Len(updates) |-> [x \in Seq(Sound) |-> Applied(x, updates[n])]]
           c == CHOOSE f : IsShown(f)
<1>1. /\ Len(updates) \in Nat /\ messages \in Seq(Sound)
      /\ \A n \in 1..Len(updates) : updates[n] \in Updates
      /\ \A n \in 1..Len(updates) : \A x \in Seq(Sound) : Applied(x, updates[n]) \in Seq(Sound)
  <2>1. Len(updates) \in Nat /\ messages \in Seq(Sound) /\ \A n \in 1..Len(updates) : updates[n] \in Updates
    BY DEF ListsInv
  <2> QED
    BY <2>1, AppliedIsSound DEF ListsInv
<1>2. PICK f \in [0..Len(updates) -> Seq(Sound)] :
          f[0] = messages /\ \A n \in 1..Len(updates) : f[n] = F[n][f[n - 1]]
  <2>1. PICK X, m : X = Seq(Sound) /\ m = Len(updates)
    OBVIOUS
  <2>2. F \in [1..m -> [X -> X]]
    BY <1>1, <2>1
  <2>3. m \in Nat /\ messages \in X
    BY <1>1, <2>1
  <2> HIDE DEF F
  <2>4. \E f \in [0..m -> X] : f[0] = messages /\ \A n \in 1..m : f[n] = F[n][f[n - 1]]
    BY <2>2, <2>3, RunExists, SMTT(30)
  <2> QED
    BY <2>1, <2>4
<1>3. \A n \in 1..Len(updates) : n - 1 \in 0..Len(updates) /\ n \in 0..Len(updates) /\ n # 0
  BY <1>1
<1>4. \A n \in 1..Len(updates) : f[n] = Applied(f[n - 1], updates[n])
  BY <1>2, <1>3
<1>5. IsShown(f)
  <2>1. f = [n \in 0..Len(updates) |-> f[n]]
    OBVIOUS
  <2>2. \A n \in 0..Len(updates) : f[n] = IF n = 0 THEN messages ELSE Applied(f[n - 1], updates[n])
    <3> TAKE n \in 0..Len(updates)
    <3>1. n = 0 \/ n \in 1..Len(updates)
      OBVIOUS
    <3> QED
      BY <1>2, <1>3, <1>4, <3>1
  <2> QED
    BY <2>1, <2>2
<1>6. IsShown(c)
  BY <1>5
<1>7. Rendered = c[Len(updates)]
  BY DEF Rendered
<1> HIDE DEF F, c
<1>8. c[0] = messages /\ \A n \in 1..Len(updates) : c[n] = Applied(c[n - 1], updates[n])
  <2>1. 0 \in 0..Len(updates)
    BY <1>1
  <2>2. c[0] = messages
    BY <1>6, <2>1
  <2>3. ASSUME NEW n \in 1..Len(updates) PROVE c[n] = Applied(c[n - 1], updates[n])
    <3>1. n \in 0..Len(updates) /\ n # 0
      BY <1>3
    <3> QED
      BY <1>6, <3>1
  <2> QED
    BY <2>2, <2>3
<1>9. c[Len(updates)] = f[Len(updates)]
  <2>1. \A n \in 1..Len(updates) : c[n - 1] = f[n - 1] => c[n] = f[n]
    BY <1>4, <1>8
  <2>2. PICK m \in Nat : m = Len(updates)
    BY <1>1
  <2>3. c[0] = f[0] /\ \A n \in 1..m : c[n - 1] = f[n - 1] => c[n] = f[n]
    BY <1>2, <1>8, <2>1, <2>2
  <2>4. c[m] = f[m]
    BY <2>2, <2>3, SameRun
  <2> QED
    BY <2>2, <2>4
<1> QED
  BY <1>1, <1>7, <1>9

----------------------------------------------------------------------------
(* ListsInv: the steps *)

LEMMA Listed ==
    ASSUME NEW S, NEW a \in S, NEW b \in S
    PROVE  <<>> \in Seq(S) /\ <<a>> \in Seq(S) /\ <<a, b>> \in Seq(S)
OBVIOUS

LEMMA SetSound ==
    ASSUME ListsInv, NEW us \in Seq(Updates), SetMessages(us)
    PROVE  updates' \in Seq(Updates)
BY DEF SetMessages, ListsInv

LEMMA OneUpdate ==
    /\ \A kind \in {"delta", "bubble", "finalize", "note", "append", "set"} :
           <<Update(kind, <<>>)>> \in Seq(Updates)
    /\ \A rows \in Seq(Sound), kind \in {"append", "set"} : <<Update(kind, rows)>> \in Seq(Updates)
<1>1. <<>> \in Seq(Sound)
  OBVIOUS
<1>2. ASSUME NEW rows \in Seq(Sound), NEW kind \in {"delta", "bubble", "finalize", "note", "append", "set"}
      PROVE  <<Update(kind, rows)>> \in Seq(Updates)
  <2>1. Update(kind, rows) \in Updates
    BY DEF Update, Updates
  <2> QED
    BY <2>1
<1> QED
  BY <1>1, <1>2

LEMMA RequestMade == ASSUME TypeOK, NEW p \in Problems PROVE Request(p) \in Requests
<1>1. <<>> \in Seq(Sound)
  OBVIOUS
<1> QED
  BY <1>1 DEF Request, Requests

LEMMA Asks == ASSUME TypeOK, ListsInv, loadMessages PROVE gets' \in Seq(Requests)
<1>1. Request(problem) \in Requests
  BY RequestMade DEF TypeOK
<1> QED
  BY <1>1 DEF loadMessages, ListsInv

LEMMA TurnSlips == ASSUME NEW t \in Turns, Turn(t) PROVE slips \subseteq slips'
BY DEF Turn, Register, Refuse, Delta, EndStream, Save, Settle, Over, SaveAgain, panel

LEMMA HandlerSlips == ASSUME Handler PROVE slips \subseteq slips'
BY DEF Handler, Ready, Replay, ReplayText, EndReplay, Pump, ReceiveChat, SwapPump, ReceiveCancel, Over, panel

LEMMA ThreadSlips ==
    ASSUME NEW i \in DOMAIN gets, ReadThread(i) \/ ShowThread(i) \/ LoseThread(i)
    PROVE  slips \subseteq slips'
BY DEF ReadThread, ShowThread, LoseThread

LEMMA ServerLists ==
    ASSUME TypeOK, ListsInv, (\E t \in Turns : Turn(t)) \/ Handler
    PROVE  ListsInv'
<1>1. UNCHANGED <<messages, updates, gets, streamText>> /\ slips \subseteq slips'
  <2>1. ASSUME NEW t \in Turns, Turn(t)
        PROVE  UNCHANGED <<messages, updates, gets, streamText>> /\ slips \subseteq slips'
    BY <2>1, TurnSlips DEF Turn, Register, Refuse, Delta, EndStream, Save, Settle, SaveAgain, panel, stream
  <2>2. CASE Handler
    BY <2>2, HandlerSlips DEF Handler, Ready, Replay, ReplayText, EndReplay, Pump, ReceiveChat, SwapPump,
       ReceiveCancel, panel, stream
  <2> QED
    BY <2>1, <2>2
<1>2. log' \in Seq({"user", "assistant"} \X Turns)
  <2>1. log \in Seq({"user", "assistant"} \X Turns)
    BY DEF ListsInv
  <2>2. ASSUME NEW t \in Turns, log' = Append(log, <<"user", t>>) \/ log' = Append(log, <<"assistant", t>>)
        PROVE  log' \in Seq({"user", "assistant"} \X Turns)
    <3>1. PICK M : M = {"user", "assistant"} \X Turns
      OBVIOUS
    <3>2. <<"user", t>> \in M /\ <<"assistant", t>> \in M
      BY <3>1
    <3>3. log \in Seq(M)
      BY <2>1, <3>1
    <3>4. PICK m \in M : log' = Append(log, m)
      BY <2>2, <3>2
    <3>5. log' \in Seq(M)
      BY <3>3, <3>4
    <3> QED
      BY <3>1, <3>5
  <2>3. UNCHANGED log \/ \E t \in Turns : log' = Append(log, <<"user", t>>) \/ log' = Append(log, <<"assistant", t>>)
    <3>1. ASSUME NEW t \in Turns, Turn(t)
          PROVE  UNCHANGED log \/ log' = Append(log, <<"user", t>>) \/ log' = Append(log, <<"assistant", t>>)
      BY <3>1 DEF Turn, Register, Refuse, Delta, EndStream, Save, Settle, SaveAgain
    <3>2. CASE Handler
      BY <3>2 DEF Handler, Ready, Replay, ReplayText, EndReplay, Pump, ReceiveChat, SwapPump, ReceiveCancel, server
    <3> QED
      BY <3>1, <3>2
  <2> QED
    BY <2>1, <2>2, <2>3
<1>3. streamText' \in Pieces /\ InOrder(streamText)'
  <2>1. InOrder(streamText)'
    BY <1>1 DEF ListsInv, InOrder
  <2> QED
    BY <1>1, <2>1 DEF ListsInv
<1> QED
  BY <1>1, <1>2, <1>3, ListsStill DEF ListsInv

\* The lists of the panel, given that the text it will hold is in order.
LEMMA PanelLists ==
    ASSUME TypeOK, ListsInv, streamText' \in Pieces, InOrder(streamText)',
           \/ Messages \/ Catching \/ Render \/ Open \/ Close \/ Reload \/ Cancel
           \/ \E t \in Turns : OnReply(t) \/ BreakPost(t) \/ Send(t) \/ Post(t)
           \/ \E p \in Problems : SwitchProblem(p)
    PROVE  ListsInv'
<1> USE DEF ListsInv
<1>0. /\ \A kind \in {"delta", "bubble", "finalize", "note", "set"} :
             SetMessages(<<Update(kind, <<>>)>>) => updates' \in Seq(Updates)
      /\ \A kind \in {"append", "set"} : \A rows \in Seq(Sound) :
             SetMessages(<<Update(kind, rows)>>) => updates' \in Seq(Updates)
  BY OneUpdate, SetSound
<1>1. CASE Messages
  <2>1. UNCHANGED <<messages, log>> /\ slips \subseteq slips'
    BY <1>1 DEF Messages, OnReady, OnTurnStart, OnReplay, OnDelta, OnTurnEnd, OnError, Finish
  <2>2. UNCHANGED gets \/ loadMessages
    BY <1>1 DEF Messages, OnReady, OnTurnStart, OnReplay, OnDelta, OnTurnEnd, OnError
  <2>3. UNCHANGED updates \/ \E kind \in {"delta", "bubble", "finalize", "note"} : SetMessages(<<Update(kind, <<>>)>>)
    BY <1>1 DEF Messages, OnReady, OnTurnStart, OnReplay, OnDelta, OnTurnEnd, OnError, Finish, appendDelta
  <2> QED
    BY <1>0, <2>1, <2>2, <2>3, Asks, ListsStill
<1>2. CASE Render
  <2>1. messages' \in Seq(Sound)
    BY <1>2, RenderedIsSound DEF Render
  <2> QED
    BY <1>2, <2>1, ListsStill DEF Render
<1>3. CASE Open \/ Close \/ Cancel
  <2>1. UNCHANGED <<messages, updates, log>> /\ slips \subseteq slips' /\ (UNCHANGED gets \/ loadMessages)
    BY <1>3 DEF Open, Close, Cancel
  <2> QED
    BY <2>1, Asks, ListsStill
<1>4. CASE Reload
  <2>1. Request(FirstProblem) \in Requests /\ UNCHANGED <<slips, log>>
    BY <1>4, RequestMade, NamesAssumption DEF Reload
  <2>2. messages' \in Seq(Sound) /\ updates' \in Seq(Updates) /\ gets' \in Seq(Requests)
    BY <1>4, <2>1 DEF Reload
  <2> QED
    BY <2>1, <2>2, ListsStill
<1>5. ASSUME NEW t \in Turns, OnReply(t) PROVE ListsInv'
  <2>1. UNCHANGED <<messages, gets, log>> /\ slips \subseteq slips'
    BY <1>5 DEF OnReply, Finish
  <2>2. UNCHANGED updates \/ \E kind \in {"delta", "finalize"} : SetMessages(<<Update(kind, <<>>)>>)
    BY <1>5 DEF OnReply, Finish, appendDelta
  <2> QED
    BY <1>0, <2>1, <2>2, ListsStill
<1>6. ASSUME NEW t \in Turns, Send(t) \/ Post(t) PROVE ListsInv'
  <2>1. UNCHANGED <<messages, gets, log>> /\ slips \subseteq slips'
    BY <1>6 DEF Send, Post
  <2>2. <<Question(t)>> \in Seq(Sound) /\ <<Question(t), Bubble("assistant", <<>>, TRUE)>> \in Seq(Sound)
    <3>1. Question(t) \in Sound /\ Bubble("assistant", <<>>, TRUE) \in Sound
      BY Made
    <3> QED
      BY <3>1, Listed
  <2>3. updates' \in Seq(Updates)
    BY <1>0, <1>6, <2>2 DEF Send, Post
  <2> QED
    BY <2>1, <2>3, ListsStill
<1>7. ASSUME NEW p \in Problems, SwitchProblem(p) PROVE ListsInv'
  <2>1. UNCHANGED <<messages, log, slips>> /\ SetMessages(<<Update("set", <<>>)>>) /\ gets' = Append(gets, Request(p))
    BY <1>7 DEF SwitchProblem
  <2>2. gets' \in Seq(Requests)
    BY <2>1, RequestMade
  <2> QED
    BY <1>0, <2>1, <2>2, ListsStill
<1>8. ASSUME NEW i \in DOMAIN gets, ReadThread(i) PROVE ListsInv'
  <2>1. UNCHANGED <<messages, updates, log, slips>>
    BY <1>8 DEF ReadThread
  <2>2. gets[i] \in Requests /\ Thread(gets[i].problem) \in Seq(Sound)
    BY ThreadIsSound
  <2>3. [gets[i] EXCEPT !.rows = Thread(gets[i].problem), !.read = TRUE] \in Requests
    BY <2>2 DEF Requests
  <2>4. gets' \in Seq(Requests)
    BY <1>8, <2>3 DEF ReadThread
  <2> QED
    BY <2>1, <2>4, ListsStill
<1>9. ASSUME NEW i \in DOMAIN gets, ShowThread(i) PROVE ListsInv'
  <2>1. UNCHANGED <<messages, log>> /\ slips \subseteq slips' /\ gets' = RemoveAt(gets, i)
    BY <1>9 DEF ShowThread
  <2>2. gets' \in Seq(Requests)
    BY <2>1, Removed
  <2> DEFINE open == IF streamingVisible THEN <<Bubble("assistant", streamText, TRUE)>> ELSE <<>>
  <2>3. open \in Seq(Sound) /\ gets[i].rows \in Seq(Sound)
    <3>1. Bubble("assistant", streamText, TRUE) \in Sound
      BY Made
    <3>2. open \in Seq(Sound)
      BY <3>1, Listed
    <3>3. gets[i] \in Requests
      OBVIOUS
    <3> QED
      BY <3>2, <3>3 DEF Requests
  <2>4. SetMessages(<<Update("set", gets[i].rows \o open)>>)
    BY <1>9 DEF ShowThread
  <2> HIDE DEF open
  <2>5. gets[i].rows \o open \in Seq(Sound)
    BY <2>3
  <2> QED
    BY <1>0, <2>1, <2>2, <2>4, <2>5, ListsStill
<1>10. ASSUME NEW i \in DOMAIN gets, LoseThread(i) PROVE ListsInv'
  <2>1. UNCHANGED <<messages, updates, log>> /\ slips \subseteq slips' /\ gets' = RemoveAt(gets, i)
    BY <1>10 DEF LoseThread
  <2>2. gets' \in Seq(Requests)
    BY <2>1, Removed
  <2> QED
    BY <2>1, <2>2, ListsStill
<1>11. ASSUME NEW t \in Turns, BreakPost(t) PROVE ListsInv'
  <2>1. UNCHANGED <<messages, updates, gets, log>> /\ slips \subseteq slips'
    BY <1>11 DEF BreakPost, panel
  <2> QED
    BY <2>1, ListsStill
<1> QED
  BY <1>1, <1>2, <1>3, <1>4, <1>5, <1>6, <1>7, <1>8, <1>9, <1>10, <1>11 DEF Catching
----------------------------------------------------------------------------
(* TextInOrder *)

TextInv == "interrupted" \notin slips => ListsInv /\ EarlyInv /\ HeardInv /\ SseInv

LEMMA SlipsGrow == Next => slips \subseteq slips'
<1> SUFFICES ASSUME Next PROVE slips \subseteq slips'
  OBVIOUS
<1>1. ASSUME NEW t \in Turns, Turn(t) PROVE slips \subseteq slips'
  BY <1>1, TurnSlips
<1>2. ASSUME NEW t \in Turns, OnReply(t) \/ BreakPost(t) \/ Send(t) \/ Post(t) PROVE slips \subseteq slips'
  BY <1>2 DEF OnReply, Finish, BreakPost, Send, Post
<1>3. CASE Messages
  BY <1>3 DEF Messages, OnReady, OnTurnStart, OnReplay, OnDelta, OnTurnEnd, OnError, Finish
<1>4. CASE Catching
  BY <1>4, ThreadSlips DEF Catching
<1>5. CASE Render \/ Open \/ Close \/ Reload \/ Cancel \/ \E p \in Problems : SwitchProblem(p)
  BY <1>5 DEF Render, Open, Close, Reload, Cancel, SwitchProblem
<1> QED
  BY <1>1, <1>2, <1>3, <1>4, <1>5, HandlerSlips DEF Next

LEMMA EmptyText == ASSUME streamText' = <<>> PROVE streamText' \in Pieces /\ InOrder(streamText)'
<1>1. <<>> \in Pieces /\ DOMAIN <<>> = {} /\ Breaks(<<>>) = {}
  BY NoText DEF Breaks
<1> QED
  BY <1>1 DEF InOrder

\* The text the panel holds stays in order: what it has taken is among what it was told.
LEMMA HeldInOrder ==
    ASSUME TypeOK, WiresInv, ListsInv, HeardInv', Messages
    PROVE  streamText' \in Pieces /\ InOrder(streamText)'
<1>1. CASE UNCHANGED streamText
  <2>1. slips \subseteq slips'
    BY DEF Messages, OnReady, OnTurnStart, OnReplay, OnDelta, OnTurnEnd, OnError, Finish
  <2> QED
    BY <1>1, <2>1 DEF ListsInv, InOrder
<1>2. CASE streamText' = <<>>
  BY <1>2, EmptyText
<1>3. CASE OnDelta /\ streamReq = Head(down).turn
  <2>1. streamReq' = streamReq /\ down # <<>> /\ Head(down).type = "delta"
    BY <1>3 DEF OnDelta, appendDelta, Take
  <2>2. Head(down).turn \in Turns
    BY <2>1, Taken, Told DEF WiresInv
  <2>3. PICK t \in Turns : streamReq' = t
    BY <1>3, <2>1, <2>2
  <2>4. \E n \in Nat : \E told : Heard(t, n, told)'
    BY DEF HeardInv
  <2>5. PICK n \in Nat : \E told : Heard(t, n, told)'
    BY <2>4
  <2>6. PICK told : Heard(t, n, told)'
    BY <2>5
  <2>7. streamText' \in told[0] /\ told \in [0..Len(down') -> SUBSET Pieces] /\ 0 \in 0..Len(down')
    <3>1. Len(down') \in Nat
      BY <1>3, <2>1, Taken DEF OnDelta, Take, WiresInv
    <3> QED
      BY <2>3, <2>6, <3>1 DEF Heard, Tells, Pieces
  <2>8. InOrder(streamText)'
    BY <2>6, <2>7 DEF Heard, Tells, InOrder
  <2> QED
    BY <2>7, <2>8
<1> QED
  BY <1>1, <1>2, <1>3 DEF Messages, OnReady, OnTurnStart, OnReplay, OnDelta, OnTurnEnd, OnError, Finish,
     finalizeStream, appendDelta, ReplayFrom

LEMMA TextStep == LockInv /\ TextInv /\ [Next]_vars => TextInv'
<1> SUFFICES ASSUME LockInv, TextInv, [Next]_vars, "interrupted" \notin slips'
             PROVE  ListsInv' /\ EarlyInv' /\ HeardInv' /\ SseInv'
  BY DEF TextInv
<1>0. TypeOK /\ WiresInv /\ AskedInv /\ ApartInv /\ HandlerInv
  BY DEF LockInv
<1>1. CASE UNCHANGED vars
  <2>1. slips' = slips
    BY <1>1 DEF vars
  <2>2. ListsInv /\ EarlyInv /\ HeardInv /\ SseInv
    BY <2>1 DEF TextInv
  <2>3. EarlyInv' /\ SseInv'
    BY <1>1, <2>2, UnchangedSse DEF vars, EarlyInv
  <2>4. HeardInv'
    BY <1>1, <2>2, HeardStill DEF vars, WaitsOn, OverStays, NoticesStay
  <2>5. ListsInv'
    BY <1>1, <2>2, ListsStill DEF vars, ListsInv, InOrder
  <2> QED
    BY <2>3, <2>4, <2>5
<1>2. CASE Next
  <2>1. slips \subseteq slips'
    BY <1>2, SlipsGrow
  <2>2. ListsInv /\ EarlyInv /\ HeardInv /\ SseInv
    BY <2>1 DEF TextInv
  <2>3. streamText \in Pieces /\ InOrder(streamText)
    BY <2>2 DEF ListsInv
  <2>4. ASSUME NEW t \in Turns, Turn(t) PROVE ListsInv' /\ EarlyInv' /\ HeardInv' /\ SseInv'
    BY <1>0, <2>2, <2>4, ServerLists, EarlyTurn, TurnHeard, TurnSse
  <2>5. CASE Handler
    BY <1>0, <2>2, <2>5, ServerLists, EarlyHandler, HandlerHeard, HandlerSse
  <2>6. CASE Messages
    <3>1. EarlyInv' /\ HeardInv' /\ SseInv'
      BY <1>0, <2>2, <2>6, EarlyPanel, MessagesHeard, MessagesSse
    <3>2. streamText' \in Pieces /\ InOrder(streamText)'
      BY <1>0, <2>2, <2>6, <3>1, HeldInOrder
    <3> QED
      BY <1>0, <2>2, <2>6, <3>1, <3>2, PanelLists
  <2>7. ASSUME NEW t \in Turns, OnReply(t) PROVE ListsInv' /\ EarlyInv' /\ HeardInv' /\ SseInv'
    <3>1. EarlyInv' /\ HeardInv'
      BY <1>0, <2>2, <2>3, <2>7, EarlyPanel, PanelHeard
    <3>2. SseInv' /\ streamText' \in Pieces /\ InOrder(streamText)'
      <4>1. CASE Head(reply[t]).type = "delta"
        BY <1>0, <2>2, <2>3, <2>7, <4>1, ReplyDelta
      <4>2. CASE Head(reply[t]).type # "delta"
        <5>1. SseInv' /\ streamText' = <<>>
          BY <1>0, <2>2, <2>7, <4>2, ReplyEnd
        <5> QED
          BY <5>1, EmptyText
      <4> QED
        BY <4>1, <4>2
    <3> QED
      BY <1>0, <2>2, <2>7, <3>1, <3>2, PanelLists
  <2>8. CASE \/ Catching \/ Render \/ Open \/ Close \/ Reload \/ Cancel
             \/ \E t \in Turns : BreakPost(t) \/ Send(t) \/ Post(t)
             \/ \E p \in Problems : SwitchProblem(p)
    <3>1. EarlyInv' /\ HeardInv'
      BY <1>0, <2>2, <2>3, <2>8, EarlyPanel, PanelHeard
    <3>2. SseInv'
      BY <1>0, <2>2, <2>8, PanelSse
    <3>3. streamText' \in Pieces /\ InOrder(streamText)'
      <4>1. UNCHANGED streamText \/ streamText' = <<>>
        <5>1. ASSUME NEW j \in DOMAIN gets, ReadThread(j) \/ ShowThread(j) \/ LoseThread(j)
              PROVE  UNCHANGED streamText
          BY <5>1 DEF ReadThread, ShowThread, LoseThread, stream
        <5>2. CASE Catching
          BY <5>1, <5>2 DEF Catching
        <5>3. ASSUME NEW t \in Turns, BreakPost(t) \/ Send(t) \/ Post(t)
              PROVE  UNCHANGED streamText \/ streamText' = <<>>
          BY <5>3 DEF BreakPost, Send, Post, panel, stream
        <5>4. CASE Render \/ Open \/ Close \/ Reload \/ Cancel \/ \E p \in Problems : SwitchProblem(p)
          BY <5>4 DEF Render, Open, Close, Reload, Cancel, SwitchProblem, stream
        <5> QED
          BY <2>8, <5>2, <5>3, <5>4
      <4>2. CASE UNCHANGED streamText
        BY <2>1, <2>3, <4>2 DEF InOrder
      <4> QED
        BY <4>1, <4>2, EmptyText
    <3> QED
      BY <1>0, <2>2, <2>8, <3>1, <3>2, <3>3, PanelLists
  <2> QED
    BY <1>2, <2>4, <2>5, <2>6, <2>7, <2>8 DEF Next
<1> QED
  BY <1>1, <1>2

LEMMA TextInit == Init => TextInv
<1> SUFFICES ASSUME Init PROVE ListsInv /\ EarlyInv /\ HeardInv /\ SseInv
  BY DEF TextInv
<1>1. ListsInv
  <2>1. Request(FirstProblem) \in Requests
    BY TypeInit, RequestMade, NamesAssumption
  <2>2. gets \in Seq(Requests) /\ messages \in Seq(Sound) /\ updates \in Seq(Updates)
    BY <2>1 DEF Init
  <2>3. streamText = <<>> /\ log \in Seq({"user", "assistant"} \X Turns)
    BY DEF Init
  <2>4. streamText \in Pieces /\ InOrder(streamText)
    BY <2>3, NoText
  <2> QED
    BY <2>2, <2>3, <2>4 DEF ListsInv
<1>2. EarlyInv
  BY DEF Init, EarlyInv
<1>3. HeardInv
  <2> SUFFICES ASSUME NEW s \in Turns PROVE \E n \in Nat : \E told : Heard(s, n, told)
    BY DEF HeardInv
  <2>1. PICK told : told = [k \in 0..0 |-> {}]
    OBVIOUS
  <2>2. /\ Len(down) = 0 /\ 0..0 = {0} /\ 1..0 = {} /\ streamReq # s
        /\ told[0] = {} /\ told \in [0..0 -> SUBSET Pieces]
    BY <2>1, NamesAssumption DEF Init
  <2>3. Tells(s, told)
    BY <2>2 DEF Tells
  <2>4. QueueHas(s, 0)
    BY DEF Init, QueueHas
  <2> QED
    BY <2>2, <2>3, <2>4 DEF Heard
<1>4. SseInv
  <2>1. reply \in [Turns -> Seq(Replies)] /\ reading = {} /\ streamReq = None /\ streamText = <<>> /\ Sse # None
    BY NamesAssumption DEF Init
  <2> QED
    BY <2>1 DEF SseInv
<1> QED
  BY <1>1, <1>2, <1>3, <1>4

LEMMA TextShows == TextInv => TextInOrder
<1> SUFFICES ASSUME TextInv, "interrupted" \notin slips, NEW i \in DOMAIN messages
             PROVE  LET x == messages[i].text
                    IN  /\ \A j \in DOMAIN x : x[j][1] = x[1][1]
                        /\ (x # <<>> => x[1][2] \in {0, 1})
                        /\ \A j \in Breaks(x) : x[j][2] <= x[j - 1][2]
                        /\ Cardinality(Breaks(x)) <= (IF "overlapped" \in slips THEN 1 ELSE 0)
  BY DEF TextInOrder
<1>1. InOrder(messages[i].text)
  <2>1. messages[i] \in Sound
    BY DEF TextInv, ListsInv
  <2> QED
    BY <2>1 DEF Sound
<1>2. PICK x : x = messages[i].text
  OBVIOUS
<1>3. Cardinality(Breaks(x)) <= (IF "overlapped" \in slips THEN 1 ELSE 0)
  <2>1. CASE Breaks(x) = {}
    <3>1. Cardinality(Breaks(x)) = 0
      BY <2>1, FS_EmptySet
    <3> QED
      BY <3>1
  <2>2. ASSUME "overlapped" \in slips, NEW b, Breaks(x) = {b}
        PROVE  Cardinality(Breaks(x)) <= (IF "overlapped" \in slips THEN 1 ELSE 0)
    <3>1. Cardinality(Breaks(x)) = 1
      BY <2>2, FS_Singleton
    <3> QED
      BY <2>2, <3>1
  <2> QED
    BY <1>1, <1>2, <2>1, <2>2 DEF InOrder
<1> QED
  BY <1>1, <1>2, <1>3 DEF InOrder

\* A bubble of the panel never mixes two answers, leaves out a piece in the middle or starts
\* in the middle, and repeats pieces at most once, where deltas were queued during a replay
\* (ai_ws.py replay and _pump, AiChat.tsx appendDelta and its callers): whatever breaks,
\* reconnects or is reloaded, for any number of turns and problems and answers of any length,
\* as long as no stream was interrupted by another.
THEOREM TextsInOrder == Spec => []TextInOrder
<1>1. Init => TextInv
  BY TextInit
<1>2. LockInv /\ TextInv /\ [Next]_vars => TextInv'
  BY TextStep
<1>3. TextInv => TextInOrder
  BY TextShows
<1>4. Spec => []LockInv
  BY LockKept
<1> QED
  BY <1>1, <1>2, <1>3, <1>4, PTL DEF Spec
=============================================================================
