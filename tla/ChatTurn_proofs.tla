--------------------------- MODULE ChatTurn_proofs ---------------------------
(***************************************************************************)
(* Proofs about ChatTurn: its types, that two turns of an attempt run at    *)
(* once only after a race, how far the quota can be exceeded, that no       *)
(* answer is lost without a fault nor stored twice unless a client left, and *)
(* that it implements QuestionLedger.                                       *)
(***************************************************************************)
EXTENDS ChatTurn, FiniteSetTheorems, TLAPS

LEMMA MessagesDiffer ==
    ASSUME NEW t \in Turns, NEW u \in Turns, NEW p \in {"user", "assistant"}, NEW q \in {"user", "assistant"},
           Message(p, t) = Message(q, u)
    PROVE  p = q /\ t = u
BY DEF Message

\* Appending a message adds exactly that message to what is written.
LEMMA AppendWrites ==
    ASSUME log \in Seq(Messages), NEW p \in {"user", "assistant"}, NEW t \in Turns,
           log' = Append(log, Message(p, t)),
           NEW q \in {"user", "assistant"}, NEW u \in Turns
    PROVE  Written(q, u)' <=> Written(q, u) \/ (q = p /\ u = t)
<1>1. Written(q, u) => Written(q, u)'
    <2> SUFFICES ASSUME NEW i \in DOMAIN log, log[i] = Message(q, u) PROVE Written(q, u)'
        BY DEF Written
    <2>1. i \in DOMAIN log' /\ log'[i] = log[i]
        OBVIOUS
    <2> QED
        BY <2>1 DEF Written, Message
<1>2. q = p /\ u = t => Written(q, u)'
    <2>1. Len(log) + 1 \in DOMAIN log' /\ log'[Len(log) + 1] = Message(p, t)
        OBVIOUS
    <2> QED
        BY <2>1 DEF Written, Message
<1>3. ASSUME Written(q, u)' PROVE Written(q, u) \/ (q = p /\ u = t)
    <2>1. PICK i \in DOMAIN log' : log'[i] = Message(q, u)
        BY <1>3 DEF Written, Message
    <2>2. CASE i = Len(log) + 1
        <3>1. Message(p, t) = Message(q, u)
            BY <2>1, <2>2
        <3> QED
            BY <3>1, MessagesDiffer
    <2>3. CASE i # Len(log) + 1
        <3>1. i \in DOMAIN log /\ log[i] = Message(q, u)
            BY <2>1, <2>3
        <3> QED
            BY <3>1 DEF Written
    <2> QED
        BY <2>2, <2>3
<1> QED
    BY <1>1, <1>2, <1>3

\* What a step does to the questions and answers on record.
LEMMA AppendAsks ==
    ASSUME log \in Seq(Messages), NEW t \in Turns, log' = Append(log, Message("user", t)), NEW u \in Turns
    PROVE  /\ Asked(u)' <=> Asked(u) \/ u = t
           /\ Answered(u)' <=> Answered(u)
BY AppendWrites DEF Asked, Answered

LEMMA AppendAnswers ==
    ASSUME log \in Seq(Messages), NEW t \in Turns, log' = Append(log, Message("assistant", t)), NEW u \in Turns
    PROVE  /\ Asked(u)' <=> Asked(u)
           /\ Answered(u)' <=> Answered(u) \/ u = t
BY AppendWrites DEF Asked, Answered

LEMMA EmptyLog == ASSUME log = <<>>, NEW u \in Turns PROVE ~Asked(u) /\ ~Answered(u)
BY DEF Asked, Answered, Written

LEMMA SameLog ==
    ASSUME UNCHANGED log, NEW u \in Turns
    PROVE  (Asked(u)' <=> Asked(u)) /\ (Answered(u)' <=> Answered(u))
BY DEF Asked, Answered, Written, Message

LEMMA ResetLog == ASSUME log' = <<>>, NEW u \in Turns PROVE ~Asked(u)' /\ ~Answered(u)'
BY DEF Asked, Answered, Written, Message

----------------------------------------------------------------------------
(* Types *)

LEMMA InitTypeOK == Init => TypeOK
<1> SUFFICES ASSUME Init PROVE TypeOK
    OBVIOUS
<1>1. log \in Seq(Messages)
    BY DEF Init
<1> QED
    BY <1>1 DEF Init, TypeOK, Stages, FaultKinds

LEMMA SpendType == ASSUME TypeOK, NEW k \in FaultKinds, Spend(k) PROVE faults' \in [FaultKinds -> Nat]
BY DEF TypeOK, Spend

LEMMA NextTypeOK == TypeOK /\ [Next]_vars => TypeOK'
<1> SUFFICES ASSUME TypeOK, [Next]_vars PROVE TypeOK'
    OBVIOUS
<1> USE DEF TypeOK
<1>0. \A t \in Turns, role \in {"user", "assistant"} : Message(role, t) \in Messages
    BY DEF Messages
<1>1. ASSUME NEW t \in Turns, Admit(t) PROVE TypeOK'
    <2>1. CASE CheckActive(t)
        BY <2>1 DEF CheckActive, database, Stages, Admission
    <2>2. CASE ReadAttempt(t)
        BY <2>2 DEF ReadAttempt, database, Stages, Admission
    <2>3. CASE CountTurns(t)
        BY <2>3 DEF CountTurns, database, Stages, Admission
    <2>4. CASE RecordQuestion(t)
        <3>1. /\ turn' \in [Turns -> Stages]
              /\ \A u \in Turns \ Sockets : turn'[u] \notin {"checked", "recorded", "created", "killed"}
            BY <2>4 DEF RecordQuestion, RecordedStage, Stages, Admission, Working
        <3>2. log' \in Seq(Messages)
            <4>1. Append(log, Message("user", t)) \in Seq(Messages)
                BY <1>0
            <4>2. log' = log \/ log' = Append(log, Message("user", t))
                BY <2>4 DEF RecordQuestion
            <4> QED
                BY <4>1, <4>2
        <3> QED
            BY <2>4, <3>1, <3>2 DEF RecordQuestion
    <2>5. CASE Register(t)
        <3>1. t \in Sockets
            BY <2>5 DEF Register
        <3>2. /\ turn' \in [Turns -> Stages]
              /\ \A u \in Turns \ Sockets : turn'[u] \notin {"checked", "recorded", "created", "killed"}
            BY <2>5, <3>1 DEF Register, Stages, Working
        <3> QED
            BY <2>5, <3>1, <3>2 DEF Register, database
    <2> QED
        BY <1>1, <2>1, <2>2, <2>3, <2>4, <2>5 DEF Admit
<1>2. ASSUME NEW t \in Turns, Generate(t) PROVE TypeOK'
    BY <1>2
    DEF Generate, Begin, Kill, Delta, EndStream, Settle, CutShort, LeaveStream,
        Unregistered, Shielded, database, Stages, Working
<1>3. ASSUME NEW t \in Turns, Save(t) PROVE TypeOK'
    <2>1. CASE SaveCommits(t)
        <3>1. log' \in Seq(Messages)
            <4>1. Append(log, Message("assistant", t)) \in Seq(Messages)
                BY <1>0
            <4>2. log' = log \/ log' = Append(log, Message("assistant", t))
                BY <2>1 DEF SaveCommits
            <4> QED
                BY <4>1, <4>2
        <3>2. refunded' \subseteq Turns
            BY <2>1 DEF SaveCommits, Refund
        <3> QED
            BY <2>1, <3>1, <3>2 DEF SaveCommits
    <2>2. CASE SaveFails(t)
        <3>1. faults' \in [FaultKinds -> Nat]
            BY <2>2, SpendType DEF SaveFails, FaultKinds
        <3> QED
            BY <2>2, <3>1 DEF SaveFails, database
    <2> QED
        BY <1>3, <2>1, <2>2 DEF Save
<1>4. CASE Others
    <2>1. CASE CancelTurn
        BY <2>1 DEF CancelTurn, database
    <2>2. CASE CloseAttempt
        BY <2>2 DEF CloseAttempt
    <2>3. CASE ResetAttempt
        <3>1. log' \in Seq(Messages)
            BY <2>3 DEF ResetAttempt
        <3> QED
            BY <2>3, <3>1 DEF ResetAttempt
    <2>4. CASE ApiCrash
        <3>1. faults' \in [FaultKinds -> Nat]
            BY <2>4, SpendType DEF ApiCrash, FaultKinds
        <3> QED
            BY <2>4, <3>1 DEF ApiCrash, database, Stages
    <2> QED
        BY <1>4, <2>1, <2>2, <2>3, <2>4 DEF Others
<1>5. CASE UNCHANGED vars
    BY <1>5 DEF vars, database
<1> QED
    BY <1>1, <1>2, <1>3, <1>4, <1>5 DEF Next

\* Every variable of the chat keeps its type in every reachable state.
THEOREM TypeCorrect == Spec => []TypeOK
BY InitTypeOK, NextTypeOK, PTL DEF Spec

----------------------------------------------------------------------------
(* One turn at a time *)

Busy(t) == turn[t] \in Admission \cup Working

\* A step that makes no socket turn busy and leaves the registry to the busy
\* ones keeps the invariant.
LEMMA RaceFrame ==
    ASSUME RaceInv, raced' = raced,
           \A t \in Sockets : Busy(t)' => Busy(t),
           \A t \in Sockets : turn'[t] \in Working => turn[t] \in Working /\ active' = active
    PROVE  RaceInv'
BY DEF RaceInv, Busy

LEMMA RaceAdmit ==
    ASSUME TypeOK, RaceInv, NEW t \in Turns, Admit(t)
    PROVE  RaceInv'
<1> /\ turn \in [Turns -> Stages]
    /\ \A u \in Turns \ Sockets : turn[u] \notin {"checked", "recorded", "created", "killed"}
    BY DEF TypeOK
<1>1. CASE CheckActive(t)
    <2> SUFFICES ASSUME ~raced' PROVE RaceInv'
        BY DEF RaceInv
    <2>1. /\ ~raced
          /\ \A u \in Sockets : turn[u] \notin Admission
        BY <1>1, TurnsAssumption DEF CheckActive, Admitting
    <2>2. \A u \in Sockets : turn[u] \notin Working
        BY <1>1, <2>1, TurnsAssumption DEF CheckActive, Free, RaceInv
    <2>3. turn' = [turn EXCEPT ![t] = "checked"]
        BY <1>1 DEF CheckActive
    <2>4. \A u \in Sockets : Busy(u)' => u = t
        BY <2>1, <2>2, <2>3, TurnsAssumption DEF Busy
    <2>5. \A u \in Sockets : turn'[u] \notin Working
        BY <2>2, <2>3, TurnsAssumption DEF Working
    <2> QED
        BY <2>4, <2>5 DEF RaceInv, Busy
<1>2. CASE ReadAttempt(t)
    <2>1. /\ turn' = [turn EXCEPT ![t] = IF attempt = "open" THEN "open" ELSE "refused"]
          /\ turn[t] = "checked" \/ t \notin Sockets
          /\ UNCHANGED <<active, raced>>
        BY <1>2 DEF ReadAttempt
    <2> QED
        BY <2>1, RaceFrame, TurnsAssumption DEF Busy, Admission, Working
<1>3. CASE CountTurns(t)
    <2>1. /\ turn' = [turn EXCEPT ![t] = IF QuotaLeft THEN "counted" ELSE "refused"]
          /\ turn[t] = "open"
          /\ UNCHANGED <<active, raced>>
        BY <1>3 DEF CountTurns
    <2> QED
        BY <2>1, RaceFrame, TurnsAssumption DEF Busy, Admission, Working
<1>4. CASE RecordQuestion(t)
    <2>1. /\ \/ turn' = [turn EXCEPT ![t] = RecordedStage(t)]
             \/ turn' = [turn EXCEPT ![t] = "refused"]
          /\ turn[t] = "counted"
          /\ UNCHANGED <<active, raced>>
        BY <1>4 DEF RecordQuestion
    <2>2. t \in Sockets => RecordedStage(t) = "recorded"
        BY DEF RecordedStage
    <2> QED
        BY <2>1, <2>2, RaceFrame, TurnsAssumption DEF Busy, Admission, Working
<1>5. CASE Register(t)
    <2>1. /\ turn' = [turn EXCEPT ![t] = "created"]
          /\ turn[t] = "recorded"
          /\ active' = t
          /\ raced' = raced
        BY <1>5 DEF Register
    <2>2. t \in Sockets
        BY <2>1
    <2> QED
        BY <2>1, <2>2, TurnsAssumption DEF RaceInv, Admission, Working
<1> QED
    BY <1>1, <1>2, <1>3, <1>4, <1>5 DEF Admit

LEMMA RaceGenerate ==
    ASSUME TypeOK, RaceInv, NEW t \in Turns, Generate(t)
    PROVE  RaceInv'
<1> turn \in [Turns -> Stages]
    BY DEF TypeOK
<1>1. CASE Begin(t) \/ Kill(t) \/ Delta(t) \/ EndStream(t) \/ LeaveStream(t)
    <2>1. /\ UNCHANGED <<active, raced>>
          /\ \A u \in Sockets : turn'[u] = turn[u] \/ (turn[u] \in Working /\ turn'[u] \in Working \cup {"killed", "cut"})
        BY <1>1, TurnsAssumption DEF Begin, Kill, Delta, EndStream, LeaveStream, Working
    <2> QED
        BY <2>1, RaceFrame DEF Busy, Admission, Working
<1>2. CASE Settle(t) \/ CutShort(t)
    <2>1. /\ turn[t] = "persisting"
          /\ \E end \in {"over", "cut"} : turn' = [turn EXCEPT ![t] = end]
          /\ raced' = raced
          /\ t \notin Sockets => active' = active
        BY <1>2 DEF Settle, CutShort, Unregistered
    <2>2. CASE t \in Sockets
        <3> SUFFICES ASSUME ~raced PROVE RaceInv'
            BY <2>1 DEF RaceInv
        <3>1. \A u \in Sockets : Busy(u) => u = t
            BY <2>1, <2>2 DEF RaceInv, Busy, Working
        <3>2. \A u \in Sockets : ~Busy(u)'
            BY <2>1, <3>1, TurnsAssumption DEF Busy, Admission, Working
        <3> QED
            BY <3>2 DEF RaceInv, Busy
    <2>3. CASE t \notin Sockets
        BY <2>1, <2>3, RaceFrame, TurnsAssumption DEF Busy
    <2> QED
        BY <2>2, <2>3
<1> QED
    BY <1>1, <1>2 DEF Generate

LEMMA RaceStep == TypeOK /\ RaceInv /\ [Next]_vars => RaceInv'
<1> SUFFICES ASSUME TypeOK, RaceInv, [Next]_vars PROVE RaceInv'
    OBVIOUS
<1> turn \in [Turns -> Stages]
    BY DEF TypeOK
<1>1. ASSUME NEW t \in Turns, Save(t) PROVE RaceInv'
    BY <1>1, RaceFrame DEF Save, SaveCommits, SaveFails, Busy
<1>2. CASE CancelTurn \/ CloseAttempt \/ ResetAttempt
    BY <1>2, RaceFrame DEF CancelTurn, CloseAttempt, ResetAttempt, Busy
<1>3. CASE ApiCrash
    <2>1. /\ raced' = raced
          /\ \A u \in Sockets : ~Busy(u)'
        BY <1>3, TurnsAssumption DEF ApiCrash, Busy, Admission, Working
    <2> QED
        BY <2>1 DEF RaceInv, Busy
<1>4. CASE UNCHANGED vars
    BY <1>4, RaceFrame DEF vars, Busy
<1> QED
    BY <1>1, <1>2, <1>3, <1>4, RaceAdmit, RaceGenerate DEF Next, Others

\* Without a race between two requests, the turns of an attempt run one at a time,
\* however they are cancelled, cut short, killed or lost.
THEOREM OneTurnAtATime == Spec => []OneTurnUnlessRaced
<1>1. Init => RaceInv
    BY TurnsAssumption DEF Init, RaceInv, Admission, Working
<1>2. TypeOK /\ RaceInv /\ [Next]_vars => RaceInv'
    BY RaceStep
<1>3. RaceInv => OneTurnUnlessRaced
    BY DEF RaceInv, OneTurnUnlessRaced, Running
<1> QED
    BY <1>1, <1>2, <1>3, TypeCorrect, PTL DEF Spec

----------------------------------------------------------------------------
(* The quota *)

LEMMA Finite == ASSUME NEW S \in SUBSET Turns PROVE IsFiniteSet(S) /\ Cardinality(S) \in Nat
BY TurnsAssumption, FS_Subset, FS_CardinalityType

LEMMA SmallerSet ==
    ASSUME NEW S \in SUBSET Turns, NEW T \in SUBSET S PROVE Cardinality(T) <= Cardinality(S)
BY Finite, FS_Subset

LEMMA OneMore ==
    ASSUME NEW S \in SUBSET Turns, NEW t \in Turns, NEW T \in SUBSET (S \cup {t})
    PROVE  Cardinality(T) <= Cardinality(S) + 1
<1>1. Cardinality(T) <= Cardinality(S \cup {t})
    BY SmallerSet
<1>2. Cardinality(S \cup {t}) <= Cardinality(S) + 1
    BY Finite, FS_AddElement
<1>3. /\ Cardinality(T) \in Nat
      /\ Cardinality(S) \in Nat
      /\ Cardinality(S \cup {t}) \in Nat
    BY Finite
<1> QED
    BY <1>1, <1>2, <1>3

LEMMA OneLess ==
    ASSUME NEW S \in SUBSET Turns, NEW t \in S
    PROVE  Cardinality(S \ {t}) = Cardinality(S) - 1
BY Finite, FS_RemoveElement

\* A step that charges nothing new, counts and admits nobody, keeps both bounds.
LEMMA QuotaFrame ==
    ASSUME AdmitInv, QuotaOverrunBounded,
           Charged' \subseteq Charged, Counted' \subseteq Counted, Admitting' \subseteq Admitting
    PROVE  AdmitInv' /\ QuotaOverrunBounded'
<1>1. /\ Cardinality(Charged') <= Cardinality(Charged)
      /\ Cardinality(Counted') <= Cardinality(Counted)
      /\ Cardinality(Admitting') <= Cardinality(Admitting)
    BY SmallerSet DEF Charged, Counted, Admitting
<1>2. /\ Cardinality(Charged) \in Nat /\ Cardinality(Charged') \in Nat
      /\ Cardinality(Counted) \in Nat /\ Cardinality(Counted') \in Nat
      /\ Cardinality(Admitting) \in Nat /\ Cardinality(Admitting') \in Nat
    BY Finite DEF Charged, Counted, Admitting
<1> QED
    BY <1>1, <1>2, LimitsAssumption DEF AdmitInv, QuotaOverrunBounded

LEMMA QuotaAdmit ==
    ASSUME TypeOK, AdmitInv, QuotaOverrunBounded, NEW t \in Turns, Admit(t)
    PROVE  AdmitInv' /\ QuotaOverrunBounded'
<1> /\ turn \in [Turns -> Stages]
    /\ log \in Seq(Messages)
    BY DEF TypeOK
<1>0. /\ Charged \in SUBSET Turns /\ Counted \in SUBSET Turns /\ Admitting \in SUBSET Turns
      /\ Charged' \in SUBSET Turns /\ Counted' \in SUBSET Turns /\ Admitting' \in SUBSET Turns
    BY DEF Charged, Counted, Admitting
<1>N. /\ Cardinality(Charged) \in Nat /\ Cardinality(Charged') \in Nat
      /\ Cardinality(Counted) \in Nat /\ Cardinality(Counted') \in Nat
      /\ Cardinality(Admitting) \in Nat /\ Cardinality(Admitting') \in Nat
    BY <1>0, Finite
<1>1. ASSUME UNCHANGED database PROVE Charged' = Charged
    BY <1>1, SameLog DEF Charged, database
<1>2. CASE CheckActive(t) \/ ReadAttempt(t)
    <2>1. /\ \/ turn' = [turn EXCEPT ![t] = "checked"]
             \/ turn' = [turn EXCEPT ![t] = "open"]
             \/ turn' = [turn EXCEPT ![t] = "refused"]
          /\ t \in Admitting \/ Cardinality(Admitting) < Tabs
          /\ UNCHANGED database
        BY <1>2 DEF CheckActive, ReadAttempt, Admitting, Admission
    <2>2. Counted' \subseteq Counted /\ Admitting' \subseteq Admitting \cup {t}
        BY <2>1 DEF Counted, Admitting, Admission
    <2>3. CASE t \in Admitting
        BY <1>1, <2>1, <2>2, <2>3, QuotaFrame
    <2>4. CASE Cardinality(Admitting) < Tabs
        <3>1. Cardinality(Admitting') <= Cardinality(Admitting) + 1
            BY <1>0, <2>2, OneMore
        <3>2. Cardinality(Counted') <= Cardinality(Counted)
            BY <1>0, <2>2, SmallerSet
        <3> QED
            BY <1>N, <1>1, <2>1, <2>4, <3>1, <3>2, LimitsAssumption DEF AdmitInv, QuotaOverrunBounded
    <2> QED
        BY <2>1, <2>3, <2>4
<1>3. CASE CountTurns(t)
    <2>1. /\ turn[t] = "open"
          /\ turn' = [turn EXCEPT ![t] = IF QuotaLeft THEN "counted" ELSE "refused"]
          /\ UNCHANGED database
        BY <1>3 DEF CountTurns
    <2>2. Admitting' \subseteq Admitting
        BY <2>1 DEF Admitting, Admission
    <2>3. CASE QuotaLeft
        <3>1. Cardinality(Counted') <= Cardinality(Admitting') /\ Cardinality(Admitting') <= Cardinality(Admitting)
            <4>1. Counted' \subseteq Admitting'
                BY DEF Counted, Admitting, Admission
            <4> QED
                BY <1>0, <2>2, <4>1, SmallerSet
        <3>2. Cardinality(Charged') < MaxTurns
            BY <1>1, <2>1, <2>3 DEF QuotaLeft
        <3> QED
            BY <1>N, <3>1, <3>2, LimitsAssumption DEF AdmitInv, QuotaOverrunBounded
    <2>4. CASE ~QuotaLeft
        <3>1. Counted' \subseteq Counted
            BY <2>1, <2>4 DEF Counted
        <3> QED
            BY <1>1, <2>1, <2>2, <3>1, QuotaFrame
    <2> QED
        BY <2>3, <2>4
<1>4. CASE RecordQuestion(t)
    <2>1. turn[t] = "counted" /\ refunded' = refunded
        BY <1>4 DEF RecordQuestion
    <2>2. CASE log' = log
        <3>1. Charged' = Charged
            BY <2>1, <2>2, SameLog DEF Charged
        <3>2. \E stage \in {"recorded", "streaming", "refused"} : turn' = [turn EXCEPT ![t] = stage]
            BY <1>4 DEF RecordQuestion, RecordedStage
        <3>3. Counted' \subseteq Counted /\ Admitting' \subseteq Admitting
            BY <2>1, <3>2 DEF Counted, Admitting, Admission
        <3> QED
            BY <3>1, <3>3, QuotaFrame
    <2>3. CASE log' = Append(log, Message("user", t)) /\ turn' = [turn EXCEPT ![t] = RecordedStage(t)]
        <3>1. Charged' \subseteq Charged \cup {t}
            BY <2>1, <2>3, AppendAsks DEF Charged
        <3>2. Counted' = Counted \ {t} /\ t \in Counted
            BY <2>1, <2>3 DEF Counted, RecordedStage
        <3>3. Admitting' \subseteq Admitting
            BY <2>1, <2>3 DEF Admitting, Admission, RecordedStage
        <3>4. Cardinality(Charged') <= Cardinality(Charged) + 1
            BY <1>0, <3>1, OneMore
        <3>5. Cardinality(Counted') = Cardinality(Counted) - 1
            BY <1>0, <3>2, OneLess
        <3>6. Cardinality(Admitting') <= Cardinality(Admitting)
            BY <1>0, <3>3, SmallerSet
        <3> QED
            BY <1>N, <3>4, <3>5, <3>6, LimitsAssumption DEF AdmitInv, QuotaOverrunBounded
    <2> QED
        BY <1>4, <2>2, <2>3 DEF RecordQuestion
<1>5. CASE Register(t)
    <2>1. turn' = [turn EXCEPT ![t] = "created"] /\ UNCHANGED database
        BY <1>5 DEF Register
    <2>2. Counted' \subseteq Counted /\ Admitting' \subseteq Admitting
        BY <2>1 DEF Counted, Admitting, Admission
    <2> QED
        BY <1>1, <2>1, <2>2, QuotaFrame
<1> QED
    BY <1>2, <1>3, <1>4, <1>5 DEF Admit

LEMMA QuotaStep ==
    TypeOK /\ AdmitInv /\ QuotaOverrunBounded /\ [Next]_vars => AdmitInv' /\ QuotaOverrunBounded'
<1> SUFFICES ASSUME TypeOK, AdmitInv, QuotaOverrunBounded, [Next]_vars
             PROVE  AdmitInv' /\ QuotaOverrunBounded'
    OBVIOUS
<1> /\ turn \in [Turns -> Stages]
    /\ log \in Seq(Messages)
    BY DEF TypeOK
<1>1. ASSUME NEW t \in Turns, Generate(t) PROVE AdmitInv' /\ QuotaOverrunBounded'
    <2>1. /\ UNCHANGED database
          /\ \E stage \in {"streaming", "persisting", "over", "cut", "killed"} :
                turn' = turn \/ turn' = [turn EXCEPT ![t] = stage]
        BY <1>1 DEF Generate, Begin, Kill, Delta, EndStream, Settle, CutShort, LeaveStream
    <2>2. Charged' = Charged
        BY <2>1, SameLog DEF Charged, database
    <2>3. Counted' \subseteq Counted /\ Admitting' \subseteq Admitting
        BY <2>1 DEF Counted, Admitting, Admission
    <2> QED
        BY <2>2, <2>3, QuotaFrame
<1>2. ASSUME NEW t \in Turns, Save(t) PROVE AdmitInv' /\ QuotaOverrunBounded'
    <2>1. turn' = turn /\ refunded \subseteq refunded'
        BY <1>2 DEF Save, SaveCommits, SaveFails, database
    <2>2. log' = log \/ log' = Append(log, Message("assistant", t))
        BY <1>2 DEF Save, SaveCommits, SaveFails, database
    <2>3. \A u \in Turns : Asked(u)' <=> Asked(u)
        BY <2>2, SameLog, AppendAnswers
    <2>4. Charged' \subseteq Charged
        BY <2>1, <2>3 DEF Charged
    <2> QED
        BY <2>1, <2>4, QuotaFrame DEF Counted, Admitting
<1>3. CASE ResetAttempt
    <2>1. Charged' \subseteq Charged
        BY <1>3, ResetLog DEF ResetAttempt, Charged
    <2> QED
        BY <1>3, <2>1, QuotaFrame DEF ResetAttempt, Counted, Admitting
<1>4. CASE CancelTurn \/ CloseAttempt \/ ApiCrash \/ UNCHANGED vars
    <2>1. UNCHANGED <<log, refunded>>
        BY <1>4 DEF CancelTurn, CloseAttempt, ApiCrash, vars, database
    <2>2. Charged' = Charged
        BY <2>1, SameLog DEF Charged
    <2>3. \A u \in Turns : turn'[u] = turn[u] \/ turn'[u] = "lost"
        BY <1>4 DEF CancelTurn, CloseAttempt, ApiCrash, vars
    <2>4. Counted' \subseteq Counted /\ Admitting' \subseteq Admitting
        BY <2>3 DEF Counted, Admitting, Admission
    <2> QED
        BY <2>2, <2>4, QuotaFrame
<1> QED
    BY <1>1, <1>2, <1>3, <1>4, QuotaAdmit DEF Next, Others

LEMMA QuotaInit == Init => AdmitInv /\ QuotaOverrunBounded
<1> SUFFICES ASSUME Init PROVE AdmitInv /\ QuotaOverrunBounded
    OBVIOUS
<1>1. Charged = {} /\ Counted = {} /\ Admitting = {}
    BY EmptyLog DEF Init, Charged, Counted, Admitting, Admission
<1> QED
    BY <1>1, FS_EmptySet, LimitsAssumption DEF AdmitInv, QuotaOverrunBounded

\* The quota is exceeded by less than the number of requests admitted at once,
\* however questions are refunded, saved late, crashed or reset.
THEOREM QuotaHolds == Spec => []QuotaOverrunBounded
<1>1. Init => AdmitInv /\ QuotaOverrunBounded
    BY QuotaInit
<1>2. TypeOK /\ (AdmitInv /\ QuotaOverrunBounded) /\ [Next]_vars => (AdmitInv /\ QuotaOverrunBounded)'
    BY QuotaStep
<1> QED
    BY <1>1, <1>2, TypeCorrect, PTL DEF Spec

----------------------------------------------------------------------------
(* Questions, answers and refunds *)

SameMessages == \A u \in Turns : (Asked(u)' <=> Asked(u)) /\ (Answered(u)' <=> Answered(u))

LEMMA SameDatabase == UNCHANGED database => SameMessages
BY SameLog DEF SameMessages, database

Recorded == StageInv /\ RefundInv /\ LogInv

LEMMA RecordAdmit ==
    ASSUME TypeOK, Recorded, NEW t \in Turns, Admit(t)
    PROVE  Recorded'
<1> /\ turn \in [Turns -> Stages]
    /\ log \in Seq(Messages)
    BY DEF TypeOK
<1>1. CASE CheckActive(t) \/ ReadAttempt(t) \/ CountTurns(t) \/ Register(t)
    <2>1. UNCHANGED <<database, text, saving>>
        BY <1>1 DEF CheckActive, ReadAttempt, CountTurns, Register
    <2>2. SameMessages
        BY <2>1, SameDatabase
    <2>3. \/ /\ turn[t] \in {"idle", "checked", "open"}
             /\ \E stage \in {"checked", "open", "counted", "refused"} : turn' = [turn EXCEPT ![t] = stage]
          \/ turn[t] = "recorded" /\ turn' = [turn EXCEPT ![t] = "created"]
        BY <1>1 DEF CheckActive, ReadAttempt, CountTurns, Register
    <2>4. StageInv'
        BY <2>1, <2>2, <2>3 DEF Recorded, StageInv, SameMessages, database, Admission, Working
    <2>5. RefundInv' /\ LogInv'
        BY <2>1, <2>2 DEF Recorded, RefundInv, LogInv, SameMessages, database
    <2> QED
        BY <2>4, <2>5 DEF Recorded
<1>2. CASE RecordQuestion(t)
    <2>1. turn[t] = "counted" /\ UNCHANGED <<attempt, refunded, text, saving>>
        BY <1>2 DEF RecordQuestion
    <2>2. CASE attempt # "gone"
        <3>1. log' = Append(log, Message("user", t)) /\ turn' = [turn EXCEPT ![t] = RecordedStage(t)]
            BY <1>2, <2>2 DEF RecordQuestion
        <3>2. \A u \in Turns : (Asked(u)' <=> Asked(u) \/ u = t) /\ (Answered(u)' <=> Answered(u))
            BY <3>1, AppendAsks
        <3>3. RecordedStage(t) \in {"recorded", "streaming"}
            BY DEF RecordedStage
        <3>4. StageInv'
            BY <2>1, <2>2, <3>1, <3>2, <3>3 DEF Recorded, StageInv, Admission, Working
        <3>5. RefundInv' /\ LogInv'
            BY <2>1, <2>2, <3>2 DEF Recorded, RefundInv, LogInv
        <3> QED
            BY <3>4, <3>5 DEF Recorded
    <2>3. CASE attempt = "gone"
        <3>1. log' = log /\ turn' = [turn EXCEPT ![t] = "refused"]
            BY <1>2, <2>3 DEF RecordQuestion
        <3>2. SameMessages
            BY <3>1, SameLog DEF SameMessages
        <3>3. StageInv'
            BY <2>1, <3>1, <3>2 DEF Recorded, StageInv, SameMessages, Admission, Working
        <3>4. RefundInv' /\ LogInv'
            BY <2>1, <3>1, <3>2 DEF Recorded, RefundInv, LogInv, SameMessages
        <3> QED
            BY <3>3, <3>4 DEF Recorded
    <2> QED
        BY <2>2, <2>3
<1> QED
    BY <1>1, <1>2 DEF Admit

LEMMA RecordGenerate ==
    ASSUME TypeOK, Recorded, NEW t \in Turns, Generate(t)
    PROVE  Recorded'
<1> /\ turn \in [Turns -> Stages]
    /\ saving \in [Turns -> {"none", "pending", "ok", "failed"}]
    BY DEF TypeOK
<1>0. UNCHANGED database
    BY DEF Generate, Begin, Kill, Delta, EndStream, Settle, CutShort, LeaveStream
<1>1. SameMessages
    BY <1>0, SameDatabase
<1>2. text' = text \/ (text' = text \cup {t} /\ turn[t] = "streaming" /\ turn' = turn /\ saving' = saving)
    BY DEF Generate, Begin, Kill, Delta, EndStream, Settle, CutShort, LeaveStream
<1>3. RefundInv' /\ LogInv'
    <2>1. \A u \in Turns : Answered(u) => (u \in text' <=> u \in text)
        BY <1>2 DEF Recorded, StageInv
    <2> QED
        BY <1>0, <1>1, <2>1 DEF Recorded, RefundInv, LogInv, SameMessages, database
<1>4. StageInv'
    <2>1. CASE Begin(t) \/ Kill(t)
        BY <1>0, <1>1, <2>1
        DEF Begin, Kill, Recorded, StageInv, SameMessages, database, Admission, Working
    <2>2. CASE Delta(t)
        BY <1>0, <1>1, <2>2 DEF Delta, Recorded, StageInv, SameMessages, database, Admission, Working
    <2>3. CASE EndStream(t) \/ LeaveStream(t)
        BY <1>0, <1>1, <2>3
        DEF EndStream, LeaveStream, Recorded, StageInv, SameMessages, database, Admission, Working
    <2>4. CASE Settle(t)
        <3>1. saving[t] # "pending"
            BY <2>4 DEF Settle, Saved
        <3> QED
            BY <1>0, <1>1, <2>4, <3>1 DEF Settle, Recorded, StageInv, SameMessages, database, Admission, Working
    <2>5. CASE CutShort(t)
        BY <1>0, <1>1, <2>5 DEF CutShort, Shielded, Recorded, StageInv, SameMessages, database, Admission, Working
    <2> QED
        BY <2>1, <2>2, <2>3, <2>4, <2>5 DEF Generate
<1> QED
    BY <1>3, <1>4 DEF Recorded

LEMMA RecordSave ==
    ASSUME TypeOK, Recorded, NEW t \in Turns, Save(t)
    PROVE  Recorded'
<1> /\ saving \in [Turns -> {"none", "pending", "ok", "failed"}]
    /\ log \in Seq(Messages)
    BY DEF TypeOK
<1>1. /\ saving[t] = "pending"
      /\ UNCHANGED <<attempt, turn, text>>
      /\ \E s \in {"ok", "failed"} : saving' = [saving EXCEPT ![t] = s]
    BY DEF Save, SaveCommits, SaveFails, database
<1>2. turn[t] \in {"persisting", "cut"}
    BY <1>1 DEF Recorded, StageInv
<1>3. CASE UNCHANGED <<log, refunded>>
    <2>1. SameMessages
        BY <1>3, SameLog DEF SameMessages
    <2>2. StageInv'
        BY <1>1, <1>2, <2>1 DEF Recorded, StageInv, SameMessages, Admission, Working
    <2>3. RefundInv' /\ LogInv'
        BY <1>1, <1>3, <2>1 DEF Recorded, RefundInv, LogInv, SameMessages
    <2> QED
        BY <2>2, <2>3 DEF Recorded
<1>4. CASE /\ attempt # "gone"
           /\ log' = Append(log, Message("assistant", t))
           /\ refunded' = refunded \cup Refund(t)
    <2>1. \A u \in Turns : (Asked(u)' <=> Asked(u)) /\ (Answered(u)' <=> Answered(u) \/ u = t)
        BY <1>4, AppendAnswers
    <2>2. StageInv'
        BY <1>1, <1>2, <2>1 DEF Recorded, StageInv, Admission, Working
    <2>3. Asked(t)
        BY <1>2, <1>4 DEF Recorded, StageInv
    <2>4. RefundInv' /\ LogInv'
        BY <1>1, <1>4, <2>1, <2>3 DEF Recorded, RefundInv, LogInv, Refund
    <2> QED
        BY <2>2, <2>4 DEF Recorded
<1> QED
    BY <1>3, <1>4 DEF Save, SaveCommits, SaveFails, database

LEMMA RecordStep == TypeOK /\ Recorded /\ [Next]_vars => Recorded'
<1> SUFFICES ASSUME TypeOK, Recorded, [Next]_vars PROVE Recorded'
    OBVIOUS
<1> /\ turn \in [Turns -> Stages]
    /\ saving \in [Turns -> {"none", "pending", "ok", "failed"}]
    BY DEF TypeOK
<1>1. CASE CancelTurn \/ CloseAttempt \/ UNCHANGED vars
    <2>1. UNCHANGED <<log, refunded, turn, text, saving>> /\ (attempt' = "gone" <=> attempt = "gone")
        BY <1>1 DEF CancelTurn, CloseAttempt, vars, database
    <2>2. SameMessages
        BY <2>1, SameLog DEF SameMessages
    <2>3. StageInv'
        BY <2>1, <2>2 DEF Recorded, StageInv, SameMessages
    <2>4. RefundInv' /\ LogInv'
        BY <2>1, <2>2 DEF Recorded, RefundInv, LogInv, SameMessages
    <2> QED
        BY <2>3, <2>4 DEF Recorded
<1>2. CASE ResetAttempt
    <2>1. \A u \in Turns : ~Asked(u)' /\ ~Answered(u)'
        BY <1>2, ResetLog DEF ResetAttempt
    <2>2. StageInv'
        <3>1. UNCHANGED <<turn, text, saving>> /\ attempt' = "gone"
            BY <1>2 DEF ResetAttempt
        <3> QED
            BY <2>1, <3>1 DEF Recorded, StageInv
    <2>3. RefundInv' /\ LogInv'
        BY <1>2, <2>1 DEF ResetAttempt, RefundInv, LogInv
    <2> QED
        BY <2>2, <2>3 DEF Recorded
<1>3. CASE ApiCrash
    <2>1. /\ UNCHANGED <<database, text>>
          /\ \A u \in Turns :
                /\ turn'[u] = "lost" \/ (turn'[u] = turn[u] /\ turn[u] \notin Admission \cup Working)
                /\ saving'[u] # "pending"
                /\ saving[u] = "none" => saving'[u] = "none"
        BY <1>3 DEF ApiCrash
    <2>2. SameMessages
        BY <2>1, SameDatabase
    <2>3. StageInv'
        BY <2>1, <2>2 DEF Recorded, StageInv, SameMessages, database, Admission, Working
    <2>4. RefundInv' /\ LogInv'
        BY <2>1, <2>2 DEF Recorded, RefundInv, LogInv, SameMessages, database
    <2> QED
        BY <2>3, <2>4 DEF Recorded
<1>4. ASSUME NEW t \in Turns, Admit(t) \/ Generate(t) \/ Save(t) PROVE Recorded'
    BY <1>4, RecordAdmit, RecordGenerate, RecordSave
<1> QED
    BY <1>1, <1>2, <1>3, <1>4 DEF Next, Others

LEMMA RecordInit == Init => Recorded
<1> SUFFICES ASSUME Init PROVE Recorded
    OBVIOUS
<1>1. \A u \in Turns : ~Asked(u) /\ ~Answered(u)
    BY EmptyLog DEF Init
<1> QED
    BY <1>1 DEF Init, Recorded, StageInv, RefundInv, LogInv, Admission, Working

\* At every stage of a turn the log, the buffer, the saving and the refunds agree:
\* a question is marked failed exactly when its answer was stored empty.
THEOREM RecordsAgree == Spec => []Recorded
<1>1. Init => Recorded
    BY RecordInit
<1>2. TypeOK /\ Recorded /\ [Next]_vars => Recorded'
    BY RecordStep
<1> QED
    BY <1>1, <1>2, TypeCorrect, PTL DEF Spec

----------------------------------------------------------------------------
(* No answer is lost *)

NoFault == \A k \in FaultKinds : faults[k] = 0

LEMMA FaultsStay ==
    ASSUME TypeOK, NEW k \in FaultKinds, Spend(k) PROVE ~NoFault'
BY DEF TypeOK, Spend, NoFault

LEMMA FaultsGrow == TypeOK /\ [Next]_vars /\ NoFault' => UNCHANGED faults
<1> SUFFICES ASSUME TypeOK, [Next]_vars, NoFault' PROVE faults' = faults
    OBVIOUS
<1>1. ASSUME NEW t \in Turns, Admit(t) \/ Generate(t) PROVE faults' = faults
    BY <1>1
    DEF Admit, CheckActive, ReadAttempt, CountTurns, RecordQuestion, Register,
        Generate, Begin, Kill, Delta, EndStream, Settle, CutShort, LeaveStream
<1>2. ASSUME NEW t \in Turns, Save(t) PROVE faults' = faults
    BY <1>2, FaultsStay DEF Save, SaveCommits, SaveFails, FaultKinds
<1>3. CASE Others
    BY <1>3, FaultsStay DEF Others, CancelTurn, CloseAttempt, ResetAttempt, ApiCrash, FaultKinds
<1> QED
    BY <1>1, <1>2, <1>3 DEF Next, vars

LEMMA SavedStep == TypeOK /\ Recorded /\ SavedInv /\ [Next]_vars => SavedInv'
<1> SUFFICES ASSUME TypeOK, Recorded, SavedInv, [Next]_vars, NoFault' PROVE SavedInv'
    BY DEF SavedInv, NoFault
<1> /\ turn \in [Turns -> Stages]
    /\ saving \in [Turns -> {"none", "pending", "ok", "failed"}]
    /\ log \in Seq(Messages)
    BY DEF TypeOK
<1>0. UNCHANGED faults /\ NoFault
    <2>1. UNCHANGED faults
        BY FaultsGrow
    <2> QED
        BY <2>1 DEF NoFault
<1>1. ASSUME NEW t \in Turns, Admit(t) PROVE SavedInv'
    <2>1. UNCHANGED <<attempt, saving>>
        BY <1>1 DEF Admit, CheckActive, ReadAttempt, CountTurns, RecordQuestion, Register, database
    <2>2. \E stage \in {"checked", "open", "counted", "refused", "recorded", "streaming", "created"} :
             turn' = [turn EXCEPT ![t] = stage]
        BY <1>1 DEF Admit, CheckActive, ReadAttempt, CountTurns, RecordQuestion, RecordedStage, Register
    <2>3. log' = log \/ log' = Append(log, Message("user", t))
        BY <1>1 DEF Admit, CheckActive, ReadAttempt, CountTurns, RecordQuestion, Register, database
    <2>4. \A u \in Turns : Answered(u) => Answered(u)'
        BY <2>3, SameLog, AppendAsks
    <2> QED
        BY <1>0, <2>1, <2>2, <2>4 DEF SavedInv, NoFault
<1>2. ASSUME NEW t \in Turns, Generate(t) PROVE SavedInv'
    <2>1. UNCHANGED database
        BY <1>2 DEF Generate, Begin, Kill, Delta, EndStream, Settle, CutShort, LeaveStream
    <2>2. SameMessages
        BY <2>1, SameDatabase
    <2>3. CASE EndStream(t) \/ LeaveStream(t)
        BY <1>0, <2>1, <2>2, <2>3 DEF EndStream, LeaveStream, SavedInv, NoFault, SameMessages, database
    <2>4. CASE Begin(t) \/ Kill(t) \/ Delta(t) \/ Settle(t) \/ CutShort(t)
        <3>1. /\ saving' = saving
              /\ \/ turn' = turn
                 \/ \E stage \in {"streaming", "killed"} : turn' = [turn EXCEPT ![t] = stage]
                 \/ /\ turn[t] = "persisting"
                    /\ \E stage \in {"over", "cut"} : turn' = [turn EXCEPT ![t] = stage]
            BY <2>4 DEF Begin, Kill, Delta, Settle, CutShort, Shielded
        <3> QED
            BY <1>0, <2>1, <2>2, <3>1 DEF SavedInv, NoFault, SameMessages, database
    <2> QED
        BY <1>2, <2>3, <2>4 DEF Generate
<1>3. ASSUME NEW t \in Turns, Save(t) PROVE SavedInv'
    <2>1. CASE /\ attempt # "gone"
               /\ log' = Append(log, Message("assistant", t))
               /\ saving' = [saving EXCEPT ![t] = "ok"]
               /\ UNCHANGED <<attempt, turn>>
        <3>1. \A u \in Turns : Answered(u)' <=> Answered(u) \/ u = t
            BY <2>1, AppendAnswers
        <3> QED
            BY <1>0, <2>1, <3>1 DEF SavedInv, NoFault
    <2>2. CASE /\ attempt = "gone"
               /\ saving' = [saving EXCEPT ![t] = "failed"]
               /\ UNCHANGED <<attempt, turn, log>>
        BY <1>0, <2>2 DEF SavedInv, NoFault
    <2>3. ~SaveFails(t)
        BY <1>0, FaultsStay DEF SaveFails, FaultKinds, NoFault
    <2> QED
        BY <1>3, <2>1, <2>2, <2>3 DEF Save, SaveCommits
<1>4. CASE CancelTurn \/ CloseAttempt \/ UNCHANGED vars
    <2>1. UNCHANGED <<log, turn, saving>> /\ (attempt' = "gone" <=> attempt = "gone")
        BY <1>4 DEF CancelTurn, CloseAttempt, vars, database
    <2>2. SameMessages
        BY <2>1, SameLog DEF SameMessages
    <2> QED
        BY <1>0, <2>1, <2>2 DEF SavedInv, NoFault, SameMessages
<1>5. CASE ResetAttempt
    <2>1. attempt' = "gone" /\ UNCHANGED <<turn, saving>>
        BY <1>5 DEF ResetAttempt
    <2> QED
        BY <1>0, <2>1 DEF SavedInv, NoFault
<1>6. ~ApiCrash
    BY <1>0, FaultsStay DEF ApiCrash, FaultKinds, NoFault
<1> QED
    BY <1>1, <1>2, <1>3, <1>4, <1>5, <1>6 DEF Next, Others

\* A recorded question without an answer is being worked on, unless its task was
\* killed before its first step or a fault struck.
THEOREM AnswersAreNotLost == Spec => []NoAnswerLost
<1>1. Init => SavedInv
    BY DEF Init, SavedInv
<1>2. TypeOK /\ Recorded /\ SavedInv /\ [Next]_vars => SavedInv'
    BY SavedStep
<1>3. TypeOK /\ Recorded /\ SavedInv => NoAnswerLost
    <2> SUFFICES ASSUME TypeOK, Recorded, SavedInv, NEW t \in Turns, Asked(t), ~Answered(t), NoFault
                 PROVE  turn[t] \in Working \cup {"recorded", "killed"} \/ saving[t] = "pending"
        BY DEF NoAnswerLost, NoFault, TypeOK
    <2>1. attempt # "gone"
        BY EmptyLog DEF Recorded, LogInv
    <2>2. turn[t] \in Working \cup {"recorded", "killed", "over", "cut"}
        BY DEF TypeOK, Stages, Admission, Recorded, StageInv, SavedInv, NoFault
    <2>3. turn[t] \in {"over", "cut"} => saving[t] = "pending"
        BY <2>1 DEF TypeOK, SavedInv, NoFault
    <2> QED
        BY <2>2, <2>3
<1> QED
    BY <1>1, <1>2, <1>3, TypeCorrect, RecordsAgree, PTL DEF Spec

----------------------------------------------------------------------------
(* The history stays in order *)

\* What appending a message does to the order of the messages.
LEMMA AppendBefore ==
    ASSUME log \in Seq(Messages), NEW p \in {"user", "assistant"}, NEW t \in Turns,
           log' = Append(log, Message(p, t)),
           NEW q \in {"user", "assistant"}, NEW v \in Turns, NEW r \in {"user", "assistant"}, NEW w \in Turns
    PROVE  Before(Message(q, v), Message(r, w))' <=>
               Before(Message(q, v), Message(r, w)) \/ (r = p /\ w = t /\ Written(q, v))
<1> DEFINE m == Message(q, v)
           n == Message(r, w)
           last == Len(log) + 1
<1>0. /\ \A i \in DOMAIN log : i \in DOMAIN log' /\ log'[i] = log[i] /\ i < last
      /\ last \in DOMAIN log' /\ log'[last] = Message(p, t)
      /\ \A i \in DOMAIN log' : i \in DOMAIN log \/ i = last
    OBVIOUS
<1>P. m' = m /\ n' = n
    BY DEF Message
<1>1. ASSUME Before(m, n) PROVE Before(m, n)'
    <2>1. PICK i, j \in DOMAIN log : i < j /\ log[i] = m /\ log[j] = n
        BY <1>1 DEF Before
    <2>2. /\ i \in DOMAIN log' /\ j \in DOMAIN log'
          /\ log'[i] = m' /\ log'[j] = n'
        BY <1>0, <1>P, <2>1
    <2> QED
        BY <2>1, <2>2 DEF Before
<1>2. ASSUME r = p, w = t, Written(q, v) PROVE Before(m, n)'
    <2>1. PICK i \in DOMAIN log : log[i] = m
        BY <1>2 DEF Written
    <2>2. /\ i \in DOMAIN log' /\ i < last
          /\ log'[i] = m' /\ log'[last] = n'
        BY <1>0, <1>P, <1>2, <2>1
    <2> QED
        BY <1>0, <2>2 DEF Before
<1>3. ASSUME Before(m, n)' PROVE Before(m, n) \/ (r = p /\ w = t /\ Written(q, v))
    <2>1. PICK i, j \in DOMAIN log' : i < j /\ log'[i] = m /\ log'[j] = n
        BY <1>3, <1>P DEF Before
    <2>2. i \in DOMAIN log /\ log[i] = m
        <3>1. \A k \in DOMAIN log' : k <= last
            OBVIOUS
        <3>2. i # last
            BY <2>1, <3>1
        <3> QED
            BY <1>0, <2>1, <3>2
    <2>3. CASE j \in DOMAIN log
        BY <1>0, <2>1, <2>2, <2>3 DEF Before
    <2>4. CASE j = last
        <3>1. Message(p, t) = Message(r, w)
            BY <1>0, <2>1, <2>4
        <3>2. r = p /\ w = t
            BY <3>1, MessagesDiffer
        <3>3. Written(q, v)
            BY <2>2 DEF Written
        <3> QED
            BY <3>2, <3>3
    <2> QED
        BY <1>0, <2>3, <2>4
<1> QED
    BY <1>1, <1>2, <1>3

LEMMA SameBefore ==
    ASSUME UNCHANGED log, NEW p \in {"user", "assistant"}, NEW q \in {"user", "assistant"},
           NEW t \in Turns, NEW u \in Turns
    PROVE  Before(Message(p, t), Message(q, u))' <=> Before(Message(p, t), Message(q, u))
BY DEF Before, Message

LEMMA EmptyBefore == ASSUME log' = <<>>, NEW m, NEW n PROVE ~(\E i, j \in DOMAIN log' : i < j /\ log'[i] = m /\ log'[j] = n)
OBVIOUS

\* A turn killed at birth keeps the registry, and with it every other socket turn out.
LEMMA KilledStep == TypeOK /\ RaceInv /\ KilledInv /\ [Next]_vars => KilledInv'
<1> SUFFICES ASSUME TypeOK, RaceInv, KilledInv, [Next]_vars, ~raced', NoFault' PROVE KilledInv'
    BY DEF KilledInv, NoFault
<1> turn \in [Turns -> Stages]
    BY DEF TypeOK
<1>0. UNCHANGED faults /\ NoFault
    <2>1. UNCHANGED faults
        BY FaultsGrow
    <2> QED
        BY <2>1 DEF NoFault
<1>1. ~raced
    BY TurnsAssumption
    DEF Next, Others, CancelTurn, CloseAttempt, ResetAttempt, ApiCrash, Admit, CheckActive, ReadAttempt, CountTurns,
        RecordQuestion, Register, Generate, Begin, Kill, Delta, EndStream, Settle, CutShort, LeaveStream,
        Save, SaveCommits, SaveFails, vars
<1>2. ASSUME UNCHANGED <<active, turn>> PROVE KilledInv'
    BY <1>0, <1>1, <1>2 DEF KilledInv, NoFault
<1>3. ASSUME NEW t \in Turns, t \notin Sockets, active' = active, \A u \in Turns : u # t => turn'[u] = turn[u]
      PROVE  KilledInv'
    BY <1>0, <1>1, <1>3, TurnsAssumption DEF KilledInv, NoFault
<1>4. ASSUME NEW t \in Sockets, Busy(t), \A u \in Turns : u # t => turn'[u] = turn[u], turn'[t] # "killed"
      PROVE  KilledInv'
    BY <1>0, <1>1, <1>4, TurnsAssumption DEF KilledInv, NoFault, Busy
<1>5. ASSUME NEW t \in Turns, CheckActive(t) PROVE KilledInv'
    <2>1. t \in Sockets /\ active = None /\ turn' = [turn EXCEPT ![t] = "checked"]
        BY <1>5 DEF CheckActive, Free
    <2>2. \A u \in Sockets : turn[u] # "killed"
        BY <1>0, <1>1, <2>1, TurnsAssumption DEF KilledInv, NoFault
    <2> QED
        BY <2>1, <2>2, TurnsAssumption DEF KilledInv
<1>6. ASSUME NEW t \in Turns, Kill(t) PROVE KilledInv'
    <2>1. t \in Sockets /\ turn[t] = "created" /\ turn' = [turn EXCEPT ![t] = "killed"] /\ active' = active
        BY <1>6 DEF Kill, TypeOK
    <2>2. active = t /\ \A u \in Sockets : u # t => ~Busy(u)
        BY <1>1, <2>1 DEF RaceInv, Busy, Working
    <2>3. \A u \in Sockets : turn[u] # "killed"
        BY <1>0, <1>1, <2>1 DEF KilledInv, NoFault, Working
    <2> QED
        BY <2>1, <2>2, <2>3, TurnsAssumption DEF KilledInv, Busy, Admission, Working
<1>7. ASSUME NEW t \in Turns, ReadAttempt(t) \/ CountTurns(t) \/ RecordQuestion(t) \/ Register(t) PROVE KilledInv'
    <2>1. /\ \E stage \in {"open", "counted", "refused", "recorded", "streaming", "created"} :
               turn' = [turn EXCEPT ![t] = stage]
          /\ t \in Sockets => Busy(t)
          /\ t \notin Sockets => active' = active
        BY <1>7 DEF ReadAttempt, CountTurns, RecordQuestion, RecordedStage, Register, Busy, Admission, TypeOK
    <2> QED
        BY <1>3, <1>4, <2>1
<1>8. ASSUME NEW t \in Turns, Begin(t) \/ Delta(t) \/ EndStream(t) \/ Settle(t) \/ CutShort(t) \/ LeaveStream(t)
      PROVE  KilledInv'
    <2>1. /\ turn' = turn \/ \E stage \in {"streaming", "persisting", "over", "cut"} : turn' = [turn EXCEPT ![t] = stage]
          /\ t \in Sockets => Busy(t) /\ turn[t] # "killed"
          /\ t \notin Sockets => active' = active
        BY <1>8 DEF Begin, Delta, EndStream, Settle, CutShort, LeaveStream, Unregistered, Busy, Working
    <2> QED
        BY <1>3, <1>4, <2>1
<1>9. ASSUME NEW t \in Turns, Save(t) PROVE KilledInv'
    BY <1>2, <1>9 DEF Save, SaveCommits, SaveFails
<1>10. CASE CancelTurn \/ CloseAttempt \/ ResetAttempt \/ UNCHANGED vars
    BY <1>2, <1>10 DEF CancelTurn, CloseAttempt, ResetAttempt, vars
<1>11. ~ApiCrash
    BY <1>0, FaultsStay DEF ApiCrash, FaultKinds, NoFault
<1> QED
    BY <1>5, <1>6, <1>7, <1>8, <1>9, <1>10, <1>11 DEF Next, Others, Admit, Generate

\* When a socket question is recorded, each earlier one has its answer or was cut short.
LEMMA RecordedInOrder ==
    ASSUME TypeOK, Recorded, RaceInv, SavedInv, KilledInv, ~raced, NoFault,
           NEW t \in Sockets, NEW u \in Sockets, turn[u] = "counted", attempt # "gone", Asked(t), turn[t] # "cut"
    PROVE  Answered(t)
<1> t \in Turns /\ u \in Turns /\ turn[t] \in Stages /\ saving[t] \in {"none", "pending", "ok", "failed"}
    BY TurnsAssumption DEF TypeOK
<1>1. t # u
    BY DEF Recorded, StageInv
<1>2. turn[t] \notin Admission \cup Working
    BY <1>1 DEF RaceInv, Admission
<1>3. turn[t] # "killed"
    BY DEF KilledInv, NoFault, Admission
<1>4. turn[t] \notin {"idle", "refused", "lost"}
    BY DEF Recorded, StageInv, SavedInv, NoFault
<1>5. turn[t] = "over"
    BY <1>2, <1>3, <1>4 DEF Stages
<1>6. saving[t] = "ok"
    BY <1>5 DEF Recorded, StageInv, SavedInv, NoFault
<1> QED
    BY <1>6 DEF SavedInv, NoFault

LEMMA OrderStep ==
    TypeOK /\ Recorded /\ RaceInv /\ SavedInv /\ KilledInv /\ HistoryInOrder /\ [Next]_vars => HistoryInOrder'
<1> SUFFICES ASSUME TypeOK, Recorded, RaceInv, SavedInv, KilledInv, HistoryInOrder, [Next]_vars, ~raced', NoFault',
                    NEW t \in Sockets, NEW u \in Sockets, Before(Message("user", t), Message("user", u))'
             PROVE  Before(Message("assistant", t), Message("user", u))' \/ turn'[t] = "cut"
    BY DEF HistoryInOrder, NoFault, Message
<1> /\ turn \in [Turns -> Stages] /\ log \in Seq(Messages)
    /\ t \in Turns /\ u \in Turns
    BY TurnsAssumption DEF TypeOK
<1>0. NoFault /\ ~raced
    <2>1. NoFault
        BY FaultsGrow DEF NoFault
    <2>2. ~raced
        BY TurnsAssumption
        DEF Next, Others, CancelTurn, CloseAttempt, ResetAttempt, ApiCrash, Admit, CheckActive, ReadAttempt, CountTurns,
            RecordQuestion, Register, Generate, Begin, Kill, Delta, EndStream, Settle, CutShort, LeaveStream,
            Save, SaveCommits, SaveFails, vars
    <2> QED
        BY <2>1, <2>2
<1>1. Before(Message("user", t), Message("user", u))
      => Before(Message("assistant", t), Message("user", u)) \/ turn[t] = "cut"
    BY <1>0 DEF HistoryInOrder, NoFault
<1>2. turn[t] = "cut" => turn'[t] = "cut"
    BY FaultsStay, <1>0
    DEF Next, Others, CancelTurn, CloseAttempt, ResetAttempt, ApiCrash, FaultKinds, Admit, CheckActive, ReadAttempt,
        CountTurns, RecordQuestion, Register, Generate, Begin, Kill, Delta, EndStream, Settle, CutShort, LeaveStream,
        Save, SaveCommits, SaveFails, vars, Admission, Working
<1>3. CASE UNCHANGED log
    BY <1>1, <1>2, <1>3, SameBefore
<1>4. CASE log' = <<>>
    BY <1>4, EmptyBefore DEF Before
<1>5. ASSUME NEW v \in Turns, log' = Append(log, Message("assistant", v))
      PROVE  Before(Message("assistant", t), Message("user", u))' \/ turn'[t] = "cut"
    BY <1>1, <1>2, <1>5, AppendBefore
<1>6. ASSUME NEW v \in Turns, RecordQuestion(v), attempt # "gone"
      PROVE  Before(Message("assistant", t), Message("user", u))' \/ turn'[t] = "cut"
    <2>1. turn[v] = "counted" /\ log' = Append(log, Message("user", v))
        BY <1>6 DEF RecordQuestion
    <2>2. CASE Before(Message("user", t), Message("user", u))
        BY <1>1, <1>2, <2>1, <2>2, AppendBefore
    <2>3. CASE v = u /\ Asked(t)
        <3>1. Answered(t) \/ turn[t] = "cut"
            BY <1>0, <1>6, <2>1, <2>3, RecordedInOrder
        <3> QED
            BY <1>2, <2>1, <2>3, <3>1, AppendBefore DEF Answered
    <2> QED
        BY <2>1, <2>2, <2>3, AppendBefore DEF Asked
<1>7. \/ UNCHANGED log
      \/ log' = <<>>
      \/ \E v \in Turns : log' = Append(log, Message("assistant", v))
      \/ \E v \in Turns : RecordQuestion(v) /\ attempt # "gone"
    <2>1. ASSUME NEW v \in Turns, Admit(v) PROVE UNCHANGED log \/ (RecordQuestion(v) /\ attempt # "gone")
        BY <2>1 DEF Admit, CheckActive, ReadAttempt, CountTurns, RecordQuestion, Register, database
    <2>2. ASSUME NEW v \in Turns, Generate(v) PROVE UNCHANGED log
        BY <2>2 DEF Generate, Begin, Kill, Delta, EndStream, Settle, CutShort, LeaveStream, database
    <2>3. ASSUME NEW v \in Turns, Save(v) PROVE UNCHANGED log \/ log' = Append(log, Message("assistant", v))
        BY <2>3 DEF Save, SaveCommits, SaveFails, database
    <2>4. ASSUME Others \/ UNCHANGED vars PROVE UNCHANGED log \/ log' = <<>>
        BY <2>4 DEF Others, CancelTurn, CloseAttempt, ResetAttempt, ApiCrash, vars, database
    <2> QED
        BY <2>1, <2>2, <2>3, <2>4 DEF Next
<1> QED
    BY <1>3, <1>4, <1>5, <1>6, <1>7

\* Without a race and without a fault, a socket question that has another one behind
\* it in the history has its answer before that one, unless its turn was cut short
\* while it was saving: the model reads a conversation that alternates.
THEOREM HistoryAlternates == Spec => []HistoryInOrder
<1>1. Init => SavedInv /\ RaceInv /\ KilledInv /\ HistoryInOrder
    <2>1. Init => SavedInv /\ RaceInv /\ KilledInv
        BY TurnsAssumption DEF Init, SavedInv, RaceInv, KilledInv, Admission, Working
    <2>2. Init => HistoryInOrder
        BY DEF Init, HistoryInOrder, Before
    <2> QED
        BY <2>1, <2>2
<1> QED
    BY <1>1, RaceStep, SavedStep, KilledStep, OrderStep, TypeCorrect, RecordsAgree, PTL DEF Spec

----------------------------------------------------------------------------
(* How often an answer is stored *)

LEMMA CopiesFinite ==
    ASSUME log \in Seq(Messages), NEW t \in Turns
    PROVE  IsFiniteSet(Copies(t)) /\ Cardinality(Copies(t)) \in Nat
<1>1. Copies(t) \in SUBSET (1 .. Len(log))
    BY DEF Copies
<1>2. IsFiniteSet(1 .. Len(log))
    BY FS_Interval
<1> QED
    BY <1>1, <1>2, FS_Subset, FS_CardinalityType

LEMMA SameCopies == ASSUME UNCHANGED log, NEW t \in Turns PROVE Copies(t)' = Copies(t)
BY DEF Copies, Message

LEMMA NoCopies == ASSUME log = <<>>, NEW t \in Turns PROVE Cardinality(Copies(t)) = 0
<1>1. Copies(t) = {}
    BY DEF Copies
<1> QED
    BY <1>1, FS_EmptySet

LEMMA NoCopiesNext == ASSUME log' = <<>>, NEW t \in Turns PROVE Cardinality(Copies(t))' = 0
<1>1. Copies(t)' = {}
    BY DEF Copies
<1> QED
    BY <1>1, FS_EmptySet

LEMMA Uncopied == ASSUME NEW t \in Turns PROVE ~Answered(t) <=> Copies(t) = {}
BY DEF Answered, Written, Copies

LEMMA UnansweredCount ==
    ASSUME log \in Seq(Messages), NEW t \in Turns
    PROVE  /\ ~Answered(t) <=> Cardinality(Copies(t)) = 0
           /\ Cardinality(Copies(t)) \in Nat
BY Uncopied, CopiesFinite, FS_EmptySet

\* A question adds no answer, an answer adds one to its own turn.
LEMMA AppendCopies ==
    ASSUME log \in Seq(Messages), NEW p \in {"user", "assistant"}, NEW t \in Turns,
           log' = Append(log, Message(p, t)), NEW u \in Turns
    PROVE  Cardinality(Copies(u))'
             = IF p = "assistant" /\ u = t THEN Cardinality(Copies(u)) + 1 ELSE Cardinality(Copies(u))
<1> DEFINE last == Len(log) + 1
<1>0. /\ DOMAIN log' = DOMAIN log \cup {last}
      /\ last \notin DOMAIN log
      /\ log'[last] = Message(p, t)
      /\ \A i \in DOMAIN log : log'[i] = log[i]
    OBVIOUS
<1>1. CASE p = "assistant" /\ u = t
    <2>1. Copies(u)' = Copies(u) \cup {last} /\ last \notin Copies(u)
        BY <1>0, <1>1 DEF Copies, Message
    <2>2. Cardinality(Copies(u) \cup {last}) = Cardinality(Copies(u)) + 1
        BY <2>1, CopiesFinite, FS_AddElement
    <2> QED
        BY <1>1, <2>1, <2>2
<1>2. CASE ~(p = "assistant" /\ u = t)
    <2>1. Message(p, t) # Message("assistant", u)
        BY <1>2, MessagesDiffer
    <2>2. Copies(u)' = Copies(u)
        BY <1>0, <2>1 DEF Copies, Message
    <2> QED
        BY <1>2, <2>2
<1> QED
    BY <1>1, <1>2

SameCounts == \A u \in Turns : Cardinality(Copies(u))' = Cardinality(Copies(u))

LEMMA SameLogCounts == UNCHANGED log => SameCounts
BY SameCopies DEF SameCounts

\* A step that stores nothing keeps the bounds, when what it starts to save was
\* not under way before.
LEMMA CopyFrame ==
    ASSUME TypeOK, CopyInv, SameCounts,
           \A t \in Turns : t \notin Sockets /\ turn[t] = "cut" => turn'[t] = "cut",
           \A t \in Turns : saving'[t] = "pending" /\ saving[t] # "pending" =>
               Cardinality(Copies(t)) <= IF t \notin Sockets /\ turn'[t] = "cut" THEN 1 ELSE 0
    PROVE  CopyInv'
<1> SUFFICES ASSUME NEW t \in Turns
             PROVE  /\ Cardinality(Copies(t))' <= IF t \notin Sockets /\ turn'[t] = "cut" THEN 2 ELSE 1
                    /\ saving'[t] = "pending" =>
                          Cardinality(Copies(t))' <= IF t \notin Sockets /\ turn'[t] = "cut" THEN 1 ELSE 0
    BY DEF CopyInv
<1> PICK n \in Nat : Cardinality(Copies(t)) = n
    BY CopiesFinite DEF TypeOK
<1>1. Cardinality(Copies(t))' = n
    BY DEF SameCounts
<1>2. /\ n <= IF t \notin Sockets /\ turn[t] = "cut" THEN 2 ELSE 1
      /\ saving[t] = "pending" => n <= IF t \notin Sockets /\ turn[t] = "cut" THEN 1 ELSE 0
      /\ saving'[t] = "pending" /\ saving[t] # "pending" =>
            n <= IF t \notin Sockets /\ turn'[t] = "cut" THEN 1 ELSE 0
    BY DEF CopyInv
<1> QED
    BY <1>1, <1>2

LEMMA CopyStep == TypeOK /\ Recorded /\ CopyInv /\ [Next]_vars => CopyInv'
<1> SUFFICES ASSUME TypeOK, Recorded, CopyInv, [Next]_vars PROVE CopyInv'
    OBVIOUS
<1> /\ turn \in [Turns -> Stages]
    /\ saving \in [Turns -> {"none", "pending", "ok", "failed"}]
    /\ log \in Seq(Messages)
    BY DEF TypeOK
<1>1. ASSUME NEW t \in Turns, Admit(t) PROVE CopyInv'
    <2>1. /\ UNCHANGED saving
          /\ turn[t] # "cut" /\ \A u \in Turns : u # t => turn'[u] = turn[u]
        BY <1>1 DEF Admit, CheckActive, ReadAttempt, CountTurns, RecordQuestion, Register
    <2>2. log' = log \/ log' = Append(log, Message("user", t))
        BY <1>1 DEF Admit, CheckActive, ReadAttempt, CountTurns, RecordQuestion, Register, database
    <2>3. SameCounts
        BY <2>2, SameLogCounts, AppendCopies DEF SameCounts
    <2> QED
        BY <2>1, <2>3, CopyFrame
<1>2. ASSUME NEW t \in Turns, Generate(t) PROVE CopyInv'
    <2>1. SameCounts
        BY <1>2, SameLogCounts
        DEF Generate, Begin, Kill, Delta, EndStream, Settle, CutShort, LeaveStream, database
    <2>2. CASE Begin(t) \/ Kill(t) \/ Delta(t) \/ Settle(t) \/ CutShort(t)
        <3>1. /\ UNCHANGED saving
              /\ turn[t] # "cut" /\ \A u \in Turns : u # t => turn'[u] = turn[u]
            BY <2>2 DEF Begin, Kill, Delta, Settle, CutShort, Shielded
        <3> QED
            BY <2>1, <3>1, CopyFrame
    <2>3. CASE EndStream(t)
        <3>1. /\ turn[t] = "streaming" /\ turn' = [turn EXCEPT ![t] = "persisting"]
              /\ saving' = [saving EXCEPT ![t] = "pending"]
            BY <2>3 DEF EndStream
        <3>2. Cardinality(Copies(t)) = 0
            BY <3>1, UnansweredCount DEF Recorded, StageInv
        <3> QED
            BY <2>1, <3>1, <3>2, CopyFrame
    <2>4. CASE LeaveStream(t)
        <3>1. /\ t \notin Sockets /\ turn[t] \in {"streaming", "persisting"}
              /\ turn' = [turn EXCEPT ![t] = "cut"]
              /\ saving' = [saving EXCEPT ![t] = "pending"]
            BY <2>4 DEF LeaveStream
        <3>2. Cardinality(Copies(t)) <= 1
            BY <3>1 DEF CopyInv
        <3> QED
            BY <2>1, <3>1, <3>2, CopyFrame
    <2> QED
        BY <1>2, <2>2, <2>3, <2>4 DEF Generate
<1>3. ASSUME NEW t \in Turns, Save(t) PROVE CopyInv'
    <2>1. CASE UNCHANGED log
        <3>1. /\ UNCHANGED turn
              /\ saving' = [saving EXCEPT ![t] = "ok"] \/ saving' = [saving EXCEPT ![t] = "failed"]
            BY <1>3 DEF Save, SaveCommits, SaveFails
        <3> QED
            BY <2>1, <3>1, SameLogCounts, CopyFrame
    <2>2. CASE ~UNCHANGED log
        <3>1. /\ saving[t] = "pending" /\ UNCHANGED turn
              /\ log' = Append(log, Message("assistant", t))
              /\ saving' = [saving EXCEPT ![t] = "ok"]
            BY <1>3, <2>2 DEF Save, SaveCommits, SaveFails, database
        <3> SUFFICES ASSUME NEW u \in Turns
                     PROVE  /\ Cardinality(Copies(u))' <= IF u \notin Sockets /\ turn[u] = "cut" THEN 2 ELSE 1
                            /\ saving'[u] = "pending" =>
                                  Cardinality(Copies(u))' <= IF u \notin Sockets /\ turn[u] = "cut" THEN 1 ELSE 0
            BY <3>1 DEF CopyInv
        <3>2. Cardinality(Copies(u))' = IF u = t THEN Cardinality(Copies(u)) + 1 ELSE Cardinality(Copies(u))
            BY <3>1, AppendCopies
        <3>3. PICK n \in Nat : Cardinality(Copies(u)) = n
            BY CopiesFinite
        <3>4. /\ n <= IF u \notin Sockets /\ turn[u] = "cut" THEN 2 ELSE 1
              /\ saving[u] = "pending" => n <= IF u \notin Sockets /\ turn[u] = "cut" THEN 1 ELSE 0
            BY <3>3 DEF CopyInv
        <3>5. CASE u = t
            BY <3>1, <3>2, <3>3, <3>4, <3>5
        <3>6. CASE u # t
            BY <3>1, <3>2, <3>3, <3>4, <3>6
        <3> QED
            BY <3>5, <3>6
    <2> QED
        BY <2>1, <2>2
<1>4. CASE CancelTurn \/ CloseAttempt \/ UNCHANGED vars
    <2>1. UNCHANGED <<log, turn, saving>>
        BY <1>4 DEF CancelTurn, CloseAttempt, vars, database
    <2> QED
        BY <2>1, SameLogCounts, CopyFrame
<1>5. CASE ResetAttempt
    <2>1. \A u \in Turns : Cardinality(Copies(u))' = 0
        BY <1>5, NoCopiesNext DEF ResetAttempt
    <2> QED
        BY <2>1 DEF CopyInv
<1>6. CASE ApiCrash
    <2>1. /\ UNCHANGED log
          /\ \A u \in Turns : saving'[u] # "pending" /\ (turn[u] = "cut" => turn'[u] = "cut")
        BY <1>6 DEF ApiCrash, database, Admission, Working
    <2> QED
        BY <2>1, SameLogCounts, CopyFrame
<1> QED
    BY <1>1, <1>2, <1>3, <1>4, <1>5, <1>6 DEF Next, Others

LEMMA CopyInit == Init => CopyInv
<1> SUFFICES ASSUME Init PROVE CopyInv
    OBVIOUS
<1>1. \A t \in Turns : Cardinality(Copies(t)) = 0
    BY NoCopies DEF Init
<1> QED
    BY <1>1 DEF CopyInv

LEMMA CopiesBounded == Spec => []CopyInv
<1>1. TypeOK /\ Recorded /\ CopyInv /\ [Next]_vars => CopyInv'
    BY CopyStep
<1> QED
    BY <1>1, CopyInit, TypeCorrect, RecordsAgree, PTL DEF Spec

\* A turn of the socket stores its answer at most once whatever cancels, cuts and
\* failures meet it; one over POST at most twice, and only when its client left.
THEOREM NoAnswerTwice == Spec => []AnswersNotRepeated
<1>1. CopyInv => AnswersNotRepeated
    BY DEF CopyInv, AnswersNotRepeated
<1> QED
    BY <1>1, CopiesBounded, PTL

----------------------------------------------------------------------------
(* The chat implements QuestionLedger *)

LEMMA InitLedger == Init => Ledger!QuestionInit
<1> SUFFICES ASSUME Init PROVE Ledger!QuestionInit
    OBVIOUS
<1>1. \A t \in Turns : ~Asked(t) /\ ~Answered(t)
    BY EmptyLog DEF Init
<1>2. \A t \in Turns : Cardinality(Copies(t)) = 0
    BY NoCopies DEF Init
<1>3. Struck = {}
    BY DEF Init, Struck
<1> QED
    BY <1>1, <1>2, <1>3 DEF Init, Ledger!QuestionInit, StatusOf

\* A turn's status depends on its messages, its refund and whether it was given up.
LEMMA StatusKept ==
    ASSUME NEW u \in Turns, Asked(u)' <=> Asked(u), Answered(u)' <=> Answered(u),
           u \in refunded' <=> u \in refunded, GaveUp(u)' <=> GaveUp(u)
    PROVE  StatusOf(u)' = StatusOf(u)
BY DEF StatusOf

\* What is given up stays so, whatever step follows.
LEMMA OthersKeepStages ==
    ASSUME NEW t \in Turns, Admit(t) \/ Generate(t) \/ Save(t), TypeOK, NEW u \in Turns, u # t
    PROVE  turn'[u] = turn[u] /\ saving'[u] = saving[u] /\ (GaveUp(u)' <=> GaveUp(u))
<1> /\ turn \in [Turns -> Stages]
    /\ saving \in [Turns -> {"none", "pending", "ok", "failed"}]
    BY DEF TypeOK
<1>1. turn'[u] = turn[u]
    BY DEF Admit, CheckActive, ReadAttempt, CountTurns, RecordQuestion, Register,
           Generate, Begin, Kill, Delta, EndStream, Settle, CutShort, LeaveStream, Save, SaveCommits, SaveFails
<1>2. saving'[u] = saving[u]
    BY DEF Admit, CheckActive, ReadAttempt, CountTurns, RecordQuestion, Register, Shielded,
           Generate, Begin, Kill, Delta, EndStream, Settle, CutShort, LeaveStream, Save, SaveCommits, SaveFails
<1> QED
    BY <1>1, <1>2 DEF GaveUp

\* The ledger's mishap, seen from the chat: some questions are given up.
LEMMA MishapStep ==
    ASSUME TypeOK, UNCHANGED <<log, refunded, text>>, Struck \subseteq Struck', Struck' \subseteq Turns,
           \A u \in Turns : \/ GaveUp(u)' <=> GaveUp(u)
                            \/ GaveUp(u)' /\ (u \in Struck' \/ ~Asked(u))
    PROVE  Ledger!Mishap
<1>1. SameMessages
    BY SameLog DEF SameMessages
<1>2. SameCounts
    BY SameLogCounts
<1>3. ASSUME NEW u \in Turns
      PROVE  \/ StatusOf(u)' = StatusOf(u)
             \/ StatusOf(u) = "asked" /\ StatusOf(u)' = "abandoned" /\ u \in Struck'
    BY <1>1 DEF SameMessages, StatusOf
<1> QED
    BY <1>2, <1>3 DEF Ledger!Mishap, SameCounts

LEMMA StepLedger == TypeOK /\ Recorded /\ CopyInv /\ [Next]_vars => [Ledger!QuestionNext]_(Ledger!questions)
<1> SUFFICES ASSUME TypeOK, Recorded, CopyInv, [Next]_vars PROVE [Ledger!QuestionNext]_(Ledger!questions)
    OBVIOUS
<1> /\ turn \in [Turns -> Stages]
    /\ saving \in [Turns -> {"none", "pending", "ok", "failed"}]
    /\ log \in Seq(Messages)
    BY DEF TypeOK
<1>0. ASSUME SameMessages, SameCounts, UNCHANGED <<refunded, text>>, Struck' = Struck,
             \A u \in Turns : Asked(u) => (GaveUp(u)' <=> GaveUp(u))
      PROVE  UNCHANGED Ledger!questions
    <2>1. \A u \in Turns : StatusOf(u)' = StatusOf(u)
        BY <1>0 DEF SameMessages, StatusOf
    <2> QED
        BY <1>0, <2>1 DEF Ledger!questions, SameCounts
<1>1. ASSUME NEW t \in Turns, RecordQuestion(t), log' # log PROVE Ledger!Ask(t)
    <2>1. /\ log' = Append(log, Message("user", t)) /\ turn[t] = "counted" /\ UNCHANGED <<refunded, text, saving, faults>>
          /\ turn' = [turn EXCEPT ![t] = RecordedStage(t)]
        BY <1>1 DEF RecordQuestion
    <2>2. \A u \in Turns : (Asked(u)' <=> Asked(u) \/ u = t) /\ (Answered(u)' <=> Answered(u))
        BY <2>1, AppendAsks
    <2>3. ~Asked(t) /\ ~Answered(t) /\ t \notin refunded /\ saving[t] = "none"
        <3>1. ~Asked(t) /\ ~Answered(t) /\ saving[t] = "none"
            BY <2>1 DEF Recorded, StageInv, LogInv, Admission
        <3> QED
            BY <3>1 DEF Recorded, RefundInv
    <2>4. Struck' = Struck
        BY <2>1 DEF Struck, RecordedStage
    <2>5. ~GaveUp(t)'
        BY <2>1, <2>3 DEF GaveUp, RecordedStage
    <2>6. \A u \in Turns : u # t => StatusOf(u)' = StatusOf(u)
        BY <1>1, <2>1, <2>2, OthersKeepStages DEF StatusOf, Admit
    <2>7. StatusOf(t)' = "asked" /\ StatusOf(t) = "absent"
        BY <2>1, <2>2, <2>3, <2>5 DEF StatusOf
    <2>8. SameCounts
        BY <2>1, AppendCopies DEF SameCounts
    <2> QED
        BY <2>1, <2>4, <2>6, <2>7, <2>8 DEF Ledger!Ask, SameCounts
<1>2. ASSUME NEW t \in Turns, Delta(t) PROVE Ledger!Hear(t)
    <2>1. turn[t] = "streaming" /\ text' = text \cup {t} /\ UNCHANGED <<log, refunded, turn, saving, faults>>
        BY <1>2 DEF Delta, database
    <2>2. SameMessages /\ SameCounts
        BY <2>1, SameLog, SameLogCounts DEF SameMessages
    <2>3. \A u \in Turns : StatusOf(u)' = StatusOf(u)
        BY <2>1, <2>2 DEF SameMessages, StatusOf, GaveUp
    <2>4. StatusOf(t) \in {"asked", "absent"}
        BY <2>1 DEF StatusOf, GaveUp, Recorded, StageInv, RefundInv
    <2>5. Struck' = Struck
        BY <2>1 DEF Struck
    <2> QED
        BY <2>1, <2>2, <2>3, <2>4, <2>5 DEF Ledger!Hear, SameCounts
<1>3. ASSUME NEW t \in Turns, SaveCommits(t), attempt # "gone"
      PROVE  Ledger!Settle(t) \/ Ledger!Repeat(t)
    <2>1. /\ log' = Append(log, Message("assistant", t))
          /\ refunded' = refunded \cup Refund(t)
          /\ saving[t] = "pending"
          /\ saving' = [saving EXCEPT ![t] = "ok"]
          /\ UNCHANGED <<text, turn, faults>>
        BY <1>3 DEF SaveCommits
    <2>2. \A u \in Turns : (Asked(u)' <=> Asked(u)) /\ (Answered(u)' <=> Answered(u) \/ u = t)
        BY <2>1, AppendAnswers
    <2>3. turn[t] \in {"persisting", "cut"} /\ Asked(t)
        BY <1>3, <2>1 DEF Recorded, StageInv
    <2>4. t \in refunded <=> Answered(t) /\ t \notin text
        BY DEF Recorded, RefundInv
    <2>5. \A u \in Turns : u # t => StatusOf(u)' = StatusOf(u)
        BY <2>1, <2>2 DEF StatusOf, Refund, GaveUp
    <2>6. StatusOf(t)' = IF t \in text THEN "answered" ELSE "refunded"
        BY <2>1, <2>2, <2>3, <2>4 DEF StatusOf, Refund
    <2>7. \A u \in Turns : Cardinality(Copies(u))'
                             = IF u = t THEN Cardinality(Copies(u)) + 1 ELSE Cardinality(Copies(u))
        BY <2>1, AppendCopies
    <2>8. Struck' = Struck
        BY <2>1 DEF Struck
    <2>9. PICK n \in Nat : Cardinality(Copies(t)) = n
        BY CopiesFinite
    <2>10. /\ n <= IF t \notin Sockets /\ turn[t] = "cut" THEN 1 ELSE 0
           /\ ~Answered(t) <=> n = 0
        BY <2>1, <2>9, UnansweredCount DEF CopyInv
    <2>11. CASE Answered(t)
        <3>1. StatusOf(t) = IF t \in text THEN "answered" ELSE "refunded"
            BY <2>3, <2>4, <2>11 DEF StatusOf
        <3>2. n = 1 /\ t \notin Sockets
            BY <2>10, <2>11
        <3>3. \A u \in Turns : StatusOf(u)' = StatusOf(u)
            BY <2>5, <2>6, <3>1
        <3>4. [u \in Turns |-> Cardinality(Copies(u))]'
                = [[u \in Turns |-> Cardinality(Copies(u))] EXCEPT ![t] = 2]
            <4>1. \A u \in Turns : Cardinality(Copies(u))' = IF u = t THEN 2 ELSE Cardinality(Copies(u))
                BY <2>7, <2>9, <3>2
            <4> QED
                BY <4>1
        <3> QED
            BY <2>1, <2>8, <2>9, <3>2, <3>3, <3>4 DEF Ledger!Repeat
    <2>12. CASE ~Answered(t)
        <3>1. StatusOf(t) = "asked"
            BY <2>1, <2>3, <2>4, <2>12 DEF StatusOf, GaveUp
        <3>2. [u \in Turns |-> Cardinality(Copies(u))]'
                = [[u \in Turns |-> Cardinality(Copies(u))] EXCEPT ![t] = 1]
            <4>1. \A u \in Turns : Cardinality(Copies(u))' = IF u = t THEN 1 ELSE Cardinality(Copies(u))
                BY <2>7, <2>9, <2>10, <2>12
            <4> QED
                BY <4>1
        <3> QED
            BY <2>1, <2>5, <2>6, <2>8, <3>1, <3>2 DEF Ledger!Settle
    <2> QED
        BY <2>11, <2>12
<1>4. CASE ResetAttempt
    <2>1. log' = <<>> /\ UNCHANGED <<text, turn, faults>>
        BY <1>4 DEF ResetAttempt
    <2>2. \A u \in Turns : StatusOf(u)' = "absent" /\ Cardinality(Copies(u))' = 0
        BY <2>1, ResetLog, NoCopiesNext DEF StatusOf
    <2>3. Struck' = Struck
        BY <2>1 DEF Struck
    <2> QED
        BY <2>1, <2>2, <2>3 DEF Ledger!Wipe, Ledger!QuestionNext
<1>5. ASSUME UNCHANGED <<log, refunded, text, turn, saving, faults>> PROVE UNCHANGED Ledger!questions
    <2>1. SameMessages /\ SameCounts
        BY <1>5, SameLog, SameLogCounts DEF SameMessages
    <2> QED
        BY <1>0, <1>5, <2>1 DEF Struck, GaveUp
<1>6. ASSUME NEW t \in Turns, UNCHANGED <<log, refunded, text, faults>>,
             \A u \in Turns : u # t => turn'[u] = turn[u] /\ saving'[u] = saving[u],
             (turn[t] = "killed" <=> turn'[t] = "killed"),
             Asked(t) => (GaveUp(t)' <=> GaveUp(t))
      PROVE  UNCHANGED Ledger!questions
    <2>1. SameMessages /\ SameCounts
        BY <1>6, SameLog, SameLogCounts DEF SameMessages
    <2>2. Struck' = Struck
        BY <1>6 DEF Struck
    <2>3. \A u \in Turns : Asked(u) => (GaveUp(u)' <=> GaveUp(u))
        BY <1>6 DEF GaveUp
    <2> QED
        BY <1>0, <1>6, <2>1, <2>2, <2>3
<1>7. ASSUME NEW t \in Turns, Admit(t) PROVE [Ledger!QuestionNext]_(Ledger!questions)
    <2>1. CASE RecordQuestion(t) /\ log' # log
        BY <1>1, <2>1 DEF Ledger!QuestionNext
    <2>2. CASE ~(RecordQuestion(t) /\ log' # log)
        <3>1. UNCHANGED <<log, refunded, text, saving, faults>>
            BY <1>7, <2>2 DEF Admit, CheckActive, ReadAttempt, CountTurns, RecordQuestion, Register, database
        <3>2. turn[t] \in {"idle"} \cup Admission
              /\ \E stage \in {"checked", "open", "counted", "refused", "recorded", "streaming", "created"} :
                    turn' = [turn EXCEPT ![t] = stage]
            BY <1>7 DEF Admit, CheckActive, ReadAttempt, CountTurns, RecordQuestion, RecordedStage, Register, Admission
        <3>3. saving[t] = "none"
            BY <3>2 DEF Recorded, StageInv
        <3> QED
            BY <1>6, <3>1, <3>2, <3>3 DEF GaveUp, Admission
    <2> QED
        BY <2>1, <2>2
<1>8. ASSUME NEW t \in Turns, Kill(t) PROVE Ledger!Mishap
    <2>1. /\ UNCHANGED <<log, refunded, text, saving, faults>>
          /\ turn' = [turn EXCEPT ![t] = "killed"]
        BY <1>8 DEF Kill, database
    <2>2. Struck \subseteq Struck' /\ t \in Struck'
        BY <2>1 DEF Struck
    <2>3. saving[t] = "none"
        BY <1>8 DEF Kill, Recorded, StageInv
    <2>4. GaveUp(t)' /\ \A u \in Turns : u # t => (GaveUp(u)' <=> GaveUp(u))
        BY <2>1, <2>3 DEF GaveUp
    <2>5. Struck' \subseteq Turns
        BY DEF Struck
    <2> QED
        BY <2>1, <2>2, <2>4, <2>5, MishapStep
<1>9. ASSUME NEW t \in Turns, Generate(t) PROVE [Ledger!QuestionNext]_(Ledger!questions)
    <2>1. CASE Kill(t)
        BY <1>8, <2>1 DEF Ledger!QuestionNext
    <2>2. CASE Delta(t)
        BY <1>2, <2>2 DEF Ledger!QuestionNext
    <2>3. CASE Begin(t) \/ EndStream(t)
        <3>1. /\ UNCHANGED <<log, refunded, text, faults>>
              /\ turn[t] \in {"created", "streaming"}
              /\ \E stage \in {"streaming", "persisting"} : turn' = [turn EXCEPT ![t] = stage]
              /\ saving' = saving \/ saving' = [saving EXCEPT ![t] = "pending"]
            BY <2>3 DEF Begin, EndStream, database
        <3>2. saving[t] = "none"
            BY <3>1 DEF Recorded, StageInv
        <3> QED
            BY <1>6, <3>1, <3>2 DEF GaveUp
    <2>4. CASE Settle(t) \/ CutShort(t)
        <3>1. /\ UNCHANGED <<log, refunded, text, saving, faults>>
              /\ turn[t] = "persisting"
              /\ \E stage \in {"over", "cut"} : turn' = [turn EXCEPT ![t] = stage]
              /\ t \in Sockets \/ saving[t] = "ok" \/ t \in cancelling
            BY <2>4 DEF Settle, CutShort, Shielded, Saved, database
        <3>2. t \in Sockets \/ saving[t] = "ok"
            BY <3>1 DEF TypeOK
        <3> QED
            BY <1>6, <3>1, <3>2 DEF GaveUp
    <2>5. CASE LeaveStream(t)
        <3>1. /\ UNCHANGED <<log, refunded, text, faults>>
              /\ t \notin Sockets /\ turn[t] \in {"streaming", "persisting"}
              /\ turn' = [turn EXCEPT ![t] = "cut"]
              /\ saving' = [saving EXCEPT ![t] = "pending"]
            BY <2>5 DEF LeaveStream, database
        <3> QED
            BY <1>6, <3>1 DEF GaveUp
    <2> QED
        BY <1>9, <2>1, <2>2, <2>3, <2>4, <2>5 DEF Generate
<1>10. ASSUME NEW t \in Turns, Save(t) PROVE [Ledger!QuestionNext]_(Ledger!questions)
    <2>1. CASE SaveCommits(t) /\ attempt # "gone"
        BY <1>3, <2>1 DEF Ledger!QuestionNext
    <2>2. CASE SaveCommits(t) /\ attempt = "gone"
        <3>1. UNCHANGED <<log, refunded, text, turn, faults>> /\ saving' = [saving EXCEPT ![t] = "failed"]
            BY <2>2 DEF SaveCommits
        <3>2. ~Asked(t)
            BY <2>2, EmptyLog DEF Recorded, LogInv
        <3> QED
            BY <1>6, <3>1, <3>2
    <2>3. CASE SaveFails(t)
        <3>1. /\ UNCHANGED <<log, refunded, text, turn>> /\ saving[t] = "pending"
              /\ saving' = [saving EXCEPT ![t] = "failed"]
            BY <2>3 DEF SaveFails, database
        <3>2. faults'["db"] > 0
            BY <2>3 DEF SaveFails, Spend, TypeOK, FaultKinds
        <3>3. Struck' = Turns
            BY <3>2 DEF Struck, FaultKinds
        <3>4. Struck \subseteq Turns
            BY DEF Struck
        <3>5. ~GaveUp(t) /\ \A u \in Turns : u # t => (GaveUp(u)' <=> GaveUp(u))
            BY <3>1 DEF GaveUp
        <3>6. Ledger!Mishap
            BY <3>1, <3>3, <3>4, <3>5, MishapStep
        <3> QED
            BY <3>6 DEF Ledger!QuestionNext
    <2> QED
        BY <1>10, <2>1, <2>2, <2>3 DEF Save
<1>11. CASE CancelTurn \/ CloseAttempt \/ UNCHANGED vars
    BY <1>5, <1>11 DEF CancelTurn, CloseAttempt, vars, database
<1>12. CASE ApiCrash
    <2>1. /\ UNCHANGED <<log, refunded, text>>
          /\ \A u \in Turns : turn'[u] = IF turn[u] \in Admission \cup Working THEN "lost" ELSE turn[u]
          /\ \A u \in Turns : saving'[u] = IF saving[u] = "pending" THEN "failed" ELSE saving[u]
        BY <1>12 DEF ApiCrash, database
    <2>2. faults'["api"] > 0
        BY <1>12 DEF ApiCrash, Spend, TypeOK, FaultKinds
    <2>3. Struck' = Turns /\ Struck \subseteq Turns
        BY <2>2 DEF Struck, FaultKinds
    <2>4. \A u \in Turns : GaveUp(u) => GaveUp(u)'
        BY <2>1 DEF GaveUp, Admission, Working
    <2>5. Ledger!Mishap
        BY <2>1, <2>3, <2>4, MishapStep
    <2> QED
        BY <2>5 DEF Ledger!QuestionNext
<1> QED
    BY <1>4, <1>7, <1>9, <1>10, <1>11, <1>12 DEF Next, Others

\* Whatever is cancelled, left or raced, a question is recorded before it is
\* answered and decided once: refunded when its answer was stored empty, charged
\* otherwise.  A socket's answer is stored once, one over POST at most twice.  A
\* question remains charged without an answer only when its task was killed at
\* birth, the process crashed or the database failed.
THEOREM QuestionsAreChargedRight == Spec => ImplementsQuestionLedger
BY InitLedger, StepLedger, TypeCorrect, RecordsAgree, CopiesBounded, PTL
DEF Spec, ImplementsQuestionLedger, Ledger!QuestionSpec
=============================================================================
