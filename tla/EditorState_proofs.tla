------------------------- MODULE EditorState_proofs -------------------------
(***************************************************************************)
(* Proofs about EditorState, for any languages and any number of edits,     *)
(* calls and failures: its types, that a row is whole unless a write was    *)
(* stale, and, while calls are handled one after the other, that texts only *)
(* advance, marks are true, no work is forgotten and a reload restores it.  *)
(***************************************************************************)
EXTENDS EditorState, SequenceTheorems, TLAPS

----------------------------------------------------------------------------
(* Calls and sequences of calls *)

LEMMA NewCallType ==
    ASSUME TypeOK, NEW kind \in {"snapshot", "save", "finish"}, NEW L \in SUBSET Langs, NEW h \in BOOLEAN
    PROVE  LET c == NewCall(kind, L, h) IN
           /\ c \in Call
           /\ c.kind = kind /\ c.langs = L /\ c.heard = h /\ c.step = "sent" /\ c.row = None /\ c.lang = lang
           /\ c.text \in Texts
           /\ \A l \in L : c.text[l] = text[l]
           /\ L = Langs => c.text = text
BY DEF NewCall, Call, TypeOK, Texts

LEMMA RemoveAtType ==
    ASSUME NEW S, NEW s \in Seq(S), NEW i \in DOMAIN s
    PROVE  /\ RemoveAt(s, i) \in Seq(S)
           /\ Len(RemoveAt(s, i)) = Len(s) - 1
           /\ DOMAIN RemoveAt(s, i) = 1..(Len(s) - 1)
           /\ \A j \in 1..(Len(s) - 1) : RemoveAt(s, i)[j] = IF j < i THEN s[j] ELSE s[j + 1]
<1> DEFINE a == SubSeq(s, 1, i - 1)
           b == SubSeq(s, i + 1, Len(s))
<1>1. i \in 1..Len(s) /\ Len(s) \in Nat
    OBVIOUS
<1>2. a \in Seq(S) /\ Len(a) = i - 1 /\ \A j \in 1..(i - 1) : a[j] = s[j]
    BY <1>1
<1>3. b \in Seq(S) /\ Len(b) = Len(s) - i /\ \A j \in 1..(Len(s) - i) : b[j] = s[i + j]
    BY <1>1
<1>4. RemoveAt(s, i) = a \o b
    BY DEF RemoveAt
<1> HIDE DEF a, b
<1>5. RemoveAt(s, i) \in Seq(S) /\ Len(RemoveAt(s, i)) = Len(s) - 1
    BY <1>1, <1>2, <1>3, <1>4
<1>6. ASSUME NEW j \in 1..(Len(s) - 1) PROVE RemoveAt(s, i)[j] = IF j < i THEN s[j] ELSE s[j + 1]
    <2>1. CASE j < i
        BY <1>1, <1>2, <1>3, <1>4, <2>1
    <2>2. CASE ~(j < i)
        <3>1. j - (i - 1) \in 1..(Len(s) - i) /\ i + (j - (i - 1)) = j + 1
            BY <1>1, <2>2
        <3>2. (a \o b)[j] = b[j - Len(a)]
            <4>1. j \in 1..(Len(a) + Len(b)) /\ ~(j <= Len(a))
                BY <1>1, <1>2, <1>3, <2>2
            <4>2. a \in Seq(S) /\ b \in Seq(S)
                BY <1>2, <1>3
            <4> QED
                BY <4>1, <4>2, ConcatProperties
        <3> QED
            BY <1>2, <1>3, <1>4, <2>2, <3>1, <3>2
    <2> QED
        BY <2>1, <2>2
<1> QED
    BY <1>5, <1>6

\* What the page sends in one step: calls that carry the text it shows.
Fresh(s) == /\ s \in Seq(Call)
            /\ \A k \in DOMAIN s : /\ s[k].row = None /\ s[k].step = "sent"
                                   /\ s[k].kind # "finish" => s[k].lang \in s[k].langs
                                   /\ \A l \in s[k].langs : s[k].text[l] = text[l]

LEMMA OneFresh ==
    ASSUME TypeOK, NEW kind \in {"snapshot", "save", "finish"}, NEW L \in SUBSET Langs, NEW h \in BOOLEAN,
           kind # "finish" => lang \in L
    PROVE  Fresh(<<NewCall(kind, L, h)>>)
<1> DEFINE c == NewCall(kind, L, h)
<1>1. /\ c \in Call /\ c.row = None /\ c.step = "sent" /\ c.kind = kind /\ c.langs = L /\ c.lang = lang
      /\ \A l \in L : c.text[l] = text[l]
    BY NewCallType
<1> HIDE DEF c
<1>2. <<c>> \in Seq(Call) /\ DOMAIN <<c>> = {1} /\ <<c>>[1] = c
    BY <1>1
<1>3. Fresh(<<c>>)
    BY <1>1, <1>2 DEF Fresh
<1> QED
    BY <1>3 DEF c

LEMMA NoneFresh == Fresh(<<>>)
BY DEF Fresh

LEMMA ConcatFresh ==
    ASSUME NEW s, NEW t, Fresh(s), Fresh(t)
    PROVE  Fresh(s \o t)
BY DEF Fresh

LEMMA SentFresh ==
    ASSUME TypeOK, NEW force \in BOOLEAN
    PROVE  Fresh(Snapshot(force)) /\ Fresh(SaveState(force)) /\ Fresh(Beacon)
<1>1. lang \in Langs
    BY DEF TypeOK
<1> QED
    BY <1>1, OneFresh, NoneFresh DEF Snapshot, SaveState, Beacon

\* Two calls that differ at most in whether the page listens.
Same(c, d) == /\ c.kind = d.kind /\ c.lang = d.lang /\ c.langs = d.langs
              /\ c.text = d.text /\ c.row = d.row /\ c.step = d.step

LEMMA UnheardType ==
    ASSUME NEW s \in Seq(Call)
    PROVE  /\ Unheard(s) \in Seq(Call)
           /\ Len(Unheard(s)) = Len(s) /\ DOMAIN Unheard(s) = DOMAIN s
           /\ \A i \in DOMAIN s : Same(Unheard(s)[i], s[i])
<1>0. \A c \in Call : [c EXCEPT !.heard = FALSE] \in Call
    BY DEF Call
<1>1. \A i \in DOMAIN s : [s[i] EXCEPT !.heard = FALSE] \in Call
    BY <1>0
<1>2. DOMAIN s = 1..Len(s) /\ Len(s) \in Nat
    OBVIOUS
<1>3. Unheard(s) \in [1..Len(s) -> Call]
    BY <1>1, <1>2 DEF Unheard
<1>4. Unheard(s) \in Seq(Call) /\ Len(Unheard(s)) = Len(s) /\ DOMAIN Unheard(s) = DOMAIN s
    BY <1>2, <1>3
<1>5. ASSUME NEW i \in DOMAIN s PROVE Same(Unheard(s)[i], s[i])
    <2>1. s[i] \in Call /\ Unheard(s)[i] = [s[i] EXCEPT !.heard = FALSE]
        BY DEF Unheard
    <2>2. \A c \in Call : Same([c EXCEPT !.heard = FALSE], c)
        BY DEF Call, Same
    <2> QED
        BY <2>1, <2>2
<1> QED
    BY <1>4, <1>5

----------------------------------------------------------------------------
(* Types *)

\* A row, once there, stays: no call has selected one that is gone.
RowStays == row = None => \A i \in DOMAIN calls : calls[i].row = None

\* Snapshots and saves send the language they name; the call that closes the attempt
\* selects no row.
Carrying == \A i \in DOMAIN calls :
    /\ calls[i].kind = "finish" => calls[i].step # "selected"
    /\ calls[i].kind # "finish" => calls[i].lang \in calls[i].langs

Inv == TypeOK /\ RowStays /\ Carrying

\* What a commit writes.
LEMMA WrittenType ==
    ASSUME TypeOK, NEW i \in DOMAIN calls, calls[i].row = None <=> row = None
    PROVE  Written(calls[i]) \in Row
<1> DEFINE c == calls[i]
<1>1. c \in Call
    BY DEF TypeOK
<1>2. c.lang \in Langs /\ c.text \in Texts /\ c.row \in Row \cup {None}
    BY <1>1 DEF Call
<1>3. Upserted(c) \in Row
    BY <1>2 DEF Upserted, Over, Row, Texts, Blank
<1>4. CASE c.row = None
    BY <1>3, <1>4 DEF Written
<1>5. CASE c.row # None /\ row # None
    BY <1>2, <1>3, <1>5 DEF Written, Column, Row, TypeOK
<1> QED
    BY <1>4, <1>5

\* What a step makes of the calls: none, some more, one less, or one of them changed.
Sends(s)   == Fresh(s) /\ (calls' = calls \o s \/ calls' = Unheard(calls \o s) \/ calls' = Unheard(calls) \o s)
Drops(i)   == i \in DOMAIN calls /\ calls' = RemoveAt(calls, i)
Changes(i) ==
    /\ i \in DOMAIN calls
    /\ \E c \in Call :
        /\ calls' = [calls EXCEPT ![i] = c]
        /\ c.kind = calls[i].kind /\ c.lang = calls[i].lang /\ c.langs = calls[i].langs /\ c.text = calls[i].text
        /\ c.row = calls[i].row \/ c.row = row
        /\ c.kind = "finish" /\ c.step = "selected" => calls[i].step = "selected"

\* The calls before a sending step are still there, and behind them the new ones.
LEMMA SendsEffect ==
    ASSUME calls \in Seq(Call), NEW s, Sends(s)
    PROVE  /\ calls' \in Seq(Call)
           /\ Len(calls') = Len(calls) + Len(s) /\ DOMAIN calls' = 1..(Len(calls) + Len(s))
           /\ \A j \in DOMAIN calls : j \in DOMAIN calls' /\ Same(calls'[j], calls[j])
           /\ \A j \in DOMAIN calls' \ DOMAIN calls :
                j - Len(calls) \in DOMAIN s /\ Same(calls'[j], s[j - Len(calls)])
<1>1. s \in Seq(Call) /\ Len(s) \in Nat /\ Len(calls) \in Nat /\ DOMAIN s = 1..Len(s) /\ DOMAIN calls = 1..Len(calls)
    BY DEF Sends, Fresh
<1>2. \A c : Same(c, c)
    BY DEF Same
<1>3. CASE calls' = calls \o s
    BY <1>1, <1>2, <1>3, ConcatProperties
<1>4. CASE calls' = Unheard(calls \o s)
    <2> DEFINE t == calls \o s
    <2>1. /\ t \in Seq(Call) /\ Len(t) = Len(calls) + Len(s) /\ DOMAIN t = 1..(Len(calls) + Len(s))
          /\ \A j \in DOMAIN t : t[j] = IF j <= Len(calls) THEN calls[j] ELSE s[j - Len(calls)]
        BY <1>1, ConcatProperties
    <2> HIDE DEF t
    <2>2. /\ calls' \in Seq(Call) /\ Len(calls') = Len(t) /\ DOMAIN calls' = DOMAIN t
          /\ \A j \in DOMAIN t : Same(calls'[j], t[j])
        BY <1>4, <2>1, UnheardType DEF t
    <2> QED
        BY <1>1, <2>1, <2>2
<1>5. CASE calls' = Unheard(calls) \o s
    <2> DEFINE t == Unheard(calls)
    <2>1. t \in Seq(Call) /\ Len(t) = Len(calls) /\ \A j \in DOMAIN calls : Same(t[j], calls[j])
        BY UnheardType
    <2> HIDE DEF t
    <2>2. calls' = t \o s
        BY <1>5 DEF t
    <2>3. /\ calls' \in Seq(Call) /\ Len(calls') = Len(t) + Len(s)
          /\ \A j \in 1..(Len(t) + Len(s)) : calls'[j] = IF j <= Len(t) THEN t[j] ELSE s[j - Len(t)]
        BY <1>1, <2>1, <2>2, ConcatProperties
    <2>4. DOMAIN calls' = 1..(Len(calls) + Len(s))
        BY <2>1, <2>3
    <2>5. ASSUME NEW j \in DOMAIN calls PROVE j \in DOMAIN calls' /\ Same(calls'[j], calls[j])
        <3>1. calls'[j] = t[j] /\ j \in DOMAIN calls'
            BY <1>1, <2>1, <2>3, <2>4
        <3> QED
            BY <2>1, <3>1
    <2>6. ASSUME NEW j \in DOMAIN calls' \ DOMAIN calls
          PROVE  j - Len(calls) \in DOMAIN s /\ Same(calls'[j], s[j - Len(calls)])
        <3>1. calls'[j] = s[j - Len(calls)] /\ j - Len(calls) \in DOMAIN s
            BY <1>1, <2>1, <2>3, <2>4
        <3> QED
            BY <1>2, <3>1
    <2> QED
        BY <2>1, <2>3, <2>4, <2>5, <2>6
<1> QED
    BY <1>3, <1>4, <1>5 DEF Sends

\* The calls that are left keep their order.
From(i, j) == IF j < i THEN j ELSE j + 1

LEMMA DropsEffect ==
    ASSUME calls \in Seq(Call), NEW i, Drops(i)
    PROVE  /\ calls' \in Seq(Call)
           /\ Len(calls') = Len(calls) - 1 /\ DOMAIN calls' = 1..(Len(calls) - 1)
           /\ \A j \in DOMAIN calls' : From(i, j) \in DOMAIN calls /\ calls'[j] = calls[From(i, j)]
           /\ \A j, k \in DOMAIN calls' : j <= k => From(i, j) <= From(i, k)
           /\ \A k \in DOMAIN calls \ {i} : \E j \in DOMAIN calls' : From(i, j) = k
<1>1. i \in 1..Len(calls) /\ DOMAIN calls = 1..Len(calls) /\ Len(calls) \in Nat
    BY DEF Drops
<1>2. /\ calls' \in Seq(Call) /\ Len(calls') = Len(calls) - 1 /\ DOMAIN calls' = 1..(Len(calls) - 1)
      /\ \A j \in 1..(Len(calls) - 1) : calls'[j] = IF j < i THEN calls[j] ELSE calls[j + 1]
    BY RemoveAtType DEF Drops
<1>3. ASSUME NEW k \in DOMAIN calls \ {i} PROVE \E j \in DOMAIN calls' : From(i, j) = k
    <2> DEFINE j == IF k < i THEN k ELSE k - 1
    <2>1. j \in DOMAIN calls' /\ From(i, j) = k
        BY <1>1, <1>2 DEF From
    <2> QED
        BY <2>1
<1> QED
    BY <1>1, <1>2, <1>3 DEF From

LEMMA CallsType ==
    ASSUME TypeOK,
           \/ UNCHANGED calls \/ \E s : Sends(s)
           \/ \E i \in DOMAIN calls : Drops(i) \/ Changes(i)
    PROVE  calls' \in Seq(Call)
<1>1. calls \in Seq(Call)
    BY DEF TypeOK
<1>2. CASE UNCHANGED calls
    BY <1>1, <1>2
<1>3. CASE \E s : Sends(s)
    <2>1. PICK s : Sends(s)
        BY <1>3
    <2> QED
        BY <1>1, <2>1, SendsEffect
<1>4. CASE \E i \in DOMAIN calls : Drops(i)
    BY <1>1, <1>4, DropsEffect
<1>5. CASE \E i \in DOMAIN calls : Changes(i)
    BY <1>1, <1>5 DEF Changes
<1> QED
    BY <1>2, <1>3, <1>4, <1>5

LEMMA ThreeSent ==
    ASSUME calls \in Seq(Call), NEW b, NEW c, NEW d, Fresh(b), Fresh(c), Fresh(d),
           calls' = Unheard(calls \o b \o c \o d)
    PROVE  \E s : Sends(s)
<1>1. Fresh(b \o c \o d)
    BY ConcatFresh
<1>2. b \in Seq(Call) /\ c \in Seq(Call) /\ d \in Seq(Call)
    BY DEF Fresh
<1>3. calls \o b \o c \o d = calls \o (b \o c \o d)
    <2> DEFINE e == b \o c
    <2>1. (calls \o b) \o c = calls \o e
        BY <1>2, ConcatAssociative
    <2>2. e \in Seq(Call)
        BY <1>2, ConcatProperties
    <2>3. e \o d = b \o c \o d
        OBVIOUS
    <2> HIDE DEF e
    <2>4. (calls \o e) \o d = calls \o (e \o d)
        BY <1>2, <2>2, ConcatAssociative
    <2> QED
        BY <2>1, <2>3, <2>4
<1> QED
    BY <1>1, <1>3 DEF Sends

LEMMA PageMoves ==
    ASSUME TypeOK, Exam
    PROVE  UNCHANGED calls \/ \E s : Sends(s)
<1> DEFINE Closing     == <<NewCall("finish", {}, FALSE)>>
           Snapshots   == Snapshot(TRUE)
           Saves       == SaveState(TRUE)
<1>0. Fresh(Closing) /\ Fresh(Snapshots) /\ Fresh(Saves)
    BY OneFresh, SentFresh
<1> HIDE DEF Closing, Snapshots, Saves
<1>1. /\ Fresh(Snapshot(TRUE)) /\ Fresh(Snapshot(FALSE))
      /\ Fresh(SaveState(TRUE)) /\ Fresh(SaveState(FALSE)) /\ Fresh(Beacon)
    BY SentFresh
<1>2. Fresh(Snapshot(TRUE) \o SaveState(TRUE)) /\ Fresh(Snapshot(FALSE) \o SaveState(FALSE))
    BY <1>1, ConcatFresh
<1>3. Fresh(Snapshots \o Saves \o Closing)
    BY <1>0, ConcatFresh
<1>4. CASE TimerFires
    BY <1>1, <1>4 DEF TimerFires, Send, Sends
<1>5. CASE SwitchAway
    BY <1>1, <1>5 DEF SwitchAway, Send, Sends
<1>6. CASE Interval
    BY <1>1, <1>6 DEF Interval, Send, Sends
<1>7. CASE FlushAll
    BY <1>2, <1>7 DEF FlushAll, SendBoth, Send, Sends
<1>8. CASE Execute
    BY <1>2, <1>8 DEF Execute, SendBoth, Send, Sends
<1>9. CASE Finish
    <2>1. Snapshots \in Seq(Call) /\ Saves \in Seq(Call) /\ calls \in Seq(Call) /\ Closing \in Seq(Call)
        BY <1>0 DEF Fresh, TypeOK
    <2>2. calls' = Unheard(calls \o Snapshots \o Saves \o Closing)
        BY <1>9 DEF Finish, Snapshots, Saves, Closing
    <2> QED
        BY <1>0, <2>1, <2>2, ThreeSent
<1>10. CASE StayAfterAll
    BY <1>1, <1>10 DEF StayAfterAll, Send, Sends
<1>11. CASE Leave
    BY <1>1, <1>11 DEF Leave, Sends
<1>12. CASE Vanish
    <2>1. calls \o <<>> = calls
        BY DEF TypeOK
    <2> QED
        BY <1>12, <2>1, NoneFresh DEF Vanish, Sends
<1>13. CASE Open \/ Edit \/ ChangeLanguage \/ SwitchBack \/ EditOther
    BY <1>13 DEF Open, Edit, ChangeLanguage, SwitchBack, EditOther
<1> QED
    BY <1>4, <1>5, <1>6, <1>7, <1>8, <1>9, <1>10, <1>11, <1>12, <1>13 DEF Exam

LEMMA ServerMoves ==
    ASSUME TypeOK, NEW i \in DOMAIN calls, Serve(i) \/ FailCall(i)
    PROVE  Drops(i) \/ Changes(i)
<1>1. calls[i] \in Call /\ row \in Row \cup {None}
    BY DEF TypeOK
<1>2. CASE calls' = [calls EXCEPT ![i].step = "admitted"]
    <2> DEFINE c == [calls[i] EXCEPT !.step = "admitted"]
    <2>1. c \in Call /\ calls' = [calls EXCEPT ![i] = c]
        BY <1>1, <1>2 DEF Call
    <2>2. /\ c.kind = calls[i].kind /\ c.lang = calls[i].lang /\ c.langs = calls[i].langs /\ c.text = calls[i].text
          /\ c.row = calls[i].row \/ c.row = row
          /\ c.kind = "finish" /\ c.step = "selected" => calls[i].step = "selected"
        BY <1>1 DEF Call
    <2> QED
        BY <2>1, <2>2 DEF Changes
<1>3. CASE calls[i].kind # "finish" /\ calls' = [calls EXCEPT ![i].step = "selected", ![i].row = row]
    <2> DEFINE c == [calls[i] EXCEPT !.step = "selected", !.row = row]
    <2>1. c \in Call /\ calls' = [calls EXCEPT ![i] = c]
        BY <1>1, <1>3 DEF Call
    <2>2. /\ c.kind = calls[i].kind /\ c.lang = calls[i].lang /\ c.langs = calls[i].langs /\ c.text = calls[i].text
          /\ c.row = calls[i].row \/ c.row = row
          /\ c.kind = "finish" /\ c.step = "selected" => calls[i].step = "selected"
        BY <1>1, <1>3 DEF Call
    <2> QED
        BY <2>1, <2>2 DEF Changes
<1>4. CASE calls' = [calls EXCEPT ![i].heard = FALSE]
    <2> DEFINE c == [calls[i] EXCEPT !.heard = FALSE]
    <2>1. c \in Call /\ calls' = [calls EXCEPT ![i] = c]
        BY <1>1, <1>4 DEF Call
    <2>2. /\ c.kind = calls[i].kind /\ c.lang = calls[i].lang /\ c.langs = calls[i].langs /\ c.text = calls[i].text
          /\ c.row = calls[i].row \/ c.row = row
          /\ c.kind = "finish" /\ c.step = "selected" => calls[i].step = "selected"
        BY <1>1 DEF Call
    <2> QED
        BY <2>1, <2>2 DEF Changes
<1>5. CASE calls' = RemoveAt(calls, i)
    BY <1>5 DEF Drops
<1> QED
    BY <1>2, <1>3, <1>4, <1>5 DEF Serve, Admit, Select, Refuse, Store, CloseExam, FailCall, End

\* Every step keeps a row that has been selected, and the calls with it.
LEMMA RowStaysStep ==
    ASSUME Inv, [Next]_vars
    PROVE  RowStays'
<1> USE DEF Inv
<1>0. calls \in Seq(Call)
    BY DEF TypeOK
<1> SUFFICES ASSUME row' = None, NEW j \in DOMAIN calls' PROVE calls'[j].row = None
    BY DEF RowStays
<1>1. row = None /\ \A i \in DOMAIN calls : calls[i].row = None
    <2>1. row' # None \/ row' = row
        <3>1. ASSUME NEW i \in DOMAIN calls, Store(i) PROVE row' # None
            <4>1. calls[i].row = None <=> row = None
                BY <3>1 DEF Store, RowStays
            <4> QED
                BY <3>1, <4>1, WrittenType, NoneAssumption DEF Store
        <3> QED
            BY <3>1 DEF Next, Exam, Serve, vars, store, Open, Edit, ChangeLanguage, TimerFires, SwitchAway, SwitchBack,
                EditOther, Interval, FlushAll, Execute, Finish, StayAfterAll, Leave, Vanish, Expire,
                Admit, Select, Refuse, CloseExam, FailCall
    <2> QED
        BY <2>1 DEF RowStays
<1>2. CASE UNCHANGED calls
    BY <1>1, <1>2
<1>3. CASE \E s : Sends(s)
    <2>1. PICK s : Sends(s)
        BY <1>3
    <2>2. CASE j \in DOMAIN calls
        BY <1>0, <1>1, <2>1, <2>2, SendsEffect DEF Same
    <2>3. CASE j \notin DOMAIN calls
        <3>1. j - Len(calls) \in DOMAIN s /\ Same(calls'[j], s[j - Len(calls)])
            BY <1>0, <2>1, <2>3, SendsEffect
        <3> QED
            BY <2>1, <3>1 DEF Sends, Fresh, Same
    <2> QED
        BY <2>2, <2>3
<1>4. CASE \E i \in DOMAIN calls : Drops(i)
    BY <1>0, <1>1, <1>4, DropsEffect
<1>5. CASE \E i \in DOMAIN calls : Changes(i)
    BY <1>0, <1>1, <1>5 DEF Changes
<1>6. CASE Expire
    BY <1>2, <1>6 DEF Expire
<1> QED
    BY <1>2, <1>3, <1>4, <1>5, <1>6, PageMoves, ServerMoves DEF Next, vars

LEMMA CarryingStep ==
    ASSUME Inv, [Next]_vars
    PROVE  Carrying'
<1>0. calls \in Seq(Call) /\ TypeOK
    BY DEF Inv, TypeOK
<1>1. \A i \in DOMAIN calls : /\ calls[i].kind = "finish" => calls[i].step # "selected"
                              /\ calls[i].kind # "finish" => calls[i].lang \in calls[i].langs
    BY DEF Inv, Carrying
<1>2. CASE UNCHANGED calls
    BY <1>1, <1>2 DEF Carrying
<1>3. CASE \E s : Sends(s)
    <2>1. PICK s : Sends(s)
        BY <1>3
    <2> SUFFICES ASSUME NEW j \in DOMAIN calls'
                 PROVE  /\ calls'[j].kind = "finish" => calls'[j].step # "selected"
                        /\ calls'[j].kind # "finish" => calls'[j].lang \in calls'[j].langs
        BY DEF Carrying
    <2>2. CASE j \in DOMAIN calls
        BY <1>0, <1>1, <2>1, <2>2, SendsEffect DEF Same
    <2>3. CASE j \notin DOMAIN calls
        <3>1. j - Len(calls) \in DOMAIN s /\ Same(calls'[j], s[j - Len(calls)])
            BY <1>0, <2>1, <2>3, SendsEffect
        <3> QED
            BY <2>1, <3>1 DEF Sends, Fresh, Same
    <2> QED
        BY <2>2, <2>3
<1>4. CASE \E i \in DOMAIN calls : Drops(i)
    BY <1>0, <1>1, <1>4, DropsEffect DEF Carrying
<1>5. CASE \E i \in DOMAIN calls : Changes(i)
    BY <1>0, <1>1, <1>5 DEF Changes, Carrying
<1>6. CASE Expire
    BY <1>2, <1>6 DEF Expire
<1> QED
    BY <1>0, <1>2, <1>3, <1>4, <1>5, <1>6, PageMoves, ServerMoves DEF Next, vars

LEMMA PageTypes ==
    ASSUME TypeOK, Exam
    PROVE  TypeOK'
<1>1. calls' \in Seq(Call)
    BY PageMoves, CallsType
<1>2. /\ at \in Places /\ lang \in Langs /\ text \in Texts /\ marked \in Whole \cup {None} /\ snapped \in Code \cup {None}
      /\ timer \in BOOLEAN /\ row \in Row \cup {None} /\ status \in {"in_progress", "submitted", "expired"}
      /\ edits \in Nat /\ failed \in BOOLEAN /\ order \in Orders
    BY DEF TypeOK
<1>3. All \in Whole /\ Shown \in Code
    BY <1>2 DEF All, Shown, Whole, Code, Texts
<1>4. CASE Open
    <2>1. lang' \in Langs /\ text' \in Texts
        BY <1>2, <1>4, LangAssumption DEF Open, Row, Texts, Blank
    <2> QED
        BY <1>1, <1>2, <1>4, <2>1 DEF Open, Forget, TypeOK, store, Places, Orders
<1>5. CASE Edit
    <2>1. text' \in Texts /\ edits' \in Nat
        BY <1>2, <1>5 DEF Edit, Texts
    <2> QED
        BY <1>1, <1>2, <1>5, <2>1 DEF Edit, TypeOK, store
<1>6. CASE ChangeLanguage
    BY <1>1, <1>2, <1>6 DEF ChangeLanguage, Other, TypeOK, store
<1>7. CASE TimerFires \/ SwitchAway \/ SwitchBack \/ EditOther
    BY <1>1, <1>2, <1>3, <1>7 DEF TimerFires, SwitchAway, SwitchBack, EditOther, TypeOK, store, typed, Places
<1>8. CASE Interval \/ FlushAll \/ Execute
    BY <1>1, <1>2, <1>3, <1>8 DEF Interval, FlushAll, Execute, SendBoth, TypeOK, store, typed
<1>9. CASE Finish \/ StayAfterAll \/ Leave \/ Vanish
    BY <1>1, <1>2, <1>9 DEF Finish, StayAfterAll, Leave, Vanish, Forget, TypeOK, store, typed, page, Places
<1> QED
    BY <1>4, <1>5, <1>6, <1>7, <1>8, <1>9 DEF Exam

LEMMA ServerTypes ==
    ASSUME Inv, NEW i \in DOMAIN calls, Serve(i) \/ FailCall(i)
    PROVE  TypeOK'
<1> USE DEF Inv
<1>1. calls' \in Seq(Call)
    BY ServerMoves, CallsType
<1>2. /\ at \in Places /\ lang \in Langs /\ text \in Texts /\ marked \in Whole \cup {None} /\ snapped \in Code \cup {None}
      /\ timer \in BOOLEAN /\ row \in Row \cup {None} /\ status \in {"in_progress", "submitted", "expired"}
      /\ edits \in Nat /\ failed \in BOOLEAN /\ order \in Orders
    BY DEF TypeOK
<1>3. Unmarked(i) \in Whole \cup {None}
    BY <1>2 DEF Unmarked
<1>4. CASE Admit(i)
    BY <1>1, <1>2, <1>3, <1>4 DEF Admit, End, TypeOK, store, typed
<1>5. CASE Select(i)
    BY <1>1, <1>2, <1>5 DEF Select, TypeOK, store, page
<1>6. CASE Refuse(i) \/ FailCall(i)
    BY <1>1, <1>2, <1>3, <1>6 DEF Refuse, FailCall, End, TypeOK, store, typed
<1>7. CASE Store(i)
    <2>1. row' \in Row
        BY <1>7, WrittenType DEF Store, RowStays
    <2> QED
        BY <1>1, <1>2, <1>7, <2>1 DEF Store, End, TypeOK, typed, Orders
<1>8. CASE CloseExam(i)
    BY <1>1, <1>2, <1>8 DEF CloseExam, End, TypeOK, typed
<1> QED
    BY <1>4, <1>5, <1>6, <1>7, <1>8 DEF Serve

LEMMA InvStep == ASSUME Inv, [Next]_vars PROVE Inv'
<1>1. RowStays' /\ Carrying'
    BY RowStaysStep, CarryingStep
<1>2. CASE Exam
    BY <1>1, <1>2, PageTypes DEF Inv
<1>3. CASE \E i \in DOMAIN calls : Serve(i) \/ FailCall(i)
    BY <1>1, <1>3, ServerTypes DEF Inv
<1>4. CASE Expire
    BY <1>1, <1>4 DEF Inv, TypeOK, Expire, page
<1>5. CASE UNCHANGED vars
    BY <1>1, <1>5 DEF Inv, TypeOK, vars, page, store
<1> QED
    BY <1>2, <1>3, <1>4, <1>5 DEF Next

LEMMA InitInv == Init => Inv
<1> SUFFICES ASSUME Init PROVE Inv
    OBVIOUS
<1>1. calls \in Seq(Call) /\ DOMAIN calls = {}
    BY DEF Init
<1>2. TypeOK
    BY <1>1, LangAssumption DEF Init, TypeOK, Places, Texts, Blank, Orders
<1> QED
    BY <1>1, <1>2 DEF Inv, RowStays, Carrying

\* Every variable keeps its type.
THEOREM TypeCorrect == Spec => []TypeOK
<1>1. Init => Inv
    BY InitInv
<1>2. Inv /\ [Next]_vars => Inv'
    BY InvStep
<1>3. Inv => TypeOK
    BY DEF Inv
<1> QED
    BY <1>1, <1>2, <1>3, PTL DEF Spec

----------------------------------------------------------------------------
(* Rows *)

\* A write over the row that was selected writes every column.
LEMMA WritesAll ==
    ASSUME Inv, NEW i \in DOMAIN calls, calls[i].row = row
    PROVE  Written(calls[i]) = Upserted(calls[i])
<1>1. calls[i] \in Call
    BY DEF Inv, TypeOK
<1> QED
    BY <1>1 DEF Written, Column, Upserted

LEMMA UpsertedWhole ==
    ASSUME Inv, NEW i \in DOMAIN calls, calls[i].step = "selected"
    PROVE  Upserted(calls[i]).code = Upserted(calls[i]).byLang[Upserted(calls[i]).lang]
<1>1. calls[i] \in Call /\ calls[i].lang \in calls[i].langs
    BY DEF Inv, TypeOK, Carrying
<1> QED
    BY <1>1 DEF Upserted, Over, Call

\* Every step either leaves the row alone or is the commit of a call.
LEMMA RowSteps ==
    ASSUME [Next]_vars
    PROVE  /\ order = "stale" => order' = "stale"
           /\ order # "serial" => order' # "serial"
           /\ UNCHANGED row \/ \E i \in DOMAIN calls : Store(i)
<1>1. CASE Exam
    BY <1>1 DEF Exam, Open, Edit, ChangeLanguage, TimerFires, SwitchAway, SwitchBack, EditOther,
        Interval, FlushAll, Execute, SendBoth, Finish, StayAfterAll, Leave, Vanish, store
<1>2. ASSUME NEW i \in DOMAIN calls, Serve(i) \/ FailCall(i)
      PROVE  /\ order = "stale" => order' = "stale"
             /\ order # "serial" => order' # "serial"
             /\ UNCHANGED row \/ Store(i)
    BY <1>2 DEF Serve, Admit, Select, Refuse, Store, CloseExam, FailCall, store
<1>3. CASE Expire \/ UNCHANGED vars
    BY <1>3 DEF Expire, vars, store
<1> QED
    BY <1>1, <1>2, <1>3 DEF Next

LEMMA RowIsWholeStep ==
    ASSUME Inv, RowIsWhole, [Next]_vars
    PROVE  RowIsWhole'
<1>1. CASE UNCHANGED row
    BY <1>1, RowSteps DEF RowIsWhole
<1>2. ASSUME NEW i \in DOMAIN calls, Store(i) PROVE RowIsWhole'
    <2> SUFFICES ASSUME order' # "stale" PROVE row'.code = row'.byLang[row'.lang]
        BY DEF RowIsWhole
    <2>1. calls[i].row = row /\ calls[i].step = "selected" /\ row' = Written(calls[i])
        BY <1>2 DEF Store
    <2> QED
        BY <2>1, WritesAll, UpsertedWhole
<1> QED
    BY <1>1, <1>2, RowSteps

\* The row's code is the code of its language unless a write was based on a row that
\* had changed.
THEOREM RowWhole == Spec => []RowIsWhole
<1>1. Init => Inv /\ RowIsWhole
    BY InitInv DEF Init, RowIsWhole
<1>2. Inv /\ RowIsWhole /\ [Next]_vars => (Inv /\ RowIsWhole)'
    BY InvStep, RowIsWholeStep
<1> QED
    BY <1>1, <1>2, PTL DEF Spec

----------------------------------------------------------------------------
(* Calls handled one after the other *)

\* The calls in flight carry older and older text towards the row.
Ordered == \A i, j \in DOMAIN calls : i <= j =>
    \A l \in calls[i].langs \cap calls[j].langs : calls[i].text[l] <= calls[j].text[l]
Between == \A i \in DOMAIN calls : \A l \in calls[i].langs :
    InRow(l) <= calls[i].text[l] /\ calls[i].text[l] <= text[l]
Latest  == \A l \in Langs : InRow(l) <= text[l] /\ text[l] <= edits

Chain == Ordered /\ Between /\ Latest

LEMMA InRowType == ASSUME TypeOK, NEW l \in Langs PROVE InRow(l) \in Nat
BY DEF InRow, TypeOK, Row, Texts

LEMMA CallFields ==
    ASSUME TypeOK, NEW i \in DOMAIN calls
    PROVE  /\ calls[i] \in Call /\ calls[i].langs \subseteq Langs
           /\ \A l \in Langs : calls[i].text[l] \in Nat
<1>1. calls[i] \in Call
    BY DEF TypeOK
<1>2. calls[i].langs \in SUBSET Langs /\ calls[i].text \in [Langs -> Nat]
    BY <1>1 DEF Call, Texts
<1> QED
    BY <1>1, <1>2

LEMMA ChainSend ==
    ASSUME Inv, Chain, NEW s, Sends(s), UNCHANGED <<row, text, edits>>
    PROVE  Chain'
<1>0. /\ calls \in Seq(Call) /\ text \in Texts /\ s \in Seq(Call) /\ DOMAIN s = 1..Len(s) /\ DOMAIN calls = 1..Len(calls)
      /\ Len(s) \in Nat /\ Len(calls) \in Nat
    BY DEF Inv, TypeOK, Sends, Fresh
<1>1. UNCHANGED text /\ \A l : InRow(l)' = InRow(l)
    BY DEF InRow
\* A call in flight after the step was there before or carries what the page shows.
<1> DEFINE New(j) == \A l \in calls'[j].langs : calls'[j].text[l] = text[l]
           Old(j) == j \in DOMAIN calls /\ Same(calls'[j], calls[j])
<1>2. ASSUME NEW j \in DOMAIN calls'
      PROVE  j \in Nat /\ calls'[j].langs \subseteq Langs /\ ((j <= Len(calls) /\ Old(j)) \/ (j > Len(calls) /\ New(j)))
    <2>0. calls' \in Seq(Call) /\ DOMAIN calls' = 1..(Len(calls) + Len(s))
        BY <1>0, SendsEffect
    <2>1. j \in Nat /\ j >= 1
        BY <1>0, <2>0
    <2>2. calls'[j].langs \subseteq Langs
        <3>1. calls'[j] \in Call
            BY <2>0
        <3>2. calls'[j].langs \in SUBSET Langs
            BY <3>1 DEF Call
        <3> QED
            BY <3>2
    <2>3. CASE j \in DOMAIN calls
        <3>1. Same(calls'[j], calls[j])
            BY <1>0, <2>3, SendsEffect
        <3>2. j <= Len(calls)
            BY <1>0, <2>3
        <3> QED
            BY <2>1, <2>2, <2>3, <3>1, <3>2
    <2>4. CASE j \notin DOMAIN calls
        <3>1. j - Len(calls) \in DOMAIN s /\ Same(calls'[j], s[j - Len(calls)])
            BY <1>0, <2>4, SendsEffect
        <3>2. New(j)
            BY <3>1 DEF Sends, Fresh, Same
        <3> QED
            BY <1>0, <2>1, <2>2, <2>4, <3>2
    <2> QED
        BY <2>3, <2>4
<1>3. ASSUME NEW j \in DOMAIN calls', NEW l \in calls'[j].langs
      PROVE  InRow(l) <= calls'[j].text[l] /\ calls'[j].text[l] <= text[l]
    <2>1. l \in Langs
        BY <1>2
    <2>2. CASE Old(j)
        BY <2>2 DEF Same, Chain, Between
    <2>3. CASE New(j)
        BY <1>0, <2>1, <2>3 DEF Chain, Latest, Texts
    <2> QED
        BY <1>2, <2>2, <2>3
<1>4. ASSUME NEW i \in DOMAIN calls', NEW j \in DOMAIN calls', i <= j, NEW l \in calls'[i].langs \cap calls'[j].langs
      PROVE  calls'[i].text[l] <= calls'[j].text[l]
    <2>1. CASE j <= Len(calls)
        <3>1. Old(i) /\ Old(j)
            BY <1>0, <1>2, <1>4, <2>1
        <3> QED
            BY <1>4, <3>1 DEF Same, Chain, Ordered
    <2>2. CASE j > Len(calls)
        <3>1. calls'[j].text[l] = text[l]
            BY <1>0, <1>2, <2>2
        <3> QED
            BY <1>3, <3>1
    <2> QED
        BY <1>0, <1>2, <2>1, <2>2
<1>5. Ordered'
    BY <1>4 DEF Ordered
<1>6. Between'
    BY <1>1, <1>3 DEF Between
<1>7. Latest'
    BY <1>1 DEF Chain, Latest
<1> QED
    BY <1>5, <1>6, <1>7 DEF Chain

LEMMA ChainChange ==
    ASSUME Inv, Chain, NEW i, Changes(i), UNCHANGED <<row, text, edits>>
    PROVE  Chain'
<1>1. \A l : InRow(l)' = InRow(l)
    BY DEF InRow
<1>2. DOMAIN calls' = DOMAIN calls
      /\ \A j \in DOMAIN calls : calls'[j].langs = calls[j].langs /\ calls'[j].text = calls[j].text
    BY DEF Changes, Inv, TypeOK
<1> QED
    BY <1>1, <1>2 DEF Chain, Ordered, Between, Latest

LEMMA ChainDrop ==
    ASSUME Inv, Chain, NEW i, Drops(i), UNCHANGED <<row, text, edits>>
    PROVE  Chain'
<1>1. \A l : InRow(l)' = InRow(l)
    BY DEF InRow
<1>2. /\ \A j \in DOMAIN calls' : From(i, j) \in DOMAIN calls /\ calls'[j] = calls[From(i, j)]
      /\ \A j, k \in DOMAIN calls' : j <= k => From(i, j) <= From(i, k)
    BY DropsEffect DEF Inv, TypeOK
<1>3. Ordered'
    BY <1>2 DEF Chain, Ordered
<1>4. Between'
    BY <1>1, <1>2 DEF Chain, Between
<1>5. Latest'
    BY <1>1 DEF Chain, Latest
<1> QED
    BY <1>3, <1>4, <1>5 DEF Chain

\* In its turn, and over the row it selected, a call only brings newer text.
LEMMA StoreEffect ==
    ASSUME Inv, Chain, Store(1), 1 \in DOMAIN calls, calls[1].row = row
    PROVE  /\ row' = Upserted(calls[1]) /\ row' # None
           /\ \A l \in Langs : /\ l \in calls[1].langs => InRow(l)' = calls[1].text[l]
                               /\ l \notin calls[1].langs => InRow(l)' = InRow(l)
                               /\ InRow(l) <= InRow(l)' /\ InRow(l)' <= text[l] /\ InRow(l)' \in Nat
<1>1. calls[1] \in Call /\ row \in Row \cup {None}
    BY DEF Inv, TypeOK
<1>2. row' = Upserted(calls[1])
    BY WritesAll DEF Store
<1>3. row' \in Row
    BY <1>1, WrittenType DEF Store, Inv
<1>4. row' # None
    BY <1>3, NoneAssumption
<1>5. ASSUME NEW l \in Langs
      PROVE  /\ l \in calls[1].langs => InRow(l)' = calls[1].text[l]
             /\ l \notin calls[1].langs => InRow(l)' = InRow(l)
    BY <1>1, <1>2, <1>4 DEF Upserted, Over, InRow, Blank, Call
<1>6. ASSUME NEW l \in Langs
      PROVE  InRow(l) <= InRow(l)' /\ InRow(l)' <= text[l] /\ InRow(l)' \in Nat
    <2>1. InRow(l) \in Nat /\ calls[1].text[l] \in Nat
        BY InRowType, CallFields DEF Inv
    <2>2. CASE l \in calls[1].langs
        BY <1>5, <2>1, <2>2 DEF Chain, Between
    <2>3. CASE l \notin calls[1].langs
        BY <1>5, <2>1, <2>3 DEF Chain, Latest
    <2> QED
        BY <2>2, <2>3
<1> QED
    BY <1>2, <1>4, <1>5, <1>6

LEMMA ChainStore ==
    ASSUME Inv, Chain, Store(1), 1 \in DOMAIN calls, calls[1].row = row
    PROVE  Chain'
<1>1. UNCHANGED <<text, edits>> /\ Drops(1)
    BY DEF Store, End, Drops, typed
<1>2. /\ \A j \in DOMAIN calls' : From(1, j) \in DOMAIN calls /\ calls'[j] = calls[From(1, j)] /\ 1 <= From(1, j)
      /\ \A j, k \in DOMAIN calls' : j <= k => From(1, j) <= From(1, k)
    BY <1>1, DropsEffect DEF Inv, TypeOK
<1>3. Ordered'
    BY <1>2 DEF Chain, Ordered
<1>4. ASSUME NEW j \in DOMAIN calls', NEW l \in calls'[j].langs
      PROVE  InRow(l)' <= calls'[j].text[l] /\ calls'[j].text[l] <= text[l]
    <2> DEFINE k == From(1, j)
    <2>1. k \in DOMAIN calls /\ calls'[j] = calls[k] /\ 1 <= k /\ l \in Langs
        BY <1>2, CallFields DEF Inv
    <2> HIDE DEF k
    <2>2. InRow(l) <= calls[k].text[l] /\ calls[k].text[l] <= text[l]
        BY <2>1 DEF Chain, Between
    <2>3. CASE l \in calls[1].langs
        <3>1. calls[1].text[l] <= calls[k].text[l]
            BY <2>1, <2>3 DEF Chain, Ordered
        <3> QED
            BY <2>1, <2>2, <2>3, <3>1, StoreEffect
    <2>4. CASE l \notin calls[1].langs
        BY <2>1, <2>2, <2>4, StoreEffect
    <2> QED
        BY <2>3, <2>4
<1>5. Between'
    BY <1>1, <1>4 DEF Between
<1>6. Latest'
    BY <1>1, StoreEffect DEF Chain, Latest
<1> QED
    BY <1>3, <1>5, <1>6 DEF Chain

LEMMA ChainQuiet ==
    ASSUME Chain, Inv, UNCHANGED <<calls, row, text>>, edits' \in Nat, edits <= edits'
    PROVE  Chain'
<1>1. \A l : InRow(l)' = InRow(l)
    BY DEF InRow
<1>2. Ordered' /\ Between'
    BY <1>1 DEF Chain, Ordered, Between
<1>3. Latest'
    <2>1. edits \in Nat /\ \A l \in Langs : text[l] \in Nat
        BY DEF Inv, TypeOK, Texts
    <2> QED
        BY <1>1, <2>1 DEF Chain, Latest
<1> QED
    BY <1>2, <1>3 DEF Chain

LEMMA ChainEdit ==
    ASSUME Inv, Chain, Edit
    PROVE  Chain'
<1>1. /\ lang \in Langs /\ edits \in Nat /\ text \in [Langs -> Nat]
      /\ text' = [text EXCEPT ![lang] = edits + 1] /\ edits' = edits + 1 /\ UNCHANGED <<calls, row>>
    BY DEF Inv, TypeOK, Texts, Edit, store
<1>2. \A l \in Langs : InRow(l)' = InRow(l) /\ InRow(l) \in Nat
    BY <1>1, InRowType DEF InRow, Inv
<1>3. \A l \in Langs : text[l] <= text'[l] /\ text'[l] <= edits' /\ text[l] \in Nat /\ text'[l] \in Nat
    BY <1>1 DEF Chain, Latest
<1>4. Ordered'
    BY <1>1 DEF Chain, Ordered
<1>5. ASSUME NEW i \in DOMAIN calls, NEW l \in calls[i].langs
      PROVE  InRow(l)' <= calls[i].text[l] /\ calls[i].text[l] <= text'[l]
    <2>1. l \in Langs /\ calls[i].text[l] \in Nat
        BY CallFields DEF Inv
    <2>2. InRow(l) <= calls[i].text[l] /\ calls[i].text[l] <= text[l]
        BY DEF Chain, Between
    <2> QED
        BY <1>2, <1>3, <2>1, <2>2
<1>6. Between'
    BY <1>1, <1>5 DEF Between
<1>7. Latest'
    <2>1. ASSUME NEW l \in Langs PROVE InRow(l)' <= text'[l]
        BY <1>2, <1>3 DEF Chain, Latest
    <2> QED
        BY <1>3, <2>1 DEF Latest
<1> QED
    BY <1>4, <1>6, <1>7 DEF Chain

\* The page shows what the row holds.
LEMMA OpenEffect ==
    ASSUME Inv, RowIsWhole, order # "stale", Open
    PROVE  /\ UNCHANGED <<calls, row, edits, status, failed>>
           /\ \A l \in Langs : text'[l] = InRow(l)
           /\ row = None => lang' = FirstLang /\ text' = Blank
           /\ row # None => lang' = row.lang /\ text' = row.byLang
<1>1. UNCHANGED <<calls, row, edits, status, failed>>
    BY DEF Open, store
<1>2. CASE row = None
    BY <1>1, <1>2 DEF Open, InRow, Blank
<1>3. CASE row # None
    <2>1. row.byLang \in [Langs -> Nat] /\ row.code = row.byLang[row.lang] /\ row.lang \in Langs
        BY <1>3 DEF Inv, TypeOK, Row, Texts, RowIsWhole
    <2>2. text' = row.byLang /\ lang' = row.lang
        BY <1>3, <2>1 DEF Open
    <2> QED
        BY <1>1, <1>3, <2>2 DEF InRow
<1> QED
    BY <1>2, <1>3

LEMMA ChainOpen ==
    ASSUME Inv, RowIsWhole, Chain, Open, order = "serial", order' = "serial"
    PROVE  Chain'
<1>1. calls = <<>> /\ calls' = <<>>
    BY DEF Open
<1>2. Ordered' /\ Between'
    BY <1>1 DEF Ordered, Between
<1>3. ASSUME NEW l \in Langs PROVE InRow(l)' <= text'[l] /\ text'[l] <= edits'
    <2>1. text'[l] = InRow(l) /\ InRow(l)' = InRow(l) /\ edits' = edits
        BY OpenEffect DEF InRow
    <2>2. InRow(l) \in Nat /\ text[l] \in Nat /\ edits \in Nat
        BY InRowType DEF Inv, TypeOK, Texts
    <2> QED
        BY <2>1, <2>2 DEF Chain, Latest
<1>4. Latest'
    BY <1>3 DEF Latest
<1> QED
    BY <1>2, <1>4 DEF Chain

\* What the steps do to the text, on the page and in the server.
LEMMA PageKinds ==
    ASSUME TypeOK, Exam
    PROVE  \/ Open \/ Edit
           \/ /\ UNCHANGED <<row, text, status>> /\ edits' \in Nat /\ edits <= edits'
              /\ UNCHANGED calls
           \/ /\ UNCHANGED <<row, text, status, edits>> /\ \E s : Sends(s)
<1>1. edits \in Nat
    BY DEF TypeOK
<1>2. CASE ChangeLanguage \/ SwitchBack \/ EditOther
    BY <1>1, <1>2 DEF ChangeLanguage, SwitchBack, EditOther, store, typed
<1>3. CASE \/ TimerFires \/ SwitchAway \/ Interval \/ FlushAll \/ Execute
           \/ Finish \/ StayAfterAll \/ Leave \/ Vanish
    <2>1. UNCHANGED <<row, text, status, edits>>
        BY <1>3 DEF TimerFires, SwitchAway, Interval, FlushAll, Execute, Finish, StayAfterAll, Leave, Vanish, store, typed, page
    <2> QED
        BY <1>1, <2>1, PageMoves
<1> QED
    BY <1>2, <1>3 DEF Exam

LEMMA ServerKinds ==
    ASSUME TypeOK, NEW i \in DOMAIN calls, Serve(i) \/ FailCall(i), order = "serial", order' = "serial"
    PROVE  /\ UNCHANGED <<at, lang, text, timer, snapped, edits>>
           /\ \/ UNCHANGED row /\ (Drops(i) \/ Changes(i))
              \/ i = 1 /\ Store(1) /\ Drops(1) /\ calls[1].row = row /\ UNCHANGED <<status, marked>>
<1>1. UNCHANGED <<at, lang, text, timer, snapped, edits>>
    BY DEF Serve, Admit, Select, Refuse, Store, CloseExam, FailCall, typed, page
<1>2. CASE Store(i)
    <2>1. calls[i].row = row /\ ~(i > 1)
        BY <1>2 DEF Store
    <2>2. i = 1
        BY <2>1 DEF TypeOK
    <2> QED
        BY <1>1, <1>2, <2>1, <2>2 DEF Store, End, Drops
<1>3. CASE ~Store(i)
    <2>1. UNCHANGED row
        BY <1>3 DEF Serve, Admit, Select, Refuse, CloseExam, FailCall, store
    <2> QED
        BY <1>1, <2>1, ServerMoves
<1> QED
    BY <1>2, <1>3

LEMMA ChainStep ==
    ASSUME Inv, RowIsWhole, Chain, [Next]_vars, order = "serial", order' = "serial"
    PROVE  Chain'
<1>1. CASE Exam
    BY <1>1, PageKinds, ChainOpen, ChainEdit, ChainQuiet, ChainSend DEF Inv
<1>2. CASE \E i \in DOMAIN calls : Serve(i) \/ FailCall(i)
    BY <1>2, ServerKinds, ChainDrop, ChainChange, ChainStore DEF Inv
<1>3. CASE Expire \/ UNCHANGED vars
    <2>1. UNCHANGED <<calls, row, text, edits>> /\ edits \in Nat
        BY <1>3 DEF Expire, vars, page, store, Inv, TypeOK
    <2> QED
        BY <2>1, ChainQuiet
<1> QED
    BY <1>1, <1>2, <1>3 DEF Next

\* Serial is the inductive invariant of calls handled one after the other.
Serial == order = "serial" => Chain

LEMMA SerialInit == Init => Serial
<1> SUFFICES ASSUME Init PROVE Chain
    BY DEF Serial
<1>1. calls = <<>> /\ row = None /\ text = Blank /\ edits = 0
    BY DEF Init
<1> QED
    BY <1>1 DEF Chain, Ordered, Between, Latest, InRow, Blank

LEMMA SerialStep == ASSUME Inv, RowIsWhole, Serial, [Next]_vars PROVE Serial'
BY ChainStep, RowSteps DEF Serial

LEMMA Serially == Spec => [](Inv /\ RowIsWhole /\ Serial)
<1>1. Init => Inv /\ RowIsWhole /\ Serial
    BY InitInv, SerialInit DEF Init, RowIsWhole
<1>2. Inv /\ RowIsWhole /\ Serial /\ [Next]_vars => (Inv /\ RowIsWhole /\ Serial)'
    BY InvStep, RowIsWholeStep, SerialStep
<1> QED
    BY <1>1, <1>2, PTL DEF Spec

\* Handled one after the other, no call puts an older text in the place of a newer one.
THEOREM TextAdvances == Spec => StoredTextAdvances
<1> DEFINE Advance == order' = "serial" /\ row # None
                        => row' # None /\ \A l \in Langs : row'.byLang[l] >= row.byLang[l]
<1>1. ASSUME Inv, Serial, [Next]_vars PROVE Advance
    <2> SUFFICES ASSUME order' = "serial", row # None
                 PROVE  row' # None /\ \A l \in Langs : row'.byLang[l] >= row.byLang[l]
        OBVIOUS
    <2>1. order = "serial" /\ Chain
        BY <1>1, RowSteps DEF Serial
    <2>2. \A l \in Langs : row.byLang[l] \in Nat /\ InRow(l) = row.byLang[l]
        BY <1>1 DEF Inv, TypeOK, Row, Texts, InRow
    <2>3. CASE UNCHANGED row
        BY <2>2, <2>3
    <2>4. ASSUME NEW i \in DOMAIN calls, Store(i)
          PROVE  row' # None /\ \A l \in Langs : row'.byLang[l] >= row.byLang[l]
        <3>1. i = 1 /\ Store(1) /\ calls[1].row = row
            <4>1. calls[i].row = row /\ ~(i > 1)
                BY <2>1, <2>4 DEF Store
            <4>2. i = 1
                BY <1>1, <4>1 DEF Inv, TypeOK
            <4> QED
                BY <2>4, <4>1, <4>2
        <3>2. row' # None /\ \A l \in Langs : InRow(l) <= InRow(l)' /\ InRow(l)' \in Nat
            BY <1>1, <2>1, <2>4, <3>1, StoreEffect
        <3>3. \A l \in Langs : InRow(l)' = row'.byLang[l]
            BY <3>2 DEF InRow
        <3> QED
            BY <2>2, <3>2, <3>3
    <2> QED
        BY <1>1, <2>3, <2>4, RowSteps
<1> QED
    BY <1>1, Serially, PTL DEF Spec, StoredTextAdvances

----------------------------------------------------------------------------
(* Marks and unsaved work *)

\* A save of what the page shows, whose failure the page would hear of.
Saving(c) == c.kind = "save" /\ c.heard /\ c.langs = Langs /\ c.text = text

\* The page marks no text it has not shown; what is marked is in the row or in a save.
Marks    == marked # None => \A l \in Langs : marked.text[l] <= text[l]
AllInRow == row # None /\ row.byLang = text
Saved    == AllInRow \/ \E i \in DOMAIN calls : Saving(calls[i])
MarkKept == OnPage /\ Open_ /\ marked # None /\ marked.text = text => Saved

\* What is neither in the row nor in flight is due, and is shown.
Settled == \A l \in Langs : InRow(l) = text[l] \/ InFlight(l)
Pending == OnPage /\ Open_ /\ ~failed /\ (~timer \/ at = "hidden") => Settled

Appends(s) == Fresh(s) /\ calls' = calls \o s

LEMMA AppendsEffect ==
    ASSUME TypeOK, NEW s, Appends(s)
    PROVE  /\ \A k \in DOMAIN calls : k \in DOMAIN calls' /\ calls'[k] = calls[k]
           /\ \A k \in DOMAIN s : Len(calls) + k \in DOMAIN calls' /\ calls'[Len(calls) + k] = s[k]
<1>1. calls \in Seq(Call) /\ s \in Seq(Call)
    BY DEF TypeOK, Appends, Fresh
<1>2. DOMAIN calls = 1..Len(calls) /\ DOMAIN s = 1..Len(s) /\ Len(calls) \in Nat /\ Len(s) \in Nat
    BY <1>1
<1>3. /\ DOMAIN calls' = 1..(Len(calls) + Len(s))
      /\ \A k \in 1..(Len(calls) + Len(s)) : calls'[k] = IF k <= Len(calls) THEN calls[k] ELSE s[k - Len(calls)]
    BY <1>1, ConcatProperties DEF Appends
<1>4. ASSUME NEW k \in DOMAIN s
      PROVE  Len(calls) + k \in DOMAIN calls' /\ calls'[Len(calls) + k] = s[k]
    <2>1. Len(calls) + k \in 1..(Len(calls) + Len(s)) /\ ~(Len(calls) + k <= Len(calls)) /\ Len(calls) + k - Len(calls) = k
        BY <1>2
    <2> QED
        BY <1>3, <2>1
<1>5. ASSUME NEW k \in DOMAIN calls PROVE k \in DOMAIN calls' /\ calls'[k] = calls[k]
    BY <1>2, <1>3
<1> QED
    BY <1>4, <1>5

\* saveState sends what the page shows or has marked it before.
LEMMA SaveSent ==
    ASSUME TypeOK, NEW force \in BOOLEAN
    PROVE  \/ SaveState(force) = <<>> /\ marked = All
           \/ 1 \in DOMAIN SaveState(force) /\ Saving(SaveState(force)[1])
<1> DEFINE c == NewCall("save", Langs, TRUE)
<1>1. c.kind = "save" /\ c.langs = Langs /\ c.text = text
    <2>1. text \in [Langs -> Nat] /\ \A l \in Langs : [k \in Langs |-> IF k \in Langs THEN text[k] ELSE 0][l] = text[l]
        BY DEF TypeOK, Texts
    <2>2. [k \in Langs |-> IF k \in Langs THEN text[k] ELSE 0] = text
        BY <2>1
    <2> QED
        BY <2>2 DEF NewCall
<1>2. c.heard
    BY DEF NewCall
<1>3. Saving(c)
    BY <1>1, <1>2 DEF Saving
<1>4. SaveState(force) = <<c>> \/ (SaveState(force) = <<>> /\ marked = All)
    BY DEF SaveState
<1> HIDE DEF c
<1> QED
    BY <1>3, <1>4

\* What is in the row or in a save stays so when calls are only added.
LEMMA SavedAppends ==
    ASSUME TypeOK, NEW s, Appends(s), UNCHANGED <<row, text>>
    PROVE  /\ Saved => Saved'
           /\ \A k \in DOMAIN s : Saving(s[k]) => Saved'
           /\ Settled => Settled'
<1>1. ASSUME NEW k \in DOMAIN calls, Saving(calls[k]) PROVE Saved'
    <2>1. k \in DOMAIN calls' /\ calls'[k] = calls[k]
        BY AppendsEffect
    <2> QED
        BY <1>1, <2>1 DEF Saved, Saving
<1>2. ASSUME NEW k \in DOMAIN s, Saving(s[k]) PROVE Saved'
    <2>1. Len(calls) + k \in DOMAIN calls' /\ calls'[Len(calls) + k] = s[k]
        BY AppendsEffect
    <2> QED
        BY <1>2, <2>1 DEF Saved, Saving
<1>3. AllInRow => Saved'
    BY DEF Saved, AllInRow
<1>4. ASSUME NEW l \in Langs, InFlight(l) PROVE InFlight(l)'
    BY <1>4, AppendsEffect DEF InFlight
<1>5. \A l \in Langs : InRow(l)' = InRow(l)
    BY DEF InRow
<1>6. Settled => Settled'
    BY <1>4, <1>5 DEF Settled
<1> QED
    BY <1>1, <1>2, <1>3, <1>6 DEF Saved

\* Whatever is marked is settled.
LEMMA SavedSettles ==
    ASSUME Saved
    PROVE  Settled
<1>1. CASE AllInRow
    BY <1>1 DEF AllInRow, Settled, InRow
<1>2. CASE \E i \in DOMAIN calls : Saving(calls[i])
    BY <1>2 DEF Settled, InFlight, Saving
<1> QED
    BY <1>1, <1>2 DEF Saved

LEMMA MarkSent ==
    ASSUME Inv, MarkKept, NEW a, Fresh(a), NEW force \in BOOLEAN,
           calls' = calls \o (a \o SaveState(force)), marked' = All, OnPage, UNCHANGED <<row, text, status>>
    PROVE  Marks' /\ (Open_' => Saved')
<1> DEFINE b == SaveState(force)
           s == a \o b
<1>0. TypeOK
    BY DEF Inv
<1>1. All \in Whole /\ All.text = text /\ text \in [Langs -> Nat] /\ All # None
    BY <1>0, NoneAssumption DEF All, Whole, TypeOK, Texts
<1>2. a \in Seq(Call) /\ b \in Seq(Call) /\ Fresh(b) /\ Appends(s)
    BY <1>0, SentFresh, ConcatFresh DEF Appends, Fresh
<1>3. (b = <<>> /\ marked = All) \/ (1 \in DOMAIN b /\ Saving(b[1]))
    BY <1>0, SaveSent
<1>4. Marks'
    BY <1>1 DEF Marks
<1> SUFFICES ASSUME Open_' PROVE Saved'
    BY <1>4
<1>5. CASE marked = All
    <2>1. Saved
        BY <1>1, <1>5 DEF MarkKept, Open_
    <2> HIDE DEF s
    <2> QED
        BY <1>0, <1>2, <2>1, SavedAppends
<1>6. CASE 1 \in DOMAIN b /\ Saving(b[1])
    <2> HIDE DEF b
    <2>1. Len(a) \in Nat /\ Len(b) \in Nat /\ DOMAIN b = 1..Len(b) /\ Len(b) >= 1
        BY <1>2, <1>6
    <2>2. /\ DOMAIN s = 1..(Len(a) + Len(b))
          /\ \A k \in 1..(Len(a) + Len(b)) : s[k] = IF k <= Len(a) THEN a[k] ELSE b[k - Len(a)]
        BY <1>2, ConcatProperties
    <2> HIDE DEF s
    <2>3. Len(a) + 1 \in DOMAIN s /\ s[Len(a) + 1] = b[1]
        <3>1. Len(a) + 1 \in 1..(Len(a) + Len(b)) /\ ~(Len(a) + 1 <= Len(a)) /\ Len(a) + 1 - Len(a) = 1
            BY <2>1
        <3> QED
            BY <2>2, <3>1
    <2> QED
        BY <1>0, <1>2, <1>6, <2>3, SavedAppends
<1> QED
    BY <1>3, <1>5, <1>6

\* The steps of the page that mark what they send.
Sending == TimerFires \/ SwitchAway \/ FlushAll \/ Execute

LEMMA SendingEffect ==
    ASSUME TypeOK, Sending
    PROVE  /\ OnPage /\ marked' = All /\ UNCHANGED <<row, text, status, failed>>
           /\ \E a, force : Fresh(a) /\ force \in BOOLEAN /\ calls' = calls \o (a \o SaveState(force))
<1>1. OnPage /\ marked' = All /\ UNCHANGED <<row, text, status, failed>>
    BY DEF Sending, TimerFires, SwitchAway, FlushAll, Execute, SendBoth, OnPage, typed, store
<1>2. CASE TimerFires \/ SwitchAway
    <2> DEFINE b == SaveState(FALSE)
    <2>1. calls' = calls \o b
        BY <1>2 DEF TimerFires, SwitchAway, Send
    <2>2. b \in Seq(Call)
        BY SentFresh DEF Fresh
    <2>3. <<>> \o b = b
        <3> HIDE DEF b
        <3> QED
            BY <2>2
    <2> QED
        BY <1>1, <2>1, <2>3, NoneFresh
<1>3. CASE FlushAll \/ Execute
    BY <1>1, <1>3, SentFresh DEF FlushAll, Execute, SendBoth, Send
<1> QED
    BY <1>2, <1>3 DEF Sending

\* What the page's steps do to the marks.
LEMMA PageMarks ==
    ASSUME Inv, Chain, Marks, MarkKept, Exam
    PROVE  (Marks /\ MarkKept)'
<1>0. TypeOK
    BY DEF Inv
<1>1. CASE Open \/ Finish \/ Leave \/ Vanish
    BY <1>1 DEF Open, Finish, Leave, Vanish, Forget, Marks, MarkKept
<1>2. CASE Edit
    <2>1. /\ lang \in Langs /\ edits \in Nat /\ text \in [Langs -> Nat] /\ text' = [text EXCEPT ![lang] = edits + 1]
          /\ UNCHANGED marked
        BY <1>0, <1>2 DEF TypeOK, Texts, Edit
    <2>2. marked # None => marked.text \in [Langs -> Nat]
        BY <1>0 DEF TypeOK, Whole, Texts
    <2>3. marked # None => \A l \in Langs : marked.text[l] <= text'[l] /\ marked.text[lang] # text'[lang]
        BY <2>1, <2>2 DEF Marks, Chain, Latest
    <2>4. Marks'
        BY <2>1, <2>3 DEF Marks
    <2>5. ~(marked' # None /\ marked'.text = text')
        BY <2>1, <2>3
    <2> QED
        BY <2>4, <2>5 DEF MarkKept
<1>3. CASE ChangeLanguage \/ SwitchBack \/ EditOther
    <2>1. UNCHANGED <<marked, text, row, calls, status>> /\ (OnPage' => OnPage)
        BY <1>3 DEF ChangeLanguage, SwitchBack, EditOther, store, typed, OnPage
    <2>2. Marks'
        BY <2>1 DEF Marks
    <2>3. MarkKept'
        BY <2>1 DEF MarkKept, Open_, Saved, AllInRow, Saving
    <2> QED
        BY <2>2, <2>3
<1>4. CASE Interval \/ StayAfterAll
    <2>1. UNCHANGED <<at, marked, text, row, status>>
        BY <1>4 DEF Interval, StayAfterAll, store, typed, page
    <2>2. PICK s : Appends(s)
        BY <1>0, <1>4, SentFresh DEF Interval, StayAfterAll, Send, Appends
    <2>3. Saved => Saved'
        BY <1>0, <2>1, <2>2, SavedAppends
    <2>4. Marks'
        BY <2>1 DEF Marks
    <2>5. MarkKept'
        BY <2>1, <2>3 DEF MarkKept, Open_, OnPage
    <2> QED
        BY <2>4, <2>5
<1>5. CASE Sending
    BY <1>0, <1>5, SendingEffect, MarkSent DEF MarkKept
<1> QED
    BY <1>1, <1>2, <1>3, <1>4, <1>5 DEF Exam, Sending

\* What the server and the network do to a call and to the mark.
LEMMA ServerMarks ==
    ASSUME Inv, Chain, MarkKept, NEW i \in DOMAIN calls, Serve(i) \/ FailCall(i), order = "serial", order' = "serial"
    PROVE  MarkKept'
<1>0. TypeOK /\ calls \in Seq(Call) /\ UNCHANGED <<at, text>>
    BY ServerKinds DEF Inv, TypeOK
<1> SUFFICES ASSUME OnPage', Open_', (marked # None)', (marked.text = text)' PROVE Saved'
    BY DEF MarkKept
<1>1. OnPage /\ (UNCHANGED status \/ CloseExam(i))
    BY <1>0 DEF OnPage, Serve, Admit, Select, Refuse, Store, FailCall, store
<1>2. ~CloseExam(i)
    BY DEF CloseExam, Open_
<1>3. Open_ /\ OnPage
    BY <1>1, <1>2 DEF Open_
<1>4. UNCHANGED marked \/ (marked' = None)
    BY DEF Serve, Admit, Select, Refuse, Store, CloseExam, FailCall, End, Unmarked, page
<1>5. UNCHANGED marked /\ Saved
    BY <1>0, <1>3, <1>4 DEF MarkKept
<1>6. CASE Admit(i)
    <2>1. calls' = [calls EXCEPT ![i].step = "admitted"] /\ UNCHANGED row
        BY <1>3, <1>6 DEF Admit, Open_, store
    <2>2. \A c \in Call : Saving(c) => Saving([c EXCEPT !.step = "admitted"])
        BY DEF Saving, Call
    <2> QED
        BY <1>0, <1>5, <2>1, <2>2 DEF Saved, AllInRow, Saving
<1>7. CASE Select(i)
    <2>1. calls' = [calls EXCEPT ![i].step = "selected", ![i].row = row] /\ UNCHANGED row
        BY <1>7 DEF Select, store
    <2>2. \A c \in Call : Saving(c) => Saving([c EXCEPT !.step = "selected", !.row = row])
        BY DEF Saving, Call
    <2> QED
        BY <1>0, <1>5, <2>1, <2>2 DEF Saved, AllInRow, Saving
\* A call that is lost was not a save the page listens to: that would unmark.
<1>8. ASSUME Drops(i), ~calls[i].heard, UNCHANGED row PROVE Saved'
    <2>1. CASE AllInRow
        BY <1>0, <1>8, <2>1 DEF Saved, AllInRow
    <2>2. ASSUME NEW k \in DOMAIN calls, Saving(calls[k]) PROVE Saved'
        <3>1. k # i
            BY <1>8, <2>2 DEF Saving
        <3>2. PICK j \in DOMAIN calls' : From(i, j) = k
            BY <1>0, <1>8, <3>1, DropsEffect
        <3>3. calls'[j] = calls[k]
            BY <1>0, <1>8, <3>2, DropsEffect
        <3> QED
            BY <1>0, <2>2, <3>3 DEF Saved, Saving
    <2> QED
        BY <1>5, <2>1, <2>2 DEF Saved
<1>9. ASSUME marked' = Unmarked(i) PROVE ~calls[i].heard
    BY <1>9 DEF Unmarked
<1>10. CASE Refuse(i)
    BY <1>8, <1>9, <1>10 DEF Refuse, End, Drops, store
<1>11. CASE FailCall(i)
    <2>1. UNCHANGED row
        BY <1>11 DEF FailCall, store
    <2>2. CASE End(i, TRUE)
        BY <1>8, <1>9, <2>1, <2>2 DEF End, Drops
    <2>3. CASE calls' = [calls EXCEPT ![i].heard = FALSE] /\ marked' = Unmarked(i)
        <3>1. ASSUME NEW k \in DOMAIN calls, Saving(calls[k]) PROVE k \in DOMAIN calls' /\ calls'[k] = calls[k]
            <4>1. k # i
                BY <1>9, <2>3, <3>1 DEF Saving
            <4> QED
                BY <1>0, <2>3, <4>1
        <3> QED
            BY <1>0, <1>5, <2>1, <3>1 DEF Saved, AllInRow, Saving
    <2> QED
        BY <1>11, <2>2, <2>3 DEF FailCall
<1>12. CASE Store(i)
    <2>1. i = 1 /\ Store(1) /\ Drops(1) /\ calls[1].row = row /\ 1 \in DOMAIN calls
        <3>1. calls[i].row = row /\ ~(i > 1)
            BY <1>12 DEF Store
        <3>2. i = 1
            BY <1>0, <3>1
        <3> QED
            BY <1>12, <3>1, <3>2 DEF Store, End, Drops
    <2>2. /\ row' # None
          /\ \A l \in Langs : /\ l \in calls[1].langs => InRow(l)' = calls[1].text[l]
                              /\ InRow(l) <= InRow(l)' /\ InRow(l)' <= text[l] /\ InRow(l)' \in Nat
        BY <2>1, StoreEffect
    <2>3. text \in [Langs -> Nat] /\ row' \in Row /\ row'.byLang \in [Langs -> Nat]
        <3>1. row' \in Row
            BY <1>0, <2>1, WrittenType DEF Store
        <3> QED
            BY <1>0, <3>1 DEF TypeOK, Texts, Row
    <2>4. (\A l \in Langs : InRow(l)' = text[l]) => Saved'
        <3>1. \A l \in Langs : InRow(l)' = row'.byLang[l]
            BY <2>2 DEF InRow
        <3>2. (\A l \in Langs : row'.byLang[l] = text[l]) => row'.byLang = text
            BY <2>3
        <3> QED
            BY <1>0, <2>2, <3>1, <3>2 DEF Saved, AllInRow
    <2>5. CASE AllInRow
        <3>1. \A l \in Langs : InRow(l) = text[l]
            BY <2>5 DEF AllInRow, InRow
        <3>2. \A l \in Langs : InRow(l)' = text[l]
            BY <2>2, <2>3, <3>1
        <3> QED
            BY <2>4, <3>2
    <2>6. CASE Saving(calls[1])
        BY <2>2, <2>4, <2>6 DEF Saving
    <2>7. ASSUME NEW k \in DOMAIN calls, k # 1, Saving(calls[k]) PROVE Saved'
        <3>1. PICK j \in DOMAIN calls' : From(1, j) = k
            BY <1>0, <2>1, <2>7, DropsEffect
        <3>2. calls'[j] = calls[k]
            BY <1>0, <2>1, <3>1, DropsEffect
        <3> QED
            BY <1>0, <2>7, <3>2 DEF Saved, Saving
    <2> QED
        BY <1>5, <2>5, <2>6, <2>7 DEF Saved
<1> QED
    BY <1>2, <1>6, <1>7, <1>10, <1>11, <1>12 DEF Serve

LEMMA MarksStep ==
    ASSUME Inv, Chain, Marks, MarkKept, [Next]_vars, order = "serial", order' = "serial"
    PROVE  (Marks /\ MarkKept)'
<1>1. CASE Exam
    BY <1>1, PageMarks
<1>2. ASSUME NEW i \in DOMAIN calls, Serve(i) \/ FailCall(i) PROVE (Marks /\ MarkKept)'
    <2>1. MarkKept'
        BY <1>2, ServerMarks
    <2>2. UNCHANGED text
        BY <1>2, ServerKinds DEF Inv
    <2>3. UNCHANGED marked \/ (marked' = None)
        BY <1>2 DEF Serve, Admit, Select, Refuse, Store, CloseExam, FailCall, End, Unmarked, page
    <2>4. Marks'
        BY <2>2, <2>3 DEF Marks
    <2> QED
        BY <2>1, <2>4
<1>3. CASE Expire
    <2>1. UNCHANGED <<marked, text>> /\ ~Open_'
        BY <1>3 DEF Expire, page, Open_
    <2> QED
        BY <2>1 DEF Marks, MarkKept
<1>4. CASE UNCHANGED vars
    BY <1>4 DEF vars, page, store, Marks, MarkKept, OnPage, Open_, Saved, AllInRow, Saving
<1> QED
    BY <1>1, <1>2, <1>3, <1>4 DEF Next

\* A text stays in the row or in flight when no call is lost.
LEMMA ServerSettles ==
    ASSUME Inv, Chain, Settled, NEW i \in DOMAIN calls, Serve(i), order = "serial", order' = "serial",
           Open_, Open_', ~failed'
    PROVE  Settled'
<1>0. TypeOK /\ calls \in Seq(Call) /\ UNCHANGED text
    BY ServerKinds DEF Inv, TypeOK
<1>1. Admit(i) \/ Select(i) \/ Store(i)
    BY DEF Serve, Refuse, CloseExam, Open_
<1>2. CASE Admit(i) \/ Select(i)
    <2>1. UNCHANGED row /\ DOMAIN calls' = DOMAIN calls
        BY <1>0, <1>2 DEF Admit, Select, Open_, store
    <2>2. \A k \in DOMAIN calls : calls'[k].langs = calls[k].langs /\ calls'[k].text = calls[k].text
        <3>1. \A c \in Call : /\ [c EXCEPT !.step = "admitted"].langs = c.langs
                              /\ [c EXCEPT !.step = "admitted"].text = c.text
                              /\ [c EXCEPT !.step = "selected", !.row = row].langs = c.langs
                              /\ [c EXCEPT !.step = "selected", !.row = row].text = c.text
            BY DEF Call
        <3>2. \/ calls' = [calls EXCEPT ![i].step = "admitted"]
              \/ calls' = [calls EXCEPT ![i].step = "selected", ![i].row = row]
            BY <1>2 DEF Admit, Select, Open_
        <3>3. ASSUME NEW k \in DOMAIN calls
              PROVE  calls'[k].langs = calls[k].langs /\ calls'[k].text = calls[k].text
            <4>1. calls[k] \in Call
                BY <1>0
            <4>2. \/ calls'[k] = calls[k]
                  \/ calls'[k] = [calls[k] EXCEPT !.step = "admitted"]
                  \/ calls'[k] = [calls[k] EXCEPT !.step = "selected", !.row = row]
                BY <1>0, <3>2
            <4> QED
                BY <3>1, <4>1, <4>2
        <3> QED
            BY <3>3
    <2> QED
        BY <1>0, <2>1, <2>2 DEF Settled, InFlight, InRow
<1>3. CASE Store(i)
    <2>1. Store(1) /\ Drops(1) /\ calls[1].row = row /\ 1 \in DOMAIN calls
        <3>1. calls[i].row = row /\ ~(i > 1)
            BY <1>3 DEF Store
        <3>2. i = 1
            BY <1>0, <3>1
        <3> QED
            BY <1>3, <3>1, <3>2 DEF Store, End, Drops
    <2> SUFFICES ASSUME NEW l \in Langs PROVE InRow(l)' = text[l] \/ InFlight(l)'
        BY <1>0 DEF Settled
    <2>2. /\ l \in calls[1].langs => InRow(l)' = calls[1].text[l]
          /\ InRow(l) <= InRow(l)' /\ InRow(l)' <= text[l] /\ InRow(l)' \in Nat /\ text[l] \in Nat
        BY <1>0, <2>1, StoreEffect DEF TypeOK, Texts
    <2>3. CASE InRow(l) = text[l]
        BY <2>2, <2>3
    <2>4. ASSUME NEW k \in DOMAIN calls, l \in calls[k].langs, calls[k].text[l] = text[l]
          PROVE  InRow(l)' = text[l] \/ InFlight(l)'
        <3>1. CASE k = 1
            BY <2>2, <2>4, <3>1
        <3>2. CASE k # 1
            <4>1. PICK j \in DOMAIN calls' : From(1, j) = k
                BY <1>0, <2>1, <3>2, DropsEffect
            <4>2. calls'[j] = calls[k]
                BY <1>0, <2>1, <4>1, DropsEffect
            <4> QED
                BY <1>0, <2>4, <4>2 DEF InFlight
        <3> QED
            BY <3>1, <3>2
    <2> QED
        BY <2>3, <2>4 DEF Settled, InFlight
<1> QED
    BY <1>1, <1>2, <1>3

LEMMA PendingStep ==
    ASSUME Inv, RowIsWhole, Chain, Marks, MarkKept, Pending, [Next]_vars, order = "serial", order' = "serial"
    PROVE  Pending'
<1>0. TypeOK
    BY DEF Inv
<1> SUFFICES ASSUME OnPage', Open_', ~failed', ~timer' \/ at' = "hidden" PROVE Settled'
    BY DEF Pending
<1>1. CASE Open
    <2>1. \A l \in Langs : text'[l] = InRow(l) /\ InRow(l)' = InRow(l)
        BY <1>1, OpenEffect DEF InRow
    <2> QED
        BY <2>1 DEF Settled
<1>2. ~(Edit \/ ChangeLanguage \/ Finish \/ Leave \/ Vanish)
    BY DEF Edit, ChangeLanguage, Finish, Leave, Vanish, OnPage
<1>3. CASE SwitchBack \/ EditOther
    <2>1. UNCHANGED <<text, row, calls>> /\ Settled
        BY <1>3 DEF SwitchBack, EditOther, Pending, OnPage, Open_, typed, store
    <2> QED
        BY <2>1 DEF Settled, InRow, InFlight
<1>4. CASE Interval \/ StayAfterAll
    <2>1. UNCHANGED <<at, timer, text, row, status, failed>>
        BY <1>4 DEF Interval, StayAfterAll, store, typed, page
    <2>2. PICK s : Appends(s)
        BY <1>0, <1>4, SentFresh DEF Interval, StayAfterAll, Send, Appends
    <2>3. Settled
        BY <2>1 DEF Pending, OnPage, Open_
    <2> QED
        BY <1>0, <2>1, <2>2, <2>3, SavedAppends
<1>5. CASE Sending
    <2>1. Saved'
        BY <1>0, <1>5, SendingEffect, MarkSent
    <2>2. (Saved => Settled)'
        <3>1. CASE AllInRow'
            BY <3>1 DEF AllInRow, Settled, InRow
        <3>2. CASE (\E i \in DOMAIN calls : Saving(calls[i]))'
            BY <3>2 DEF Settled, InFlight, Saving
        <3> QED
            BY <3>1, <3>2 DEF Saved
    <2> QED
        BY <2>1, <2>2
<1>6. ASSUME NEW i \in DOMAIN calls, Serve(i) PROVE Settled'
    <2>1. UNCHANGED <<at, timer>>
        BY <1>0, <1>6, ServerKinds
    <2>2. ~failed /\ Open_
        <3>1. ~Refuse(i) /\ ~CloseExam(i)
            BY DEF Refuse, CloseExam, Open_
        <3>2. UNCHANGED failed /\ UNCHANGED status
            BY <1>6, <3>1 DEF Serve, Admit, Select, Store, store
        <3> QED
            BY <3>2 DEF Open_
    <2>3. Settled
        BY <2>1, <2>2 DEF Pending, OnPage
    <2> QED
        BY <1>6, <2>2, <2>3, ServerSettles
<1>7. ASSUME NEW i \in DOMAIN calls PROVE ~FailCall(i)
    BY DEF FailCall
<1>8. ~Expire
    BY DEF Expire, Open_
<1>9. CASE UNCHANGED vars
    <2>1. UNCHANGED <<at, timer, text, row, status, failed, calls>>
        BY <1>9 DEF vars, page, store
    <2> QED
        BY <2>1 DEF Pending, OnPage, Open_, Settled, InRow, InFlight
<1> QED
    BY <1>1, <1>2, <1>3, <1>4, <1>5, <1>6, <1>7, <1>8, <1>9 DEF Next, Exam, Sending

\* What holds of marks and unsaved work while calls are handled one after the other.
Work == order = "serial" => Chain /\ Marks /\ MarkKept /\ Pending

LEMMA WorkInit == Init => Work
<1> SUFFICES ASSUME Init PROVE Chain /\ Marks /\ MarkKept /\ Pending
    BY DEF Work
<1>1. Chain
    BY SerialInit DEF Serial, Init
<1>2. Marks /\ MarkKept /\ Pending
    BY DEF Init, Marks, MarkKept, Pending, OnPage
<1> QED
    BY <1>1, <1>2

LEMMA WorkStep == ASSUME Inv, RowIsWhole, Work, [Next]_vars PROVE Work'
BY ChainStep, MarksStep, PendingStep, RowSteps DEF Work

LEMMA Working == Spec => [](Inv /\ RowIsWhole /\ Work)
<1>1. Init => Inv /\ RowIsWhole /\ Work
    BY InitInv, WorkInit DEF Init, RowIsWhole
<1>2. Inv /\ RowIsWhole /\ Work /\ [Next]_vars => (Inv /\ RowIsWhole /\ Work)'
    BY InvStep, RowIsWholeStep, WorkStep
<1> QED
    BY <1>1, <1>2, PTL DEF Spec

\* A state marked as saved, with no call in flight, is in the row.
THEOREM MarksAreTrue == Spec => []MarkMeansStored
<1>1. Inv /\ Work => MarkMeansStored
    <2> SUFFICES ASSUME Inv, Work, OnPage, Quiet, Open_, marked = All, order = "serial"
                 PROVE  row # None /\ row.byLang = text
        BY DEF MarkMeansStored
    <2>1. All \in Whole /\ All.text = text /\ All # None
        BY NoneAssumption DEF All, Whole, Inv, TypeOK
    <2>2. Saved
        BY <2>1 DEF Work, MarkKept
    <2> QED
        BY <2>2 DEF Saved, AllInRow, Quiet
<1> QED
    BY <1>1, Working, PTL

\* What is typed is in the row, in flight, or due.
THEOREM NothingIsForgotten == Spec => []WorkOnItsWay
<1>1. Work => WorkOnItsWay
    BY DEF Work, WorkOnItsWay, Pending, Settled
<1> QED
    BY <1>1, Working, PTL

----------------------------------------------------------------------------
(* Leaving and coming back *)

\* What the page left behind: its last call is the beacon with all it showed; when no
\* call is in flight, the row is that state, or the page was never changed.
Carries(c)  == c.langs = Langs /\ c.text = text /\ c.lang = lang
AsLeft      == IF row = None THEN lang = FirstLang /\ text = Blank
                             ELSE lang = row.lang /\ text = row.byLang
LeftBehind  == IF calls = <<>> THEN AsLeft ELSE Carries(calls[Len(calls)])
Left        == at = "closed" /\ Open_ /\ ~failed => LeftBehind

\* The beacon is the last call.
LEMMA LeaveEffect ==
    ASSUME TypeOK, Leave
    PROVE  LeftBehind'
<1> DEFINE c == NewCall("save", Langs, FALSE)
           u == Unheard(calls)
<1>1. calls' = u \o <<c>> /\ UNCHANGED <<lang, text>>
    BY DEF Leave, Beacon, typed
<1>2. u \in Seq(Call) /\ c \in Call
    BY UnheardType, NewCallType DEF TypeOK
<1>3. Carries(c)
    <2>1. text \in [Langs -> Nat] /\ \A l \in Langs : [k \in Langs |-> IF k \in Langs THEN text[k] ELSE 0][l] = text[l]
        BY DEF TypeOK, Texts
    <2>2. [k \in Langs |-> IF k \in Langs THEN text[k] ELSE 0] = text
        BY <2>1
    <2> QED
        BY <2>2 DEF NewCall, Carries
<1> HIDE DEF c, u
<1>4. calls' # <<>> /\ calls'[Len(calls')] = c
    BY <1>1, <1>2
<1> QED
    BY <1>1, <1>3, <1>4 DEF LeftBehind, Carries

\* The server stores the calls in their order, so the beacon is stored last.
LEMMA ServerLeaves ==
    ASSUME Inv, Chain, LeftBehind, NEW i \in DOMAIN calls, Serve(i), order = "serial", order' = "serial",
           Open_, Open_', ~failed'
    PROVE  LeftBehind'
<1>0. TypeOK /\ calls \in Seq(Call) /\ UNCHANGED <<text, lang>> /\ calls # <<>>
    BY ServerKinds DEF Inv, TypeOK
<1>1. Admit(i) \/ Select(i) \/ Store(i)
    BY DEF Serve, Refuse, CloseExam, Open_
<1>2. DOMAIN calls = 1..Len(calls) /\ Len(calls) \in Nat /\ Len(calls) >= 1
    BY <1>0
<1>3. Carries(calls[Len(calls)])
    BY <1>0 DEF LeftBehind
<1>4. CASE Admit(i) \/ Select(i)
    <2>1. \A c \in Call : /\ Carries(c) => Carries([c EXCEPT !.step = "admitted"])
                          /\ Carries(c) => Carries([c EXCEPT !.step = "selected", !.row = row])
        BY DEF Call, Carries
    <2>2. \/ calls' = [calls EXCEPT ![i].step = "admitted"]
          \/ calls' = [calls EXCEPT ![i].step = "selected", ![i].row = row]
        BY <1>4 DEF Admit, Select, Open_
    <2>3. calls' # <<>> /\ Len(calls') = Len(calls)
        BY <1>0, <2>2
    <2>4. Carries(calls'[Len(calls)])
        <3>1. ASSUME NEW k \in DOMAIN calls, Carries(calls[k]) PROVE Carries(calls'[k])
            <4>1. calls[k] \in Call
                BY <1>0
            <4>2. \/ calls'[k] = calls[k]
                  \/ calls'[k] = [calls[k] EXCEPT !.step = "admitted"]
                  \/ calls'[k] = [calls[k] EXCEPT !.step = "selected", !.row = row]
                BY <1>0, <2>2
            <4> QED
                BY <2>1, <3>1, <4>1, <4>2
        <3>2. Len(calls) \in DOMAIN calls
            BY <1>2
        <3> QED
            BY <1>3, <3>1, <3>2
    <2> QED
        BY <1>0, <2>3, <2>4 DEF LeftBehind, Carries
<1>5. CASE Store(i)
    <2>1. Store(1) /\ Drops(1) /\ calls[1].row = row /\ 1 \in DOMAIN calls
        <3>1. calls[i].row = row /\ ~(i > 1)
            BY <1>5 DEF Store
        <3>2. i = 1
            BY <1>0, <3>1
        <3> QED
            BY <1>5, <3>1, <3>2 DEF Store, End, Drops
    <2>2. /\ calls' \in Seq(Call) /\ Len(calls') = Len(calls) - 1 /\ DOMAIN calls' = 1..(Len(calls) - 1)
          /\ \A j \in DOMAIN calls' : calls'[j] = calls[From(1, j)]
        BY <1>0, <2>1, DropsEffect
    <2>3. CASE Len(calls) > 1
        <3>0. Len(calls) - 1 \in 1..(Len(calls) - 1) /\ From(1, Len(calls) - 1) = Len(calls)
            <4>1. \A n \in Nat : n > 1 => n - 1 \in 1..(n - 1) /\ ~(n - 1 < 1) /\ (n - 1) + 1 = n
                OBVIOUS
            <4>2. \A n \in Nat : n > 1 => n - 1 \in 1..(n - 1) /\ From(1, n - 1) = n
                BY <4>1 DEF From
            <4> QED
                BY <1>2, <2>3, <4>2
        <3>1. Len(calls) - 1 \in DOMAIN calls' /\ From(1, Len(calls) - 1) = Len(calls) /\ calls' # <<>>
            BY <2>2, <3>0
        <3>2. calls'[Len(calls')] = calls[Len(calls)]
            BY <2>2, <3>1
        <3> QED
            BY <1>0, <1>3, <3>1, <3>2 DEF LeftBehind, Carries
    <2>4. CASE Len(calls) = 1
        <3>1. calls' = <<>>
            BY <2>2, <2>4
        <3>2. row' = Upserted(calls[1]) /\ row' # None
            BY <2>1, StoreEffect
        <3>3. calls[1].langs = Langs /\ calls[1].text = text /\ calls[1].lang = lang
            BY <1>3, <2>4 DEF Carries
        <3>4. row'.lang = lang /\ row'.byLang = [l \in Langs |-> text[l]]
            BY <3>2, <3>3 DEF Upserted, Over
        <3>5. text = [l \in Langs |-> text[l]]
            BY <1>0 DEF TypeOK, Texts
        <3> QED
            BY <1>0, <3>1, <3>2, <3>4, <3>5 DEF LeftBehind, AsLeft
    <2> QED
        BY <1>2, <2>3, <2>4
<1> QED
    BY <1>1, <1>4, <1>5

LEMMA LeftStep ==
    ASSUME Inv, Chain, Left, [Next]_vars, order = "serial", order' = "serial"
    PROVE  Left'
<1>0. TypeOK
    BY DEF Inv
<1> SUFFICES ASSUME at' = "closed", Open_', ~failed' PROVE LeftBehind'
    BY DEF Left
<1>1. CASE Leave
    BY <1>0, <1>1, LeaveEffect
<1>2. ASSUME Exam, ~Leave PROVE FALSE
    BY <1>0, <1>2 DEF Exam, Open, Edit, ChangeLanguage, TimerFires, SwitchAway, SwitchBack, EditOther,
        Interval, FlushAll, Execute, Finish, StayAfterAll, Vanish, OnPage, page
<1>3. ASSUME NEW i \in DOMAIN calls, Serve(i) PROVE LeftBehind'
    <2>1. UNCHANGED at
        BY <1>0, <1>3, ServerKinds
    <2>2. ~failed /\ Open_
        <3>1. ~Refuse(i) /\ ~CloseExam(i)
            BY DEF Refuse, CloseExam, Open_
        <3>2. UNCHANGED failed /\ UNCHANGED status
            BY <1>3, <3>1 DEF Serve, Admit, Select, Store, store
        <3> QED
            BY <3>2 DEF Open_
    <2> QED
        BY <1>3, <2>1, <2>2, ServerLeaves DEF Left
<1>4. ASSUME NEW i \in DOMAIN calls PROVE ~FailCall(i)
    BY DEF FailCall
<1>5. ~Expire
    BY DEF Expire, Open_
<1>6. CASE UNCHANGED vars
    BY <1>6 DEF vars, page, store, Left, Open_, LeftBehind, AsLeft, Carries
<1> QED
    BY <1>1, <1>2, <1>3, <1>4, <1>5, <1>6 DEF Next

LEMMA LeftInit == Init => Left
<1> SUFFICES ASSUME Init PROVE Left
    OBVIOUS
<1>1. calls = <<>> /\ row = None /\ lang = FirstLang /\ text = Blank
    BY DEF Init
<1> QED
    BY <1>1 DEF Left, LeftBehind, AsLeft

\* A candidate who leaves and comes back finds language and code as they were.
THEOREM ComesBackAsLeft == Spec => ReopenedAsLeft
<1> DEFINE Kept == order = "serial" => Left
           Back == at = "closed" /\ at' = "shown" /\ ~failed /\ order' = "serial"
                    => lang' = lang /\ text' = text
<1>1. Init => Kept
    BY LeftInit
<1>2. Inv /\ Work /\ Kept /\ [Next]_vars => Kept'
    BY LeftStep, RowSteps DEF Work
<1>3. ASSUME Inv, RowIsWhole, Kept, [Next]_vars PROVE Back
    <2> SUFFICES ASSUME at = "closed", at' = "shown", ~failed, order' = "serial"
                 PROVE  lang' = lang /\ text' = text
        OBVIOUS
    <2>1. order = "serial" /\ Left
        BY <1>3, RowSteps
    <2>2. Open
        <3>1. ASSUME NEW i \in DOMAIN calls, Serve(i) \/ FailCall(i) PROVE UNCHANGED at
            BY <2>1, <3>1, <1>3, ServerKinds DEF Inv
        <3> QED
            BY <1>3, <3>1 DEF Next, Exam, Edit, ChangeLanguage, TimerFires, SwitchAway, SwitchBack, EditOther,
                Interval, FlushAll, Execute, Finish, StayAfterAll, Leave, Vanish, Expire, vars, page, OnPage
    <2>3. calls = <<>> /\ Open_
        BY <2>1, <2>2 DEF Open, Open_
    <2>4. AsLeft
        BY <2>1, <2>3 DEF Left, LeftBehind
    <2>5. /\ row = None => lang' = FirstLang /\ text' = Blank
          /\ row # None => lang' = row.lang /\ text' = row.byLang
        BY <1>3, <2>1, <2>2, OpenEffect
    <2> QED
        BY <2>4, <2>5 DEF AsLeft
<1> QED
    BY <1>1, <1>2, <1>3, Working, PTL DEF Spec, ReopenedAsLeft
=============================================================================
