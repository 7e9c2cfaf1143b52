--------------------------- MODULE ExamPages_proofs ---------------------------
(***************************************************************************)
(* Theorems about the pages of a candidate: the executions of the exam page,  *)
(* for any problems and any number of executions, failures and reloads; the    *)
(* closing dialog; the watch over absences; the desk with its reference files  *)
(* and its countdown.  The lemmas on lists serve StaffPages_proofs, too.       *)
(***************************************************************************)
EXTENDS WebPages, Lists, SequencesExt, SequenceTheorems, FiniteSets, FiniteSetTheorems,
        WellFoundedInduction, TLAPS

----------------------------------------------------------------------------
(* Numbers and sequences *)

LEMMA Least ==
    ASSUME NEW T \in SUBSET Nat, T # {}
    PROVE  \E m \in T : \A n \in T : m <= n
<1> DEFINE less == {pair \in Nat \X Nat : pair[1] < pair[2]}
<1>1. IsWellFoundedOn(less, Nat)
    BY NatLessThanWellFounded, IsWellFoundedOnSubrelation DEF OpToRel
<1>2. PICK m \in T : \A n \in T : <<n, m>> \notin less
    BY <1>1, WFMin
<1>3. ASSUME NEW n \in T PROVE m <= n
    <2>1. n \in Nat /\ m \in Nat /\ <<n, m>> \notin less
        BY <1>2
    <2>2. n < m => <<n, m>> \in less
        BY <2>1
    <2> HIDE DEF less
    <2> QED
        BY <2>1, <2>2
<1> QED
    BY <1>3

LEMMA Removed ==
    ASSUME NEW S, NEW s \in Seq(S), NEW i \in DOMAIN s
    PROVE  /\ RemoveAt(s, i) \in Seq(S)
           /\ DOMAIN RemoveAt(s, i) = 1..(Len(s) - 1)
           /\ \A j \in 1..(Len(s) - 1) : RemoveAt(s, i)[j] = IF j < i THEN s[j] ELSE s[j + 1]
<1> DEFINE a == SubSeq(s, 1, i - 1)
           b == SubSeq(s, i + 1, Len(s))
<1>1. i \in 1..Len(s) /\ Len(s) \in Nat
    OBVIOUS
<1>2. a \in Seq(S) /\ Len(a) = i - 1 /\ \A j \in 1..(i - 1) : a[j] = s[j]
    BY <1>1
<1>3. b \in Seq(S) /\ Len(b) = Len(s) - i /\ \A j \in 1..(Len(s) - i) : b[j] = s[i + j]
    BY <1>1
<1>4. RemoveAt(s, i) = a \o b
    BY DEF RemoveAt
<1> HIDE DEF a, b
<1>5. RemoveAt(s, i) \in Seq(S) /\ Len(RemoveAt(s, i)) = Len(s) - 1
    BY <1>1, <1>2, <1>3, <1>4
<1>6. ASSUME NEW j \in 1..(Len(s) - 1) PROVE RemoveAt(s, i)[j] = IF j < i THEN s[j] ELSE s[j + 1]
    <2>1. CASE j < i
        BY <1>1, <1>2, <1>3, <1>4, <2>1
    <2>2. CASE ~(j < i)
        <3>1. j - (i - 1) \in 1..(Len(s) - i) /\ i + (j - (i - 1)) = j + 1
            BY <1>1, <2>2
        <3>2. (a \o b)[j] = b[j - Len(a)]
            <4>1. j \in 1..(Len(a) + Len(b)) /\ ~(j <= Len(a))
                BY <1>1, <1>2, <1>3, <2>2
            <4>2. a \in Seq(S) /\ b \in Seq(S)
                BY <1>2, <1>3
            <4> QED
                BY <4>1, <4>2, ConcatProperties
        <3> QED
            BY <1>2, <1>3, <1>4, <2>2, <3>1, <3>2
    <2> QED
        BY <2>1, <2>2
<1> QED
    BY <1>5, <1>6

\* What is left of a sequence was in it at another place, and only what was taken away is gone.
LEMMA Others ==
    ASSUME NEW S, NEW s \in Seq(S), NEW i \in DOMAIN s
    PROVE  /\ \A j \in DOMAIN RemoveAt(s, i) :
                  \E k \in DOMAIN s : k # i /\ RemoveAt(s, i)[j] = s[k] /\ k = IF j < i THEN j ELSE j + 1
           /\ \A k \in DOMAIN s : k # i => \E j \in DOMAIN RemoveAt(s, i) : RemoveAt(s, i)[j] = s[k]
<1> DEFINE t == RemoveAt(s, i)
<1>1. /\ DOMAIN t = 1..(Len(s) - 1) /\ \A j \in 1..(Len(s) - 1) : t[j] = IF j < i THEN s[j] ELSE s[j + 1]
    BY Removed
<1>0. DOMAIN s = 1..Len(s) /\ Len(s) \in Nat
    OBVIOUS
<1> HIDE DEF t
<1>2. ASSUME NEW j \in DOMAIN t
      PROVE  \E k \in DOMAIN s : k # i /\ t[j] = s[k] /\ k = IF j < i THEN j ELSE j + 1
    <2>1. CASE j < i
        BY <1>0, <1>1, <2>1
    <2>2. CASE ~(j < i)
        <3>1. j + 1 \in DOMAIN s /\ j + 1 # i /\ t[j] = s[j + 1]
            BY <1>0, <1>1, <2>2
        <3> QED
            BY <2>2, <3>1
    <2> QED
        BY <2>1, <2>2
<1>3. ASSUME NEW k \in DOMAIN s, k # i PROVE \E j \in DOMAIN t : t[j] = s[k]
    <2>1. CASE k < i
        BY <1>0, <1>1, <2>1
    <2>2. CASE ~(k < i)
        <3>1. k - 1 \in DOMAIN t /\ ~(k - 1 < i) /\ (k - 1) + 1 = k
            BY <1>0, <1>1, <1>3, <2>2
        <3> QED
            BY <1>1, <3>1
    <2> QED
        BY <2>1, <2>2
<1> QED
    BY <1>2, <1>3 DEF t

----------------------------------------------------------------------------
(* Lists: Kept is defined by recursion, and what it keeps is shown by induction, as the    *)
(* least place at which it would fail.                                                  *)

\* f is what Kept computes, up to the place m.
IsRun(f, s, K, m) ==
    f = [n \in 0..m |-> IF n = 0 THEN <<>>
                        ELSE IF n \in K THEN Append(f[n - 1], s[n]) ELSE f[n - 1]]

LEMMA RunExists ==
  ASSUME NEW s, NEW K, NEW m \in Nat
  PROVE  \E f : IsRun(f, s, K, m)
<1> DEFINE T == {n \in Nat : ~(\E f : IsRun(f, s, K, n))}
<1>1. SUFFICES ASSUME T # {} PROVE FALSE  OBVIOUS
<1>2. PICK n \in T : \A k \in T : n <= k
  <2>. HIDE DEF T
  <2>1. T \subseteq Nat  BY DEF T
  <2>. QED BY <2>1, <1>1, Least
<1>3. CASE n = 0
  <2>1. IsRun([x \in 0..0 |-> <<>>], s, K, 0)  BY DEF IsRun
  <2>2. QED BY <1>3, <2>1
<1>4. CASE n # 0
  <2>1. n - 1 \in Nat /\ n - 1 \notin T  BY <1>2, <1>4
  <2>2. PICK f : IsRun(f, s, K, n - 1)  BY <2>1
  <2> DEFINE g == [x \in 0..n |-> IF x = n THEN IF n \in K THEN Append(f[n - 1], s[n]) ELSE f[n - 1]
                                  ELSE f[x]]
  <2>3. ASSUME NEW x \in 0..n
        PROVE  g[x] = IF x = 0 THEN <<>> ELSE IF x \in K THEN Append(g[x - 1], s[x]) ELSE g[x - 1]
    <3>1. CASE x = n  BY <3>1, <1>4, <2>1
    <3>2. CASE x # n /\ x = 0
      <4>1. f[0] = <<>>  BY <2>1, <2>2 DEF IsRun
      <4>. QED BY <3>2, <4>1
    <3>3. CASE x # n /\ x # 0
      <4>1. x \in 0..(n - 1) /\ x - 1 \in 0..n /\ x - 1 # n  BY <3>3, <2>1
      <4>2. f[x] = IF x \in K THEN Append(f[x - 1], s[x]) ELSE f[x - 1]
        BY <4>1, <2>2, <3>3 DEF IsRun
      <4>. QED BY <3>3, <4>1, <4>2
    <3>. QED BY <3>1, <3>2, <3>3
  <2>4. IsRun(g, s, K, n)  
    <3>1. g = [x \in 0..n |-> g[x]]  OBVIOUS
    <3>. HIDE DEF g
    <3>. QED BY <3>1, <2>3 DEF IsRun
  <2>. QED BY <2>4
<1>. QED BY <1>3, <1>4

\* t has the elements of s at the places of K up to n, in their order: h tells whence.
Picks(t, s, K, n, h) ==
    /\ h \in [1..Len(t) -> K \cap 1..n]
    /\ \A j \in 1..Len(t) : t[j] = s[h[j]]
    /\ \A i \in K \cap 1..n : \E j \in 1..Len(t) : h[j] = i
    /\ \A i, j \in 1..Len(t) : i < j => h[i] < h[j]

LEMMA RunPicks ==
  ASSUME NEW S, NEW s \in Seq(S), NEW K, NEW f, IsRun(f, s, K, Len(s))
  PROVE  f[Len(s)] \in Seq(S) /\ \E h : Picks(f[Len(s)], s, K, Len(s), h)
<1> DEFINE Good(n) == f[n] \in Seq(S) /\ \E h : Picks(f[n], s, K, n, h)
<1> DEFINE T == {n \in 0..Len(s) : ~Good(n)}
<1>1. SUFFICES ASSUME T # {} PROVE FALSE  OBVIOUS
<1>2. PICK n \in T : \A k \in T : n <= k
  <2>1. T \subseteq Nat  OBVIOUS
  <2>. HIDE DEF T
  <2>. QED BY <2>1, <1>1, Least
<1>3. CASE n = 0
  <2>1. f[0] = <<>>  BY DEF IsRun
  <2>2. ASSUME NEW e, Len(e) = 0  PROVE \E h : Picks(e, s, K, 0, h)
    <3> DEFINE z == [x \in 1..Len(e) |-> 0]
    <3>1. 1..Len(e) = {} /\ K \cap 1..0 = {}  BY <2>2
    <3>2. z \in [1..Len(e) -> K \cap 1..0]  BY <3>1
    <3>. HIDE DEF z
    <3>3. Picks(e, s, K, 0, z)  BY <3>1, <3>2 DEF Picks
    <3>. QED BY <3>3
  <2>3. Len(<<>>) = 0 /\ <<>> \in Seq(S)  OBVIOUS
  <2>. QED BY <1>3, <2>1, <2>2, <2>3
<1>4. CASE n # 0
  <2>1. n - 1 \in 0..Len(s) /\ n \in 1..Len(s) /\ n - 1 \notin T /\ n \in 0..Len(s)  BY <1>2, <1>4
  <2>2. f[n - 1] \in Seq(S) /\ \E h : Picks(f[n - 1], s, K, n - 1, h)  BY <2>1
  <2>3. PICK h : Picks(f[n - 1], s, K, n - 1, h)  BY <2>2
  <2>4. f[n] = IF n \in K THEN Append(f[n - 1], s[n]) ELSE f[n - 1]  BY <2>1, <1>4 DEF IsRun
  <2>5. CASE n \notin K
    <3>1. K \cap 1..n = K \cap 1..(n - 1)  BY <2>5, <2>1
    <3>2. Picks(f[n], s, K, n, h)  BY <3>1, <2>3, <2>4, <2>5 DEF Picks
    <3>. QED BY <3>2, <2>2, <2>4, <2>5
  <2>6. CASE n \in K
    <3> DEFINE t == f[n - 1]  l == Len(t)
    <3> DEFINE g == [j \in 1..(l + 1) |-> IF j = l + 1 THEN n ELSE h[j]]
    <3>1. f[n] = Append(t, s[n]) /\ t \in Seq(S) /\ l \in Nat /\ s[n] \in S  BY <2>4, <2>6, <2>2, <2>1
    <3>2. f[n] \in Seq(S) /\ Len(f[n]) = l + 1  BY <3>1
    <3>3. K \cap 1..n = (K \cap 1..(n - 1)) \cup {n}  BY <2>6, <2>1
    <3>4. h \in [1..l -> K \cap 1..(n - 1)]  BY <2>3 DEF Picks
    <3>5. g \in [1..(l + 1) -> K \cap 1..n]  BY <3>3, <3>4, <3>1
    <3>6. \A j \in 1..(l + 1) : f[n][j] = s[g[j]]
      BY <3>1, <2>3 DEF Picks
    <3>7. \A i \in K \cap 1..n : \E j \in 1..(l + 1) : g[j] = i
      <4> TAKE i \in K \cap 1..n
      <4>1. CASE i = n
        <5>1. l + 1 \in 1..(l + 1) /\ g[l + 1] = n  BY <3>1
        <5>. HIDE DEF g
        <5>. QED BY <5>1, <4>1
      <4>2. CASE i # n
        <5>1. PICK j \in 1..l : h[j] = i  BY <4>2, <3>3, <2>3 DEF Picks
        <5>2. j \in 1..(l + 1) /\ j # l + 1  BY <3>1
        <5>. QED BY <5>1, <5>2
      <4>. QED BY <4>1, <4>2
    <3>8. \A i, j \in 1..(l + 1) : i < j => g[i] < g[j]
      <4> TAKE i, j \in 1..(l + 1)
      <4>1. HAVE i < j
      <4>2. i \in 1..l /\ g[i] = h[i]  BY <4>1, <3>1
      <4>3. CASE j = l + 1
        <5>1. g[j] = n /\ h[i] \in 1..(n - 1)  BY <4>3, <4>2, <3>4
        <5>. QED BY <5>1, <4>2, <2>1
      <4>4. CASE j # l + 1
        <5>1. j \in 1..l /\ g[j] = h[j]  BY <4>4, <3>1
        <5>. QED BY <5>1, <4>2, <4>1, <2>3 DEF Picks
      <4>. QED BY <4>3, <4>4
    <3>9. Picks(f[n], s, K, n, g)  
      <4>. HIDE DEF g, t, l
      <4>. QED BY <3>2, <3>5, <3>6, <3>7, <3>8 DEF Picks
    <3>. QED BY <3>9, <3>2
  <2>. QED BY <2>5, <2>6
<1>. QED BY <1>3, <1>4

\* A filter keeps the elements at the places it is to keep, each once, in their order.
LEMMA KeptPicks ==
  ASSUME NEW S, NEW s \in Seq(S), NEW K
  PROVE  Kept(s, K) \in Seq(S) /\ \E h : Picks(Kept(s, K), s, K, Len(s), h)
<1> DEFINE f == CHOOSE f : IsRun(f, s, K, Len(s))
<1>1. IsRun(f, s, K, Len(s))  BY RunExists
<1>2. Kept(s, K) = f[Len(s)]  BY DEF Kept, IsRun
<1>. HIDE DEF f
<1>. QED BY <1>1, <1>2, RunPicks

\* Distinct values of a list are as many as the list is long.
LEMMA Counted ==
    ASSUME NEW n \in Nat, NEW f, NEW T, f \in [1..n -> T], \A t \in T : \E i \in 1..n : f[i] = t,
           \A i, j \in 1..n : f[i] = f[j] => i = j
    PROVE  Cardinality(T) = n /\ IsFiniteSet(T)
<1>2. f \in Bijection(1..n, T)
  BY DEF Bijection, Injection, Surjection, IsInjective
<1>3. ExistsBijection(1..n, T)
  BY <1>2 DEF ExistsBijection
<1>4. IsFiniteSet(1..n) /\ Cardinality(1..n) = n
  BY FS_Interval
<1> QED
  BY <1>3, <1>4, FS_Bijection


----------------------------------------------------------------------------
(* The executions of the exam page *)

LEMMA First == Head(ProblemList) \in Problems
<1>1. Head(ProblemList) = ProblemList[1] /\ 1 \in DOMAIN ProblemList
    BY ListAssumption
<1> QED
    BY <1>1 DEF Problems, ToSet

----------------------------------------------------------------------------
(* The rows *)

\* The table of executions: what a step leaves as it was, in its order and by its problems.
SameRows ==
    /\ executions' \in Seq(Row)
    /\ DOMAIN executions' = DOMAIN executions
    /\ \A i \in DOMAIN executions : executions'[i].problem = executions[i].problem

\* A request is served: one more row, the last.
NewRow(p) ==
    /\ executions' \in Seq(Row)
    /\ DOMAIN executions' = DOMAIN executions \cup {Len(executions) + 1}
    /\ \A i \in DOMAIN executions : executions'[i] = executions[i] /\ i < Len(executions) + 1
    /\ executions'[Len(executions) + 1].problem = p

LEMMA RowsKept == ASSUME TypeOK, UNCHANGED executions PROVE SameRows
BY DEF TypeOK, SameRows

LEMMA RowsAdvance ==
    ASSUME TypeOK, NEW i \in DOMAIN executions, Start(i) \/ Judge(i)
    PROVE  SameRows
<1> SUFFICES ASSUME NEW s \in Statuses, executions' = [executions EXCEPT ![i].status = s] PROVE SameRows
    BY DEF Start, Judge, Statuses
<1>0. executions \in Seq(Row)
    BY DEF TypeOK
<1>1. executions \in Seq(Row) /\ i \in 1..Len(executions) /\ executions[i] \in Row
    BY <1>0
<1>2. [executions[i] EXCEPT !.status = s] \in Row /\ [executions[i] EXCEPT !.status = s].problem = executions[i].problem
    BY <1>1 DEF Row
<1> QED
    BY <1>1, <1>2 DEF SameRows

LEMMA RowAppended ==
    ASSUME TypeOK, NEW p \in Problems, NEW kind \in {"run", "submit"},
           executions' = Append(executions, Execution(p, kind))
    PROVE  NewRow(p)
<1>1. executions \in Seq(Row) /\ DOMAIN executions = 1..Len(executions) /\ Len(executions) \in Nat
    BY DEF TypeOK
<1>2. Execution(p, kind) \in Row /\ Execution(p, kind).problem = p
    BY DEF Execution, Row, Statuses
<1>3. /\ executions' \in Seq(Row) /\ Len(executions') = Len(executions) + 1
      /\ \A i \in 1..Len(executions) : executions'[i] = executions[i]
      /\ executions'[Len(executions) + 1] = Execution(p, kind)
    BY <1>1, <1>2
<1>4. DOMAIN executions' = 1..(Len(executions) + 1)
    BY <1>3
<1> QED
    BY <1>1, <1>2, <1>3, <1>4 DEF NewRow

LEMMA IdsKept ==
    ASSUME SameRows
    PROVE  \A p : Ids(p)' = Ids(p) /\ Latest(p)' = Latest(p)
<1> TAKE p
<1>1. Ids(p)' = Ids(p)
    BY DEF SameRows, Ids
<1> QED
    BY <1>1 DEF Latest

LEMMA IdsGrow ==
    ASSUME NEW p, NewRow(p)
    PROVE  /\ Ids(p)' = Ids(p) \cup {Len(executions) + 1}
           /\ \A q : q # p => Ids(q)' = Ids(q) /\ Latest(q)' = Latest(q)
<1>1. Ids(p)' = Ids(p) \cup {Len(executions) + 1}
    BY DEF NewRow, Ids
<1>2. ASSUME NEW q, q # p PROVE Ids(q)' = Ids(q) /\ Latest(q)' = Latest(q)
    <2>1. Ids(q)' = Ids(q)
        BY <1>2 DEF NewRow, Ids
    <2> QED
        BY <2>1 DEF Latest
<1> QED
    BY <1>1, <1>2

LEMMA ServedRow ==
    ASSUME TypeOK, NEW k \in DOMAIN posts, Serve(k), ~UNCHANGED executions
    PROVE  /\ posts[k].problem \in Problems /\ NewRow(posts[k].problem)
           /\ posts' = [posts EXCEPT ![k].step = "answered", ![k].id = Len(executions) + 1]
<1>1. posts[k] \in Asked
    BY DEF TypeOK
<1> DEFINE kind == IF posts[k].kind = "report" THEN "submit" ELSE posts[k].kind
<1>2. posts[k].problem \in Problems /\ kind \in {"run", "submit"}
    BY <1>1 DEF Asked
<1>3. /\ executions' = Append(executions, Execution(posts[k].problem, kind))
      /\ posts' = [posts EXCEPT ![k].step = "answered", ![k].id = Len(executions) + 1]
    BY DEF Serve
<1> HIDE DEF kind
<1> QED
    BY <1>2, <1>3, RowAppended

\* Every step but the service of a request leaves the rows as they were.
LEMMA RowSteps ==
    ASSUME TypeOK, [Next]_vars
    PROVE  SameRows \/ \E k \in DOMAIN posts : Serve(k) /\ posts[k].problem \in Problems /\ NewRow(posts[k].problem)
                                                        /\ posts' = [posts EXCEPT ![k].step = "answered",
                                                                                  ![k].id = Len(executions) + 1]
<1>1. CASE UNCHANGED executions
    BY <1>1, RowsKept
<1>2. ASSUME NEW i \in DOMAIN executions, Start(i) \/ Judge(i) PROVE SameRows
    BY <1>2, RowsAdvance
<1>3. ASSUME NEW k \in DOMAIN posts, Serve(k), ~UNCHANGED executions
      PROVE  /\ posts[k].problem \in Problems /\ NewRow(posts[k].problem)
             /\ posts' = [posts EXCEPT ![k].step = "answered", ![k].id = Len(executions) + 1]
    BY <1>3, ServedRow
<1>4. ASSUME CloseAttempt \/ (\E k \in DOMAIN posts : PostTold(k) \/ PostFails(k))
             \/ Load \/ Leave \/ Finish \/ RestoreList \/ ListFails \/ (\E k \in DOMAIN restoring : FetchDetail(k))
             \/ (\E r \in polls : PollRead(r) \/ PollTold(r) \/ PollFails(r))
             \/ Run \/ Submit \/ Confirm \/ Dismiss \/ SwitchProblem
      PROVE  UNCHANGED executions
    BY <1>4 DEF CloseAttempt, PostTold, PostFails, Load, Leave, Finish, RestoreList, ListFails, FetchDetail, PollRead, PollTold,
                PollFails, Run, Submit, Confirm, Dismiss, SwitchProblem, store
<1>5. CASE UNCHANGED vars
    BY <1>5, RowsKept DEF vars, store
<1> QED
    BY <1>1, <1>2, <1>3, <1>4, <1>5 DEF Next

\* So what was an execution of a problem stays one.
LEMMA IdsStay ==
    ASSUME TypeOK, [Next]_vars
    PROVE  /\ executions' \in Seq(Row) /\ DOMAIN executions \subseteq DOMAIN executions'
           /\ \A i \in DOMAIN executions : executions'[i].problem = executions[i].problem
           /\ \A p : Ids(p) \subseteq Ids(p)'
<1>1. CASE SameRows
    BY <1>1 DEF SameRows, Ids
<1>2. ASSUME NEW p, NewRow(p)
      PROVE  /\ executions' \in Seq(Row) /\ DOMAIN executions \subseteq DOMAIN executions'
             /\ \A i \in DOMAIN executions : executions'[i].problem = executions[i].problem
             /\ \A q : Ids(q) \subseteq Ids(q)'
    BY <1>2 DEF NewRow, Ids
<1> QED
    BY <1>1, <1>2, RowSteps

----------------------------------------------------------------------------
(* Types *)

\* The steps by what they do to the requests to execute.
LEMMA PostSteps ==
    ASSUME [Next]_vars
    PROVE  \/ UNCHANGED posts
           \/ Load \/ Leave \/ Finish
           \/ \E k \in DOMAIN posts : Serve(k) \/ PostTold(k) \/ PostFails(k)
           \/ Run \/ Confirm
BY DEF Next, vars, store, console, Start, Judge, CloseAttempt, RestoreList, ListFails, FetchDetail, PollRead, PollTold, PollFails,
       Submit, Dismiss, SwitchProblem

\* Changing one element.
LEMMA Changed ==
    ASSUME NEW S, NEW s \in Seq(S), NEW i \in DOMAIN s, NEW e \in S
    PROVE  LET t == [s EXCEPT ![i] = e] IN
           t \in Seq(S) /\ DOMAIN t = DOMAIN s /\ t[i] = e /\ \A j \in DOMAIN s : j # i => t[j] = s[j]
OBVIOUS

\* The copies of a request that a step makes.
LEMMA Copies ==
    ASSUME NEW c \in Asked, NEW n \in Nat
    PROVE  /\ LET d == [c EXCEPT !.heard = FALSE] IN
              d \in Asked /\ d.step = c.step /\ d.id = c.id /\ d.problem = c.problem /\ ~d.heard
           /\ LET d == [c EXCEPT !.step = "refused"] IN
              d \in Asked /\ d.step = "refused" /\ d.id = c.id /\ d.problem = c.problem /\ d.heard = c.heard
           /\ LET d == [c EXCEPT !.step = "answered", !.id = n] IN
              d \in Asked /\ d.step = "answered" /\ d.id = n /\ d.problem = c.problem /\ d.heard = c.heard
BY DEF Asked

LEMMA PostTypes ==
    ASSUME TypeOK, [Next]_vars
    PROVE  /\ posts' \in Seq(Asked)
           /\ \A k \in DOMAIN posts' : posts'[k].step = "answered" =>
                  posts'[k].id \in DOMAIN executions' /\ executions'[posts'[k].id].problem = posts'[k].problem
<1> DEFINE Sound(P) == \A k \in DOMAIN P : P[k].step = "answered" =>
                           P[k].id \in DOMAIN executions' /\ executions'[P[k].id].problem = P[k].problem
<1>0. posts \in Seq(Asked) /\ Sound(posts)
    BY IdsStay DEF TypeOK
<1>1. CASE Load \/ Leave \/ Finish
    <2>1. posts' = [k \in DOMAIN posts |-> [posts[k] EXCEPT !.heard = FALSE]]
        BY <1>1 DEF Load, Leave, Finish, Empty
    <2>2. \A k \in DOMAIN posts : /\ posts'[k] \in Asked
                                  /\ posts'[k].step = posts[k].step /\ posts'[k].id = posts[k].id
                                  /\ posts'[k].problem = posts[k].problem
        <3>1. \A k \in DOMAIN posts : posts[k] \in Asked
            BY <1>0
        <3> QED
            BY <2>1, <3>1, Copies
    <2>3. posts' \in Seq(Asked) /\ DOMAIN posts' = DOMAIN posts
        BY <1>0, <2>1, <2>2
    <2> QED
        BY <1>0, <2>2, <2>3
<1>2. ASSUME NEW k \in DOMAIN posts, Serve(k) PROVE posts' \in Seq(Asked) /\ Sound(posts')
    <2>0. posts[k] \in Asked
        BY <1>0
    <2>1. CASE posts' = [posts EXCEPT ![k].step = "refused"]
        <3>1. posts' = [posts EXCEPT ![k] = [posts[k] EXCEPT !.step = "refused"]]
            BY <2>1
        <3>2. /\ posts' \in Seq(Asked) /\ DOMAIN posts' = DOMAIN posts /\ posts'[k].step = "refused"
              /\ \A j \in DOMAIN posts : j # k => posts'[j] = posts[j]
            BY <1>0, <2>0, <3>1, Changed, Copies
        <3> QED
            BY <1>0, <3>2
    <2>2. CASE ~(posts' = [posts EXCEPT ![k].step = "refused"])
        <3>1. posts[k].problem \in Problems /\ NewRow(posts[k].problem)
              /\ posts' = [posts EXCEPT ![k].step = "answered", ![k].id = Len(executions) + 1]
            <4>1. /\ posts' = [posts EXCEPT ![k].step = "answered", ![k].id = Len(executions) + 1]
                  /\ executions' = Append(executions, Execution(posts[k].problem,
                                        IF posts[k].kind = "report" THEN "submit" ELSE posts[k].kind))
                BY <1>2, <2>2 DEF Serve
            <4> DEFINE kind == IF posts[k].kind = "report" THEN "submit" ELSE posts[k].kind
            <4>2. posts[k].problem \in Problems /\ kind \in {"run", "submit"}
                BY <2>0 DEF Asked
            <4>3. executions' = Append(executions, Execution(posts[k].problem, kind))
                BY <4>1
            <4> HIDE DEF kind
            <4> QED
                BY <4>1, <4>2, <4>3, RowAppended
        <3>2. /\ Len(executions) + 1 \in Nat /\ Len(executions) + 1 \in DOMAIN executions'
              /\ executions'[Len(executions) + 1].problem = posts[k].problem
            BY <3>1 DEF TypeOK, NewRow
        <3>3. /\ posts' \in Seq(Asked) /\ DOMAIN posts' = DOMAIN posts
              /\ posts'[k].problem = posts[k].problem /\ posts'[k].id = Len(executions) + 1
              /\ \A j \in DOMAIN posts : j # k => posts'[j] = posts[j]
            <4>a. PICK n \in Nat : n = Len(executions) + 1
                BY <3>2
            <4>1. posts' = [posts EXCEPT ![k] = [posts[k] EXCEPT !.step = "answered", !.id = n]]
                BY <3>1, <4>a
            <4> DEFINE d == [posts[k] EXCEPT !.step = "answered", !.id = n]
            <4>2. d \in Asked /\ d.problem = posts[k].problem /\ d.id = n
                BY <2>0 DEF Asked
            <4> HIDE DEF d
            <4>3. posts' \in Seq(Asked) /\ DOMAIN posts' = DOMAIN posts /\ posts'[k] = d
                  /\ \A j \in DOMAIN posts : j # k => posts'[j] = posts[j]
                BY <1>0, <4>1, <4>2, Changed DEF d
            <4> QED
                BY <4>a, <4>2, <4>3
        <3> QED
            BY <1>0, <3>2, <3>3
    <2> QED
        BY <2>1, <2>2
<1>3. ASSUME NEW k \in DOMAIN posts, PostTold(k) PROVE posts' \in Seq(Asked) /\ Sound(posts')
    <2>1. posts' = RemoveAt(posts, k)
        BY <1>3 DEF PostTold
    <2>2. posts' \in Seq(Asked)
        BY <1>0, <2>1, Removed
    <2>3. \A j \in DOMAIN posts' : \E i \in DOMAIN posts : posts'[j] = posts[i]
        BY <1>0, <2>1, Others
    <2> QED
        BY <1>0, <2>2, <2>3
<1>4. ASSUME NEW k \in DOMAIN posts, PostFails(k) PROVE posts' \in Seq(Asked) /\ Sound(posts')
    <2>1. posts' = [posts EXCEPT ![k].heard = FALSE]
        BY <1>4 DEF PostFails
    <2>2. posts[k] \in Asked
        BY <1>0
    <2>3. /\ posts' \in Seq(Asked) /\ DOMAIN posts' = DOMAIN posts
          /\ \A j \in DOMAIN posts : /\ posts'[j].step = posts[j].step /\ posts'[j].id = posts[j].id
                                     /\ posts'[j].problem = posts[j].problem
        <3> DEFINE d == [posts[k] EXCEPT !.heard = FALSE]
        <3>1. posts' = [posts EXCEPT ![k] = d]
            BY <2>1
        <3>2. d \in Asked /\ d.step = posts[k].step /\ d.id = posts[k].id /\ d.problem = posts[k].problem
            BY <2>2, Copies
        <3> HIDE DEF d
        <3>3. posts' \in Seq(Asked) /\ DOMAIN posts' = DOMAIN posts /\ posts'[k] = d
              /\ \A j \in DOMAIN posts : j # k => posts'[j] = posts[j]
            BY <1>0, <3>1, <3>2, Changed
        <3> QED
            BY <3>2, <3>3
    <2> QED
        BY <1>0, <2>3
<1>5. ASSUME NEW p \in Problems, NEW kind \in {"run", "submit", "report"}, Request(p, kind)
      PROVE  posts' \in Seq(Asked) /\ Sound(posts')
    <2>1. posts' = Append(posts, Post(p, kind))
        BY <1>5 DEF Request
    <2>2. Post(p, kind) \in Asked /\ Post(p, kind).step # "answered"
        BY DEF Post, Asked
    <2>3. /\ posts' \in Seq(Asked) /\ DOMAIN posts' = 1..(Len(posts) + 1) /\ posts'[Len(posts) + 1] = Post(p, kind)
          /\ DOMAIN posts = 1..Len(posts) /\ Len(posts) \in Nat
          /\ \A j \in DOMAIN posts : posts'[j] = posts[j]
        BY <1>0, <2>1, <2>2
    <2>4. \A j \in DOMAIN posts' : j \in DOMAIN posts \/ j = Len(posts) + 1
        BY <2>3
    <2> QED
        BY <1>0, <2>2, <2>3, <2>4
<1>6. Run => \E p \in Problems, kind \in {"run", "submit", "report"} : Request(p, kind)
    BY DEF Run, TypeOK
<1>7. Confirm => \E p \in Problems, kind \in {"run", "submit", "report"} : Request(p, kind)
    BY DEF Confirm, TypeOK, Asked
<1> QED
    BY <1>0, <1>1, <1>2, <1>3, <1>4, <1>5, <1>6, <1>7, PostSteps

\* The steps by what they do to the polls and to what is to be restored.
LEMMA PollSteps ==
    ASSUME [Next]_vars
    PROVE  \/ UNCHANGED <<polls, restoring>>
           \/ polls' = {} /\ restoring' = <<>>
           \/ \E k \in DOMAIN posts : PostTold(k) /\ UNCHANGED restoring
           \/ RestoreList /\ UNCHANGED polls
           \/ \E k \in DOMAIN restoring : FetchDetail(k)
           \/ \E r \in polls : PollRead(r) \/ PollTold(r) \/ PollFails(r)
BY DEF Next, vars, store, console, Start, Judge, CloseAttempt, Serve, PostFails, PostTold, RestoreList, ListFails,
       Run, Submit, Confirm, Dismiss, SwitchProblem, Load, Leave, Finish, Empty

LEMMA LatestType == ASSUME NewestInv, NEW p \in Problems PROVE Latest(p) \in DOMAIN executions \cup {0}
<1>1. CASE Ids(p) = {}
    BY <1>1 DEF Latest
<1>2. CASE Ids(p) # {}
    BY <1>2 DEF NewestInv, Ids
<1> QED
    BY <1>1, <1>2

LEMMA PollTypes ==
    ASSUME TypeOK, NewestInv, [Next]_vars
    PROVE  /\ polls' \subseteq Polled'
           /\ \A r \in polls' : r.step = "answered" => r.status \in Statuses
           /\ restoring' \in [DOMAIN restoring' -> DOMAIN executions']
<1> DEFINE Fine(R) == R \subseteq Polled' /\ \A r \in R : r.step = "answered" => r.status \in Statuses
<1>0. /\ DOMAIN executions \subseteq DOMAIN executions' /\ Polled \subseteq Polled'
      /\ restoring \in [DOMAIN restoring -> DOMAIN executions']
      /\ \A i \in DOMAIN executions : executions[i] \in Row
    <2>1. DOMAIN executions \subseteq DOMAIN executions'
        BY IdsStay
    <2>2. executions \in Seq(Row)
        BY DEF TypeOK
    <2> QED
        BY <2>1, <2>2 DEF TypeOK, Polled
<1>1. Fine(polls)
    BY <1>0 DEF TypeOK
<1>2. \A i \in DOMAIN executions, o \in {"own", "detail", "resumed"} : Poll(i, o) \in Polled' /\ Poll(i, o).step = "asking"
    BY <1>0 DEF Poll, Polled
<1>3. CASE polls' = {} /\ restoring' = <<>>
    BY <1>3
<1>4. ASSUME NEW k \in DOMAIN posts, PostTold(k), UNCHANGED restoring PROVE Fine(polls')
    <2>1. CASE UNCHANGED polls
        BY <1>1, <2>1
    <2>2. CASE polls' = polls \cup {Poll(posts[k].id, "own")} /\ posts[k].step = "answered"
        <3>1. posts[k].id \in DOMAIN executions
            BY <2>2 DEF TypeOK, Ids
        <3> QED
            BY <1>1, <1>2, <2>2, <3>1
    <2> QED
        BY <1>4, <2>1, <2>2 DEF PostTold
<1>5. CASE RestoreList /\ UNCHANGED polls
    <2>1. /\ restoring' = [k \in {k \in DOMAIN ProblemList : Latest(ProblemList[k]) # 0} |-> Latest(ProblemList[k])]
        BY <1>5 DEF RestoreList
    <2>2. \A k \in DOMAIN ProblemList : ProblemList[k] \in Problems
        BY DEF Problems, ToSet
    <2>3. \A k \in DOMAIN ProblemList : Latest(ProblemList[k]) \in DOMAIN executions \cup {0}
        BY <2>2, LatestType
    <2> QED
        BY <1>0, <1>1, <1>5, <2>1, <2>3
<1>6. ASSUME NEW k \in DOMAIN restoring, FetchDetail(k)
      PROVE  Fine(polls') /\ restoring' \in [DOMAIN restoring' -> DOMAIN executions']
    <2>1. /\ polls' = polls \cup {Poll(restoring[k], "detail")}
          /\ restoring' = [j \in DOMAIN restoring \ {k} |-> restoring[j]]
        BY <1>6 DEF FetchDetail
    <2>2. restoring[k] \in DOMAIN executions
        BY DEF TypeOK
    <2> QED
        BY <1>0, <1>1, <1>2, <2>1, <2>2
<1>7. ASSUME NEW r \in polls, PollRead(r) PROVE Fine(polls') /\ UNCHANGED restoring
    <2>1. r \in Polled
        BY DEF TypeOK
    <2>2. executions[r.id].status \in Statuses
        BY <1>0, <2>1 DEF Polled, Row
    <2> DEFINE q == [r EXCEPT !.step = "answered", !.status = executions[r.id].status]
    <2>3. q \in Polled /\ q.status \in Statuses
        BY <2>1, <2>2 DEF Polled
    <2>4. polls' = (polls \ {r}) \cup {q} /\ UNCHANGED restoring
        BY <1>7 DEF PollRead
    <2> HIDE DEF q
    <2> QED
        BY <1>0, <1>1, <2>3, <2>4
<1>8. ASSUME NEW r \in polls, PollTold(r) PROVE Fine(polls') /\ UNCHANGED restoring
    <2>1. r.id \in DOMAIN executions /\ r.origin \in {"own", "detail", "resumed"}
        BY DEF TypeOK, Polled
    <2> DEFINE q == Poll(r.id, IF r.origin = "detail" THEN "resumed" ELSE r.origin)
    <2>2. q \in Polled' /\ q.step = "asking"
        BY <1>2, <2>1
    <2>3. (polls' = polls \ {r} \/ polls' = (polls \ {r}) \cup {q}) /\ UNCHANGED restoring
        BY <1>8 DEF PollTold
    <2> HIDE DEF q
    <2> QED
        BY <1>1, <2>2, <2>3
<1>9. ASSUME NEW r \in polls, PollFails(r)
      PROVE  Fine(polls') /\ restoring' \in [DOMAIN restoring' -> DOMAIN executions']
    <2>1. polls' = polls \ {r} /\ (restoring' = <<>> \/ UNCHANGED restoring)
        BY <1>9 DEF PollFails
    <2>2. <<>> \in [DOMAIN <<>> -> DOMAIN executions']
        OBVIOUS
    <2>3. Fine(polls \ {r})
        BY <1>1
    <2> HIDE DEF Fine
    <2> QED
        BY <1>0, <2>1, <2>2, <2>3
<1> QED
    BY <1>0, <1>1, <1>3, <1>4, <1>5, <1>6, <1>7, <1>8, <1>9, PollSteps

LEMMA ShownTypes ==
    ASSUME TypeOK, [Next]_vars
    PROVE  /\ shown' \in [Problems -> [id : Nat, status : Statuses \cup {"none"}]]
           /\ \A p \in Problems : shown'[p].id \in Ids(p)' \cup {0}
<1> DEFINE V == [id : Nat, status : Statuses \cup {"none"}]
<1>0. /\ shown \in [Problems -> V] /\ \A p \in Problems : shown[p].id \in Ids(p)' \cup {0}
    BY IdsStay DEF TypeOK
<1>1. CASE UNCHANGED shown
    BY <1>0, <1>1
<1>2. CASE Empty
    BY <1>2 DEF Empty, NoView, View
<1>3. ASSUME NEW p \in Problems, NEW i \in Ids(p), NEW s \in Statuses, shown' = [shown EXCEPT ![p] = View(i, s)]
      PROVE  shown' \in [Problems -> V] /\ \A q \in Problems : shown'[q].id \in Ids(q)' \cup {0}
    <2>1. i \in Nat /\ i \in Ids(p)'
        BY IdsStay DEF Ids, TypeOK
    <2>2. View(i, s) \in V /\ View(i, s).id = i
        BY <2>1 DEF View
    <2> QED
        BY <1>0, <1>3, <2>1, <2>2
<1>4. ASSUME NEW r \in polls, PollTold(r)
      PROVE  \E p \in Problems : \E i \in Ids(p), s \in Statuses : shown' = [shown EXCEPT ![p] = View(i, s)]
    <2>1. r.id \in DOMAIN executions /\ r.status \in Statuses
        BY <1>4 DEF TypeOK, PollTold, Polled
    <2>0. executions \in Seq(Row)
        BY DEF TypeOK
    <2>2. executions[r.id] \in Row
        BY <2>0, <2>1
    <2>3. executions[r.id].problem \in Problems /\ r.id \in Ids(executions[r.id].problem)
        BY <2>1, <2>2 DEF Row, Ids
    <2> QED
        BY <1>4, <2>1, <2>3 DEF PollTold
<1>5. ASSUME NEW k \in DOMAIN posts, PostTold(k), ~UNCHANGED shown
      PROVE  \E p \in Problems : \E i \in Ids(p), s \in Statuses : shown' = [shown EXCEPT ![p] = View(i, s)]
    <2>0. posts \in Seq(Asked)
        BY DEF TypeOK
    <2>1. posts[k] \in Asked /\ posts[k].step = "answered"
        BY <1>5, <2>0 DEF PostTold
    <2>2. posts[k].problem \in Problems /\ posts[k].id \in Ids(posts[k].problem)
        BY <2>1 DEF TypeOK, Asked, Ids
    <2>3. \E s \in {"done", "queued"} : shown' = [shown EXCEPT ![posts[k].problem] = View(posts[k].id, s)]
        BY <1>5 DEF PostTold
    <2> QED
        BY <2>2, <2>3 DEF Statuses
<1>6. \/ UNCHANGED shown \/ Empty
      \/ \E r \in polls : PollTold(r)
      \/ \E k \in DOMAIN posts : PostTold(k)
    BY DEF Next, vars, store, console, Start, Judge, CloseAttempt, Serve, PostFails, RestoreList, ListFails, FetchDetail,
           PollRead, PollFails, Run, Submit, Confirm, Dismiss, SwitchProblem, Load, Leave, Finish
<1> QED
    BY <1>1, <1>2, <1>3, <1>4, <1>5, <1>6

LEMMA PageTypes ==
    ASSUME TypeOK, [Next]_vars
    PROVE  /\ open' \in BOOLEAN /\ at' \in {"closed", "open", "left"} /\ problem' \in Problems
           /\ busy' \in BOOLEAN /\ listing' \in BOOLEAN /\ slips' \subseteq {"overlap", "unheard"}
           /\ dialog' # None => dialog' \in Asked /\ dialog'.step = "sent"
<1>0. /\ open \in BOOLEAN /\ at \in {"closed", "open", "left"} /\ problem \in Problems
      /\ busy \in BOOLEAN /\ listing \in BOOLEAN /\ slips \subseteq {"overlap", "unheard"}
      /\ dialog # None => dialog \in Asked /\ dialog.step = "sent"
    BY DEF TypeOK
<1>1. CASE Load \/ Leave \/ Finish
    BY <1>0, <1>1, First DEF Load, Leave, Finish, Empty, store
<1>2. ASSUME NEW p, NEW kind, Request(p, kind) PROVE busy' \in BOOLEAN /\ slips' \subseteq {"overlap", "unheard"}
    BY <1>0, <1>2 DEF Request
<1>3. CASE Run \/ Confirm
    BY <1>0, <1>2, <1>3 DEF Run, Confirm, store
<1>4. CASE Submit
    BY <1>0, <1>4 DEF Submit, Post, Asked, store, console
<1>5. ASSUME NEW k \in DOMAIN posts, Serve(k) \/ PostTold(k) \/ PostFails(k)
      PROVE  busy' \in BOOLEAN /\ slips' \subseteq {"overlap", "unheard"}
             /\ UNCHANGED <<open, at, problem, listing, dialog>>
    BY <1>0, <1>5 DEF Serve, PostTold, PostFails, TypeOK, store
<1>6. ASSUME NEW r \in polls, PollRead(r) \/ PollTold(r) \/ PollFails(r)
      PROVE  busy' \in BOOLEAN /\ slips' \subseteq {"overlap", "unheard"}
             /\ UNCHANGED <<open, at, problem, listing, dialog>>
    BY <1>0, <1>6 DEF PollRead, PollTold, PollFails, Unlock, store
<1>7. CASE (\E i \in DOMAIN executions : Start(i) \/ Judge(i)) \/ CloseAttempt \/ RestoreList \/ ListFails
           \/ (\E k \in DOMAIN restoring : FetchDetail(k)) \/ Dismiss \/ SwitchProblem \/ UNCHANGED vars
    BY <1>0, <1>7 DEF Start, Judge, CloseAttempt, RestoreList, ListFails, FetchDetail, Dismiss, SwitchProblem, vars, store, console
<1> QED
    BY <1>0, <1>1, <1>3, <1>4, <1>5, <1>6, <1>7 DEF Next

LEMMA TypeStep == ASSUME TypeOK, NewestInv, [Next]_vars PROVE TypeOK'
<1>1. executions' \in Seq(Row)
    BY IdsStay
<1> QED
    BY <1>1, PostTypes, PollTypes, ShownTypes, PageTypes DEF TypeOK

----------------------------------------------------------------------------
(* The lock *)

LEMMA OwnWorkIs == OwnWork <=> Heard # {} \/ Owned # {}
BY DEF OwnWork, Heard, Owned

LEMMA OwnWorkWillBe == OwnWork' <=> Heard' # {} \/ Owned' # {}
BY DEF OwnWork, Heard, Owned

\* Whose answer is awaited, after each step that touches the requests.
LEMMA HeardServe == ASSUME TypeOK, NEW k \in DOMAIN posts, Serve(k) PROVE Heard' = Heard
<1>0. posts \in Seq(Asked)
    BY DEF TypeOK
<1>1. DOMAIN posts' = DOMAIN posts /\ \A j \in DOMAIN posts : posts'[j].heard = posts[j].heard
    <2>1. CASE posts' = [posts EXCEPT ![k].step = "refused"]
        <3>1. posts[k] \in Asked
            BY <1>0
        <3>2. posts' = [posts EXCEPT ![k] = [posts[k] EXCEPT !.step = "refused"]]
            BY <2>1
        <3>3. [posts[k] EXCEPT !.step = "refused"].heard = posts[k].heard
            BY <3>1, Copies
        <3> QED
            BY <1>0, <3>2, <3>3
    <2>2. CASE posts' = [posts EXCEPT ![k].step = "answered", ![k].id = Len(executions) + 1]
        <3>0. Len(executions) + 1 \in Nat
            BY DEF TypeOK
        <3>1. posts[k] \in Asked
            BY <1>0
        <3>2. posts' = [posts EXCEPT ![k] = [posts[k] EXCEPT !.step = "answered", !.id = Len(executions) + 1]]
            BY <2>2
        <3>3. [posts[k] EXCEPT !.step = "answered", !.id = Len(executions) + 1].heard = posts[k].heard
            BY <3>0, <3>1, Copies
        <3> QED
            BY <1>0, <3>2, <3>3
    <2> QED
        BY <2>1, <2>2 DEF Serve
<1> QED
    BY <1>1 DEF Heard

LEMMA HeardFails == ASSUME TypeOK, NEW k \in DOMAIN posts, PostFails(k) PROVE Heard' = Heard \ {k}
<1>0. posts \in Seq(Asked)
    BY DEF TypeOK
<1>1. posts' = [posts EXCEPT ![k] = [posts[k] EXCEPT !.heard = FALSE]]
    BY DEF PostFails
<1>2. posts[k] \in Asked
    BY <1>0
<1> DEFINE d == [posts[k] EXCEPT !.heard = FALSE]
<1>3. ~d.heard
    BY <1>2, Copies
<1>4. DOMAIN posts' = DOMAIN posts /\ posts'[k] = d /\ \A j \in DOMAIN posts : j # k => posts'[j] = posts[j]
    BY <1>0, <1>1
<1> HIDE DEF d
<1> QED
    BY <1>3, <1>4 DEF Heard

LEMMA HeardTold ==
    ASSUME TypeOK, NEW k \in DOMAIN posts, PostTold(k)
    PROVE  /\ Heard' # {} => Heard \ {k} # {}
           /\ Heard \ {k} # {} => Heard' # {}
           /\ (\A i, j \in Heard : i = j) /\ k \in Heard => Heard' = {}
           /\ (\A i, j \in Heard : i = j) => \A i, j \in Heard' : i = j
<1>0. posts \in Seq(Asked) /\ posts' = RemoveAt(posts, k)
    BY DEF TypeOK, PostTold
<1>1. /\ \A j \in DOMAIN posts' : \E i \in DOMAIN posts : i # k /\ posts'[j] = posts[i] /\ i = IF j < k THEN j ELSE j + 1
      /\ \A i \in DOMAIN posts : i # k => \E j \in DOMAIN posts' : posts'[j] = posts[i]
    BY <1>0, Others
<1>2. \A j \in Heard' : \E i \in Heard \ {k} : i = IF j < k THEN j ELSE j + 1
    BY <1>1 DEF Heard
<1>3. Heard \ {k} # {} => Heard' # {}
    BY <1>1 DEF Heard
<1>4. ASSUME \A i, j \in Heard : i = j, NEW i \in Heard', NEW j \in Heard' PROVE i = j
    <2>1. i \in Nat /\ j \in Nat /\ k \in Nat
        <3>1. DOMAIN posts' = 1..(Len(posts) - 1)
            BY <1>0, Removed
        <3> QED
            BY <1>0, <3>1 DEF Heard
    <2>2. (IF i < k THEN i ELSE i + 1) = (IF j < k THEN j ELSE j + 1)
        BY <1>2, <1>4
    <2> QED
        BY <2>1, <2>2
<1> QED
    BY <1>2, <1>3, <1>4

LEMMA HeardRequest ==
    ASSUME TypeOK, NEW p, NEW kind, Request(p, kind)
    PROVE  Heard' = Heard \cup (IF at = "open" THEN {Len(posts) + 1} ELSE {})
<1>0. posts \in Seq(Asked) /\ posts' = Append(posts, Post(p, kind))
    BY DEF TypeOK, Request
<1>1. /\ DOMAIN posts' = DOMAIN posts \cup {Len(posts) + 1} /\ posts'[Len(posts) + 1] = Post(p, kind)
      /\ \A j \in DOMAIN posts : posts'[j] = posts[j]
    <2>1. DOMAIN posts' = 1..(Len(posts) + 1) /\ DOMAIN posts = 1..Len(posts) /\ Len(posts) \in Nat
        BY <1>0
    <2> QED
        BY <1>0, <2>1
<1> HIDE <1>0
<1>2. Post(p, kind).heard = (at = "open")
    BY DEF Post
<1> QED
    BY <1>1, <1>2 DEF Heard

LEMMA HeardEmpty ==
    ASSUME TypeOK, Empty
    PROVE  Heard' = {} /\ Owned' = {} /\ ~busy' /\ polls' = {} /\ DOMAIN restoring' = {}
<1>1. posts' = [k \in DOMAIN posts |-> [posts[k] EXCEPT !.heard = FALSE]] /\ polls' = {} /\ restoring' = <<>> /\ ~busy'
    BY DEF Empty
<1>2. posts \in Seq(Asked)
    BY DEF TypeOK
<1>3. \A k \in DOMAIN posts : ~[posts[k] EXCEPT !.heard = FALSE].heard
    <2>1. \A k \in DOMAIN posts : posts[k] \in Asked
        BY <1>2
    <2> QED
        BY <2>1, Copies
<1>4. \A k \in DOMAIN posts' : ~posts'[k].heard
    BY <1>1, <1>3
<1> QED
    BY <1>1, <1>4 DEF Heard, Owned

\* The lock and what it waits for.
LockPart == LockInv /\ AloneInv

\* Nothing that counts for the lock changes.
LEMMA LockStill ==
    ASSUME LockPart, UNCHANGED <<at, busy, listing, Heard, Owned>>, Restoring' => Restoring, slips \subseteq slips',
           dialog' \in {None, dialog} \/ ~busy
    PROVE  LockPart'
BY OwnWorkIs, OwnWorkWillBe DEF LockPart, LockInv, AloneInv

\* What unlocks ends the only work of the page, or found none.
LEMMA LockOver ==
    ASSUME LockPart, ~busy', slips \subseteq slips', Restoring' => Restoring, UNCHANGED at,
           OwnWork' => OwnWork, "overlap" \notin slips => ~OwnWork'
    PROVE  LockPart'
BY DEF LockPart, LockInv, AloneInv

LEMMA LockRequest ==
    ASSUME TypeOK, LockPart, NEW p, NEW kind, Request(p, kind), ~busy, dialog' = None,
           UNCHANGED <<at, polls, listing, restoring>>
    PROVE  LockPart'
<1>1. /\ Heard' = Heard \cup (IF at = "open" THEN {Len(posts) + 1} ELSE {})
      /\ Owned' = Owned /\ (Restoring' <=> Restoring) /\ busy' = (at = "open")
      /\ slips' = IF Restoring THEN slips \cup {"overlap"} ELSE slips
    BY HeardRequest DEF Owned, Restoring, Request
<1>2. CASE at # "open"
    BY <1>1, <1>2, OwnWorkIs, OwnWorkWillBe DEF LockPart, LockInv, AloneInv
<1>3. CASE at = "open"
    <2>1. LockInv'
        BY <1>1, <1>3, OwnWorkWillBe DEF LockPart, LockInv
    <2>2. ASSUME "overlap" \notin slips' PROVE ~Restoring /\ Heard = {} /\ Owned = {}
        BY <1>1, <2>2, OwnWorkIs DEF LockPart, AloneInv
    <2>3. AloneInv'
        BY <1>1, <1>3, <2>2 DEF AloneInv
    <2> QED
        BY <2>1, <2>3 DEF LockPart
<1> QED
    BY <1>2, <1>3

LEMMA LockTold ==
    ASSUME TypeOK, LockPart, NEW k \in DOMAIN posts, PostTold(k)
    PROVE  LockPart'
<1>0. posts \in Seq(Asked)
    BY DEF TypeOK
<1>1. UNCHANGED <<at, listing, restoring, dialog, slips>>
    BY DEF PostTold
<1>2. /\ Heard' # {} => Heard \ {k} # {}
      /\ Heard \ {k} # {} => Heard' # {}
      /\ (\A i, j \in Heard : i = j) /\ k \in Heard => Heard' = {}
      /\ (\A i, j \in Heard : i = j) => \A i, j \in Heard' : i = j
    BY HeardTold
<1>3. k \in Heard <=> posts[k].heard
    BY DEF Heard
<1>4. CASE polls' = polls \cup {Poll(posts[k].id, "own")} /\ posts[k].heard /\ UNCHANGED busy
    <2> DEFINE q == Poll(posts[k].id, "own")
    <2>1. q.origin = "own"
        BY DEF Poll
    <2>2. Owned' = Owned \cup {q} /\ (Restoring' <=> Restoring)
        BY <1>1, <1>4, <2>1 DEF Owned, Restoring
    <2> HIDE DEF q
    <2>3. OwnWork /\ OwnWork'
        BY <1>3, <1>4, <2>2, OwnWorkIs, OwnWorkWillBe
    <2>4. ASSUME "overlap" \notin slips PROVE Owned = {} /\ Heard' = {}
        BY <1>2, <1>3, <1>4, <2>3, <2>4 DEF LockPart, AloneInv
    <2> QED
        BY <1>1, <1>4, <2>2, <2>3, <2>4 DEF LockPart, LockInv, AloneInv
<1>5. CASE UNCHANGED polls /\ ~busy' /\ posts[k].heard
    <2>1. Owned' = Owned /\ (Restoring' <=> Restoring)
        BY <1>1, <1>5 DEF Owned, Restoring
    <2>2. OwnWork' => OwnWork
        BY <1>2, <2>1, OwnWorkIs, OwnWorkWillBe
    <2>3. ASSUME "overlap" \notin slips PROVE ~OwnWork'
        BY <1>2, <1>3, <1>5, <2>1, <2>3, OwnWorkIs, OwnWorkWillBe DEF LockPart, AloneInv
    <2> QED
        BY <1>1, <1>5, <2>1, <2>2, <2>3, LockOver
<1>6. CASE UNCHANGED <<polls, busy>> /\ ~posts[k].heard
    <2>1. Owned' = Owned /\ (Restoring' <=> Restoring)
        BY <1>1, <1>6 DEF Owned, Restoring
    <2>2. Heard' = {} <=> Heard = {}
        BY <1>2, <1>3, <1>6
    <2>3. OwnWork' <=> OwnWork
        BY <2>1, <2>2, OwnWorkIs, OwnWorkWillBe
    <2> QED
        BY <1>1, <1>2, <1>6, <2>1, <2>2, <2>3 DEF LockPart, LockInv, AloneInv
<1>7. \/ polls' = polls \cup {Poll(posts[k].id, "own")} /\ posts[k].heard /\ UNCHANGED busy
      \/ UNCHANGED polls /\ ~busy' /\ posts[k].heard
      \/ UNCHANGED <<polls, busy>> /\ ~posts[k].heard
    <2>1. busy \in BOOLEAN
        BY DEF TypeOK
    <2>2. CASE posts[k].heard /\ posts[k].step = "answered"
        BY <2>2 DEF PostTold
    <2>3. CASE posts[k].heard /\ posts[k].step # "answered"
        BY <2>3 DEF PostTold
    <2>4. CASE ~posts[k].heard
        <3>1. UNCHANGED polls /\ busy' = (busy /\ ~posts[k].heard)
            BY <2>4 DEF PostTold
        <3>2. busy' = busy
            BY <2>1, <2>4, <3>1
        <3> QED
            BY <1>1, <2>4, <3>1, <3>2
    <2> QED
        BY <1>1, <2>2, <2>3, <2>4
<1> QED
    BY <1>4, <1>5, <1>6, <1>7

LEMMA LockPoll ==
    ASSUME TypeOK, LockPart, NEW r \in polls, PollRead(r) \/ PollTold(r) \/ PollFails(r)
    PROVE  LockPart'
<1>1. /\ UNCHANGED <<at, listing, posts, dialog>> /\ r.origin \in {"own", "detail", "resumed"} /\ slips \subseteq slips'
      /\ DOMAIN restoring' \subseteq DOMAIN restoring
    BY DEF PollRead, PollTold, PollFails, TypeOK, Polled
<1>2. Heard' = Heard
    BY <1>1 DEF Heard
\* The poll goes on, for its owner or for the restoration.
<1>3. ASSUME NEW q, polls' = (polls \ {r}) \cup {q}, q.origin = "own" <=> r.origin = "own", UNCHANGED busy PROVE LockPart'
    <2>1. Owned' = (Owned \ {r}) \cup (IF q.origin = "own" THEN {q} ELSE {})
        BY <1>3 DEF Owned
    <2>2. r \in Owned <=> r.origin = "own"
        BY DEF Owned
    <2>3. Restoring' => Restoring
        BY <1>1, <1>3 DEF Restoring
    <2>4. Owned' = {} <=> Owned = {}
        BY <1>3, <2>1, <2>2
    <2>5. (\A i, j \in Owned : i = j) => \A i, j \in Owned' : i = j
        BY <1>3, <2>1, <2>2
    <2>6. OwnWork' <=> OwnWork
        BY <1>2, <2>4, OwnWorkIs, OwnWorkWillBe
    <2> QED
        BY <1>1, <1>2, <1>3, <2>3, <2>4, <2>5, <2>6 DEF LockPart, LockInv, AloneInv
\* The poll ends.
<1>4. ASSUME polls' = polls \ {r}, busy' = Unlock(r) PROVE LockPart'
    <2>1. Owned' = Owned \ {r} /\ (Restoring' => Restoring)
        BY <1>1, <1>4 DEF Owned, Restoring
    <2>2. OwnWork' => OwnWork
        BY <1>2, <2>1, OwnWorkIs, OwnWorkWillBe
    <2>3. CASE r.origin = "detail"
        <3>1. UNCHANGED busy /\ Owned' = Owned
            BY <1>4, <2>1, <2>3 DEF Unlock, Owned
        <3> QED
            BY <1>1, <1>2, <2>1, <3>1, LockStill
    <2>4. CASE r.origin # "detail"
        <3>1. ~busy'
            BY <1>4, <2>4 DEF Unlock
        <3>2. r.origin = "resumed" => Restoring
            BY DEF Restoring
        <3>3. r.origin = "own" => r \in Owned
            BY DEF Owned
        <3>4. ASSUME "overlap" \notin slips, OwnWork' PROVE FALSE
            <4>1. OwnWork /\ AloneInv
                BY <2>2, <3>4 DEF LockPart
            <4>2. r \in Owned
                BY <1>1, <2>4, <3>2, <3>3, <3>4, <4>1 DEF AloneInv
            <4> QED
                BY <1>2, <2>1, <3>4, <4>1, <4>2, OwnWorkWillBe DEF AloneInv
        <3> QED
            BY <1>1, <2>1, <2>2, <3>1, <3>4, LockOver
    <2> QED
        BY <2>3, <2>4
<1>5. CASE PollRead(r)
    <2> DEFINE q == [r EXCEPT !.step = "answered", !.status = executions[r.id].status]
    <2>1. polls' = (polls \ {r}) \cup {q} /\ UNCHANGED busy
        BY <1>5 DEF PollRead
    <2>2. q.origin = r.origin
        BY DEF TypeOK, Polled
    <2> HIDE DEF q
    <2> QED
        BY <1>3, <2>1, <2>2
<1>6. CASE PollTold(r) /\ Unfinished(r.status)
    <2> DEFINE q == Poll(r.id, IF r.origin = "detail" THEN "resumed" ELSE r.origin)
    <2>1. polls' = (polls \ {r}) \cup {q} /\ UNCHANGED busy
        BY <1>6 DEF PollTold
    <2>2. q.origin = "own" <=> r.origin = "own"
        BY <1>1 DEF Poll
    <2> HIDE DEF q
    <2> QED
        BY <1>3, <2>1, <2>2
<1>7. CASE PollTold(r) /\ ~Unfinished(r.status)
    BY <1>4, <1>7 DEF PollTold
<1>8. CASE PollFails(r)
    BY <1>4, <1>8 DEF PollFails
<1> QED
    BY <1>5, <1>6, <1>7, <1>8

LEMMA LockStep == ASSUME TypeOK, LockPart, [Next]_vars PROVE LockPart'
<1>1. CASE \E k \in DOMAIN posts : Serve(k)
    <2>1. Heard' = Heard /\ UNCHANGED <<at, busy, listing, polls, restoring, slips, dialog>>
        BY <1>1, HeardServe DEF Serve
    <2> QED
        BY <2>1, LockStill DEF Owned, Restoring
<1>2. CASE \E k \in DOMAIN posts : PostTold(k)
    BY <1>2, LockTold
<1>3. ASSUME NEW k \in DOMAIN posts, PostFails(k) PROVE LockPart'
    <2>1. /\ Heard' = Heard \ {k} /\ k \in Heard /\ ~busy' /\ slips \subseteq slips'
          /\ UNCHANGED <<at, listing, polls, restoring, dialog>>
        BY <1>3, HeardFails DEF PostFails, Heard
    <2>2. Owned' = Owned /\ (Restoring' => Restoring) /\ OwnWork /\ (OwnWork' => OwnWork)
        BY <2>1, OwnWorkIs, OwnWorkWillBe DEF Owned, Restoring
    <2>3. ASSUME "overlap" \notin slips PROVE ~OwnWork'
        BY <2>1, <2>2, <2>3, OwnWorkIs, OwnWorkWillBe DEF LockPart, AloneInv
    <2> QED
        BY <2>1, <2>2, <2>3, LockOver
<1>4. CASE Load \/ Leave \/ Finish
    <2>1. Heard' = {} /\ Owned' = {} /\ ~busy' /\ polls' = {} /\ DOMAIN restoring' = {}
        BY <1>4, HeardEmpty DEF Load, Leave, Finish
    <2>2. listing' = (at' = "open")
        BY <1>4 DEF Load, Leave, Finish
    <2>3. ~OwnWork' /\ (at' # "open" => ~Restoring')
        BY <2>1, <2>2, OwnWorkWillBe DEF Restoring
    <2> QED
        BY <2>1, <2>3 DEF LockPart, LockInv, AloneInv
<1>5. CASE RestoreList
    <2>1. Restoring /\ UNCHANGED <<at, busy, posts, polls, slips, dialog>>
        BY <1>5 DEF RestoreList, Restoring
    <2>2. Heard' = Heard /\ Owned' = Owned
        BY <2>1 DEF Heard, Owned
    <2> QED
        BY <2>1, <2>2, OwnWorkIs, OwnWorkWillBe DEF LockPart, LockInv, AloneInv
<1>11. CASE ListFails
    <2>1. Restoring /\ UNCHANGED <<at, busy, posts, polls, restoring, dialog>> /\ slips \subseteq slips'
        BY <1>11 DEF ListFails, Restoring
    <2>2. Heard' = Heard /\ Owned' = Owned
        BY <2>1 DEF Heard, Owned
    <2>3. Restoring' => Restoring
        BY <2>1
    <2> QED
        BY <2>1, <2>2, <2>3, OwnWorkIs, OwnWorkWillBe DEF LockPart, LockInv, AloneInv
<1>6. ASSUME NEW k \in DOMAIN restoring, FetchDetail(k) PROVE LockPart'
    <2>1. Restoring /\ UNCHANGED <<at, busy, posts, slips, dialog, listing>>
        BY <1>6 DEF FetchDetail, Restoring
    <2> DEFINE q == Poll(restoring[k], "detail")
    <2>2. polls' = polls \cup {q} /\ q.origin # "own"
        BY <1>6 DEF FetchDetail, Poll
    <2> HIDE DEF q
    <2>3. Heard' = Heard /\ Owned' = Owned
        BY <2>1, <2>2 DEF Heard, Owned
    <2> QED
        BY <2>1, <2>3, OwnWorkIs, OwnWorkWillBe DEF LockPart, LockInv, AloneInv
<1>7. CASE \E r \in polls : PollRead(r) \/ PollTold(r) \/ PollFails(r)
    BY <1>7, LockPoll
<1>8. CASE Run
    BY <1>8, LockRequest DEF Run, Free, Clickable
<1>9. CASE Confirm
    <2>1. ~busy
        BY <1>9 DEF Confirm, LockPart, LockInv
    <2> QED
        BY <1>9, <2>1, LockRequest DEF Confirm
<1>10. CASE (\E i \in DOMAIN executions : Start(i) \/ Judge(i)) \/ CloseAttempt \/ Submit \/ Dismiss \/ SwitchProblem
            \/ UNCHANGED vars
    <2>1. /\ UNCHANGED <<at, busy, posts, polls, listing, restoring, slips>>
          /\ dialog' \in {None, dialog} \/ ~busy
        BY <1>10 DEF Start, Judge, CloseAttempt, Submit, Dismiss, SwitchProblem, vars, console, Free
    <2> QED
        BY <2>1, LockStill DEF Heard, Owned, Restoring
<1> QED
    BY <1>1, <1>2, <1>3, <1>4, <1>5, <1>6, <1>7, <1>8, <1>9, <1>10, <1>11 DEF Next

----------------------------------------------------------------------------
(* The newest executions *)

LEMMA SlipsGrow == ASSUME [Next]_vars PROVE slips \subseteq slips' /\ (Clean' => Clean)
<1>1. slips \subseteq slips'
    BY DEF Next, vars, store, console, Start, Judge, CloseAttempt, Serve, PostTold, PostFails, Load, Leave, Finish,
           RestoreList, ListFails, FetchDetail, PollRead, PollTold, PollFails, Run, Submit, Confirm, Request, Dismiss, SwitchProblem
<1> QED
    BY <1>1 DEF Clean

LEMMA RequestHeard ==
    ASSUME TypeOK, NEW p, NEW kind, Request(p, kind), at = "open", \A k \in DOMAIN posts : posts[k].heard
    PROVE  \A k \in DOMAIN posts' : posts'[k].heard
<1>1. posts \in Seq(Asked) /\ posts' = Append(posts, Post(p, kind)) /\ Post(p, kind).heard
    BY DEF TypeOK, Request, Post
<1>2. DOMAIN posts' = DOMAIN posts \cup {Len(posts) + 1}
    BY <1>1
<1>3. Heard' = Heard \cup {Len(posts) + 1} /\ Heard = DOMAIN posts
    BY HeardRequest DEF Heard
<1> QED
    BY <1>2, <1>3 DEF Heard

LEMMA HeardStep == ASSUME TypeOK, HeardInv, [Next]_vars PROVE HeardInv'
<1>0. posts \in Seq(Asked) /\ (Clean' => Clean)
    BY SlipsGrow DEF TypeOK
<1>1. ASSUME NEW k \in DOMAIN posts, Serve(k) PROVE HeardInv'
    <2>1. Heard' = Heard /\ UNCHANGED <<at, dialog, slips>>
        BY <1>1, HeardServe DEF Serve
    <2>2. DOMAIN posts' = DOMAIN posts
        BY <1>1 DEF Serve
    <2>3. posts # <<>>
        OBVIOUS
    <2> QED
        BY <2>1, <2>2, <2>3 DEF HeardInv, Heard, Clean
<1>2. ASSUME NEW k \in DOMAIN posts, PostTold(k) PROVE HeardInv'
    <2>1. UNCHANGED <<at, dialog, slips>> /\ posts' = RemoveAt(posts, k)
        BY <1>2 DEF PostTold
    <2>2. \A j \in DOMAIN posts' : \E i \in DOMAIN posts : posts'[j] = posts[i]
        BY <1>0, <2>1, Others
    <2>3. posts # <<>>
        OBVIOUS
    <2> QED
        BY <2>1, <2>2, <2>3 DEF HeardInv, Clean
<1>3. CASE (\E k \in DOMAIN posts : PostFails(k)) \/ (\E r \in polls : PollFails(r)) \/ ListFails
    <2>1. ~Clean' /\ UNCHANGED <<at, dialog>>
        BY <1>3 DEF PostFails, PollFails, ListFails, Clean
    <2> QED
        BY <2>1 DEF HeardInv
<1>4. CASE Load
    <2>1. /\ at = "closed" /\ at' = "open" /\ UNCHANGED <<dialog, slips>>
          /\ posts' = [k \in DOMAIN posts |-> [posts[k] EXCEPT !.heard = FALSE]]
        BY <1>4 DEF Load, Empty
    <2>2. Clean' => posts = <<>>
        BY <1>0, <2>1 DEF HeardInv
    <2> QED
        BY <2>1, <2>2 DEF HeardInv
<1>5. CASE Leave
    <2>1. /\ at' = "closed" /\ dialog' = None
          /\ posts' = [k \in DOMAIN posts |-> [posts[k] EXCEPT !.heard = FALSE]]
          /\ slips' = IF posts # <<>> THEN slips \cup {"unheard"} ELSE slips
        BY <1>5 DEF Leave, Empty
    <2>2. Clean' => posts' = <<>>
        <3>1. posts' \in Seq(Asked)
            BY PostTypes
        <3>2. Clean' => DOMAIN posts' = {}
            BY <2>1 DEF Clean
        <3> QED
            BY <3>1, <3>2
    <2> QED
        BY <2>1, <2>2 DEF HeardInv
<1>6. CASE Finish
    BY <1>6 DEF Finish, HeardInv
<1>7. CASE Run
    BY <1>0, <1>7, RequestHeard DEF Run, Clickable, HeardInv
<1>8. CASE Confirm
    BY <1>0, <1>8, RequestHeard DEF Confirm, HeardInv
<1>9. CASE Submit
    BY <1>9 DEF Submit, Clickable, HeardInv, Clean, console
<1>10. CASE (\E i \in DOMAIN executions : Start(i) \/ Judge(i)) \/ CloseAttempt \/ RestoreList
            \/ (\E k \in DOMAIN restoring : FetchDetail(k)) \/ (\E r \in polls : PollRead(r) \/ PollTold(r))
            \/ Dismiss \/ SwitchProblem \/ UNCHANGED vars
    <2>1. UNCHANGED <<at, posts, slips>> /\ dialog' \in {None, dialog}
        BY <1>10 DEF Start, Judge, CloseAttempt, RestoreList, FetchDetail, PollRead, PollTold, Dismiss, SwitchProblem,
                     vars, console
    <2> QED
        BY <2>1 DEF HeardInv, Clean
<1> QED
    BY <1>1, <1>2, <1>3, <1>4, <1>5, <1>6, <1>7, <1>8, <1>9, <1>10 DEF Next

HasNewest == \A p \in Problems : Ids(p) # {} => Latest(p) \in Ids(p) /\ \A i \in Ids(p) : i <= Latest(p)

LEMMA NewestGrows ==
    ASSUME TypeOK, NEW p, NewRow(p)
    PROVE  LET n == Len(executions) + 1 IN
           Latest(p)' = n /\ n \in Ids(p)' /\ \A i \in Ids(p)' : i <= n
<1> DEFINE n == Len(executions) + 1
<1>1. n \in Nat /\ Ids(p)' = Ids(p) \cup {n}
    BY IdsGrow DEF TypeOK
<1>2. \A i \in Ids(p) : i \in Nat /\ i < n
    BY DEF NewRow, Ids, TypeOK
<1> HIDE DEF n
<1>3. n \in Ids(p)' /\ \A i \in Ids(p)' : i \in Nat /\ i <= n
    BY <1>1, <1>2
<1>4. \A m \in Ids(p)' : (\A i \in Ids(p)' : i <= m) => m = n
    BY <1>1, <1>3
<1>5. Latest(p)' = CHOOSE m \in Ids(p)' : \A i \in Ids(p)' : i <= m
    BY <1>3 DEF Latest
<1> QED
    BY <1>3, <1>4, <1>5 DEF n

LEMMA HasNewestStep == ASSUME TypeOK, HasNewest, [Next]_vars PROVE HasNewest'
<1> SUFFICES ASSUME NEW p \in Problems, Ids(p)' # {}
             PROVE  Latest(p)' \in Ids(p)' /\ \A i \in Ids(p)' : i <= Latest(p)'
    BY DEF HasNewest
<1>1. CASE SameRows
    BY <1>1, IdsKept DEF HasNewest
<1>2. ASSUME NEW q, NewRow(q) PROVE Latest(p)' \in Ids(p)' /\ \A i \in Ids(p)' : i <= Latest(p)'
    <2>1. CASE p = q
        BY <1>2, <2>1, NewestGrows
    <2>2. CASE p # q
        BY <1>2, <2>2, IdsGrow DEF HasNewest
    <2> QED
        BY <2>1, <2>2
<1> QED
    BY <1>1, <1>2, RowSteps

\* When a request is served for a page that was never led astray, it is the only thing under way.
LEMMA ServeAlone ==
    ASSUME LockPart, HeardInv, Clean, NEW k \in DOMAIN posts
    PROVE  /\ DOMAIN restoring = {} /\ polls = {} /\ ~listing
           /\ at = "open" => \A j \in DOMAIN posts : j = k
<1>1. CASE at # "open"
    <2>1. ~OwnWork /\ ~Restoring
        BY <1>1 DEF LockPart, LockInv
    <2> QED
        BY <1>1, <2>1 DEF OwnWork, Restoring
<1>2. CASE at = "open"
    <2>1. \A j \in DOMAIN posts : j \in Heard
        BY <1>2 DEF HeardInv, Heard
    <2>2. OwnWork /\ "overlap" \notin slips
        BY <2>1, OwnWorkIs DEF Clean
    <2>3. ~Restoring /\ (\A i, j \in Heard : i = j) /\ Owned = {}
        BY <2>1, <2>2 DEF LockPart, AloneInv
    <2> QED
        BY <2>1, <2>3 DEF Restoring, Owned
<1> QED
    BY <1>1, <1>2

LEMMA NewestStays ==
    ASSUME SameRows, NEW i \in DOMAIN executions, Newest(i)
    PROVE  i \in DOMAIN executions' /\ Newest(i)'
BY DEF SameRows, Newest

LEMMA LatestIsNewest ==
    ASSUME HasNewest, NEW p \in Problems, Latest(p) # 0
    PROVE  Latest(p) \in DOMAIN executions /\ executions[Latest(p)].problem = p /\ Newest(Latest(p))
<1>1. Ids(p) # {}
    BY DEF Latest
<1>2. Latest(p) \in Ids(p) /\ \A i \in Ids(p) : i <= Latest(p)
    BY <1>1 DEF HasNewest
<1> QED
    BY <1>2 DEF Newest, Ids

LEMMA NewestIsLatest ==
    ASSUME TypeOK, HasNewest, NEW p \in Problems, NEW i \in Ids(p), Newest(i)
    PROVE  i = Latest(p) /\ Latest(p) # 0
<1>1. Latest(p) \in Ids(p) /\ i <= Latest(p) /\ Latest(p) <= i
    BY DEF HasNewest, Newest, Ids
<1>2. Ids(p) \subseteq Nat \ {0}
    BY DEF Ids, TypeOK
<1> QED
    BY <1>1, <1>2

LEMMA NewestIs == NewestInv <=>
    /\ HasNewest
    /\ Clean => /\ \A k \in DOMAIN restoring : Newest(restoring[k])
                /\ \A r \in polls : Newest(r.id)
                /\ at = "open" => \A k \in DOMAIN posts : posts[k].step = "answered" => Newest(posts[k].id)
BY DEF NewestInv, HasNewest

LEMMA OpenOrLoad == ASSUME [Next]_vars, at' = "open" PROVE at = "open" \/ Load
BY DEF Next, vars, store, console, Start, Judge, CloseAttempt, Serve, PostTold, PostFails, Leave, Finish, RestoreList, ListFails,
       FetchDetail, PollRead, PollTold, PollFails, Run, Submit, Confirm, Dismiss, SwitchProblem

\* Where the ids of the polls, the list and the answers come from, when the rows stay.
LEMMA IdsMove ==
    ASSUME TypeOK, LockPart, HeardInv, [Next]_vars, Clean', UNCHANGED executions
    PROVE  /\ \A r \in polls' : \/ \E q \in polls : q.id = r.id
                                \/ \E k \in DOMAIN restoring : restoring[k] = r.id
                                \/ at = "open" /\ \E k \in DOMAIN posts : posts[k].step = "answered" /\ posts[k].id = r.id
           /\ \A k \in DOMAIN restoring' :
                  \/ \E j \in DOMAIN restoring : restoring[j] = restoring'[k]
                  \/ \E p \in Problems : restoring'[k] = Latest(p) /\ Latest(p) # 0
           /\ at' = "open" => \A k \in DOMAIN posts' : posts'[k].step = "answered" =>
                                 at = "open" /\ \E j \in DOMAIN posts : posts[j].step = "answered" /\ posts[j].id = posts'[k].id
<1>0. posts \in Seq(Asked) /\ Clean
    BY SlipsGrow DEF TypeOK
<1>1. ASSUME NEW r \in polls'
      PROVE  \/ \E q \in polls : q.id = r.id
             \/ \E k \in DOMAIN restoring : restoring[k] = r.id
             \/ at = "open" /\ \E k \in DOMAIN posts : posts[k].step = "answered" /\ posts[k].id = r.id
    <2>1. ASSUME NEW q \in polls, PollRead(q) PROVE \E s \in polls : s.id = r.id
        <3>1. [q EXCEPT !.step = "answered", !.status = executions[q.id].status].id = q.id
            BY DEF TypeOK, Polled
        <3> QED
            BY <2>1, <3>1 DEF PollRead
    <2>2. ASSUME NEW q \in polls, PollTold(q) \/ PollFails(q) PROVE \E s \in polls : s.id = r.id
        BY <2>2 DEF PollTold, PollFails, Poll
    <2>3. ASSUME NEW k \in DOMAIN restoring, FetchDetail(k)
          PROVE  (\E s \in polls : s.id = r.id) \/ r.id = restoring[k]
        BY <2>3 DEF FetchDetail, Poll
    <2>4. ASSUME NEW k \in DOMAIN posts, PostTold(k), ~UNCHANGED polls
          PROVE  (\E s \in polls : s.id = r.id) \/ (at = "open" /\ posts[k].step = "answered" /\ r.id = posts[k].id)
        <3>1. /\ polls' = polls \cup {Poll(posts[k].id, "own")} /\ posts[k].step = "answered" /\ posts[k].heard
            BY <2>4 DEF PostTold
        <3>2. at = "open"
            BY <3>1 DEF LockPart, LockInv, OwnWork
        <3> QED
            BY <3>1, <3>2 DEF Poll
    <2> QED
        BY <2>1, <2>2, <2>3, <2>4, PollSteps
<1>2. ASSUME NEW k \in DOMAIN restoring'
      PROVE  \/ \E j \in DOMAIN restoring : restoring[j] = restoring'[k]
             \/ \E p \in Problems : restoring'[k] = Latest(p) /\ Latest(p) # 0
    <2>1. CASE RestoreList
        <3>1. k \in DOMAIN ProblemList /\ restoring'[k] = Latest(ProblemList[k]) /\ Latest(ProblemList[k]) # 0
            BY <2>1 DEF RestoreList
        <3>2. ProblemList[k] \in Problems
            BY <3>1 DEF Problems, ToSet
        <3> QED
            BY <3>1, <3>2
    <2>2. ASSUME NEW j \in DOMAIN restoring, FetchDetail(j)
          PROVE  \E i \in DOMAIN restoring : restoring[i] = restoring'[k]
        BY <2>2 DEF FetchDetail
    <2>3. CASE UNCHANGED restoring \/ restoring' = <<>>
        BY <2>3
    <2>4. ASSUME NEW r \in polls, PollRead(r) \/ PollTold(r) \/ PollFails(r) PROVE UNCHANGED restoring \/ restoring' = <<>>
        BY <2>4 DEF PollRead, PollTold, PollFails
    <2> QED
        BY <2>1, <2>2, <2>3, <2>4, PollSteps
<1>3. ASSUME at' = "open", NEW k \in DOMAIN posts', posts'[k].step = "answered"
      PROVE  at = "open" /\ \E j \in DOMAIN posts : posts[j].step = "answered" /\ posts[j].id = posts'[k].id
    <2>0. at = "open" \/ Load
        BY <1>3, OpenOrLoad
    <2>1. UNCHANGED posts => \E j \in DOMAIN posts : posts[j].step = "answered" /\ posts[j].id = posts'[k].id
        BY <1>3
    <2>2. ASSUME Load PROVE FALSE
        <3>1. posts = <<>>
            BY <1>0, <2>2 DEF Load, HeardInv
        <3>2. DOMAIN posts' = DOMAIN posts
            BY <2>2 DEF Load, Empty
        <3> QED
            BY <1>3, <3>1, <3>2
    <2>3. CASE Leave \/ Finish
        BY <1>3, <2>3 DEF Leave, Finish
    <2>4. ASSUME NEW j \in DOMAIN posts, Serve(j)
          PROVE  \E i \in DOMAIN posts : posts[i].step = "answered" /\ posts[i].id = posts'[k].id
        <3>1. posts' = [posts EXCEPT ![j].step = "refused"]
            <4>1. Append(executions, Execution(posts[j].problem,
                              IF posts[j].kind = "report" THEN "submit" ELSE posts[j].kind)) # executions
                <5> DEFINE e == Execution(posts[j].problem, IF posts[j].kind = "report" THEN "submit" ELSE posts[j].kind)
                <5>1. Len(executions) \in Nat /\ Len(Append(executions, e)) = Len(executions) + 1
                    BY DEF TypeOK
                <5> HIDE DEF e
                <5>2. Append(executions, e) # executions
                    BY <5>1
                <5> QED
                    BY <5>2 DEF e
            <4> QED
                BY <2>4, <4>1 DEF Serve
        <3>2. DOMAIN posts' = DOMAIN posts /\ \A i \in DOMAIN posts : i # j => posts'[i] = posts[i]
            BY <3>1
        <3>3. posts[j] \in Asked
            BY <1>0
        <3> DEFINE d == [posts[j] EXCEPT !.step = "refused"]
        <3>4. posts'[j] = d
            BY <3>1
        <3>6. d.step = "refused"
            BY <3>3, Copies
        <3> HIDE DEF d
        <3>5. posts'[j].step = "refused"
            BY <3>4, <3>6
        <3> QED
            BY <1>3, <3>2, <3>5
    <2>5. ASSUME NEW j \in DOMAIN posts, PostTold(j)
          PROVE  \E i \in DOMAIN posts : posts[i].step = "answered" /\ posts[i].id = posts'[k].id
        <3>1. posts' = RemoveAt(posts, j)
            BY <2>5 DEF PostTold
        <3>2. \E i \in DOMAIN posts : posts'[k] = posts[i]
            BY <1>0, <1>3, <3>1, Others
        <3> QED
            BY <1>3, <3>2
    <2>6. ASSUME NEW j \in DOMAIN posts, PostFails(j) PROVE FALSE
        BY <2>6 DEF PostFails, Clean
    <2>7. ASSUME NEW p, NEW kind, Request(p, kind)
          PROVE  \E i \in DOMAIN posts : posts[i].step = "answered" /\ posts[i].id = posts'[k].id
        <3>1. posts' = Append(posts, Post(p, kind)) /\ Post(p, kind).step = "sent"
            BY <2>7 DEF Request, Post
        <3>2. DOMAIN posts' = DOMAIN posts \cup {Len(posts) + 1} /\ posts'[Len(posts) + 1] = Post(p, kind)
              /\ \A i \in DOMAIN posts : posts'[i] = posts[i]
            BY <1>0, <3>1
        <3> QED
            BY <1>3, <3>1, <3>2
    <2> QED
        BY <2>0, <2>1, <2>2, <2>3, <2>4, <2>5, <2>6, <2>7, PostSteps DEF Run, Confirm
<1> QED
    BY <1>1, <1>2, <1>3

\* The rows change only by a status, or by the service of one request.
LEMMA RowCases ==
    ASSUME TypeOK, [Next]_vars
    PROVE  \/ UNCHANGED executions
           \/ SameRows /\ UNCHANGED <<open, at, shown, posts, polls, listing, restoring, slips>>
           \/ \E k \in DOMAIN posts :
                  /\ Serve(k) /\ posts[k].problem \in Problems /\ NewRow(posts[k].problem)
                  /\ posts' = [posts EXCEPT ![k].step = "answered", ![k].id = Len(executions) + 1]
<1>1. ASSUME NEW i \in DOMAIN executions, Start(i) \/ Judge(i)
      PROVE  SameRows /\ UNCHANGED <<open, at, shown, posts, polls, listing, restoring, slips>>
    BY <1>1, RowsAdvance DEF Start, Judge, console
<1>2. ASSUME NEW k \in DOMAIN posts, Serve(k), ~UNCHANGED executions
      PROVE  /\ posts[k].problem \in Problems /\ NewRow(posts[k].problem)
             /\ posts' = [posts EXCEPT ![k].step = "answered", ![k].id = Len(executions) + 1]
    BY <1>2, ServedRow
<1>3. CASE CloseAttempt \/ (\E k \in DOMAIN posts : PostTold(k) \/ PostFails(k))
           \/ Load \/ Leave \/ Finish \/ RestoreList \/ ListFails \/ (\E k \in DOMAIN restoring : FetchDetail(k))
           \/ (\E r \in polls : PollRead(r) \/ PollTold(r) \/ PollFails(r))
           \/ Run \/ Submit \/ Confirm \/ Dismiss \/ SwitchProblem \/ UNCHANGED vars
    BY <1>3 DEF CloseAttempt, PostTold, PostFails, Load, Leave, Finish, RestoreList, ListFails, FetchDetail, PollRead, PollTold,
                PollFails, Run, Submit, Confirm, Dismiss, SwitchProblem, store, vars
<1> QED
    BY <1>1, <1>2, <1>3 DEF Next

LEMMA NewestStep ==
    ASSUME TypeOK, LockPart, HeardInv, NewestInv, [Next]_vars
    PROVE  NewestInv'
<1> DEFINE Cut(i) == \A j \in DOMAIN executions' : executions'[j].problem = executions'[i].problem => j <= i
<1>0. HasNewest /\ HasNewest'
    BY NewestIs, HasNewestStep
<1> SUFFICES ASSUME Clean'
             PROVE  /\ \A k \in DOMAIN restoring' : Cut(restoring'[k])
                    /\ \A r \in polls' : Cut(r.id)
                    /\ at' = "open" => \A k \in DOMAIN posts' : posts'[k].step = "answered" => Cut(posts'[k].id)
    BY <1>0 DEF NewestInv, HasNewest, Newest
<1>1. /\ Clean /\ \A k \in DOMAIN restoring : Newest(restoring[k])
      /\ \A r \in polls : Newest(r.id)
      /\ at = "open" => \A k \in DOMAIN posts : posts[k].step = "answered" => Newest(posts[k].id)
    BY SlipsGrow DEF NewestInv
<1>2. CASE UNCHANGED executions
    <2>1. \A i : Newest(i) => Cut(i)
        BY <1>2 DEF Newest
    <2>2. \A p \in Problems : Latest(p) # 0 => Newest(Latest(p))
        BY <1>0, LatestIsNewest
    <2> HIDE DEF Cut
    <2> QED
        BY <1>1, <1>2, <2>1, <2>2, IdsMove
<1>3. CASE SameRows /\ UNCHANGED <<open, at, shown, posts, polls, listing, restoring, slips>>
    <2>1. \A i \in DOMAIN executions : Newest(i) => Cut(i)
        BY <1>3 DEF SameRows, Newest
    <2>2. /\ \A k \in DOMAIN restoring : restoring[k] \in DOMAIN executions
          /\ \A r \in polls : r.id \in DOMAIN executions
          /\ \A k \in DOMAIN posts : posts[k].step = "answered" => posts[k].id \in DOMAIN executions
        BY DEF TypeOK, Polled
    <2> HIDE DEF Cut
    <2> QED
        BY <1>1, <1>3, <2>1, <2>2
<1>4. ASSUME NEW k \in DOMAIN posts, Serve(k), posts[k].problem \in Problems, NewRow(posts[k].problem),
             posts' = [posts EXCEPT ![k].step = "answered", ![k].id = Len(executions) + 1]
      PROVE  /\ DOMAIN restoring' = {} /\ polls' = {}
             /\ at' = "open" => \A j \in DOMAIN posts' : Cut(posts'[j].id)
    <2>1. /\ DOMAIN restoring = {} /\ polls = {} /\ UNCHANGED <<restoring, polls, at>>
          /\ at = "open" => \A j \in DOMAIN posts : j = k
        BY <1>1, <1>4, ServeAlone DEF Serve
    <2>2. posts \in Seq(Asked) /\ Len(executions) + 1 \in Nat
        BY DEF TypeOK
    <2>3. posts[k] \in Asked
        BY <2>2
    <2> DEFINE d == [posts[k] EXCEPT !.step = "answered", !.id = Len(executions) + 1]
    <2>4. DOMAIN posts' = DOMAIN posts /\ posts'[k] = d
        BY <1>4
    <2>5. d.id = Len(executions) + 1
        BY <2>3 DEF Asked
    <2> HIDE DEF d
    <2>6. Cut(Len(executions) + 1)
        <3>1. \A j \in DOMAIN executions : j < Len(executions) + 1
            BY <1>4 DEF NewRow
        <3>2. \A j \in DOMAIN executions' : j \in DOMAIN executions \/ j = Len(executions) + 1
            BY <1>4 DEF NewRow
        <3>3. \A j \in DOMAIN executions : j \in Nat
            BY DEF TypeOK
        <3> QED
            BY <2>2, <3>1, <3>2, <3>3
    <2> HIDE DEF Cut
    <2> QED
        BY <2>1, <2>4, <2>5, <2>6
<1> QED
    BY <1>2, <1>3, <1>4, RowCases

----------------------------------------------------------------------------
(* The consoles *)

Shows(p, i) == shown[p].id = i /\ ~Unfinished(shown[p].status)

\* A step of an open page that was never led astray, while the newest execution of p is m.
Steady(p, m) ==
    /\ at = "open" /\ at' = "open" /\ Clean'
    /\ UNCHANGED executions
    /\ m \in Ids(p) /\ Newest(m)
    /\ m = Latest(p)

\* The list that is read has the newest execution of every problem.
LEMMA FromList ==
    ASSUME NEW p \in Problems, NEW m, Steady(p, m), m # 0, RestoreList
    PROVE  OnItsWay(m)'
<1>1. PICK k \in DOMAIN ProblemList : ProblemList[k] = p
    BY DEF Problems, ToSet
<1>2. k \in DOMAIN restoring' /\ restoring'[k] = m
    BY <1>1 DEF RestoreList, Steady
<1> QED
    BY <1>2 DEF OnItsWay

LEMMA TrackListing ==
    ASSUME [Next]_vars, NEW p \in Problems, NEW m, Steady(p, m), m # 0, listing
    PROVE  OnItsWay(m)'
<1>1. CASE UNCHANGED listing
    BY <1>1 DEF OnItsWay
<1>2. CASE RestoreList
    BY <1>2, FromList
<1>3. ~Leave /\ ~Finish /\ ~ListFails
    BY DEF Steady, Leave, Finish, ListFails, Clean
<1>4. Load => listing'
    BY DEF Load
<1> QED
    BY <1>1, <1>2, <1>3, <1>4
    DEF Next, vars, store, console, Start, Judge, CloseAttempt, Serve, PostTold, PostFails, FetchDetail, PollRead,
        PollTold, PollFails, Run, Submit, Confirm, Dismiss, SwitchProblem, OnItsWay

LEMMA TrackRestoring ==
    ASSUME [Next]_vars, NEW p \in Problems, NEW m, Steady(p, m), m # 0,
           NEW k \in DOMAIN restoring, restoring[k] = m
    PROVE  OnItsWay(m)'
<1>1. CASE UNCHANGED restoring
    BY <1>1 DEF OnItsWay
<1>2. CASE RestoreList
    BY <1>2, FromList
<1>3. ASSUME NEW j \in DOMAIN restoring, FetchDetail(j) PROVE OnItsWay(m)'
    <2>1. CASE j = k
        <3>1. Poll(m, "detail") \in polls' /\ Poll(m, "detail").id = m
            BY <1>3, <2>1 DEF FetchDetail, Poll
        <3> QED
            BY <3>1 DEF OnItsWay
    <2>2. CASE j # k
        <3>1. k \in DOMAIN restoring' /\ restoring'[k] = m
            BY <1>3, <2>2 DEF FetchDetail
        <3> QED
            BY <3>1 DEF OnItsWay
    <2> QED
        BY <2>1, <2>2
<1>4. ASSUME NEW r \in polls PROVE ~PollFails(r)
    BY DEF PollFails, Steady, Clean
<1>5. ~Load /\ ~Leave /\ ~Finish /\ ~ListFails
    BY DEF Steady, Load, Leave, Finish, ListFails, Clean
<1> QED
    BY <1>1, <1>2, <1>3, <1>4, <1>5
    DEF Next, vars, store, console, Start, Judge, CloseAttempt, Serve, PostTold, PostFails, PollRead, PollTold,
        Run, Submit, Confirm, Dismiss, SwitchProblem

\* An answer about execution r.id puts it on the console, or the poll goes on.
LEMMA ToldShows ==
    ASSUME TypeOK, NEW p \in Problems, NEW r \in polls, r.id \in Ids(p), PollTold(r)
    PROVE  OnItsWay(r.id)' \/ Shows(p, r.id)'
<1>1. executions[r.id].problem = p
    BY DEF Ids
<1>2. shown' = [shown EXCEPT ![p] = View(r.id, r.status)]
    BY <1>1 DEF PollTold
<1>3. shown'[p] = View(r.id, r.status)
    BY <1>2 DEF TypeOK
<1>4. CASE Unfinished(r.status)
    <2> DEFINE q == Poll(r.id, IF r.origin = "detail" THEN "resumed" ELSE r.origin)
    <2>1. q \in polls' /\ q.id = r.id
        BY <1>4 DEF PollTold, Poll
    <2> HIDE DEF q
    <2> QED
        BY <2>1 DEF OnItsWay
<1>5. CASE ~Unfinished(r.status)
    BY <1>3, <1>5 DEF Shows, View, Unfinished
<1> QED
    BY <1>4, <1>5

LEMMA TrackPoll ==
    ASSUME TypeOK, [Next]_vars, NEW p \in Problems, NEW m, Steady(p, m), NEW r \in polls, r.id = m
    PROVE  OnItsWay(m)' \/ Shows(p, m)'
<1>1. CASE r \in polls'
    BY <1>1 DEF OnItsWay
<1>2. CASE PollTold(r)
    BY <1>2, ToldShows DEF Steady
<1>3. CASE PollRead(r)
    <2> DEFINE q == [r EXCEPT !.step = "answered", !.status = executions[r.id].status]
    <2>1. q \in polls' /\ q.id = m
        BY <1>3 DEF PollRead, TypeOK, Polled
    <2> HIDE DEF q
    <2> QED
        BY <2>1 DEF OnItsWay
<1>4. ASSUME NEW q \in polls PROVE ~PollFails(q)
    BY DEF PollFails, Steady, Clean
<1>5. ~Load /\ ~Leave /\ ~Finish
    BY DEF Steady, Load, Leave, Finish
<1>6. ASSUME NEW q \in polls, q # r, PollRead(q) \/ PollTold(q) PROVE r \in polls'
    BY <1>6 DEF PollRead, PollTold
<1> QED
    BY <1>1, <1>2, <1>3, <1>4, <1>5, <1>6
    DEF Next, vars, store, console, Start, Judge, CloseAttempt, Serve, PostTold, PostFails, RestoreList, ListFails, FetchDetail,
        Run, Submit, Confirm, Dismiss, SwitchProblem

\* The answer to the page's own request puts the execution on the console, waited for or finished.
LEMMA AnswerShows ==
    ASSUME TypeOK, NEW p \in Problems, NEW m, NEW k \in DOMAIN posts, PostTold(k), posts[k].heard,
           posts[k].step = "answered", posts[k].problem = p, posts[k].id = m
    PROVE  OnItsWay(m)' \/ Shows(p, m)'
<1>1. CASE p \in Reports
    <2>1. shown' = [shown EXCEPT ![p] = View(m, "done")]
        BY <1>1 DEF PostTold
    <2>2. shown'[p] = View(m, "done")
        BY <2>1 DEF TypeOK
    <2> QED
        BY <2>2 DEF Shows, View, Unfinished
<1>2. CASE p \notin Reports
    <2>1. Poll(m, "own") \in polls' /\ Poll(m, "own").id = m
        BY <1>2 DEF PostTold, Poll
    <2> QED
        BY <2>1 DEF OnItsWay
<1> QED
    BY <1>1, <1>2

LEMMA TrackAnswer ==
    ASSUME TypeOK, HeardInv, [Next]_vars, NEW p \in Problems, NEW m, Steady(p, m),
           NEW k \in DOMAIN posts, posts[k].step = "answered", posts[k].id = m
    PROVE  OnItsWay(m)' \/ Shows(p, m)'
<1>0. posts \in Seq(Asked) /\ posts[k].heard /\ posts[k].problem = p
    BY SlipsGrow DEF Steady, HeardInv, TypeOK, Ids
<1>1. ASSUME NEW j \in DOMAIN posts', posts'[j].step = "answered", posts'[j].id = m PROVE OnItsWay(m)'
    BY <1>1 DEF OnItsWay
<1>2. CASE UNCHANGED posts
    BY <1>1, <1>2
<1>3. ~Load /\ ~Leave /\ ~Finish
    BY DEF Steady, Load, Leave, Finish
<1>4. ASSUME NEW j \in DOMAIN posts, Serve(j) PROVE OnItsWay(m)'
    <2>1. j # k
        BY <1>4 DEF Serve
    <2>2. k \in DOMAIN posts' /\ posts'[k] = posts[k]
        BY <1>4, <2>1 DEF Serve
    <2> QED
        BY <1>1, <2>2
<1>5. ASSUME NEW j \in DOMAIN posts PROVE ~PostFails(j)
    BY DEF PostFails, Steady, Clean
<1>6. CASE PostTold(k)
    BY <1>0, <1>6, AnswerShows
<1>7. ASSUME NEW j \in DOMAIN posts, j # k, PostTold(j) PROVE OnItsWay(m)'
    <2>1. posts' = RemoveAt(posts, j)
        BY <1>7 DEF PostTold
    <2>2. \E i \in DOMAIN posts' : posts'[i] = posts[k]
        BY <1>0, <1>7, <2>1, Others
    <2> QED
        BY <1>1, <2>2
<1>8. ASSUME NEW q, NEW kind, Request(q, kind) PROVE OnItsWay(m)'
    <2>1. posts' = Append(posts, Post(q, kind))
        BY <1>8 DEF Request
    <2>2. k \in DOMAIN posts' /\ posts'[k] = posts[k]
        BY <1>0, <2>1
    <2> QED
        BY <1>1, <2>2
<1> QED
    BY <1>2, <1>3, <1>4, <1>5, <1>6, <1>7, <1>8, PostSteps DEF Run, Confirm

LEMMA TrackShown ==
    ASSUME TypeOK, LockPart, HeardInv, NewestInv, [Next]_vars, NEW p \in Problems, NEW m, Steady(p, m), Shows(p, m)
    PROVE  OnItsWay(m)' \/ Shows(p, m)'
<1>0. HasNewest /\ Clean
    BY NewestIs, SlipsGrow DEF Steady
<1>1. CASE shown'[p] = shown[p]
    BY <1>1 DEF Shows, Unfinished
<1>2. ASSUME NEW r \in polls, PollTold(r) PROVE OnItsWay(m)' \/ Shows(p, m)'
    <2>1. CASE executions[r.id].problem = p
        <3>1. r.id \in Ids(p) /\ Newest(r.id)
            BY <1>0, <2>1 DEF Ids, TypeOK, Polled, NewestInv
        <3>2. r.id = m
            BY <1>0, <3>1, NewestIsLatest DEF Steady
        <3> QED
            BY <1>2, <3>1, <3>2, ToldShows
    <2>2. CASE executions[r.id].problem # p
        <3>1. shown'[p] = shown[p]
            BY <1>2, <2>2 DEF PollTold, TypeOK
        <3> QED
            BY <1>1, <3>1
    <2> QED
        BY <2>1, <2>2
<1>3. ASSUME NEW k \in DOMAIN posts, PostTold(k) PROVE OnItsWay(m)' \/ Shows(p, m)'
    <2>1. CASE posts[k].heard /\ posts[k].step = "answered" /\ posts[k].problem = p
        <3>1. posts[k].id \in Ids(p) /\ Newest(posts[k].id)
            BY <1>0, <2>1 DEF Ids, TypeOK, NewestInv, Steady
        <3>2. posts[k].id = m
            BY <1>0, <3>1, NewestIsLatest DEF Steady
        <3> QED
            BY <1>3, <2>1, <3>2, AnswerShows
    <2>2. CASE ~(posts[k].heard /\ posts[k].step = "answered" /\ posts[k].problem = p)
        <3>1. shown'[p] = shown[p]
            BY <1>3, <2>2 DEF PostTold, TypeOK
        <3> QED
            BY <1>1, <3>1
    <2> QED
        BY <2>1, <2>2
<1>4. ~Load /\ ~Leave /\ ~Finish
    BY DEF Steady, Load, Leave, Finish
<1> QED
    BY <1>1, <1>2, <1>3, <1>4
    DEF Next, vars, store, console, Start, Judge, CloseAttempt, Serve, PostFails, RestoreList, ListFails, FetchDetail, PollRead,
        PollFails, Run, Submit, Confirm, Dismiss, SwitchProblem

LEMMA TrackIs == TrackInv <=>
    (Clean /\ at = "open" =>
        \A p \in Problems : Latest(p) # 0 => OnItsWay(Latest(p)) \/ Shows(p, Latest(p)))
BY DEF TrackInv, Shows

LEMMA TrackStep ==
    ASSUME TypeOK, LockPart, HeardInv, NewestInv, TrackInv, [Next]_vars
    PROVE  TrackInv'
<1> DEFINE Way(i) == \/ listing'
                     \/ \E k \in DOMAIN restoring' : restoring'[k] = i
                     \/ \E r \in polls' : r.id = i
                     \/ \E k \in DOMAIN posts' : posts'[k].step = "answered" /\ posts'[k].id = i
           Seen(p, i) == shown'[p].id = i /\ ~(shown'[p].status \in {"queued", "running"})
<1> SUFFICES ASSUME Clean', at' = "open", NEW p \in Problems, Latest(p)' # 0
             PROVE  Way(Latest(p)') \/ Seen(p, Latest(p)')
    BY DEF TrackInv, OnItsWay, Unfinished
<1>0. Clean /\ HasNewest
    BY SlipsGrow, NewestIs
<1>1. CASE Load
    BY <1>1 DEF Load
<1>2. CASE at = "open" /\ ~Load
    <2>0. Latest(p) # 0 => OnItsWay(Latest(p)) \/ Shows(p, Latest(p))
        BY <1>0, <1>2, TrackIs
    <2>1. CASE UNCHANGED executions
        <3> PICK m : m = Latest(p)
            OBVIOUS
        <3>1. Latest(p)' = m
            BY <2>1 DEF Latest, Ids
        <3>2. m # 0 /\ m \in DOMAIN executions /\ executions[m].problem = p /\ Newest(m)
            BY <1>0, <3>1, LatestIsNewest
        <3>3. Steady(p, m)
            BY <1>2, <2>1, <3>2 DEF Steady, Ids
        <3>4. OnItsWay(m) \/ Shows(p, m)
            BY <2>0, <3>2
        <3>5. OnItsWay(m)' \/ Shows(p, m)'
            BY <3>2, <3>3, <3>4, TrackListing, TrackRestoring, TrackPoll, TrackAnswer, TrackShown DEF OnItsWay
        <3> QED
            BY <3>1, <3>5 DEF OnItsWay, Shows, Unfinished
    <2>2. CASE SameRows /\ UNCHANGED <<open, at, shown, posts, polls, listing, restoring, slips>>
        <3>1. Latest(p)' = Latest(p)
            BY <2>2, IdsKept
        <3> QED
            BY <2>0, <2>2, <3>1 DEF OnItsWay, Shows, Unfinished
    <2>3. ASSUME NEW k \in DOMAIN posts, Serve(k), posts[k].problem \in Problems, NewRow(posts[k].problem),
                 posts' = [posts EXCEPT ![k].step = "answered", ![k].id = Len(executions) + 1]
          PROVE  Way(Latest(p)') \/ Seen(p, Latest(p)')
        <3>1. /\ DOMAIN restoring = {} /\ polls = {} /\ ~listing /\ \A j \in DOMAIN posts : j = k
              /\ posts[k].step = "sent" /\ UNCHANGED shown
            BY <1>0, <1>2, <2>3, ServeAlone DEF Serve
        <3>2. CASE posts[k].problem = p
            <4>1. Latest(p)' = Len(executions) + 1
                BY <2>3, <3>2, NewestGrows
            <4>2. posts[k] \in Asked
                BY DEF TypeOK
            <4> DEFINE d == [posts[k] EXCEPT !.step = "answered", !.id = Len(executions) + 1]
            <4>3. k \in DOMAIN posts' /\ posts'[k] = d
                BY <2>3
            <4>4. d.step = "answered" /\ d.id = Len(executions) + 1
                BY <4>2 DEF Asked
            <4> HIDE DEF d
            <4> QED
                BY <4>1, <4>3, <4>4
        <3>3. CASE posts[k].problem # p
            <4>1. Latest(p)' = Latest(p)
                BY <2>3, <3>3, IdsGrow
            <4>2. Shows(p, Latest(p))
                BY <2>0, <3>1, <4>1 DEF OnItsWay
            <4> QED
                BY <3>1, <4>1, <4>2 DEF Shows, Unfinished
        <3> QED
            BY <3>2, <3>3
    <2> HIDE DEF Way, Seen
    <2> QED
        BY <2>1, <2>2, <2>3, RowCases
<1> QED
    BY <1>1, <1>2, OpenOrLoad

----------------------------------------------------------------------------
(* The theorems *)

LEMMA RoomStart == Init => RoomInv
<1> SUFFICES ASSUME Init PROVE RoomInv
    OBVIOUS
<1>1. DOMAIN executions = {} /\ DOMAIN posts = {} /\ DOMAIN restoring = {} /\ polls = {}
    BY DEF Init
<1>2. \A p : Ids(p) = {} /\ Latest(p) = 0
    BY <1>1 DEF Ids, Latest
<1>3. TypeOK
    <2>1. shown \in [Problems -> [id : Nat, status : Statuses \cup {"none"}]] /\ \A p \in Problems : shown[p].id = 0
        BY DEF Init, NoView, View
    <2>2. executions \in Seq(Row) /\ posts \in Seq(Asked)
        BY DEF Init
    <2>3. restoring \in [DOMAIN restoring -> DOMAIN executions]
        BY <1>1 DEF Init
    <2> QED
        BY <1>1, <2>1, <2>2, <2>3, First DEF Init, TypeOK
<1>4. LockInv /\ AloneInv /\ HeardInv
    BY <1>1 DEF Init, LockInv, AloneInv, HeardInv, OwnWork, Restoring, Heard, Owned
<1>5. NewestInv /\ TrackInv
    BY <1>1, <1>2 DEF Init, NewestInv, TrackInv
<1> QED
    BY <1>3, <1>4, <1>5 DEF RoomInv

\* What is known of the exam page's executions, whatever it is led astray by: the types, the lock, and where the
\* newest execution of every problem is.
THEOREM RoomKept == Spec => []RoomInv
<1>1. RoomInv /\ [Next]_vars => RoomInv'
    BY TypeStep, LockStep, HeardStep, NewestStep, TrackStep DEF RoomInv, LockPart
<1> QED
    BY <1>1, RoomStart, PTL DEF Spec

LEMMA RoomMoves == [PagesNext]_pagesVars => [Next]_vars
BY DEF PagesNext, pagesVars, vars

\* In the composition the exam page starts and moves as on its own.
LEMMA RoomStands == PagesSpec => []RoomInv
<1>1. PagesInit => Init
    BY DEF PagesInit
<1> QED
    BY <1>1, RoomMoves, RoomKept, PTL DEF PagesSpec, Spec

\* The page is locked exactly while it waits for what it has asked for, unless that was asked for during a
\* restoration: execute, submitReport and poll set and clear busy on every path.
THEOREM LockExact == PagesSpec => []BusyMeansWork
<1>1. RoomInv => BusyMeansWork
    BY DEF RoomInv, LockInv, AloneInv, BusyMeansWork
<1> QED
    BY <1>1, RoomStands, PTL

\* At rest the console of every problem shows the verdict of its newest execution, whatever polls, reloads and
\* refusals came before, unless the page was led astray.
THEOREM ConsoleNewest == PagesSpec => []ConsoleShowsNewest
<1>1. ASSUME RoomInv, Settled, Clean, NEW p \in Problems
      PROVE  shown[p].id = Latest(p) /\ (Latest(p) # 0 => Console(p) = "verdict")
    <2>1. CASE Latest(p) = 0
        <3>1. HasNewest /\ TypeOK
            BY <1>1, NewestIs DEF RoomInv
        <3>3. 0 \notin Ids(p)
            BY <3>1 DEF Ids, TypeOK
        <3>2. Ids(p) = {}
            BY <2>1, <3>1, <3>3 DEF HasNewest
        <3> QED
            BY <2>1, <3>1, <3>2 DEF TypeOK
    <2>2. CASE Latest(p) # 0
        <3>1. ~OnItsWay(Latest(p))
            BY <1>1 DEF Settled, OnItsWay
        <3>2. shown[p].id = Latest(p) /\ ~Unfinished(shown[p].status)
            BY <1>1, <2>2, <3>1 DEF RoomInv, TrackInv, Settled
        <3> QED
            BY <2>2, <3>2 DEF Console
    <2> QED
        BY <2>1, <2>2
<1>2. RoomInv => ConsoleShowsNewest
    BY <1>1 DEF ConsoleShowsNewest, Clean
<1> QED
    BY <1>2, RoomStands, PTL
----------------------------------------------------------------------------
(* The closing dialog *)

\* bestSubmit finds a submission where there is one.
LEMMA BestFound ==
    ASSUME NEW rs \in Seq(End!Execution), NEW p
    PROVE  IF End!Submissions(rs, p) = {} THEN End!Best(rs, p) = End!Missing
           ELSE \E i \in End!Submissions(rs, p) : End!Best(rs, p) = [id |-> i, status |-> rs[i].status]
<1> DEFINE subs == End!Submissions(rs, p)
           Score(i) == End!ScoreOf(rs[i])
           Beats(i, j) == Score(i) > Score(j) \/ (Score(i) = Score(j) /\ i <= j)
           Of(n) == {i \in subs : Score(i) = n}
<1>1. subs \subseteq DOMAIN rs /\ subs \in SUBSET Nat
    BY DEF End!Submissions
<1>2. \A i \in subs : Score(i) \in {-1, 0, 1}
    <2> SUFFICES ASSUME NEW i \in subs PROVE Score(i) \in {-1, 0, 1}
        OBVIOUS
    <2>1. rs[i] \in End!Execution
        BY <1>1
    <2>2. rs[i].score \in {None, 0, 1}
        BY <2>1 DEF End!Execution
    <2> QED
        BY <2>2 DEF End!ScoreOf
<1>3. subs # {} => \E i \in subs : \A j \in subs : Beats(i, j)
    <2> SUFFICES ASSUME subs # {} PROVE \E i \in subs : \A j \in subs : Beats(i, j)
        OBVIOUS
    <2> HIDE DEF Score, subs
    <2>1. CASE Of(1) # {}
        <3>1. PICK i \in Of(1) : \A j \in Of(1) : i <= j
            BY <1>1, <2>1, Least
        <3>2. i \in subs /\ Score(i) = 1 /\ i \in Nat
            BY <1>1, <3>1
        <3>3. ASSUME NEW j \in subs PROVE Beats(i, j)
            <4>1. Score(j) \in {-1, 0, 1} /\ (Score(j) = 1 => j \in Of(1))
                BY <1>2
            <4> QED
                BY <3>1, <3>2, <4>1
        <3> QED
            BY <3>2, <3>3
    <2>2. CASE Of(1) = {} /\ Of(0) # {}
        <3>1. PICK i \in Of(0) : \A j \in Of(0) : i <= j
            BY <1>1, <2>2, Least
        <3>2. i \in subs /\ Score(i) = 0 /\ i \in Nat
            BY <1>1, <3>1
        <3>3. ASSUME NEW j \in subs PROVE Beats(i, j)
            <4>1. Score(j) \in {-1, 0, 1} /\ (Score(j) = 0 => j \in Of(0))
                BY <1>2
            <4> QED
                BY <2>2, <3>1, <3>2, <4>1
        <3> QED
            BY <3>2, <3>3
    <2>3. CASE Of(1) = {} /\ Of(0) = {}
        <3>1. PICK i \in Of(-1) : \A j \in Of(-1) : i <= j
            BY <1>1, <1>2, <2>3, Least
        <3> QED
            BY <1>1, <1>2, <2>3, <3>1
    <2> QED
        BY <2>1, <2>2, <2>3
<1>4. CASE subs = {}
    BY <1>4 DEF End!Best
<1>5. CASE subs # {}
    <2> DEFINE best == CHOOSE i \in subs : \A j \in subs : Beats(i, j)
    <2>1. best \in subs
        BY <1>3, <1>5
    <2>2. End!Best(rs, p) = [id |-> best, status |-> rs[best].status]
        BY <1>5 DEF End!Best
    <2> HIDE DEF best
    <2> QED
        BY <1>5, <2>1, <2>2
<1> QED
    BY <1>4, <1>5

LEMMA AnswerOf == ASSUME NEW rs \in Seq(End!Execution) PROVE End!bestSubmit(rs) \in End!Answer
<1> SUFFICES ASSUME NEW p \in End!Problems
             PROVE  End!Best(rs, p) \in [id : Nat, status : {"none", "pending", "done", "error"}]
  BY DEF End!bestSubmit, End!Answer
<1>1. CASE End!Submissions(rs, p) = {}
  BY <1>1, BestFound DEF End!Missing
<1>2. CASE End!Submissions(rs, p) # {}
  <2>1. PICK i \in End!Submissions(rs, p) : End!Best(rs, p) = [id |-> i, status |-> rs[i].status]
    BY <1>2, BestFound
  <2>2. i \in DOMAIN rs /\ i \in Nat /\ rs[i] \in End!Execution
    BY <2>1 DEF End!Submissions
  <2> QED
    BY <2>1, <2>2 DEF End!Execution
<1> QED
  BY <1>1, <1>2

\* Of an empty list.
LEMMA NothingThere == /\ End!bestSubmit(<<>>) \in End!Answer
                      /\ \A p \in End!Problems : End!bestSubmit(<<>>)[p].id = 0
<1>1. <<>> \in Seq(End!Execution)
  OBVIOUS
<1>2. ASSUME NEW p \in End!Problems PROVE End!bestSubmit(<<>>)[p].id = 0
  <2>1. End!Submissions(<<>>, p) = {}
    BY DEF End!Submissions
  <2>2. End!Best(<<>>, p) = End!Missing
    BY <1>1, <2>1, BestFound
  <2> QED
    BY <2>2 DEF End!bestSubmit, End!Missing
<1> QED
  BY <1>1, <1>2, AnswerOf

LEMMA EndRemoves == ASSUME NEW s, NEW i PROVE End!RemoveAt(s, i) = RemoveAt(s, i)
BY DEF End!RemoveAt, RemoveAt

LEMMA EndInit == End!Init => End!EndInv
<1> SUFFICES ASSUME End!Init PROVE End!EndInv
  OBVIOUS
<1>1. End!TypeOK
  BY DEF End!Init, End!TypeOK
<1>2. End!ScoreInv /\ End!ListInv /\ End!ToldInv
  BY DEF End!Init, End!ScoreInv, End!ListInv, End!ToldInv
<1> QED
  BY <1>1, <1>2 DEF End!EndInv

\* The list read now is right about every opening so far.
LEMMA ReadNow == End!TypeOK /\ End!ScoreInv => End!Right(End!bestSubmit(listed), FALSE)
<1> SUFFICES ASSUME End!TypeOK, End!ScoreInv, NEW p \in End!Problems
             PROVE  LET best == End!bestSubmit(listed) IN
                    IF best[p].id = 0
                    THEN \A i \in DOMAIN listed : listed[i].problem = p /\ listed[i].kind = "submit" => i > opened
                    ELSE /\ best[p].id \in DOMAIN listed
                         /\ listed[best[p].id].problem = p /\ listed[best[p].id].kind = "submit"
                         /\ p \in Coded /\ best[p].status = "done" => listed[best[p].id].score # None
  BY DEF End!Right
<1>0. listed \in Seq(End!Execution) /\ End!bestSubmit(listed)[p] = End!Best(listed, p)
  BY DEF End!TypeOK, End!bestSubmit
<1>1. CASE End!Submissions(listed, p) = {}
  <2>1. End!Best(listed, p).id = 0
    BY <1>0, <1>1, BestFound DEF End!Missing
  <2> QED
    BY <1>0, <1>1, <2>1 DEF End!Submissions, End!Submitted
<1>2. CASE End!Submissions(listed, p) # {}
  <2>1. PICK i \in End!Submissions(listed, p) : End!Best(listed, p) = [id |-> i, status |-> listed[i].status]
    BY <1>0, <1>2, BestFound
  <2>2. i \in DOMAIN listed /\ listed[i].problem = p /\ listed[i].kind = "submit" /\ i # 0
    BY <1>0, <2>1 DEF End!Submissions, End!Submitted
  <2>3. p \in Coded /\ listed[i].status = "done" => listed[i].score # None
    BY <2>2 DEF End!ScoreInv
  <2> QED
    BY <1>0, <2>1, <2>2, <2>3
<1> QED
  BY <1>1, <1>2

\* Executions come and are judged; none goes, and none loses its score.
Grows ==
    /\ opened' = opened
    /\ \A i \in DOMAIN listed :
          /\ i \in DOMAIN listed'
          /\ listed'[i].problem = listed[i].problem /\ listed'[i].kind = listed[i].kind
          /\ listed[i].kind = "submit" /\ listed[i].score # None => listed'[i].score # None
    /\ \A i \in DOMAIN listed' : i \in DOMAIN listed \/ i > opened

LEMMA RightStays ==
    ASSUME Grows, NEW best, NEW excused, End!Right(best, excused)
    PROVE  End!Right(best, excused)'
<1> SUFFICES ASSUME NEW p \in End!Problems
             PROVE  IF best[p].id = 0
                    THEN excused \/ \A i \in DOMAIN listed' : listed'[i].problem = p /\ listed'[i].kind = "submit" => i > opened'
                    ELSE /\ best[p].id \in DOMAIN listed'
                         /\ listed'[best[p].id].problem = p /\ listed'[best[p].id].kind = "submit"
                         /\ p \in Coded /\ best[p].status = "done" => listed'[best[p].id].score # None
  BY DEF End!Right
<1>1. CASE best[p].id = 0
  BY <1>1 DEF End!Right, Grows
<1>2. CASE best[p].id # 0
  BY <1>2 DEF End!Right, Grows
<1> QED
  BY <1>1, <1>2

LEMMA EveryList ==
    ASSUME ASSUME NEW k \in DOMAIN lists', lists'[k].read,
                  NEW best, best = lists'[k].best, NEW excused, excused = ~lists'[k].current
           PROVE  End!Right(best, excused)'
    PROVE  End!ListInv'
<1> SUFFICES ASSUME NEW k \in DOMAIN lists', lists'[k].read, NEW p \in End!Problems
             PROVE  LET best == lists'[k].best IN
                    IF best[p].id = 0
                    THEN \/ ~lists'[k].current
                         \/ \A i \in DOMAIN listed' : listed'[i].problem = p /\ listed'[i].kind = "submit" => i > opened'
                    ELSE /\ best[p].id \in DOMAIN listed'
                         /\ listed'[best[p].id].problem = p /\ listed'[best[p].id].kind = "submit"
                         /\ p \in Coded /\ best[p].status = "done" => listed'[best[p].id].score # None
  BY DEF End!ListInv, End!Right
<1>1. PICK best : best = lists'[k].best
  OBVIOUS
<1>2. PICK excused : excused = ~lists'[k].current
  OBVIOUS
<1>3. End!Right(best, excused)'
  BY <1>1, <1>2
<1> QED
  BY <1>1, <1>2, <1>3 DEF End!Right

LEMMA WhatIsTold ==
    ASSUME ASSUME told' # None, NEW best, best = told', NEW excused, excused = (misled' # {})
           PROVE  End!Right(best, excused)'
    PROVE  End!ToldInv'
<1> SUFFICES ASSUME told' # None, NEW p \in End!Problems
             PROVE  IF told'[p].id = 0
                    THEN \/ misled' # {}
                         \/ \A i \in DOMAIN listed' : listed'[i].problem = p /\ listed'[i].kind = "submit" => i > opened'
                    ELSE /\ told'[p].id \in DOMAIN listed'
                         /\ listed'[told'[p].id].problem = p /\ listed'[told'[p].id].kind = "submit"
                         /\ p \in Coded /\ told'[p].status = "done" => listed'[told'[p].id].score # None
  BY DEF End!ToldInv, End!Right
<1>1. PICK best : best = told'
  OBVIOUS
<1>2. PICK excused : excused = (misled' # {})
  OBVIOUS
<1>3. End!Right(best, excused)'
  BY <1>1, <1>2
<1> QED
  BY <1>1, <1>2, <1>3 DEF End!Right

LEMMA ListsStay ==
    ASSUME End!ListInv, End!ToldInv, Grows, lists' = lists, told' = told, misled' = misled
    PROVE  End!ListInv' /\ End!ToldInv'
<1>1. ASSUME NEW k \in DOMAIN lists', lists'[k].read,
             NEW best, best = lists'[k].best, NEW excused, excused = ~lists'[k].current
      PROVE  End!Right(best, excused)'
  <2>1. End!Right(best, excused)
    BY <1>1 DEF End!ListInv
  <2> QED
    BY <2>1, RightStays
<1>2. ASSUME told' # None, NEW best, best = told', NEW excused, excused = (misled' # {})
      PROVE  End!Right(best, excused)'
  <2>1. End!Right(best, excused)
    BY <1>2 DEF End!ToldInv
  <2> QED
    BY <2>1, RightStays
<1> QED
  BY <1>1, <1>2, EveryList, WhatIsTold

LEMMA EndRows == End!EndInv /\ (End!Ask \/ \E i \in DOMAIN listed : End!Judge(i)) => End!EndInv'
<1> SUFFICES ASSUME End!EndInv, End!Ask \/ \E i \in DOMAIN listed : End!Judge(i) PROVE End!EndInv'
  OBVIOUS
<1>0. /\ End!TypeOK /\ End!ScoreInv /\ End!ListInv /\ End!ToldInv
      /\ listed \in Seq(End!Execution) /\ Len(listed) \in Nat /\ DOMAIN listed = 1..Len(listed)
      /\ opened \in Nat /\ opened <= Len(listed)
  BY DEF End!EndInv, End!TypeOK
<1>1. /\ UNCHANGED <<modal, told, lists, opened, misled, mishaps, ended>>
  BY DEF End!Ask, End!Judge
<1>2. CASE End!Ask
  <2>1. PICK p \in End!Problems, kind \in ExecKinds \cup {"submit"} :
            /\ listed' = Append(listed, End!Row(p, kind))
    BY <1>2 DEF End!Ask
  <2>2. /\ End!Row(p, kind) \in End!Execution
        /\ p \in Coded => End!Row(p, kind).status # "done"
    BY <2>1, EndAssumption DEF End!Row, End!Execution, End!Problems
  <2>3. /\ listed' \in Seq(End!Execution) /\ Len(listed') = Len(listed) + 1
        /\ DOMAIN listed' = DOMAIN listed \cup {Len(listed) + 1}
        /\ \A i \in DOMAIN listed : listed'[i] = listed[i]
        /\ listed'[Len(listed) + 1] = End!Row(p, kind)
    BY <1>0, <2>1, <2>2
  <2>4. End!TypeOK'
    BY <1>0, <1>1, <2>3 DEF End!TypeOK
  <2>5. End!ScoreInv'
    BY <1>0, <2>2, <2>3 DEF End!ScoreInv, End!Row
  <2>6. Grows
    BY <1>0, <1>1, <2>3 DEF Grows
  <2> QED
    BY <1>0, <1>1, <2>4, <2>5, <2>6, ListsStay DEF End!EndInv
<1>3. ASSUME NEW i \in DOMAIN listed, End!Judge(i) PROVE End!EndInv'
  <2> DEFINE row == listed[i]
  <2>1. PICK new \in End!Execution :
            /\ listed' = [listed EXCEPT ![i] = new]
            /\ new.problem = row.problem /\ new.kind = row.kind
            /\ row.kind = "submit" /\ row.score # None => new.score # None
            /\ new.kind = "submit" /\ new.status = "done" => new.score # None
    <3>0. row \in End!Execution
      BY <1>0
    <3>1. CASE \E score \in IF row.kind = "submit" THEN {0, 1} ELSE {None} :
                 listed' = [listed EXCEPT ![i].status = "done", ![i].score = score]
      <4>1. PICK score \in IF row.kind = "submit" THEN {0, 1} ELSE {None} :
               listed' = [listed EXCEPT ![i].status = "done", ![i].score = score]
        BY <3>1
      <4> DEFINE new == [row EXCEPT !.status = "done", !.score = score]
      <4>2. listed' = [listed EXCEPT ![i] = new]
        BY <1>0, <4>1
      <4>3. new \in End!Execution /\ new.problem = row.problem /\ new.kind = row.kind /\ new.score = score
        BY <3>0, <4>1 DEF End!Execution
      <4> HIDE DEF new
      <4> QED
        BY <4>1, <4>2, <4>3, EndAssumption
    <3>2. CASE listed' = [listed EXCEPT ![i].status = "error"]
      <4> DEFINE new == [row EXCEPT !.status = "error"]
      <4>2. listed' = [listed EXCEPT ![i] = new]
        BY <1>0, <3>2
      <4>3. /\ new \in End!Execution /\ new.problem = row.problem /\ new.kind = row.kind /\ new.score = row.score
            /\ new.status = "error"
        BY <3>0 DEF End!Execution
      <4> HIDE DEF new
      <4> QED
        BY <4>2, <4>3
    <3> QED
      BY <1>3, <3>1, <3>2 DEF End!Judge
  <2>2. /\ listed' \in Seq(End!Execution) /\ Len(listed') = Len(listed) /\ DOMAIN listed' = DOMAIN listed
        /\ \A j \in DOMAIN listed : listed'[j] = IF j = i THEN new ELSE listed[j]
    BY <1>0, <2>1
  <2>3. End!TypeOK'
    BY <1>0, <1>1, <2>2 DEF End!TypeOK
  <2>4. End!ScoreInv'
    BY <1>0, <2>1, <2>2 DEF End!ScoreInv
  <2>5. Grows
    BY <1>0, <1>1, <2>1, <2>2 DEF Grows
  <2> QED
    BY <1>0, <1>1, <2>3, <2>4, <2>5, ListsStay DEF End!EndInv
<1> QED
  BY <1>2, <1>3

LEMMA EndLists ==
    /\ End!EndInv
    /\ \/ End!Open \/ End!Close \/ End!Finish
       \/ \E k \in DOMAIN lists : End!ReadList(k) \/ End!ListTold(k) \/ End!ListFails(k)
    => End!EndInv'
<1> SUFFICES ASSUME End!EndInv,
                    \/ End!Open \/ End!Close \/ End!Finish
                    \/ \E k \in DOMAIN lists : End!ReadList(k) \/ End!ListTold(k) \/ End!ListFails(k)
             PROVE  End!EndInv'
  OBVIOUS
<1> DEFINE Sought == [current : BOOLEAN, read : BOOLEAN, best : End!Answer]
<1>0. /\ End!TypeOK /\ End!ScoreInv /\ End!ListInv /\ End!ToldInv
      /\ listed \in Seq(End!Execution) /\ lists \in Seq(Sought) /\ told \in End!Answer \cup {None}
      /\ opened \in Nat /\ Len(listed) \in Nat
      /\ DOMAIN lists = 1..Len(lists) /\ Len(lists) \in Nat
  BY DEF End!EndInv, End!TypeOK
<1>a. listed' = listed
  BY DEF End!Open, End!Close, End!Finish, End!ReadList, End!ListTold, End!ListFails
<1>b. End!ScoreInv'
  BY <1>0, <1>a DEF End!ScoreInv
<1> HIDE DEF Sought
<1>1. CASE End!Open
  <2> DEFINE earlier == [k \in DOMAIN lists |-> [lists[k] EXCEPT !.current = FALSE]]
             new == [current |-> TRUE, read |-> FALSE, best |-> End!bestSubmit(<<>>)]
  <2>2. new \in Sought /\ ~new.read
    BY NothingThere DEF Sought
  <2>3. ASSUME NEW k \in DOMAIN lists
        PROVE  /\ earlier[k] \in Sought
               /\ earlier[k].read = lists[k].read /\ earlier[k].best = lists[k].best /\ ~earlier[k].current
    <3>1. lists[k] \in Sought
      BY <1>0
    <3> QED
      BY <3>1 DEF Sought
  <2>1. earlier \in Seq(Sought) /\ Len(earlier) = Len(lists) /\ DOMAIN earlier = DOMAIN lists
    BY <1>0, <2>3
  <2>4. lists' = Append(earlier, new) /\ told' = None /\ opened' = Len(listed)
    BY <1>1 DEF End!Open
  <2> HIDE DEF earlier, new
  <2>5. /\ lists' \in Seq(Sought) /\ DOMAIN lists' = DOMAIN lists \cup {Len(lists) + 1}
        /\ \A k \in DOMAIN lists : lists'[k] = earlier[k]
        /\ lists'[Len(lists) + 1] = new
    BY <1>0, <1>a, <1>b, <2>1, <2>2, <2>4
  <2>6. End!TypeOK'
    BY <1>0, <1>a, <1>b, <2>4, <2>5 DEF End!TypeOK, Sought
  <2>7. ASSUME NEW k \in DOMAIN lists', lists'[k].read,
               NEW best, best = lists'[k].best, NEW excused, excused = ~lists'[k].current
        PROVE  End!Right(best, excused)'
    <3>1. k \in DOMAIN lists /\ best = lists[k].best /\ lists[k].read /\ excused
      BY <2>2, <2>3, <2>5, <2>7
    <3>2. \A p \in End!Problems : best[p].id # 0 =>
             /\ best[p].id \in DOMAIN listed
             /\ listed[best[p].id].problem = p /\ listed[best[p].id].kind = "submit"
             /\ p \in Coded /\ best[p].status = "done" => listed[best[p].id].score # None
      BY <1>0, <1>a, <1>b, <3>1 DEF End!ListInv, End!Right
    <3> QED
      BY <1>0, <1>a, <1>b, <3>1, <3>2 DEF End!Right
  <2> QED
    BY <1>0, <1>a, <1>b, <2>4, <2>6, <2>7, EveryList DEF End!EndInv, End!ToldInv
<1>2. CASE End!Close
  <2>1. UNCHANGED <<listed, lists, told, misled, opened>>
    BY <1>2 DEF End!Close
  <2>2. Grows /\ End!TypeOK'
    BY <1>0, <1>a, <1>b, <2>1 DEF Grows, End!TypeOK
  <2> QED
    BY <1>0, <1>a, <1>b, <2>1, <2>2, ListsStay DEF End!EndInv
<1>3. CASE End!Finish
  <2>1. told' = None /\ lists' = <<>> /\ opened' = opened
    BY <1>3 DEF End!Finish
  <2>2. End!TypeOK'
    BY <1>0, <1>a, <1>b, <2>1 DEF End!TypeOK
  <2> QED
    BY <1>0, <1>a, <1>b, <2>1, <2>2 DEF End!EndInv, End!ListInv, End!ToldInv
<1>4. ASSUME NEW k \in DOMAIN lists, End!ReadList(k) PROVE End!EndInv'
  <2> DEFINE new == [lists[k] EXCEPT !.read = TRUE, !.best = End!bestSubmit(listed)]
  <2>1. lists' = [lists EXCEPT ![k] = new]
    BY <1>0, <1>a, <1>b, <1>4 DEF End!ReadList
  <2>2. new \in Sought /\ new.best = End!bestSubmit(listed) /\ new.current = lists[k].current
    <3>1. lists[k] \in Sought /\ End!bestSubmit(listed) \in End!Answer
      BY <1>0, AnswerOf
    <3> QED
      BY <3>1 DEF Sought
  <2>3. UNCHANGED <<listed, told, misled, opened>>
    BY <1>4 DEF End!ReadList
  <2> HIDE DEF new
  <2>4. lists' \in Seq(Sought) /\ DOMAIN lists' = DOMAIN lists /\ \A j \in DOMAIN lists : lists'[j] = IF j = k THEN new ELSE lists[j]
    BY <1>0, <1>a, <1>b, <2>1, <2>2
  <2>5. End!TypeOK' /\ Grows
    BY <1>0, <1>a, <1>b, <2>3, <2>4 DEF End!TypeOK, Sought, Grows
  <2>6. ASSUME NEW j \in DOMAIN lists', lists'[j].read,
               NEW best, best = lists'[j].best, NEW excused, excused = ~lists'[j].current
        PROVE  End!Right(best, excused)'
    <3>1. End!Right(best, excused)
      <4>1. CASE j = k
        BY <1>0, <1>a, <1>b, <2>2, <2>4, <2>6, <4>1, ReadNow DEF End!Right
      <4>2. CASE j # k
        BY <1>0, <1>a, <1>b, <2>4, <2>6, <4>2 DEF End!ListInv
      <4> QED
        BY <4>1, <4>2
    <3> QED
      BY <2>5, <3>1, RightStays
  <2>7. ASSUME told' # None, NEW best, best = told', NEW excused, excused = (misled' # {})
        PROVE  End!Right(best, excused)'
    BY <1>0, <1>a, <1>b, <2>3, <2>5, <2>7, RightStays DEF End!ToldInv
  <2> QED
    BY <1>0, <1>a, <1>b, <2>5, <2>6, <2>7, EveryList, WhatIsTold DEF End!EndInv
<1>5. ASSUME NEW k \in DOMAIN lists, End!ListTold(k) \/ End!ListFails(k) PROVE End!EndInv'
  <2>1. lists' = RemoveAt(lists, k) /\ opened' = opened
    BY <1>5, EndRemoves DEF End!ListTold, End!ListFails
  <2>2. lists' \in Seq(Sought) /\ \A j \in DOMAIN lists' : \E i \in DOMAIN lists : lists'[j] = lists[i]
    BY <1>0, <1>a, <1>b, <2>1, Removed, Others
  <2>3. told' \in End!Answer
    <3>1. lists[k] \in Sought
      BY <1>0
    <3>2. lists[k].best \in End!Answer
      BY <3>1 DEF Sought
    <3> QED
      BY <1>5, <3>2, NothingThere DEF End!ListTold, End!ListFails
  <2>4. End!TypeOK' /\ Grows
    BY <1>0, <1>a, <1>b, <2>1, <2>2, <2>3 DEF End!TypeOK, Grows, Sought
  <2>5. ASSUME NEW j \in DOMAIN lists', lists'[j].read,
               NEW best, best = lists'[j].best, NEW excused, excused = ~lists'[j].current
        PROVE  End!Right(best, excused)'
    <3>1. PICK i \in DOMAIN lists : lists'[j] = lists[i]
      BY <2>2
    <3>2. End!Right(best, excused)
      BY <1>0, <1>a, <1>b, <2>5, <3>1 DEF End!ListInv
    <3> QED
      BY <2>4, <3>2, RightStays
  <2>6. ASSUME told' # None, NEW best, best = told', NEW excused, excused = (misled' # {})
        PROVE  End!Right(best, excused)'
    <3>1. End!Right(best, excused)
      <4>1. CASE End!ListTold(k) /\ lists[k].current
        <5>1. End!Right(best, FALSE)
          BY <1>0, <1>a, <1>b, <2>6, <4>1 DEF End!ListTold, End!ListInv
        <5> QED
          BY <5>1 DEF End!Right
      <4>2. CASE End!ListTold(k) /\ ~lists[k].current
        <5>1. End!Right(best, TRUE)
          BY <1>0, <1>a, <1>b, <2>6, <4>2 DEF End!ListTold, End!ListInv
        <5>2. excused
          BY <2>6, <4>2 DEF End!ListTold
        <5> QED
          BY <5>1, <5>2 DEF End!Right
      <4>3. CASE End!ListFails(k)
        <5>1. excused
          BY <2>6, <4>3 DEF End!ListFails
        <5>2. \A p \in End!Problems : best[p].id = 0
          BY <2>6, <4>3, NothingThere DEF End!ListFails
        <5> QED
          BY <5>1, <5>2 DEF End!Right
      <4> QED
        BY <1>5, <4>1, <4>2, <4>3
    <3> QED
      BY <2>4, <3>1, RightStays
  <2> QED
    BY <1>0, <1>a, <1>b, <2>4, <2>5, <2>6, EveryList, WhatIsTold DEF End!EndInv
<1> QED
  BY <1>1, <1>2, <1>3, <1>4, <1>5

LEMMA EndStep == End!EndInv /\ [End!Next]_endVars => End!EndInv'
<1> SUFFICES ASSUME End!EndInv, UNCHANGED endVars PROVE End!EndInv'
  BY EndRows, EndLists DEF End!Next
<1>1. UNCHANGED <<listed, lists, told, misled, opened>>
  BY DEF endVars
<1>2. Grows /\ End!TypeOK' /\ End!ScoreInv'
  BY <1>1 DEF Grows, End!EndInv, End!TypeOK, End!ScoreInv
<1> QED
  BY <1>1, <1>2, ListsStay DEF End!EndInv

LEMMA EndShows == End!EndInv => End!DialogTruthful
<1> SUFFICES ASSUME End!EndInv, told # None, NEW p \in End!Problems
             PROVE  LET real == {i \in DOMAIN listed : listed[i].problem = p /\ listed[i].kind = "submit"}
                    IN  CASE End!Line(p) = "unsubmitted" -> misled # {} \/ \A i \in real : i > opened
                          [] End!Line(p) = "verdict"     -> told[p].id \in real /\ listed[told[p].id].score # None
                          [] OTHER                       -> told[p].id \in real
  BY DEF End!DialogTruthful
<1>1. IF told[p].id = 0
      THEN misled # {} \/ \A i \in DOMAIN listed : listed[i].problem = p /\ listed[i].kind = "submit" => i > opened
      ELSE /\ told[p].id \in DOMAIN listed
           /\ listed[told[p].id].problem = p /\ listed[told[p].id].kind = "submit"
           /\ p \in Coded /\ told[p].status = "done" => listed[told[p].id].score # None
  BY DEF End!EndInv, End!ToldInv, End!Right
<1>2. CASE told[p].id = 0
  <2>1. End!Line(p) = "unsubmitted"
    BY <1>2 DEF End!Line, End!unsubmitted
  <2> QED
    BY <1>1, <1>2, <2>1
<1>3. CASE told[p].id # 0
  <2>1. p \notin End!unsubmitted
    BY <1>3 DEF End!unsubmitted
  <2>2. CASE p \in Reports
    <3>1. End!Line(p) = "submitted"
      BY <2>1, <2>2, EndAssumption DEF End!Line
    <3> QED
      BY <1>1, <1>3, <3>1
  <2>3. CASE p \in Coded /\ told[p].status = "done"
    <3>1. End!Line(p) = "verdict"
      BY <2>1, <2>3, EndAssumption DEF End!Line
    <3> QED
      BY <1>1, <1>3, <2>3, <3>1
  <2>4. CASE p \in Coded /\ told[p].status # "done"
    <3>1. End!Line(p) = "judging"
      BY <2>1, <2>4, EndAssumption DEF End!Line
    <3> QED
      BY <1>1, <1>3, <3>1
  <2> QED
    BY <2>2, <2>3, <2>4 DEF End!Problems
<1> QED
  BY <1>2, <1>3

LEMMA EndMoves == [PagesNext]_pagesVars /\ part' = "end" => part = "end" /\ [End!Next]_endVars
BY DEF PagesNext, pagesVars, endVars

\* "Check what was submitted of each problem", in the dialog before an exam ends: nothing
\* is called submitted that was not, and nothing missing that was there at the opening,
\* unless the request failed or an earlier opening's answer came late.
THEOREM DialogTells == PagesSpec => []DialogTruthful
<1> DEFINE Inv == part = "end" => End!EndInv
<1>1. PagesInit => Inv
  BY EndInit DEF PagesInit
<1>2. Inv /\ [PagesNext]_pagesVars => Inv'
  BY EndMoves, EndStep
<1>3. Inv => DialogTruthful
  BY EndShows DEF DialogTruthful
<1> QED
  BY <1>1, <1>2, <1>3, PTL DEF PagesSpec

----------------------------------------------------------------------------
(* The watch over absences *)

LEMMA WatchInit == Watch!Init => Watch!WatchInv
<1> SUFFICES ASSUME Watch!Init PROVE Watch!WatchInv
  OBVIOUS
<1> USE WatchAssumption DEF Watch!Init
<1>1. Watch!TypeOK
  BY DEF Watch!TypeOK
<1>2. Watch!TimerInv /\ Watch!AwayInv
  BY DEF Watch!TimerInv, Watch!AwayInv, Watch!Loaded
<1>3. Watch!OnceInv
  BY DEF Watch!OnceInv
<1>4. Watch!SizeInv
  BY DEF Watch!SizeInv, Watch!Distance
<1> QED
  BY <1>1, <1>2, <1>3, <1>4 DEF Watch!WatchInv

LEMMA WatchStep == Watch!WatchInv /\ [Watch!Next]_watchVars => Watch!WatchInv'
<1> SUFFICES ASSUME Watch!WatchInv, [Watch!Next]_watchVars PROVE Watch!WatchInv'
  OBVIOUS
<1> USE WatchAssumption DEF Watch!WatchInv, Watch!TypeOK, Watch!TimerInv, Watch!AwayInv, Watch!OnceInv,
     Watch!SizeInv, Watch!Unhurried, Watch!Followed, Watch!Steady, Watch!Loaded, Watch!Present
<1>1. CASE UNCHANGED watchVars
  BY <1>1 DEF watchVars, Watch!Distance
<1>2. CASE Watch!Load
  <2>1. Watch!TypeOK'
    BY <1>2 DEF Watch!Load
  <2>2. Watch!TimerInv'
    BY <1>2 DEF Watch!Load
  <2>3. Watch!AwayInv'
    BY <1>2 DEF Watch!Load, Watch!Oddity
  <2>4. Watch!OnceInv'
    BY <1>2 DEF Watch!Load
  <2>5. Watch!SizeInv'
    BY <1>2 DEF Watch!Load, Watch!sizes, Watch!Distance
  <2> QED
    BY <2>1, <2>2, <2>3, <2>4, <2>5
<1>3. CASE Watch!Blur
  <2>1. Watch!TypeOK'
    BY <1>3 DEF Watch!Blur, Watch!Begin, Watch!Leaving
  <2>2. Watch!TimerInv'
    BY <1>3 DEF Watch!Blur
  <2>3. Watch!AwayInv'
    BY <1>3 DEF Watch!Blur, Watch!Begin, Watch!Leaving
  <2>4. Watch!OnceInv'
    BY <1>3 DEF Watch!Blur, Watch!Begin, Watch!Leaving
  <2>5. Watch!SizeInv'
    BY <1>3 DEF Watch!Blur, Watch!sizes, Watch!Distance
  <2> QED
    BY <2>1, <2>2, <2>3, <2>4, <2>5
<1>4. CASE Watch!BlurTimer
  <2>1. Watch!TypeOK'
    BY <1>4 DEF Watch!BlurTimer, Watch!window, Watch!BlurTold, Watch!Leaving, Watch!goAway, Watch!record, Watch!Begin, Watch!Enough, Watch!told
  <2>2. Watch!TimerInv'
    BY <1>4 DEF Watch!BlurTimer, Watch!window
  <2>3. Watch!AwayInv'
    BY <1>4 DEF Watch!BlurTimer, Watch!window, Watch!BlurTold, Watch!Leaving, Watch!goAway, Watch!record, Watch!Begin, Watch!Enough, Watch!told
  <2>4. Watch!OnceInv'
    BY <1>4 DEF Watch!BlurTimer, Watch!window, Watch!BlurTold, Watch!Leaving, Watch!goAway, Watch!record, Watch!Begin, Watch!Enough, Watch!told
  <2>5. Watch!SizeInv'
    BY <1>4 DEF Watch!BlurTimer, Watch!window, Watch!sizes, Watch!Distance
  <2> QED
    BY <2>1, <2>2, <2>3, <2>4, <2>5
<1>5. CASE Watch!Orphan
  <2>1. Watch!TypeOK'
    BY <1>5 DEF Watch!Orphan, Watch!window, Watch!BlurTold, Watch!Leaving, Watch!goAway, Watch!record, Watch!Begin,
       Watch!Enough, Watch!told
  <2>2. Watch!TimerInv'
    BY <1>5 DEF Watch!Orphan, Watch!window
  <2>3. Watch!AwayInv'
    BY <1>5 DEF Watch!Orphan, Watch!window, Watch!BlurTold, Watch!Leaving, Watch!goAway, Watch!record, Watch!Begin,
       Watch!Enough, Watch!told
  <2>4. Watch!OnceInv'
    BY <1>5 DEF Watch!Orphan, Watch!window, Watch!BlurTold, Watch!Leaving, Watch!goAway, Watch!record, Watch!Begin,
       Watch!Enough, Watch!told
  <2>5. Watch!SizeInv'
    BY <1>5 DEF Watch!Orphan, Watch!window, Watch!sizes, Watch!Distance
  <2> QED
    BY <2>1, <2>2, <2>3, <2>4, <2>5
<1>6. CASE Watch!Focus
  BY <1>6 DEF Watch!Focus, Watch!sizes, Watch!told, Watch!Distance, Watch!comeBack, Watch!Oddity
<1>7. CASE Watch!Hide
  <2>1. Watch!TypeOK'
    BY <1>7 DEF Watch!Hide, Watch!Leaving, Watch!goAway, Watch!record, Watch!Begin, Watch!Enough, Watch!told
  <2>2. Watch!TimerInv'
    BY <1>7 DEF Watch!Hide
  <2>3. Watch!AwayInv'
    BY <1>7 DEF Watch!Hide, Watch!Leaving, Watch!goAway, Watch!record, Watch!Begin, Watch!Enough, Watch!told
  <2>4. Watch!OnceInv'
    BY <1>7 DEF Watch!Hide, Watch!Leaving, Watch!goAway, Watch!record, Watch!Begin, Watch!Enough, Watch!told
  <2>5. Watch!SizeInv'
    BY <1>7 DEF Watch!Hide, Watch!sizes, Watch!Distance
  <2> QED
    BY <2>1, <2>2, <2>3, <2>4, <2>5
<1>8. CASE Watch!Show
  <2>1. Watch!TypeOK'
    BY <1>8 DEF Watch!told, Watch!Show, Watch!comeBack
  <2>2. Watch!TimerInv'
    BY <1>8 DEF Watch!told, Watch!Show, Watch!Oddity
  <2>3. Watch!AwayInv'
    BY <1>8 DEF Watch!told, Watch!Show, Watch!comeBack, Watch!Oddity
  <2>4. Watch!OnceInv'
    BY <1>8 DEF Watch!told, Watch!Show, Watch!comeBack, Watch!Oddity
  <2>5. Watch!SizeInv'
    BY <1>8 DEF Watch!told, Watch!Show, Watch!sizes, Watch!Distance
  <2> QED
    BY <2>1, <2>2, <2>3, <2>4, <2>5
<1>9. CASE Watch!MouseLeave \/ Watch!ThreeSeconds
  BY <1>9 DEF Watch!MouseLeave, Watch!ThreeSeconds, Watch!Begin, Watch!Leaving, Watch!told, Watch!sizes, Watch!watch,
     Watch!Distance
<1>10. CASE Watch!MouseEnter
  BY <1>10 DEF Watch!MouseEnter, Watch!record, Watch!Enough, Watch!told, Watch!sizes, Watch!watch, Watch!Distance
<1>11. CASE Watch!Resize
  BY <1>11 DEF Watch!Resize, Watch!told, Watch!sizes, Watch!Distance
<1>12. CASE Watch!ResizeTimer
  BY <1>12 DEF Watch!ResizeTimer, Watch!Distance, Watch!SizeTold, Watch!window, Watch!told
<1>13. ASSUME Watch!SizeArrives \/ \E i \in DOMAIN older : Watch!OlderArrives(i)
       PROVE  Watch!WatchInv'
  <2>1. UNCHANGED <<visible, focused, pointer, size, loads, away, blurTimer, orphans, lastSize, resizeTimer,
                    tellings, missed, oddities>>
    BY <1>13 DEF Watch!SizeArrives, Watch!OlderArrives, Watch!window, Watch!watch, Watch!told
  <2>2. newest' = "told" => toldSize' = lastSize
    BY <1>13 DEF Watch!SizeArrives, Watch!OlderArrives
  <2> QED
    BY <2>1, <2>2 DEF Watch!Distance
<1> QED
  BY <1>1, <1>2, <1>3, <1>4, <1>5, <1>6, <1>7, <1>8, <1>9, <1>10, <1>11, <1>12, <1>13 DEF Watch!Next

LEMMA WatchShows == Watch!WatchInv => Watch!WatchSound
BY DEF Watch!WatchSound, Watch!AbsenceToldOnce, Watch!SizeDriftTold, Watch!WatchInv, Watch!TypeOK, Watch!TimerInv,
   Watch!AwayInv, Watch!OnceInv, Watch!SizeInv, Watch!Unhurried, Watch!Followed, Watch!Steady, Watch!Loaded, Watch!Present

LEMMA WatchMoves == [PagesNext]_pagesVars /\ part' = "watch" => part = "watch" /\ [Watch!Next]_watchVars
BY DEF PagesNext, pagesVars, watchVars

\* Every absence of the candidate has one record posted, which may be lost, and the timeline
\* follows the size of the window as far as the newest record of it arrived last, in whatever
\* order blur, focus, visibilitychange, the pointer and the timers of
\* attempts/[id]/page.tsx fire, but for the oddities WatchSound names.
THEOREM AbsencesToldOnce == PagesSpec => []WatchSound
<1> DEFINE Inv == part = "watch" => Watch!WatchInv
<1>1. PagesInit => Inv
  BY WatchInit DEF PagesInit
<1>2. Inv /\ [PagesNext]_pagesVars => Inv'
  BY WatchMoves, WatchStep
<1>3. Inv => WatchSound
  BY WatchShows DEF WatchSound
<1> QED
  BY <1>1, <1>2, <1>3, PTL DEF PagesSpec

----------------------------------------------------------------------------
(* What the candidate has in front of them *)

LEMMA DeskInit == Desk!Init => Desk!DeskInv
<1> SUFFICES ASSUME Desk!Init PROVE Desk!DeskInv
  OBVIOUS
<1>1. /\ openDocs = <<>> /\ activeDoc = None /\ preview = FALSE
      /\ deadline \in Nat /\ clock = 0 /\ endAt = 0 /\ timer = "waiting"
  BY DeskAssumption DEF Desk!Init
<1>2. openDocs \in Seq(Desk!Paths) /\ Desk!IsInjective(openDocs)
  BY <1>1 DEF Desk!IsInjective
<1> QED
  BY <1>1, <1>2 DEF Desk!DeskInv, Desk!DeskSound, Desk!DeskConsistent, Desk!NotEndedEarly

\* The tabs: what a step does to them, the countdown left alone.
LEMMA TabsHold ==
    ASSUME Desk!DeskInv, UNCHANGED <<deadline, clock, endAt, timer>>,
           openDocs' \in Seq(Desk!Paths), Desk!IsInjective(openDocs'),
           activeDoc' \in (Desk!Listed)' \cup {None},
           preview' \in BOOLEAN, preview' => Desk!Centre(activeDoc', deskProblem') = "report"
    PROVE  Desk!DeskInv'
BY DEF Desk!DeskInv, Desk!DeskSound, Desk!DeskConsistent, Desk!NotEndedEarly, Desk!Remaining, Desk!Second,
       Desk!Centre, Desk!Listed

LEMMA switchProblemHolds ==
    ASSUME Desk!DeskInv, NEW p \in Problems, Desk!switchProblem(p)
    PROVE  Desk!DeskInv'
<1>1. openDocs' = <<>> /\ activeDoc' = None /\ UNCHANGED <<deadline, clock, endAt, timer>>
  BY DEF Desk!switchProblem, Desk!countdown
<1>2. openDocs' \in Seq(Desk!Paths) /\ Desk!IsInjective(openDocs')
  BY <1>1 DEF Desk!IsInjective
<1>3. preview' \in BOOLEAN /\ (preview' => Desk!Centre(activeDoc', deskProblem') = "report")
  BY <1>1 DEF Desk!switchProblem, Desk!KeepPreview, Desk!DeskInv
<1> QED
  BY <1>1, <1>2, <1>3, TabsHold

LEMMA openRefHolds ==
    ASSUME Desk!DeskInv, NEW path \in Desk!Paths, Desk!openRef(path)
    PROVE  Desk!DeskInv'
<1>1. /\ openDocs' = IF path \in Desk!Range(openDocs) THEN openDocs ELSE Append(openDocs, path)
      /\ activeDoc' = path /\ path \in Files[deskProblem]
      /\ UNCHANGED <<deskProblem, deadline, clock, endAt, timer>>
  BY DEF Desk!openRef, Desk!countdown
<1>2. openDocs \in Seq(Desk!Paths) /\ Desk!IsInjective(openDocs)
  BY DEF Desk!DeskInv, Desk!DeskSound, Desk!DeskConsistent
<1>3. openDocs' \in Seq(Desk!Paths) /\ Desk!IsInjective(openDocs') /\ path \in Desk!Range(openDocs')
  <2>1. CASE path \in Desk!Range(openDocs)
    BY <1>1, <1>2, <2>1
  <2>2. CASE path \notin Desk!Range(openDocs)
    <3>1. openDocs' = Append(openDocs, path)
      BY <1>1, <2>2
    <3>2. /\ openDocs' \in Seq(Desk!Paths) /\ Len(openDocs') = Len(openDocs) + 1
          /\ \A i \in 1..Len(openDocs) : openDocs'[i] = openDocs[i]
          /\ openDocs'[Len(openDocs) + 1] = path
      BY <1>2, <3>1
    <3>3. \A i \in 1..Len(openDocs) : openDocs[i] # path
      BY <1>2, <2>2 DEF Desk!Range
    <3>4. DOMAIN openDocs = 1..Len(openDocs) /\ DOMAIN openDocs' = 1..(Len(openDocs) + 1) /\ Len(openDocs) \in Nat
      BY <1>2, <3>2
    <3>5. Desk!IsInjective(openDocs')
      BY <1>2, <3>2, <3>3, <3>4 DEF Desk!IsInjective
    <3> QED
      BY <3>2, <3>4, <3>5 DEF Desk!Range
  <2> QED
    BY <2>1, <2>2
<1>4. activeDoc' \in (Desk!Listed)' \cup {None}
  BY <1>1, <1>3 DEF Desk!Listed
<1>5. preview' \in BOOLEAN /\ (preview' => Desk!Centre(activeDoc', deskProblem') = "report")
  BY <1>1 DEF Desk!openRef, Desk!KeepPreview, Desk!DeskInv
<1> QED
  BY <1>1, <1>3, <1>4, <1>5, TabsHold

LEMMA closeRefHolds ==
    ASSUME Desk!DeskInv, NEW path, Desk!closeRef(path)
    PROVE  Desk!DeskInv'
<1> DEFINE K == {i \in DOMAIN openDocs : openDocs[i] # path}
<1>1. /\ openDocs' = Desk!Kept(openDocs, K)
      /\ activeDoc' = Desk!AfterClosing(path)
      /\ UNCHANGED <<deskProblem, deadline, clock, endAt, timer>>
  BY DEF Desk!closeRef, Desk!countdown
<1>2. openDocs \in Seq(Desk!Paths) /\ Desk!IsInjective(openDocs) /\ activeDoc \in Desk!Listed \cup {None}
  BY DEF Desk!DeskInv, Desk!DeskSound, Desk!DeskConsistent
<1>3. \A i \in K : i \in DOMAIN openDocs /\ openDocs[i] # path
  OBVIOUS
<1>4. \A i \in DOMAIN openDocs : openDocs[i] # path => i \in K
  OBVIOUS
<1> HIDE DEF K
<1>5. openDocs' \in Seq(Desk!Paths) /\ \E h : Picks(openDocs', openDocs, K, Len(openDocs), h)
  <2>1. openDocs' = Kept(openDocs, K)
    BY <1>1 DEF Desk!Kept, Kept
  <2> QED
    BY <1>2, <2>1, KeptPicks
<1>6. PICK h : Picks(openDocs', openDocs, K, Len(openDocs), h)
  BY <1>5
<1>0. DOMAIN openDocs = 1..Len(openDocs) /\ DOMAIN openDocs' = 1..Len(openDocs') /\ Len(openDocs') \in Nat
  BY <1>2, <1>5
<1>7. Desk!IsInjective(openDocs')
  <2> SUFFICES ASSUME NEW i \in DOMAIN openDocs', NEW j \in DOMAIN openDocs', openDocs'[i] = openDocs'[j]
               PROVE  i = j
    BY DEF Desk!IsInjective
  <2>1. /\ h[i] \in DOMAIN openDocs /\ h[j] \in DOMAIN openDocs
        /\ openDocs[h[i]] = openDocs[h[j]]
        /\ i < j => h[i] < h[j]
        /\ j < i => h[j] < h[i]
    BY <1>0, <1>3, <1>6 DEF Picks
  <2>2. h[i] = h[j]
    BY <1>2, <2>1 DEF Desk!IsInjective
  <2>3. i \in Nat /\ j \in Nat /\ h[i] \in Nat
    BY <1>0, <2>1
  <2> QED
    BY <2>1, <2>2, <2>3
<1>8. ASSUME NEW doc \in Desk!Range(openDocs), doc # path PROVE doc \in Desk!Range(openDocs')
  <2>1. PICK i \in DOMAIN openDocs : openDocs[i] = doc
    BY <1>8 DEF Desk!Range
  <2>2. i \in K \cap 1..Len(openDocs)
    BY <1>0, <1>4, <1>8, <2>1
  <2>3. PICK j \in 1..Len(openDocs') : h[j] = i
    BY <1>6, <2>2 DEF Picks
  <2>4. openDocs'[j] = doc
    BY <1>6, <2>1, <2>3 DEF Picks
  <2> QED
    BY <1>0, <2>4 DEF Desk!Range
<1>9. activeDoc' \in (Desk!Listed)' \cup {None}
  BY <1>1, <1>2, <1>8 DEF Desk!AfterClosing, Desk!Listed
<1>10. preview' \in BOOLEAN /\ (preview' => Desk!Centre(activeDoc', deskProblem') = "report")
  BY <1>1 DEF Desk!closeRef, Desk!KeepPreview, Desk!DeskInv
<1> QED
  BY <1>1, <1>5, <1>7, <1>9, <1>10, TabsHold

LEMMA TabStepsHold ==
    ASSUME Desk!DeskInv,
           \/ \E side \in {"statement", "reference", "grading"} : Desk!setLeftTab(side)
           \/ \E doc \in Desk!Paths \cup {None} : Desk!setActiveDoc(doc)
           \/ Desk!togglePreview \/ Desk!toggleChat
           \/ UNCHANGED deskVars
    PROVE  Desk!DeskInv'
<1>0. /\ preview \in BOOLEAN /\ (preview => Desk!Centre(activeDoc, deskProblem) = "report")
      /\ activeDoc \in Desk!Listed \cup {None}
  BY DEF Desk!DeskInv, Desk!DeskSound, Desk!DeskConsistent
<1> DEFINE Quiet ==
      /\ openDocs' = openDocs /\ deskProblem' = deskProblem
      /\ UNCHANGED <<deadline, clock, endAt, timer>>
      /\ activeDoc' \in Desk!Listed \cup {None}
      /\ preview' \in BOOLEAN /\ (preview' => Desk!Centre(activeDoc', deskProblem') = "report")
<1>1. Quiet
  <2>1. ASSUME NEW side, Desk!setLeftTab(side) PROVE Quiet
    BY <1>0, <2>1 DEF Desk!setLeftTab, Desk!countdown
  <2>2. ASSUME NEW doc, Desk!setActiveDoc(doc) PROVE Quiet
    BY <1>0, <2>2 DEF Desk!setActiveDoc, Desk!countdown, Desk!KeepPreview
  <2>3. CASE Desk!togglePreview
    BY <1>0, <2>3 DEF Desk!togglePreview, Desk!countdown
  <2>4. CASE Desk!toggleChat \/ UNCHANGED deskVars
    BY <1>0, <2>4 DEF Desk!toggleChat, Desk!countdown, Desk!tabs, deskVars
  <2> QED
    BY <2>1, <2>2, <2>3, <2>4
<1>2. openDocs \in Seq(Desk!Paths) /\ Desk!IsInjective(openDocs)
  BY DEF Desk!DeskInv, Desk!DeskSound, Desk!DeskConsistent
<1> QED
  BY <1>1, <1>2, TabsHold DEF Desk!Listed

\* The countdown starts from no less than the whole seconds left, and ends when less than
\* half a second of it is left.
LEMMA CountdownHolds ==
    ASSUME Desk!DeskInv, Desk!Pass \/ Desk!Arrive \/ Desk!Expire
    PROVE  Desk!DeskInv'
<1>1. UNCHANGED <<deskProblem, openDocs, activeDoc, preview>> /\ deadline' = deadline
  BY DEF Desk!Pass, Desk!Arrive, Desk!Expire, Desk!tabs
<1>2. /\ deadline \in Nat /\ clock \in Nat /\ endAt \in Nat
      /\ timer # "waiting" => endAt >= (deadline \div 4) * 4
      /\ timer = "expired" => clock + 4 + 4 \div 2 > deadline
  BY DEF Desk!DeskInv, Desk!DeskSound, Desk!NotEndedEarly, Desk!Remaining, Desk!Second
<1>3. /\ clock' \in Nat /\ endAt' \in Nat
      /\ timer' # "waiting" => endAt' >= (deadline \div 4) * 4
      /\ timer' = "expired" => clock' + 4 + 4 \div 2 > deadline
  <2>1. CASE Desk!Pass
    BY <1>2, <2>1 DEF Desk!Pass
  <2>2. CASE Desk!Arrive
    BY <1>2, <2>2 DEF Desk!Arrive, Desk!Remaining, Desk!Second
  <2>3. CASE Desk!Expire
    <3>1. /\ clock' = clock /\ endAt' = endAt /\ endAt >= (deadline \div 4) * 4
          /\ (endAt - clock + 4 \div 2) \div 4 <= 0
      BY <1>2, <2>3 DEF Desk!Expire, Desk!Left, Desk!Second
    <3>2. clock + 4 + 4 \div 2 > deadline
      BY <1>2, <3>1
    <3> QED
      BY <1>2, <3>1, <3>2
  <2> QED
    BY <2>1, <2>2, <2>3
<1> QED
  BY <1>1, <1>3 DEF Desk!DeskInv, Desk!DeskSound, Desk!DeskConsistent, Desk!NotEndedEarly, Desk!Remaining, Desk!Second,
     Desk!Listed, Desk!Centre

LEMMA DeskStep == Desk!DeskInv /\ [Desk!Next]_deskVars => Desk!DeskInv'
BY switchProblemHolds, openRefHolds, closeRefHolds, TabStepsHold, CountdownHolds DEF Desk!Next

LEMMA DeskMoves ==
    [PagesNext]_pagesVars /\ part' = "desk" => part = "desk" /\ [Desk!Next]_deskVars
BY DEF PagesNext, pagesVars, deskVars

\* The file shown in the middle is one of the problem's and has a tab, whatever is opened,
\* closed and switched (attempts/[id]/page.tsx), and the countdown (Timer.tsx) takes less
\* than a second and a half from the candidate, whenever the attempt arrives.
THEOREM DeskHolds == PagesSpec => []DeskSound
<1> DEFINE Inv == part = "desk" => Desk!DeskInv
<1>1. PagesInit => Inv
  BY DeskInit DEF PagesInit
<1>2. Inv /\ [PagesNext]_pagesVars => Inv'
  BY DeskMoves, DeskStep
<1>3. Inv => DeskSound
  BY DEF DeskSound, Desk!DeskInv
<1> QED
  BY <1>1, <1>2, <1>3, PTL DEF PagesSpec

=============================================================================
