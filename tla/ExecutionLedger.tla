--------------------------- MODULE ExecutionLedger ---------------------------
(***************************************************************************)
(* What the judging pipeline promises about an execution, whatever carries *)
(* it: it is requested once, decided once, and then neither its outcome nor *)
(* the fact that it is decided changes; every decision, and every repeated  *)
(* delivery of it, leaves a notice in the attempt's timeline; a reset        *)
(* removes whole attempts.                                                  *)
(***************************************************************************)
EXTENDS Naturals

CONSTANTS Execs, Attempts, AttemptOf, Verdicts

VARIABLES
    stage,      \* stage[e]: "absent", "pending" or "decided"
    verdict,    \* verdict[e]: the verdict of a decided execution
    notices     \* notices[e]: results in the attempt's timeline

ledger == <<stage, verdict, notices>>

LedgerInit ==
    /\ stage = [e \in Execs |-> "absent"]
    /\ verdict = [e \in Execs |-> "none"]
    /\ notices = [e \in Execs |-> 0]

Request(e) ==
    /\ stage[e] = "absent"
    /\ stage' = [stage EXCEPT ![e] = "pending"]
    /\ UNCHANGED <<verdict, notices>>

\* A report deliverable is on record at once, without verdict and notice.
Record(e) ==
    /\ stage[e] = "absent"
    /\ stage' = [stage EXCEPT ![e] = "decided"]
    /\ UNCHANGED <<verdict, notices>>

Decide(e, v) ==
    /\ stage[e] = "pending"
    /\ stage' = [stage EXCEPT ![e] = "decided"]
    /\ verdict' = [verdict EXCEPT ![e] = v]
    /\ notices' = [notices EXCEPT ![e] = @ + 1]

\* A report that was posted again: one more notice, the same decision.
Redeliver(e) ==
    /\ stage[e] = "decided"
    /\ notices' = [notices EXCEPT ![e] = @ + 1]
    /\ UNCHANGED <<stage, verdict>>

Remove(a) ==
    LET cut(f, empty) == [e \in Execs |-> IF AttemptOf[e] = a THEN empty ELSE f[e]] IN
    /\ stage' = cut(stage, "absent")
    /\ verdict' = cut(verdict, "none")
    /\ notices' = cut(notices, 0)

LedgerNext ==
    \/ \E e \in Execs : Request(e) \/ Record(e) \/ Redeliver(e) \/ \E v \in Verdicts : Decide(e, v)
    \/ \E a \in Attempts : Remove(a)

LedgerSpec == LedgerInit /\ [][LedgerNext]_ledger
=============================================================================
