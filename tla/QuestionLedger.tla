--------------------------- MODULE QuestionLedger ---------------------------
(***************************************************************************)
(* What the AI chat promises about a question.  It is recorded before the  *)
(* model is asked, and charged to the attempt's quota from then on; the     *)
(* charge is taken back exactly when an answer was stored without a single  *)
(* character.  An answer is stored once, or a second time when the client   *)
(* left the stream.  A question may be left charged and unanswered for      *)
(* ever, "abandoned", but only by a mishap: its task was cancelled before   *)
(* its first step, the process died or the database failed.  What has been  *)
(* decided stays decided, unless staff reset the attempt.                   *)
(***************************************************************************)
EXTENDS Naturals

CONSTANTS
    Turns,
    Leavable    \* the turns whose answer is streamed to a client that may leave

VARIABLES
    status,     \* status[t]: "absent", "asked", "answered", "refunded" or "abandoned"
    heard,      \* the turns whose answer has begun
    copies,     \* copies[t]: how many answers to t are stored
    struck      \* the turns a mishap has met

questions == <<status, heard, copies, struck>>

QuestionInit ==
    /\ status = [t \in Turns |-> "absent"]
    /\ heard = {}
    /\ copies = [t \in Turns |-> 0]
    /\ struck = {}

Ask(t) ==
    /\ status[t] = "absent"
    /\ status' = [status EXCEPT ![t] = "asked"]
    /\ UNCHANGED <<heard, copies, struck>>

\* The answer goes on when the question has been deleted meanwhile.
Hear(t) ==
    /\ status[t] \in {"asked", "absent"}
    /\ heard' = heard \cup {t}
    /\ UNCHANGED <<status, copies, struck>>

\* The first answer decides: kept when it says something, refunded when not.
Settle(t) ==
    /\ status[t] = "asked"
    /\ status' = [status EXCEPT ![t] = IF t \in heard THEN "answered" ELSE "refunded"]
    /\ copies' = [copies EXCEPT ![t] = 1]
    /\ UNCHANGED <<heard, struck>>

\* The client left after the first saving: the answer is stored once more.
Repeat(t) ==
    /\ t \in Leavable
    /\ copies[t] = 1
    /\ copies' = [copies EXCEPT ![t] = 2]
    /\ UNCHANGED <<status, heard, struck>>

\* A mishap meets some turns; those of them that wait for an answer may never get it.
Mishap ==
    /\ struck \subseteq struck' /\ struck' \subseteq Turns
    /\ \A t \in Turns :
          status'[t] = status[t] \/ (status[t] = "asked" /\ status'[t] = "abandoned" /\ t \in struck')
    /\ status' = [t \in Turns |-> status'[t]]
    /\ UNCHANGED <<heard, copies>>

\* Staff reset the attempt.
Wipe ==
    /\ status' = [t \in Turns |-> "absent"]
    /\ copies' = [t \in Turns |-> 0]
    /\ UNCHANGED <<heard, struck>>

QuestionNext == Wipe \/ Mishap \/ \E t \in Turns : Ask(t) \/ Hear(t) \/ Settle(t) \/ Repeat(t)

QuestionSpec == QuestionInit /\ [][QuestionNext]_questions
=============================================================================
