----------------------------- MODULE AttemptGate -----------------------------
(***************************************************************************)
(* What the attempt record promises to the rest of the system: an attempt  *)
(* is opened once and closed for good; it is replaced by a retake only     *)
(* after it was closed, by an attempt that opens in the same moment; only   *)
(* a reset removes it, with everything that hangs on it.                    *)
(***************************************************************************)
CONSTANT Attempts

VARIABLES
    stage,      \* stage[a]: "unborn", "open", "closed" or "removed"
    replaced    \* the attempts a retake has replaced

gate == <<stage, replaced>>

GateInit ==
    /\ stage = [a \in Attempts |-> "unborn"]
    /\ replaced = {}

Open(a) ==
    /\ stage[a] = "unborn"
    /\ stage' = [stage EXCEPT ![a] = "open"]
    /\ UNCHANGED replaced

Close(a) ==
    /\ stage[a] = "open"
    /\ stage' = [stage EXCEPT ![a] = "closed"]
    /\ UNCHANGED replaced

Replace(a, b) ==
    /\ stage[a] = "closed"
    /\ stage[b] = "unborn"
    /\ stage' = [stage EXCEPT ![b] = "open"]
    /\ replaced' = replaced \cup {a}

Remove(a) ==
    /\ stage[a] \in {"open", "closed"}
    /\ stage' = [stage EXCEPT ![a] = "removed"]
    /\ replaced' = replaced \ {a}

GateNext ==
    \/ \E a \in Attempts : Open(a) \/ Close(a) \/ Remove(a)
    \/ \E a, b \in Attempts : Replace(a, b)

GateSpec == GateInit /\ [][GateNext]_gate
=============================================================================
