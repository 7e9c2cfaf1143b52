------------------------------- MODULE MCJudge -------------------------------
(* Instances of JudgePipeline for TLC: a submit, a run and a report of one     *)
(* attempt under faults, and three runs of one attempt, two requested at once. *)
EXTENDS JudgePipeline, TLC

CONSTANTS e1, e2, e3, a1, w1, w2

ThreeOfOne == e1 :> a1 @@ e2 :> a1 @@ e3 :> a1
AllKinds   == e1 :> "submit" @@ e2 :> "run" @@ e3 :> "report"
ThreeRuns  == e1 :> "run" @@ e2 :> "run" @@ e3 :> "run"

OneOfEach  == [k \in FaultKinds |-> 1]
NoTimeouts == [OneOfEach EXCEPT !["timeout"] = 0]

WorkerSymmetry == Permutations({w1, w2})
=============================================================================
