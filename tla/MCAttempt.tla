----------------------------- MODULE MCAttempt -----------------------------
(***************************************************************************)
(* Instances of AttemptLifecycle for TLC: the attempts of one user at an    *)
(* assessment that ends before the clock does.                              *)
(***************************************************************************)
EXTENDS AttemptLifecycle, TLC

Symmetry == Permutations(Attempts) \cup Permutations(Requests)
=============================================================================
