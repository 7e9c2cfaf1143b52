---------------------------- MODULE MCChatSocket ----------------------------
(* An instance of ChatSocket for TLC: two questions, two problems.            *)
EXTENDS ChatSocket, TLC

CONSTANTS p1, p2, t1, t2

TurnSymmetry == Permutations({t1, t2})
=============================================================================
