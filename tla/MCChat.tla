------------------------------- MODULE MCChat -------------------------------
(* Instances of ChatTurn for TLC: questions of one attempt over the socket   *)
(* and over HTTP, with and without faults.                                   *)
EXTENDS ChatTurn, TLC

CONSTANTS s1, s2, h1

Calm      == [k \in FaultKinds |-> 0]
OneOfEach == [k \in FaultKinds |-> 1]
=============================================================================
