---------------------------- MODULE MCAIGateway ----------------------------
(* A small instance of AIGateway for TLC. *)
EXTENDS GatewayHistory, TLC

CONSTANTS p1, r1, e1, e2

OneProvider == [r \in Routes |-> p1]
OneRoute == [e \in Executions |-> r1]
NoSkew == [e \in Executions |-> 0]
Alike == Permutations(Executions)
=============================================================================
