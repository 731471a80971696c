-------------------------- MODULE MCCircuitBreaker --------------------------
(* Small instances of CircuitBreaker for TLC. *)
EXTENDS CircuitBreaker, TLC

CONSTANTS p1, r1, r2, c1, c2, c3

OneProvider == [r \in Routes |-> p1]
NoSkew == [c \in Callers |-> 0]
FirstAhead == [c \in Callers |-> IF c = c1 THEN 1 ELSE 0]

RoutesAlike == Permutations(Routes)
=============================================================================
