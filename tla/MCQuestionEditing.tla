------------------------- MODULE MCQuestionEditing -------------------------
(* A small instance of QuestionEditing for TLC. *)
EXTENDS QuestionEditing, TLC

CONSTANTS e1, e2, q1, q2, q3, t1, t2

Alike == Permutations(Editors) \cup Permutations(Requests) \cup Permutations(Contents)
=============================================================================
