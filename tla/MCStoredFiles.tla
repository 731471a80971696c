--------------------------- MODULE MCStoredFiles ---------------------------
(* Small instances of StoredFiles for TLC. *)
EXTENDS StoredFiles, TLC

CONSTANTS f1, q1, q2, q3

RequestsAlike == Permutations(Requests)
=============================================================================
