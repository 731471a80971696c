\* A completion is answered and its transaction does not commit.
SPECIFICATION Spec
CONSTANTS
    f1 = f1  q1 = q1  q2 = q2  q3 = q3
    Files = {f1}
    Requests = {q1, q2, q3}
    NULL = NULL
INVARIANT CompletionRepeatable
\* A file whose initiation was rolled back has no further steps.
CHECK_DEADLOCK FALSE
