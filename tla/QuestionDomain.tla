--------------------------- MODULE QuestionDomain ---------------------------
(* A question and what may be asked of it (questions/domain.py).           *)
EXTENDS Naturals

CONSTANTS
    Requests,     \* mutations that may be asked for, each once
    Contents,     \* accepted title, text and context, as one value
    NULL

QuestionStatus == {"OPEN", "RESOLVED", "CLOSED"}

Absent == [version |-> 0, status |-> "OPEN", content |-> NULL]

Question == [version: Nat, status: QuestionStatus, content: Contents \cup {NULL}]

(* New content, or a target status; a creation expects version 0. *)
Edits == [expected: Nat, content: Contents, target: {NULL}]
Moves == [expected: Nat, content: {NULL}, target: QuestionStatus]
Wishes == Edits \cup Moves

ASSUME NullAssumption ==
    /\ NULL \notin Contents /\ NULL \notin Requests
    /\ NULL \notin QuestionStatus /\ NULL \notin Wishes

Creates(w) == w.expected = 0

(* QUESTION_LIFECYCLE *)
Permitted(from, to) ==
    <<from, to>> \in {<<"OPEN", "RESOLVED">>, <<"RESOLVED", "OPEN">>,
                      <<"RESOLVED", "CLOSED">>, <<"CLOSED", "OPEN">>}

(* What the request leaves of the question. *)
Changed(q, w) ==
    [version |-> q.version + 1,
     status  |-> IF w.target = NULL THEN q.status ELSE w.target,
     content |-> IF w.content = NULL THEN q.content ELSE w.content]

(* Content is written only while OPEN, a status only along the lifecycle.  *)
Allows(q, w) ==
    IF w.target = NULL THEN q.status = "OPEN" ELSE Permitted(q.status, w.target)

(* What the request asks for is already so. *)
AlreadySo(q, w) ==
    IF w.target = NULL THEN q.content = w.content ELSE q.status = w.target
=============================================================================
