----------------------------- MODULE Questions -----------------------------
(***************************************************************************)
(* QuestionService.create, update and transition (questions/service.py):   *)
(* concurrent requests on one question, each a READ COMMITTED transaction  *)
(* that reads the row without a lock, checks the version it expects, and   *)
(* flushes an UPDATE whose WHERE clause names the version it read.  The    *)
(* UPDATE holds the row until the transaction ends, which                  *)
(* get_database_session brings about only after the answer was sent; the   *)
(* domain event is logged after that.                                      *)
(***************************************************************************)
EXTENDS QuestionDomain

VARIABLES
    row,       \* the committed row
    writer,    \* the request whose uncommitted write holds the row, or NULL
    asked,     \* what each request asks for
    pc,
    seen,      \* the row as each request read it
    answer     \* what each request's sender has been told

vars == <<row, writer, asked, pc, seen, answer>>

(* "written" is before the commit, "committed" before the event is logged,  *)
(* "silent" an event that was never logged because the instance died.      *)
Undecided == {"sent", "read", "written"}
Applied == {"committed", "logged", "silent"}
Places == Undecided \cup Applied \cup {"idle", "done"}

(* "lost" is an answer that did not reach the browser. *)
Answers == {"ok", "NOT_FOUND", "VERSION_CONFLICT", "LIFECYCLE_CONFLICT", "lost"}

ASSUME AnswerAssumption == NULL \notin Answers

TypeOK ==
    /\ row \in Question
    /\ writer \in Requests \cup {NULL}
    /\ asked \in [Requests -> Wishes \cup {NULL}]
    /\ pc \in [Requests -> Places]
    /\ seen \in [Requests -> Question]
    /\ answer \in [Requests -> Answers \cup {NULL}]
    /\ \A r \in Requests : /\ writer = r <=> pc[r] = "written"
                           /\ asked[r] = NULL <=> pc[r] \in {"idle", "done"}

-----------------------------------------------------------------------------
Goto(r, place) == pc' = [pc EXCEPT ![r] = place]

(* The first thing the sender hears is what it is told. *)
Tell(r, what) == answer' = [answer EXCEPT ![r] = IF @ = NULL THEN what ELSE @]

(* The request ends without having changed anything. *)
End(r) ==
    /\ Goto(r, "done")
    /\ asked' = [asked EXCEPT ![r] = NULL]
    /\ seen' = [seen EXCEPT ![r] = Absent]
    /\ UNCHANGED row

Init ==
    /\ row = Absent /\ writer = NULL
    /\ asked = [r \in Requests |-> NULL]
    /\ pc = [r \in Requests |-> "idle"]
    /\ seen = [r \in Requests |-> Absent]
    /\ answer = [r \in Requests |-> NULL]

(* A question's identity is made by the one request that creates it. *)
Send(r, w) ==
    /\ pc[r] = "idle"
    /\ Creates(w) => w \in Edits /\ \A s \in Requests : pc[s] = "idle"
    /\ asked' = [asked EXCEPT ![r] = w]
    /\ Goto(r, "sent")
    /\ UNCHANGED <<row, writer, seen, answer>>

(* create: the INSERT is visible to nobody else before its commit. *)
Create(r) ==
    /\ pc[r] = "sent" /\ Creates(asked[r])
    /\ writer' = r
    /\ Tell(r, "ok") /\ Goto(r, "written")
    /\ UNCHANGED <<row, asked, seen>>

(* The refusal of a request that reads q; NULL if it is not refused. *)
Refusal(q, w) ==
    IF q.version = 0 THEN "NOT_FOUND"
    ELSE IF q.version # w.expected THEN "VERSION_CONFLICT"
    ELSE IF ~Allows(q, w) /\ (w.target = NULL \/ ~AlreadySo(q, w)) THEN "LIFECYCLE_CONFLICT"
    ELSE NULL

(* _get_or_raise, require_record and the lifecycle checks; the fields that *)
(* change are found here, and if there are none the row is the answer.     *)
Read(r) ==
    /\ pc[r] = "sent" /\ ~Creates(asked[r])
    /\ \/ /\ Refusal(row, asked[r]) # NULL
          /\ Tell(r, Refusal(row, asked[r])) /\ End(r)
       \/ /\ Refusal(row, asked[r]) = NULL /\ AlreadySo(row, asked[r])
          /\ Tell(r, "ok") /\ End(r)
       \/ /\ Refusal(row, asked[r]) = NULL /\ ~AlreadySo(row, asked[r])
          /\ seen' = [seen EXCEPT ![r] = row]
          /\ Goto(r, "read") /\ UNCHANGED <<row, asked, answer>>
    /\ UNCHANGED writer

(* Mutant of Matches: the WHERE clause of the UPDATE names no version. *)
MatchesAnyVersion(q, r) == r \in Requests

(* The WHERE clause of the UPDATE. *)
Matches(q, r) == q.version = seen[r].version

(* The UPDATE waits for the row; then it takes it, or finds that its       *)
(* version is gone (StaleDataError).  The answer is sent before the commit.*)
Flush(r) ==
    /\ pc[r] = "read" /\ writer = NULL
    /\ \/ /\ Matches(row, r)
          /\ writer' = r /\ Tell(r, "ok") /\ Goto(r, "written")
          /\ UNCHANGED <<row, asked, seen>>
       \/ /\ ~Matches(row, r)
          /\ Tell(r, "VERSION_CONFLICT") /\ End(r) /\ UNCHANGED writer

(* Mutant of Written: a transition does not make a new version. *)
WrittenUnversioned(q, s, w) ==
    [Changed(q, w) EXCEPT !.version = IF w.target = NULL THEN s.version + 1 ELSE s.version]

(* The row the UPDATE leaves: the version it read plus one. *)
Written(q, s, w) == [Changed(q, w) EXCEPT !.version = s.version + 1]

(* Mutant of Commit: the row is left held. *)
CommitHolding(r) ==
    /\ pc[r] = "written"
    /\ row' = Written(row, seen[r], asked[r])
    /\ Goto(r, "committed")
    /\ UNCHANGED <<writer, asked, seen, answer>>

Commit(r) ==
    /\ pc[r] = "written"
    /\ row' = Written(row, seen[r], asked[r])
    /\ writer' = NULL
    /\ Goto(r, "committed")
    /\ UNCHANGED <<asked, seen, answer>>

Release(r) == writer' = IF writer = r THEN NULL ELSE writer

(* Mutant of Fail: the event of a failed commit is drained, not discarded. *)
FailDrained(r) ==
    /\ pc[r] \in Undecided
    /\ Release(r)
    /\ IF pc[r] = "written" THEN Goto(r, "logged") /\ UNCHANGED <<row, asked, seen>> ELSE End(r)
    /\ UNCHANGED answer

(* The transaction is rolled back, answered or not, and its event dropped. *)
Fail(r) ==
    /\ pc[r] \in Undecided
    /\ Release(r)
    /\ End(r)
    /\ UNCHANGED answer

(* drain_domain_events and log_committed_domain_event. *)
LogEvent(r) ==
    /\ pc[r] = "committed"
    /\ \E place \in {"logged", "silent"} : Goto(r, place)
    /\ UNCHANGED <<row, writer, asked, seen, answer>>

(* The sender stops waiting; the request goes on. *)
LoseAnswer(r) ==
    /\ pc[r] # "idle" /\ answer[r] = NULL
    /\ Tell(r, "lost")
    /\ UNCHANGED <<row, writer, asked, pc, seen>>

Serve(r) ==
    Create(r) \/ Read(r) \/ Flush(r) \/ Commit(r) \/ Fail(r) \/ LogEvent(r) \/ LoseAnswer(r)

Next == \E r \in Requests : (\E w \in Wishes : Send(r, w)) \/ Serve(r)

Spec == Init /\ [][Next]_vars

-----------------------------------------------------------------------------
(***************************************************************************)
(* Safety.                                                                 *)
(***************************************************************************)

NewVersion(r) == seen[r].version + 1

(* "Successful commits emit" one event each and "rollbacks discard pending *)
(* events": every version was made by exactly one request, whose event is  *)
(* the only one logged for it; nothing is logged that was not committed.   *)
EventsAccounted ==
    LET changed == {r \in Requests : pc[r] \in Applied} IN
    /\ {NewVersion(r) : r \in changed} = 1..row.version
    /\ \A r, s \in changed : NewVersion(r) = NewVersion(s) => r = s

(* The question behaves as if each change were made in one step by a       *)
(* request that named the version it replaces.                             *)
Versioned == INSTANCE VersionedQuestion WITH
    question <- row,
    wish <- [r \in Requests |-> IF pc[r] \in Undecided THEN asked[r] ELSE NULL]

ImplementsVersioned == Versioned!VSpec
=============================================================================
