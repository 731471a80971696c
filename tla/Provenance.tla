----------------------------- MODULE Provenance -----------------------------
(***************************************************************************)
(* The AI execution ledger: the rows of ai_executions, their append-only   *)
(* ai_execution_events, and DatabaseAIProvenanceRecorder._write, which     *)
(* runs each append in a transaction of its own and tries a second time    *)
(* when the database fails it (ai_provenance/service.py, repository.py).   *)
(*                                                                         *)
(* A transaction commits at the server in one step (Commit) and the caller *)
(* hears of it in another (Ack), or does not (Fail): the second try may    *)
(* then find its own event already there.                                  *)
(*                                                                         *)
(* A fact is what an event says.  Policy, protection and provider details  *)
(* are left out of it: every caller of a stage gives the same ones.  One   *)
(* caller writes to an execution at a time (its id is generated for it).   *)
(***************************************************************************)
EXTENDS Naturals, Sequences, FiniteSetsExt

CONSTANTS
    Executions,
    Stages,        \* of POLICY_EVALUATED, PROTECTION_COMPLETED, ROUTE_SELECTED
    Attempts,      \* attempt ids
    NumberOf,      \* attempt_number of each
    KindOf,        \* attempt_kind of each
    Usages,        \* [tokens, amount, currency] an answer may report
    Endings,       \* the terminal statuses callers give
    NULL

Kinds == {"PRIMARY", "RETRY", "FALLBACK"}
AllStages == {"POLICY_EVALUATED", "PROTECTION_COMPLETED", "ROUTE_SELECTED"}
EventType == AllStages \cup {"EXECUTION_CREATED", "ATTEMPT_STARTED", "ATTEMPT_SUCCEEDED",
                             "ATTEMPT_FAILED", "FINALIZED"}
Terminal == {"SUCCEEDED", "REJECTED", "FAILED", "CANCELLED"}
Status == {"CREATED", "EXECUTING"} \cup Terminal

-----------------------------------------------------------------------------
(* Facts, one constructor per method of the recorder. *)

Fact(type, attempt, usage, status) ==
    [type |-> type, attempt |-> attempt, usage |-> usage, status |-> status]

Created == Fact("EXECUTION_CREATED", NULL, NULL, NULL)
Passed(stage) == Fact(stage, NULL, NULL, NULL)
AttemptStarted(a) == Fact("ATTEMPT_STARTED", a, NULL, NULL)
AttemptSucceeded(a, u) == Fact("ATTEMPT_SUCCEEDED", a, u, NULL)
AttemptFailed(a) == Fact("ATTEMPT_FAILED", a, NULL, NULL)
Finalized(s) == Fact("FINALIZED", NULL, NULL, s)

StageFacts == {Passed(s) : s \in Stages}
AttemptFacts == {AttemptStarted(a) : a \in Attempts} \cup {AttemptFailed(a) : a \in Attempts}
                  \cup {AttemptSucceeded(a, u) : a \in Attempts, u \in Usages}
FinalFacts == {Finalized(s) : s \in Endings}

Facts == {Created} \cup StageFacts \cup AttemptFacts \cup FinalFacts

ASSUME ProvenanceAssumption ==
    /\ Stages \subseteq AllStages /\ Endings \subseteq Terminal
    /\ NumberOf \in [Attempts -> Nat \ {0}] /\ KindOf \in [Attempts -> Kinds]
    /\ \A u \in Usages : /\ u.tokens \in Nat \cup {NULL}
                         /\ u.amount \in Nat \cup {NULL}
                         /\ u.amount = NULL <=> u.currency = NULL
    /\ NULL \notin Attempts /\ NULL \notin Usages /\ NULL \notin Facts
    /\ NULL \notin Status /\ NULL \notin Nat

(* Mutant of DedupKey: the success and the failure of an attempt differ. *)
DedupKeyPerOutcome(f) ==
    IF f.attempt # NULL THEN <<f.type, f.attempt>> ELSE <<f.type, NULL>>

(* deduplication_key: one per stage, one per start and one per end of an   *)
(* attempt, one for all four ways of ending an execution.                  *)
DedupKey(f) ==
    CASE f.type = "ATTEMPT_STARTED" -> <<"started", f.attempt>>
      [] f.type \in {"ATTEMPT_SUCCEEDED", "ATTEMPT_FAILED"} -> <<"finished", f.attempt>>
      [] OTHER -> <<f.type, NULL>>

-----------------------------------------------------------------------------
VARIABLES
    execution,   \* the summary row of each execution
    events,      \* its events in the order they were inserted
    write,       \* the write its caller is waiting for
    reply        \* how the caller's latest write was answered

vars == <<execution, events, write, reply>>

Optional(S) == S \cup {NULL}

Row == [status: Optional(Status), last_event_sequence: Nat, provider_attempt_count: Nat,
        retry_count: Nat, fallback_count: Nat, tokens: Optional(Nat),
        cost_amount: Optional(Nat), cost_currency: {u.currency : u \in Usages} \cup {NULL},
        cost_complete: BOOLEAN]

Event == [sequence_number: Nat, fact: Facts]

Write == [fact: Optional(Facts), try: 0..1, committed: BOOLEAN]

NoRow == [status |-> NULL, last_event_sequence |-> 0, provider_attempt_count |-> 0,
          retry_count |-> 0, fallback_count |-> 0, tokens |-> NULL,
          cost_amount |-> NULL, cost_currency |-> NULL, cost_complete |-> FALSE]

NewRow == [NoRow EXCEPT !.status = "CREATED", !.last_event_sequence = 1]

NoWrite == [fact |-> NULL, try |-> 0, committed |-> FALSE]

Exists(e) == execution[e].status # NULL

Writing(e) == write[e].fact # NULL

TypeOK ==
    /\ execution \in [Executions -> Row]
    /\ events \in [Executions -> Seq(Event)]
    /\ write \in [Executions -> Write]
    /\ reply \in [Executions -> {NULL, "ok", "error"}]

-----------------------------------------------------------------------------
(* What one transaction does. *)

HasKey(e, f) == \E i \in DOMAIN events[e] : DedupKey(events[e][i].fact) = DedupKey(f)
HasFact(e, f) == \E i \in DOMAIN events[e] : events[e][i].fact = f

(* The summary still says what this fact would make it say. *)
UpdatesHold(r, f) ==
    /\ f.type = "ATTEMPT_STARTED" => r.status = "EXECUTING"
    /\ f.type = "ATTEMPT_FAILED" => ~r.cost_complete
    /\ f.type = "FINALIZED" => r.status = f.status

(* The fact is there already and says the same. *)
Duplicates(e, f) ==
    IF f = Created THEN Exists(e)
    ELSE Exists(e) /\ HasFact(e, f) /\ UpdatesHold(execution[e], f)

(* Mutant of Appends: a closed execution still takes events. *)
AppendsWhenClosed(e, f) ==
    IF f = Created THEN ~Exists(e)
    ELSE /\ Exists(e)
         /\ ~HasKey(e, f)
         /\ f.type = "ATTEMPT_STARTED" => NumberOf[f.attempt] = execution[e].provider_attempt_count + 1

(* The transaction inserts an event. *)
Appends(e, f) ==
    IF f = Created THEN ~Exists(e)
    ELSE /\ Exists(e)
         /\ ~HasKey(e, f)
         /\ execution[e].status \notin Terminal
         /\ f.type = "ATTEMPT_STARTED" => NumberOf[f.attempt] = execution[e].provider_attempt_count + 1

AddOptional(current, value) ==
    IF value = NULL THEN current ELSE IF current = NULL THEN value ELSE current + value

(* Mutant of UnknownCost: a failed attempt is taken to have cost nothing. *)
UnknownCostOfSuccesses(e) ==
    \E i \in DOMAIN events[e] :
        LET f == events[e][i].fact IN f.type = "ATTEMPT_SUCCEEDED" /\ f.usage.amount = NULL

UnknownCost(e) ==
    \E i \in DOMAIN events[e] :
        LET f == events[e][i].fact IN
        \/ f.type = "ATTEMPT_FAILED"
        \/ f.type = "ATTEMPT_SUCCEEDED" /\ f.usage.amount = NULL

(* _accumulate_usage: a cost nobody reported, or in a second currency, makes *)
(* the total incomplete.                                                   *)
WithUsage(r, u, unknown) ==
    LET s == [r EXCEPT !.tokens = AddOptional(@, u.tokens)] IN
    IF u.amount = NULL THEN [s EXCEPT !.cost_complete = FALSE]
    ELSE IF r.cost_amount = NULL
    THEN [s EXCEPT !.cost_amount = u.amount, !.cost_currency = u.currency,
                   !.cost_complete = ~unknown]
    ELSE IF r.cost_currency # u.currency
    THEN [s EXCEPT !.cost_amount = NULL, !.cost_currency = NULL, !.cost_complete = FALSE]
    ELSE [s EXCEPT !.cost_amount = @ + u.amount, !.cost_complete = @ /\ ~unknown]

Summarised(e, f) ==
    LET r == [execution[e] EXCEPT !.last_event_sequence = @ + 1] IN
    CASE f = Created -> NewRow
      [] f.type = "ATTEMPT_STARTED" ->
           [r EXCEPT !.status = "EXECUTING", !.provider_attempt_count = NumberOf[f.attempt],
                     !.retry_count = IF KindOf[f.attempt] = "RETRY" THEN @ + 1 ELSE @,
                     !.fallback_count = IF KindOf[f.attempt] = "FALLBACK" THEN @ + 1 ELSE @]
      [] f.type = "ATTEMPT_SUCCEEDED" -> WithUsage(r, f.usage, UnknownCost(e))
      [] f.type = "ATTEMPT_FAILED" -> [r EXCEPT !.cost_complete = FALSE]
      [] f.type = "FINALIZED" -> [r EXCEPT !.status = f.status]
      [] OTHER -> r

(* Mutant of Numbered: the number read before it is advanced. *)
NumberedStale(e, f) ==
    [sequence_number |-> IF f = Created THEN 1 ELSE execution[e].last_event_sequence,
     fact |-> f]

Numbered(e, f) ==
    [sequence_number |-> IF f = Created THEN 1 ELSE execution[e].last_event_sequence + 1,
     fact |-> f]

-----------------------------------------------------------------------------
Init ==
    /\ execution = [e \in Executions |-> NoRow]
    /\ events = [e \in Executions |-> <<>>]
    /\ write = [e \in Executions |-> NoWrite]
    /\ reply = [e \in Executions |-> NULL]

(* A method of the recorder is called; callers finish only what they started. *)
Begin(e, f) ==
    /\ ~Writing(e)
    /\ f.type \in {"ATTEMPT_SUCCEEDED", "ATTEMPT_FAILED"} =>
           HasFact(e, AttemptStarted(f.attempt))
    /\ write' = [write EXCEPT ![e] = [fact |-> f, try |-> 0, committed |-> FALSE]]
    /\ reply' = [reply EXCEPT ![e] = NULL]
    /\ UNCHANGED <<execution, events>>

(* The transaction commits; it inserts unless the event is there already. *)
Commit(e) ==
    /\ Writing(e) /\ ~write[e].committed
    /\ LET f == write[e].fact IN
       \/ /\ Duplicates(e, f)
          /\ UNCHANGED <<execution, events>>
       \/ /\ Appends(e, f)
          /\ execution' = [execution EXCEPT ![e] = Summarised(e, f)]
          /\ events' = [events EXCEPT ![e] = Append(@, Numbered(e, f))]
    /\ write' = [write EXCEPT ![e].committed = TRUE]
    /\ UNCHANGED reply

Answer(e, r) ==
    /\ write' = [write EXCEPT ![e] = NoWrite]
    /\ reply' = [reply EXCEPT ![e] = r]
    /\ UNCHANGED <<execution, events>>

Ack(e) == Writing(e) /\ write[e].committed /\ Answer(e, "ok")

(* AIProvenanceConflict: the event is neither new nor the same, or a new   *)
(* execution names a parent that is not there.  The transaction rolls back *)
(* and the caller is told without a second try.                            *)
Conflict(e) ==
    /\ Writing(e) /\ ~write[e].committed
    /\ ~Duplicates(e, write[e].fact)
    /\ Appends(e, write[e].fact) => write[e].fact = Created
    /\ Answer(e, "error")

(* Mutant of Retry: no limit on the tries. *)
RetryAgain(e) ==
    /\ Writing(e)
    /\ write' = [write EXCEPT ![e] = [@ EXCEPT !.try = @ + 1, !.committed = FALSE]]
    /\ UNCHANGED <<execution, events, reply>>

(* A database error, before the server committed or after. *)
Retry(e) ==
    /\ Writing(e) /\ write[e].try = 0
    /\ write' = [write EXCEPT ![e] = [@ EXCEPT !.try = 1, !.committed = FALSE]]
    /\ UNCHANGED <<execution, events, reply>>

Fail(e) == Writing(e) /\ write[e].try = 1 /\ Answer(e, "error")

Database(e) == Commit(e) \/ Ack(e) \/ Conflict(e) \/ Retry(e) \/ Fail(e)

Next == \E e \in Executions : (\E f \in Facts : Begin(e, f)) \/ Database(e)

Spec == Init /\ [][Next]_vars

-----------------------------------------------------------------------------
(***************************************************************************)
(* Safety.                                                                 *)
(***************************************************************************)

(* "an ordered, append-only lifecycle": events are numbered without a gap  *)
(* although a number is taken from the summary row and tries are repeated, *)
(* and the row and its first event appear together.                        *)
LogOrdered ==
    \A e \in Executions :
        /\ \A i \in DOMAIN events[e] : events[e][i].sequence_number = i
        /\ execution[e].last_event_sequence = Len(events[e])
        /\ Exists(e) <=> events[e] # <<>>
        /\ Exists(e) => events[e][1].fact = Created

(* A write repeated after a lost acknowledgement records nothing twice: a  *)
(* stage is recorded once, an attempt starts once and has one outcome, an  *)
(* execution has one ending, and nothing follows it.                       *)
RecordedOnce ==
    \A e \in Executions : \A i, j \in DOMAIN events[e] : i < j =>
        LET f == events[e][i].fact
            g == events[e][j].fact
        IN /\ f.type # "FINALIZED"
           /\ f.type = g.type => f.attempt # g.attempt
           /\ {f.type, g.type} = {"ATTEMPT_SUCCEEDED", "ATTEMPT_FAILED"} =>
                  f.attempt # g.attempt

FactsOf(e, type) == {i \in DOMAIN events[e] : events[e][i].fact.type = type}
Finished(e) == FactsOf(e, "ATTEMPT_SUCCEEDED") \cup FactsOf(e, "ATTEMPT_FAILED")
StartsOf(e, kind) ==
    {i \in FactsOf(e, "ATTEMPT_STARTED") : KindOf[events[e][i].fact.attempt] = kind}
Costed(e) ==
    {i \in FactsOf(e, "ATTEMPT_SUCCEEDED") : events[e][i].fact.usage.amount # NULL}
Metered(e) ==
    {i \in FactsOf(e, "ATTEMPT_SUCCEEDED") : events[e][i].fact.usage.tokens # NULL}
Currencies(e) == {events[e][i].fact.usage.currency : i \in Costed(e)}

StatusAgrees(e) ==
    /\ \A i \in FactsOf(e, "FINALIZED") : execution[e].status = events[e][i].fact.status
    /\ execution[e].status \in Terminal => FactsOf(e, "FINALIZED") # {}
    /\ execution[e].status = "EXECUTING" => FactsOf(e, "ATTEMPT_STARTED") # {}
    /\ execution[e].status = "CREATED" => FactsOf(e, "ATTEMPT_STARTED") = {}

CountsAgree(e) ==
    /\ execution[e].provider_attempt_count = Cardinality(FactsOf(e, "ATTEMPT_STARTED"))
    /\ execution[e].retry_count = Cardinality(StartsOf(e, "RETRY"))
    /\ execution[e].fallback_count = Cardinality(StartsOf(e, "FALLBACK"))

(* "aggregate usage/cost without overwriting earlier failures": a total    *)
(* that is called complete is the sum over every finished attempt.         *)
CompleteCost ==
    \A e \in Executions : execution[e].cost_complete =>
        /\ Finished(e) = Costed(e)
        /\ execution[e].cost_amount =
               MapThenSumSet(LAMBDA i : events[e][i].fact.usage.amount, Costed(e))

UsageAgrees(e) ==
    /\ execution[e].tokens =
           IF Metered(e) = {} THEN NULL
           ELSE MapThenSumSet(LAMBDA i : events[e][i].fact.usage.tokens, Metered(e))
    /\ Cardinality(Currencies(e)) < 2 =>
           /\ execution[e].cost_complete <=> Costed(e) # {} /\ Finished(e) = Costed(e)
           /\ execution[e].cost_amount =
                  IF Costed(e) = {} THEN NULL
                  ELSE MapThenSumSet(LAMBDA i : events[e][i].fact.usage.amount, Costed(e))

(* The summary row, updated in place by each append, says what its events  *)
(* say together: no retry or fallback overwrites what an earlier attempt   *)
(* cost, and a total is called complete exactly when every finished        *)
(* attempt is in it.  (Prices in two currencies: see CompleteCost.)        *)
SummaryAgrees == \A e \in Executions : StatusAgrees(e) /\ CountsAgree(e) /\ UsageAgrees(e)

-----------------------------------------------------------------------------
(* The tries, the duplicates and the lost acknowledgements implement the   *)
(* simple record: what was acknowledged is there, once, and stays.         *)
SimpleRecord == INSTANCE ExecutionRecord WITH
    Closing <- FinalFacts,
    log <- [e \in Executions |-> [i \in DOMAIN events[e] |-> events[e][i].fact]],
    pending <- [e \in Executions |-> write[e].fact]

ImplementsRecord == SimpleRecord!RecordSpec
=============================================================================
