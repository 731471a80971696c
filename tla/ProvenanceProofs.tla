-------------------------- MODULE ProvenanceProofs --------------------------
(***************************************************************************)
(* Proofs about Provenance for every set of executions, attempts and       *)
(* usages.  The inductive invariant Inv adds to the types that events are  *)
(* numbered in order, that no two share a deduplication key, that a        *)
(* FINALIZED event leaves the summary terminal, and that a committed write *)
(* has its event in the log.                                               *)
(***************************************************************************)
EXTENDS Provenance, SequenceTheorems, TLAPS

Keyed ==
    \A e \in Executions : \A i, j \in DOMAIN events[e] :
        DedupKey(events[e][i].fact) = DedupKey(events[e][j].fact) => i = j

Closed ==
    \A e \in Executions : \A i \in DOMAIN events[e] :
        events[e][i].fact.type = "FINALIZED" =>
            /\ i = Len(events[e])
            /\ execution[e].status \in Terminal

Stored ==
    \A e \in Executions : Writing(e) /\ write[e].committed => HasFact(e, write[e].fact)

Inv == TypeOK /\ LogOrdered /\ Keyed /\ Closed /\ Stored

-----------------------------------------------------------------------------
(* Which fields a fact of each type has. *)
LEMMA FactShape ==
    ASSUME NEW f \in Facts
    PROVE  /\ f \in [type: EventType, attempt: Optional(Attempts), usage: Optional(Usages),
                     status: Optional(Status)]
           /\ f.type = "FINALIZED" => f.status \in Terminal
           /\ f.type = "ATTEMPT_SUCCEEDED" => f.usage \in Usages
           /\ f.type \in {"ATTEMPT_STARTED", "ATTEMPT_SUCCEEDED", "ATTEMPT_FAILED"}
                <=> f.attempt # NULL
           /\ f.type = "EXECUTION_CREATED" <=> f = Created
           /\ f # NULL
<1>1. CASE f = Created
  BY <1>1, ProvenanceAssumption DEF Created, Fact, Optional, EventType, AllStages
<1>2. CASE f \in StageFacts
  BY <1>2, ProvenanceAssumption DEF StageFacts, Passed, Created, Fact, Optional, AllStages, EventType
<1>3. CASE f \in AttemptFacts
  BY <1>3, ProvenanceAssumption DEF AttemptFacts, AttemptStarted, AttemptSucceeded,
     AttemptFailed, Created, Fact, Optional, EventType, AllStages
<1>4. CASE f \in FinalFacts
  BY <1>4, ProvenanceAssumption DEF FinalFacts, Finalized, Created, Fact, Optional, EventType,
     AllStages, Status, Terminal
<1> QED BY <1>1, <1>2, <1>3, <1>4, ProvenanceAssumption DEF Facts

(* The summary a transaction leaves is a row, one event further. *)
LEMMA UsageRow ==
    ASSUME NEW r \in Row, NEW u \in Usages, NEW b \in BOOLEAN
    PROVE  /\ WithUsage(r, u, b) \in Row
           /\ WithUsage(r, u, b).status = r.status
           /\ WithUsage(r, u, b).last_event_sequence = r.last_event_sequence
<1>1. /\ u.tokens \in Nat \cup {NULL} /\ u.amount \in Nat \cup {NULL}
      /\ u.currency \in {v.currency : v \in Usages}
  BY ProvenanceAssumption
<1>2. AddOptional(r.tokens, u.tokens) \in Optional(Nat)
  BY <1>1, ProvenanceAssumption DEF AddOptional, Row, Optional
<1> DEFINE s == [r EXCEPT !.tokens = AddOptional(@, u.tokens)]
<1>3. s \in Row /\ s.status = r.status /\ s.last_event_sequence = r.last_event_sequence
      /\ s.cost_amount = r.cost_amount /\ s.cost_complete \in BOOLEAN
  BY <1>2 DEF Row
<1> HIDE DEF s
<1>4. CASE u.amount = NULL
  BY <1>3, <1>4 DEF WithUsage, Row, s
<1>5. CASE u.amount # NULL /\ r.cost_amount = NULL
  <2>1. WithUsage(r, u, b) = [s EXCEPT !.cost_amount = u.amount, !.cost_currency = u.currency,
                                       !.cost_complete = ~b]
    BY <1>5 DEF WithUsage, s
  <2> QED BY <2>1, <1>1, <1>3, <1>5 DEF Row, Optional
<1>6. CASE u.amount # NULL /\ r.cost_amount # NULL /\ r.cost_currency # u.currency
  <2>1. WithUsage(r, u, b) = [s EXCEPT !.cost_amount = NULL, !.cost_currency = NULL,
                                       !.cost_complete = FALSE]
    BY <1>6 DEF WithUsage, s
  <2> QED BY <2>1, <1>3 DEF Row, Optional
<1>7. CASE u.amount # NULL /\ r.cost_amount # NULL /\ r.cost_currency = u.currency
  <2> DEFINE total == s.cost_amount + u.amount
             complete == s.cost_complete /\ ~b
  <2>1. WithUsage(r, u, b) = [s EXCEPT !.cost_amount = total, !.cost_complete = complete]
    BY <1>7 DEF WithUsage, s
  <2>2. s.cost_amount \in Nat /\ u.amount \in Nat
    BY <1>1, <1>3, <1>7 DEF Row, Optional
  <2>3. total \in Optional(Nat) /\ complete \in BOOLEAN
    BY <2>2 DEF Optional
  <2> HIDE DEF total, complete
  <2> QED BY <2>1, <2>3, <1>3 DEF Row
<1> QED BY <1>4, <1>5, <1>6, <1>7

LEMMA SummaryRow ==
    ASSUME TypeOK, NEW e \in Executions, NEW f \in Facts, Appends(e, f)
    PROVE  /\ Summarised(e, f) \in Row
           /\ Summarised(e, f).status # NULL
           /\ Summarised(e, f).last_event_sequence = Numbered(e, f).sequence_number
           /\ f.type = "FINALIZED" => Summarised(e, f).status \in Terminal
<1>1. execution[e] \in Row
  BY DEF TypeOK
<1> DEFINE r == [execution[e] EXCEPT !.last_event_sequence = @ + 1]
<1>2. /\ r \in Row /\ r.last_event_sequence = execution[e].last_event_sequence + 1
      /\ r.status = execution[e].status
  BY <1>1 DEF Row
<1> HIDE DEF r
<1>3. CASE f = Created
  <2>1. Summarised(e, f) = NewRow /\ f.type # "FINALIZED"
    BY <1>3 DEF Summarised, Created, Fact
  <2>2. NewRow \in Row /\ NewRow.status = "CREATED" /\ NewRow.last_event_sequence = 1
    BY DEF NewRow, NoRow, Row, Optional, Status
  <2>3. Numbered(e, f).sequence_number = 1
    BY <1>3 DEF Numbered
  <2> QED BY <2>1, <2>2, <2>3, ProvenanceAssumption DEF Status
<1>4. CASE f # Created
  <2>1. /\ execution[e].status # NULL
        /\ Numbered(e, f).sequence_number = execution[e].last_event_sequence + 1
    BY <1>4 DEF Appends, Exists, Numbered
  <2>2. CASE f.type = "ATTEMPT_STARTED"
    <3>1. NumberOf[f.attempt] \in Nat
      BY <2>2, FactShape, ProvenanceAssumption DEF Optional
    <3> DEFINE retries == IF KindOf[f.attempt] = "RETRY" THEN r.retry_count + 1
                          ELSE r.retry_count
               fallbacks == IF KindOf[f.attempt] = "FALLBACK" THEN r.fallback_count + 1
                            ELSE r.fallback_count
    <3>2. Summarised(e, f) =
           [r EXCEPT !.status = "EXECUTING", !.provider_attempt_count = NumberOf[f.attempt],
                     !.retry_count = retries, !.fallback_count = fallbacks]
      BY <1>4, <2>2 DEF Summarised, r
    <3>3. retries \in Nat /\ fallbacks \in Nat
      BY <1>2 DEF Row
    <3>4. "EXECUTING" \in Optional(Status) /\ "EXECUTING" # NULL
      BY ProvenanceAssumption DEF Status, Optional
    <3> HIDE DEF retries, fallbacks
    <3> QED BY <2>1, <2>2, <3>1, <3>2, <3>3, <3>4, <1>2 DEF Row
  <2>3. CASE f.type = "ATTEMPT_SUCCEEDED"
    <3>1. f.usage \in Usages /\ UnknownCost(e) \in BOOLEAN
      BY <2>3, FactShape DEF UnknownCost
    <3>2. Summarised(e, f) = WithUsage(r, f.usage, UnknownCost(e))
      BY <1>4, <2>3 DEF Summarised, r
    <3> HIDE DEF r
    <3> QED BY <2>1, <2>3, <3>1, <3>2, <1>2, UsageRow
  <2>4. CASE f.type = "ATTEMPT_FAILED"
    <3>1. Summarised(e, f) = [r EXCEPT !.cost_complete = FALSE]
      BY <1>4, <2>4 DEF Summarised, r
    <3> QED BY <2>1, <2>4, <3>1, <1>2 DEF Row
  <2>5. CASE f.type = "FINALIZED"
    <3>1. Summarised(e, f) = [r EXCEPT !.status = f.status]
      BY <1>4, <2>5 DEF Summarised, r
    <3>2. f.status \in Terminal
      BY <2>5, FactShape
    <3> QED BY <2>1, <3>1, <3>2, <1>2, ProvenanceAssumption DEF Row, Optional, Status
  <2>6. CASE f.type \notin {"ATTEMPT_STARTED", "ATTEMPT_SUCCEEDED", "ATTEMPT_FAILED", "FINALIZED"}
    <3>1. Summarised(e, f) = r
      BY <1>4, <2>6 DEF Summarised, r
    <3> QED BY <2>1, <2>6, <3>1, <1>2
  <2> QED BY <2>2, <2>3, <2>4, <2>5, <2>6
<1> QED BY <1>3, <1>4

-----------------------------------------------------------------------------
LEMMA InitInv == Init => Inv
<1> SUFFICES ASSUME Init PROVE Inv
  OBVIOUS
<1>1. TypeOK
  BY ProvenanceAssumption DEF Init, TypeOK, NoRow, Row, NoWrite, Write, Optional
<1>2. LogOrdered
  BY DEF Init, LogOrdered, Exists, NoRow
<1>3. Keyed /\ Closed /\ Stored
  BY DEF Init, Keyed, Closed, Stored, Writing, NoWrite
<1> QED BY <1>1, <1>2, <1>3 DEF Inv

(* The transaction that inserts preserves every part. *)
LEMMA AppendInv ==
    ASSUME Inv, NEW e \in Executions, NEW f \in Facts,
           f = write[e].fact, Appends(e, f),
           execution' = [execution EXCEPT ![e] = Summarised(e, f)],
           events' = [events EXCEPT ![e] = Append(@, Numbered(e, f))],
           write' = [write EXCEPT ![e].committed = TRUE],
           UNCHANGED reply
    PROVE  Inv'
<1> DEFINE n == Len(events[e])
           new == Numbered(e, f)
<1>0. /\ events[e] \in Seq(Event) /\ n \in Nat
      /\ DOMAIN events[e] = 1..n /\ execution[e] \in Row
  <2>1. events[e] \in Seq(Event) /\ execution[e] \in Row
    BY DEF Inv, TypeOK
  <2> QED BY <2>1, LenProperties
<1>1. new.fact = f /\ new.sequence_number = n + 1
  <2>1. f = Created => n = 0
    BY <1>0 DEF Appends, Inv, LogOrdered
  <2> QED BY <2>1, <1>0 DEF Numbered, Inv, LogOrdered
<1>2. new \in Event
  BY <1>1, <1>0 DEF Numbered, Event
<1> HIDE DEF new
<1>3. /\ events'[e] = Append(events[e], new) /\ Len(events'[e]) = n + 1
      /\ DOMAIN events'[e] = 1..(n + 1) /\ DOMAIN events[e] = 1..n
      /\ \A i \in 1..n : events'[e][i] = events[e][i]
      /\ events'[e][n + 1] = new
      /\ events'[e] \in Seq(Event)
  <2>1. events'[e] = Append(events[e], new)
    BY DEF Inv, TypeOK, new
  <2> QED BY <1>0, <1>2, <2>1, AppendProperties
<1>4. \A d \in Executions \ {e} : events'[d] = events[d] /\ execution'[d] = execution[d]
  BY DEF Inv, TypeOK
<1>5. execution'[e] = Summarised(e, f)
  BY DEF Inv, TypeOK
<1>6. /\ execution'[e] \in Row /\ execution'[e].status # NULL
      /\ execution'[e].last_event_sequence = n + 1
      /\ f.type = "FINALIZED" => execution'[e].status \in Terminal
  BY <1>1, <1>5, SummaryRow DEF Inv, new
<1>7. TypeOK'
  <2>1. execution' \in [Executions -> Row]
    BY <1>5, <1>6 DEF Inv, TypeOK
  <2>2. events' \in [Executions -> Seq(Event)]
    BY <1>3 DEF Inv, TypeOK
  <2>3. write' \in [Executions -> Write]
    BY DEF Inv, TypeOK, Write
  <2> QED BY <2>1, <2>2, <2>3 DEF Inv, TypeOK
<1>8. LogOrdered'
  <2> SUFFICES ASSUME NEW d \in Executions
               PROVE  /\ \A i \in DOMAIN events'[d] : events'[d][i].sequence_number = i
                      /\ execution'[d].last_event_sequence = Len(events'[d])
                      /\ execution'[d].status # NULL <=> events'[d] # <<>>
                      /\ execution'[d].status # NULL => events'[d][1].fact = Created
    BY DEF LogOrdered, Exists
  <2>1. CASE d # e
    BY <2>1, <1>4 DEF Inv, LogOrdered, Exists
  <2>2. CASE d = e
    <3>1. \A i \in 1..(n + 1) : events'[e][i].sequence_number = i
      BY <1>0, <1>1, <1>3 DEF Inv, LogOrdered
    <3>2. events'[e] # <<>>
      <4>1. Len(events'[e]) # 0
        BY <1>0, <1>3
      <4> QED BY <4>1
    <3>3. events'[e][1].fact = Created
      <4>1. CASE n = 0
        <5>1. f = Created
          BY <4>1, <1>0 DEF Appends, Inv, LogOrdered
        <5> QED BY <4>1, <5>1, <1>1, <1>3
      <4>2. CASE n # 0
        BY <4>2, <1>0, <1>3 DEF Inv, LogOrdered
      <4> QED BY <4>1, <4>2
    <3> QED BY <2>2, <1>3, <1>6, <3>1, <3>2, <3>3
  <2> QED BY <2>1, <2>2
<1>9. \A i \in 1..n : /\ DedupKey(events[e][i].fact) # DedupKey(f)
                      /\ events[e][i].fact.type # "FINALIZED"
  <2>1. CASE f = Created
    <3>1. n = 0
      BY <2>1, <1>0 DEF Appends, Inv, LogOrdered
    <3> QED BY <3>1
  <2>2. CASE f # Created
    BY <2>2, <1>3 DEF Appends, HasKey, Inv, Closed
  <2> QED BY <2>1, <2>2
<1>10. Keyed'
  <2> SUFFICES ASSUME NEW d \in Executions,
                      NEW i \in DOMAIN events'[d], NEW j \in DOMAIN events'[d],
                      DedupKey(events'[d][i].fact) = DedupKey(events'[d][j].fact)
               PROVE  i = j
    BY DEF Keyed, DedupKey
  <2>1. CASE d # e
    BY <2>1, <1>4 DEF Inv, Keyed
  <2>2. CASE d = e
    <3>1. CASE i \in 1..n /\ j \in 1..n
      BY <2>2, <3>1, <1>3 DEF Inv, Keyed
    <3>2. CASE i = n + 1 /\ j \in 1..n
      BY <2>2, <3>2, <1>1, <1>3, <1>9
    <3>3. CASE i \in 1..n /\ j = n + 1
      BY <2>2, <3>3, <1>1, <1>3, <1>9
    <3>4. CASE i = n + 1 /\ j = n + 1
      BY <3>4
    <3> QED BY <2>2, <1>0, <1>3, <3>1, <3>2, <3>3, <3>4
  <2> QED BY <2>1, <2>2
<1>11. Closed'
  <2> SUFFICES ASSUME NEW d \in Executions, NEW i \in DOMAIN events'[d],
                      events'[d][i].fact.type = "FINALIZED"
               PROVE  i = Len(events'[d]) /\ execution'[d].status \in Terminal
    BY DEF Closed
  <2>1. CASE d # e
    BY <2>1, <1>4 DEF Inv, Closed
  <2>2. CASE d = e
    <3>1. i = n + 1
      BY <2>2, <1>0, <1>3, <1>9
    <3> QED BY <2>2, <3>1, <1>1, <1>3, <1>6
  <2> QED BY <2>1, <2>2
<1>12. Stored'
  <2> SUFFICES ASSUME NEW d \in Executions, write'[d].fact # NULL, write'[d].committed
               PROVE  \E i \in DOMAIN events'[d] : events'[d][i].fact = write'[d].fact
    BY DEF Stored, Writing, HasFact
  <2>1. CASE d # e
    BY <2>1, <1>4 DEF Inv, TypeOK, Stored, Writing, HasFact
  <2>2. CASE d = e
    <3>1. write'[e].fact = f
      BY DEF Inv, TypeOK
    <3> QED BY <2>2, <3>1, <1>0, <1>1, <1>3
  <2> QED BY <2>1, <2>2
<1> QED BY <1>7, <1>8, <1>10, <1>11, <1>12 DEF Inv

(* Nothing else touches the ledger. *)
LEMMA KeepInv ==
    ASSUME Inv, UNCHANGED <<execution, events>>, TypeOK', Stored'
    PROVE  Inv'
<1>1. LogOrdered'
  BY DEF Inv, LogOrdered, Exists
<1>2. Keyed'
  BY DEF Inv, Keyed
<1>3. Closed'
  BY DEF Inv, Closed
<1> QED BY <1>1, <1>2, <1>3 DEF Inv

Second(w) == [w EXCEPT !.try = 1, !.committed = FALSE]

LEMMA SecondTry == ASSUME NEW w \in Write PROVE Second(w) \in Write /\ ~Second(w).committed
<1>1. [w EXCEPT !.try = 1] \in Write
  BY DEF Write
<1>2. Second(w) = [[w EXCEPT !.try = 1] EXCEPT !.committed = FALSE]
  BY DEF Second
<1> QED BY <1>1, <1>2 DEF Write

LEMMA StepInv == Inv /\ [Next]_vars => Inv'
<1> SUFFICES ASSUME Inv, [Next]_vars PROVE Inv'
  OBVIOUS
<1>1. ASSUME NEW e \in Executions, NEW f \in Facts, Begin(e, f) PROVE Inv'
  <2>1. TypeOK'
    <3>1. [fact |-> f, try |-> 0, committed |-> FALSE] \in Write
      BY DEF Write, Optional
    <3>3. write' \in [Executions -> Write]
      BY <1>1, <3>1 DEF Begin, Inv, TypeOK
    <3>2. reply' \in [Executions -> {NULL, "ok", "error"}]
      BY <1>1 DEF Begin, Inv, TypeOK
    <3> QED BY <1>1, <3>2, <3>3 DEF Begin, Inv, TypeOK
  <2>2. Stored'
    BY <1>1 DEF Begin, Inv, TypeOK, Stored, Writing, HasFact
  <2> QED BY <1>1, <2>1, <2>2, KeepInv DEF Begin
<1>2. ASSUME NEW e \in Executions, Commit(e) PROVE Inv'
  <2> DEFINE f == write[e].fact
  <2>1. f \in Facts
    BY <1>2 DEF Commit, Writing, Inv, TypeOK, Write, Optional
  <2>2. CASE Duplicates(e, f) /\ UNCHANGED <<execution, events>>
    <3>1. TypeOK'
      BY <1>2, <2>2 DEF Commit, Inv, TypeOK, Write
    <3>2. HasFact(e, f)
      <4>1. CASE f = Created
        <5>1. events[e] # <<>> /\ events[e][1].fact = Created /\ events[e] \in Seq(Event)
          BY <2>2, <4>1 DEF Duplicates, Inv, LogOrdered, TypeOK
        <5>2. 1 \in DOMAIN events[e]
          BY <5>1
        <5> QED BY <4>1, <5>1, <5>2 DEF HasFact
      <4>2. CASE f # Created
        BY <2>2, <4>2 DEF Duplicates
      <4> QED BY <4>1, <4>2
    <3>3. Stored'
      BY <1>2, <2>2, <3>2 DEF Commit, Inv, TypeOK, Stored, Writing, HasFact
    <3> QED BY <2>2, <3>1, <3>3, KeepInv
  <2>3. CASE /\ Appends(e, f)
             /\ execution' = [execution EXCEPT ![e] = Summarised(e, f)]
             /\ events' = [events EXCEPT ![e] = Append(@, Numbered(e, f))]
    BY <1>2, <2>1, <2>3, AppendInv DEF Commit
  <2> QED BY <1>2, <2>2, <2>3 DEF Commit
<1>3. ASSUME NEW e \in Executions, NEW r \in {"ok", "error"}, Answer(e, r) PROVE Inv'
  <2>1. TypeOK'
    <3>1. NoWrite \in Write
      BY DEF NoWrite, Write, Optional
    <3>2. write' \in [Executions -> Write]
      BY <1>3, <3>1 DEF Answer, Inv, TypeOK
    <3>3. reply' \in [Executions -> {NULL, "ok", "error"}]
      BY <1>3 DEF Answer, Inv, TypeOK
    <3> QED BY <1>3, <3>2, <3>3 DEF Answer, Inv, TypeOK
  <2>2. Stored'
    BY <1>3 DEF Answer, Inv, TypeOK, Stored, Writing, HasFact, NoWrite
  <2> QED BY <1>3, <2>1, <2>2, KeepInv DEF Answer
<1>4. ASSUME NEW e \in Executions, Retry(e) PROVE Inv'
  <2>1. TypeOK'
    <3>1. write[e] \in Write
      BY DEF Inv, TypeOK
    <3>2. write' = [write EXCEPT ![e] = Second(write[e])]
      BY <1>4 DEF Retry, Second
    <3>3. Second(write[e]) \in Write
      BY <3>1, SecondTry
    <3> QED BY <1>4, <3>2, <3>3 DEF Retry, Inv, TypeOK
  <2>2. Stored'
    BY <1>4 DEF Retry, Inv, TypeOK, Stored, Writing, HasFact
  <2> QED BY <1>4, <2>1, <2>2, KeepInv DEF Retry
<1>5. CASE UNCHANGED vars
  <2>1. TypeOK' /\ Stored'
    BY <1>5 DEF vars, Inv, TypeOK, Stored, Writing, HasFact
  <2> QED BY <1>5, <2>1, KeepInv DEF vars
<1> QED BY <1>1, <1>2, <1>3, <1>4, <1>5 DEF Next, Database, Ack, Conflict, Fail

THEOREM Invariance == Spec => []Inv
<1> QED BY InitInv, StepInv, PTL DEF Spec

(* Every row, event and write of the ledger keeps its type. *)
THEOREM TypeCorrect == Spec => []TypeOK
<1> QED BY Invariance, PTL DEF Inv

(* Events are numbered without gaps and the summary holds the last number, *)
(* whatever tries fail or are repeated.                                    *)
THEOREM EventsOrdered == Spec => []LogOrdered
<1> QED BY Invariance, PTL DEF Inv

LEMMA KeyedOnce == Inv => RecordedOnce
<1> SUFFICES ASSUME Inv, NEW e \in Executions,
                    NEW i \in DOMAIN events[e], NEW j \in DOMAIN events[e], i < j
             PROVE  /\ events[e][i].fact.type # "FINALIZED"
                    /\ events[e][i].fact.type = events[e][j].fact.type =>
                          events[e][i].fact.attempt # events[e][j].fact.attempt
                    /\ {events[e][i].fact.type, events[e][j].fact.type}
                            = {"ATTEMPT_SUCCEEDED", "ATTEMPT_FAILED"} =>
                          events[e][i].fact.attempt # events[e][j].fact.attempt
  BY DEF RecordedOnce
<1> DEFINE f == events[e][i].fact
           g == events[e][j].fact
<1>1. events[e] \in Seq(Event) /\ Len(events[e]) \in Nat /\ DOMAIN events[e] = 1..Len(events[e])
  <2>1. events[e] \in Seq(Event)
    BY DEF Inv, TypeOK
  <2> QED BY <2>1, LenProperties
<1>2. i \in Nat /\ j \in Nat /\ j <= Len(events[e]) /\ i # j
  BY <1>1
<1>3. DedupKey(f) # DedupKey(g)
  BY <1>2 DEF Inv, Keyed
<1>4. f \in Facts /\ g \in Facts
  <2>1. events[e][i] \in Event /\ events[e][j] \in Event
    BY <1>1, ElementOfSeq
  <2> QED BY <2>1 DEF Event
<1>5. f.type # "FINALIZED"
  BY <1>2 DEF Inv, Closed
<1>6. ASSUME f.type = g.type, f.attempt = g.attempt PROVE FALSE
  BY <1>3, <1>6 DEF DedupKey
<1>7. ASSUME {f.type, g.type} = {"ATTEMPT_SUCCEEDED", "ATTEMPT_FAILED"}, f.attempt = g.attempt
      PROVE  FALSE
  <2>1. /\ f.type \in {"ATTEMPT_SUCCEEDED", "ATTEMPT_FAILED"}
        /\ g.type \in {"ATTEMPT_SUCCEEDED", "ATTEMPT_FAILED"}
    BY <1>7
  <2> QED BY <1>3, <1>7, <2>1 DEF DedupKey
<1> QED BY <1>5, <1>6, <1>7

(* A repeated write records nothing twice, and nothing follows an ending. *)
THEOREM NothingTwice == Spec => []RecordedOnce
<1> QED BY Invariance, KeyedOnce, PTL

-----------------------------------------------------------------------------
Log(e) == [i \in DOMAIN events[e] |-> events[e][i].fact]

LEMMA RecordInitMaps == Init => SimpleRecord!RecordInit
<1> SUFFICES ASSUME Init PROVE SimpleRecord!RecordInit
  OBVIOUS
<1>1. \A e \in Executions : Log(e) = <<>>
  BY DEF Init, Log
<1> QED BY <1>1 DEF Init, SimpleRecord!RecordInit, Log, NoWrite

LEMMA LogSeq ==
    ASSUME NEW e \in Executions, events[e] \in Seq(Event)
    PROVE  /\ Log(e) \in Seq(Facts) /\ Len(Log(e)) = Len(events[e])
           /\ \A i \in 1..Len(events[e]) : Log(e)[i] = events[e][i].fact
<1> DEFINE n == Len(events[e])
<1>1. n \in Nat /\ DOMAIN events[e] = 1..n
  BY LenProperties
<1>2. ASSUME NEW i \in 1..n PROVE events[e][i].fact \in Facts
  <2>1. events[e][i] \in Event
    BY <1>1, ElementOfSeq
  <2> QED BY <2>1 DEF Event
<1>3. Log(e) = [i \in 1..n |-> events[e][i].fact]
  BY <1>1 DEF Log
<1>4. Log(e) \in [1..n -> Facts]
  BY <1>2, <1>3
<1>5. Log(e) \in Seq(Facts)
  BY <1>1, <1>4, SeqDef
<1>6. Len(Log(e)) = n
  BY <1>1, <1>3, <1>5, LenProperties
<1> QED BY <1>3, <1>5, <1>6

(* A transaction that inserts is the abstract Record. *)
LEMMA AppendRecords ==
    ASSUME Inv, NEW e \in Executions, NEW f \in Facts,
           f = write[e].fact, Appends(e, f), Writing(e),
           events' = [events EXCEPT ![e] = Append(@, Numbered(e, f))],
           write' = [write EXCEPT ![e].committed = TRUE],
           UNCHANGED reply
    PROVE  SimpleRecord!Record(e)
<1> DEFINE n == Len(events[e])
           new == Numbered(e, f)
<1>1. events[e] \in Seq(Event) /\ n \in Nat /\ DOMAIN events[e] = 1..n
  <2>1. events[e] \in Seq(Event)
    BY DEF Inv, TypeOK
  <2> QED BY <2>1, LenProperties
<1>2. new.fact = f
  BY DEF Numbered
<1>3. f = Created => n = 0
  BY <1>1 DEF Appends, Inv, LogOrdered
<1>4. \A i \in 1..n : events[e][i].fact # f
  BY <1>1, <1>3 DEF Appends, HasKey
<1>5. \A i \in 1..n : events[e][i].fact \notin FinalFacts
  <2>1. \A i \in 1..n : events[e][i].fact.type # "FINALIZED"
    BY <1>1, <1>3 DEF Appends, Inv, Closed
  <2> QED BY <2>1 DEF FinalFacts, Finalized, Fact
<1> HIDE DEF new
<1>6. /\ DOMAIN events'[e] = 1..(n + 1)
      /\ \A i \in 1..n : events'[e][i] = events[e][i]
      /\ events'[e][n + 1] = new
  <2>1. events'[e] = Append(events[e], new)
    BY DEF Inv, TypeOK, new
  <2>2. new \in Event
    <3>1. new.sequence_number \in Nat
      BY DEF new, Numbered, Inv, TypeOK, Row
    <3> QED BY <1>2, <3>1 DEF new, Numbered, Event
  <2> QED BY <1>1, <2>1, <2>2, AppendProperties
<1>7. [i \in DOMAIN events'[e] |-> events'[e][i].fact] = Append(Log(e), f)
  <2>1. /\ Log(e) \in Seq(Facts) /\ Len(Log(e)) = n
        /\ \A i \in 1..n : Log(e)[i] = events[e][i].fact
    BY <1>1, LogSeq
  <2>2. /\ Append(Log(e), f) \in Seq(Facts) /\ Len(Append(Log(e), f)) = n + 1
        /\ \A i \in 1..n : Append(Log(e), f)[i] = events[e][i].fact
        /\ Append(Log(e), f)[n + 1] = f
    BY <2>1, <1>1, AppendProperties
  <2>3. DOMAIN Append(Log(e), f) = 1..(n + 1)
    BY <2>2, LenProperties
  <2>4. ASSUME NEW i \in 1..(n + 1)
        PROVE  events'[e][i].fact = Append(Log(e), f)[i]
    <3>0. i \in 1..n \/ i = n + 1
      BY <1>1
    <3>1. CASE i \in 1..n
      BY <3>1, <1>6, <2>2
    <3>2. CASE i = n + 1
      BY <3>2, <1>2, <1>6, <2>2
    <3> QED BY <3>0, <3>1, <3>2
  <2>5. Append(Log(e), f) = [i \in 1..(n + 1) |-> Append(Log(e), f)[i]]
    BY <2>2, <2>3
  <2> QED BY <1>6, <2>4, <2>5
<1>8. \A d \in Executions \ {e} : events'[d] = events[d]
  BY DEF Inv, TypeOK
<1>9. [d \in Executions |-> [i \in DOMAIN events'[d] |-> events'[d][i].fact]]
        = [[d \in Executions |-> Log(d)] EXCEPT ![e] = Append(@, f)]
  <2> DEFINE new_log(d) == [i \in DOMAIN events'[d] |-> events'[d][i].fact]
  <2>1. new_log(e) = Append(Log(e), f)
    BY <1>7
  <2>2. \A d \in Executions \ {e} : new_log(d) = Log(d)
    BY <1>8 DEF Log
  <2> HIDE DEF new_log
  <2>3. [d \in Executions |-> new_log(d)]
          = [[d \in Executions |-> Log(d)] EXCEPT ![e] = Append(Log(e), f)]
    BY <2>1, <2>2
  <2> QED BY <2>3 DEF new_log
<1>10. [d \in Executions |-> write'[d].fact] = [d \in Executions |-> write[d].fact]
  BY DEF Inv, TypeOK, Write
<1> QED BY <1>1, <1>4, <1>5, <1>9, <1>10 DEF SimpleRecord!Record, SimpleRecord!Recorded,
      SimpleRecord!IsClosed, Log, Writing

(* Every step is one of the simple record's, or none. *)
LEMMA StepRecords ==
    Inv /\ [Next]_vars => [SimpleRecord!RecordNext]_SimpleRecord!recordVars
<1> SUFFICES ASSUME Inv, [Next]_vars
             PROVE  [SimpleRecord!RecordNext]_SimpleRecord!recordVars
  OBVIOUS
<1>1. ASSUME NEW e \in Executions, NEW f \in Facts, Begin(e, f)
      PROVE  SimpleRecord!Ask(e, f)
  <2>1. [d \in Executions |-> write'[d].fact]
          = [[d \in Executions |-> write[d].fact] EXCEPT ![e] = f]
    BY <1>1 DEF Begin, Inv, TypeOK
  <2> QED BY <1>1, <2>1 DEF Begin, Writing, SimpleRecord!Ask
<1>2. ASSUME NEW e \in Executions, Commit(e)
      PROVE  SimpleRecord!Record(e) \/ UNCHANGED SimpleRecord!recordVars
  <2>1. write[e].fact \in Facts
    BY <1>2 DEF Commit, Writing, Inv, TypeOK, Write, Optional
  <2>2. CASE UNCHANGED <<execution, events>>
    <3>1. [d \in Executions |-> write'[d].fact] = [d \in Executions |-> write[d].fact]
      BY <1>2 DEF Commit, Inv, TypeOK, Write
    <3> QED BY <1>2, <2>2, <3>1 DEF Commit, SimpleRecord!recordVars
  <2>3. CASE /\ Appends(e, write[e].fact)
             /\ events' = [events EXCEPT ![e] = Append(@, Numbered(e, write[e].fact))]
    BY <1>2, <2>1, <2>3, AppendRecords DEF Commit
  <2> QED BY <1>2, <2>2, <2>3 DEF Commit
<1>3. ASSUME NEW e \in Executions, NEW r \in {"ok", "error"}, Answer(e, r)
      PROVE  [d \in Executions |-> write'[d].fact]
               = [[d \in Executions |-> write[d].fact] EXCEPT ![e] = NULL]
  BY <1>3 DEF Answer, Inv, TypeOK, NoWrite
<1>4. ASSUME NEW e \in Executions, Ack(e) PROVE SimpleRecord!Confirm(e)
  <2>1. HasFact(e, write[e].fact)
    BY <1>4 DEF Ack, Inv, Stored
  <2>2. \E i \in DOMAIN Log(e) : Log(e)[i] = write[e].fact
    BY <2>1 DEF HasFact, Log
  <2> QED BY <1>3, <1>4, <2>2 DEF Ack, Answer, Writing, Log, SimpleRecord!Confirm,
        SimpleRecord!Recorded
<1>5. ASSUME NEW e \in Executions, Writing(e), Answer(e, "error")
      PROVE  SimpleRecord!GiveUp(e)
  BY <1>3, <1>5 DEF Answer, Writing, SimpleRecord!GiveUp
<1>6. ASSUME NEW e \in Executions, Retry(e) PROVE UNCHANGED SimpleRecord!recordVars
  <2>1. \A d \in Executions : write'[d].fact = write[d].fact
    <3>1. write' = [write EXCEPT ![e] = Second(write[e])]
      BY <1>6 DEF Retry, Second
    <3>2. Second(write[e]).fact = write[e].fact
      BY DEF Second, Inv, TypeOK, Write
    <3> QED BY <3>1, <3>2 DEF Inv, TypeOK
  <2> QED BY <1>6, <2>1 DEF Retry, SimpleRecord!recordVars
<1>7. CASE UNCHANGED vars
  BY <1>7 DEF vars, SimpleRecord!recordVars
<1>8. CASE \E e \in Executions : \E f \in Facts : Begin(e, f)
  BY <1>1, <1>8 DEF SimpleRecord!RecordNext
<1>9. CASE \E e \in Executions : Database(e)
  <2> SUFFICES ASSUME NEW e \in Executions, Database(e)
               PROVE  [SimpleRecord!RecordNext]_SimpleRecord!recordVars
    BY <1>9
  <2> QED BY <1>2, <1>4, <1>5, <1>6 DEF Database, Conflict, Fail, SimpleRecord!RecordNext
<1> QED BY <1>7, <1>8, <1>9 DEF Next

(* The ledger implements the simple record: what a caller was told is      *)
(* recorded was recorded once, before anything closed the execution.       *)
THEOREM RecordImplemented == Spec => ImplementsRecord
<1> QED BY Invariance, RecordInitMaps, StepRecords, PTL
        DEF Spec, ImplementsRecord, SimpleRecord!RecordSpec
=============================================================================
