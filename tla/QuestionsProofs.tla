--------------------------- MODULE QuestionsProofs ---------------------------
(***************************************************************************)
(* Proofs about Questions and QuestionEditing for every set of requests,   *)
(* contents and editors.  The inductive invariant says what a request may  *)
(* still rely on: one that has read the row without a lock relies on it    *)
(* only as long as its version is the committed one (Prepared), and the    *)
(* one whose UPDATE holds the row has seen exactly the committed row       *)
(* (Holding).                                                              *)
(***************************************************************************)
EXTENDS QuestionEditing, TLAPS

(* The abstract specification's guard for the change w of q. *)
Ready(q, w) ==
    /\ w.expected = q.version
    /\ w.target = NULL => q.status = "OPEN" /\ q.content # w.content
    /\ w.target # NULL => Permitted(q.status, w.target)

Creating(r) == asked[r] # NULL /\ Creates(asked[r])

OneCreator ==
    \A r \in Requests : Creating(r) =>
        /\ asked[r] \in Edits /\ pc[r] # "read"
        /\ pc[r] \in {"sent", "written"} => row = Absent
        /\ \A s \in Requests : Creating(s) => s = r

Begun == (\A r \in Requests : pc[r] = "idle") => row = Absent

Unread(r) == pc[r] \in {"idle", "sent"} => seen[r] = Absent

Prepared(r) ==
    pc[r] = "read" =>
        /\ Ready(seen[r], asked[r])
        /\ seen[r].version > 0 /\ seen[r].version <= row.version
        /\ seen[r].version = row.version => seen[r] = row

Holding(r) == pc[r] = "written" => Ready(row, asked[r]) /\ seen[r] = row

Own(r) == Unread(r) /\ Prepared(r) /\ Holding(r)

Inv == /\ TypeOK /\ OneCreator /\ Begun
       /\ \A r \in Requests : Own(r)
       /\ EventsAccounted

-----------------------------------------------------------------------------
(* As long as no request starts or stops counting as applied, and what the *)
(* applied ones read and the committed version stay, so does the account.  *)
LEMMA AccountStays ==
    ASSUME EventsAccounted, row'.version = row.version,
           \A s \in Requests : pc'[s] \in Applied <=> pc[s] \in Applied,
           \A s \in Requests : pc[s] \in Applied => seen'[s] = seen[s]
    PROVE  EventsAccounted'
<1> DEFINE changed == {r \in Requests : pc[r] \in Applied}
<1>1. changed' = changed
  OBVIOUS
<1>2. \A r \in changed : NewVersion(r)' = NewVersion(r)
  BY DEF NewVersion
<1>3. {NewVersion(r)' : r \in changed} = {NewVersion(r) : r \in changed}
  BY <1>2
<1> QED BY <1>1, <1>2, <1>3 DEF EventsAccounted

(* A request that ends without a change relies on nothing any more, and     *)
(* takes nothing from what the others rely on.                             *)
LEMMA Ending ==
    ASSUME Inv, NEW r \in Requests, pc[r] \in Undecided, End(r), Release(r),
           answer' \in [Requests -> Answers \cup {NULL}]
    PROVE  Inv'
<1> USE NullAssumption
<1>1. /\ pc'[r] = "done" /\ asked'[r] = NULL /\ seen'[r] = Absent /\ row' = row
      /\ \A s \in Requests \ {r} : pc'[s] = pc[s] /\ asked'[s] = asked[s] /\ seen'[s] = seen[s]
  BY DEF Inv, TypeOK, End, Goto
<1>2. TypeOK'
  <2>1. Absent \in Question
    BY DEF Absent, Question, QuestionStatus
  <2>2. /\ pc' \in [Requests -> Places] /\ asked' \in [Requests -> Wishes \cup {NULL}]
        /\ seen' \in [Requests -> Question] /\ row' \in Question
        /\ writer' \in Requests \cup {NULL}
    BY <2>1 DEF Inv, TypeOK, End, Goto, Places, Release
  <2>3. ASSUME NEW s \in Requests
        PROVE  /\ writer' = s <=> pc'[s] = "written"
               /\ asked'[s] = NULL <=> pc'[s] \in {"idle", "done"}
    BY <1>1 DEF Inv, TypeOK, Release
  <2> QED BY <2>2, <2>3 DEF TypeOK
<1>3. OneCreator'
  BY <1>1 DEF Inv, OneCreator, Creating
<1>4. Begun'
  BY <1>1 DEF Begun
<1>5. \A s \in Requests : Own(s)'
  BY <1>1 DEF Inv, Own, Unread, Prepared, Holding
<1>6. EventsAccounted'
  BY <1>1, AccountStays DEF Inv, Undecided, Applied
<1> QED BY <1>2, <1>3, <1>4, <1>5, <1>6 DEF Inv

LEMMA Sending ==
    ASSUME Inv, NEW r \in Requests, NEW w \in Wishes, Send(r, w)
    PROVE  Inv'
<1> USE NullAssumption
<1>1. /\ pc[r] = "idle" /\ pc'[r] = "sent" /\ asked'[r] = w /\ w # NULL
      /\ UNCHANGED <<row, writer, seen, answer>>
      /\ \A s \in Requests \ {r} : pc'[s] = pc[s] /\ asked'[s] = asked[s]
  BY DEF Inv, TypeOK, Send, Goto
<1>2. TypeOK'
  <2>1. pc' \in [Requests -> Places] /\ asked' \in [Requests -> Wishes \cup {NULL}]
    BY DEF Inv, TypeOK, Send, Goto, Places, Undecided
  <2>2. ASSUME NEW s \in Requests
        PROVE  /\ writer' = s <=> pc'[s] = "written"
               /\ asked'[s] = NULL <=> pc'[s] \in {"idle", "done"}
    BY <1>1 DEF Inv, TypeOK
  <2> QED BY <1>1, <2>1, <2>2 DEF Inv, TypeOK
<1>3. OneCreator'
  <2>1. CASE Creates(w)
    <3>1. w \in Edits /\ \A s \in Requests : pc[s] = "idle" /\ asked[s] = NULL
      BY <2>1 DEF Send, Inv, TypeOK
    <3>2. row = Absent
      BY <3>1 DEF Inv, Begun
    <3> QED BY <1>1, <3>1, <3>2 DEF OneCreator, Creating
  <2>2. CASE ~Creates(w)
    BY <1>1, <2>2 DEF Inv, OneCreator, Creating
  <2> QED BY <2>1, <2>2
<1>4. Begun'
  BY <1>1 DEF Begun
<1>5. \A s \in Requests : Own(s)'
  BY <1>1 DEF Inv, Own, Unread, Prepared, Holding
<1>6. EventsAccounted'
  BY <1>1, AccountStays DEF Inv, Applied
<1> QED BY <1>2, <1>3, <1>4, <1>5, <1>6 DEF Inv

(* An answer told changes nothing else. *)
LEMMA Telling ==
    ASSUME Inv, NEW r \in Requests, NEW what \in Answers, Tell(r, what)
    PROVE  answer' \in [Requests -> Answers \cup {NULL}]
BY DEF Inv, TypeOK, Tell

(* A request that takes the row, having seen exactly what is committed. *)
LEMMA Taking ==
    ASSUME Inv, NEW r \in Requests, pc[r] \in {"sent", "read"}, writer = NULL,
           Ready(row, asked[r]), seen[r] = row,
           writer' = r, Tell(r, "ok"), Goto(r, "written"), UNCHANGED <<row, asked, seen>>
    PROVE  Inv'
<1> USE NullAssumption
<1>1. /\ pc'[r] = "written" /\ asked' = asked /\ seen' = seen /\ row' = row
      /\ \A s \in Requests \ {r} : pc'[s] = pc[s]
  BY DEF Inv, TypeOK, Goto
<1>2. TypeOK'
  <2>1. answer' \in [Requests -> Answers \cup {NULL}]
    BY Telling DEF Answers
  <2>2. pc' \in [Requests -> Places]
    BY DEF Inv, TypeOK, Goto, Places, Undecided
  <2>3. ASSUME NEW s \in Requests
        PROVE  /\ writer' = s <=> pc'[s] = "written"
               /\ asked'[s] = NULL <=> pc'[s] \in {"idle", "done"}
    BY <1>1 DEF Inv, TypeOK
  <2> QED BY <1>1, <2>1, <2>2, <2>3 DEF Inv, TypeOK
<1>3. OneCreator'
  BY <1>1 DEF Inv, OneCreator, Creating
<1>4. Begun'
  BY <1>1 DEF Begun
<1>5. \A s \in Requests : Own(s)'
  <2>1. Own(r)'
    BY <1>1 DEF Own, Unread, Prepared, Holding, Ready
  <2>2. \A s \in Requests \ {r} : Own(s)'
    BY <1>1 DEF Inv, Own, Unread, Prepared, Holding
  <2> QED BY <2>1, <2>2
<1>6. EventsAccounted'
  BY <1>1, AccountStays DEF Inv, Applied
<1> QED BY <1>2, <1>3, <1>4, <1>5, <1>6 DEF Inv

LEMMA CreatingKeeps ==
    ASSUME Inv, NEW r \in Requests, Create(r)
    PROVE  Inv'
<1> USE NullAssumption
<1>1. Creating(r) /\ asked[r] \in Edits /\ row = Absent
  BY DEF Inv, TypeOK, Create, OneCreator, Creating
<1>2. Ready(row, asked[r])
  BY <1>1 DEF Ready, Creating, Creates, Edits, Absent
<1>3. seen[r] = row
  BY <1>1 DEF Inv, Own, Unread, Create
<1>4. writer = NULL
  <2> SUFFICES ASSUME NEW s \in Requests, writer = s PROVE FALSE
    BY DEF Inv, TypeOK
  <2>1. pc[s] = "written" /\ s # r
    BY DEF Inv, TypeOK, Create
  <2>2. ~Creating(s)
    BY <1>1, <2>1 DEF Inv, OneCreator
  <2>3. asked[s].expected = 0
    BY <1>1, <2>1 DEF Inv, Own, Holding, Ready, Absent
  <2> QED BY <2>1, <2>2, <2>3 DEF Inv, TypeOK, Creating, Creates
<1> QED BY <1>2, <1>3, <1>4, Taking DEF Create

LEMMA ReadingKeeps ==
    ASSUME Inv, NEW r \in Requests, Read(r)
    PROVE  Inv'
<1> USE NullAssumption, AnswerAssumption
<1>1. pc[r] = "sent" /\ ~Creates(asked[r]) /\ asked[r] \in Wishes /\ row \in Question
  BY DEF Inv, TypeOK, Read
<1>2. CASE End(r)
  <2>1. \E what \in Answers : Tell(r, what)
    <3>1. pc'[r] # "read"
      BY <1>2 DEF End, Goto, Inv, TypeOK
    <3>2. ~Goto(r, "read")
      BY <3>1 DEF Goto, Inv, TypeOK
    <3>3. (Tell(r, Refusal(row, asked[r])) /\ Refusal(row, asked[r]) # NULL) \/ Tell(r, "ok")
      BY <3>2 DEF Read
    <3> QED BY <3>3 DEF Refusal, Answers
  <2>2. Release(r)
    BY <1>1 DEF Read, Release, Inv, TypeOK
  <2> QED BY <1>1, <1>2, <2>1, <2>2, Telling, Ending DEF Undecided
<1>3. CASE /\ Refusal(row, asked[r]) = NULL /\ ~AlreadySo(row, asked[r])
           /\ seen' = [seen EXCEPT ![r] = row]
           /\ Goto(r, "read") /\ UNCHANGED <<row, asked, answer, writer>>
  <2>1. /\ pc'[r] = "read" /\ seen'[r] = row /\ asked' = asked /\ row' = row
        /\ \A s \in Requests \ {r} : pc'[s] = pc[s] /\ seen'[s] = seen[s]
    BY <1>3 DEF Inv, TypeOK, Goto
  <2>2. TypeOK'
    <3>1. pc' \in [Requests -> Places] /\ seen' \in [Requests -> Question]
      BY <1>1, <1>3 DEF Inv, TypeOK, Goto, Places, Undecided
    <3>2. ASSUME NEW s \in Requests
          PROVE  /\ writer' = s <=> pc'[s] = "written"
                 /\ asked'[s] = NULL <=> pc'[s] \in {"idle", "done"}
      BY <1>1, <1>3, <2>1 DEF Inv, TypeOK
    <3> QED BY <1>3, <3>1, <3>2 DEF Inv, TypeOK
  <2>3. Ready(row, asked[r]) /\ row.version > 0
    <3>1. row.version # 0 /\ row.version = asked[r].expected /\ row.version \in Nat
      BY <1>1, <1>3 DEF Refusal, Question, Answers
    <3>2. asked[r].target = NULL => row.status = "OPEN" /\ row.content # asked[r].content
      BY <1>3 DEF Refusal, Allows, AlreadySo, Answers
    <3>3. asked[r].target # NULL => Permitted(row.status, asked[r].target)
      BY <1>3 DEF Refusal, Allows, AlreadySo, Answers
    <3> QED BY <3>1, <3>2, <3>3 DEF Ready
  <2>4. OneCreator'
    BY <1>1, <2>1 DEF Inv, OneCreator, Creating
  <2>5. Begun'
    BY <2>1 DEF Begun
  <2>6. \A s \in Requests : Own(s)'
    <3>1. Own(r)'
      BY <1>1, <2>1, <2>3 DEF Own, Unread, Prepared, Holding, Ready, Question
    <3>2. \A s \in Requests \ {r} : Own(s)'
      BY <2>1 DEF Inv, Own, Unread, Prepared, Holding
    <3> QED BY <3>1, <3>2
  <2>7. EventsAccounted'
    BY <1>1, <2>1, AccountStays DEF Inv, Applied
  <2> QED BY <2>2, <2>4, <2>5, <2>6, <2>7 DEF Inv
<1> QED BY <1>2, <1>3 DEF Read

LEMMA FlushingKeeps ==
    ASSUME Inv, NEW r \in Requests, Flush(r)
    PROVE  Inv'
<1>1. pc[r] = "read" /\ writer = NULL
  BY DEF Flush
<1>2. CASE Matches(row, r) /\ writer' = r /\ Tell(r, "ok") /\ Goto(r, "written")
           /\ UNCHANGED <<row, asked, seen>>
  <2>1. seen[r] = row /\ Ready(row, asked[r])
    BY <1>1, <1>2 DEF Inv, Own, Prepared, Matches
  <2> QED BY <1>1, <1>2, <2>1, Taking
<1>3. CASE Tell(r, "VERSION_CONFLICT") /\ End(r) /\ UNCHANGED writer
  <2>1. Release(r)
    BY <1>1, <1>3, NullAssumption DEF Release
  <2> QED BY <1>1, <1>3, <2>1, Telling, Ending DEF Undecided, Answers
<1> QED BY <1>2, <1>3 DEF Flush

(* The commit makes the version after the one every other request has read *)
(* at best, so whoever has read the row finds its version gone.            *)
LEMMA CommittingKeeps ==
    ASSUME Inv, NEW r \in Requests, Commit(r)
    PROVE  Inv' /\ row' = Changed(row, asked[r])
<1> USE NullAssumption
<1>1. /\ pc[r] = "written" /\ writer = r /\ asked[r] \in Wishes /\ row \in Question
      /\ seen[r] = row /\ Ready(row, asked[r])
  BY DEF Inv, TypeOK, Commit, Own, Holding
<1>2. row' = Changed(row, asked[r]) /\ row'.version = row.version + 1
  BY <1>1 DEF Commit, Written, Changed, Question
<1>3. /\ pc'[r] = "committed" /\ asked' = asked /\ seen' = seen /\ writer' = NULL
      /\ answer' = answer
      /\ \A s \in Requests \ {r} : pc'[s] = pc[s] /\ pc[s] # "written"
  BY <1>1 DEF Inv, TypeOK, Commit, Goto
<1>4. row.version \in Nat /\ row'.version \in Nat
  BY <1>1, <1>2 DEF Question
<1>5. TypeOK'
  <2>1. row' \in Question
    BY <1>1, <1>2 DEF Question, Changed, Wishes, Edits, Moves
  <2>2. pc' \in [Requests -> Places]
    BY DEF Inv, TypeOK, Commit, Goto, Places, Applied
  <2>3. ASSUME NEW s \in Requests
        PROVE  /\ writer' = s <=> pc'[s] = "written"
               /\ asked'[s] = NULL <=> pc'[s] \in {"idle", "done"}
    BY <1>1, <1>3 DEF Inv, TypeOK
  <2> QED BY <1>3, <2>1, <2>2, <2>3 DEF Inv, TypeOK
<1>6. OneCreator'
  <2> SUFFICES ASSUME NEW s \in Requests, Creating(s)
               PROVE  /\ asked[s] \in Edits /\ pc'[s] # "read"
                      /\ pc'[s] \notin {"sent", "written"}
                      /\ \A t \in Requests : Creating(t) => t = s
    BY <1>3 DEF OneCreator, Creating
  <2>1. asked[s] \in Edits /\ pc[s] # "read" /\ \A t \in Requests : Creating(t) => t = s
    BY DEF Inv, OneCreator
  <2>2. CASE s = r
    BY <1>3, <2>1, <2>2
  <2>3. CASE s # r
    <3>1. asked[r].expected # 0
      BY <1>1, <2>1, <2>3 DEF Creating, Creates
    <3>2. row # Absent
      BY <1>1, <3>1 DEF Ready, Absent
    <3> QED BY <1>3, <2>1, <2>3, <3>2 DEF Inv, OneCreator
  <2> QED BY <2>2, <2>3
<1>7. Begun'
  BY <1>3 DEF Begun
<1>8. \A s \in Requests : Own(s)'
  <2>1. Own(r)'
    BY <1>3 DEF Own, Unread, Prepared, Holding
  <2>2. ASSUME NEW s \in Requests \ {r} PROVE Own(s)'
    <3>1. pc[s] = "read" => /\ Ready(seen[s], asked[s]) /\ seen[s].version > 0
                            /\ seen[s].version <= row.version /\ seen[s].version \in Nat
      BY DEF Inv, TypeOK, Own, Prepared, Question
    <3>2. Prepared(s)'
      BY <1>2, <1>3, <1>4, <3>1 DEF Prepared, Ready
    <3> QED BY <1>3, <3>2 DEF Inv, Own, Unread, Holding
  <2> QED BY <2>1, <2>2
<1>9. EventsAccounted'
  <2> DEFINE before == {s \in Requests : pc[s] \in Applied}
             after == {s \in Requests : pc'[s] \in Applied}
  <2>1. after = before \cup {r} /\ r \notin before
    BY <1>1, <1>3 DEF Applied
  <2>2. \A s \in Requests : NewVersion(s)' = NewVersion(s)
    BY <1>3 DEF NewVersion
  <2>3. NewVersion(r) = row.version + 1
    BY <1>1 DEF NewVersion
  <2>4. /\ {NewVersion(s) : s \in before} = 1..row.version
        /\ \A s, t \in before : NewVersion(s) = NewVersion(t) => s = t
    BY DEF Inv, EventsAccounted
  <2>5. \A s \in before : NewVersion(s) \in 1..row.version
    BY <2>4
  <2>6. {NewVersion(s)' : s \in after} = 1..row'.version
    <3>1. {NewVersion(s)' : s \in after} = {NewVersion(s) : s \in before} \cup {row.version + 1}
      BY <2>1, <2>2, <2>3
    <3>2. 1..(row.version + 1) = 1..row.version \cup {row.version + 1}
      BY <1>4
    <3> QED BY <1>2, <2>4, <3>1, <3>2
  <2>7. \A s, t \in after : NewVersion(s)' = NewVersion(t)' => s = t
    BY <1>4, <2>1, <2>2, <2>3, <2>4, <2>5
  <2> QED BY <2>6, <2>7 DEF EventsAccounted
<1> QED BY <1>2, <1>5, <1>6, <1>7, <1>8, <1>9 DEF Inv

LEMMA FailingKeeps ==
    ASSUME Inv, NEW r \in Requests, Fail(r)
    PROVE  Inv'
BY Ending DEF Fail, Inv, TypeOK

LEMMA LoggingKeeps ==
    ASSUME Inv, NEW r \in Requests, LogEvent(r)
    PROVE  Inv'
<1>1. /\ pc[r] = "committed" /\ pc'[r] \in {"logged", "silent"}
      /\ UNCHANGED <<row, writer, asked, seen, answer>>
      /\ \A s \in Requests \ {r} : pc'[s] = pc[s]
  BY DEF Inv, TypeOK, LogEvent, Goto
<1>2. TypeOK'
  <2>1. pc' \in [Requests -> Places]
    BY DEF Inv, TypeOK, LogEvent, Goto, Places, Applied
  <2>2. ASSUME NEW s \in Requests
        PROVE  /\ writer' = s <=> pc'[s] = "written"
               /\ asked'[s] = NULL <=> pc'[s] \in {"idle", "done"}
    BY <1>1 DEF Inv, TypeOK
  <2> QED BY <1>1, <2>1, <2>2 DEF Inv, TypeOK
<1>3. OneCreator' /\ Begun'
  BY <1>1 DEF Inv, OneCreator, Creating, Begun
<1>4. \A s \in Requests : Own(s)'
  BY <1>1 DEF Inv, Own, Unread, Prepared, Holding
<1>5. EventsAccounted'
  BY <1>1, AccountStays DEF Inv, Applied
<1> QED BY <1>2, <1>3, <1>4, <1>5 DEF Inv

LEMMA LosingKeeps ==
    ASSUME Inv, NEW r \in Requests, LoseAnswer(r)
    PROVE  Inv'
<1>1. UNCHANGED <<row, writer, asked, pc, seen>>
  BY DEF LoseAnswer
<1>2. answer' \in [Requests -> Answers \cup {NULL}]
  BY Telling DEF LoseAnswer, Answers
<1>3. TypeOK' /\ OneCreator' /\ Begun'
  BY <1>1, <1>2 DEF Inv, TypeOK, OneCreator, Creating, Begun
<1>4. \A s \in Requests : Own(s)'
  BY <1>1 DEF Inv, Own, Unread, Prepared, Holding
<1>5. EventsAccounted'
  BY <1>1, AccountStays DEF Inv
<1> QED BY <1>3, <1>4, <1>5 DEF Inv

-----------------------------------------------------------------------------
LEMMA Starting == Init => Inv
<1> SUFFICES ASSUME Init PROVE Inv
  OBVIOUS
<1> USE NullAssumption
<1>1. Absent \in Question /\ Absent.version = 0
  BY DEF Absent, Question, QuestionStatus
<1>2. TypeOK
  BY <1>1 DEF Init, TypeOK, Places
<1>3. OneCreator /\ Begun
  BY DEF Init, OneCreator, Creating, Begun
<1>4. \A r \in Requests : Own(r)
  BY DEF Init, Own, Unread, Prepared, Holding
<1>5. EventsAccounted
  <2>1. {r \in Requests : pc[r] \in Applied} = {}
    BY DEF Init, Applied
  <2> QED BY <1>1, <2>1 DEF Init, EventsAccounted
<1> QED BY <1>2, <1>3, <1>4, <1>5 DEF Inv

LEMMA Stepping == Inv /\ [Next]_vars => Inv'
<1> SUFFICES ASSUME Inv, [Next]_vars PROVE Inv'
  OBVIOUS
<1>1. ASSUME NEW r \in Requests, NEW w \in Wishes, Send(r, w) PROVE Inv'
  BY <1>1, Sending
<1>2. ASSUME NEW r \in Requests, Serve(r) PROVE Inv'
  BY <1>2, CreatingKeeps, ReadingKeeps, FlushingKeeps, CommittingKeeps, FailingKeeps,
     LoggingKeeps, LosingKeeps DEF Serve
<1>3. CASE UNCHANGED vars
  <2>1. UNCHANGED <<row, writer, asked, pc, seen, answer>>
    BY <1>3 DEF vars
  <2>2. TypeOK' /\ OneCreator' /\ Begun' /\ \A r \in Requests : Own(r)'
    BY <2>1 DEF Inv, TypeOK, OneCreator, Creating, Begun, Own, Unread, Prepared, Holding
  <2>3. EventsAccounted'
    BY <2>1, AccountStays DEF Inv
  <2> QED BY <2>2, <2>3 DEF Inv
<1> QED BY <1>1, <1>2, <1>3 DEF Next

(* The inductive invariant holds of every behaviour. *)
THEOREM Invariance == Spec => []Inv
BY Starting, Stepping, PTL DEF Spec

(* The state of the requests on a question keeps its types, and the row is *)
(* held exactly by the request whose UPDATE is not yet committed.          *)
THEOREM TypeCorrect == Spec => []TypeOK
<1>1. Inv => TypeOK
  BY DEF Inv
<1> QED BY <1>1, Invariance, PTL

(* Every version of a question was made by exactly one committed request,  *)
(* and only committed requests have their events logged, whatever races,   *)
(* fails after its answer or dies before its event.                        *)
THEOREM EveryVersionAccounted == Spec => []EventsAccounted
<1>1. Inv => EventsAccounted
  BY DEF Inv
<1> QED BY <1>1, Invariance, PTL

-----------------------------------------------------------------------------
(* The abstract wishes. *)
Wishing == [r \in Requests |-> IF pc[r] \in Undecided THEN asked[r] ELSE NULL]

LEMMA Leaving ==
    ASSUME Inv, NEW r \in Requests, pc[r] \in Undecided, End(r)
    PROVE  Versioned!Leave(r)
<1>1. /\ pc'[r] = "done" /\ row' = row
      /\ \A s \in Requests \ {r} : pc'[s] = pc[s] /\ asked'[s] = asked[s]
  BY DEF Inv, TypeOK, End, Goto
<1>2. Wishing[r] # NULL
  BY DEF Inv, TypeOK, Wishing, Undecided
<1>3. Wishing' = [Wishing EXCEPT ![r] = NULL]
  BY <1>1 DEF Wishing, Undecided
<1> QED BY <1>1, <1>2, <1>3 DEF Versioned!Leave, Wishing

(* What neither decides a request nor asks anything is invisible. *)
LEMMA Unseen ==
    ASSUME row' = row, asked' = asked,
           \A s \in Requests : pc'[s] \in Undecided <=> pc[s] \in Undecided
    PROVE  UNCHANGED Versioned!questionVars
<1>1. Wishing' = Wishing
  BY DEF Wishing
<1> QED BY <1>1 DEF Versioned!questionVars, Wishing

LEMMA StepRefines == Inv /\ [Next]_vars => [Versioned!VNext]_(Versioned!questionVars)
<1> SUFFICES ASSUME Inv, [Next]_vars PROVE [Versioned!VNext]_(Versioned!questionVars)
  OBVIOUS
<1>1. ASSUME NEW r \in Requests, NEW w \in Wishes, Send(r, w) PROVE Versioned!Want(r)
  <2>1. /\ pc[r] = "idle" /\ pc'[r] = "sent" /\ asked'[r] = w /\ row' = row
        /\ \A s \in Requests \ {r} : pc'[s] = pc[s] /\ asked'[s] = asked[s]
    BY <1>1 DEF Inv, TypeOK, Send, Goto
  <2>2. Wishing[r] = NULL /\ Wishing'[r] = w
    BY <2>1 DEF Wishing, Undecided
  <2>3. Wishing' = [Wishing EXCEPT ![r] = Wishing'[r]]
    BY <2>1, <2>2 DEF Wishing
  <2> QED BY <2>1, <2>2, <2>3 DEF Versioned!Want, Wishing, Versioned!Wishes, Versioned!Edits,
          Versioned!Moves, Versioned!QuestionStatus, Wishes, Edits, Moves, QuestionStatus
<1>2. ASSUME NEW r \in Requests, Serve(r)
      PROVE  Versioned!Apply(r) \/ Versioned!Leave(r) \/ UNCHANGED Versioned!questionVars
  <2>1. CASE Create(r)
    BY <2>1, Unseen DEF Create, Goto, Inv, TypeOK, Undecided
  <2>2. CASE Read(r)
    <3>1. pc[r] \in Undecided
      BY <2>2 DEF Read, Undecided
    <3>2. CASE End(r)
      BY <3>1, <3>2, Leaving
    <3>3. CASE Goto(r, "read") /\ UNCHANGED <<row, asked>>
      BY <3>1, <3>3, Unseen DEF Goto, Inv, TypeOK, Undecided
    <3> QED BY <2>2, <3>2, <3>3 DEF Read
  <2>3. CASE Flush(r)
    <3>1. pc[r] \in Undecided
      BY <2>3 DEF Flush, Undecided
    <3>2. CASE End(r)
      BY <3>1, <3>2, Leaving
    <3>3. CASE Goto(r, "written") /\ UNCHANGED <<row, asked>>
      BY <3>1, <3>3, Unseen DEF Goto, Inv, TypeOK, Undecided
    <3> QED BY <2>3, <3>2, <3>3 DEF Flush
  <2>4. CASE Commit(r)
    <3>1. /\ pc[r] = "written" /\ pc'[r] = "committed" /\ asked' = asked
          /\ \A s \in Requests \ {r} : pc'[s] = pc[s]
      BY <2>4 DEF Inv, TypeOK, Commit, Goto
    <3>2. Ready(row, asked[r]) /\ row' = Changed(row, asked[r])
      BY <2>4, <3>1, CommittingKeeps DEF Inv, Own, Holding
    <3>3. Wishing[r] = asked[r] /\ asked[r] # NULL
      BY <3>1 DEF Inv, TypeOK, Wishing, Undecided
    <3>4. Wishing' = [Wishing EXCEPT ![r] = NULL]
      BY <3>1 DEF Wishing, Undecided
    <3>5. Versioned!Apply(r)
      BY <3>2, <3>3, <3>4 DEF Versioned!Apply, Wishing, Ready, Changed, Versioned!Changed,
         Permitted, Versioned!Permitted
    <3> QED BY <3>5
  <2>5. CASE Fail(r)
    BY <2>5, Leaving DEF Fail
  <2>6. CASE LogEvent(r)
    BY <2>6, Unseen DEF LogEvent, Goto, Inv, TypeOK, Undecided
  <2>7. CASE LoseAnswer(r)
    BY <2>7, Unseen DEF LoseAnswer
  <2> QED BY <1>2, <2>1, <2>2, <2>3, <2>4, <2>5, <2>6, <2>7 DEF Serve
<1>3. CASE UNCHANGED vars
  BY <1>3, Unseen DEF vars
<1> QED BY <1>1, <1>2, <1>3 DEF Next, Versioned!VNext

(* The question behaves as if every change were made in one step by a      *)
(* request that names the version it replaces, on content only while OPEN  *)
(* and on the status only along the lifecycle.                             *)
THEOREM VersionedImplemented == Spec => ImplementsVersioned
<1>1. Init => Versioned!VInit
  BY DEF Init, Versioned!VInit, Undecided, Absent, Versioned!Absent
<1> QED BY <1>1, Invariance, StepRefines, PTL DEF Spec, ImplementsVersioned, Versioned!VSpec

-----------------------------------------------------------------------------
(* Editing: what the pages show, on top of the requests' invariant. *)

EditingInv == Inv /\ page \in [Editors -> Question] /\ PagesAgree

(* Every step of editing is a step of the requests or none of theirs. *)
LEMMA EditingStep == EditingInv /\ [ENext]_allVars => [Next]_vars
<1> SUFFICES ASSUME EditingInv, [ENext]_allVars PROVE [Next]_vars
  OBVIOUS
<1>1. ASSUME NEW e \in Editors, NEW r \in Requests, CreateQuestion(e, r) PROVE Next
  <2>1. PICK c \in Contents : Send(r, [expected |-> 0, content |-> c, target |-> NULL])
    BY <1>1 DEF CreateQuestion
  <2>2. [expected |-> 0, content |-> c, target |-> NULL] \in Wishes
    BY DEF Wishes, Edits
  <2> QED BY <2>1, <2>2 DEF Next
<1>2. ASSUME NEW e \in Editors, NEW r \in Requests, Save(e, r) PROVE Next
  <2>1. PICK c \in Contents :
            Send(r, [expected |-> page[e].version, content |-> c, target |-> NULL])
    BY <1>2 DEF Save
  <2>2. page[e].version \in Nat
    BY DEF EditingInv, Question
  <2>3. [expected |-> page[e].version, content |-> c, target |-> NULL] \in Wishes
    BY <2>2 DEF Wishes, Edits
  <2> QED BY <2>1, <2>3 DEF Next
<1>3. ASSUME NEW e \in Editors, NEW r \in Requests, Act(e, r) PROVE Next
  <2>1. PICK s \in QuestionStatus :
            Send(r, [expected |-> page[e].version, content |-> NULL, target |-> s])
    BY <1>3 DEF Act
  <2>2. page[e].version \in Nat
    BY DEF EditingInv, Question
  <2>3. [expected |-> page[e].version, content |-> NULL, target |-> s] \in Wishes
    BY <2>2 DEF Wishes, Moves
  <2> QED BY <2>1, <2>3 DEF Next
<1>4. ASSUME NEW e \in Editors,
             \/ Load(e) \/ BeginEdit(e) \/ CancelEdit(e) \/ HearSave(e) \/ HearAct(e) \/ Refresh(e)
      PROVE  UNCHANGED vars
  BY <1>4 DEF Load, BeginEdit, CancelEdit, HearSave, HearAct, Refresh
<1>5. ASSUME NEW r \in Requests, Serve(r) PROVE Next
  BY <1>5 DEF Next
<1>6. CASE UNCHANGED allVars
  BY <1>6 DEF allVars
<1> QED BY <1>1, <1>2, <1>3, <1>4, <1>5, <1>6 DEF ENext

LEMMA RowAdvances ==
    ASSUME Inv, [Next]_vars
    PROVE  row' = row \/ row'.version = row.version + 1
<1>1. ASSUME NEW r \in Requests, Commit(r) PROVE row'.version = row.version + 1
  BY <1>1, CommittingKeeps DEF Changed
<1>2. ASSUME NEW r \in Requests, Serve(r), ~Commit(r) PROVE row' = row
  BY <1>2 DEF Serve, Create, Read, Flush, Fail, End, LogEvent, LoseAnswer
<1> QED BY <1>1, <1>2 DEF Next, Send, vars

(* A page shows what it showed, or the committed row.                      *)
LEMMA PagesMove ==
    ASSUME EditingInv, [ENext]_allVars
    PROVE  /\ page' \in [Editors -> Question]
           /\ \A e \in Editors : page'[e] = page[e] \/ (page'[e] = row /\ row' = row)
<1>1. ASSUME NEW e \in Editors, page' = [page EXCEPT ![e] = row], UNCHANGED vars
      PROVE  /\ page' \in [Editors -> Question]
             /\ \A f \in Editors : page'[f] = page[f] \/ (page'[f] = row /\ row' = row)
  BY <1>1 DEF EditingInv, Inv, TypeOK, vars
<1>2. CASE page' = page
  BY <1>2 DEF EditingInv
<1>3. page' = page \/ \E e \in Editors : (page' = [page EXCEPT ![e] = row] /\ UNCHANGED vars)
  BY DEF ENext, allVars, webVars, CreateQuestion, Load, BeginEdit, CancelEdit, Save, Act,
         HearSave, HearAct, Refresh
<1> QED BY <1>1, <1>2, <1>3

LEMMA EditingKeeps == EditingInv /\ [ENext]_allVars => EditingInv'
<1> SUFFICES ASSUME EditingInv, [ENext]_allVars PROVE EditingInv'
  OBVIOUS
<1>1. [Next]_vars /\ Inv
  BY EditingStep DEF EditingInv
<1>2. Inv'
  BY <1>1, Stepping
<1>3. row' = row \/ row'.version = row.version + 1
  BY <1>1, RowAdvances
<1>4. /\ page' \in [Editors -> Question]
      /\ \A e \in Editors : page'[e] = page[e] \/ (page'[e] = row /\ row' = row)
  BY PagesMove
<1>5. row.version \in Nat /\ \A e \in Editors : page[e].version \in Nat
  BY <1>1 DEF EditingInv, Inv, TypeOK, Question
<1>6. PagesAgree'
  BY <1>3, <1>4, <1>5 DEF EditingInv, PagesAgree
<1> QED BY <1>2, <1>4, <1>6 DEF EditingInv

LEMMA EditingStarts == EInit => EditingInv
<1> SUFFICES ASSUME EInit PROVE EditingInv
  OBVIOUS
<1>1. Inv
  BY Starting DEF EInit
<1>2. row = Absent /\ page = [e \in Editors |-> row] /\ row \in Question
  BY <1>1 DEF EInit, Init, Inv, TypeOK
<1> QED BY <1>1, <1>2 DEF EditingInv, PagesAgree, Question

(* Whatever consultants do in their browsers, the requests they send are   *)
(* requests of Questions, so the results above hold of editing as well.    *)
THEOREM EditingIsRequests == ESpec => Spec
<1>1. EInit => Init
  BY DEF EInit
<1> QED BY <1>1, EditingStarts, EditingKeeps, EditingStep, PTL DEF ESpec, Spec

(* Pages that show the same version of a question show the same question.  *)
THEOREM VersionsNameQuestions == ESpec => []PagesAgree
<1>1. EditingInv => PagesAgree
  BY DEF EditingInv
<1> QED BY <1>1, EditingStarts, EditingKeeps, PTL DEF ESpec
=============================================================================
