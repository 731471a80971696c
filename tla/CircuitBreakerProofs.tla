------------------------ MODULE CircuitBreakerProofs ------------------------
(***************************************************************************)
(* What CircuitBreaker guarantees for every number of callers, routes and  *)
(* providers, every setting and every clock skew.                          *)
(***************************************************************************)
EXTENDS CircuitBreaker, TLAPS

-----------------------------------------------------------------------------
(* The row operations keep the type and the shape of a row. *)

LEMMA ElapsedType ==
    ASSUME NEW w \in Row, NEW now \in Int
    PROVE  Elapsed(w, now) \in Int
BY CircuitAssumption DEF Elapsed, Row

LEMMA ClosedRow == Closed \in Row /\ Shaped(Closed)
BY CircuitAssumption DEF Closed, Row, CircuitState, Shaped

LEMMA HalfOpenedRow ==
    ASSUME NEW w \in Row, NEW now \in Int
    PROVE  /\ HalfOpened(w, now) \in Row
           /\ Shaped(w) => Shaped(HalfOpened(w, now))
<1>1. HalfOpened(w, now) \in Row
  BY DEF HalfOpened, Row, CircuitState
<1>2. ASSUME Shaped(w) PROVE Shaped(HalfOpened(w, now))
  BY <1>2, CircuitAssumption DEF HalfOpened, Row, CircuitState, Shaped
<1> QED BY <1>1, <1>2

LEMMA WithLeaseRow ==
    ASSUME NEW w \in Row, NEW now \in Int
    PROVE  /\ WithLease(w, now) \in Row
           /\ Shaped(w) => Shaped(WithLease(w, now))
BY CircuitAssumption DEF WithLease, Row, CircuitState, Shaped

LEMMA OpenRow ==
    ASSUME NEW w \in Row, NEW now \in Int
    PROVE  Open(w, now) \in Row /\ Shaped(Open(w, now))
BY CircuitAssumption DEF Open, Row, CircuitState, Shaped

LEMMA SuccessRow ==
    ASSUME NEW w \in Row
    PROVE  /\ ApplySuccess(w) \in Row
           /\ Shaped(w) => Shaped(ApplySuccess(w))
<1> DEFINE counted == [w EXCEPT !.half_open_successes = @ + 1, !.probe_lease_until = NULL]
<1>1. CASE w.state = "HALF_OPEN" /\ w.half_open_successes + 1 < SuccessThreshold
  <2>1. ApplySuccess(w) = counted
    BY <1>1 DEF ApplySuccess
  <2>2. counted \in Row
    <3>1. w.half_open_successes + 1 \in Nat
      BY DEF Row
    <3> QED BY <3>1 DEF Row
  <2>3. /\ counted.state = "HALF_OPEN"
        /\ counted.opened_at = w.opened_at
        /\ counted.half_open_successes = w.half_open_successes + 1
    BY <1>1 DEF Row
  <2> HIDE DEF counted
  <2> QED BY <1>1, <2>1, <2>2, <2>3 DEF Shaped
<1>2. CASE ~(w.state = "HALF_OPEN" /\ w.half_open_successes + 1 < SuccessThreshold)
  BY <1>2, ClosedRow DEF ApplySuccess
<1> QED BY <1>1, <1>2

LEMMA CountedRow ==
    ASSUME NEW w \in Row, NEW now \in Int
    PROVE  /\ Counted(w, now) \in Row
           /\ Counted(w, now).state = w.state
           /\ Counted(w, now).opened_at = w.opened_at
           /\ Counted(w, now).half_open_successes = w.half_open_successes
           /\ Counted(w, now).probe_lease_until = w.probe_lease_until
           /\ Counted(w, now).window_started_at # NULL
           /\ Counted(w, now).failure_count > 0
<1>1. CASE WindowOver(w, now)
  <2>1. Counted(w, now) = [w EXCEPT !.window_started_at = now, !.failure_count = 1]
    BY <1>1 DEF Counted
  <2>2. now # NULL
    BY CircuitAssumption
  <2>3. Counted(w, now) \in Row
    <3>1. 1 \in Nat /\ now \in Int \cup {NULL}
      OBVIOUS
    <3> QED BY <2>1, <3>1 DEF Row
  <2>4. /\ Counted(w, now).state = w.state
        /\ Counted(w, now).opened_at = w.opened_at
        /\ Counted(w, now).half_open_successes = w.half_open_successes
        /\ Counted(w, now).probe_lease_until = w.probe_lease_until
        /\ Counted(w, now).window_started_at = now
        /\ Counted(w, now).failure_count = 1
    BY <2>1 DEF Row
  <2> QED BY <2>2, <2>3, <2>4
<1>2. CASE ~WindowOver(w, now)
  <2>1. w.window_started_at # NULL
    BY <1>2 DEF WindowOver
  <2>2. Counted(w, now) = [w EXCEPT !.failure_count = @ + 1]
    BY <1>2 DEF Counted
  <2> QED BY <2>1, <2>2 DEF Row
<1> QED BY <1>1, <1>2

LEMMA FailureRow ==
    ASSUME NEW w \in Row, NEW now \in Int
    PROVE  /\ ApplyFailure(w, now) \in Row
           /\ Shaped(w) => Shaped(ApplyFailure(w, now))
<1>1. ApplyFailure(w, now) \in Row
  BY OpenRow, CountedRow DEF ApplyFailure
<1>2. ASSUME Shaped(w) PROVE Shaped(ApplyFailure(w, now))
  <2>1. CASE w.state = "HALF_OPEN" \/ Counted(w, now).failure_count >= FailureThreshold
    BY <2>1, OpenRow, CountedRow DEF ApplyFailure
  <2>2. CASE w.state # "HALF_OPEN" /\ ~(Counted(w, now).failure_count >= FailureThreshold)
    <3>1. Counted(w, now).failure_count \in Nat
      BY CountedRow DEF Row
    <3>2. ApplyFailure(w, now) = Counted(w, now)
      BY <2>2 DEF ApplyFailure
    <3> DEFINE v == Counted(w, now)
    <3>3. /\ v.state = w.state /\ v.opened_at = w.opened_at
          /\ v.half_open_successes = w.half_open_successes
          /\ v.probe_lease_until = w.probe_lease_until
          /\ v.window_started_at # NULL /\ v.failure_count > 0
      BY CountedRow
    <3>4. v.failure_count < FailureThreshold
      BY <2>2, <3>1, CircuitAssumption
    <3>5. Shaped(v)
      <4> HIDE DEF v
      <4> QED BY <1>2, <2>2, <3>1, <3>3, <3>4 DEF Shaped
    <3> QED BY <3>2, <3>5
  <2> QED BY <2>1, <2>2
<1> QED BY <1>1, <1>2

LEMMA AgedRow ==
    ASSUME NEW w \in Row
    PROVE  /\ Aged(w) \in Row
           /\ Shaped(w) => Shaped(Aged(w))
<1>1. ASSUME NEW t \in Int \cup {NULL}, NEW floor \in Int
      PROVE  /\ Earlier(t, floor) \in Int \cup {NULL}
             /\ Earlier(t, floor) = NULL <=> t = NULL
  BY CircuitAssumption DEF Earlier
<1> DEFINE v == Aged(w)
<1>2. -OpenSeconds \in Int /\ -FailureWindow - 1 \in Int /\ 0 \in Int
  BY CircuitAssumption
<1>3. /\ v \in Row
      /\ v.state = w.state /\ v.failure_count = w.failure_count
      /\ v.half_open_successes = w.half_open_successes
      /\ v.opened_at = NULL <=> w.opened_at = NULL
      /\ v.window_started_at = NULL <=> w.window_started_at = NULL
      /\ v.probe_lease_until = NULL <=> w.probe_lease_until = NULL
  BY <1>1, <1>2 DEF Aged, Row
<1> HIDE DEF v
<1>4. Shaped(w) => Shaped(v)
  BY <1>3 DEF Shaped
<1> QED BY <1>3, <1>4 DEF v

-----------------------------------------------------------------------------
(***************************************************************************)
(* Type correctness.                                                       *)
(***************************************************************************)

LEMMA KeysAreKeys == ASSUME NEW r \in Routes PROVE Keys(r) \subseteq Key
BY CircuitAssumption DEF Keys, Key

LEMMA InFlightRoute ==
    ASSUME TypeOK, NEW c \in Callers, InFlight(c)
    PROVE  call[c].route \in Routes
BY DEF TypeOK, InFlight

LEMMA SkewInt == \A c \in Callers : Skew[c] \in Int /\ Skew[c] >= 0
BY CircuitAssumption

LEMMA InitTypeOK == Init => TypeOK
BY ClosedRow DEF Init, TypeOK, Idle

LEMMA NextTypeOK == TypeOK /\ [Next]_vars => TypeOK'
<1> SUFFICES ASSUME TypeOK, [Next]_vars PROVE TypeOK'
  OBVIOUS
<1>1. ASSUME NEW c \in Callers, NEW r \in Routes, Admit(c, r) PROVE TypeOK'
  BY <1>1, HalfOpenedRow, WithLeaseRow, SkewInt DEF TypeOK, Admit
<1>2. ASSUME NEW c \in Callers, NEW r \in Routes, Deny(c, r) PROVE TypeOK'
  BY <1>2, HalfOpenedRow, SkewInt DEF TypeOK, Deny
<1>3. ASSUME NEW c \in Callers, RecordSuccess(c) PROVE TypeOK'
  BY <1>3, SuccessRow DEF TypeOK, RecordSuccess, Idle
<1>4. ASSUME NEW c \in Callers, RecordFailure(c) PROVE TypeOK'
  BY <1>4, FailureRow, SkewInt DEF TypeOK, RecordFailure, Idle
<1>5. ASSUME NEW c \in Callers, Abandon(c) PROVE TypeOK'
  BY <1>5 DEF TypeOK, Abandon, Idle
<1>6. CASE Tick
  BY <1>6, AgedRow DEF TypeOK, Tick
<1>7. CASE UNCHANGED vars
  BY <1>7 DEF TypeOK, vars
<1> QED BY <1>1, <1>2, <1>3, <1>4, <1>5, <1>6, <1>7 DEF Next, BeforeCall

(* Every reachable state is well typed. *)
THEOREM TypeCorrect == Spec => []TypeOK
<1> QED BY InitTypeOK, NextTypeOK, PTL DEF Spec

-----------------------------------------------------------------------------
(***************************************************************************)
(* Every row keeps its shape, and with it peek agrees with before_call.    *)
(***************************************************************************)

LEMMA NextRowShape == TypeOK /\ RowShape /\ [Next]_vars => RowShape'
<1> SUFFICES ASSUME TypeOK, RowShape, [Next]_vars, NEW k \in Key
             PROVE  Shaped(row'[k])
  BY DEF RowShape
<1>0. row[k] \in Row /\ Shaped(row[k])
  BY DEF TypeOK, RowShape
<1>1. ASSUME NEW c \in Callers, NEW r \in Routes, Admit(c, r) PROVE Shaped(row'[k])
  BY <1>0, <1>1, HalfOpenedRow, WithLeaseRow, SkewInt DEF Admit
<1>2. ASSUME NEW c \in Callers, NEW r \in Routes, Deny(c, r) PROVE Shaped(row'[k])
  BY <1>0, <1>2, HalfOpenedRow, SkewInt DEF Deny
<1>3. ASSUME NEW c \in Callers, RecordSuccess(c) PROVE Shaped(row'[k])
  BY <1>0, <1>3, SuccessRow DEF RecordSuccess
<1>4. ASSUME NEW c \in Callers, RecordFailure(c) PROVE Shaped(row'[k])
  BY <1>0, <1>4, FailureRow, SkewInt DEF RecordFailure
<1>5. ASSUME NEW c \in Callers, Abandon(c) PROVE Shaped(row'[k])
  BY <1>0, <1>5 DEF Abandon
<1>6. CASE Tick
  BY <1>0, <1>6, AgedRow DEF Tick
<1>7. CASE UNCHANGED vars
  BY <1>0, <1>7 DEF vars
<1> QED BY <1>1, <1>2, <1>3, <1>4, <1>5, <1>6, <1>7 DEF Next, BeforeCall

(* No late, duplicated or concurrent answer leaves a row in a mixed state. *)
THEOREM RowsWellShaped == Spec => []RowShape
<1>1. Init => RowShape
  BY ClosedRow DEF Init, RowShape
<1> QED BY <1>1, NextRowShape, TypeCorrect, PTL DEF Spec

LEMMA PeekIsCall ==
    ASSUME NEW w \in Row, Shaped(w), NEW now \in Int
    PROVE  Allowed(w, now) <=> Allowed(HalfOpened(w, now), now)
<1>1. CASE w.state = "OPEN" /\ ~Blocked(w, now)
  <2> DEFINE h == HalfOpened(w, now)
  <2>1. h.state = "HALF_OPEN" /\ h.probe_lease_until = NULL
    BY <1>1 DEF HalfOpened, Row
  <2>2. w.probe_lease_until = NULL
    BY <1>1 DEF Shaped
  <2>3. ~Blocked(h, now) /\ ~Leased(h, now)
    <3> HIDE DEF h
    <3> QED BY <2>1 DEF Blocked, Leased
  <2>4. ~Leased(w, now)
    BY <2>2 DEF Leased
  <2> QED BY <1>1, <2>3, <2>4 DEF Allowed
<1>2. CASE ~(w.state = "OPEN" /\ ~Blocked(w, now))
  BY <1>2 DEF HalfOpened
<1> QED BY <1>1, <1>2

(* A capability shown to the browser is what the next call would be told.  *)
THEOREM PeekIsHonest == Spec => []PeekAgrees
<1>1. TypeOK /\ RowShape => PeekAgrees
  <2> SUFFICES ASSUME TypeOK, RowShape, NEW c \in Callers, NEW r \in Routes
               PROVE  PeekAllows(c, r) <=> CallAllows(c, r)
    BY DEF PeekAgrees
  <2>1. \A k \in Keys(r) : row[k] \in Row /\ Shaped(row[k])
    BY KeysAreKeys DEF TypeOK, RowShape
  <2> QED BY <2>1, PeekIsCall, SkewInt DEF PeekAllows, CallAllows
<1> QED BY <1>1, TypeCorrect, RowsWellShaped, PTL

-----------------------------------------------------------------------------
(***************************************************************************)
(* One probe at a time.  When every call ends before its lease and before  *)
(* the open interval, an OPEN row has only calls sent before it opened,    *)
(* and the call in flight through a HALF_OPEN row owns its lease.          *)
(***************************************************************************)

AgeBounded == \A c \in Callers : InFlight(c) =>
                  call[c].since <= 0 /\ -CallSeconds <= call[c].since

SentBeforeOpening(k) ==
    row[k].state = "OPEN" =>
        \E o \in Callers : \A c \in Callers :
            OnKey(c, k) => call[c].since <= row[k].opened_at - Skew[o]

LoneProbe(k) ==
    row[k].state = "HALF_OPEN" =>
        \A c \in Callers : OnKey(c, k) =>
            /\ row[k].probe_lease_until = call[c].since + Skew[c] + ProbeLease
            /\ \A d \in Callers : OnKey(d, k) => c = d

Calm(k) == SentBeforeOpening(k) /\ LoneProbe(k)

ProbeInv == AgeBounded /\ \A k \in Key : Calm(k)

LEMMA NextAgeBounded == TypeOK /\ AgeBounded /\ [Next]_vars => AgeBounded'
<1> SUFFICES ASSUME TypeOK, AgeBounded, [Next]_vars PROVE AgeBounded'
  OBVIOUS
<1> USE CircuitAssumption DEF TypeOK, AgeBounded, InFlight, Idle
<1>1. ASSUME NEW c \in Callers, NEW r \in Routes, Admit(c, r) PROVE AgeBounded'
  BY <1>1 DEF Admit
<1>2. ASSUME NEW c \in Callers, NEW r \in Routes, Deny(c, r) PROVE AgeBounded'
  BY <1>2 DEF Deny
<1>3. ASSUME NEW c \in Callers, End(c) PROVE AgeBounded'
  BY <1>3 DEF End, RecordSuccess, RecordFailure, Abandon
<1>4. CASE Tick
  BY <1>4 DEF Tick
<1>5. CASE UNCHANGED vars
  BY <1>5 DEF vars
<1> QED BY <1>1, <1>2, <1>3, <1>4, <1>5 DEF Next, BeforeCall, End

(* Losing calls through a row that does not change disturbs nothing. *)
LEMMA FewerCallsCalm ==
    ASSUME NEW k \in Key, Calm(k), row'[k] = row[k],
           \A c \in Callers : OnKey(c, k)' => OnKey(c, k) /\ call'[c] = call[c]
    PROVE  Calm(k)'
BY DEF Calm, SentBeforeOpening, LoneProbe

(* Through an OPEN row whose interval is over for some clock, and through a *)
(* HALF_OPEN row that admits somebody, nothing is in flight.                *)
LEMMA NobodyLeft ==
    ASSUME TypeOK, RowShape, ProbeInv, TimelyAnswers,
           NEW k \in Key, NEW c \in Callers,
           \/ row[k].state = "OPEN" /\ ~Blocked(row[k], Skew[c])
           \/ row[k].state = "HALF_OPEN" /\ ~Leased(row[k], Skew[c])
    PROVE  \A d \in Callers : ~OnKey(d, k)
<1> SUFFICES ASSUME NEW d \in Callers, OnKey(d, k) PROVE FALSE
  OBVIOUS
<1>1. /\ call[d].since \in Int /\ -CallSeconds <= call[d].since
      /\ Skew[c] \in Int /\ Skew[d] \in Int
      /\ CallSeconds \in Int /\ OpenSeconds \in Int /\ ProbeLease \in Int
  BY SkewInt, CircuitAssumption DEF TypeOK, ProbeInv, AgeBounded, OnKey
<1>2. CASE row[k].state = "OPEN" /\ ~Blocked(row[k], Skew[c])
  <2>1. row[k].opened_at \in Int /\ row[k].opened_at # NULL
    BY <1>2 DEF TypeOK, Row, RowShape, Shaped
  <2>2. Skew[c] - row[k].opened_at >= OpenSeconds
    BY <1>1, <1>2, <2>1 DEF Blocked, Elapsed
  <2>3. PICK o \in Callers : call[d].since <= row[k].opened_at - Skew[o]
    BY <1>2 DEF ProbeInv, Calm, SentBeforeOpening
  <2>4. CallSeconds + Skew[c] - Skew[o] < OpenSeconds /\ Skew[o] \in Int
    BY SkewInt DEF TimelyAnswers
  <2> QED BY <1>1, <2>1, <2>2, <2>3, <2>4
<1>3. CASE row[k].state = "HALF_OPEN" /\ ~Leased(row[k], Skew[c])
  <2>1. row[k].probe_lease_until = call[d].since + Skew[d] + ProbeLease
    BY <1>3 DEF ProbeInv, Calm, LoneProbe
  <2>2. CallSeconds + Skew[c] - Skew[d] < ProbeLease
    BY DEF TimelyAnswers
  <2>3. row[k].probe_lease_until # NULL
    BY <1>1, <2>1, CircuitAssumption
  <2>4. ~(row[k].probe_lease_until > Skew[c])
    BY <1>3, <2>3 DEF Leased
  <2> QED BY <1>1, <2>1, <2>2, <2>4
<1> QED BY <1>2, <1>3

(* Rows of the route are admitted through; the rest of them are untouched. *)
LEMMA AdmitCalm ==
    ASSUME TypeOK, RowShape, ProbeInv, TimelyAnswers,
           NEW c \in Callers, NEW r \in Routes, Admit(c, r), NEW k \in Key
    PROVE  Calm(k)'
<1>1. Calm(k) /\ row[k] \in Row /\ Shaped(row[k])
  BY DEF ProbeInv, TypeOK, RowShape
<1>2. call'[c] = [route |-> r, since |-> 0] /\ ~OnKey(c, k)
  BY DEF Admit, TypeOK, OnKey
<1>3. \A d \in Callers : d # c => call'[d] = call[d]
  BY DEF Admit, TypeOK
<1>4. CASE k \notin Keys(r)
  <2>1. row'[k] = row[k]
    BY <1>4 DEF Admit
  <2>2. ~OnKey(c, k)'
    BY <1>2, <1>4 DEF OnKey
  <2> QED BY <1>1, <1>3, <2>1, <2>2, FewerCallsCalm DEF OnKey, InFlight
<1>5. CASE k \in Keys(r)
  <2> DEFINE h == HalfOpened(row[k], Skew[c])
  <2>1. row'[k] = WithLease(h, Skew[c]) /\ h \in Row /\ Allowed(h, Skew[c])
    BY <1>1, <1>5, SkewInt, HalfOpenedRow DEF Admit, CallAllows
  <2>2. h.state # "OPEN"
    BY <2>1, <1>1, CircuitAssumption DEF Allowed, HalfOpened, Row
  <2>3. CASE h.state = "CLOSED"
    <3>1. row'[k].state = "CLOSED"
      BY <2>1, <2>3 DEF WithLease
    <3> QED BY <3>1 DEF Calm, SentBeforeOpening, LoneProbe
  <2>4. CASE h.state = "HALF_OPEN"
    <3>1. \/ row[k].state = "OPEN" /\ ~Blocked(row[k], Skew[c])
          \/ row[k].state = "HALF_OPEN" /\ ~Leased(row[k], Skew[c])
      BY <1>1, <2>1, <2>4 DEF HalfOpened, Allowed, Row
    <3>2. \A d \in Callers : ~OnKey(d, k)
      BY <3>1, NobodyLeft
    <3>3. \A d \in Callers : OnKey(d, k)' => d = c
      BY <1>3, <3>2 DEF OnKey, InFlight
    <3>4. /\ row'[k].state = "HALF_OPEN"
          /\ row'[k].probe_lease_until = Skew[c] + ProbeLease
      <4> HIDE DEF h
      <4> QED BY <2>1, <2>4 DEF WithLease, Row
    <3>5. row'[k].probe_lease_until = call'[c].since + Skew[c] + ProbeLease
      BY <1>2, <3>4, SkewInt, CircuitAssumption
    <3> QED BY <3>3, <3>4, <3>5 DEF Calm, SentBeforeOpening, LoneProbe
  <2> QED BY <2>1, <2>2, <2>3, <2>4 DEF Row, CircuitState
<1> QED BY <1>4, <1>5

LEMMA DenyCalm ==
    ASSUME TypeOK, RowShape, ProbeInv, TimelyAnswers,
           NEW c \in Callers, NEW r \in Routes, Deny(c, r), NEW k \in Key
    PROVE  Calm(k)'
<1>1. Calm(k) /\ row[k] \in Row
  BY DEF ProbeInv, TypeOK
<1>2. UNCHANGED call
  BY DEF Deny
<1>3. CASE row[k].state = "OPEN" /\ ~Blocked(row[k], Skew[c])
  <2>1. \A d \in Callers : ~OnKey(d, k)
    BY <1>3, NobodyLeft
  <2>2. \A d \in Callers : ~OnKey(d, k)'
    BY <1>2, <2>1 DEF OnKey, InFlight
  <2> QED BY <2>2 DEF Calm, SentBeforeOpening, LoneProbe
<1>4. CASE ~(row[k].state = "OPEN" /\ ~Blocked(row[k], Skew[c]))
  <2>1. row'[k] = row[k]
    BY <1>4 DEF Deny, HalfOpened
  <2> QED BY <1>1, <1>2, <2>1, FewerCallsCalm DEF OnKey, InFlight
<1> QED BY <1>3, <1>4

(* A call that ends leaves the others as they were. *)
LEMMA EndedCall ==
    ASSUME TypeOK, NEW c \in Callers, NEW k \in Key, call' = [call EXCEPT ![c] = Idle]
    PROVE  \A d \in Callers : OnKey(d, k)' => d # c /\ OnKey(d, k) /\ call'[d] = call[d]
BY CircuitAssumption DEF TypeOK, OnKey, InFlight, Idle

LEMMA SuccessCalm ==
    ASSUME TypeOK, RowShape, ProbeInv,
           NEW c \in Callers, RecordSuccess(c), NEW k \in Key
    PROVE  Calm(k)'
<1>1. Calm(k) /\ row[k] \in Row
  BY DEF ProbeInv, TypeOK
<1>2. \A d \in Callers : OnKey(d, k)' => d # c /\ OnKey(d, k) /\ call'[d] = call[d]
  BY EndedCall DEF RecordSuccess
<1>3. CASE k \notin Keys(call[c].route)
  BY <1>1, <1>2, <1>3, FewerCallsCalm DEF RecordSuccess
<1>4. CASE k \in Keys(call[c].route)
  <2>1. row'[k] = ApplySuccess(row[k]) /\ OnKey(c, k)
    BY <1>4 DEF RecordSuccess, OnKey
  <2>2. CASE row[k].state = "HALF_OPEN" /\ row[k].half_open_successes + 1 < SuccessThreshold
    <3>1. \A d \in Callers : ~OnKey(d, k)'
      BY <1>1, <1>2, <2>1, <2>2 DEF Calm, LoneProbe
    <3> QED BY <3>1 DEF Calm, SentBeforeOpening, LoneProbe
  <2>3. CASE ~(row[k].state = "HALF_OPEN"
               /\ row[k].half_open_successes + 1 < SuccessThreshold)
    <3>1. row'[k].state = "CLOSED"
      BY <2>1, <2>3 DEF ApplySuccess, Closed
    <3> QED BY <3>1 DEF Calm, SentBeforeOpening, LoneProbe
  <2> QED BY <2>2, <2>3
<1> QED BY <1>3, <1>4

LEMMA FailureCalm ==
    ASSUME TypeOK, RowShape, ProbeInv,
           NEW c \in Callers, RecordFailure(c), NEW k \in Key
    PROVE  Calm(k)'
<1>1. Calm(k) /\ row[k] \in Row
  BY DEF ProbeInv, TypeOK
<1>2. \A d \in Callers : OnKey(d, k)' => d # c /\ OnKey(d, k) /\ call'[d] = call[d]
  BY EndedCall DEF RecordFailure
<1>3. CASE k \notin Keys(call[c].route)
  BY <1>1, <1>2, <1>3, FewerCallsCalm DEF RecordFailure
<1>4. CASE k \in Keys(call[c].route)
  <2> DEFINE v == Counted(row[k], Skew[c])
  <2>1. row'[k] = ApplyFailure(row[k], Skew[c])
    BY <1>4 DEF RecordFailure
  <2>2. v \in Row /\ v.state = row[k].state /\ v.opened_at = row[k].opened_at
    BY <1>1, SkewInt, CountedRow
  <2> HIDE DEF v
  <2>3. CASE row[k].state = "HALF_OPEN" \/ v.failure_count >= FailureThreshold
    <3>1. row'[k].state = "OPEN" /\ row'[k].opened_at = Skew[c]
      BY <1>1, <2>1, <2>2, <2>3 DEF ApplyFailure, Open, Row, v
    <3>2. \A d \in Callers : OnKey(d, k)' => call'[d].since <= 0
      BY <1>2 DEF ProbeInv, AgeBounded, OnKey
    <3>3. row'[k].opened_at - Skew[c] = 0
      BY <3>1, SkewInt
    <3>4. \A d \in Callers : OnKey(d, k)' => call'[d].since <= row'[k].opened_at - Skew[c]
      BY <3>2, <3>3
    <3> QED BY <3>1, <3>4 DEF Calm, SentBeforeOpening, LoneProbe
  <2>4. CASE ~(row[k].state = "HALF_OPEN" \/ v.failure_count >= FailureThreshold)
    <3>1. row'[k] = v
      BY <2>1, <2>4 DEF ApplyFailure, v
    <3> QED BY <1>1, <1>2, <2>2, <2>4, <3>1 DEF Calm, SentBeforeOpening, LoneProbe
  <2> QED BY <2>3, <2>4
<1> QED BY <1>3, <1>4

LEMMA TickCalm ==
    ASSUME TypeOK, RowShape, ProbeInv, TimelyAnswers, Tick, NEW k \in Key
    PROVE  Calm(k)'
<1>1. Calm(k) /\ row[k] \in Row /\ Shaped(row[k]) /\ row'[k] = Aged(row[k])
  BY DEF ProbeInv, TypeOK, RowShape, Tick
<1>2. row'[k].state = row[k].state
  BY <1>1 DEF Aged, Row
<1>3. ASSUME NEW c \in Callers, OnKey(c, k)'
      PROVE  /\ OnKey(c, k) /\ call'[c].since = call[c].since - 1
             /\ call[c].since \in Int /\ -CallSeconds < call[c].since
             /\ call[c].since <= 0
  BY <1>3, CircuitAssumption DEF Tick, OnKey, InFlight, TypeOK, ProbeInv, AgeBounded
<1>4. SentBeforeOpening(k)'
  <2> SUFFICES ASSUME row'[k].state = "OPEN"
               PROVE  \E o \in Callers : \A c \in Callers :
                        OnKey(c, k)' => call'[c].since <= row'[k].opened_at - Skew[o]
    BY DEF SentBeforeOpening
  <2>1. row[k].opened_at \in Int /\ row[k].opened_at # NULL
    BY <1>1, <1>2 DEF Row, Shaped
  <2>2. PICK o \in Callers : \A c \in Callers :
            OnKey(c, k) => call[c].since <= row[k].opened_at - Skew[o]
    BY <1>1, <1>2 DEF Calm, SentBeforeOpening
  <2>3. ASSUME NEW c \in Callers, OnKey(c, k)'
        PROVE  call'[c].since <= row'[k].opened_at - Skew[o]
    <3>1. row[k].opened_at > -OpenSeconds
      <4>1. CallSeconds + Skew[o] - Skew[o] < OpenSeconds
        BY DEF TimelyAnswers
      <4>2. call[c].since <= row[k].opened_at - Skew[o]
        BY <1>3, <2>2, <2>3
      <4> QED BY <1>3, <2>1, <2>3, <4>1, <4>2, SkewInt, CircuitAssumption
    <3>2. row'[k].opened_at = row[k].opened_at - 1
      BY <1>1, <2>1, <3>1 DEF Aged, Earlier, Row
    <3> QED BY <1>3, <2>1, <2>2, <2>3, <3>2, SkewInt
  <2> QED BY <2>3
<1>5. LoneProbe(k)'
  <2> SUFFICES ASSUME row'[k].state = "HALF_OPEN", NEW c \in Callers, OnKey(c, k)'
               PROVE  /\ row'[k].probe_lease_until = call'[c].since + Skew[c] + ProbeLease
                      /\ \A d \in Callers : OnKey(d, k)' => c = d
    BY DEF LoneProbe
  <2>1. /\ row[k].probe_lease_until = call[c].since + Skew[c] + ProbeLease
        /\ \A d \in Callers : OnKey(d, k) => c = d
    BY <1>1, <1>2, <1>3 DEF Calm, LoneProbe
  <2>2. CallSeconds + Skew[c] - Skew[c] < ProbeLease
    BY DEF TimelyAnswers
  <2>3. row[k].probe_lease_until > 0 /\ row[k].probe_lease_until \in Int
    BY <1>3, <2>1, <2>2, SkewInt, CircuitAssumption
  <2>4. row'[k].probe_lease_until = row[k].probe_lease_until - 1
    BY <1>1, <2>3, CircuitAssumption DEF Aged, Earlier, Row
  <2>5. row'[k].probe_lease_until = call'[c].since + Skew[c] + ProbeLease
    BY <1>3, <2>1, <2>4, SkewInt, CircuitAssumption
  <2> QED BY <1>3, <2>1, <2>5
<1> QED BY <1>4, <1>5 DEF Calm

LEMMA NextProbeInv ==
    ASSUME TimelyAnswers
    PROVE  TypeOK /\ RowShape /\ ProbeInv /\ [Next]_vars => ProbeInv'
<1> SUFFICES ASSUME TypeOK, RowShape, ProbeInv, [Next]_vars, NEW k \in Key
             PROVE  Calm(k)'
  <2>1. TypeOK /\ ProbeInv /\ [Next]_vars => AgeBounded'
    BY NextAgeBounded DEF ProbeInv
  <2> QED BY <2>1 DEF ProbeInv, Key
<1>1. ASSUME NEW c \in Callers, NEW r \in Routes, Admit(c, r) PROVE Calm(k)'
  BY <1>1, AdmitCalm
<1>2. ASSUME NEW c \in Callers, NEW r \in Routes, Deny(c, r) PROVE Calm(k)'
  BY <1>2, DenyCalm
<1>3. ASSUME NEW c \in Callers, RecordSuccess(c) PROVE Calm(k)'
  BY <1>3, SuccessCalm
<1>4. ASSUME NEW c \in Callers, RecordFailure(c) PROVE Calm(k)'
  BY <1>4, FailureCalm
<1>5. ASSUME NEW c \in Callers, Abandon(c) PROVE Calm(k)'
  <2>1. Calm(k) /\ row'[k] = row[k]
    BY <1>5 DEF ProbeInv, Abandon
  <2>2. \A d \in Callers : OnKey(d, k)' => d # c /\ OnKey(d, k) /\ call'[d] = call[d]
    BY <1>5, EndedCall DEF Abandon
  <2> QED BY <2>1, <2>2, FewerCallsCalm
<1>6. CASE Tick
  BY <1>6, TickCalm
<1>7. CASE UNCHANGED vars
  BY <1>7, FewerCallsCalm DEF ProbeInv, vars, OnKey, InFlight
<1> QED BY <1>1, <1>2, <1>3, <1>4, <1>5, <1>6, <1>7 DEF Next, BeforeCall

(* When answers are timely, a half-open row has one call in flight at most, *)
(* cluster-wide and whatever the clocks of the instances read.              *)
THEOREM SingleProbe == ASSUME TimelyAnswers PROVE Spec => []OneProbe
<1>1. Init => ProbeInv
  BY CircuitAssumption DEF Init, ProbeInv, AgeBounded, Calm, SentBeforeOpening,
     LoneProbe, OnKey, InFlight, Idle, Closed
<1>2. ProbeInv => OneProbe
  BY DEF ProbeInv, Calm, LoneProbe, OneProbe
<1> QED BY <1>1, <1>2, NextProbeInv, TypeCorrect, RowsWellShaped, PTL DEF Spec
=============================================================================
