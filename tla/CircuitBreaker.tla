--------------------------- MODULE CircuitBreaker ---------------------------
(***************************************************************************)
(* The provider circuit of the AI Gateway (ai_gateway/circuit_breaker.py), *)
(* the cluster-shared rows of ai_provider_circuit_states that tell every   *)
(* API instance whether a provider may be called.                          *)
(*                                                                         *)
(* A call to a route consults two rows, the provider's and the             *)
(* provider-model's; each operation reads, decides and writes both in one  *)
(* row-locked transaction, so each operation is one action here.  Between  *)
(* BeforeCall and the recording of its outcome a call is in flight, while  *)
(* any number of other operations happen and seconds pass.                 *)
(*                                                                         *)
(* The code only ever compares a timestamp with the present, so the model  *)
(* keeps each timestamp relative to the present (0 is now, negative is the *)
(* past) and Tick moves them all back; a timestamp too old to matter stops *)
(* moving, which keeps the state space finite without bounding time.       *)
(* Every instance reads its own clock: Skew[c] is how far the clock that   *)
(* serves c is ahead.                                                      *)
(***************************************************************************)
EXTENDS Integers

CONSTANTS
    Callers,           \* invocations that may be in flight together
    Providers,         \* AIProviderName
    Routes,            \* AIModelRoute: one provider model each
    ProviderOf,        \* the provider of each route
    NULL,              \* SQL NULL
    FailureThreshold, FailureWindow, OpenSeconds, SuccessThreshold, ProbeLease,
    Skew,              \* seconds each caller's instance clock is ahead
    CallSeconds        \* the longest a provider call stays in flight

ASSUME CircuitAssumption ==
    /\ ProviderOf \in [Routes -> Providers]
    /\ Providers \cap Routes = {}
    /\ NULL \notin Int /\ NULL \notin Routes
    /\ FailureThreshold \in Nat \ {0} /\ FailureWindow \in Nat \ {0}
    /\ OpenSeconds \in Nat \ {0} /\ SuccessThreshold \in Nat \ {0}
    /\ ProbeLease \in Nat \ {0} /\ CallSeconds \in Nat \ {0}
    /\ Skew \in [Callers -> Nat]

VARIABLES
    row,     \* the circuit row of each key
    call     \* what each caller has in flight

vars == <<row, call>>

CircuitState == {"CLOSED", "OPEN", "HALF_OPEN"}

Key == Providers \cup Routes

(* _route_keys: the provider row and the provider-model row of a route. *)
Keys(r) == {ProviderOf[r], r}

Row == [state: CircuitState, failure_count: Nat, window_started_at: Int \cup {NULL},
        opened_at: Int \cup {NULL}, half_open_successes: Nat,
        probe_lease_until: Int \cup {NULL}]

Closed == [state |-> "CLOSED", failure_count |-> 0, window_started_at |-> NULL,
           opened_at |-> NULL, half_open_successes |-> 0, probe_lease_until |-> NULL]

Idle == [route |-> NULL, since |-> 0]

InFlight(c) == call[c].route # NULL
OnKey(c, k) == InFlight(c) /\ k \in Keys(call[c].route)

TypeOK ==
    /\ row \in [Key -> Row]
    /\ call \in [Callers -> [route: Routes \cup {NULL}, since: Int]]

-----------------------------------------------------------------------------
(* What an instance whose clock reads `now' decides about one row.         *)

Elapsed(w, now) == IF w.opened_at = NULL THEN 0 ELSE now - w.opened_at


Blocked(w, now) == w.state = "OPEN" /\ Elapsed(w, now) < OpenSeconds

(* Mutant of Leased: a lease blocks whether or not it has expired. *)
LeasedForEver(w, now) == w.state = "HALF_OPEN" /\ w.probe_lease_until # NULL

Leased(w, now) ==
    /\ w.state = "HALF_OPEN"
    /\ w.probe_lease_until # NULL
    /\ w.probe_lease_until > now

Allowed(w, now) == ~Blocked(w, now) /\ ~Leased(w, now)

(* Mutant of HalfOpened: the success counter is reset to NULL, not to 0. *)
HalfOpenedUncounted(w, now) ==
    IF w.state = "OPEN" /\ ~Blocked(w, now)
    THEN [w EXCEPT !.state = "HALF_OPEN", !.half_open_successes = NULL,
                   !.probe_lease_until = NULL]
    ELSE w

(* The row as _permit leaves it when it may transition. *)
HalfOpened(w, now) ==
    IF w.state = "OPEN" /\ ~Blocked(w, now)
    THEN [w EXCEPT !.state = "HALF_OPEN", !.half_open_successes = 0,
                   !.probe_lease_until = NULL]
    ELSE w

AtLeastOne(n) == IF n > 1 THEN n ELSE 1

(* Mutant of RetryAfter: the elapsed part of the interval is added. *)
RetryAfterTwice(w, now) ==
    IF Blocked(w, now) THEN AtLeastOne(OpenSeconds + Elapsed(w, now))
                       ELSE AtLeastOne(w.probe_lease_until - now)

(* Seconds a denied caller is told to wait. *)
RetryAfter(w, now) ==
    IF Blocked(w, now) THEN AtLeastOne(OpenSeconds - Elapsed(w, now))
                       ELSE AtLeastOne(w.probe_lease_until - now)

(* Mutant of PeekAllows: an OPEN row is unavailable until a call half-opens it. *)
PeekNeedsHalfOpen(c, r) ==
    \A k \in Keys(r) : row[k].state # "OPEN" /\ Allowed(row[k], Skew[c])

(* Peek: no lock, no transition, no lease. *)
PeekAllows(c, r) == \A k \in Keys(r) : Allowed(row[k], Skew[c])

CallAllows(c, r) ==
    \A k \in Keys(r) : Allowed(HalfOpened(row[k], Skew[c]), Skew[c])


WithoutLease(w, now) == w

WithLease(w, now) ==
    IF w.state = "HALF_OPEN" THEN [w EXCEPT !.probe_lease_until = now + ProbeLease] ELSE w

Open(w, now) == [w EXCEPT !.state = "OPEN", !.opened_at = now,
                          !.half_open_successes = 0, !.probe_lease_until = NULL]

(* Mutant of ApplySuccess: closing a row keeps the time it opened. *)
ApplySuccessKeepsOpening(w) ==
    IF w.state = "HALF_OPEN" /\ w.half_open_successes + 1 < SuccessThreshold
    THEN [w EXCEPT !.half_open_successes = @ + 1, !.probe_lease_until = NULL]
    ELSE [Closed EXCEPT !.opened_at = w.opened_at]

ApplySuccess(w) ==
    IF w.state = "HALF_OPEN" /\ w.half_open_successes + 1 < SuccessThreshold
    THEN [w EXCEPT !.half_open_successes = @ + 1, !.probe_lease_until = NULL]
    ELSE Closed

(* Mutant of WindowOver: a window, once started, never ends. *)
WindowOverOnlyOnce(w, now) == w.window_started_at = NULL

WindowOver(w, now) ==
    w.window_started_at = NULL \/ now - w.window_started_at > FailureWindow

(* The failure counted, in the running window or as the first of a new one. *)
Counted(w, now) ==
    IF WindowOver(w, now)
    THEN [w EXCEPT !.window_started_at = now, !.failure_count = 1]
    ELSE [w EXCEPT !.failure_count = @ + 1]

ApplyFailure(w, now) ==
    IF w.state = "HALF_OPEN" THEN Open(w, now)
    ELSE IF Counted(w, now).failure_count >= FailureThreshold
         THEN Open(Counted(w, now), now)
         ELSE Counted(w, now)

-----------------------------------------------------------------------------
Init ==
    /\ row = [k \in Key |-> Closed]
    /\ call = [c \in Callers |-> Idle]

(* Both rows may turn HALF_OPEN, and each HALF_OPEN row is leased to c. *)
Admit(c, r) ==
    /\ ~InFlight(c)
    /\ CallAllows(c, r)
    /\ row' = [k \in Key |-> IF k \in Keys(r)
                             THEN WithLease(HalfOpened(row[k], Skew[c]), Skew[c])
                             ELSE row[k]]
    /\ call' = [call EXCEPT ![c] = [route |-> r, since |-> 0]]

(* One row refuses, yet the other may have turned HALF_OPEN. *)
Deny(c, r) ==
    /\ ~InFlight(c)
    /\ ~CallAllows(c, r)
    /\ row' = [k \in Key |-> IF k \in Keys(r) THEN HalfOpened(row[k], Skew[c]) ELSE row[k]]
    /\ UNCHANGED call

BeforeCall(c, r) == Admit(c, r) \/ Deny(c, r)

RecordSuccess(c) ==
    /\ InFlight(c)
    /\ row' = [k \in Key |-> IF k \in Keys(call[c].route) THEN ApplySuccess(row[k])
                             ELSE row[k]]
    /\ call' = [call EXCEPT ![c] = Idle]

RecordFailure(c) ==
    /\ InFlight(c)
    /\ row' = [k \in Key |-> IF k \in Keys(call[c].route)
                             THEN ApplyFailure(row[k], Skew[c])
                             ELSE row[k]]
    /\ call' = [call EXCEPT ![c] = Idle]

(* The call ends with nothing recorded: a failure that does not qualify, a *)
(* cancelled request, a crashed instance, an outcome that failed to commit.*)
Abandon(c) ==
    /\ InFlight(c)
    /\ call' = [call EXCEPT ![c] = Idle]
    /\ UNCHANGED row

(* One second earlier, but never below the age at which it stops mattering. *)
Earlier(t, floor) == IF t = NULL THEN NULL ELSE IF t > floor THEN t - 1 ELSE t

Aged(w) == [w EXCEPT !.opened_at = Earlier(@, -OpenSeconds),
                     !.window_started_at = Earlier(@, -FailureWindow - 1),
                     !.probe_lease_until = Earlier(@, 0)]

(* A second passes; the adapter's timeout ends a call within CallSeconds. *)
Tick ==
    /\ \A c \in Callers : InFlight(c) => -call[c].since < CallSeconds
    /\ row' = [k \in Key |-> Aged(row[k])]
    /\ call' = [c \in Callers |-> IF InFlight(c) THEN [call[c] EXCEPT !.since = @ - 1]
                                  ELSE call[c]]

Next ==
    \/ \E c \in Callers : \/ \E r \in Routes : BeforeCall(c, r)
                          \/ RecordSuccess(c)
                          \/ RecordFailure(c)
                          \/ Abandon(c)
    \/ Tick

Spec == Init /\ [][Next]_vars

-----------------------------------------------------------------------------
(***************************************************************************)
(* Safety.                                                                 *)
(***************************************************************************)

Shaped(w) ==
    /\ w.state = "CLOSED" => /\ w.opened_at = NULL
                             /\ w.half_open_successes = 0
                             /\ w.probe_lease_until = NULL
                             /\ w.failure_count < FailureThreshold
                             /\ w.failure_count = 0 <=> w.window_started_at = NULL
    /\ w.state = "OPEN" => /\ w.opened_at # NULL
                           /\ w.half_open_successes = 0
                           /\ w.probe_lease_until = NULL
    /\ w.state = "HALF_OPEN" => /\ w.opened_at # NULL
                                /\ w.half_open_successes < SuccessThreshold

(* Each row's columns agree with its state, whatever late answers arrive:  *)
(* a lease exists only while HALF_OPEN, a closed circuit has forgotten its *)
(* opening, and no count reaches the threshold that should have acted.     *)
RowShape == \A k \in Key : Shaped(row[k])

(* The capability a browser is shown (peek, which ignores the transition   *)
(* out of OPEN) is the answer before_call would give at that instant.      *)
PeekAgrees == \A c \in Callers, r \in Routes : PeekAllows(c, r) <=> CallAllows(c, r)


(* The interval a denied caller is told to wait is at least a second and   *)
(* never longer than the open interval or the lease plus the clock skew.   *)
RetryBounded ==
    \A c \in Callers, k \in Key :
        ~Allowed(HalfOpened(row[k], Skew[c]), Skew[c]) =>
            LET wait == RetryAfter(HalfOpened(row[k], Skew[c]), Skew[c]) IN
            /\ wait >= 1
            /\ \E d \in Callers : \/ wait <= OpenSeconds + Skew[d] - Skew[c]
                                  \/ wait <= ProbeLease + Skew[d] - Skew[c]

(* The deadline every instance must keep for a lease to outlive its probe: *)
(* a call ends before its lease and before the open interval do, read on   *)
(* any other instance's clock.                                             *)
TimelyAnswers ==
    \A c, d \in Callers : /\ CallSeconds + Skew[d] - Skew[c] < ProbeLease
                          /\ CallSeconds + Skew[d] - Skew[c] < OpenSeconds

(* "one leased half-open probe is allowed cluster-wide": while a row is    *)
(* HALF_OPEN at most one call through it is in flight anywhere.            *)
OneProbe ==
    \A k \in Key : row[k].state = "HALF_OPEN" =>
        \A c, d \in Callers : OnKey(c, k) /\ OnKey(d, k) => c = d

(* The same line of the architecture document for a slow provider: no two  *)
(* probes are in flight while both are still within their lease.           *)
OneLeasedProbe ==
    \A k \in Key : row[k].state = "HALF_OPEN" =>
        \A c, d \in Callers :
            /\ OnKey(c, k) /\ -call[c].since < ProbeLease
            /\ OnKey(d, k) /\ -call[d].since < ProbeLease
            => c = d

-----------------------------------------------------------------------------
(***************************************************************************)
(* Liveness.  The clock runs, the adapter ends every call it started, and  *)
(* consultants keep asking: a route that is admitted again and again is    *)
(* answered again and again.                                               *)
(***************************************************************************)
End(c) == RecordSuccess(c) \/ RecordFailure(c) \/ Abandon(c)

Succeeded(r) == \E c \in Callers : call[c].route = r /\ RecordSuccess(c)

Fairness ==
    /\ SF_vars(Tick)
    /\ \A c \in Callers : WF_vars(End(c))
    /\ \A r \in Routes : SF_vars(\E c \in Callers : Admit(c, r)) /\ SF_vars(Succeeded(r))

FairSpec == Spec /\ Fairness

(* Once the provider stops failing, every circuit closes and stays closed, *)
(* whatever probes were lost and whatever leases they left behind.         *)
Recovery ==
    (<>[][\A c \in Callers : ~RecordFailure(c)]_vars)
        => <>[](\A k \in Key : row[k] = Closed)
=============================================================================
