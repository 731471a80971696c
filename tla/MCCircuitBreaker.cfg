\* Calls that outlive the lease and reach the half-open state, with one clock
\* ahead: the rows stay well formed, and once the provider stops failing every
\* circuit closes again.
SPECIFICATION FairSpec
CONSTANTS
    c1 = c1  c2 = c2  c3 = c3  p1 = p1  r1 = r1  r2 = r2
    Callers = {c1, c2}
    Providers = {p1}
    Routes = {r1, r2}
    ProviderOf <- OneProvider
    NULL = NULL
    FailureThreshold = 1
    FailureWindow = 1
    OpenSeconds = 2
    SuccessThreshold = 2
    ProbeLease = 1
    Skew <- FirstAhead
    CallSeconds = 2
INVARIANTS TypeOK RowShape PeekAgrees  RetryBounded
PROPERTY Recovery
