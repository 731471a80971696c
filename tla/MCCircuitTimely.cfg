\* Every call ends within the lease and the open interval:
\* at most one call is in flight through a half-open row.  The observer's
\* properties of openings hold with it.
SPECIFICATION HSpec
CONSTANTS
    c1 = c1  c2 = c2  c3 = c3  p1 = p1  r1 = r1  r2 = r2
    Callers = {c1, c2, c3}
    Providers = {p1}
    Routes = {r1, r2}
    ProviderOf <- OneProvider
    NULL = NULL
    FailureThreshold = 2
    FailureWindow = 1
    OpenSeconds = 3
    SuccessThreshold = 2
    ProbeLease = 3
    Skew <- NoSkew
    CallSeconds = 1
INVARIANT OneProbe
PROPERTIES OpeningJustified 
