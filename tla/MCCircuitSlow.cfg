\* A provider that may take longer than the lease (20 s against 10 s by default).
SPECIFICATION Spec
CONSTANTS
    c1 = c1  c2 = c2  c3 = c3  p1 = p1  r1 = r1  r2 = r2
    Callers = {c1, c2, c3}
    Providers = {p1}
    Routes = {r1}
    ProviderOf <- OneProvider
    NULL = NULL
    FailureThreshold = 1
    FailureWindow = 1
    OpenSeconds = 4
    SuccessThreshold = 2
    ProbeLease = 2
    Skew <- NoSkew
    CallSeconds = 3
INVARIANT OneLeasedProbe
SYMMETRY RoutesAlike
