\* One execution with every failure: it is always answered.
SPECIFICATION FairHSpec
CONSTANTS
    p1 = p1  r1 = r1  e1 = e1  e2 = e2
    Executions = {e1}
    Facts <- GatewayFacts
    Closing <- Endings
    NULL = NULL
    Providers = {p1}
    Routes = {r1}
    ProviderOf <- OneProvider
    RouteOf <- OneRoute
    FailureThreshold = 1
    FailureWindow = 1
    OpenSeconds = 1
    SuccessThreshold = 1
    ProbeLease = 1
    Skew <- NoSkew
    CallSeconds = 1
PROPERTY Answered
