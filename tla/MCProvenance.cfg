\* A primary attempt, a retry and a fallback, every write answered late,
\* wrongly or twice.
SPECIFICATION Spec
CONSTANTS
    e1 = e1  primary = primary  retry = retry  fallback = fallback  USD = USD  EUR = EUR
    Executions = {e1}
    Stages = {"POLICY_EVALUATED"}
    Attempts = {primary, retry, fallback}
    NumberOf <- Number
    KindOf <- Kind
    Usages <- InDollars
    Endings = {"SUCCEEDED", "CANCELLED"}
    NULL = NULL
INVARIANTS TypeOK LogOrdered RecordedOnce SummaryAgrees
PROPERTY ImplementsRecord
