\* Three attempts priced in two currencies.
SPECIFICATION Spec
CONSTANTS
    e1 = e1  primary = primary  retry = retry  fallback = fallback  USD = USD  EUR = EUR
    Executions = {e1}
    Stages = {}
    Attempts = {primary, retry, fallback}
    NumberOf <- Number
    KindOf <- Kind
    Usages <- SomeUsages
    Endings = {}
    NULL = NULL
INVARIANT CompleteCost
