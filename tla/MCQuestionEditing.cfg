\* Two consultants, the creation and two mutations of one question, two texts.
SPECIFICATION ESpec
CONSTANTS
    e1 = e1  e2 = e2  q1 = q1  q2 = q2  q3 = q3  t1 = t1  t2 = t2
    Editors = {e1, e2}
    Requests = {q1, q2, q3}
    Contents = {t1, t2}
    NULL = NULL
SYMMETRY Alike
INVARIANTS WebTypeOK EventsAccounted PagesAgree
PROPERTY ImplementsVersioned
CHECK_DEADLOCK FALSE
