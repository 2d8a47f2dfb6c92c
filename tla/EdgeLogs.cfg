SPECIFICATION Spec
CONSTANTS
    Queries = {q1, q2, q3}
    Collectors = {c1, c2}
    MaxFaults = 2
INVARIANTS
    KeptOrSent
    EveryRowHasItsCause
CHECK_DEADLOCK FALSE
