\* Two POSTs of up to two renders each, over one render a minute.
CONSTANTS
    Posts = {q1, q2}
    Callers = {agent}
    GeneralLimit = 1
    GenerationLimit = 1
    EdgesLag = TRUE
    MaxBatch = 2
    MaxMinute = 1
SPECIFICATION Spec
SYMMETRY PostSymmetry
CHECK_DEADLOCK FALSE
INVARIANTS
    RefusalIsEarned
    SerialSpendIsCapped
    UnmeteredStartsNothing
