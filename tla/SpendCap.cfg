\* One POST of two renders, over one render a minute, and no read behind.
CONSTANTS
    Posts = {q1}
    Callers = {agent}
    GeneralLimit = 1
    GenerationLimit = 1
    EdgesLag = FALSE
    MaxBatch = 2
    MaxMinute = 0
SPECIFICATION Spec
CHECK_DEADLOCK FALSE
INVARIANT OnePostIsCapped
