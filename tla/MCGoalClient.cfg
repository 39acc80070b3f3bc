CONSTANTS
    Deadline = 2
    MaxI64 = 3
    Goal = {"g"}
    MaxOrdinal = 6
    Input <- MCInput
SPECIFICATION Spec
INVARIANTS
    TypeOK
    TimeoutCancels
    AckExcludesTimeout
    RequestsDistinct
    ResponsesCorrelate
CHECK_DEADLOCK FALSE
