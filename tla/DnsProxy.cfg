CONSTANTS
    MaxConcurrent = 2
    MaxIdle = 1
    MaxExchanges = 3
    MaxBatch = 2
    MaxDropped = 1
    MaxDups = 1
SPECIFICATION Spec
INVARIANTS InflightExact AnswersMatch
PROPERTY ForwardedEnds
CHECK_DEADLOCK FALSE
