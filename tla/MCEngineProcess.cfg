SPECIFICATION Spec
CONSTANTS
    MaxOperations = 2
    MaxTokens = 1
    Errors = {"other"}
INVARIANTS
    Delivered
    MetricsFresh
PROPERTIES
    StreamsEnd
    EngineGone
CHECK_DEADLOCK FALSE
