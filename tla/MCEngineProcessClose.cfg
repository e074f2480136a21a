SPECIFICATION Spec
CONSTANTS
    MaxOperations = 1
    MaxTokens = 1
    Errors = {"other"}
PROPERTY
    EveryStreamEnds
CHECK_DEADLOCK FALSE
