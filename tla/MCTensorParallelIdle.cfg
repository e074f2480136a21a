SPECIFICATION Spec
CONSTANTS
  NumWorkers = 2
  Requests = {r1}
  MaxCommands = 2
  MaxPending = 1
  MaxFaults = 1
PROPERTY EndsForCause
CHECK_DEADLOCK FALSE
