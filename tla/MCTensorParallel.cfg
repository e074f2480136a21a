SPECIFICATION Spec
CONSTANTS
  NumWorkers = 2
  Requests = {r1, r2}
  MaxCommands = 3
  MaxPending = 2
  MaxFaults = 1
INVARIANTS TablesAgree StepOwnsItsRequests NothingAfterFailure
PROPERTY RanksEnd
CHECK_DEADLOCK FALSE
