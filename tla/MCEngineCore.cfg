SPECIFICATION FairSpec
CONSTANTS
  r1 = r1
  r2 = r2
  Requests = {r1, r2}
  PromptLen = 2
  MaxNew = 2
  MaxOutput = 2
  Faults = {"schedule", "execute", "release"}
INVARIANTS
  TypeOK
  BlocksHeldInFlight
  OwnersAgree
  StreamsWellFormed
  NobodyForgotten
  OutcomeRecordedOnce
  DriverPresent
  ClosedIsQuiet
PROPERTIES
  StreamsEnd
  CloseReturns
CHECK_DEADLOCK FALSE
