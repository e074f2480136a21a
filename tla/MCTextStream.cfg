SPECIFICATION Spec
CHECK_DEADLOCK FALSE
CONSTANTS
  Pieces <- MCPieces
  Stops <- MCStops
  Eos = "e"
  Engines = {"core", "in_process"}
  Adapters = {"openai", "token"}
  MaxTokens = 4
  MaxAhead = 2
INVARIANTS
  ResponseExact
PROPERTIES
  EngineReleased
