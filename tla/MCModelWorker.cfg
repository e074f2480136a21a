SPECIFICATION Spec
CONSTANTS
  r1 = r1
  r2 = r2
  Requests <- MCRequests
  Prompts <- MCPrompts
  EosTokens <- MCEos
  MaxNew = 4
  Weights <- MCWeights
  Noise = 3
  OtherDrafts <- MCOtherDrafts
  Chunks = {3}
  Assemblies <- MCAssemblies
  NumLookahead = 3
  BlockSize = 2
  Blocks <- MCBlocks
  MaxLoads = 2
  MaxFaults = 1
  MinMatch = 1
  MaxMatch = 2
  MaxDepth = 3
  MaxBranching = 2
INVARIANTS OutputIsReference CacheHoldsPrefix EntriesExact DraftsContinueHistory
CHECK_DEADLOCK FALSE
