SPECIFICATION Spec
CONSTANTS
  brief = brief
  regular = regular
  long = long
  Requests = {long}
  PromptLen <- MCBigPromptLen
  MaxTokens <- MCBigMaxTokens
  IdlePrefix <- MCBigIdlePrefix
  Policies <- MCOptimistic
  NumBlocks = 4
  BlockSize = 2
  MaxSequences = 3
  TokenBudget = 4
  Lookahead = 1
  MaxOutput = 2
INVARIANT IdleEngineServes
