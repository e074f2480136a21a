SPECIFICATION FairSpec
CONSTANTS
  brief = brief
  regular = regular
  long = long
  Requests <- MCRequests
  PromptLen <- MCPromptLen
  MaxTokens <- MCMaxTokens
  IdlePrefix <- MCIdlePrefix
  Policies <- MCPolicies
  NumBlocks = 6
  BlockSize = 2
  MaxSequences = 3
  TokenBudget = 4
  Lookahead = 1
  MaxOutput = 2
INVARIANTS
  TypeOK
  QueuesExact
  WithinBudget
  NeverStuck
  FirstTokenAtOnce
PROPERTIES
  AgedFirst
  EveryoneServed
