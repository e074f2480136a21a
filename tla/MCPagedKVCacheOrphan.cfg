SPECIFICATION Spec
CONSTANTS
  r1 = r1
  r2 = r2
  r3 = r3
  Requests <- MCRequests
  PromptLen <- MCPromptLen
  PromptKeys <- MCPromptKeys
  MaxCommitted <- MCMaxCommitted
  Admissions <- MCAdmissions
  NumBlocks = 3
  BlockSize = 2
  MaxReserve = 3
  MaxGeneration = 0
INVARIANT NoOrphanedPages
SYMMETRY MCSymmetry
