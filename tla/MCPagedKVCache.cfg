SPECIFICATION Spec
CONSTANTS
  r1 = r1
  r2 = r2
  r3 = r3
  Requests <- MCRequests
  PromptLen <- MCPromptLen
  PromptKeys <- MCPromptKeys
  MaxCommitted <- MCMaxCommitted
  Admissions <- MCAdmissions
  NumBlocks = 4
  BlockSize = 2
  MaxReserve = 6
  MaxGeneration = 1
SYMMETRY MCSymmetry
INVARIANTS
  TypeOK
  PoolExact
  IndexSound
  CommittedContent
  WritableIsPrivate
  ClaimsExact
  StrictAlwaysServed
PROPERTIES
  EvictionOnlyUnderPressure
  ImplementsLedger
