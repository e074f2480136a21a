SPECIFICATION Spec
CONSTANTS
  r1 = r1
  r2 = r2
  Requests = {r1, r2}
  PromptLen = 2
  MaxNew = 2
  MaxOutput = 2
  Faults = {}
INVARIANT CancelSparesOthers
SYMMETRY MCSymmetry
CHECK_DEADLOCK FALSE
