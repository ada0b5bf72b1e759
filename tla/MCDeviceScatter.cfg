SPECIFICATION Spec
CONSTANTS
  Req = {1, 2, 3}
  MaxNumReqs = 2
  Penalised = {}
  PromptLen <- Lengths
  MaxTokens <- Limits
  Structured = {}
  BlockSize = 2
  LongPrefillThreshold = 2
  PrefixHit = 0
  Paths = {"device"}
  InitialSlots = 1
  MaxPreemptions = 0
  MaxAborts = 0
INVARIANT InputsAreOwn
