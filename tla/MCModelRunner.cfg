SPECIFICATION Spec
CONSTANTS
  Req = {1, 2, 3}
  MaxNumReqs = 2
  Penalised = {2}
  PromptLen <- Lengths
  MaxTokens <- Limits
  Structured = {2}
  BlockSize = 2
  LongPrefillThreshold = 2
  PrefixHit = 0
  Paths = {"sync", "host", "device"}
  InitialSlots = 1
  MaxPreemptions = 1
  MaxAborts = 1
INVARIANTS TypeInv BatchExact RowsAreOwn StreamsAreOwn
