SPECIFICATION FairSpec
CONSTANTS
  NumGpuBlocks = 8
  BlockSize = 2
  EnableCaching = TRUE
  Token = {1, 2}
  Req = {1, 2, 3}
  MaxModelLen = 10
  WatermarkBlocks = 1
  Prompt <- FourAndThree
  MaxTokens <- Four
  MinTokens <- NoMin
  StopTokens <- StopAt2
  Structured = {}
  PriorityPolicy = TRUE
  Priority <- Rising
  MaxNumRunningReqs = 3
  MaxNumScheduledTokens = 7
  LongPrefillThreshold = 0
  EnableChunkedPrefill = FALSE
  ReserveFullIsl = TRUE
  Async = FALSE
  Reused = {1}
INVARIANTS
  PreemptionIsUndone
PROPERTIES
  AdmissionLeavesRoom
