SPECIFICATION Spec
CONSTANTS
  NumGpuBlocks = 7
  BlockSize = 2
  EnableCaching = TRUE
  Token = {1, 2}
  Req = {1, 2}
  MaxModelLen = 12
  WatermarkBlocks = 0
  Prompt <- LongShort
  MaxTokens <- Three
  MinTokens <- NoMin
  StopTokens <- StopAt2
  Structured = {}
  PriorityPolicy = TRUE
  Priority <- Rising
  MaxNumRunningReqs = 2
  MaxNumScheduledTokens = 5
  LongPrefillThreshold = 3
  EnableChunkedPrefill = TRUE
  ReserveFullIsl = FALSE
  Async = FALSE
  Reused = {}
INVARIANTS
  CachedBlocksAreComputed
