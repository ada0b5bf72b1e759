SPECIFICATION Spec
CONSTANTS
  NumGpuBlocks = 6
  BlockSize = 2
  EnableCaching = FALSE
  Token = {1, 2}
  Req = {1, 2}
  MaxModelLen = 10
  WatermarkBlocks = 0
  Prompt <- FourAndThree
  MaxTokens <- Four
  MinTokens <- NoMin
  StopTokens <- StopAt2
  Structured = {}
  PriorityPolicy = TRUE
  Priority <- Rising
  MaxNumRunningReqs = 2
  MaxNumScheduledTokens = 4
  LongPrefillThreshold = 0
  EnableChunkedPrefill = TRUE
  ReserveFullIsl = FALSE
  Async = FALSE
  Reused = {}
INVARIANTS
  ScheduledHaveRows
