SPECIFICATION FairSpec
CONSTANTS
  NumGpuBlocks = 4
  BlockSize = 2
  EnableCaching = TRUE
  Token = {1, 2}
  Req = {1, 2, 3}
  MaxModelLen = 6
  WatermarkBlocks = 0
  Prompt <- SharedPrompt
  MaxTokens <- ThreeTwo
  MinTokens <- NoMin
  StopTokens <- StopAt2
  Structured = {2}
  PriorityPolicy = FALSE
  Priority <- Flat
  MaxNumRunningReqs = 2
  MaxNumScheduledTokens = 4
  LongPrefillThreshold = 0
  EnableChunkedPrefill = TRUE
  ReserveFullIsl = FALSE
  Async = TRUE
  Reused = {}
INVARIANTS
  TypeInv TokensInFlightAccounted ScheduledHaveRows KVHoldsOwnTokens
PROPERTIES
  FirstComeFirstServed ComesToRest KeepsKVProtocol
