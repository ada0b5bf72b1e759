SPECIFICATION Spec
CONSTANTS
  r1 = r1
  r2 = r2
  NumGpuBlocks = 15
  BlockSize = 2
  EnableCaching = TRUE
  Token = {1, 2}
  Req = {r1, r2}
  Layouts <- MCLayouts
  SlidingWindow = 4
  ChunkSize = 4
  MaxModelLen = 10
  MaxBatchedTokens = 3
  WatermarkBlocks = 1
  ReserveFullIsl = TRUE
  Thresholds = {2, 3}
  MaxAdmissions = 3
  toks <- MCToks
INVARIANTS
  TypeInv PoolExact WindowsServed HitIsLongest
CHECK_DEADLOCK FALSE
