SPECIFICATION Spec
CONSTANTS
  NumGpuBlocks = 4
  BlockSize = 2
  EnableCaching = TRUE
  Token = {1, 2}
  Req = {r1, r2}
  MaxModelLen = 6
  WatermarkBlocks = 1
  Prompts <- MCPrompts
  MaxTokens = 5
INVARIANTS
  TypeInv PoolExact TablesAgree SlotsCoverComputed NoFault EvictionOrder
SYMMETRY Interchangeable
