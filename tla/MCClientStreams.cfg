SPECIFICATION FairSpec
CONSTANTS
  c1 = c1
  c2 = c2
  a = a
  b = b
  None = None
  Call = {c1, c2}
  Id = {a}
  IdOf <- OneId
  KindOf <- DeltaAndFinal
  HasStop = {c1}
  StreamInterval = 2
  AbortMode = FALSE
  MaxTokens <- ThreeAndOne
  MayCrash = FALSE
  MayShutdown = TRUE
  ReuseAborted = FALSE
INVARIANTS
  TypeInv FinishedIsComplete RequestsHaveBothEnds
PROPERTIES
  OneRequestPerId
CHECK_DEADLOCK FALSE
