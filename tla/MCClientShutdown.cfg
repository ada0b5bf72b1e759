SPECIFICATION FairSpec
CONSTANTS
  c1 = c1
  c2 = c2
  a = a
  b = b
  None = None
  Call = {c1, c2}
  Id = {a, b}
  IdOf <- TwoIds
  KindOf <- Cumulative
  HasStop = {c1}
  StreamInterval = 1
  AbortMode = TRUE
  MaxTokens <- OneEach
  MayCrash = TRUE
  MayShutdown = TRUE
  ReuseAborted = FALSE
INVARIANTS
  RequestsHaveBothEnds NobodyLeftBehind
PROPERTIES
  ShutdownCompletes ImplementsStreams
CHECK_DEADLOCK FALSE
