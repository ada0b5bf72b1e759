SPECIFICATION FairSpec
CONSTANTS
  NThreads = 3
  a = a
  b = b
  None = None
  Submitter = {a, b}
  Jobs <- TwoSubmitters
INVARIANTS
  TypeInv FnOutlivesItsUse
PROPERTIES
  ImplementsParallelFor NobodyHangs
CHECK_DEADLOCK FALSE
