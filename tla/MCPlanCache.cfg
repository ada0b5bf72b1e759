SPECIFICATION FairSpec
CONSTANTS
  e1 = e1
  e2 = e2
  None = None
  Engine = {e1, e2}
  Key = {1, 2}
  WarmKeys <- OneAndBoth
  Tactic = {"x", "y"}
  ReadOnlyModes = {TRUE, FALSE}
  MaxFailures = 1
  MaxStops = 1
INVARIANTS
  TypeInv OnePlanPerKey FileIsWhole
PROPERTIES
  SavedPlansStay LoadingEnds
CHECK_DEADLOCK FALSE
