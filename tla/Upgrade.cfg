SPECIFICATION Spec
CONSTANTS
  MaxReplays = 1
  MaxTrouble = 1
INVARIANTS
  ServingCatalogueIsWhole
  ReplaysFitTheData
PROPERTIES
  AdviceConverges
CHECK_DEADLOCK FALSE
