SPECIFICATION Spec
CONSTANTS
  Configs <- FewConfigs
  Lower <- Capitals
  Strangers <- None
  Droppable <- None
  NONE = NONE
INVARIANTS InsertNamesColumnsOnce
