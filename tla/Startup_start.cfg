SPECIFICATION Spec
CONSTANTS
  Configs <- AllConfigs
  Lower <- Capitals
  Strangers <- Notes
  Droppable <- Drops
  NONE = NONE
INVARIANTS TypeOK RunsWithItsColumns OwnTableFits NoValueLost NextToAnchor
