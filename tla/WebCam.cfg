SPECIFICATION FairSpec
CONSTANTS
  NUM = 3
  Clients = 3
  MaxBlocks = 6
  MaxFatal = 2
  CreateFails = TRUE
INVARIANTS NothingUsesFreed SendsToClient DeletedOnceOtherwise
PROPERTIES FifoIsQueue ExitUnlessOverwritten
CHECK_DEADLOCK FALSE
