SPECIFICATION Spec
CONSTANTS
  NUM = 3
  MaxBlocks = 7
  Sessions = 2
INVARIANTS NothingLost FileIsOwn HeaderTrue SavesOpenFile BuffersOwned
CHECK_DEADLOCK FALSE
