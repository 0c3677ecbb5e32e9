SPECIFICATION FairSpec
CONSTANTS
  Songs = 2
  Length = 3
INVARIANTS StoppedIsIdle FolderOwned
PROPERTIES HeardInOrder StopReturnsOtherwise PlayerYieldsOtherwise
CHECK_DEADLOCK FALSE
