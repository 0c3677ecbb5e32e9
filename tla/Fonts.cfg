SPECIFICATION Spec
CONSTANTS
  SECT = 3
  Size = 18
  FF = FF
  NF = 2
  FileSize <- TwoFiles
  Base = 3
  FSEC = 3
  MaxVersion = 2
  MaxCrashes = 1
  MaxDisk = 1
  BufferFails = TRUE
INVARIANTS FontsGoodOtherwise InfoIsInstalled
PROPERTIES WriteIsExact DiskKept OverrunIsOneSector
