SPECIFICATION Spec
CONSTANTS
  NB = 4
  PPB = 2
  SPP = 2
  FF = FF
  a = a
  Val = {FF, a}
  Odd = {}
  Junk = Junk
  BlankEcc = BlankEcc
  MinBlocks = 2
  Percent = 67
  Firsts = {1, 3}
  MaxLen = 2
  FactoryBad <- NoneBad
  FaultOps = {"write", "mark", "copy", "used", "compare", "badmark", "halfmark"}
  MaxFaults = 1
  MaxCrashes = 0
  MaxFlips = 1
INVARIANTS UsedIsMarked
PROPERTIES IsBlockDevice CapacityKept RepairsAreReal
