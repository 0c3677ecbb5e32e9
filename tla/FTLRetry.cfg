SPECIFICATION Spec
CONSTANTS
  NB = 5
  PPB = 2
  SPP = 1
  FF = FF
  a = a
  Val = {FF, a}
  Odd = {}
  Junk = Junk
  BlankEcc = BlankEcc
  MinBlocks = 2
  Percent = 40
  Firsts = {1, 2, 3}
  MaxLen = 2
  FactoryBad <- NoneBad
  FaultOps = {"merge"}
  MaxFaults = 1
  MaxCrashes = 0
  MaxFlips = 0

PROPERTIES IsBlockDevice
