SPECIFICATION HSpec
CONSTANTS
  NB = 5
  PPB = 2
  SPP = 1
  FF = FF
  a = a
  Val = {FF, a}
  Odd = {}
  Junk = Junk
  BlankEcc = BlankEcc
  Unknown = Unknown
  MinBlocks = 1
  Percent = 25
  Firsts = {0, 1}
  MaxLen = 1
  FactoryBad <- NoneBad
  FaultOps = {"write", "mark", "copy", "used", "erase", "badmark", "halfmark", "fmterase", "read"}
  MaxFaults = 1
  MaxCrashes = 1
  MaxFlips = 0
INVARIANTS Durable LutTagged
