SPECIFICATION FairSpec
CONSTANTS
  NB = 4
  PPB = 2
  SPP = 1
  FF = FF
  a = a
  Val = {FF, a}
  Odd = {a}
  Junk = Junk
  BlankEcc = BlankEcc
  MinBlocks = 2
  Percent = 50
  Firsts = {1}
  MaxLen = 1
  FactoryBad <- OneBad
  FaultOps = {"write", "mark", "copy", "merge", "used", "erase", "badmark", "halfmark", "compare", "fmterase", "fmttag", "read"}
  MaxFaults = 2
  MaxCrashes = 1
  MaxFlips = 0
INVARIANTS TypeOK
PROPERTIES CallsReturn
