SPECIFICATION Spec
CONSTANTS
  K = 3
  Width = 7
  MaxFlips = 2
  Junk = Junk
  BlankEcc = BlankEcc
INVARIANTS OneFlipRepaired TwoFlipsReported CodeFlipHarmless DecodeAgrees
