SPECIFICATION MCSpec
CONSTANTS
  Holders = {h1, h2, h3}
  Blocks = {b1, b2, b3}
  Bytes = {Nul, byte}
  Nul = Nul
  MaxSize = 2
  Garbage = {0, 1, 3}
  NoBlock = NoBlock
  Word = 256
  SizeRange = 4096
  None = None
  MaxText = 4
  TempSize = 4
SYMMETRY MCSymmetry
INVARIANTS
  OneOwner
  HoldsWhatWasGiven
  TextAgrees
  FramesHold
CHECK_DEADLOCK FALSE
