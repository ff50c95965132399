SPECIFICATION AdminSpec
CONSTANTS
  None = None
  ada = ada
  f1 = f1
  f2 = f2
  Ids = {ada, f1, f2}
  Spellings <- MCSpellings
  Lower <- MCLower
  Seeded <- MCSeeded
  Slots = {w1, w2}
SYMMETRY MCSymmetry
INVARIANT
  OneAccountPerAddress
PROPERTIES
  LockoutNeedsARace
  ButtonKeepsItsWord
CHECK_DEADLOCK FALSE
