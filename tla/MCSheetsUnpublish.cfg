CONSTANTS
  nadia = nadia
  omar = omar
  sam = sam
  zoe = zoe
  good = good
  noted = noted
  poor = poor
  w1 = w1
  w2 = w2
  Teachers = {nadia, omar}
  Students = {sam, zoe}
  Workers = {w1, w2}
  Marks = {good, noted, poor}
  Audited <- MCAudited
  Displayed <- MCAudited
  Present = poor
  Typing <- MCTyping
  Leaving <- MCLeaving
  MaxCalls = 3
  MaxAlarms = 1
  Null = Null
CHECK_DEADLOCK FALSE
SPECIFICATION Spec
SYMMETRY WorkersAreAlike
PROPERTY NoUnpublish
