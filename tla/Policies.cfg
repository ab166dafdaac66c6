\* Two gateways of two releases start three times in all, with faults and an edit.
SPECIFICATION LiveSpec
CONSTANTS
  g1 = g1
  g2 = g2
  p1 = p1
  b1 = b1
  b2 = b2
  Gateway <- TwoGateways
  Permission <- OneRule
  Grouping <- TwoBlocks
  File <- TwoReleases
  MaxStarts = 3
  MaxEdits = 1
  Faulty = TRUE
INVARIANT TypeOK
INVARIANT PolicyInv
PROPERTY ImplementsBoard
PROPERTY SaveReachesAll
CHECK_DEADLOCK FALSE
