\* Four waves in batches of two, one of which may get stuck.
SPECIFICATION FairSpec
CONSTANTS
  w1 = w1
  w2 = w2
  w3 = w3
  w4 = w4
  Wave <- Four
  ResumeBatch = 2
  Breakable <- One
  MaxKills = 1
INVARIANT
  TypeOK
PROPERTIES
  NoOvertaking
  NobodyStarves
\* Once every wave is over nothing is left to do.
CHECK_DEADLOCK FALSE
