\* Two operators, clear and unclear names, agents that register one by one.
SPECIFICATION FairSpec
CONSTANTS
  r1 = r1
  r2 = r2
  a1 = a1
  a2 = a2
  p1 = p1
  p2 = p2
  p3 = p3
  t1 = t1
  t2 = t2
  t3 = t3
  t4 = t4
  Run <- MCRun
  App <- MCApp
  Imported <- MCImported
  Placed <- MCPlaced
  Agent <- MCAgent
  Namings <- MCNamings
  MaxCrashes = 2
INVARIANTS
  TypeOK
  SwappedForTwin
  TracksAsMany
PROPERTIES
  NeverEmptied
  ReplicatingKept
  AddedBesideTwin
  Finishes
\* Once nothing is left to swap the model stops.
CHECK_DEADLOCK FALSE
