\* Invocations of everybody, two at a time, on one thread and one queue.
SPECIFICATION Spec
CONSTANTS
  r1 = r1
  r2 = r2
  d1 = d1
  d2 = d2
  q1 = q1
  q2 = q2
  q3 = q3
  Run <- MCTwoRuns
  Denial <- MCDenial
  Answers <- Plain
  Callers <- PersonOrAgent
  Gates <- SizingGates
  JobStates <- Executing
  Moves <- EstateMoves
  MaxTasks = 2
  Faults <- NoFaults
  Overlap = TRUE
  MaxTurns = 1
  StallAfter = 1
  MaxMarks = 1
  MaxCrashes = 0
SYMMETRY Symmetry
INVARIANTS
  TypeOK
  OpenTasksDistinct
  
