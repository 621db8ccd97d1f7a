\* The agent runs the wave over a plan the contract denies; nothing moves.
SPECIFICATION Spec
CONSTANTS
  r1 = r1
  r2 = r2
  d1 = d1
  d2 = d2
  q1 = q1
  q2 = q2
  q3 = q3
  Run <- MCOneRun
  Denial <- MCDenial
  Answers <- Yes
  Callers <- Agent
  Gates <- CutoverGates
  JobStates <- Executing
  Moves <- NoMoves
  MaxTasks = 2
  Faults <- NoFaults
  Overlap = FALSE
  MaxTurns = 3
  StallAfter = 2
  MaxMarks = 4
  MaxCrashes = 0
PROPERTY
  CutoverOfCheckedPlan
