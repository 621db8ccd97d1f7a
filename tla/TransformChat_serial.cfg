\* One invocation at a time, by the schedule or by people, dying and resumed.
SPECIFICATION FairSpec
CONSTANTS
  r1 = r1
  r2 = r2
  d1 = d1
  d2 = d2
  q1 = q1
  q2 = q2
  q3 = q3
  Run <- MCOneRun
  Denial <- MCDenial
  Answers <- Yes
  Callers <- Schedule
  Gates <- SerialGates
  JobStates <- AllJobs
  Moves <- SerialMoves
  MaxTasks = 2
  Faults <- AllFaults
  Overlap = FALSE
  MaxTurns = 3
  StallAfter = 2
  MaxMarks = 4
  MaxCrashes = 1
INVARIANT
  EndsAsTheWaveAssumes

  
  
\* A wave escalated with nobody left to invoke it stays where it is.
CHECK_DEADLOCK FALSE
