\* The scheduled path, nothing fails.
SPECIFICATION Spec
CONSTANTS
  Steps <- MCSteps
  OperatorInputs <- MCNobody
  TickInputs <- MCScheduled
  Jobs <- JobRunning
  Faults <- NoFaults
  EarlyLaunch = FALSE
  MaxCrashes = 0
INVARIANT
  DoneMeansCutOver
\* A settled wave with no operator's run to come stays where it is.
CHECK_DEADLOCK FALSE
