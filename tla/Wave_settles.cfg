\* Runs that do not die, under the schedule.
SPECIFICATION FairSpec
CONSTANTS
  Steps <- MCSteps
  OperatorInputs <- MCGated
  TickInputs <- MCScheduled
  Jobs <- JobRunning
  Faults <- AllFaults
  EarlyLaunch = FALSE
  MaxCrashes = 0
INVARIANT
  RollbackIsFinal
PROPERTY
  Settles
