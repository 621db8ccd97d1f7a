\* Every kind of run, every fault, a contract that denies, one run that dies.
SPECIFICATION Spec
CONSTANTS
  Steps <- MCSteps
  OperatorInputs <- MCOperator
  TickInputs <- MCScheduled
  Jobs <- AnyJob
  Faults <- AllFaults
  EarlyLaunch = FALSE
  MaxCrashes = 1
INVARIANTS
  TypeOK
  CutoverAfterGreenTest
  
  DoneMeansJudged
  RollbackStands
PROPERTIES
  CutoverOnLatestVerdict
  PolicyHolds
  EscalatedIsMarked
  ImplementsRow
