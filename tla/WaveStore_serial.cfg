\* Two invocations, one at a time; reads see every earlier write.
SPECIFICATION Spec
CONSTANTS
  r1 = r1
  r2 = r2
  Runner <- MCRunner
  Steps <- MCSteps
  Serial = TRUE
  StaleReads = FALSE
SYMMETRY Symmetry
INVARIANT
  TypeOK
PROPERTIES
  ImplementsRow
  
