\* Three calls over two keys, reads that see every earlier write.
SPECIFICATION Spec
CONSTANTS
  i1 = i1
  i2 = i2
  i3 = i3
  k1 = k1
  k2 = k2
  r1 = r1
  r2 = r2
  None = None
  Invocation <- MCInvocation
  Key <- MCKey
  Result <- MCResult
  StaleReads = FALSE
SYMMETRY Symmetry
INVARIANTS
  TypeOK
  Agreement
  ReplayReturnsRecord
  RecordedWasPerformed
PROPERTY
  ImplementsOneResult
\* Every call ends, and a call is never repeated: the model stops.
CHECK_DEADLOCK FALSE
