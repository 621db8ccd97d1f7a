---------------------------- MODULE MCStepLedger ----------------------------
(* Small instances of the step ledger.                                     *)
EXTENDS StepLedger, TLC

CONSTANTS i1, i2, i3, k1, k2, r1, r2

MCInvocation == {i1, i2, i3}
MCKey == {k1, k2}
MCResult == {r1, r2}

\* Calls, keys and results are interchangeable.
Symmetry ==
  Permutations(MCInvocation) \cup Permutations(MCKey) \cup Permutations(MCResult)
=============================================================================
