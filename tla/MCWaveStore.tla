---------------------------- MODULE MCWaveStore ----------------------------
(* Small instances of the wave row and its writers.                        *)
EXTENDS WaveStore, TLC

CONSTANTS r1, r2

MCRunner == {r1, r2}
MCSteps ==
  <<"precheck", "interpret", "replicate", "test", "cutover", "parity", "finops">>

Symmetry == Permutations(MCRunner)
=============================================================================
