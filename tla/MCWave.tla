------------------------------- MODULE MCWave -------------------------------
(* Instances of the wave: the contract's steps, and the invocations.       *)
EXTENDS Wave

\* The steps of the business case the tests and the demo use, and one nobody
\* handles, which the walk skips.
MCSteps ==
  <<"precheck", "interpret", "inventory", "replicate", "test", "cutover",
    "parity", "finops">>

\* The direct payload of the tests: DNS parameters, nothing supplied.
Direct == [NoInputs EXCEPT !.params = TRUE]

\* What the scheduler's run derives from the workspace: no DNS parameters.
Scheduled == [NoInputs EXCEPT !.workspace = TRUE]

MCOperator ==
  {Direct,
   [Direct EXCEPT !.awaits = TRUE, !.modernize = TRUE],
   [Direct EXCEPT !.params = FALSE, !.probes = "supplied"],
   [Direct EXCEPT !.testDiffs = TRUE],
   [Direct EXCEPT !.denies = TRUE]}

MCGated == {[Direct EXCEPT !.gate = TRUE]}
MCScheduled == {Scheduled}
MCNobody == {}

AllFaults == {"discovery", "probe", "interpreter", "replication", "chat", "dns", "mgn"}
NoFaults == {}

JobRunning == {"running"}
AnyJob == {"missing", "running"}
=============================================================================
