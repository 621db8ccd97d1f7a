-------------------------- MODULE MCTransformChat --------------------------
(* Instances of the conversation: callers, questions and plans.            *)
EXTENDS TransformChat, TLC

CONSTANTS r1, r2, d1, d2, q1, q2, q3

MCOneRun == {r1}
MCTwoRuns == {r1, r2}
Symmetry == Permutations({r1, r2})

MCDenial == {d1}

Ask(q, k, os) == [asks |-> q, kind |-> k, offers |-> os]

\* A step forward, the cutover beside it, and what a person has to weigh.
Forward == Ask(q1, "plain", {"proceed"})
ToCutover == Ask(q2, "plain", {"cutover"})
Destructive == Ask(q2, "plain", {"proceed", "delete"})
Dangerous == Ask(q2, "danger", {"proceed"})
Manual == Ask(q2, "manual", {"proceed"})
Installed == Ask(q3, "install", {"completed"})
Sizing == Ask(q3, "plain", {"recommend", "value"})

SerialGates == {ToCutover, Destructive, Dangerous, Installed}
SizingGates == {Sizing, Destructive}
CutoverGates == {ToCutover}

PersonOrAgent == {"person", "agent"}
Schedule == {"tick"}
Agent == {"agent"}

AllJobs == {"missing", "stopped", "executing", "awaiting", "completed"}
Executing == {"executing"}

\* People who write APPROVED mean it.
Plain == {[consents |-> TRUE, word |-> TRUE], [consents |-> FALSE, word |-> FALSE],
          [consents |-> TRUE, word |-> FALSE]}

SerialMoves == {"job", "installation", "strain", "blocker"}
EstateMoves == {"plan"}
NoMoves == {}

Yes == {[consents |-> TRUE, word |-> TRUE]}

AllFaults == {"policy", "initialize", "resize", "control"}
NoFaults == {}
=============================================================================
