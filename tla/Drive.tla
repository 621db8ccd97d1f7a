------------------------------- MODULE Drive -------------------------------
(***************************************************************************)
(* The interface between the wave's replicate step and its conversation    *)
(* with AWS Transform: how Orchestrator._drive_transform_job may end,      *)
(* given the job it found.  Wave takes any of these ends; TransformChat    *)
(* shows that the conversation has no other.                               *)
(***************************************************************************)

\* The signal returned, and whether the drive marked the row ESCALATED.
Ends(signal, marked) == [signal |-> signal, marked |-> marked]

Handover == Ends("ESCALATE", TRUE)

\* No job by that name: the signal alone.  A CRITICAL task is a person's, of a
\* completed job too.  A live job's chat waits, hands over, gives up a resize
\* without a mark, or marks a refused prerequisite and waits all the same.
DriveEnds(job) ==
  CASE job = "missing"   -> {Ends("ESCALATE", FALSE)}
    [] job = "completed" -> {Ends("CONTINUE", FALSE), Handover}
    [] OTHER             -> {Ends("WAIT", FALSE), Handover,
                             Ends("ESCALATE", FALSE), Ends("WAIT", TRUE)}
=============================================================================
