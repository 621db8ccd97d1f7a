---------------------------- MODULE Transitions ----------------------------
(***************************************************************************)
(* The wave's status vocabulary and its legal transition table, which the  *)
(* code keeps "in code, not in DynamoDB" (state/transitions.py).  Every    *)
(* write of a wave row is checked against this table, by the orchestrator  *)
(* (transition) and again by the store (put_wave).                         *)
(***************************************************************************)

\* The seven statuses a wave goes through while a step of it is running.
Active ==
  {"PRECHECK", "INTERPRETING", "REPLICATING", "TESTING", "CUTTING_OVER",
   "PARITY_CHECK", "FINOPS"}

Status ==
  Active \cup {"PENDING", "DONE", "ROLLING_BACK", "ROLLED_BACK", "ESCALATED",
               "FAILED"}

\* _STEP_STATUS (agents/orchestrator.py): the status of each step that has one.
StepStatus ==
  [precheck |-> "PRECHECK", interpret |-> "INTERPRETING",
   replicate |-> "REPLICATING", test |-> "TESTING",
   cutover |-> "CUTTING_OVER", parity |-> "PARITY_CHECK",
   finops |-> "FINOPS"]

\* The targets the table allows from each status.
Targets(s) ==
  CASE s = "PENDING"      -> {"PRECHECK", "ESCALATED"}
    [] s = "PRECHECK"     -> {"INTERPRETING", "ESCALATED", "FAILED"}
    [] s = "INTERPRETING" -> {"REPLICATING", "ESCALATED", "FAILED"}
    [] s = "REPLICATING"  -> {"REPLICATING", "TESTING", "ESCALATED", "FAILED"}
    [] s = "TESTING"      -> {"CUTTING_OVER", "ROLLING_BACK", "ESCALATED", "FAILED"}
    [] s = "CUTTING_OVER" -> {"PARITY_CHECK", "ROLLING_BACK", "ESCALATED", "FAILED"}
    [] s = "PARITY_CHECK" -> {"FINOPS", "ROLLING_BACK", "ESCALATED", "FAILED"}
    [] s = "FINOPS"       -> {"DONE", "ROLLING_BACK", "ESCALATED"}
    [] s = "ROLLING_BACK" -> {"ROLLED_BACK", "FAILED", "ESCALATED"}
    [] s = "ESCALATED"    -> Active \cup {"FAILED", "ROLLING_BACK"}
    [] OTHER              -> {}   \* DONE, ROLLED_BACK and FAILED are terminal

\* Mutant: only terminal statuses are protected.
CanMoveUnlessOver(s, t) == s = t \/ s \notin {"DONE", "ROLLED_BACK", "FAILED"}

\* is_legal, as assert_legal and put_wave use it: a write that keeps the
\* status is never looked up in the table.
CanMove(s, t) == s = t \/ t \in Targets(s)

Terminal == {"DONE", "ROLLED_BACK", "FAILED"}

\* A settled wave is left alone by the scheduler.
Settled == Terminal \cup {"ESCALATED"}
=============================================================================
