------------------------------ MODULE WaveRow ------------------------------
(***************************************************************************)
(* What the wave row promises whoever reads it: a scheduler, the console,  *)
(* the next run.  Its status moves as the table allows ("Legal state       *)
(* transitions | put_wave -> assert_legal", README.md), its completed      *)
(* steps are kept and are added one at a time, in the contract's order and *)
(* while the row says that the step is running ("persists completed_steps  *)
(* step by step", README.md), and it says DONE when they all are there.    *)
(*                                                                         *)
(* Wave implements this row with its handlers, WaveStore with the requests *)
(* its invocations send to DynamoDB: it is what lets Wave take a write of  *)
(* the row for one action.                                                 *)
(***************************************************************************)
EXTENDS Transitions, Integers, Sequences

CONSTANT Steps   \* contract.steps

VARIABLES
  status,   \* "ABSENT" until the first run creates the row
  done      \* completed_steps

vars == <<status, done>>

Init == status \in {"ABSENT", "PENDING"} /\ done = {}

Create ==
  /\ status = "ABSENT" /\ status' = "PENDING"
  /\ UNCHANGED done

Move ==
  /\ status' \in Targets(status)
  /\ status' = "DONE" => \A j \in DOMAIN Steps : Steps[j] \in done
  /\ UNCHANGED done

\* The row says that s is running; interpret also goes on when it has handed a
\* modernization to a person.  A step without a status says nothing.
Running(s) ==
  s \in DOMAIN StepStatus =>
    status = StepStatus[s] \/ (s = "interpret" /\ status = "ESCALATED")

Extend ==
  /\ \E j \in DOMAIN Steps :
       /\ Steps[j] \notin done
       /\ \A k \in 1..(j - 1) : Steps[k] \in done
       /\ Running(Steps[j])
       /\ done' = done \cup {Steps[j]}
  /\ UNCHANGED status

Next == Create \/ Move \/ Extend

Spec == Init /\ [][Next]_vars
=============================================================================
