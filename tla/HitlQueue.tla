----------------------------- MODULE HitlQueue -----------------------------
(***************************************************************************)
(* The queue of questions to people (tools/hitl.py, DynamoDbHitlQueue) and *)
(* the console's answer to them (tools/console.py).  Asking is two         *)
(* requests: a scan for the same question still open, then a put.  People  *)
(* answer in their own words; what counts as an approval is read from the  *)
(* decision log, not from the task (orchestrator.py, _gate_approved).      *)
(*                                                                         *)
(* The tasks of one wave at the gate of a refused cutover, "proceed"       *)
(* (proceed_wave_cutover), each about a list of refused servers.  The other*)
(* gate, "resize" (resize_to_peak), is granted without being asked for.    *)
(***************************************************************************)
EXTENDS Naturals, Sequences

CONSTANTS
  Run,      \* the invocations that ask
  Denial,   \* lists of servers whose planned size violates the contract
  Answers,  \* what people write: [consents, word]
  MaxTasks  \* bound: with so many tasks nobody answers any more

Gate == {"proceed", "resize"}

\* A person's words: whether they mean yes, and whether the text contains
\* APPROVED.
Words == [consents : BOOLEAN, word : BOOLEAN]

ASSUME QueueConstants ==
  /\ "fits" \notin Denial
  /\ Answers \subseteq Words
  /\ MaxTasks \in Nat

VARIABLES
  tasks,     \* the table's proceed tasks of the wave, oldest first
  approved,  \* decision log: a human's entry of the gate that says APPROVED
  consented  \* whether a person has really said yes to it (not in the code)

queue == <<tasks, approved, consented>>

Task == [asks : Denial, by : Run, open : BOOLEAN]

QueueInit == tasks = <<>> /\ approved = FALSE /\ consented = FALSE

QueueTyped ==
  /\ tasks \in Seq(Task)
  /\ approved \in BOOLEAN /\ consented \in BOOLEAN

\* _already_open: the same question, still pending.
AlreadyOpen(d) == \E i \in DOMAIN tasks : tasks[i].open /\ tasks[i].asks = d

\* submit's second half: _put under a key of its own.
PutTask(r, d) == tasks' = Append(tasks, [asks |-> d, by |-> r, open |-> TRUE])

\* Mutant: a question that is closed counts as approved, as _contract_gate
\* would have it.
ReplyApproves ==
  /\ Len(tasks) < MaxTasks /\ \E i \in DOMAIN tasks : tasks[i].open
  /\ \E a \in Answers :
       consented' = (consented \/ a.consents)
  /\ approved' = TRUE
  /\ tasks' = [i \in DOMAIN tasks |-> [tasks[i] EXCEPT !.open = FALSE]]

\* reply_to_agent: the text is logged as a human's hitl entry of the gate, and
\* _close_hitl closes every open task of the kind, whatever was said.  The
\* panel offers a reply to the questions that are open.
Reply ==
  /\ Len(tasks) < MaxTasks /\ \E i \in DOMAIN tasks : tasks[i].open
  /\ \E a \in Answers :
       /\ approved' = (approved \/ a.word)
       /\ consented' = (consented \/ a.consents)
  /\ tasks' = [i \in DOMAIN tasks |-> [tasks[i] EXCEPT !.open = FALSE]]

\* One open question per list of refused servers and asker: a question is
\* duplicated only by an invocation that scanned before the other's put,
\* never by the same invocation asking again or by a later one ("sixty-odd
\* identical rows in a night", hitl.py).
OpenTasksDistinct ==
  \A i, j \in DOMAIN tasks :
    /\ i # j /\ tasks[i].open /\ tasks[j].open
    /\ tasks[i].asks = tasks[j].asks
    => tasks[i].by # tasks[j].by
=============================================================================
