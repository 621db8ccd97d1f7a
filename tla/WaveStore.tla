----------------------------- MODULE WaveStore -----------------------------
(***************************************************************************)
(* The wave row and the invocations that write it (state/store.py,         *)
(* agents/orchestrator.py).  Every write is get_wave, an edit of the copy, *)
(* and put_wave, which reads the row again to check the status change and  *)
(* then replaces the whole item: three requests to DynamoDB with nothing   *)
(* between them that excludes another invocation.  The comment on          *)
(* DynamoDbStateStore relies on the waves being re-invoked serially; here  *)
(* that is a constant.                                                     *)
(***************************************************************************)
EXTENDS Transitions, Integers, Sequences

CONSTANTS
  Runner,      \* invocations of the runtime, of the agent's tools, of the MCP
  Steps,       \* contract.steps
  Serial,      \* TRUE: an invocation starts when no other one is under way
  StaleReads   \* TRUE: get_item is eventually consistent, as the code asks

ASSUME StoreConstants ==
  /\ Steps \in Seq(DOMAIN StepStatus)
  /\ Serial \in BOOLEAN /\ StaleReads \in BOOLEAN

StepNames == {Steps[j] : j \in DOMAIN Steps}

\* WaveState, as far as its writers tell its values apart.
Row == [status : Status, done : SUBSET StepNames]
Absent == [status |-> "ABSENT", done |-> {}]
New == [status |-> "PENDING", done |-> {}]

\* What an invocation wants to write: a status, or current_step alone, or the
\* step appended to completed_steps, or the first row of the wave.
Op == Status \cup {"touch", "append", "create", "none"}

VARIABLES
  row, old,    \* the item, and what it was before the last write
  pc, op,      \* each invocation: where it is, what it is about to write
  step,        \* ... the step it is in
  known,       \* ... the completed_steps of the wave object it loops with
  base, mine   \* ... the row its write starts from, and the row it writes

local == <<pc, op, step, known, base, mine>>
vars == <<row, old, local>>

PC == {"idle", "walk", "load", "check", "write", "handler"}

Init ==
  /\ row = Absent /\ old = Absent
  /\ pc = [r \in Runner |-> "idle"]
  /\ op = [r \in Runner |-> "none"]
  /\ step = [r \in Runner |-> "none"]
  /\ known = [r \in Runner |-> {}]
  /\ base = [r \in Runner |-> Absent]
  /\ mine = [r \in Runner |-> Absent]

\* get_item without ConsistentRead may miss the last write.
Reads == {row} \cup (IF StaleReads THEN {old} ELSE {})

\* r goes on to p, about to write o.
Plan(r, p, o) ==
  /\ pc' = [pc EXCEPT ![r] = p]
  /\ op' = [op EXCEPT ![r] = o]

Quit(r) ==
  /\ Plan(r, "idle", "none")
  /\ step' = [step EXCEPT ![r] = "none"]
  /\ known' = [known EXCEPT ![r] = {}]
  /\ base' = [base EXCEPT ![r] = Absent]
  /\ mine' = [mine EXCEPT ![r] = Absent]

\* Mutant: the row is rebuilt instead of edited.
Rebuild(o, w, s) ==
  CASE o = "append" -> [w EXCEPT !.done = @ \cup {s}]
    [] o = "touch"  -> w
    [] OTHER        -> [status |-> o, done |-> {}]

\* The copy w edited for o.
Edit(o, w, s) ==
  CASE o = "append" -> [w EXCEPT !.done = @ \cup {s}]
    [] o = "touch"  -> w
    [] OTHER        -> [w EXCEPT !.status = o]

-----------------------------------------------------------------------------
MayBegin(r) ==
  /\ pc[r] = "idle"
  /\ Serial => \A q \in Runner : pc[q] = "idle"

\* run_wave: an absent row is created, any other is walked.
Begin(r) ==
  /\ MayBegin(r)
  /\ \E w \in Reads :
       \/ /\ w = Absent
          /\ Plan(r, "check", "create")
          /\ mine' = [mine EXCEPT ![r] = New]
          /\ UNCHANGED known
       \/ /\ w # Absent
          /\ Plan(r, "walk", "none")
          /\ known' = [known EXCEPT ![r] = w.done]
          /\ UNCHANGED mine
  /\ UNCHANGED <<row, old, step, base>>

\* Mutant: the tool does not wait for the run under way.
EscalateAnytime(r) ==
  /\ pc[r] = "idle"
  /\ Plan(r, "load", "ESCALATED")
  /\ UNCHANGED <<row, old, step, known, base, mine>>

\* The escalate tool of the agent, another invocation with one write to do.
BeginEscalate(r) ==
  /\ MayBegin(r)
  /\ Plan(r, "load", "ESCALATED")
  /\ UNCHANGED <<row, old, step, known, base, mine>>

\* Mutant: the step's name written where its status belongs.
WalkByName(r) ==
  /\ pc[r] = "walk"
  /\ \E j \in DOMAIN Steps :
       /\ Steps[j] \notin known[r]
       /\ Plan(r, "load", Steps[j])
       /\ step' = [step EXCEPT ![r] = Steps[j]]
  /\ UNCHANGED <<row, old, known, base, mine>>

\* The loop of run_wave: the first step not known complete, or DONE.
Walk(r) ==
  /\ pc[r] = "walk"
  /\ \/ \E j \in DOMAIN Steps :
          /\ Steps[j] \notin known[r]
          /\ \A k \in 1..(j - 1) : Steps[k] \in known[r]
          /\ Plan(r, "load", StepStatus[Steps[j]])
          /\ step' = [step EXCEPT ![r] = Steps[j]]
     \/ /\ StepNames \subseteq known[r]
        /\ Plan(r, "load", "DONE")
        /\ UNCHANGED step
  /\ UNCHANGED <<row, old, known, base, mine>>

\* get_wave and the edit.  A missing row is a KeyError, an illegal change of
\* the copy's status an IllegalTransition.
Load(r) ==
  /\ pc[r] = "load"
  /\ \E w \in Reads :
       LET e == Edit(op[r], w, step[r]) IN
       \/ /\ w # Absent /\ CanMove(w.status, e.status)
          /\ base' = [base EXCEPT ![r] = w]
          /\ mine' = [mine EXCEPT ![r] = e]
          /\ Plan(r, "check", op[r])
          /\ UNCHANGED <<step, known>>
       \/ /\ w = Absent \/ ~CanMove(w.status, e.status)
          /\ Quit(r)
  /\ UNCHANGED <<row, old>>

\* put_wave: its own read and assert_legal ...
Check(r) ==
  /\ pc[r] = "check"
  /\ \E w \in Reads :
       \/ /\ w = Absent \/ CanMove(w.status, mine[r].status)
          /\ Plan(r, "write", op[r])
          /\ UNCHANGED <<step, known, base, mine>>
       \/ /\ w # Absent /\ ~CanMove(w.status, mine[r].status)
          /\ Quit(r)
  /\ UNCHANGED <<row, old>>

\* ... and put_item; then what the orchestrator does next.  The interpret step
\* also goes on after a modernization target it escalated.
Write(r) ==
  /\ pc[r] = "write"
  /\ row' = mine[r] /\ old' = row
  /\ \/ /\ op[r] \in {"create", "append"}
        /\ known' = [known EXCEPT ![r] = mine[r].done]
        /\ Plan(r, "walk", "none")
        /\ UNCHANGED <<step, base, mine>>
     \/ /\ op[r] \in Active
        /\ Plan(r, "load", "touch")
        /\ UNCHANGED <<step, known, base, mine>>
     \/ /\ op[r] = "touch"
        /\ Plan(r, "handler", "none")
        /\ UNCHANGED <<step, known, base, mine>>
     \/ /\ op[r] = "ROLLING_BACK"
        /\ Plan(r, "load", "ROLLED_BACK")
        /\ UNCHANGED <<step, known, base, mine>>
     \/ /\ op[r] = "ESCALATED" /\ step[r] = "interpret"
        /\ Plan(r, "load", "append")
        /\ UNCHANGED <<step, known, base, mine>>
     \/ /\ op[r] \in {"DONE", "ROLLED_BACK", "ESCALATED"}
        /\ Quit(r)

\* The step's handler ends: it continues, waits, escalates or rolls back.
Handler(r) ==
  /\ pc[r] = "handler"
  /\ \/ /\ \/ Plan(r, "load", "append")
           \/ Plan(r, "load", "ESCALATED")
           \/ step[r] \in {"test", "parity"} /\ Plan(r, "load", "ROLLING_BACK")
        /\ UNCHANGED <<step, known, base, mine>>
     \/ Quit(r)
  /\ UNCHANGED <<row, old>>

\* The container dies.
Crash(r) ==
  /\ pc[r] # "idle"
  /\ Quit(r)
  /\ UNCHANGED <<row, old>>

Next ==
  \E r \in Runner :
    \/ Begin(r) \/ BeginEscalate(r) \/ Walk(r) \/ Load(r) \/ Check(r) \/ Write(r)
    \/ Handler(r) \/ Crash(r)

Spec == Init /\ [][Next]_vars

-----------------------------------------------------------------------------
\* Every variable has its type.
TypeOK ==
  /\ row \in Row \cup {Absent} /\ old \in Row \cup {Absent}
  /\ pc \in [Runner -> PC] /\ op \in [Runner -> Op]
  /\ step \in [Runner -> StepNames \cup {"none"}]
  /\ known \in [Runner -> SUBSET StepNames]
  /\ base \in [Runner -> Row \cup {Absent}] /\ mine \in [Runner -> Row \cup {Absent}]

\* What a write may do to an escalated row.
SeenWrite ==
  row.status = "ESCALATED" /\ row'.status # "ESCALATED" =>
    \E r \in Runner :
      pc[r] = "write" /\ pc'[r] # "write" /\ base[r].status = "ESCALATED"

\* The row as its readers know it.
ROW == INSTANCE WaveRow WITH status <- row.status, done <- row.done

\* Whatever the copies in flight, a write is one move of the table or one more
\* completed step, in the contract's order: none is lost (losing one runs the
\* step again), and the status of a step that is over is not written back.
ImplementsRow == ROW!Spec

\* An escalated wave is taken up again only by an invocation that saw it
\* escalated: "escalated means a person owes an answer, so auto-resuming it
\* would defeat the gate" (README.md).
EscalationHolds == [][SeenWrite]_vars
=============================================================================
