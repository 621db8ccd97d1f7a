-------------------------- MODULE WaveStoreProofs --------------------------
(***************************************************************************)
(* What put_wave's check is worth as long as invocations are serial and    *)
(* reads are fresh: the assumption its comment makes, for any number of    *)
(* invocations and any contract.  Types need no such assumption.           *)
(***************************************************************************)
EXTENDS WaveStore, TLAPS

\* What r is about to write, and that it is in a step when the write is one of
\* a step's.
Shaped(r) ==
  /\ pc[r] = "load" => op[r] \in Status \cup {"touch", "append"}
  /\ pc[r] # "idle" /\ (pc[r] = "handler" \/ op[r] \in Active \cup {"touch", "append"})
       => step[r] \in StepNames

ShapeInv == TypeOK /\ \A r \in Runner : Shaped(r)

\* At most one invocation is under way.
Alone == \A q, r \in Runner : pc[q] # "idle" /\ pc[r] # "idle" => q = r

\* s is the first step that the row does not record.
NextUp(s) ==
  /\ s \notin row.done
  /\ \E j \in DOMAIN Steps :
       Steps[j] = s /\ \A k \in 1..(j - 1) : Steps[k] \in row.done

\* r is about to write for the step it is in.
InStep(r) ==
  /\ \/ pc[r] = "handler"
     \/ pc[r] \notin {"idle", "walk"} /\ op[r] \notin {"create", "DONE"}
  /\ step[r] # "none"

\* What invocation r is about to write starts from the row as it is.
FromTheRow(r) ==
  pc[r] \in {"check", "write"} =>
    IF op[r] = "create" THEN row = Absent /\ mine[r] = New
    ELSE /\ row # Absent /\ base[r] = row
         /\ mine[r] = Edit(op[r], row, step[r])
         /\ CanMove(row.status, mine[r].status)

\* The loop of r is where the row says it is.
AtTheRow(r) ==
  /\ pc[r] = "idle" => step[r] = "none"
  /\ pc[r] = "walk" => known[r] = row.done
  /\ pc[r] # "idle" /\ op[r] = "DONE" => StepNames \subseteq row.done
  /\ InStep(r) => NextUp(step[r])
  /\ pc[r] # "idle" /\ op[r] \in Active => op[r] = StepStatus[step[r]]
  /\ pc[r] # "idle" /\ (pc[r] = "handler" \/ op[r] \in {"touch", "append"})
       => ROW!Running(step[r])

Fresh(r) == FromTheRow(r) /\ AtTheRow(r)

FreshInv == Alone /\ \A r \in Runner : Fresh(r)

\* A row says DONE only when every step is recorded complete.
DoneIsWalked == row.status = "DONE" => row.done = StepNames

IInv == ShapeInv /\ FreshInv /\ DoneIsWalked
-----------------------------------------------------------------------------
\* The statuses of the steps, and the records the actions build.
LEMMA Typed ==
  /\ Absent \notin Row /\ New \in Row
  /\ \A s \in DOMAIN StepStatus : StepStatus[s] \in Active
  /\ StepNames \subseteq DOMAIN StepStatus
  /\ "none" \notin StepNames
  /\ \A w \in Row : w \in [status : Status, done : SUBSET StepNames]
  /\ Active \subseteq Status
  /\ {"touch", "append", "create", "none"} \cap Status = {}
<1>1. \A s \in DOMAIN StepStatus : StepStatus[s] \in Active /\ s # "none"
  BY DEF StepStatus, Active
<1>2. StepNames \subseteq DOMAIN StepStatus
  BY StoreConstants DEF StepNames
<1>3. Absent \notin Row /\ New \in Row
  BY DEF Absent, New, Row, Status, Active
<1> QED
  BY <1>1, <1>2, <1>3 DEF Row, Status, Active

\* An edited row is a row, with what it had complete.
LEMMA EditTyped ==
  ASSUME NEW w \in Row, NEW o \in Status \cup {"touch", "append"}, NEW s,
         o = "append" => s \in StepNames
  PROVE  /\ Edit(o, w, s) \in Row
         /\ o \in Status => /\ Edit(o, w, s).status = o
                            /\ Edit(o, w, s).done = w.done
         /\ o = "touch" => Edit(o, w, s) = w
         /\ o = "append" => /\ Edit(o, w, s).status = w.status
                            /\ Edit(o, w, s).done = w.done \cup {s}
  BY Typed DEF Edit, Row

\* The abstract row reads the same table.
LEMMA SameTable ==
  /\ ROW!StepStatus = StepStatus
  /\ \A s : ROW!Targets(s) = Targets(s)
  BY DEF ROW!StepStatus, StepStatus, ROW!Targets, Targets, ROW!Active, Active

\* One step of invocation r.
Act(r) ==
  \/ Begin(r) \/ BeginEscalate(r) \/ Walk(r) \/ Load(r) \/ Check(r) \/ Write(r)
  \/ Handler(r) \/ Crash(r)

-----------------------------------------------------------------------------
\* Types.

\* A read finds the row or, at worst, what it was.
LEMMA ReadTyped == TypeOK => \A w \in Reads : w \in Row \cup {Absent}
  BY DEF TypeOK, Reads

\* A step of r touches nothing of the others.
LEMMA Apart ==
  ASSUME TypeOK, NEW r \in Runner, Act(r), NEW q \in Runner, q # r
  PROVE  pc'[q] = pc[q] /\ op'[q] = op[q] /\ step'[q] = step[q]
  BY DEF Act, Begin, BeginEscalate, Walk, Load, Check, Write, Handler, Crash, Plan,
     Quit, TypeOK

\* An invocation that quits has no shape to keep.
LEMMA QuitShape ==
  ASSUME TypeOK, NEW r \in Runner, Quit(r), row' \in Row \cup {Absent},
         old' \in Row \cup {Absent}
  PROVE  TypeOK' /\ Shaped(r)'
  BY DEF TypeOK, Quit, Plan, PC, Op, Shaped

LEMMA BeginShape ==
  ASSUME ShapeInv, NEW r \in Runner, Begin(r) \/ BeginEscalate(r)
  PROVE  TypeOK' /\ Shaped(r)'
<1> USE DEF ShapeInv, TypeOK
<1>1. CASE BeginEscalate(r)
  BY <1>1 DEF BeginEscalate, Plan, PC, Op, Shaped, Status, Active
<1>2. CASE Begin(r)
  <2>1. UNCHANGED <<row, old, step, base>>
    BY <1>2 DEF Begin
  <2>2. PICK w \in Row \cup {Absent} :
          \/ Plan(r, "check", "create") /\ mine' = [mine EXCEPT ![r] = New]
             /\ UNCHANGED known
          \/ /\ w # Absent /\ Plan(r, "walk", "none") /\ UNCHANGED mine
             /\ known' = [known EXCEPT ![r] = w.done]
    BY <1>2, ReadTyped DEF Begin
  <2> QED
    BY <2>1, <2>2, Typed DEF Plan, PC, Op, Shaped, Row, Status, Active
<1> QED
  BY <1>1, <1>2

LEMMA WalkShape ==
  ASSUME ShapeInv, NEW r \in Runner, Walk(r)
  PROVE  TypeOK' /\ Shaped(r)'
<1> USE DEF ShapeInv, TypeOK
<1>1. UNCHANGED <<row, old, known, base, mine>> /\ pc' = [pc EXCEPT ![r] = "load"]
  BY DEF Walk, Plan
<1>2. \/ \E s \in StepNames : /\ op' = [op EXCEPT ![r] = StepStatus[s]]
                              /\ step' = [step EXCEPT ![r] = s]
      \/ op' = [op EXCEPT ![r] = "DONE"] /\ step' = step
  BY DEF Walk, Plan, StepNames
<1> QED
  BY <1>1, <1>2, Typed DEF PC, Op, Shaped, Status, Active

LEMMA LoadShape ==
  ASSUME ShapeInv, NEW r \in Runner, Load(r)
  PROVE  TypeOK' /\ Shaped(r)'
<1> USE DEF ShapeInv, TypeOK
<1>1. UNCHANGED <<row, old>> /\ pc[r] = "load"
  BY DEF Load
<1>2. op[r] \in Status \cup {"touch", "append"}
      /\ (op[r] \in Active \cup {"touch", "append"} => step[r] \in StepNames)
  BY <1>1 DEF Shaped
<1>3. CASE Quit(r)
  BY <1>1, <1>3, QuitShape
<1>4. CASE \E w \in Reads :
             /\ w # Absent
             /\ base' = [base EXCEPT ![r] = w]
             /\ mine' = [mine EXCEPT ![r] = Edit(op[r], w, step[r])]
             /\ Plan(r, "check", op[r])
             /\ UNCHANGED <<step, known>>
  <2>1. PICK w \in Row : /\ base' = [base EXCEPT ![r] = w]
                         /\ mine' = [mine EXCEPT ![r] = Edit(op[r], w, step[r])]
    BY <1>4, ReadTyped
  <2>2. Edit(op[r], w, step[r]) \in Row
    BY <1>2, EditTyped
  <2>3. /\ pc' = [pc EXCEPT ![r] = "check"] /\ op' = [op EXCEPT ![r] = op[r]]
        /\ UNCHANGED <<step, known>>
    BY <1>4 DEF Plan
  <2> QED
    BY <1>1, <1>2, <2>1, <2>2, <2>3 DEF PC, Op, Shaped
<1> QED
  BY <1>3, <1>4 DEF Load

LEMMA CheckShape ==
  ASSUME ShapeInv, NEW r \in Runner, Check(r)
  PROVE  TypeOK' /\ Shaped(r)'
<1> USE DEF ShapeInv, TypeOK
<1>1. UNCHANGED <<row, old>> /\ pc[r] = "check"
  BY DEF Check
<1>2. CASE Quit(r)
  BY <1>1, <1>2, QuitShape
<1>3. CASE Plan(r, "write", op[r]) /\ UNCHANGED <<step, known, base, mine>>
  BY <1>1, <1>3 DEF Plan, PC, Shaped
<1> QED
  BY <1>2, <1>3 DEF Check

LEMMA WriteShape ==
  ASSUME ShapeInv, NEW r \in Runner, Write(r)
  PROVE  TypeOK' /\ Shaped(r)'
<1> USE DEF ShapeInv, TypeOK
<1>1. row' = mine[r] /\ old' = row /\ pc[r] = "write"
  BY DEF Write
<1>2. CASE Quit(r)
  BY <1>1, <1>2, QuitShape
<1>3. CASE /\ Plan(r, "walk", "none")
           /\ known' = [known EXCEPT ![r] = mine[r].done]
           /\ UNCHANGED <<step, base, mine>>
  <2>1. mine[r].done \subseteq StepNames
    BY DEF Row, Absent
  <2> QED
    BY <1>1, <1>3, <2>1 DEF Plan, PC, Op, Shaped, Status, Active
<1>4. CASE /\ \/ op[r] \in Active /\ Plan(r, "load", "touch")
              \/ op[r] = "touch" /\ Plan(r, "handler", "none")
              \/ op[r] = "ROLLING_BACK" /\ Plan(r, "load", "ROLLED_BACK")
              \/ /\ op[r] = "ESCALATED" /\ step[r] = "interpret"
                 /\ Plan(r, "load", "append")
           /\ UNCHANGED <<step, known, base, mine>>
  <2>1. op[r] \in Active \cup {"touch"} => step[r] \in StepNames
    BY <1>1 DEF Shaped
  <2>2. step[r] = "interpret" => step[r] \in StepNames
    OBVIOUS
  <2> QED
    BY <1>1, <1>4, <2>1, <2>2 DEF Plan, PC, Op, Shaped, Status, Active
<1> QED
  BY <1>2, <1>3, <1>4 DEF Write

LEMMA HandlerShape ==
  ASSUME ShapeInv, NEW r \in Runner, Handler(r) \/ Crash(r)
  PROVE  TypeOK' /\ Shaped(r)'
<1> USE DEF ShapeInv, TypeOK
<1>1. UNCHANGED <<row, old>>
  BY DEF Handler, Crash
<1>2. CASE Quit(r)
  BY <1>1, <1>2, QuitShape
<1>3. CASE /\ pc[r] = "handler" /\ UNCHANGED <<step, known, base, mine>>
           /\ \E o \in {"append", "ESCALATED", "ROLLING_BACK"} : Plan(r, "load", o)
  BY <1>1, <1>3 DEF Plan, PC, Op, Shaped, Status, Active
<1> QED
  BY <1>2, <1>3 DEF Handler, Crash

LEMMA ShapeStep == ShapeInv /\ [Next]_vars => ShapeInv'
<1> SUFFICES ASSUME ShapeInv, [Next]_vars PROVE ShapeInv'
  OBVIOUS
<1>1. CASE UNCHANGED vars
  BY <1>1 DEF vars, local, ShapeInv, TypeOK, Shaped
<1>2. CASE Next
  <2>1. PICK r \in Runner : Act(r)
    BY <1>2 DEF Next, Act
  <2>2. TypeOK' /\ Shaped(r)'
    BY <2>1, BeginShape, WalkShape, LoadShape, CheckShape, WriteShape, HandlerShape
    DEF Act
  <2>3. \A q \in Runner : q # r => Shaped(q)'
    BY <2>1, Apart DEF ShapeInv, Shaped
  <2> QED
    BY <2>2, <2>3 DEF ShapeInv
<1> QED
  BY <1>1, <1>2

LEMMA ShapeAlways == Spec => []ShapeInv
<1>1. Init => ShapeInv
  BY Typed DEF Init, ShapeInv, TypeOK, Shaped, PC, Op, Absent
<1> QED
  BY <1>1, ShapeStep, PTL DEF Spec

\* The row and the copies of it are rows, however many invocations write it
\* and whatever their reads miss.
THEOREM TypeCorrect == Spec => []TypeOK
<1>1. ShapeInv => TypeOK
  BY DEF ShapeInv
<1> QED
  BY <1>1, ShapeAlways, PTL

-----------------------------------------------------------------------------
\* Serial invocations with fresh reads.

\* While r takes its step the others are idle, and stay so.
LEMMA OthersIdle ==
  ASSUME Serial, IInv, NEW r \in Runner, Act(r)
  PROVE  \A q \in Runner : q # r => pc[q] = "idle" /\ pc'[q] = "idle"
<1>1. \A q \in Runner : q # r => pc[q] = "idle"
  BY DEF Act, Begin, BeginEscalate, MayBegin, Walk, Load, Check, Write, Handler,
     Crash, IInv, FreshInv, Alone
<1> QED
  BY <1>1, Apart DEF IInv, ShapeInv

\* So the invariant of the others comes for nothing.
LEMMA OnlyMine ==
  ASSUME Serial, IInv, NEW r \in Runner, Act(r), Fresh(r)', DoneIsWalked'
  PROVE  IInv'
<1>1. Alone'
  BY OthersIdle DEF Alone
<1>2. \A q \in Runner : q # r => Fresh(q)'
  <2> SUFFICES ASSUME NEW q \in Runner, q # r PROVE Fresh(q)'
    OBVIOUS
  <2>1. pc'[q] = "idle" /\ step'[q] = step[q] /\ step[q] = "none"
    BY OthersIdle, Apart DEF IInv, ShapeInv, FreshInv, Fresh, AtTheRow
  <2> QED
    BY <2>1 DEF Fresh, FromTheRow, AtTheRow, InStep
<1>3. ShapeInv'
  BY ShapeStep DEF IInv, Next, Act
<1> QED
  BY <1>1, <1>2, <1>3 DEF IInv, FreshInv

\* The row stays: what r has read of it is still true of it.
LEMMA SameRow ==
  ASSUME UNCHANGED <<row, old>>, NEW s
  PROVE  (NextUp(s) => NextUp(s)') /\ (ROW!Running(s) => ROW!Running(s)')
  BY DEF NextUp, ROW!Running

\* An invocation that quits has nothing to keep.
LEMMA QuitStep ==
  ASSUME IInv, NEW r \in Runner, Quit(r)
  PROVE  Fresh(r)'
<1>1. pc'[r] = "idle" /\ step'[r] = "none"
  BY DEF IInv, ShapeInv, TypeOK, Quit, Plan
<1> QED
  BY <1>1 DEF Fresh, FromTheRow, AtTheRow, InStep

LEMMA BeginStep ==
  ASSUME Serial, ~StaleReads, IInv, NEW r \in Runner, Begin(r) \/ BeginEscalate(r)
  PROVE  IInv'
<1> USE DEF IInv, ShapeInv, TypeOK
<1>1. row' = row /\ old' = old /\ step' = step /\ step[r] = "none"
  BY DEF Begin, BeginEscalate, MayBegin, FreshInv, Fresh, AtTheRow
<1>2. Fresh(r)'
  <2> USE DEF Fresh, FromTheRow, AtTheRow, InStep
  <2>1. CASE BeginEscalate(r)
    BY <1>1, <2>1 DEF BeginEscalate, Plan, Active
  <2>2. CASE Begin(r) /\ row = Absent
    BY <1>1, <2>2, Typed DEF Begin, Plan, Reads, Active
  <2>3. CASE Begin(r) /\ row # Absent
    BY <1>1, <2>3, Typed DEF Begin, Plan, Reads, Active
  <2> QED
    BY <2>1, <2>2, <2>3
<1> QED
  BY <1>1, <1>2, OnlyMine DEF Act, DoneIsWalked

LEMMA WalkStep ==
  ASSUME Serial, ~StaleReads, IInv, NEW r \in Runner, Walk(r)
  PROVE  IInv'
<1> USE DEF IInv, ShapeInv, TypeOK
<1>1. UNCHANGED <<row, old, known, base, mine>> /\ pc' = [pc EXCEPT ![r] = "load"]
  BY DEF Walk, Plan
<1>2. \/ \E s \in StepNames :
           /\ NextUp(s)
           /\ op' = [op EXCEPT ![r] = StepStatus[s]]
           /\ step' = [step EXCEPT ![r] = s]
      \/ /\ op' = [op EXCEPT ![r] = "DONE"] /\ step' = step
         /\ StepNames \subseteq row.done
  BY DEF Walk, Plan, StepNames, NextUp, FreshInv, Fresh, AtTheRow
<1>3. Fresh(r)'
  BY <1>1, <1>2, Typed, SameRow DEF Fresh, FromTheRow, AtTheRow, InStep, Active
<1> QED
  BY <1>1, <1>3, OnlyMine DEF Act, DoneIsWalked

LEMMA LoadStep ==
  ASSUME Serial, ~StaleReads, IInv, NEW r \in Runner, Load(r)
  PROVE  IInv'
<1> USE DEF IInv, ShapeInv, TypeOK
<1>1. UNCHANGED <<row, old>> /\ pc[r] = "load"
  BY DEF Load
<1>2. CASE Quit(r)
  BY <1>1, <1>2, QuitStep, OnlyMine DEF Act, DoneIsWalked
<1>3. CASE /\ row # Absent /\ CanMove(row.status, Edit(op[r], row, step[r]).status)
           /\ base' = [base EXCEPT ![r] = row]
           /\ mine' = [mine EXCEPT ![r] = Edit(op[r], row, step[r])]
           /\ pc' = [pc EXCEPT ![r] = "check"] /\ op' = [op EXCEPT ![r] = op[r]]
           /\ UNCHANGED <<step, known>>
  <2>1. op[r] # "create"
    BY <1>1, Typed DEF Shaped
  <2>2. FromTheRow(r)'
    BY <1>1, <1>3, <2>1 DEF FromTheRow
  <2>3. AtTheRow(r)'
    BY <1>1, <1>3, SameRow DEF FreshInv, Fresh, AtTheRow, InStep
  <2> QED
    BY <1>1, <2>2, <2>3, OnlyMine DEF Act, DoneIsWalked, Fresh
<1> QED
  BY <1>2, <1>3 DEF Load, Reads, Plan

LEMMA CheckStep ==
  ASSUME Serial, ~StaleReads, IInv, NEW r \in Runner, Check(r)
  PROVE  IInv'
<1> USE DEF IInv, ShapeInv, TypeOK
<1>1. UNCHANGED <<row, old>> /\ pc[r] = "check"
  BY DEF Check
<1>2. CASE Quit(r)
  BY <1>1, <1>2, QuitStep, OnlyMine DEF Act, DoneIsWalked
<1>3. CASE /\ pc' = [pc EXCEPT ![r] = "write"] /\ op' = [op EXCEPT ![r] = op[r]]
           /\ UNCHANGED <<step, known, base, mine>>
  <2>1. FromTheRow(r)'
    BY <1>1, <1>3 DEF FreshInv, Fresh, FromTheRow
  <2>2. AtTheRow(r)'
    BY <1>1, <1>3, SameRow DEF FreshInv, Fresh, AtTheRow, InStep
  <2> QED
    BY <1>1, <2>1, <2>2, OnlyMine DEF Act, DoneIsWalked, Fresh
<1> QED
  BY <1>2, <1>3 DEF Check, Plan

LEMMA HandlerStep ==
  ASSUME Serial, ~StaleReads, IInv, NEW r \in Runner, Handler(r) \/ Crash(r)
  PROVE  IInv'
<1> USE DEF IInv, ShapeInv, TypeOK
<1>1. UNCHANGED <<row, old>>
  BY DEF Handler, Crash
<1>2. CASE Quit(r)
  BY <1>1, <1>2, QuitStep, OnlyMine DEF Act, DoneIsWalked
<1>3. CASE /\ pc[r] = "handler" /\ pc' = [pc EXCEPT ![r] = "load"]
           /\ \E o \in {"append", "ESCALATED", "ROLLING_BACK"} :
                op' = [op EXCEPT ![r] = o]
           /\ UNCHANGED <<step, known, base, mine>>
  <2>1. NextUp(step[r]) /\ ROW!Running(step[r])
    <3>1. step[r] \in StepNames
      BY <1>3 DEF Shaped
    <3>2. InStep(r)
      BY <1>3, <3>1, Typed DEF InStep
    <3> QED
      BY <1>3, <3>2 DEF FreshInv, Fresh, AtTheRow
  <2>2. Fresh(r)'
    BY <1>1, <1>3, <2>1, SameRow
    DEF Fresh, FromTheRow, AtTheRow, InStep, Active
  <2> QED
    BY <1>1, <2>2, OnlyMine DEF Act, DoneIsWalked
<1> QED
  BY <1>2, <1>3 DEF Handler, Crash, Plan

\* A write that is not the first: the row edited, from what it was.
LEMMA Edited ==
  ASSUME IInv, NEW r \in Runner, Write(r), op[r] # "create"
  PROVE  /\ row \in Row /\ row' = Edit(op[r], row, step[r])
         /\ base[r] = row
         /\ op[r] \in Status \cup {"touch", "append"}
         /\ CanMove(row.status, row'.status)
         /\ op[r] \in Status => row'.status = op[r] /\ row'.done = row.done
         /\ op[r] = "touch" => row' = row
         /\ op[r] = "append" => /\ row'.status = row.status
                                /\ row'.done = row.done \cup {step[r]}
                                /\ NextUp(step[r]) /\ ROW!Running(step[r])
<1> USE DEF IInv, ShapeInv, TypeOK
<1>1. row' = mine[r] /\ pc[r] = "write"
  BY DEF Write
<1>2. op[r] \in Status \cup {"touch", "append"}
  BY DEF Write, Op, Status
<1>3. /\ row \in Row /\ base[r] = row /\ row' = Edit(op[r], row, step[r])
      /\ CanMove(row.status, row'.status)
  BY <1>1 DEF FreshInv, Fresh, FromTheRow
<1>4. op[r] = "append" => step[r] \in StepNames
  BY <1>1 DEF Shaped
<1>5. op[r] = "append" => NextUp(step[r]) /\ ROW!Running(step[r])
  BY <1>1, <1>4, Typed DEF FreshInv, Fresh, AtTheRow, InStep
<1>6. /\ op[r] \in Status => row'.status = op[r] /\ row'.done = row.done
      /\ op[r] = "touch" => row' = row
      /\ op[r] = "append" => /\ row'.status = row.status
                             /\ row'.done = row.done \cup {step[r]}
  <2> HIDE DEF IInv, ShapeInv, TypeOK
  <2> QED
    BY <1>2, <1>3, <1>4, EditTyped
<1> QED
  BY <1>2, <1>3, <1>5, <1>6

\* The first write.
LEMMA Created ==
  ASSUME IInv, NEW r \in Runner, Write(r), op[r] = "create"
  PROVE  row = Absent /\ row' = New
  BY DEF Write, IInv, FreshInv, Fresh, FromTheRow

\* A row is said to be done by the loop that found every step complete.
LEMMA WrittenDone ==
  ASSUME IInv, NEW r \in Runner, Write(r)
  PROVE  row'.status = "DONE" => StepNames \subseteq row'.done
<1>1. CASE op[r] = "create"
  BY <1>1, Created DEF New
<1>2. CASE op[r] \in Status
  <2>1. op[r] = "DONE" => StepNames \subseteq row.done
    BY DEF Write, IInv, FreshInv, Fresh, AtTheRow
  <2>2. op[r] # "create"
    BY <1>2 DEF Status, Active
  <2> QED
    BY <1>2, <2>1, <2>2, Edited
<1>3. CASE op[r] # "create" /\ op[r] \notin Status
  BY <1>3, Edited DEF IInv, DoneIsWalked
<1> QED
  BY <1>1, <1>2, <1>3

\* A write leaves the invocation where the row is.
LEMMA WriteStep ==
  ASSUME Serial, ~StaleReads, IInv, NEW r \in Runner, Write(r)
  PROVE  IInv'
<1> USE DEF IInv, ShapeInv, TypeOK
<1>1. row' = mine[r] /\ old' = row /\ pc[r] = "write"
  BY DEF Write
<1>2. DoneIsWalked'
  <2>1. ShapeInv'
    BY ShapeStep DEF Next
  <2>2. row' # Absent => row'.done \subseteq StepNames
    BY <2>1 DEF Row
  <2>3. row'.status = "DONE" => row' # Absent /\ StepNames \subseteq row'.done
    BY WrittenDone DEF Absent
  <2>4. row'.status = "DONE" => row'.done = StepNames
    BY <2>2, <2>3
  <2> QED
    BY <2>4 DEF DoneIsWalked
<1>3. Fresh(r)'
  <2> USE DEF Fresh, AtTheRow
  <2>1. CASE Quit(r)
    BY <2>1, QuitStep
  <2>2. CASE /\ Plan(r, "walk", "none")
             /\ known' = [known EXCEPT ![r] = mine[r].done]
             /\ UNCHANGED <<step, base, mine>>
    BY <1>1, <2>2 DEF Plan, FromTheRow, InStep, Active
  <2>3. CASE /\ op[r] \in Active /\ Plan(r, "load", "touch")
             /\ UNCHANGED <<step, known, base, mine>>
    <3>1. /\ step[r] \in StepNames /\ op[r] = StepStatus[step[r]] /\ InStep(r)
          /\ op[r] \in Status
      BY <1>1, <2>3, Typed DEF Shaped, FreshInv, InStep, Active
    <3>2. NextUp(step[r])' /\ ROW!Running(step[r])'
      <4>1. row'.status = op[r] /\ row'.done = row.done
        BY <3>1, Edited, Typed
      <4>2. NextUp(step[r])
        BY <3>1 DEF FreshInv
      <4> QED
        BY <2>3, <3>1, <4>1, <4>2, SameTable DEF NextUp, ROW!Running
    <3> QED
      BY <1>1, <2>3, <3>2 DEF Plan, FromTheRow, InStep, Active
  <2>4. CASE /\ op[r] = "touch" /\ Plan(r, "handler", "none")
             /\ UNCHANGED <<step, known, base, mine>>
    <3>1. step[r] \in StepNames /\ NextUp(step[r]) /\ ROW!Running(step[r])
      BY <1>1, <2>4, Typed DEF Shaped, FreshInv, InStep
    <3>2. NextUp(step[r])' /\ ROW!Running(step[r])'
      BY <2>4, <3>1, Edited DEF NextUp, ROW!Running
    <3> QED
      BY <1>1, <2>4, <3>2 DEF Plan, FromTheRow, InStep, Active
  <2>5. CASE /\ op[r] = "ROLLING_BACK" /\ Plan(r, "load", "ROLLED_BACK")
             /\ UNCHANGED <<step, known, base, mine>>
    <3>1. step[r] # "none" => NextUp(step[r])'
      BY <1>1, <2>5, Edited DEF FreshInv, InStep, NextUp, Status
    <3> QED
      BY <1>1, <2>5, <3>1 DEF Plan, FromTheRow, InStep, Active
  <2>6. CASE /\ op[r] = "ESCALATED" /\ step[r] = "interpret"
             /\ Plan(r, "load", "append") /\ UNCHANGED <<step, known, base, mine>>
    <3>1. NextUp(step[r])
      BY <1>1, <2>6 DEF FreshInv, InStep
    <3>2. row'.status = "ESCALATED" /\ row'.done = row.done
      BY <2>6, Edited DEF Status
    <3>3. NextUp(step[r])' /\ ROW!Running(step[r])'
      BY <2>6, <3>1, <3>2 DEF NextUp, ROW!Running
    <3> QED
      BY <1>1, <2>6, <3>3 DEF Plan, FromTheRow, InStep, Active
  <2> QED
    BY <2>1, <2>2, <2>3, <2>4, <2>5, <2>6 DEF Write
<1> QED
  BY <1>2, <1>3, OnlyMine DEF Act

\* Serial invocations with fresh reads keep the invariant.
LEMMA IInvStep ==
  ASSUME Serial, ~StaleReads
  PROVE  IInv /\ [Next]_vars => IInv'
<1> SUFFICES ASSUME IInv, [Next]_vars PROVE IInv'
  OBVIOUS
<1>1. CASE Next
  BY <1>1, BeginStep, WalkStep, LoadStep, CheckStep, WriteStep, HandlerStep DEF Next
<1>2. CASE UNCHANGED vars
  BY <1>2, ShapeStep, SameRow
  DEF vars, local, IInv, FreshInv, Alone, Fresh, FromTheRow, AtTheRow, InStep,
      DoneIsWalked
<1> QED
  BY <1>1, <1>2

LEMMA IInvAlways ==
  ASSUME Serial, ~StaleReads
  PROVE  Spec => []IInv
<1>1. Init => IInv
  BY Typed
  DEF Init, IInv, ShapeInv, Shaped, TypeOK, FreshInv, Alone, Fresh, FromTheRow,
      AtTheRow, InStep, DoneIsWalked, PC, Op, Absent
<1> QED
  BY <1>1, IInvStep, PTL DEF Spec

-----------------------------------------------------------------------------
\* A step of the specification that changes the row writes it.
LEMMA RowFrame ==
  [Next]_vars => UNCHANGED row \/ \E r \in Runner : Write(r)
  BY DEF Next, vars, Begin, BeginEscalate, Walk, Load, Check, Handler, Crash

\* A write is a step of the abstract row, or changes nothing of it.
LEMMA WriteRefines ==
  ASSUME IInv, NEW r \in Runner, Write(r)
  PROVE  ROW!Next \/ UNCHANGED ROW!vars
<1>1. CASE op[r] = "create"
  BY <1>1, Created DEF Absent, New, ROW!Next, ROW!Create
<1>2. CASE op[r] = "touch"
  BY <1>2, Edited DEF ROW!vars
<1>3. CASE op[r] = "append"
  <2>1. row'.status = row.status /\ row'.done = row.done \cup {step[r]}
        /\ NextUp(step[r]) /\ ROW!Running(step[r])
    BY <1>3, Edited
  <2>2. PICK j \in DOMAIN Steps :
          Steps[j] = step[r] /\ \A k \in 1..(j - 1) : Steps[k] \in row.done
    BY <2>1 DEF NextUp
  <2> QED
    BY <2>1, <2>2 DEF NextUp, ROW!Next, ROW!Extend
<1>4. CASE op[r] \in Status
  <2>1. op[r] # "create"
    BY <1>4 DEF Status, Active
  <2>2. row'.done = row.done /\ CanMove(row.status, row'.status)
    BY <1>4, <2>1, Edited
  <2>3. row'.status = "DONE" => \A j \in DOMAIN Steps : Steps[j] \in row.done
    BY <2>2, WrittenDone DEF StepNames
  <2>4. row'.status = row.status \/ row'.status \in ROW!Targets(row.status)
    BY <2>2, SameTable DEF CanMove
  <2> QED
    BY <2>2, <2>3, <2>4 DEF ROW!Next, ROW!Move, ROW!vars
<1> QED
  BY <1>1, <1>2, <1>3, <1>4, Edited

\* As long as one invocation ends before the next begins and a read sees the
\* last write, the three requests of a write are one step of the row its
\* readers know: its status moves by the table, its completed steps only grow,
\* in the contract's order and under the status of the step.
THEOREM SerialStoreImplementsRow ==
  ASSUME Serial, ~StaleReads
  PROVE  Spec => ImplementsRow
<1>1. Init => ROW!Init
  BY DEF Init, ROW!Init, Absent
<1>2. IInv /\ [Next]_vars => [ROW!Next]_(ROW!vars)
  BY RowFrame, WriteRefines DEF ROW!vars
<1> QED
  BY <1>1, <1>2, IInvAlways, PTL DEF Spec, ImplementsRow, ROW!Spec

\* Under the same assumptions an escalation is only taken up by an invocation
\* that saw it.
THEOREM SerialEscalationHolds ==
  ASSUME Serial, ~StaleReads
  PROVE  Spec => EscalationHolds
<1>1. IInv /\ [Next]_vars => [SeenWrite]_vars
  <2> SUFFICES ASSUME IInv, [Next]_vars PROVE SeenWrite
    OBVIOUS
  <2>1. CASE UNCHANGED row
    BY <2>1 DEF SeenWrite
  <2>2. CASE \E r \in Runner : Write(r)
    <3>1. PICK r \in Runner : Write(r)
      BY <2>2
    <3>2. pc[r] = "write" /\ pc'[r] # "write"
      BY <3>1 DEF Write, Plan, Quit, IInv, ShapeInv, TypeOK
    <3>3. row.status = "ESCALATED" => base[r].status = "ESCALATED"
      BY <3>1, Created, Edited DEF Absent
    <3> QED
      BY <3>2, <3>3 DEF SeenWrite
  <2> QED
    BY <2>1, <2>2, RowFrame
<1> QED
  BY <1>1, IInvAlways, PTL DEF Spec, EscalationHolds

\* And a row that says DONE has every step complete.
THEOREM SerialDoneIsWalked ==
  ASSUME Serial, ~StaleReads
  PROVE  Spec => []DoneIsWalked
<1>1. IInv => DoneIsWalked
  BY DEF IInv
<1> QED
  BY <1>1, IInvAlways, PTL
=============================================================================
