------------------------ MODULE TransformChatProofs ------------------------
(***************************************************************************)
(* What holds of the conversation with AWS Transform for any number of     *)
(* overlapping invocations, callers, questions, plans and answers.         *)
(***************************************************************************)
EXTENDS TransformChat, TLAPS

PCs == Running \cup {"idle"}

\* An invocation's place and locals have their types.
LEMMA IdleTyped == Idle \in Locals
  BY DEF Idle, Locals, Gate, Saying, Signals, Ends, NoGate

LEMMA GotoTyped ==
  ASSUME pc \in [Run -> PCs], NEW r \in Run, NEW p \in PCs, Goto(r, p)
  PROVE  pc' \in [Run -> PCs] /\ pc'[r] = p /\ \A s \in Run \ {r} : pc'[s] = pc[s]
  BY DEF Goto

\* Only the fields named change, and only of one invocation.
LEMMA SpeakTyped ==
  ASSUME my \in [Run -> Locals], pc \in [Run -> PCs], NEW r \in Run,
         NEW w \in Saying, Speak(r, w)
  PROVE  /\ my' \in [Run -> Locals] /\ pc' \in [Run -> PCs] /\ pc'[r] = "send"
         /\ \A s \in Run \ {r} : pc'[s] = pc[s] /\ my'[s] = my[s]
         /\ my'[r] = [my[r] EXCEPT !.say = w, !.heard = NoGate]
<1>1. [my[r] EXCEPT !.say = w, !.heard = NoGate] \in Locals
  <2>1. my[r] \in Locals
    OBVIOUS
  <2> QED
    BY <2>1 DEF Locals
<1> QED
  BY <1>1 DEF Speak, Goto, PCs, Running

LEMMA LeaveTyped ==
  ASSUME my \in [Run -> Locals], pc \in [Run -> PCs], NEW r \in Run,
         NEW g \in Signals, NEW m \in BOOLEAN, Leave(r, g, m)
  PROVE  /\ my' \in [Run -> Locals] /\ pc' \in [Run -> PCs] /\ pc'[r] = "return"
         /\ \A s \in Run \ {r} : pc'[s] = pc[s] /\ my'[s] = my[s]
         /\ my'[r] = [Idle EXCEPT !.saw = my[r].saw, !.end = Ends(g, m)]
<1>1. [Idle EXCEPT !.saw = my[r].saw, !.end = Ends(g, m)] \in Locals
  BY IdleTyped DEF Locals, Ends
<1> QED
  BY <1>1 DEF Leave, Goto, PCs, Running

\* The tasks of the queue.
LEMMA CloseTyped ==
  ASSUME tasks \in Seq(Task), NEW i \in DOMAIN tasks
  PROVE  /\ [tasks EXCEPT ![i].open = FALSE] \in Seq(Task)
         /\ DOMAIN [tasks EXCEPT ![i].open = FALSE] = DOMAIN tasks
<1>1. [tasks[i] EXCEPT !.open = FALSE] \in Task
  <2>1. tasks[i] \in Task
    OBVIOUS
  <2> QED
    BY <2>1 DEF Task
<1> QED
  BY <1>1

LEMMA CloseAllTyped ==
  ASSUME tasks \in Seq(Task)
  PROVE  /\ [i \in DOMAIN tasks |-> [tasks[i] EXCEPT !.open = FALSE]] \in Seq(Task)
         /\ DOMAIN [i \in DOMAIN tasks |-> [tasks[i] EXCEPT !.open = FALSE]] = DOMAIN tasks
<1>1. ASSUME NEW i \in DOMAIN tasks PROVE [tasks[i] EXCEPT !.open = FALSE] \in Task
  <2>1. tasks[i] \in Task
    OBVIOUS
  <2> QED
    BY <2>1 DEF Task
<1>2. DOMAIN tasks = 1..Len(tasks) /\ Len(tasks) \in Nat
  OBVIOUS
<1> QED
  BY <1>1, <1>2

-----------------------------------------------------------------------------
\* A step of invocation r keeps the others where they are, and leaves r with
\* locals of the right type, a question of the log and a task of the table.
OwnStep(r) ==
  /\ my' \in [Run -> Locals] /\ pc' \in [Run -> PCs]
  /\ \A s \in Run \ {r} : pc'[s] = pc[s] /\ my'[s] = my[s]
  /\ pc'[r] \in {"choose", "count", "mark", "fix"} => my'[r].heard \in Gates
  /\ pc'[r] = "resolve" => my'[r].task \in DOMAIN tasks'

\* It moves on ...
LEMMA MoveOwn ==
  ASSUME TypeOK, NEW r \in Run, NEW p \in PCs, Move(r, p),
         p \notin {"resolve", "choose", "count", "mark"},
         p = "fix" => pc[r] = "mark"
  PROVE  OwnStep(r)
  BY GotoTyped DEF TypeOK, Move, OwnStep, PCs

\* ... speaks ...
LEMMA SpeakOwn ==
  ASSUME TypeOK, NEW r \in Run, NEW w \in Saying, Speak(r, w)
  PROVE  OwnStep(r)
  BY SpeakTyped DEF TypeOK, OwnStep, PCs

\* ... leaves ...
LEMMA LeaveOwn ==
  ASSUME TypeOK, NEW r \in Run, NEW g \in Signals, NEW m \in BOOLEAN, Leave(r, g, m)
  PROVE  OwnStep(r)
<1>1. my \in [Run -> Locals] /\ pc \in [Run -> PCs]
  BY DEF TypeOK, PCs
<1>2. my' \in [Run -> Locals] /\ pc' \in [Run -> PCs]
  BY <1>1, LeaveTyped, Zenon
<1>3. \A s \in Run \ {r} : pc'[s] = pc[s] /\ my'[s] = my[s]
  BY <1>1 DEF Leave, Goto
<1>4. pc'[r] = "return"
  BY <1>1, LeaveTyped, Zenon
<1> QED
  BY <1>2, <1>3, <1>4 DEF OwnStep

\* ... or sets some of its locals.
LEMMA SetOwn ==
  ASSUME TypeOK, NEW r \in Run, NEW p \in PCs, Goto(r, p),
         my' = [my EXCEPT ![r] = my'[r]], my'[r] \in Locals,
         p \in {"choose", "count", "mark", "fix"} => my'[r].heard \in Gates,
         p = "resolve" => my'[r].task \in DOMAIN tasks'
  PROVE  OwnStep(r)
<1>1. my \in [Run -> Locals] /\ pc \in [Run -> PCs]
  BY DEF TypeOK, PCs
<1>2. pc' \in [Run -> PCs] /\ pc'[r] = p /\ \A s \in Run \ {r} : pc'[s] = pc[s]
  BY <1>1, GotoTyped
<1>3. my' \in [Run -> Locals] /\ \A s \in Run \ {r} : my'[s] = my[s]
  BY <1>1
<1> QED
  BY <1>2, <1>3 DEF OwnStep

\* A return or a hand-over leaves.
LEMMA ReturnOwn ==
  ASSUME TypeOK, NEW r \in Run, HandOver(r) \/ \E g \in Signals : Return(r, g)
  PROVE  OwnStep(r)
<1>1. my[r].marked \in BOOLEAN
  BY DEF TypeOK, Locals
<1> QED
  BY <1>1, LeaveOwn DEF HandOver, Return, Signals

\* Before the turns.
LEMMA LookOwn ==
  ASSUME TypeOK, NEW r \in Run, Look(r) \/ Act(r) \/ Health(r) \/ Leaves(r)
  PROVE  OwnStep(r)
<1> USE DEF PCs, Running
<1>1. CASE Look(r)
  <2>1. my' = [my EXCEPT ![r] = my'[r]] /\ my'[r] = [my[r] EXCEPT !.saw = job]
    BY <1>1 DEF Look, TypeOK
  <2>2. my[r] \in Locals /\ job \in JobStates \cup {"missing", "executing"}
    BY DEF TypeOK
  <2>3. my'[r] \in Locals
    BY <2>1, <2>2 DEF Locals
  <2> QED
    BY <1>1, <2>1, <2>3, SetOwn DEF Look
<1>2. CASE Act(r)
  BY <1>2, ReturnOwn, MoveOwn DEF Act, Signals
<1>3. CASE Health(r)
  BY <1>3, ReturnOwn, MoveOwn DEF Health
<1>4. CASE Leaves(r)
  <2>1. my' = [my EXCEPT ![r] = my'[r]] /\ my'[r] = Idle
    BY <1>4 DEF Leaves, TypeOK
  <2> QED
    BY <1>4, <2>1, IdleTyped, SetOwn DEF Leaves
<1> QED
  BY <1>1, <1>2, <1>3, <1>4

\* A question that is asked is a task of the table.
LEMMA AskedOwn ==
  ASSUME TypeOK, NEW r \in Run, NEW i \in Nat, Asked(r, i), i \in DOMAIN tasks'
  PROVE  OwnStep(r)
<1>1. my' = [my EXCEPT ![r] = my'[r]] /\ my'[r] = [my[r] EXCEPT !.task = i]
  BY DEF Asked, TypeOK
<1>2. my[r] \in Locals
  BY DEF TypeOK
<1>3. my'[r] \in Locals /\ my'[r].task = i
  BY <1>1, <1>2 DEF Locals
<1>4. \E p \in {"resolve", "withhold"} : Goto(r, p)
  BY DEF Asked
<1> QED
  BY <1>1, <1>3, <1>4, SetOwn DEF PCs, Running

\* The plan against the contract.
LEMMA JudgeOwn ==
  ASSUME TypeOK, NEW r \in Run,
         Judge(r) \/ Latest(r) \/ Submit(r) \/ Put(r) \/ Withhold(r) \/ Resolve(r)
  PROVE  OwnStep(r)
<1> USE DEF PCs, Running
<1>t. tasks \in Seq(Task) /\ my[r] \in Locals
  BY DEF TypeOK, QueueTyped
<1>1. CASE Judge(r)
  <2>3. CASE Speak(r, "open")
    BY <2>3, SpeakOwn DEF Saying
  <2>4. CASE Goto(r, "latest") /\ my' = [my EXCEPT ![r].over = TRUE]
    <3>1. /\ my' = [my EXCEPT ![r] = my'[r]]
          /\ my'[r] = [my[r] EXCEPT !.over = TRUE]
      BY <2>4 DEF TypeOK
    <3>2. my'[r] \in Locals
      BY <1>t, <3>1 DEF Locals
    <3> QED
      BY <2>4, <3>1, <3>2, SetOwn
  <2>5. CASE /\ Goto(r, "send")
             /\ my' = [my EXCEPT ![r].goal = "resize", ![r].say = "resize"]
    <3>1. /\ my' = [my EXCEPT ![r] = my'[r]]
          /\ my'[r] = [my[r] EXCEPT !.goal = "resize", !.say = "resize"]
      BY <2>5 DEF TypeOK
    <3>2. my'[r] \in Locals
      BY <1>t, <3>1 DEF Locals, Saying
    <3> QED
      BY <2>5, <3>1, <3>2, SetOwn
  <2>6. CASE Move(r, "submit")
    BY <2>6, MoveOwn
  <2> QED
    BY <1>1, <2>3, <2>4, <2>5, <2>6 DEF Judge
<1>2. CASE Latest(r)
  <2>1. CASE tasks = <<>>
    BY <1>2, <2>1, MoveOwn DEF Latest
  <2>2. CASE tasks # <<>>
    <3>1. Len(tasks) \in Nat /\ Len(tasks) \in DOMAIN tasks
      BY <1>t, <2>2
    <3> QED
      BY <1>2, <2>2, <3>1, AskedOwn DEF Latest, queue
  <2> QED
    BY <2>1, <2>2
<1>3. CASE Submit(r)
  <2>1. \A i \in DOMAIN tasks : i \in Nat
    BY <1>t
  <2> QED
    BY <1>3, <2>1, MoveOwn, AskedOwn DEF Submit, queue
<1>4. CASE Put(r)
  <2>1. Len(tasks) + 1 \in Nat /\ Len(tasks) + 1 \in DOMAIN tasks'
    BY <1>t, <1>4 DEF Put, PutTask
  <2> QED
    BY <1>4, <2>1, AskedOwn DEF Put
<1>5. CASE Withhold(r)
  BY <1>5, ReturnOwn DEF Withhold
<1>6. CASE Resolve(r)
  BY <1>6, SpeakOwn DEF Resolve, Saying
<1> QED
  BY <1>1, <1>2, <1>3, <1>4, <1>5, <1>6

\* The turns.
LEMMA TurnOwn ==
  ASSUME TypeOK, NEW r \in Run,
         \/ Send(r) \/ Hear(r) \/ HearResize(r) \/ Clear(r) \/ Choose(r)
         \/ Count(r) \/ Mark(r) \/ Fix(r)
  PROVE  OwnStep(r)
<1> USE DEF PCs, Running
<1>t. /\ my[r] \in Locals /\ asking \in Gates \cup {NoGate}
      /\ pc[r] \in {"choose", "count", "mark", "fix"} => my[r].heard \in Gates
  BY DEF TypeOK
<1>1. CASE Send(r)
  <2>1. CASE Goto(r, "reply") /\ my' = [my EXCEPT ![r].turn = @ + 1]
    <3>1. /\ my' = [my EXCEPT ![r] = my'[r]]
          /\ my'[r] = [my[r] EXCEPT !.turn = my[r].turn + 1]
      BY <2>1 DEF TypeOK
    <3>2. my'[r] \in Locals
      BY <1>t, <3>1 DEF Locals
    <3> QED
      BY <2>1, <3>1, <3>2, SetOwn
  <2> QED
    BY <1>1, <2>1, ReturnOwn DEF Send, Signals
<1>2. CASE Hear(r)
  <2>1. CASE my' = [my EXCEPT ![r].heard = asking] /\ Hear(r)
    <3>1. /\ my' = [my EXCEPT ![r] = my'[r]]
          /\ my'[r] = [my[r] EXCEPT !.heard = asking]
      BY <2>1 DEF TypeOK
    <3>2. my'[r] \in Locals /\ my'[r].heard = asking
      BY <1>t, <3>1 DEF Locals
    <3> QED
      BY <1>t, <2>1, <3>1, <3>2, SetOwn, ReturnOwn DEF Hear, Signals
  <2> QED
    BY <1>2, <2>1, ReturnOwn DEF Hear, Signals
<1>3. CASE HearResize(r)
  BY <1>3, SpeakOwn, ReturnOwn DEF HearResize, Signals, Saying, Label
<1>4. CASE Clear(r)
  <2>2. my[r].heard \in Gates \cup {NoGate}
    BY <1>t DEF Locals
  <2>3. CASE Speak(r, "resume")
    BY <2>3, SpeakOwn DEF Saying
  <2>4. CASE /\ my[r].heard # NoGate
             /\ Goto(r, "choose") /\ my' = [my EXCEPT ![r].marked = TRUE]
    <3>1. /\ my' = [my EXCEPT ![r] = my'[r]]
          /\ my'[r] = [my[r] EXCEPT !.marked = TRUE]
      BY <2>4 DEF TypeOK
    <3>2. my'[r] \in Locals /\ my'[r].heard = my[r].heard
      BY <1>t, <3>1 DEF Locals
    <3> QED
      BY <2>2, <2>4, <3>1, <3>2, SetOwn
  <2>5. CASE Leave(r, "WAIT", TRUE) \/ HandOver(r)
    BY <2>5, LeaveOwn, ReturnOwn DEF Signals
  <2> QED
    BY <1>4, <2>3, <2>4, <2>5 DEF Clear
<1>5. CASE Choose(r)
  <2>2. Picks(my[r].heard) \subseteq Label
    BY <1>5, <1>t, ChatConstants DEF Choose, Picks, IsGate
  <2>3. CASE HandOver(r)
    BY <2>3, ReturnOwn
  <2>4. ASSUME NEW o \in Label,
               Goto(r, "count") /\ my' = [my EXCEPT ![r].say = o]
        PROVE  OwnStep(r)
    <3>1. /\ my' = [my EXCEPT ![r] = my'[r]]
          /\ my'[r] = [my[r] EXCEPT !.say = o]
      BY <2>4 DEF TypeOK
    <3>2. my'[r] \in Locals /\ my'[r].heard = my[r].heard
      BY <1>t, <3>1 DEF Locals, Saying
    <3> QED
      BY <1>5, <1>t, <2>4, <3>1, <3>2, SetOwn DEF Choose
  <2>5. ASSUME NEW o \in Label, Goto(r, "send"),
               my' = [my EXCEPT ![r].say = o, ![r].heard = NoGate,
                               ![r].picked = @ \cup {o}]
        PROVE  OwnStep(r)
    <3>1. /\ my' = [my EXCEPT ![r] = my'[r]]
          /\ my'[r] = [my[r] EXCEPT !.say = o, !.heard = NoGate,
                                   !.picked = my[r].picked \cup {o}]
      BY <2>5 DEF TypeOK
    <3>2. my[r].picked \cup {o} \subseteq Label /\ o \in Saying
      BY <1>t DEF Locals, Saying
    <3>3. my'[r] \in Locals
      BY <1>t, <3>1, <3>2 DEF Locals
    <3> QED
      BY <2>5, <3>1, <3>3, SetOwn
  <2> QED
    BY <1>5, <2>2, <2>3, <2>4, <2>5 DEF Choose
<1>6. CASE Count(r)
  <2>1. my[r].heard.asks \in Question
    BY <1>6, <1>t DEF Count, Question
  <2>2. stalls[my[r].heard.asks] + 1 \in Nat
    BY <2>1 DEF TypeOK
  <2>3. /\ my' = [my EXCEPT ![r] = my'[r]]
        /\ my'[r] = [my[r] EXCEPT !.rounds = stalls[my[r].heard.asks] + 1]
    BY <1>6 DEF Count, TypeOK
  <2>4. my'[r] \in Locals /\ my'[r].heard = my[r].heard
    BY <1>t, <2>2, <2>3 DEF Locals
  <2> QED
    BY <1>6, <1>t, <2>3, <2>4, SetOwn DEF Count
<1>7. CASE Mark(r)
  BY <1>7, MoveOwn, ReturnOwn DEF Mark, Signals
<1>8. CASE Fix(r)
  BY <1>8, ReturnOwn DEF Fix, Signals
<1> QED
  BY <1>1, <1>2, <1>3, <1>4, <1>5, <1>6, <1>7, <1>8

\* Invocations begin and die.
LEMMA EdgeOwn ==
  ASSUME TypeOK, NEW r \in Run, Crash(r) \/ \E who \in Callers : Begin(r, who)
  PROVE  OwnStep(r)
<1> USE DEF PCs, Running
<1>1. CASE Crash(r)
  <2>1. my' = [my EXCEPT ![r] = my'[r]] /\ my'[r] = Idle
    BY <1>1 DEF Crash, TypeOK
  <2> QED
    BY <1>1, <2>1, IdleTyped, SetOwn DEF Crash
<1>2. ASSUME NEW who \in Callers, Begin(r, who) PROVE OwnStep(r)
  <2>1. plan \in Denial \cup {"fits"}
    BY DEF TypeOK
  <2>2. PICK g \in SUBSET Gate :
          my' = [my EXCEPT ![r] = [Idle EXCEPT !.grants = g,
                                     !.sees = IF who = "agent" THEN "fits" ELSE plan]]
    BY <1>2 DEF Begin
  <2>3. /\ my' = [my EXCEPT ![r] = my'[r]]
        /\ my'[r] = [Idle EXCEPT !.grants = g,
                                !.sees = IF who = "agent" THEN "fits" ELSE plan]
    BY <2>2 DEF TypeOK
  <2>4. my'[r] \in Locals
    BY <2>1, <2>3, IdleTyped DEF Locals
  <2> QED
    BY <1>2, <2>3, <2>4, SetOwn DEF Begin
<1> QED
  BY <1>1, <1>2

LEMMA Own ==
  ASSUME TypeOK, NEW r \in Run,
         RunStep(r) \/ Crash(r) \/ \E who \in Callers : Begin(r, who)
  PROVE  OwnStep(r)
  BY LookOwn, JudgeOwn, TurnOwn, EdgeOwn DEF RunStep

-----------------------------------------------------------------------------
\* What does not belong to an invocation keeps its type.
WorldTyped ==
  /\ row \in {"REPLICATING", "ESCALATED"}
  /\ stalls \in [Question -> Nat]
  /\ initialized \in BOOLEAN /\ resized \subseteq Nat /\ unresized \subseteq Nat
  /\ asking \in Gates \cup {NoGate} /\ prose \in BOOLEAN /\ processing \in BOOLEAN
  /\ job \in JobStates \cup {"executing"} /\ critical \in BOOLEAN
  /\ plan \in Denial \cup {"fits"}
  /\ installed \in BOOLEAN /\ server \in {"fine", "strained", "sized"}
  /\ crashes \in Nat

LEMMA WorldStep ==
  ASSUME TypeOK, Next
  PROVE  WorldTyped'
<1> USE DEF WorldTyped, ledger, thread, estate
<1>t. WorldTyped
  BY DEF TypeOK
<1>1. ASSUME NEW r \in Run,
             \/ Look(r) \/ Leaves(r) \/ Judge(r) \/ Latest(r) \/ Submit(r)
             \/ Put(r) \/ Resolve(r) \/ Count(r) \/ Crash(r)
      PROVE  WorldTyped'
  BY <1>t, <1>1 DEF Look, Leaves, Judge, Latest, Submit, Put, Resolve, Count, Crash
<1>2. ASSUME NEW r \in Run,
             \/ Withhold(r) \/ Send(r) \/ Hear(r) \/ HearResize(r) \/ Choose(r)
             \/ Clear(r)
      PROVE  WorldTyped'
  <2>1. CASE Withhold(r) \/ Choose(r)
    BY <1>t, <2>1 DEF Withhold, Choose, HandOver
  <2>2. CASE Send(r) \/ Hear(r) \/ HearResize(r)
    BY <1>t, <2>2 DEF Send, Hear, HearResize, Return
  <2>3. CASE Clear(r)
    BY <1>t, <2>3 DEF Clear, HandOver
  <2> QED
    BY <1>2, <2>1, <2>2, <2>3
<1>3. ASSUME NEW r \in Run, Act(r) \/ Health(r) PROVE WorldTyped'
  BY <1>t, <1>3 DEF Act, Health, HandOver, Return, Resize
<1>4. ASSUME NEW r \in Run, Mark(r) PROVE WorldTyped'
  <2>1. my[r].heard.asks \in Question
    BY <1>4 DEF TypeOK, Mark, Question
  <2>2. stalls' \in [Question -> Nat]
    BY <1>t, <1>4, <2>1 DEF Mark
  <2> QED
    BY <1>t, <1>4, <2>2 DEF Mark, Return
<1>5. ASSUME NEW r \in Run, Fix(r) PROVE WorldTyped'
  <2>1. my[r].rounds \in Nat
    BY DEF TypeOK, Locals
  <2>2. /\ resized' \subseteq Nat /\ unresized' \subseteq Nat
        /\ row' \in {"REPLICATING", "ESCALATED"} /\ initialized' = initialized
        /\ server' \in {"fine", "strained", "sized"}
    BY <1>t, <1>5, <2>1 DEF Fix, Resize, Return, HandOver
  <2> QED
    BY <1>t, <1>5, <2>2 DEF Fix
<1>6. ASSUME NEW r \in Run, NEW who \in Callers, Begin(r, who) PROVE WorldTyped'
  BY <1>t, <1>6 DEF Begin
<1>7. CASE Around
  <2>1. CASE AgentAnswers \/ PersonReplies
    BY <1>t, <2>1 DEF AgentAnswers, PersonReplies
  <2>3. CASE JobReplies
    <3>1. ("blocker" \in Moves) \in BOOLEAN
      OBVIOUS
    <3>2. prose' \in BOOLEAN
      BY <2>3, <3>1, Zenon DEF JobReplies
    <3> QED
      BY <1>t, <2>3, <3>2 DEF JobReplies
  <2>2. CASE JobMoves \/ Replan \/ Install \/ Strain
    BY <1>t, <2>2 DEF JobMoves, Replan, Install, Strain
  <2> QED
    BY <1>7, <2>1, <2>2, <2>3 DEF Around
<1> QED
  BY <1>1, <1>2, <1>3, <1>4, <1>5, <1>6, <1>7 DEF Next, RunStep

LEMMA AroundKeeps == ASSUME Around PROVE UNCHANGED <<pc, my>>
  BY DEF Around, JobReplies, AgentAnswers, PersonReplies, JobMoves, Replan,
         Install, Strain

-----------------------------------------------------------------------------
\* What an invocation knows: that the plan was denied, where a question is put
\* to a person; that there is a live job, past the look at it; and that the
\* end it is about to report is one the wave has for that job.
Knows(r) ==
  /\ pc[r] \in {"latest", "submit", "put"} => my[r].sees \in Denial
  /\ pc[r] \in {"look", "act"} => ~my[r].marked
  /\ pc[r] \notin {"idle", "look", "act", "return"} =>
       my[r].saw \notin {"missing", "completed"}
  /\ pc[r] = "return" => my[r].end \in DriveEnds(my[r].saw)

\* The ends of a live job.
LiveEnds ==
  {Ends("WAIT", FALSE), Handover, Ends("ESCALATE", FALSE), Ends("WAIT", TRUE)}

LEMMA LiveJob ==
  ASSUME NEW j, j \notin {"missing", "completed"}
  PROVE  DriveEnds(j) = LiveEnds
  BY DEF DriveEnds, LiveEnds

\* Wherever there is a live job, waiting, giving up and handing over are ends.
LEMMA LeaveKnows ==
  ASSUME TypeOK, NEW r \in Run, NEW g \in Signals, NEW m \in BOOLEAN,
         Leave(r, g, m), Ends(g, m) \in DriveEnds(my[r].saw)
  PROVE  Knows(r)'
<1>1. my \in [Run -> Locals] /\ pc \in [Run -> PCs]
  BY DEF TypeOK, PCs
<1>2. pc'[r] = "return" /\ my'[r].saw = my[r].saw /\ my'[r].end = Ends(g, m)
  BY <1>1, IdleTyped DEF Leave, Goto, Locals
<1> QED
  BY <1>2 DEF Knows

LEMMA LiveKnows ==
  ASSUME TypeOK, NEW r \in Run, my[r].saw \notin {"missing", "completed"},
         \/ HandOver(r) \/ Return(r, "WAIT") \/ Return(r, "ESCALATE")
         \/ Leave(r, "WAIT", TRUE)
  PROVE  Knows(r)'
<1>1. my[r].marked \in BOOLEAN
  BY DEF TypeOK, Locals
<1>2. \A m \in BOOLEAN : /\ Ends("WAIT", m) \in DriveEnds(my[r].saw)
                         /\ Ends("ESCALATE", m) \in DriveEnds(my[r].saw)
  BY LiveJob DEF LiveEnds, Handover
<1> QED
  BY <1>1, <1>2, LeaveKnows DEF HandOver, Return, Signals

LEMMA KnowsOwn ==
  ASSUME TypeOK, NEW r \in Run, Knows(r),
         RunStep(r) \/ Crash(r) \/ \E who \in Callers : Begin(r, who)
  PROVE  Knows(r)'
<1>t. my \in [Run -> Locals] /\ pc \in [Run -> PCs]
  BY DEF TypeOK, PCs
<1>l. /\ my[r].marked \in BOOLEAN /\ my[r].sees \in Denial \cup {"fits"}
      /\ pc[r] \notin {"idle", "look", "act", "return"} =>
           my[r].saw \notin {"missing", "completed"}
  BY <1>t DEF Locals, Knows
<1> USE DEF Goto, Locals, PCs, Running
<1>1. CASE Look(r)
  BY <1>1, <1>t DEF Look, Knows
<1>2. CASE Act(r)
  <2>1. ~my[r].marked /\ pc[r] = "act"
    BY <1>2 DEF Act, Knows
  <2>2. CASE my[r].saw = "missing" /\ Return(r, "ESCALATE")
    BY <2>1, <2>2, <1>l, LeaveKnows DEF Return, DriveEnds, Signals
  <2>3. CASE HandOver(r) /\ my[r].saw # "missing"
    BY <2>3, LeaveKnows DEF HandOver, DriveEnds, Signals, Handover
  <2>4. CASE my[r].saw \in {"stopped", "awaiting"} /\ Return(r, "WAIT")
    BY <2>4, LiveKnows
  <2>5. CASE my[r].saw \in {"executing", "awaiting"} /\ Move(r, "health")
    BY <2>5, <1>t DEF Knows, Move
  <2>6. CASE my[r].saw = "completed" /\ Return(r, "CONTINUE")
    BY <2>1, <2>6, <1>l, LeaveKnows DEF Return, DriveEnds, Signals
  <2> QED
    BY <1>2, <2>2, <2>3, <2>4, <2>5, <2>6 DEF Act
<1>3. CASE Health(r)
  BY <1>3, <1>t, <1>l, LiveKnows DEF Health, Knows, Move
<1>4. CASE Judge(r)
  BY <1>4, <1>t, <1>l DEF Judge, Knows, Move, Speak
<1>5. CASE Latest(r) \/ Submit(r) \/ Put(r)
  BY <1>5, <1>t, <1>l DEF Latest, Submit, Put, Knows, Move, Asked
<1>6. CASE Withhold(r)
  BY <1>6, <1>l, LiveKnows DEF Withhold
<1>7. CASE Resolve(r)
  BY <1>7, <1>t, <1>l DEF Resolve, Knows, Speak
<1>s. ASSUME pc'[r] \in {"send", "reply", "clear", "choose", "count", "mark", "fix"},
             my'[r].saw = my[r].saw, pc[r] \notin {"idle", "look", "act", "return"}
      PROVE  Knows(r)'
  BY <1>s, <1>l DEF Knows
<1>8. CASE Send(r)
  <2>1. CASE Return(r, "WAIT")
    BY <1>8, <1>l, <2>1, LiveKnows DEF Send
  <2>2. CASE Goto(r, "reply") /\ my' = [my EXCEPT ![r].turn = @ + 1]
    <3>1. pc'[r] = "reply" /\ my'[r].saw = my[r].saw
      BY <1>t, <2>2
    <3> QED
      BY <1>8, <3>1, <1>s DEF Send
  <2> QED
    BY <1>8, <2>1, <2>2 DEF Send
<1>9. CASE Hear(r) \/ HearResize(r)
  <2>1. CASE Return(r, "WAIT") \/ Return(r, "ESCALATE")
    BY <1>9, <1>l, <2>1, LiveKnows DEF Hear, HearResize
  <2>2. CASE \E p \in {"clear", "choose"} :
               Goto(r, p) /\ my' = [my EXCEPT ![r].heard = asking]
    <3>1. pc'[r] \in {"clear", "choose"} /\ my'[r].saw = my[r].saw
      BY <1>t, <2>2
    <3> QED
      BY <1>9, <3>1, <1>s DEF Hear, HearResize
  <2>3. CASE Speak(r, "recommend")
    <3>1. pc'[r] = "send" /\ my'[r].saw = my[r].saw
      BY <1>t, <2>3 DEF Speak
    <3> QED
      BY <1>9, <3>1, <1>s DEF Hear, HearResize
  <2> QED
    BY <1>9, <2>1, <2>2, <2>3 DEF Hear, HearResize
<1>10. CASE Clear(r)
  <2>1. CASE Leave(r, "WAIT", TRUE) \/ HandOver(r)
    BY <1>10, <1>l, <2>1, LiveKnows DEF Clear
  <2>2. CASE Speak(r, "resume")
    <3>1. pc'[r] = "send" /\ my'[r].saw = my[r].saw
      BY <1>t, <2>2 DEF Speak
    <3> QED
      BY <1>10, <3>1, <1>s DEF Clear
  <2>3. CASE Goto(r, "choose") /\ my' = [my EXCEPT ![r].marked = TRUE]
    <3>1. pc'[r] = "choose" /\ my'[r].saw = my[r].saw
      BY <1>t, <2>3
    <3> QED
      BY <1>10, <3>1, <1>s DEF Clear
  <2> QED
    BY <1>10, <2>1, <2>2, <2>3 DEF Clear
<1>11. CASE Choose(r)
  <2>1. CASE HandOver(r)
    BY <1>11, <1>l, <2>1, LiveKnows DEF Choose
  <2>2. ASSUME NEW o, Goto(r, "count"), my' = [my EXCEPT ![r].say = o]
        PROVE  Knows(r)'
    <3>1. pc'[r] = "count" /\ my'[r].saw = my[r].saw
      BY <1>t, <2>2
    <3> QED
      BY <1>11, <3>1, <1>s DEF Choose
  <2>3. ASSUME NEW o, Goto(r, "send"),
               my' = [my EXCEPT ![r].say = o, ![r].heard = NoGate,
                               ![r].picked = @ \cup {o}]
        PROVE  Knows(r)'
    <3>1. pc'[r] = "send" /\ my'[r].saw = my[r].saw
      BY <1>t, <2>3
    <3> QED
      BY <1>11, <3>1, <1>s DEF Choose
  <2> QED
    BY <1>11, <2>1, <2>2, <2>3 DEF Choose
<1>14. CASE Count(r)
  <2>1. pc'[r] = "mark" /\ my'[r].saw = my[r].saw
    BY <1>14, <1>t DEF Count
  <2> QED
    BY <1>14, <2>1, <1>s DEF Count
<1>15. CASE Mark(r)
  <2>1. CASE Move(r, "fix")
    BY <1>15, <1>s, <1>t, <2>1 DEF Mark, Move
  <2>2. CASE Return(r, "WAIT")
    BY <1>15, <1>l, <2>2, LiveKnows DEF Mark
  <2> QED
    BY <1>15, <2>1, <2>2 DEF Mark
<1>16. CASE Fix(r)
  <2>1. HandOver(r) \/ Return(r, "WAIT")
    BY <1>16 DEF Fix
  <2> QED
    BY <1>16, <1>l, <2>1, LiveKnows DEF Fix
<1>12. CASE Leaves(r) \/ Crash(r)
  BY <1>12, <1>t DEF Leaves, Crash, Knows
<1>13. ASSUME NEW who \in Callers, Begin(r, who) PROVE Knows(r)'
  <2>1. PICK g \in SUBSET Gate :
          my' = [my EXCEPT ![r] = [Idle EXCEPT !.grants = g,
                                     !.sees = IF who = "agent" THEN "fits" ELSE plan]]
    BY <1>13 DEF Begin
  <2>2. pc'[r] = "look" /\ my'[r].marked = FALSE
    BY <1>13, <1>t, <2>1, IdleTyped DEF Begin, Idle
  <2> QED
    BY <2>2 DEF Knows
<1> QED
  BY <1>1, <1>2, <1>3, <1>4, <1>5, <1>6, <1>7, <1>8, <1>9, <1>10, <1>11, <1>12,
     <1>13, <1>14, <1>15, <1>16 DEF RunStep

\* The table: tasks are only added, and only closed.
LEMMA QueueStep ==
  ASSUME TypeOK, \A r \in Run : Knows(r), Next
  PROVE  QueueTyped' /\ DOMAIN tasks \subseteq DOMAIN tasks'
<1>t. tasks \in Seq(Task) /\ approved \in BOOLEAN /\ consented \in BOOLEAN
  BY DEF TypeOK, QueueTyped
<1>1. CASE UNCHANGED queue
  BY <1>t, <1>1 DEF QueueTyped, queue
<1>2. ASSUME NEW r \in Run, Put(r) PROVE QueueTyped' /\ DOMAIN tasks \subseteq DOMAIN tasks'
  <2>1. [asks |-> my[r].sees, by |-> r, open |-> TRUE] \in Task
    BY <1>2 DEF Put, Knows, Task
  <2>2. tasks' \in Seq(Task) /\ DOMAIN tasks \subseteq DOMAIN tasks'
    BY <1>t, <1>2, <2>1 DEF Put, PutTask
  <2> QED
    BY <1>t, <1>2, <2>2 DEF Put, QueueTyped
<1>3. ASSUME NEW r \in Run, Resolve(r)
      PROVE  QueueTyped' /\ DOMAIN tasks \subseteq DOMAIN tasks'
  <2>1. my[r].task \in DOMAIN tasks
    BY <1>3 DEF Resolve, TypeOK
  <2> QED
    BY <1>t, <1>3, <2>1, CloseTyped DEF Resolve, QueueTyped
<1>4. CASE Reply
  <2>1. tasks' \in Seq(Task) /\ DOMAIN tasks \subseteq DOMAIN tasks'
    BY <1>t, <1>4, CloseAllTyped DEF Reply
  <2>2. PICK a \in Answers : /\ approved' = (approved \/ a.word)
                             /\ consented' = (consented \/ a.consents)
    BY <1>4 DEF Reply
  <2>3. approved' \in BOOLEAN /\ consented' \in BOOLEAN
    BY <2>2, Zenon
  <2> QED
    BY <2>1, <2>3 DEF QueueTyped
<1>5. ASSUME NEW r \in Run, NEW who \in Callers, Begin(r, who)
      PROVE  QueueTyped' /\ DOMAIN tasks \subseteq DOMAIN tasks'
  <2>1. consented' \in BOOLEAN
    BY <1>5, Zenon DEF Begin
  <2> QED
    BY <1>t, <1>5, <2>1 DEF Begin, QueueTyped
<1>6. ASSUME NEW r \in Run, RunStep(r) \/ Crash(r), ~Put(r), ~Resolve(r)
      PROVE  UNCHANGED queue
  BY <1>6 DEF RunStep, Look, Act, Health, Judge, Latest, Submit, Withhold, Send,
       Hear, HearResize, Clear, Choose, Count, Mark, Fix, Leaves, Crash
<1>7. CASE Around
  BY <1>7, <1>1, <1>4 DEF Around, JobReplies, AgentAnswers, PersonReplies, JobMoves,
       Replan, Install, Strain
<1> QED
  BY <1>1, <1>2, <1>3, <1>5, <1>6, <1>7 DEF Next

-----------------------------------------------------------------------------
\* The whole: types, and what every invocation knows.
Base == TypeOK /\ \A r \in Run : Knows(r)

LEMMA BaseInit == Init => Base
<1> SUFFICES ASSUME Init PROVE Base
  OBVIOUS
<1>1. pc = [r \in Run |-> "idle"] /\ my = [r \in Run |-> Idle]
  BY DEF Init
<1>2. WorldTyped
  BY DEF Init, WorldTyped
<1>4. QueueTyped
  <2>1. tasks = <<>> /\ approved = FALSE /\ consented = FALSE
    BY DEF Init, QueueInit
  <2>2. <<>> \in Seq(Task)
    OBVIOUS
  <2> QED
    BY <2>1, <2>2 DEF QueueTyped
<1>3. TypeOK
  BY <1>1, <1>2, <1>4, IdleTyped DEF TypeOK, WorldTyped, Running
<1> QED
  BY <1>1, <1>3 DEF Base, Knows

LEMMA BaseStep == Base /\ [Next]_vars => Base'
<1> SUFFICES ASSUME Base, [Next]_vars PROVE Base'
  OBVIOUS
<1>t. TypeOK /\ \A r \in Run : Knows(r)
  BY DEF Base
<1>1. CASE UNCHANGED vars
  BY <1>t, <1>1 DEF Base, TypeOK, QueueTyped, Knows, vars, queue, ledger, thread, estate
<1>2. CASE Next
  <2>1. WorldTyped' /\ QueueTyped' /\ DOMAIN tasks \subseteq DOMAIN tasks'
    BY <1>t, <1>2, WorldStep, QueueStep
  <2>2. ASSUME NEW r \in Run,
               RunStep(r) \/ Crash(r) \/ \E who \in Callers : Begin(r, who)
        PROVE  Base'
    <3>1. OwnStep(r) /\ Knows(r)'
      BY <1>t, <2>2, Own, KnowsOwn
    <3>2. ASSUME NEW s \in Run
          PROVE  /\ pc'[s] \in {"choose", "count", "mark", "fix"} => my'[s].heard \in Gates
                 /\ pc'[s] = "resolve" => my'[s].task \in DOMAIN tasks'
      BY <1>t, <2>1, <3>1 DEF OwnStep, TypeOK
    <3>3. ASSUME NEW s \in Run PROVE Knows(s)'
      BY <1>t, <3>1 DEF OwnStep, Knows
    <3>4. TypeOK'
      BY <2>1, <3>1, <3>2 DEF TypeOK, WorldTyped, OwnStep, PCs
    <3> QED
      BY <3>3, <3>4 DEF Base
  <2>3. CASE Around
    <3>1. UNCHANGED <<pc, my>>
      BY <2>3, AroundKeeps
    <3>2. TypeOK'
      BY <1>t, <2>1, <3>1 DEF TypeOK, WorldTyped
    <3> QED
      BY <1>t, <3>1, <3>2 DEF Base, Knows
  <2> QED
    BY <1>2, <2>2, <2>3 DEF Next
<1> QED
  BY <1>1, <1>2

THEOREM BaseAlways == Spec => []Base
  BY BaseInit, BaseStep, PTL DEF Spec

\* Every variable keeps its type: invocations resolve tasks that exist and
\* choose from questions that were asked (TransformChat!TypeOK).
THEOREM TypeCorrect == Spec => []TypeOK
<1>1. Base => TypeOK
  BY DEF Base
<1> QED
  BY <1>1, BaseAlways, PTL

\* The drive has no end that the wave's model of it lacks, whatever happens in
\* the chat: the two models compose (TransformChat!EndsAsTheWaveAssumes).
THEOREM EndsAreTheWaves == Spec => []EndsAsTheWaveAssumes
<1>1. Base => EndsAsTheWaveAssumes
  BY DEF Base, Knows, EndsAsTheWaveAssumes
<1> QED
  BY <1>1, BaseAlways, PTL

-----------------------------------------------------------------------------
\* An invocation about to put its question has none of its own open about the
\* same servers.
AsksAnew ==
  \A r \in Run : pc[r] = "put" =>
    \A i \in DOMAIN tasks :
      tasks[i].open /\ tasks[i].asks = my[r].sees => tasks[i].by # r

LEMMA AsksStep ==
  ASSUME Base, Base', OpenTasksDistinct, AsksAnew, [Next]_vars
  PROVE  OpenTasksDistinct' /\ AsksAnew'
<1>t. TypeOK /\ TypeOK' /\ tasks \in Seq(Task) /\ pc \in [Run -> PCs] /\ my \in [Run -> Locals]
  BY DEF Base, TypeOK, QueueTyped, PCs
<1> USE DEF AsksAnew, OpenTasksDistinct
\* The table as it was: only an invocation that has just scanned it is new.
<1>1. ASSUME UNCHANGED tasks,
             \A r \in Run : pc'[r] = "put" =>
               \/ pc[r] = "put" /\ my'[r].sees = my[r].sees
               \/ ~AlreadyOpen(my'[r].sees)
      PROVE  OpenTasksDistinct' /\ AsksAnew'
  BY <1>1 DEF AlreadyOpen
<1>2. ASSUME UNCHANGED tasks, NEW r \in Run, OwnStep(r), pc'[r] # "put"
      PROVE  OpenTasksDistinct' /\ AsksAnew'
  BY <1>1, <1>2 DEF OwnStep
<1>3. ASSUME NEW r \in Run, Put(r) PROVE OpenTasksDistinct' /\ AsksAnew'
  <2>1. OwnStep(r) /\ pc'[r] # "put"
    BY <1>t, <1>3, Own DEF RunStep, Put, Asked, Goto
  <2>2. /\ DOMAIN tasks' = DOMAIN tasks \cup {Len(tasks) + 1}
        /\ \A i \in DOMAIN tasks : tasks'[i] = tasks[i] /\ i # Len(tasks) + 1
        /\ tasks'[Len(tasks) + 1] = [asks |-> my[r].sees, by |-> r, open |-> TRUE]
    BY <1>t, <1>3 DEF Put, PutTask
  <2>3. \A i \in DOMAIN tasks :
          tasks[i].open /\ tasks[i].asks = my[r].sees => tasks[i].by # r
    BY <1>3 DEF Put
  <2>4. OpenTasksDistinct'
    BY <2>2, <2>3
  <2>5. AsksAnew'
    BY <2>1, <2>2 DEF OwnStep
  <2> QED
    BY <2>4, <2>5
<1>4. ASSUME NEW r \in Run, Resolve(r) PROVE OpenTasksDistinct' /\ AsksAnew'
  <2>1. OwnStep(r) /\ pc'[r] # "put"
    BY <1>t, <1>4, Own DEF RunStep, Resolve, Speak, Goto
  <2>2. /\ DOMAIN tasks' = DOMAIN tasks
        /\ \A i \in DOMAIN tasks : /\ tasks'[i].open => tasks[i].open
                                  /\ tasks'[i].asks = tasks[i].asks
                                  /\ tasks'[i].by = tasks[i].by
    <3>1. my[r].task \in DOMAIN tasks
      BY <1>t, <1>4 DEF Resolve, TypeOK
    <3>2. tasks[my[r].task] \in Task
      BY <1>t, <3>1
    <3> QED
      BY <1>t, <1>4, <3>1, <3>2 DEF Resolve, Task
  <2> QED
    BY <2>1, <2>2 DEF OwnStep
<1>5. CASE Reply /\ UNCHANGED <<pc, my>>
  <2>1. DOMAIN tasks' = DOMAIN tasks /\ \A i \in DOMAIN tasks : ~tasks'[i].open
    <3>1. \A i \in DOMAIN tasks : tasks[i] \in Task
      BY <1>t
    <3> QED
      BY <1>5, <3>1 DEF Reply, Task
  <2> QED
    BY <2>1
<1>6. ASSUME NEW r \in Run, Submit(r) PROVE OpenTasksDistinct' /\ AsksAnew'
  <2>1. OwnStep(r) /\ UNCHANGED tasks
    BY <1>t, <1>6, Own DEF RunStep, Submit, queue
  <2>2. pc'[r] = "put" => ~AlreadyOpen(my'[r].sees)
    BY <1>t, <1>6 DEF Submit, Asked, Move, Goto
  <2> QED
    BY <1>1, <2>1, <2>2 DEF OwnStep
<1>7. ASSUME NEW r \in Run, RunStep(r) \/ Crash(r) \/ \E who \in Callers : Begin(r, who),
             ~Put(r), ~Resolve(r), ~Submit(r)
      PROVE  OpenTasksDistinct' /\ AsksAnew'
  <2>1. OwnStep(r)
    BY <1>t, <1>7, Own
  <2>2. UNCHANGED tasks
    BY <1>7 DEF RunStep, Look, Act, Health, Judge, Latest, Withhold, Send, Hear,
         HearResize, Clear, Choose, Count, Mark, Fix, Leaves, Crash, Begin, queue
  <2>3. CASE Look(r) \/ Act(r) \/ Health(r) \/ Judge(r) \/ Latest(r) \/ Withhold(r)
             \/ Leaves(r) \/ Crash(r) \/ \E who \in Callers : Begin(r, who)
    <3>1. pc'[r] # "put"
      BY <1>t, <2>3 DEF Look, Act, Health, Judge, Latest, Withhold, Leaves, Crash,
           Begin, Goto, Move, Speak, Asked, HandOver, Return, Leave
    <3> QED
      BY <1>2, <2>1, <2>2, <3>1
  <2>4. CASE Send(r) \/ Hear(r) \/ HearResize(r) \/ Clear(r) \/ Choose(r)
             \/ Count(r) \/ Mark(r) \/ Fix(r)
    <3>1. pc'[r] # "put"
      BY <1>t, <2>4 DEF Send, Hear, HearResize, Clear, Choose, Count, Mark, Fix,
           Goto, Move, Speak, HandOver, Return, Leave
    <3> QED
      BY <1>2, <2>1, <2>2, <3>1
  <2> QED
    BY <1>7, <2>3, <2>4 DEF RunStep
<1>8. CASE Around /\ ~Reply
  <2>1. UNCHANGED <<tasks, pc, my>>
    BY <1>8 DEF Around, JobReplies, AgentAnswers, PersonReplies, JobMoves, Replan,
         Install, Strain, queue
  <2> QED
    BY <1>1, <2>1
<1>9. CASE UNCHANGED vars
  BY <1>1, <1>9 DEF vars, queue
<1> QED
  BY <1>3, <1>4, <1>5, <1>6, <1>7, <1>8, <1>9, AroundKeeps DEF Next

\* No invocation has two questions open about the same servers, however many
\* ask at once, answer and die (HitlQueue!OpenTasksDistinct).
THEOREM AsksOnce == Spec => []OpenTasksDistinct
<1>1. Init => OpenTasksDistinct /\ AsksAnew
  BY DEF Init, QueueInit, OpenTasksDistinct, AsksAnew
<1>2. /\ Base /\ Base' /\ OpenTasksDistinct /\ AsksAnew /\ [Next]_vars
      => OpenTasksDistinct' /\ AsksAnew'
  BY AsksStep
<1> QED
  BY <1>1, <1>2, BaseAlways, PTL DEF Spec

-----------------------------------------------------------------------------
\* Consent.  Whoever writes the word means it: the code's reading of a person's
\* text is right.
WordIsConsent == \A a \in Answers : a.word => a.consents

\* From the turns on, an invocation that saw a denied plan has a person's yes.
Turns == {"send", "reply", "clear", "choose", "count", "mark", "fix"}

Allowed(r) ==
  consented \/ (my[r].goal = "resize" /\ "resize" \in my[r].grants)

Consents(r) ==
  /\ "proceed" \in my[r].grants \/ my[r].over => consented
  /\ pc[r] \in {"latest", "resolve"} => my[r].over
  /\ pc[r] \in Turns /\ my[r].sees # "fits" => Allowed(r)

ConsentInv == (approved => consented) /\ \A r \in Run : Consents(r)

\* An invocation that only goes on keeps what it was allowed.
LEMMA KeepsConsent ==
  ASSUME NEW r \in Run, Consents(r), pc[r] \in Turns, consented => consented',
         consented \in BOOLEAN, consented' \in BOOLEAN, my[r].over \in BOOLEAN,
         my'[r].grants = my[r].grants, my'[r].over = my[r].over,
         my'[r].sees = my[r].sees, my'[r].goal = my[r].goal, pc'[r] \in Turns
  PROVE  Consents(r)'
  BY DEF Consents, Allowed, Turns

\* One that ends or dies needs none.
LEMMA EndsConsent ==
  ASSUME TypeOK, NEW r \in Run,
         \/ HandOver(r) \/ Leave(r, "WAIT", TRUE)
         \/ \E g \in Signals : Return(r, g)
         \/ Goto(r, "idle") /\ my' = [my EXCEPT ![r] = Idle]
  PROVE  Consents(r)'
<1>t. my \in [Run -> Locals] /\ pc \in [Run -> PCs]
  BY DEF TypeOK, PCs
<1>3. Idle.grants = {} /\ Idle.over = FALSE
  BY DEF Idle
<1>1. my'[r].grants = Idle.grants /\ my'[r].over = Idle.over
  <2>1. ASSUME NEW g, NEW m, Leave(r, g, m)
        PROVE  my'[r].grants = Idle.grants /\ my'[r].over = Idle.over
    BY <1>t, <2>1, IdleTyped DEF Leave, Locals
  <2>2. CASE my' = [my EXCEPT ![r] = Idle]
    BY <1>t, <2>2
  <2> QED
    BY <2>1, <2>2 DEF HandOver, Return
<1>2. pc'[r] \in {"return", "idle"}
  BY <1>t DEF HandOver, Return, Leave, Goto
<1> QED
  BY <1>1, <1>2, <1>3 DEF Consents, Turns

LEMMA ConsentOwn ==
  ASSUME TypeOK, ConsentInv, NEW r \in Run, consented => consented',
         consented' \in BOOLEAN,
         RunStep(r) \/ Crash(r) \/ \E who \in Callers : Begin(r, who)
  PROVE  Consents(r)'
<1>t. /\ my \in [Run -> Locals] /\ pc \in [Run -> PCs] /\ my[r] \in Locals
      /\ Consents(r) /\ (approved => consented)
      /\ consented \in BOOLEAN /\ approved \in BOOLEAN /\ my[r].over \in BOOLEAN
  BY DEF TypeOK, QueueTyped, PCs, ConsentInv, Locals
<1> USE DEF Goto
<1>1. CASE Look(r)
  <2>1. /\ pc'[r] = "act" /\ my'[r].grants = my[r].grants /\ my'[r].over = my[r].over
    BY <1>1, <1>t DEF Look, Locals
  <2> QED
    BY <1>t, <2>1 DEF Consents, Turns
<1>2. CASE Act(r) \/ Health(r)
  <2>1. CASE HandOver(r) \/ \E g \in Signals : Return(r, g)
    BY <2>1, EndsConsent
  <2>2. CASE \E p \in {"health", "judge"} : Move(r, p)
    BY <1>t, <2>2 DEF Move, Consents, Turns
  <2> QED
    BY <1>2, <2>1, <2>2 DEF Act, Health, Signals
<1>3. CASE Judge(r)
  <2>1. CASE my[r].sees = "fits" /\ Speak(r, "open")
    <3>1. /\ pc'[r] = "send" /\ my'[r].grants = my[r].grants
          /\ my'[r].over = my[r].over /\ my'[r].sees = "fits"
      BY <1>t, <2>1 DEF Speak, Locals
    <3> QED
      BY <1>t, <3>1 DEF Consents, Turns
  <2>2. CASE GateApproved(r, "proceed") /\ Goto(r, "latest")
             /\ my' = [my EXCEPT ![r].over = TRUE]
    <3>1. consented
      BY <1>t, <2>2 DEF GateApproved, Consents
    <3>2. pc'[r] = "latest" /\ my'[r].over = TRUE
      BY <1>t, <2>2 DEF Locals
    <3> QED
      BY <3>1, <3>2 DEF Consents, Turns
  <2>3. CASE /\ ~GateApproved(r, "proceed") /\ GateApproved(r, "resize")
             /\ Goto(r, "send")
             /\ my' = [my EXCEPT ![r].goal = "resize", ![r].say = "resize"]
    <3>1. "resize" \in my[r].grants
      BY <2>3 DEF GateApproved
    <3>2. /\ pc'[r] = "send" /\ my'[r].goal = "resize"
          /\ my'[r].grants = my[r].grants /\ my'[r].over = my[r].over
      BY <1>t, <2>3 DEF Locals
    <3> QED
      BY <1>t, <3>1, <3>2 DEF Consents, Allowed
  <2>4. CASE Move(r, "submit")
    BY <1>t, <2>4 DEF Move, Consents, Turns
  <2> QED
    BY <1>3, <2>1, <2>2, <2>3, <2>4 DEF Judge
<1>4. CASE Latest(r) \/ Submit(r) \/ Put(r)
  <2>1. CASE \E p \in {"submit", "put"} : Move(r, p)
    BY <1>t, <2>1 DEF Move, Consents, Turns
  <2>2. ASSUME NEW i, Asked(r, i) PROVE Consents(r)'
    <3>1. /\ pc'[r] = (IF my[r].over THEN "resolve" ELSE "withhold")
          /\ my'[r].grants = my[r].grants /\ my'[r].over = my[r].over
      BY <1>t, <2>2 DEF Asked, Locals
    <3> QED
      BY <1>t, <3>1 DEF Consents, Turns
  <2> QED
    BY <1>4, <2>1, <2>2 DEF Latest, Submit, Put
<1>5. CASE Withhold(r) \/ Leaves(r) \/ Crash(r)
  BY <1>5, EndsConsent DEF Withhold, Leaves, Crash
<1>6. CASE Resolve(r)
  <2>1. consented
    BY <1>t, <1>6 DEF Resolve, Consents
  <2>2. pc'[r] = "send"
    BY <1>t, <1>6 DEF Resolve, Speak
  <2> QED
    BY <2>1, <2>2 DEF Consents, Allowed
<1>k. ASSUME pc[r] \in Turns, pc'[r] \in Turns, my'[r].grants = my[r].grants,
             my'[r].over = my[r].over, my'[r].sees = my[r].sees,
             my'[r].goal = my[r].goal
      PROVE  Consents(r)'
  BY <1>t, <1>k, KeepsConsent
<1>7. CASE Send(r) \/ Hear(r) \/ HearResize(r)
  <2>1. CASE \E g \in Signals : Return(r, g)
    BY <2>1, EndsConsent
  <2>2. CASE Goto(r, "reply") /\ my' = [my EXCEPT ![r].turn = @ + 1]
    BY <1>7, <1>t, <1>k, <2>2 DEF Send, Hear, HearResize, Locals, Turns
  <2>3. CASE \E p \in {"clear", "choose"} :
               Goto(r, p) /\ my' = [my EXCEPT ![r].heard = asking]
    BY <1>7, <1>t, <1>k, <2>3 DEF Send, Hear, HearResize, Locals, Turns
  <2>4. CASE Speak(r, "recommend")
    BY <1>7, <1>t, <1>k, <2>4 DEF Send, Hear, HearResize, Speak, Locals, Turns
  <2> QED
    BY <1>7, <2>1, <2>2, <2>3, <2>4 DEF Send, Hear, HearResize, Signals
<1>8. CASE Clear(r)
  <2>1. CASE Leave(r, "WAIT", TRUE) \/ HandOver(r)
    BY <2>1, EndsConsent
  <2>2. CASE Speak(r, "resume")
    BY <1>8, <1>t, <1>k, <2>2 DEF Clear, Speak, Locals, Turns
  <2>3. CASE Goto(r, "choose") /\ my' = [my EXCEPT ![r].marked = TRUE]
    BY <1>8, <1>t, <1>k, <2>3 DEF Clear, Locals, Turns
  <2> QED
    BY <1>8, <2>1, <2>2, <2>3 DEF Clear
<1>9. CASE Choose(r)
  <2>1. CASE HandOver(r)
    BY <2>1, EndsConsent
  <2>2. ASSUME NEW o, Goto(r, "count"), my' = [my EXCEPT ![r].say = o]
        PROVE  Consents(r)'
    BY <1>9, <1>t, <1>k, <2>2 DEF Choose, Locals, Turns
  <2>3. ASSUME NEW o, Goto(r, "send"),
               my' = [my EXCEPT ![r].say = o, ![r].heard = NoGate,
                               ![r].picked = @ \cup {o}]
        PROVE  Consents(r)'
    BY <1>9, <1>t, <1>k, <2>3 DEF Choose, Locals, Turns
  <2> QED
    BY <1>9, <2>1, <2>2, <2>3 DEF Choose
<1>10. CASE Count(r) \/ Mark(r) \/ Fix(r)
  <2>1. CASE HandOver(r) \/ \E g \in Signals : Return(r, g)
    BY <2>1, EndsConsent
  <2>2. CASE Goto(r, "mark")
             /\ my' = [my EXCEPT ![r].rounds = stalls[my[r].heard.asks] + 1]
    BY <1>10, <1>t, <1>k, <2>2 DEF Count, Mark, Fix, Locals, Turns
  <2>3. CASE Move(r, "fix")
    BY <1>10, <1>t, <1>k, <2>3 DEF Count, Mark, Fix, Move, Turns
  <2> QED
    BY <1>10, <2>1, <2>2, <2>3 DEF Count, Mark, Fix, Signals
<1>11. ASSUME NEW who \in Callers, Begin(r, who) PROVE Consents(r)'
  <2>1. PICK g \in SUBSET Gate :
          /\ my' = [my EXCEPT ![r] = [Idle EXCEPT !.grants = g,
                                      !.sees = IF who = "agent" THEN "fits" ELSE plan]]
          /\ consented' = (consented \/ "proceed" \in g)
    BY <1>11 DEF Begin
  <2>2. my'[r].grants = g /\ my'[r].over = FALSE /\ pc'[r] = "look"
    BY <1>11, <1>t, <2>1, IdleTyped DEF Begin, Idle
  <2> QED
    BY <2>1, <2>2 DEF Consents, Turns
<1> QED
  BY <1>1, <1>2, <1>3, <1>4, <1>5, <1>6, <1>7, <1>8, <1>9, <1>10, <1>11 DEF RunStep

LEMMA ConsentStep ==
  ASSUME WordIsConsent, Base, Base', ConsentInv, [Next]_vars
  PROVE  ConsentInv'
<1>t. /\ TypeOK /\ TypeOK' /\ (approved => consented) /\ \A r \in Run : Consents(r)
      /\ consented \in BOOLEAN /\ approved \in BOOLEAN
      /\ consented' \in BOOLEAN /\ approved' \in BOOLEAN
  BY DEF Base, TypeOK, QueueTyped, ConsentInv
\* An approval is a person's word, or one that an approved run makes last.
<1>1. (approved' => consented') /\ (consented => consented')
  <2>1. CASE UNCHANGED <<approved, consented>>
    BY <1>t, <2>1
  <2>2. ASSUME NEW r \in Run, Resolve(r)
        PROVE  (approved' => consented') /\ (consented => consented')
    <3>1. Consents(r)
      BY <1>t
    <3> QED
      BY <2>2, <3>1 DEF Resolve, Consents
  <2>3. CASE Reply
    <3>1. PICK a \in Answers : /\ approved' = (approved \/ a.word)
                               /\ consented' = (consented \/ a.consents)
      BY <2>3 DEF Reply
    <3>2. a.word => a.consents
      BY DEF WordIsConsent
    <3> QED
      BY <1>t, <3>1, <3>2, Zenon
  <2>4. ASSUME NEW r \in Run, NEW who \in Callers, Begin(r, who)
        PROVE  (approved' => consented') /\ (consented => consented')
    <3>1. UNCHANGED approved /\ (consented => consented')
      BY <2>4 DEF Begin
    <3> QED
      BY <1>t, <3>1
  <2>5. ASSUME NEW r \in Run, RunStep(r) \/ Crash(r), ~Resolve(r)
        PROVE  UNCHANGED <<approved, consented>>
    BY <2>5 DEF RunStep, Look, Act, Health, Judge, Latest, Submit, Put, Withhold, Send,
         Hear, HearResize, Clear, Choose, Count, Mark, Fix, Leaves, Crash, queue
  <2>6. ASSUME Around, ~Reply PROVE UNCHANGED <<approved, consented>>
    BY <2>6 DEF Around, JobReplies, AgentAnswers, PersonReplies, JobMoves, Replan,
         Install, Strain, queue
  <2>7. ASSUME UNCHANGED vars PROVE UNCHANGED <<approved, consented>>
    BY <2>7 DEF vars, queue
  <2> QED
    BY <2>1, <2>2, <2>3, <2>4, <2>5, <2>6, <2>7 DEF Next
<1>2. ASSUME NEW s \in Run PROVE Consents(s)'
  <2>1. CASE UNCHANGED <<pc, my>>
    BY <1>t, <1>1, <2>1 DEF Consents, Allowed
  <2>2. ASSUME NEW r \in Run,
               RunStep(r) \/ Crash(r) \/ \E who \in Callers : Begin(r, who)
        PROVE  Consents(s)'
    <3>1. CASE s = r
      BY <1>t, <1>1, <2>2, <3>1, ConsentOwn DEF ConsentInv
    <3>2. CASE s # r
      <4>1. pc'[s] = pc[s] /\ my'[s] = my[s]
        BY <1>t, <2>2, <3>2, Own DEF OwnStep
      <4> QED
        BY <1>t, <1>1, <4>1 DEF Consents, Allowed
    <3> QED
      BY <3>1, <3>2
  <2> QED
    BY <2>1, <2>2, AroundKeeps DEF Next, vars
<1> QED
  BY <1>1, <1>2 DEF ConsentInv

\* If a text that contains the word APPROVED is a yes, nothing is said to AWS
\* Transform for a denied plan without one, whoever asks, answers, approves by
\* payload or dies in between (TransformChat!SpeaksOnConsent).
THEOREM NothingSaidUnasked == WordIsConsent /\ Spec => []SpeaksOnConsent
<1>0. Init => ConsentInv
  <2> SUFFICES ASSUME Init PROVE ConsentInv
    OBVIOUS
  <2>1. approved = FALSE /\ \A r \in Run : pc[r] = "idle" /\ my[r] = Idle
    BY DEF Init, QueueInit
  <2>2. Idle.grants = {} /\ Idle.over = FALSE
    BY DEF Idle
  <2> QED
    BY <2>1, <2>2 DEF ConsentInv, Consents, Turns
<1>1. WordIsConsent /\ Base /\ Base' /\ ConsentInv /\ [Next]_vars => ConsentInv'
  BY ConsentStep
<1>2. ConsentInv => SpeaksOnConsent
  BY DEF ConsentInv, Consents, Allowed, SpeaksOnConsent, Turns
<1>3. WordIsConsent => []WordIsConsent
  <2> SUFFICES ASSUME WordIsConsent PROVE []WordIsConsent
    OBVIOUS
  <2>1. WordIsConsent
    OBVIOUS
  <2> QED
    BY <2>1, PTL
<1> QED
  BY <1>0, <1>1, <1>2, <1>3, BaseAlways, PTL DEF Spec

-----------------------------------------------------------------------------
\* One invocation at a time, and nobody else writes to the thread.
AloneOnThread == ~Overlap /\ "agent" \notin Callers

Owned == \A r, s \in Run : pc[r] # "idle" /\ pc[s] # "idle" => r = s

\* What a run has heard is what the thread asks, as long as it has not said
\* anything; and what it is about to answer stands to that.
Steady(r) ==
  /\ pc[r] \in {"clear", "choose"} => ~processing /\ my[r].heard = asking
  /\ pc[r] = "send" /\ my[r].say \in Label /\ my[r].goal = "cutover" =>
       /\ ~processing /\ my[r].say \in asking.offers
       /\ ~Withheld(asking, my[r].sees # "fits")
       /\ ~Unfounded(asking, my[r].say)

SteadyInv == Owned /\ \A r \in Run : Steady(r)

\* An invocation reads the thread; all it writes to it is its own message.
LEMMA ThreadFrame ==
  ASSUME NEW r \in Run, RunStep(r) \/ Crash(r) \/ \E who \in Callers : Begin(r, who)
  PROVE  /\ UNCHANGED <<asking, installed>>
         /\ UNCHANGED processing \/ (Send(r) /\ Goto(r, "reply"))
<1> USE DEF thread, estate
<1>1. CASE Look(r) \/ Act(r) \/ Health(r) \/ Leaves(r) \/ Crash(r)
  BY <1>1 DEF Look, Act, Health, Leaves, Crash
<1>2. CASE Judge(r) \/ Latest(r) \/ Submit(r) \/ Put(r) \/ Withhold(r) \/ Resolve(r)
  BY <1>2 DEF Judge, Latest, Submit, Put, Withhold, Resolve
<1>3. CASE Hear(r) \/ HearResize(r) \/ Clear(r) \/ Choose(r)
  BY <1>3 DEF Hear, HearResize, Clear, Choose
<1>4. CASE Count(r) \/ Mark(r) \/ Fix(r)
  BY <1>4 DEF Count, Mark, Fix
<1>5. CASE Send(r)
  BY <1>5 DEF Send
<1>6. CASE \E who \in Callers : Begin(r, who)
  BY <1>6 DEF Begin
<1> QED
  BY <1>1, <1>2, <1>3, <1>4, <1>5, <1>6 DEF RunStep

\* An option is picked from those the question offers.
LEMMA PicksOffered == ASSUME NEW g PROVE Picks(g) \subseteq g.offers
  BY DEF Picks

\* The words that are no option.
LEMMA NoLabels == {"open", "resume", "resize"} \cap Label = {}
  BY DEF Label

\* A run at a place where nothing is heard or said has nothing to keep.
LEMMA NothingSaid ==
  ASSUME NEW r \in Run, pc'[r] \notin {"clear", "choose", "send"}
  PROVE  Steady(r)'
  BY DEF Steady

LEMMA LeavesSteady ==
  ASSUME TypeOK, NEW r \in Run,
         \/ HandOver(r) \/ (\E g \in Signals : Return(r, g)) \/ Leave(r, "WAIT", TRUE)
         \/ \E p \in PCs \ {"clear", "choose", "send"} : Goto(r, p)
  PROVE  Steady(r)'
<1>1. pc'[r] \notin {"clear", "choose", "send"}
  BY DEF TypeOK, HandOver, Return, Leave, Goto, PCs
<1> QED
  BY <1>1, NothingSaid

\* Speaking a word that is no option of a question.
LEMMA SpeaksSteady ==
  ASSUME TypeOK, NEW r \in Run, NEW w \in Saying, Speak(r, w),
         w \notin Label \/ my[r].goal = "resize"
  PROVE  Steady(r)'
<1>1. my \in [Run -> Locals] /\ pc \in [Run -> PCs] /\ my[r] \in Locals
  BY DEF TypeOK, PCs
<1>2. pc'[r] = "send" /\ my'[r] = [my[r] EXCEPT !.say = w, !.heard = NoGate]
  BY <1>1 DEF Speak, Goto
<1>3. my'[r].say = w /\ my'[r].goal = my[r].goal
  BY <1>1, <1>2 DEF Locals
<1> QED
  BY <1>2, <1>3 DEF Steady

\* Its own steps keep a run steady.
LEMMA SteadyOwn ==
  ASSUME TypeOK, NEW r \in Run, Steady(r),
         RunStep(r) \/ Crash(r) \/ \E who \in Callers : Begin(r, who)
  PROVE  Steady(r)'
<1>t. my \in [Run -> Locals] /\ pc \in [Run -> PCs] /\ my[r] \in Locals
  BY DEF TypeOK, PCs
<1>f. /\ UNCHANGED <<asking, installed>>
      /\ UNCHANGED processing \/ Goto(r, "reply")
  BY ThreadFrame
<1> USE DEF PCs, Running
<1>1. CASE Look(r) \/ Leaves(r) \/ Crash(r)
  BY <1>1, LeavesSteady DEF Look, Leaves, Crash
<1>2. CASE \E who \in Callers : Begin(r, who)
  BY <1>2, LeavesSteady DEF Begin
<1>3. CASE Act(r) \/ Health(r)
  BY <1>3, LeavesSteady DEF Act, Health, Move, Signals
<1>4. CASE Judge(r)
  <2>1. CASE Speak(r, "open")
    BY <2>1, SpeaksSteady, NoLabels DEF Saying
  <2>2. CASE Goto(r, "latest") \/ Move(r, "submit")
    BY <2>2, LeavesSteady DEF Move
  <2>3. CASE /\ Goto(r, "send")
             /\ my' = [my EXCEPT ![r].goal = "resize", ![r].say = "resize"]
    <3>1. pc'[r] = "send" /\ my'[r].say = "resize"
      BY <1>t, <2>3 DEF Goto, Locals
    <3> QED
      BY <3>1, NoLabels DEF Steady
  <2> QED
    BY <1>4, <2>1, <2>2, <2>3 DEF Judge
<1>5. CASE Latest(r) \/ Submit(r) \/ Put(r) \/ Withhold(r)
  BY <1>5, LeavesSteady DEF Latest, Submit, Put, Withhold, Move, Asked
<1>6. CASE Resolve(r)
  BY <1>6, SpeaksSteady, NoLabels DEF Resolve, Saying
<1>7. CASE Send(r)
  BY <1>7, LeavesSteady DEF Send, Signals
<1>8. CASE Hear(r)
  <2>1. CASE Return(r, "WAIT")
    BY <2>1, LeavesSteady DEF Signals
  <2>2. CASE /\ \E p \in {"clear", "choose"} : Goto(r, p)
             /\ my' = [my EXCEPT ![r].heard = asking]
    <3>1. pc'[r] \in {"clear", "choose"} /\ my'[r].heard = asking
      BY <1>t, <2>2 DEF Goto, Locals
    <3>2. ~processing /\ processing' = processing
      BY <1>8 DEF Hear, thread
    <3> QED
      BY <1>f, <3>1, <3>2 DEF Steady
  <2> QED
    BY <1>8, <2>1, <2>2 DEF Hear
<1>9. CASE HearResize(r)
  BY <1>9, LeavesSteady, SpeaksSteady DEF HearResize, Signals, Saying, Label
<1>10. CASE Clear(r)
  <2>1. CASE Speak(r, "resume")
    BY <2>1, SpeaksSteady, NoLabels DEF Saying
  <2>2. CASE Leave(r, "WAIT", TRUE) \/ HandOver(r)
    BY <2>2, LeavesSteady
  <2>3. CASE Goto(r, "choose") /\ my' = [my EXCEPT ![r].marked = TRUE]
    <3>1. pc'[r] = "choose" /\ my'[r].heard = my[r].heard
      BY <1>t, <2>3 DEF Goto, Locals
    <3>2. ~processing' /\ my[r].heard = asking
      BY <1>10 DEF Clear, Steady, thread
    <3> QED
      BY <1>f, <3>1, <3>2 DEF Steady
  <2> QED
    BY <1>10, <2>1, <2>2, <2>3 DEF Clear
<1>11. CASE Choose(r)
  <2>h. my[r].heard = asking /\ ~processing'
    BY <1>11 DEF Choose, Steady, thread
  <2>1. CASE HandOver(r)
    BY <2>1, LeavesSteady
  <2>2. CASE Goto(r, "count")
    BY <2>2, LeavesSteady
  <2>3. ASSUME NEW o \in Picks(asking), Goto(r, "send"),
               ~Withheld(asking, my[r].sees # "fits"), ~Unfounded(asking, o),
               my' = [my EXCEPT ![r].say = o, ![r].heard = NoGate,
                               ![r].picked = @ \cup {o}]
        PROVE  Steady(r)'
    <3>1. /\ pc'[r] = "send" /\ my'[r].say = o /\ my'[r].sees = my[r].sees
      BY <1>t, <2>3 DEF Goto, Locals
    <3>2. o \in asking.offers
      BY <2>3, PicksOffered
    <3>3. ~Unfounded(asking, o)'
      BY <1>f, <2>3 DEF Unfounded
    <3> QED
      BY <1>f, <2>h, <2>3, <3>1, <3>2, <3>3 DEF Steady
  <2> QED
    BY <1>11, <2>h, <2>1, <2>2, <2>3 DEF Choose
<1>12. CASE Count(r) \/ Mark(r) \/ Fix(r)
  BY <1>12, LeavesSteady DEF Count, Mark, Fix, Move, Signals
<1> QED
  BY <1>1, <1>2, <1>3, <1>4, <1>5, <1>6, <1>7, <1>8, <1>9, <1>10, <1>11, <1>12
     DEF RunStep

\* What happens around a run that is alone on the thread: the service replies
\* only to a message, and nobody else leaves one.
LEMMA SteadyAround ==
  ASSUME TypeOK, AloneOnThread, NEW r \in Run, Steady(r), Around
  PROVE  Steady(r)'
<1>1. UNCHANGED <<pc, my>>
  BY AroundKeeps
<1>2. ~AgentAnswers
  BY DEF AloneOnThread, AgentAnswers
<1>3. CASE JobReplies
  BY <1>1, <1>3 DEF JobReplies, Steady
<1>4. CASE UNCHANGED <<asking, processing>> /\ (installed => installed')
  BY <1>1, <1>4 DEF Steady, Unfounded
<1> QED
  BY <1>2, <1>3, <1>4 DEF Around, PersonReplies, JobMoves, Replan, Install, Strain,
     thread, estate

\* An invocation starts when there is no other, and stays the only one.
LEMMA OwnedStep ==
  ASSUME TypeOK, AloneOnThread, Owned, NEW r \in Run,
         RunStep(r) \/ Crash(r) \/ \E who \in Callers : Begin(r, who)
  PROVE  \A s \in Run \ {r} : pc[s] = "idle" /\ pc'[s] = "idle"
<1>1. pc[r] # "idle" \/ \A s \in Run : pc[s] = "idle"
  BY DEF RunStep, Look, Act, Health, Judge, Latest, Submit, Put, Withhold, Resolve,
     Send, Hear, HearResize, Clear, Choose, Count, Mark, Fix, Leaves, Crash, Begin,
     AloneOnThread
<1>2. \A s \in Run \ {r} : pc'[s] = pc[s]
  BY Own DEF OwnStep
<1> QED
  BY <1>1, <1>2 DEF Owned

LEMMA SteadyStep ==
  ASSUME AloneOnThread, Base, SteadyInv, [Next]_vars
  PROVE  SteadyInv'
<1>t. TypeOK /\ Owned /\ \A r \in Run : Steady(r)
  BY DEF Base, SteadyInv
<1>1. CASE UNCHANGED vars
  BY <1>t, <1>1 DEF vars, thread, estate, SteadyInv, Owned, Steady, Unfounded
<1>2. ASSUME NEW r \in Run,
             RunStep(r) \/ Crash(r) \/ \E who \in Callers : Begin(r, who)
      PROVE  SteadyInv'
  <2>1. \A s \in Run \ {r} : pc'[s] = "idle"
    BY <1>t, <1>2, OwnedStep
  <2>2. Steady(r)'
    BY <1>t, <1>2, SteadyOwn
  <2> QED
    BY <2>1, <2>2, NothingSaid DEF SteadyInv, Owned
<1>3. CASE Around
  <2>1. \A r \in Run : Steady(r)'
    BY <1>t, <1>3, SteadyAround
  <2> QED
    BY <1>t, <1>3, <2>1, AroundKeeps DEF SteadyInv, Owned
<1> QED
  BY <1>1, <1>2, <1>3 DEF Next

\* With one invocation at a time and no messages of the agent's own, every
\* answer is one of the options of the question the thread holds, to a question
\* that is not a person's, however late the service replies and however many
\* runs died between a message and its reply (TransformChat!AnswersStand).
THEOREM AnswersStandAlone == AloneOnThread => (Spec => AnswersStand)
<1> SUFFICES ASSUME AloneOnThread PROVE Spec => AnswersStand
  OBVIOUS
<1>1. Init => SteadyInv
  BY DEF Init, SteadyInv, Owned, Steady
<1>2. Base /\ SteadyInv /\ [Next]_vars => SteadyInv'
  BY SteadyStep
<1>3. SteadyInv =>
        \A r \in Run : Answering(r) =>
          /\ my[r].say \in asking.offers
          /\ asking.kind \notin {"manual", "danger"} /\ "delete" \notin asking.offers
          /\ my[r].sees # "fits" => "cutover" \notin asking.offers
          /\ asking.kind = "install" /\ my[r].say = "completed" => installed
  BY DEF SteadyInv, Steady, Answering, Withheld, Unfounded
<1>4. SteadyInv =>
        [\A r \in Run : Answering(r) =>
          /\ my[r].say \in asking.offers
          /\ asking.kind \notin {"manual", "danger"} /\ "delete" \notin asking.offers
          /\ my[r].sees # "fits" => "cutover" \notin asking.offers
          /\ asking.kind = "install" /\ my[r].say = "completed" => installed]_vars
  BY <1>3
<1> QED
  BY <1>1, <1>2, <1>4, BaseAlways, PTL DEF Spec, AnswersStand
=============================================================================
