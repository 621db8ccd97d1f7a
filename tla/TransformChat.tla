--------------------------- MODULE TransformChat ---------------------------
(***************************************************************************)
(* The conversation with AWS Transform that carries out the replicate step *)
(* of a wave (agents/orchestrator.py, _drive_transform_job,                *)
(* _advance_migration; tools/transform_mcp.py).  An invocation looks at    *)
(* the job, checks its plan, and then says one thing and reads what came   *)
(* back, until it hands over, waits, or has spent its turns.  Whatever it  *)
(* knows of earlier invocations it reads from the decision log, the step   *)
(* ledger and the queue of questions.                                      *)
(*                                                                         *)
(* Invocations of the schedule, of people and of the agent may overlap.    *)
(* They share one chat thread, in which the service works on one message   *)
(* at a time.                                                              *)
(***************************************************************************)
EXTENDS HitlQueue, Drive, FiniteSets

CONSTANTS
  Callers,     \* who starts invocations: "tick", "person", "agent"
  Gates,       \* what AWS Transform may ask
  JobStates,   \* states the job may be found in
  Faults,      \* which calls may fail: "policy", "initialize", "resize", "control"
  Overlap,     \* may invocations overlap?
  Moves,       \* what may change on the way: "job", "plan", "installation",
               \* "strain" of the replication server, a "blocker" reported
  MaxTurns,    \* MAX_CHAT_TURNS
  StallAfter,  \* STALL_ESCALATE_AFTER
  MaxMarks,    \* bound: once a question has bounced so often nobody starts a run
  MaxCrashes   \* bound on the invocations that die

\* An option, by what the code makes of its wording: ADVANCE_OPTIONS (of which
\* "cutover" also names the cutover), COMPLETION_ANSWERS, RESIZE_OPTIONS,
\* STOP_SIGNALS, or a configuration value.
Label == {"proceed", "cutover", "completed", "recommend", "delete", "value"}
AdvanceLabel == {"proceed", "cutover"}

\* A text: one that names a manual prerequisite, carries a stop signal, asks
\* about the installation of agents, reports that MGN is not initialised.
Kind == {"plain", "manual", "danger", "install", "mgn"}

\* A question (its first 200 characters), its kind and the options offered.
\* There is an interaction only if there are options.
IsGate(g) ==
  /\ DOMAIN g = {"asks", "kind", "offers"}
  /\ g.kind \in Kind /\ g.offers \in SUBSET Label /\ g.offers # {}

NoGate == [asks |-> "nothing", kind |-> "plain", offers |-> {}]

ASSUME ChatConstants ==
  /\ Callers \subseteq {"tick", "person", "agent"}
  /\ \A g \in Gates : IsGate(g)
  /\ JobStates \subseteq {"missing", "stopped", "executing", "awaiting", "completed"}
  /\ Overlap \in BOOLEAN
  /\ MaxTurns \in Nat /\ StallAfter \in Nat /\ MaxMarks \in Nat /\ MaxCrashes \in Nat

Question == {g.asks : g \in Gates}
Signals == {"CONTINUE", "WAIT", "ESCALATE"}

VARIABLES
  row,         \* the wave row: REPLICATING while runs work on it, or ESCALATED
  stalls,      \* decision log: entries with STALL_MARK, by question
  initialized, \* step ledger: blocker-initialize_mgn has a result
  resized,     \* ... the rounds whose stall-resize result is a resize
  unresized,   \* ... and those whose result is that there was no cause for one
  job,         \* the Transform job's state
  critical,    \* ... whether a CRITICAL task blocks it
  plan,        \* ... the servers its plan would under-size, "fits" if none
  asking,      \* the thread's newest message with options
  prose,       \* ... whether its newest reply reports MGN not initialised
  processing,  \* ... whether the service is working on a message
  installed,   \* MGN shows the agents installed
  server,      \* the replication server: burstable and "fine", out of credits
               \* ("strained"), or re-sized to a type that has no credits
  pc, my,      \* the invocations: where they are, their locals
  crashes

ledger == <<initialized, resized, unresized>>
thread == <<asking, prose, processing>>
estate == <<job, critical, plan, installed, server>>
vars == <<queue, row, stalls, ledger, thread, estate, pc, my, crashes>>

Idle ==
  [grants |-> {}, sees |-> "fits", over |-> FALSE, task |-> 0,
   goal |-> "cutover", say |-> "open", heard |-> NoGate, picked |-> {},
   turn |-> 0, rounds |-> 0, marked |-> FALSE, saw |-> "missing",
   end |-> Ends("ESCALATE", FALSE)]

Init ==
  /\ QueueInit
  /\ row = "REPLICATING"
  /\ stalls = [q \in Question |-> 0]
  /\ initialized = FALSE /\ resized = {} /\ unresized = {}
  /\ job \in JobStates /\ critical = FALSE /\ plan \in Denial \cup {"fits"}
  /\ asking \in Gates \cup {NoGate} /\ prose = FALSE /\ processing = FALSE
  /\ installed = FALSE /\ server = "fine"
  /\ pc = [r \in Run |-> "idle"] /\ my = [r \in Run |-> Idle]
  /\ crashes = 0

-----------------------------------------------------------------------------
\* How an invocation moves and ends.

Goto(r, p) == pc' = [pc EXCEPT ![r] = p]

\* It goes on to p with its locals as they are.
Move(r, p) == Goto(r, p) /\ UNCHANGED my

\* It goes on to say words.
Speak(r, words) ==
  /\ Goto(r, "send")
  /\ my' = [my EXCEPT ![r].say = words, ![r].heard = NoGate]

\* The drive returns a signal.
Leave(r, signal, marked) ==
  /\ Goto(r, "return")
  /\ my' = [my EXCEPT ![r] = [Idle EXCEPT !.saw = my[r].saw,
                                         !.end = Ends(signal, marked)]]

Return(r, signal) == Leave(r, signal, my[r].marked) /\ UNCHANGED row

\* Mutant: the signal without the mark.
HandOverUnmarked(r) == UNCHANGED row /\ Leave(r, "ESCALATE", FALSE)

\* escalate, then ESCALATE; and what run_wave makes of a rejected step.
HandOver(r) == row' = "ESCALATED" /\ Leave(r, "ESCALATE", TRUE)

\* run_wave turns the signal into its outcome and ends.
Leaves(r) ==
  /\ pc[r] = "return"
  /\ Goto(r, "idle") /\ my' = [my EXCEPT ![r] = Idle]
  /\ UNCHANGED <<queue, row, stalls, ledger, thread, estate, crashes>>

\* The contract a run brings along may deny what it dispatches.
MayDeny == "policy" \in Faults

\* run_wave, up to the drive: the workspace is read for the plan's sizing, and
\* a person's payload may approve gates.  The agent's run_migration_wave passes
\* no sizing, so that the approvals it names are never asked for.
Begin(r, who) ==
  /\ pc[r] = "idle"
  /\ Overlap \/ \A s \in Run : pc[s] = "idle"
  /\ \A q \in Question : stalls[q] < MaxMarks
  /\ who = "tick" => row # "ESCALATED"
  /\ \E grants \in IF who = "person" THEN SUBSET Gate ELSE {{}} :
       /\ my' = [my EXCEPT ![r] =
                   [Idle EXCEPT !.grants = grants,
                                !.sees = IF who = "agent" THEN "fits" ELSE plan]]
       /\ consented' = (consented \/ "proceed" \in grants)
  /\ row' = "REPLICATING"
  /\ Goto(r, "look")
  /\ UNCHANGED <<tasks, approved, stalls, ledger, thread, estate, crashes>>

\* _drive_transform_job: a job that is not executing is started; one that
\* refuses is driven if it is waiting for somebody.
Look(r) ==
  /\ pc[r] = "look"
  /\ Goto(r, "act")
  /\ my' = [my EXCEPT ![r].saw = job]
  /\ UNCHANGED <<queue, row, stalls, ledger, thread, estate, crashes>>

Act(r) ==
  LET saw == my[r].saw IN
  /\ pc[r] = "act"
  /\ \/ /\ saw = "missing"
        /\ Return(r, "ESCALATE") /\ UNCHANGED job
     \/ /\ saw # "missing" /\ critical
        /\ HandOver(r) /\ UNCHANGED job
     \/ /\ saw \in {"stopped", "awaiting"} /\ ~critical
        /\ job' = IF job \in {"stopped", "awaiting"} THEN "executing" ELSE job
        /\ Return(r, "WAIT")
     \/ /\ saw = "stopped" /\ ~critical /\ "control" \in Faults
        /\ Return(r, "WAIT") /\ UNCHANGED job
     \/ /\ \/ saw = "executing"
           \/ saw = "awaiting" /\ "control" \in Faults
        /\ ~critical
        /\ Move(r, "health") /\ UNCHANGED <<row, job>>
     \/ /\ saw = "completed" /\ ~critical
        /\ Return(r, "CONTINUE") /\ UNCHANGED job
  /\ UNCHANGED <<queue, stalls, ledger, thread, critical, plan, installed,
                 server, crashes>>

\* _resize_replication_server: a burstable server that saturates, and no other.
Resize == server = "strained" /\ server' = "sized"

\* _check_replication_health, under a key of this minute: a server out of
\* credits is resized, unless the call fails or the minute has its record.
Health(r) ==
  /\ pc[r] = "health"
  /\ \/ Move(r, "judge") /\ (Resize \/ UNCHANGED server) /\ UNCHANGED row
     \/ MayDeny /\ HandOver(r) /\ UNCHANGED server
  /\ UNCHANGED <<queue, stalls, ledger, thread, job, critical, plan, installed,
                 crashes>>

-----------------------------------------------------------------------------
\* The plan against the contract.

\* _gate_approved: by this invocation's payload or by the decision log.
GateApproved(r, gate) ==
  gate \in my[r].grants \/ (gate = "proceed" /\ approved)

\* A denied plan goes on if a person approved it, is re-sized if a person
\* asked for that, and else is put to a person.
Judge(r) ==
  /\ pc[r] = "judge"
  /\ \/ /\ my[r].sees = "fits"
        /\ Speak(r, "open")
     \/ /\ my[r].sees # "fits" /\ GateApproved(r, "proceed")
        /\ Goto(r, "latest") /\ my' = [my EXCEPT ![r].over = TRUE]
     \/ /\ my[r].sees # "fits" /\ ~GateApproved(r, "proceed")
        /\ GateApproved(r, "resize")
        /\ Goto(r, "send")
        /\ my' = [my EXCEPT ![r].goal = "resize", ![r].say = "resize"]
     \/ /\ my[r].sees # "fits" /\ ~GateApproved(r, "proceed")
        /\ ~GateApproved(r, "resize")
        /\ Move(r, "submit")
  /\ UNCHANGED <<queue, row, stalls, ledger, thread, estate, crashes>>

\* The question is there: to be resolved, or to stand.
Asked(r, i) ==
  /\ Goto(r, IF my[r].over THEN "resolve" ELSE "withhold")
  /\ my' = [my EXCEPT ![r].task = i]

\* Mutant: latest() may find nothing.
LatestUnchecked(r) ==
  /\ pc[r] = "latest"
  /\ Asked(r, Len(tasks))
  /\ UNCHANGED <<queue, row, stalls, ledger, thread, estate, crashes>>

Latest(r) ==
  /\ pc[r] = "latest"
  /\ IF tasks = <<>> THEN Move(r, "submit") ELSE Asked(r, Len(tasks))
  /\ UNCHANGED <<queue, row, stalls, ledger, thread, estate, crashes>>

\* Mutant: every run puts its question.
SubmitAlways(r) ==
  /\ pc[r] = "submit"
  /\ Move(r, "put")
  /\ UNCHANGED <<queue, row, stalls, ledger, thread, estate, crashes>>

\* submit: the scan ...
Submit(r) ==
  /\ pc[r] = "submit"
  /\ \/ \E i \in DOMAIN tasks :
          tasks[i].open /\ tasks[i].asks = my[r].sees /\ Asked(r, i)
     \/ ~AlreadyOpen(my[r].sees) /\ Move(r, "put")
  /\ UNCHANGED <<queue, row, stalls, ledger, thread, estate, crashes>>

\* ... and the put.
Put(r) ==
  /\ pc[r] = "put"
  /\ PutTask(r, my[r].sees)
  /\ Asked(r, Len(tasks) + 1)
  /\ UNCHANGED <<approved, consented, row, stalls, ledger, thread, estate,
                 crashes>>

Withhold(r) ==
  /\ pc[r] = "withhold"
  /\ HandOver(r)
  /\ UNCHANGED <<queue, stalls, ledger, thread, estate, crashes>>

\* resolve(task, True) makes this invocation's approval a lasting one.
Resolve(r) ==
  /\ pc[r] = "resolve"
  /\ tasks' = [tasks EXCEPT ![my[r].task].open = FALSE]
  /\ approved' = TRUE
  /\ Speak(r, "open")
  /\ UNCHANGED <<consented, row, stalls, ledger, thread, estate, crashes>>

-----------------------------------------------------------------------------
\* The turns.

\* send_message; TransformBusy and a spent budget are left to a later run.
Send(r) ==
  /\ pc[r] = "send"
  /\ \/ /\ my[r].turn = MaxTurns \/ processing
        /\ Return(r, "WAIT") /\ UNCHANGED processing
     \/ /\ my[r].turn < MaxTurns /\ ~processing
        /\ processing' = TRUE
        /\ Goto(r, "reply") /\ my' = [my EXCEPT ![r].turn = @ + 1]
        /\ UNCHANGED row
  /\ UNCHANGED <<queue, stalls, ledger, asking, prose, estate, crashes>>

\* pending_interaction and latest_reply, once the service has answered.  A
\* reply without options leaves the older interaction to be read again.
Hear(r) ==
  /\ pc[r] = "reply" /\ ~processing /\ my[r].goal = "cutover"
  /\ \/ /\ prose \/ asking.kind = "mgn"
        /\ Goto(r, "clear") /\ my' = [my EXCEPT ![r].heard = asking]
        /\ UNCHANGED row
     \/ /\ ~prose /\ asking.kind # "mgn" /\ asking # NoGate
        /\ Goto(r, "choose") /\ my' = [my EXCEPT ![r].heard = asking]
        /\ UNCHANGED row
     \/ ~prose /\ asking = NoGate /\ Return(r, "WAIT")
  /\ UNCHANGED <<queue, stalls, ledger, thread, estate, crashes>>

\* _request_resize: only options about the sizing are taken; a question
\* without one ends the drive without a mark.
HearResize(r) ==
  /\ pc[r] = "reply" /\ ~processing /\ my[r].goal = "resize"
  /\ \/ asking = NoGate /\ Return(r, "WAIT")
     \/ asking # NoGate /\ "recommend" \notin asking.offers /\ Return(r, "ESCALATE")
     \/ /\ "recommend" \in asking.offers
        /\ Speak(r, "recommend") /\ UNCHANGED row
  /\ UNCHANGED <<queue, stalls, ledger, thread, estate, crashes>>

\* _clear_blocker: a recorded initialisation is not repeated.  One that is
\* refused marks the wave, and the run goes on with what it heard.
Clear(r) ==
  /\ pc[r] = "clear"
  /\ \/ /\ initialized' = TRUE
        /\ Speak(r, "resume") /\ UNCHANGED row
     \/ /\ ~initialized /\ "initialize" \in Faults
        /\ row' = "ESCALATED"
        /\ \/ /\ my[r].heard # NoGate
              /\ Goto(r, "choose") /\ my' = [my EXCEPT ![r].marked = TRUE]
           \/ my[r].heard = NoGate /\ Leave(r, "WAIT", TRUE)
        /\ UNCHANGED initialized
     \/ /\ ~initialized /\ MayDeny
        /\ HandOver(r) /\ UNCHANGED initialized
  /\ UNCHANGED <<queue, stalls, resized, unresized, thread, estate, crashes>>

\* _classify_gate.  A cutover stays withheld from a denied plan, even from an
\* approved one.
Withheld(g, denied) ==
  \/ g.kind \in {"manual", "danger"}
  \/ "delete" \in g.offers
  \/ denied /\ "cutover" \in g.offers

\* Plain progress if there is any; or the only option; or a configuration
\* value that the model picks or declines.
Picks(g) ==
  IF g.offers \cap AdvanceLabel # {} THEN g.offers \cap AdvanceLabel ELSE g.offers

Declinable(g) == g.offers \cap AdvanceLabel = {} /\ Cardinality(g.offers) > 1

\* affirms_a_manual_step, without MGN's evidence (installation_is_done).
Unfounded(g, option) == g.kind = "install" /\ option = "completed" /\ ~installed

\* Mutant: a completed installation is affirmed on request.
ChooseTrusting(r) ==
  /\ pc[r] = "choose"
  /\ \/ /\ ~Withheld(my[r].heard, my[r].sees # "fits")
        /\ \E o \in Picks(my[r].heard) \ my[r].picked :
             /\ Goto(r, "send")
             /\ my' = [my EXCEPT ![r].say = o, ![r].heard = NoGate,
                                 ![r].picked = @ \cup {o}]
        /\ UNCHANGED row
     \/ HandOver(r)
  /\ UNCHANGED <<queue, stalls, ledger, thread, estate, crashes>>

Choose(r) ==
  LET g == my[r].heard IN
  /\ pc[r] = "choose"
  /\ \/ /\ Withheld(g, my[r].sees # "fits") \/ Declinable(g)
        /\ HandOver(r)
     \/ /\ ~Withheld(g, my[r].sees # "fits")
        /\ \E o \in Picks(g) :
             \/ /\ o \in my[r].picked
                /\ Goto(r, "count") /\ my' = [my EXCEPT ![r].say = o]
                /\ UNCHANGED row
             \/ /\ o \notin my[r].picked
                /\ Unfounded(g, o) \/ (g.kind = "install" /\ MayDeny)
                /\ HandOver(r)
             \/ /\ o \notin my[r].picked /\ ~Unfounded(g, o)
                /\ Goto(r, "send")
                /\ my' = [my EXCEPT ![r].say = o, ![r].heard = NoGate,
                                 ![r].picked = @ \cup {o}]
                /\ UNCHANGED row
  /\ UNCHANGED <<queue, stalls, ledger, thread, estate, crashes>>

-----------------------------------------------------------------------------
\* A question that came back to an option already given.

\* _prior_stalls reads the log ...
Count(r) ==
  /\ pc[r] = "count"
  /\ Goto(r, "mark")
  /\ my' = [my EXCEPT ![r].rounds = stalls[my[r].heard.asks] + 1]
  /\ UNCHANGED <<queue, row, stalls, ledger, thread, estate, crashes>>

\* Mutant: only the run remembers that it was turned back.
MarkNothing(r) ==
  /\ pc[r] = "mark"
  /\ \/ /\ my[r].rounds >= StallAfter
        /\ Move(r, "fix") /\ UNCHANGED row
     \/ my[r].rounds < StallAfter /\ Return(r, "WAIT")
  /\ UNCHANGED <<queue, stalls, ledger, thread, estate, crashes>>

\* ... and the round is logged; the last of them goes on to the cause.
Mark(r) ==
  /\ pc[r] = "mark"
  /\ stalls' = [stalls EXCEPT ![my[r].heard.asks] = @ + 1]
  /\ \/ /\ my[r].rounds >= StallAfter
        /\ Move(r, "fix") /\ UNCHANGED row
     \/ my[r].rounds < StallAfter /\ Return(r, "WAIT")
  /\ UNCHANGED <<queue, ledger, thread, estate, crashes>>

\* dispatch("stall-resize-{rounds}"): a resized server gets another round,
\* anything else is a person's.  All questions share the keys.
Fix(r) ==
  LET k == my[r].rounds IN
  /\ pc[r] = "fix"
  /\ \/ /\ k \in resized
        /\ Return(r, "WAIT") /\ UNCHANGED <<ledger, server>>
     \/ /\ k \notin resized \cup unresized /\ Resize
        /\ resized' = resized \cup {k}
        /\ Return(r, "WAIT") /\ UNCHANGED <<initialized, unresized>>
     \/ /\ k \notin resized \cup unresized /\ server # "strained"
        /\ unresized' = unresized \cup {k}
        /\ HandOver(r) /\ UNCHANGED <<initialized, resized, server>>
     \/ /\ \/ k \in unresized
           \/ k \notin resized /\ (MayDeny \/ "resize" \in Faults)
        /\ HandOver(r) /\ UNCHANGED <<ledger, server>>
  /\ UNCHANGED <<queue, stalls, thread, job, critical, plan, installed, crashes>>

-----------------------------------------------------------------------------
\* Around the invocations.

\* The container dies, or an exception leaves run_wave.
Crash(r) ==
  /\ pc[r] # "idle" /\ crashes < MaxCrashes
  /\ crashes' = crashes + 1
  /\ Goto(r, "idle") /\ my' = [my EXCEPT ![r] = Idle]
  /\ UNCHANGED <<queue, row, stalls, ledger, thread, estate>>

\* The service has worked on the message: it asks, or only says, something.
\* A question older than the ten newest messages is no longer seen.
JobReplies ==
  /\ processing /\ processing' = FALSE
  /\ asking' \in Gates \cup {asking, NoGate} /\ prose' \in {FALSE, "blocker" \in Moves}
  /\ UNCHANGED <<queue, row, stalls, ledger, estate, pc, my, crashes>>

\* answer_transform: the agent's own message on the same thread.
AgentAnswers ==
  /\ "agent" \in Callers
  /\ job \in {"executing", "awaiting"} /\ ~processing /\ asking.kind # "manual"
  /\ processing' = TRUE
  /\ UNCHANGED <<queue, row, stalls, ledger, asking, prose, estate, pc, my,
                 crashes>>

\* A person answers in the console.
PersonReplies ==
  /\ Reply
  /\ UNCHANGED <<row, stalls, ledger, thread, estate, pc, my, crashes>>

\* The job goes its way, and its CRITICAL tasks come and go.
JobMoves ==
  /\ "job" \in Moves /\ job \notin {"missing", "completed"}
  /\ job' \in JobStates \ {"missing"} /\ critical' \in BOOLEAN
  /\ UNCHANGED <<queue, row, stalls, ledger, thread, plan, installed, server,
                 pc, my, crashes>>

\* AWS Transform regenerates its recommendations.
Replan ==
  /\ "plan" \in Moves /\ plan' \in (Denial \cup {"fits"}) \ {plan}
  /\ UNCHANGED <<queue, row, stalls, ledger, thread, job, critical, installed,
                 server, pc, my, crashes>>

\* The agents are installed; the replication server runs out of credits.
Install ==
  /\ "installation" \in Moves /\ ~installed /\ installed' = TRUE
  /\ UNCHANGED <<queue, row, stalls, ledger, thread, job, critical, plan, server,
                 pc, my, crashes>>

Strain ==
  /\ "strain" \in Moves /\ server = "fine" /\ server' = "strained"
  /\ UNCHANGED <<queue, row, stalls, ledger, thread, job, critical, plan, installed,
                 pc, my, crashes>>

-----------------------------------------------------------------------------
RunStep(r) ==
  \/ Look(r) \/ Act(r) \/ Health(r)
  \/ Judge(r) \/ Latest(r) \/ Submit(r) \/ Put(r) \/ Withhold(r) \/ Resolve(r)
  \/ Send(r) \/ Hear(r) \/ HearResize(r) \/ Clear(r) \/ Choose(r)
  \/ Count(r) \/ Mark(r) \/ Fix(r) \/ Leaves(r)

Around ==
  \/ JobReplies \/ AgentAnswers \/ PersonReplies
  \/ JobMoves \/ Replan \/ Install \/ Strain

Next ==
  \/ \E r \in Run : RunStep(r) \/ Crash(r) \/ \E who \in Callers : Begin(r, who)
  \/ Around

Spec == Init /\ [][Next]_vars

\* An invocation whose container lives goes on, the service answers what it
\* was told, and the schedule fires for good.
Fairness ==
  /\ \A r \in Run : WF_vars(RunStep(r))
  /\ WF_vars(JobReplies)
  /\ SF_vars(\E r \in Run : Begin(r, "tick"))

FairSpec == Spec /\ Fairness

-----------------------------------------------------------------------------
Running ==
  {"look", "act", "health", "judge", "latest", "submit", "put", "withhold",
   "resolve", "send", "reply", "clear", "choose", "count", "mark", "fix", "return"}

Saying == {"open", "resume", "resize"} \cup Label

Locals ==
  [grants : SUBSET Gate, sees : Denial \cup {"fits"},
   over : BOOLEAN, task : Nat, goal : {"cutover", "resize"}, say : Saying,
   heard : Gates \cup {NoGate}, picked : SUBSET Label, turn : Nat, rounds : Nat,
   marked : BOOLEAN, saw : JobStates \cup {"missing", "executing"},
   end : [signal : Signals, marked : BOOLEAN]]

\* Every variable has its type, an invocation works on a question of the log
\* and on a task of the table.
TypeOK ==
  /\ QueueTyped
  /\ row \in {"REPLICATING", "ESCALATED"}
  /\ stalls \in [Question -> Nat]
  /\ initialized \in BOOLEAN /\ resized \subseteq Nat /\ unresized \subseteq Nat
  /\ asking \in Gates \cup {NoGate} /\ prose \in BOOLEAN /\ processing \in BOOLEAN
  /\ job \in JobStates \cup {"executing"} /\ critical \in BOOLEAN
  /\ plan \in Denial \cup {"fits"}
  /\ installed \in BOOLEAN /\ server \in {"fine", "strained", "sized"}
  /\ pc \in [Run -> Running \cup {"idle"}] /\ my \in [Run -> Locals]
  /\ \A r \in Run :
       /\ pc[r] \in {"choose", "count", "mark", "fix"} => my[r].heard \in Gates
       /\ pc[r] = "resolve" => my[r].task \in DOMAIN tasks
  /\ crashes \in Nat

\* Invocation r answers a question with an option.
Answering(r) ==
  pc[r] = "send" /\ pc'[r] = "reply" /\ my[r].say \in Label /\ my[r].goal = "cutover"

\* With one invocation at a time, what the run answers stands to the question
\* the thread holds when the answer arrives: one of its options, and not a
\* question that is a person's (a manual step, a destructive or irreversible
\* option, the cutover of a plan the run saw denied, an installation nobody
\* has shown).  Runs die between sending and reading, and replies come late.
AnswersStand ==
  [][\A r \in Run : Answering(r) =>
       /\ my[r].say \in asking.offers
       /\ asking.kind \notin {"manual", "danger"} /\ "delete" \notin asking.offers
       /\ my[r].sees # "fits" => "cutover" \notin asking.offers
       /\ asking.kind = "install" /\ my[r].say = "completed" => installed]_vars

\* Nothing is said to AWS Transform on behalf of a plan the contract denies
\* unless a person has said yes, to proceeding or to a re-sizing, however the
\* question was put, closed, answered or repeated ("only their approval lets
\* the cutover through", _advance_migration).
SpeaksOnConsent ==
  \A r \in Run :
    pc[r] \in {"send", "reply"} /\ my[r].sees # "fits" =>
      consented \/ (my[r].goal = "resize" /\ "resize" \in my[r].grants)

\* The wave's view of the drive is complete: whatever happens in the chat, it
\* ends with one of the signals and marks Wave!DriveJob has for that job.
EndsAsTheWaveAssumes ==
  \A r \in Run : pc[r] = "return" => my[r].end \in DriveEnds(my[r].saw)

\* The thread holds a question a run may answer, and nothing else keeps runs
\* from answering it.
Answerable ==
  /\ asking # NoGate /\ asking.kind = "plain" /\ ~prose
  /\ job = "executing" /\ ~critical /\ plan = "fits"

\* A workflow that keeps returning to one question reaches a person: the
\* rounds add up over the invocations, dead ones included, until one of them
\* escalates (STALL_ESCALATE_AFTER), after a resize or without.
GivesUp ==
  <>[]Answerable /\ <>[][asking' = asking]_vars => <>(row = "ESCALATED")

-----------------------------------------------------------------------------
\* What the documents say, and the code does not do.

\* "Instruct AWS Transform to run the cutover, but only after every server the
\* plan would launch has been checked against the contract"
\* (_advance_migration): no cutover is accepted of a plan that fails it.
CutoverOfCheckedPlan ==
  [][\A r \in Run :
       Answering(r) /\ my[r].say = "cutover" => plan = "fits"]_vars
=============================================================================
