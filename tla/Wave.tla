-------------------------------- MODULE Wave --------------------------------
(***************************************************************************)
(* One migration wave as Orchestrator.run_wave drives it                   *)
(* (agents/orchestrator.py): a resumable walk over the contract's steps.   *)
(* Every invocation of the runtime is a run that starts from the wave row, *)
(* the decision log and the step ledger, and ends in an outcome; runs of   *)
(* one wave are serial here (module WaveStore has the concurrent ones).    *)
(*                                                                         *)
(* The wave moves one application.  What the run is told, what the model   *)
(* and the estate answer and which effects fail are nondeterministic; the  *)
(* steps, guards, early returns and the order of their writes are the      *)
(* code's.  A run can die between any two actions.                         *)
(***************************************************************************)
EXTENDS Transitions, Drive, Integers, Sequences, FiniteSets

CONSTANTS
  Steps,           \* contract.steps, the order the wave walks
  OperatorInputs,  \* what a direct invocation may carry
  TickInputs,      \* what a scheduled invocation derives for itself
  Jobs,            \* states the Transform job may be found in at first
  Faults,          \* which effects may fail
  EarlyLaunch,     \* may test instances be launched before the baseline?
  MaxCrashes       \* bound on the runs that die half way

\* Whose machine a probe address belongs to: the source server's, the
\* migrated instance's, one an engineer supplied (taken at face value), or
\* "none" when nothing answers.
Target == {"none", "supplied", "source", "migrated"}
Machine == {"source", "migrated"}

\* The part of WaveInputs the walk depends on: probe targets, test diffs, the
\* DNS parameters of the cutover, the Transform workspace with its migration
\* job, a modernization target policy refuses, a readiness predicate for
\* replication, require_contract_approval.  A run brings its contract along
\* too: denies says whether policy refuses the steps it dispatches.
Inputs ==
  [probes : Target, testDiffs : BOOLEAN, params : BOOLEAN, workspace : BOOLEAN,
   modernize : BOOLEAN, awaits : BOOLEAN, gate : BOOLEAN, denies : BOOLEAN]

NoInputs ==
  [probes |-> "none", testDiffs |-> FALSE, params |-> FALSE, workspace |-> FALSE,
   modernize |-> FALSE, awaits |-> FALSE, gate |-> FALSE, denies |-> FALSE]

\* A caller's own probes are an engineer's: the code cannot tell whose
\* machine they name.
CallerInputs == {in \in Inputs : in.probes \in {"none", "supplied"}}

ASSUME ConstantsTyped ==
  /\ Steps \in Seq(STRING)
  /\ OperatorInputs \subseteq CallerInputs
  /\ TickInputs \subseteq CallerInputs
  /\ Jobs \subseteq {"missing", "running", "completed"}
  /\ EarlyLaunch \in BOOLEAN
  /\ MaxCrashes \in Nat

\* The steps that have a handler, the _step_* methods.
Handled ==
  {"precheck", "interpret", "replicate", "test", "cutover", "parity", "finops"}

\* A recorded result: whose machine it is about, and for a probe whether the
\* application differed from its baseline.
Observation == [side : Target, differs : BOOLEAN]
Unset == [side |-> "unset", differs |-> FALSE]
Saw(t, d) == [side |-> t, differs |-> d]

LedgerKey ==
  {"discover-probes-baseline", "baseline-probe", "replicate",
   "discover-probes-after", "post-migration-probe", "cutover",
   "parity-rollback"}

VARIABLES
  status, completed,  \* the wave row
  baseline,           \* decision log: machine the baseline was measured on
  appProbes,          \* decision log: its first app_probes entry
  verdict,            \* decision log: the last test verdict
  greens,             \* decision log: green test verdicts with judged > 0, as
                      \* the machines they compared
  ledger,             \* the step ledger's results for this wave
  approval,           \* the approve_derived_contract task
  dns, cutover,       \* the world: where DNS points, whether MGN cut over
  launched,           \* ... whether MGN has a launched instance
  job, replicated,    \* ... the Transform job, MGN's initial replication
  pc, step, inp,      \* the run: where it is, its step, its inputs
  targets, obs,       \* the run: probe targets, the observation in hand
  outcome,            \* what the last run returned; RAISED: an exception
  crashes

row == <<status, completed>>
log == <<baseline, appProbes, verdict, greens>>
world == <<dns, cutover, launched, job, replicated>>
run == <<pc, step, inp, targets, obs, outcome>>
vars == <<row, log, ledger, approval, world, run, crashes>>

Init ==
  /\ status = "PENDING" /\ completed = {}
  /\ baseline = "none" /\ appProbes = "none" /\ verdict = "none" /\ greens = {}
  /\ ledger = [k \in LedgerKey |-> Unset]
  /\ approval = "none"
  /\ dns = "source" /\ cutover = FALSE /\ launched = FALSE
  /\ job \in Jobs /\ replicated = FALSE
  /\ pc = "idle" /\ step = "none" /\ inp = NoInputs
  /\ targets = "none" /\ obs = Unset /\ outcome = "none"
  /\ crashes = 0

-----------------------------------------------------------------------------
\* How a run moves and ends.

\* It goes on to p with its locals as they are.
Goto(p) ==
  /\ pc' = p
  /\ UNCHANGED <<step, inp, targets, obs, outcome>>

\* It returns or raises: its locals are gone, the caller sees o.
End(o) ==
  /\ pc' = "idle" /\ outcome' = o
  /\ step' = "none" /\ inp' = NoInputs /\ targets' = "none" /\ obs' = Unset

\* Mutant: the outcome without the mark.
EscalateUnmarked ==
  /\ UNCHANGED row
  /\ End("ESCALATED")

\* _escalate_step, and escalate followed by an ESCALATE signal.
EscalateStep ==
  /\ status' = "ESCALATED"
  /\ UNCHANGED completed
  /\ End("ESCALATED")

\* A handler's _Signal.CONTINUE.
Continue == Goto("complete") /\ UNCHANGED row

\* The guard of a dispatch is Action("dispatch_step", step=...) with subject
\* "*": policy decides it alike for every step.
Permitted == ~inp.denies
MayFail(f) == ~Permitted \/ f \in Faults

Recorded(k) == ledger[k] # Unset
Record(k, r) == ledger' = [ledger EXCEPT ![k] = r]

\* The steps before the j-th are done and it is not: the loop's next step.
Reached(j) == \A k \in 1..(j - 1) : Steps[k] \in completed
NextStep(j) == j \in DOMAIN Steps /\ Steps[j] \notin completed /\ Reached(j)

\* Whose machine discovery finds the application on (side).
Serving == IF launched THEN "migrated" ELSE "source"

-----------------------------------------------------------------------------
\* Invocations: invoke and run_wave up to its loop.

\* The workspace path reads the probes back from the decision log.
Start(in) ==
  /\ pc = "idle"
  /\ pc' = IF in.gate THEN "gate" ELSE "next"
  /\ inp' = [in EXCEPT !.probes = IF in.workspace THEN appProbes ELSE @]
  /\ outcome' = "none"
  /\ UNCHANGED <<row, log, ledger, approval, world, step, targets, obs, crashes>>

Invoke == \E in \in OperatorInputs : Start(in)

\* The schedule re-invokes whatever is still in flight.
Tick == status \notin Settled /\ \E in \in TickInputs : Start(in)

\* _contract_gate.
Gate ==
  /\ pc = "gate"
  /\ \/ /\ approval = "approved"
        /\ Goto("next")
        /\ UNCHANGED <<row, approval>>
     \/ /\ approval \in {"none", "pending"}
        /\ approval' = "pending"
        /\ End("WAITING")
        /\ UNCHANGED row
     \/ /\ approval = "rejected" /\ CanMove(status, "ESCALATED")
        /\ EscalateStep
        /\ UNCHANGED approval
     \/ /\ approval = "rejected" /\ ~CanMove(status, "ESCALATED")
        /\ End("RAISED")
        /\ UNCHANGED <<row, approval>>
  /\ UNCHANGED <<log, ledger, world, crashes>>

\* advance: the row takes the step's status before its handler runs.  A step
\* without a handler is skipped.
Advance ==
  /\ pc = "next"
  /\ \E j \in DOMAIN Steps :
       /\ NextStep(j)
       /\ \/ /\ Steps[j] \in Handled /\ CanMove(status, StepStatus[Steps[j]])
             /\ status' = StepStatus[Steps[j]]
             /\ pc' = Steps[j] /\ step' = Steps[j]
             /\ UNCHANGED <<inp, targets, obs, outcome>>
          \/ /\ Steps[j] \in Handled /\ ~CanMove(status, StepStatus[Steps[j]])
             /\ End("RAISED")
             /\ UNCHANGED status
          \/ /\ Steps[j] \notin Handled
             /\ pc' = "complete" /\ step' = Steps[j]
             /\ UNCHANGED <<status, inp, targets, obs, outcome>>
  /\ UNCHANGED <<completed, log, ledger, approval, world, crashes>>

\* completed_steps.append(step), then the next turn of the loop.
Complete ==
  /\ pc = "complete"
  /\ completed' = completed \cup {step}
  /\ pc' = "next" /\ step' = "none" /\ targets' = "none" /\ obs' = Unset
  /\ UNCHANGED <<status, log, ledger, approval, world, inp, outcome, crashes>>

\* The loop is over: transition(DONE).
Finish ==
  /\ pc = "next"
  /\ \A j \in DOMAIN Steps : Steps[j] \in completed
  /\ \/ CanMove(status, "DONE") /\ status' = "DONE" /\ End("DONE")
     \/ ~CanMove(status, "DONE") /\ UNCHANGED status /\ End("RAISED")
  /\ UNCHANGED <<completed, log, ledger, approval, world, crashes>>

-----------------------------------------------------------------------------
\* precheck: _step_precheck, _baseline_apps.

\* _discovered_probes and _probe_targets: a recorded discovery is not
\* repeated, whatever has moved since; when it finds nothing, or fails, the
\* supplied probes stand in.
Discover(k) ==
  \E found \in {"none", Serving, ledger[k].side} \ {"unset"} :
    /\ \/ Recorded(k) /\ found = ledger[k].side /\ UNCHANGED ledger
       \/ /\ ~Recorded(k) /\ Permitted
          /\ Record(k, Saw(found, FALSE))
       \/ /\ ~Recorded(k) /\ MayFail("discovery")
          /\ found = "none"
          /\ UNCHANGED ledger
    /\ targets' = IF found = "none" THEN inp.probes ELSE found
    /\ appProbes' = IF appProbes = "none" THEN found ELSE appProbes

PrecheckKnown ==
  /\ pc = "precheck" /\ baseline # "none"
  /\ Continue
  /\ UNCHANGED <<log, ledger, approval, world, crashes>>

\* With nothing to probe the engineer is asked and the step completes
\* without a baseline; otherwise inputs.app_probes becomes the targets.
PrecheckDiscover ==
  /\ pc = "precheck" /\ baseline = "none"
  /\ Discover("discover-probes-baseline")
  /\ pc' = IF targets' = "none" THEN "complete" ELSE "baseline"
  /\ inp' = [inp EXCEPT !.probes = targets']
  /\ UNCHANGED <<row, baseline, verdict, greens, approval, world, step, obs,
                 outcome, crashes>>

\* Mutant: the probe's result is recorded and dropped.
BaselineDropped ==
  /\ pc = "baseline" /\ (Recorded("baseline-probe") \/ Permitted)
  /\ Record("baseline-probe", Saw(targets, FALSE))
  /\ pc' = "baselined"
  /\ UNCHANGED <<row, log, approval, world, step, inp, targets, obs, outcome, crashes>>

\* The probe is dispatched ...
BaselineProbe ==
  /\ pc = "baseline"
  /\ \/ /\ Recorded("baseline-probe")
        /\ obs' = ledger["baseline-probe"]
        /\ UNCHANGED ledger
     \/ /\ ~Recorded("baseline-probe") /\ Permitted
        /\ obs' = Saw(targets, FALSE)
        /\ Record("baseline-probe", Saw(targets, FALSE))
  /\ pc' = "baselined"
  /\ UNCHANGED <<row, log, approval, world, step, inp, targets, outcome, crashes>>

BaselineFails ==
  /\ pc = "baseline" /\ ~Recorded("baseline-probe") /\ MayFail("probe")
  /\ EscalateStep
  /\ UNCHANGED <<log, ledger, approval, world, crashes>>

\* ... and its result is logged as app_baseline.
LogBaseline ==
  /\ pc = "baselined"
  /\ baseline' = obs.side
  /\ Continue
  /\ UNCHANGED <<appProbes, verdict, greens, ledger, approval, world, crashes>>

-----------------------------------------------------------------------------
\* interpret: _step_interpret, _modernization_scenario.

\* A modernization target policy refuses marks the wave ESCALATED and the
\* rehost goes on.
Interpret ==
  /\ pc = "interpret"
  /\ \/ /\ ~inp.modernize /\ Continue
     \/ /\ inp.modernize
        /\ status' = "ESCALATED" /\ UNCHANGED completed
        /\ Goto("complete")
     \/ "interpreter" \in Faults /\ EscalateStep
  /\ UNCHANGED <<log, ledger, approval, world, crashes>>

-----------------------------------------------------------------------------
\* replicate: _step_replicate.

\* MGN is driven directly.  An error is not recorded and goes to
\* remediation, which resolves it or not.
Replicate ==
  /\ pc = "replicate" /\ ~inp.workspace
  /\ \/ /\ Recorded("replicate") \/ Permitted
        /\ Record("replicate", Saw("none", FALSE))
        /\ Goto("replicated") /\ UNCHANGED row
     \/ /\ ~Recorded("replicate") /\ Permitted /\ "replication" \in Faults
        /\ Goto("replicated") /\ UNCHANGED <<row, ledger>>
     \/ /\ ~Recorded("replicate") /\ MayFail("replication")
        /\ EscalateStep /\ UNCHANGED ledger
  /\ UNCHANGED <<log, approval, world, crashes>>

\* ready(wave_id), which is true unless the caller passes a predicate.
Ready ==
  /\ pc = "replicated"
  /\ \/ (~inp.awaits \/ replicated) /\ Continue
     \/ inp.awaits /\ ~replicated /\ End("WAITING") /\ UNCHANGED row
  /\ UNCHANGED <<log, ledger, approval, world, crashes>>

\* The ends that need nothing to go wrong, and those of a running job that take
\* a refused plan, a gate, a stall or a prerequisite: the "chat" fault.
Smooth == {Ends("WAIT", FALSE), Ends("CONTINUE", FALSE)}
MayEnd(e) ==
  \/ e \in Smooth \/ job = "missing" \/ "chat" \in Faults
  \/ job = "running" /\ e = Handover /\ ~Permitted

\* The Transform job is driven and watched, with one of the ends its state
\* allows (_drive_transform_job; TransformChat has what happens in between).
DriveJob ==
  /\ pc = "replicate" /\ inp.workspace
  /\ \E e \in DriveEnds(job) :
       /\ MayEnd(e)
       /\ status' = IF e.marked THEN "ESCALATED" ELSE status
       /\ UNCHANGED completed
       /\ \/ e.signal = "CONTINUE" /\ Goto("complete")
          \/ e.signal = "WAIT" /\ End("WAITING")
          \/ e.signal = "ESCALATE" /\ End("ESCALATED")
  /\ UNCHANGED <<log, ledger, approval, world, crashes>>

-----------------------------------------------------------------------------
\* test: _step_test, _verdict_step.

\* No baseline and no diffs: refused rather than judged on nothing.
TestCannotJudge ==
  /\ pc = "test" /\ baseline = "none" /\ ~inp.testDiffs
  /\ EscalateStep
  /\ UNCHANGED <<log, ledger, approval, world, crashes>>

\* The caller's own diffs are judged only when there is no baseline.
TestOnSuppliedDiffs ==
  /\ pc = "test" /\ baseline = "none" /\ inp.testDiffs
  /\ pc' = "verdict" /\ obs' = Saw("supplied", TRUE)
  /\ UNCHANGED <<row, log, ledger, approval, world, step, inp, targets,
                 outcome, crashes>>

TestDiscover ==
  /\ pc = "test" /\ baseline # "none"
  /\ Discover("discover-probes-after")
  /\ pc' = "after"
  /\ UNCHANGED <<row, baseline, verdict, greens, approval, world, step, inp,
                 obs, outcome, crashes>>

\* Every application still answers on its source machine.
TestOnSource ==
  /\ pc = "after" /\ targets = "source"
  /\ EscalateStep
  /\ UNCHANGED <<log, ledger, approval, world, crashes>>

\* Mutant: probed whatever machine the targets are on.
AfterProbeAnywhere ==
  /\ pc = "after" /\ Permitted
  /\ obs' = Saw(targets, TRUE)
  /\ Record("post-migration-probe", obs')
  /\ pc' = "verdict"
  /\ UNCHANGED <<row, log, approval, world, step, inp, targets, outcome, crashes>>

\* Mutant: probed again by every run, whatever is on record.
AfterProbeAgain ==
  /\ pc = "after" /\ targets # "source" /\ Permitted
  /\ \E d \in BOOLEAN : (targets = "none" => d) /\ obs' = Saw(targets, d)
  /\ pc' = "verdict"
  /\ UNCHANGED <<row, log, ledger, approval, world, step, inp, targets, outcome,
                 crashes>>

\* probe_apps over the targets; over none of them it returns no results and
\* the application has disappeared (_diff_probes).
AfterProbe ==
  /\ pc = "after" /\ targets # "source"
  /\ \/ /\ Recorded("post-migration-probe")
        /\ obs' = ledger["post-migration-probe"]
        /\ UNCHANGED ledger
     \/ /\ ~Recorded("post-migration-probe") /\ Permitted
        /\ \E d \in BOOLEAN :
             /\ targets = "none" => d
             /\ obs' = Saw(targets, d)
        /\ Record("post-migration-probe", obs')
  /\ pc' = "verdict"
  /\ UNCHANGED <<row, log, approval, world, step, inp, targets, outcome, crashes>>

AfterProbeFails ==
  /\ pc = "after" /\ targets # "source"
  /\ ~Recorded("post-migration-probe") /\ MayFail("probe")
  /\ EscalateStep
  /\ UNCHANGED <<log, ledger, approval, world, crashes>>

\* The model says green.  judged is len(diffs): the applications that differ.
TestGreen ==
  /\ pc = "verdict"
  /\ verdict' = IF obs.differs THEN "green" ELSE "empty"
  /\ greens' = IF obs.differs
                 THEN greens \cup {[was |-> baseline, now |-> obs.side]}
                 ELSE greens
  /\ Continue
  /\ UNCHANGED <<baseline, appProbes, ledger, approval, world, crashes>>

ParityGreen ==
  /\ pc = "parity"
  /\ Continue
  /\ UNCHANGED <<log, ledger, approval, world, crashes>>

\* The model says red, or something illegible: request_rollback.
Red ==
  /\ pc \in {"verdict", "parity"}
  /\ CanMove(status, "ROLLING_BACK")
  /\ status' = "ROLLING_BACK" /\ UNCHANGED completed
  /\ Goto("rolling")
  /\ UNCHANGED <<log, ledger, approval, world, crashes>>

\* Mutant: the rollback is recorded as it is sent, whatever becomes of it.
RollbackRecordedFirst ==
  /\ pc = "rolling"
  /\ \/ /\ step = "parity" /\ inp.params /\ ~Recorded("parity-rollback")
        /\ dns' = "source" \/ ("dns" \in Faults /\ UNCHANGED dns)
        /\ Record("parity-rollback", Saw("source", FALSE))
     \/ /\ step # "parity" \/ ~inp.params \/ Recorded("parity-rollback")
        /\ UNCHANGED <<dns, ledger>>
  /\ Goto("rolled")
  /\ UNCHANGED <<row, log, approval, cutover, launched, job, replicated, crashes>>

\* dispatch("{step}-rollback").  The test step passes no parameters, so its
\* rollback always ends in an error; a recorded one is not repeated; errors
\* are ignored.
Rollback ==
  /\ pc = "rolling"
  /\ \/ /\ step = "parity" /\ inp.params /\ ~Recorded("parity-rollback")
        /\ dns' = "source"
        /\ Record("parity-rollback", Saw("source", FALSE))
     \/ /\ \/ step # "parity" \/ ~inp.params \/ Recorded("parity-rollback")
           \/ "dns" \in Faults
        /\ UNCHANGED <<dns, ledger>>
  /\ Goto("rolled")
  /\ UNCHANGED <<row, log, approval, cutover, launched, job, replicated, crashes>>

\* Mutant: the run is over, the row still ROLLING_BACK.
RolledBackUnsaved ==
  /\ pc = "rolled"
  /\ UNCHANGED row
  /\ verdict' = IF step = "test" THEN "red" ELSE verdict
  /\ End("ROLLED_BACK")
  /\ UNCHANGED <<baseline, appProbes, greens, ledger, approval, world, crashes>>

\* ROLLED_BACK, and only then is the red verdict logged.
RolledBack ==
  /\ pc = "rolled"
  /\ status' = "ROLLED_BACK" /\ UNCHANGED completed
  /\ verdict' = IF step = "test" THEN "red" ELSE verdict
  /\ End("ROLLED_BACK")
  /\ UNCHANGED <<baseline, appProbes, greens, ledger, approval, world, crashes>>

-----------------------------------------------------------------------------
\* cutover: _step_cutover and the dispatcher's _cutover.

\* Mutant: a refused cutover is passed over.
CutoverPassedOver ==
  /\ pc = "cutover"
  /\ ~Permitted \/ (~Recorded("cutover") /\ greens = {})
  /\ Continue
  /\ UNCHANGED <<log, ledger, approval, world, crashes>>

\* Policy denies, or the dispatcher finds no green verdict in the log.
CutoverRefused ==
  /\ pc = "cutover"
  /\ ~Permitted \/ (~Recorded("cutover") /\ greens = {})
  /\ EscalateStep
  /\ UNCHANGED <<log, ledger, approval, world, crashes>>

\* Already recorded, or the DNS change fails before anything moved: the step
\* goes on either way, its result is not looked at.
CutoverSkipped ==
  /\ pc = "cutover" /\ Permitted
  /\ \/ Recorded("cutover")
     \/ greens # {} /\ (~inp.params \/ "dns" \in Faults)
  /\ Continue
  /\ UNCHANGED <<log, ledger, approval, world, crashes>>

\* Mutant: the dispatcher does not look for a green verdict.
FlipUnjudged ==
  /\ pc = "cutover" /\ Permitted /\ ~Recorded("cutover") /\ inp.params
  /\ dns' = "target"
  /\ Goto("start")
  /\ UNCHANGED <<row, log, ledger, approval, cutover, launched, job, replicated,
                 crashes>>

\* Mutant: the dispatcher does not re-evaluate policy.
FlipUnguarded ==
  /\ pc = "cutover" /\ ~Recorded("cutover") /\ greens # {} /\ inp.params
  /\ dns' = "target"
  /\ Goto("start")
  /\ UNCHANGED <<row, log, ledger, approval, cutover, launched, job, replicated,
                 crashes>>

FlipDns ==
  /\ pc = "cutover" /\ Permitted
  /\ ~Recorded("cutover") /\ greens # {} /\ inp.params
  /\ dns' = "target"
  /\ Goto("start")
  /\ UNCHANGED <<row, log, ledger, approval, cutover, launched, job, replicated,
                 crashes>>

\* start_cutover launches the cutover instances; if it fails nothing is
\* recorded and the step goes on.
StartCutover ==
  /\ pc = "start"
  /\ \/ /\ cutover' = TRUE /\ launched' = TRUE
        /\ Record("cutover", Saw("migrated", FALSE))
     \/ "mgn" \in Faults /\ UNCHANGED <<cutover, launched, ledger>>
  /\ Continue
  /\ UNCHANGED <<log, approval, dns, job, replicated, crashes>>

\* finops: _step_finops records a variance.
Finops ==
  /\ pc = "finops"
  /\ Continue
  /\ UNCHANGED <<log, ledger, approval, world, crashes>>

-----------------------------------------------------------------------------
\* What happens around the runs.

\* The runtime's container dies, or an exception leaves run_wave.
Crash ==
  /\ pc # "idle" /\ crashes < MaxCrashes
  /\ crashes' = crashes + 1
  /\ End("RAISED")
  /\ UNCHANGED <<row, log, ledger, approval, world>>

\* The agent's escalate tool: _mark_escalated is best effort.
AgentEscalate ==
  /\ pc = "idle" /\ "ESCALATED" \in Targets(status)
  /\ status' = "ESCALATED"
  /\ UNCHANGED <<completed, log, ledger, approval, world, run, crashes>>

\* A person resolves the contract gate.
ResolveGate ==
  /\ approval = "pending"
  /\ approval' \in {"approved", "rejected"}
  /\ UNCHANGED <<row, log, ledger, world, run, crashes>>

\* An engineer's probe spec reaches the decision log.
EngineerAnswers ==
  /\ pc = "idle" /\ appProbes = "none"
  /\ appProbes' = "supplied"
  /\ UNCHANGED <<row, baseline, verdict, greens, ledger, approval, world, run,
                 crashes>>

\* Somebody launches the test instances: once the precheck had its chance to
\* measure the source machines, unless EarlyLaunch.
LaunchTest ==
  /\ ~launched
  /\ EarlyLaunch \/ baseline # "none" \/ "precheck" \in completed
  /\ launched' = TRUE
  /\ UNCHANGED <<row, log, ledger, approval, dns, cutover, job, replicated, run,
                 crashes>>

\* _terminate_test_instances never touches an instance of a cutover.
TerminateTest ==
  /\ launched /\ ~cutover
  /\ launched' = FALSE
  /\ UNCHANGED <<row, log, ledger, approval, dns, cutover, job, replicated, run,
                 crashes>>

JobCompletes ==
  /\ job = "running"
  /\ job' = "completed"
  /\ UNCHANGED <<row, log, ledger, approval, dns, cutover, launched, replicated,
                 run, crashes>>

ReplicationFinishes ==
  /\ ~replicated
  /\ replicated' = TRUE
  /\ UNCHANGED <<row, log, ledger, approval, dns, cutover, launched, job, run,
                 crashes>>

-----------------------------------------------------------------------------
\* The steps of a run, and of what surrounds it.
RunStep ==
  \/ Gate \/ Advance \/ Complete \/ Finish
  \/ PrecheckKnown \/ PrecheckDiscover
  \/ BaselineProbe \/ BaselineFails \/ LogBaseline
  \/ Interpret
  \/ Replicate \/ Ready \/ DriveJob
  \/ TestCannotJudge \/ TestOnSuppliedDiffs \/ TestDiscover
  \/ TestOnSource \/ AfterProbe \/ AfterProbeFails
  \/ TestGreen \/ ParityGreen \/ Red \/ Rollback \/ RolledBack
  \/ CutoverRefused \/ CutoverSkipped \/ FlipDns \/ StartCutover
  \/ Finops

Around ==
  \/ Crash \/ AgentEscalate \/ ResolveGate \/ EngineerAnswers
  \/ LaunchTest \/ TerminateTest \/ JobCompletes \/ ReplicationFinishes

Next == Invoke \/ Tick \/ RunStep \/ Around

Spec == Init /\ [][Next]_vars

\* A run takes its next step while its container lives; the schedule fires
\* every five minutes, so that operators who keep invoking the wave never
\* keep it out for good; the services finish what they started.
Fairness ==
  /\ WF_vars(RunStep)
  /\ SF_vars(Tick)
  /\ WF_vars(JobCompletes)
  /\ WF_vars(ReplicationFinishes)

FairSpec == Spec /\ Fairness

-----------------------------------------------------------------------------
PC ==
  {"idle", "gate", "next", "complete", "precheck", "baseline", "baselined",
   "interpret", "replicate", "replicated", "test", "after", "verdict",
   "parity", "rolling", "rolled", "cutover", "start", "finops"}

StepNames == {Steps[j] : j \in DOMAIN Steps}

RowTyped == status \in Status /\ completed \subseteq StepNames

LogTyped ==
  /\ baseline \in Target /\ appProbes \in Target
  /\ verdict \in {"none", "green", "empty", "red"}
  /\ greens \subseteq [was : Target, now : Target]

LedgerTyped == ledger \in [LedgerKey -> Observation \cup {Unset}]

WorldTyped ==
  /\ dns \in {"source", "target"}
  /\ cutover \in BOOLEAN /\ launched \in BOOLEAN /\ replicated \in BOOLEAN
  /\ job \in {"missing", "running", "completed"}

Outcome == {"none", "DONE", "WAITING", "ESCALATED", "ROLLED_BACK", "RAISED"}

\* A run that is inside a step has one of the contract's, and what it logs
\* or judges is an observation.
RunTyped ==
  /\ pc \in PC /\ step \in {"none"} \cup StepNames /\ inp \in Inputs
  /\ pc \notin {"idle", "gate", "next"} => step \in StepNames
  /\ targets \in Target /\ obs \in Observation \cup {Unset} /\ outcome \in Outcome
  /\ pc \in {"baselined", "verdict"} => obs \in Observation

\* Every variable has its type.
TypeOK ==
  /\ RowTyped /\ LogTyped /\ LedgerTyped /\ WorldTyped /\ RunTyped
  /\ approval \in {"none", "pending", "approved", "rejected"}
  /\ crashes \in Nat

\* Traffic moves and MGN cuts over only for a wave whose log holds a green
\* test verdict judged on a difference, however its runs died, were retried
\* or changed inputs on the way (handler.py, _green_test_verdict).
CutoverAfterGreenTest ==
  dns = "target" \/ cutover => greens # {}

\* No green verdict that opens the cutover was earned by comparing a machine
\* with itself: its baseline was not measured on the migrated instance and
\* its after-probe not on the source (orchestrator.py, _probe_targets).
GreenComparesTwoMachines ==
  \A g \in greens : g.was # "migrated" /\ g.now # "source"

\* The cutover is never started on the strength of an older verdict than a
\* later one that said red or judged nothing: _green_test_verdict takes any
\* green in the log, the state machine is what rules this out.
CutoverOnLatestVerdict ==
  [][~cutover /\ cutover' => verdict = "green"]_vars

\* A wave that reports DONE walked every step, and if it has a cutover step
\* then a green verdict let it through.
DoneMeansJudged ==
  status = "DONE" =>
    \A j \in DOMAIN Steps :
      Steps[j] \in completed /\ (Steps[j] = "cutover" => greens # {})

\* An escalation marks the row in the step that returns it, so that the
\* schedule leaves the wave alone ("an escalation that leaves the wave running
\* is not an escalation", orchestrator.py), on every path but the drive of the
\* Transform job, which has ends without a mark (Drive).
EscalatedIsMarked ==
  [][outcome' = "ESCALATED" /\ outcome # "ESCALATED" =>
       status' = "ESCALATED" \/ (step = "replicate" /\ inp.workspace)]_vars

\* A parity rollback that has been carried out stands: no later run, retry or
\* replayed cutover sends the traffic to the target again ("The DNS flips back
\* to the original servers", docs/how-it-works.md).
RollbackStands == Recorded("parity-rollback") => dns = "source"

\* A run whose contract denies its steps carries out none of them, whatever
\* earlier runs left to go on from (verdicts, records, a finished job): it
\* records nothing new, repoints and cuts over nothing.  A rollback, which
\* is dispatched without a guard, is all it may do (_verdict_step).
PolicyHolds ==
  [][inp.denies =>
       /\ cutover' = cutover /\ dns' \in {dns, "source"}
       /\ \A k \in LedgerKey \ {"parity-rollback"} : ledger'[k] = ledger[k]]_vars

\* A wave whose parity rollback has been carried out is never reported DONE
\* ("A red verdict at test/parity triggers a rollback and returns
\* ROLLED_BACK", README.md), however it is handed over and invoked again.
RollbackIsFinal == status = "DONE" => ~Recorded("parity-rollback")

\* The row as its readers know it.
ROW == INSTANCE WaveRow WITH done <- completed

\* Whatever runs find, skip, escalate or leave half done, the row moves by the
\* table and takes one completed step at a time, in the contract's order and
\* in that step's own status: also where a handler escalates or ends a
\* rollback without asking the table.
ImplementsRow == ROW!Spec

\* Every wave in flight settles, again and again: it ends, or it is in a
\* person's hands.
Settles == []<>(status \in Settled)

-----------------------------------------------------------------------------
\* What the documents say, and the code does not do.

\* "the step dispatcher flips the DNS records ... and tells MGN to cut over"
\* (docs/how-it-works.md): a wave that is DONE with its cutover step complete
\* has done both.
DoneMeansCutOver ==
  status = "DONE" /\ "cutover" \in completed => dns = "target" /\ cutover
=============================================================================
