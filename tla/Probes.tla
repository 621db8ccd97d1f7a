-------------------------------- MODULE Probes --------------------------------
(***************************************************************************)
(* What the cutover is judged against: the sanity check of several         *)
(* applications before and after the migration (agents/orchestrator.py,    *)
(* _step_precheck and _step_test; dispatcher/handler.py, discovery and     *)
(* probe).  Module Wave walks one wave with one application through all    *)
(* its steps; here runs of the wave overlap, an application has several    *)
(* machines, and only these two steps are looked at.                       *)
(*                                                                         *)
(* The dispatcher is taken at what StepLedger shows of it: a key has one   *)
(* result, and a call is answered with it.                                 *)
(***************************************************************************)
EXTENDS Integers, Sequences, FiniteSets

CONSTANTS
  Run,       \* invocations of the wave that may overlap
  Host, App, \* source servers, and the MGN applications that group them
  AppOf,     \* the application of each server
  Look,      \* what a probe may see: status, health and fingerprint
  Given,     \* addresses an engineer may supply with an invocation
  Faults,    \* which of discovery and probe may fail or be refused
  MaxDeaths  \* bound on the runs that die half way

\* An address to probe: a server's, the migrated instance's, or one somebody
\* supplied, of which the code does not know whose it is.
Side == {"source", "migrated", "supplied"}
Target == [host : Host, side : Side]

ASSUME ConstantsTyped ==
  /\ AppOf \in [Host -> App]
  /\ "none" \notin Look
  /\ Given \subseteq [host : Host, side : {"supplied"}]
  /\ MaxDeaths \in Nat

Phase == {"baseline", "after"}

\* The result of probe_apps: where it looked, and per application what it saw
\* at the last of its addresses (_diff_probes keeps one result by name).
Unmeasured == [side |-> "none", look |-> "none"]
Seen == [side : Side, look : Look]
Result == [on : SUBSET Target, of : [App -> Seen \cup {Unmeasured}]]
Nothing == [on |-> {}, of |-> [a \in App |-> Unmeasured]]

VARIABLES
  launched,   \* the servers MGN has a launched instance of
  found,      \* ledger: the recorded discovery of each phase, if any
  probed,     \* ledger: the recorded probe of each phase, if any
  appProbes,  \* decision log: its first app_probes entry
  baselines,  \* decision log: its app_baseline entries
  opened,     \* decision log: what the verdicts compared that are green and
              \* judged on a difference, those that open the cutover
  asked,      \* the app_probe_spec task has been submitted
  prechecked, tested,  \* the wave row: the steps that are complete
  pc, spec, targets, result,  \* each run and its locals
  deaths

ledger == <<found, probed>>
log == <<appProbes, baselines, opened>>
row == <<prechecked, tested>>
run == <<pc, spec, targets, result>>
vars == <<launched, ledger, log, asked, row, run, deaths>>

Init ==
  /\ launched = {}
  /\ found = [p \in Phase |-> {}] /\ probed = [p \in Phase |-> {}]
  /\ appProbes = {} /\ baselines = <<>> /\ opened = {}
  /\ asked = FALSE /\ prechecked = FALSE /\ tested = FALSE
  /\ pc = [r \in Run |-> "idle"]
  /\ spec = [r \in Run |-> {}] /\ targets = [r \in Run |-> {}]
  /\ result = [r \in Run |-> Nothing]
  /\ deaths = 0

-----------------------------------------------------------------------------
\* How a run moves and ends.

Goto(r, p) ==
  /\ pc' = [pc EXCEPT ![r] = p]
  /\ UNCHANGED <<spec, targets, result>>

\* It returns, escalates or dies: its locals are gone.
End(r) ==
  /\ pc' = [pc EXCEPT ![r] = "idle"]
  /\ spec' = [spec EXCEPT ![r] = {}]
  /\ targets' = [targets EXCEPT ![r] = {}]
  /\ result' = [result EXCEPT ![r] = Nothing]

\* inputs.app_probes is the caller's, or the log's first entry: a derived one
\* counts as much as an engineer's (_answered_probe_spec).
Invoke(r) ==
  /\ pc[r] = "idle" /\ ~tested
  /\ \E s \in {appProbes} \cup SUBSET Given : spec' = [spec EXCEPT ![r] = s]
  /\ pc' = [pc EXCEPT ![r] = IF prechecked THEN "between" ELSE "precheck"]
  /\ UNCHANGED <<launched, ledger, log, asked, row, targets, result, deaths>>

\* The steps between the two, and those that end the run there.
Walk(r) ==
  /\ pc[r] = "between"
  /\ Goto(r, "test")
  /\ UNCHANGED <<launched, ledger, log, asked, row, deaths>>

Leave(r) ==
  /\ pc[r] = "between"
  /\ End(r)
  /\ UNCHANGED <<launched, ledger, log, asked, row, deaths>>

-----------------------------------------------------------------------------
\* discover_probe_targets and probe_apps.

Recorded(s) == s # {}

\* Mutant: a server without a launched instance has no side.
ServingUnnamed(h) ==
  [host |-> h, side |-> IF h \in launched THEN "migrated" ELSE "none"]

\* The machine behind a server: the launched instance when there is one.
Serving(h) == [host |-> h, side |-> IF h \in launched THEN "migrated" ELSE "source"]

\* One address per server that answers, whichever those are.
Discovery == {{Serving(h) : h \in up} : up \in SUBSET Host}

\* _discovered_probes: a recorded discovery is not repeated, whatever has
\* moved since; a failed one is not recorded.  What it found is logged as
\* app_probes unless that is nothing.
Discover(p, got) ==
  /\ \/ Recorded(found[p]) /\ got \in found[p] /\ UNCHANGED found
     \/ /\ ~Recorded(found[p])
        /\ got \in Discovery
        /\ found' = [found EXCEPT ![p] = {got}]
     \/ /\ ~Recorded(found[p]) /\ "discovery" \in Faults
        /\ got = {}
        /\ UNCHANGED found
  /\ appProbes' = IF appProbes = {} THEN got ELSE appProbes

\* _probe_targets: with nothing found the supplied entries stand in.
Resolved(r, got) == IF got = {} THEN spec[r] ELSE got

\* Of an application's addresses the last one's result counts.
Sees(on, of) ==
  \A a \in App :
    LET its == {t \in on : AppOf[t.host] = a} IN
    IF its = {} THEN of[a] = Unmeasured
    ELSE \E t \in its, l \in Look : of[a] = [side |-> t.side, look |-> l]

\* What probe_apps may return for the addresses on.
Probing(on) ==
  {[on |-> on, of |-> f] : f \in {f \in [App -> Seen \cup {Unmeasured}] : Sees(on, f)}}

\* Mutant: the probe is not keyed by what it serves and looks again.
ProbeAgain(r, p) ==
  \E s \in Probing(targets[r]) :
    /\ probed' = [probed EXCEPT ![p] = {s}]
    /\ targets' = [targets EXCEPT ![r] = {}] /\ result' = [result EXCEPT ![r] = s]

\* dispatch("...-probe", "probe_apps"): the recorded result, whatever the
\* addresses now are, or a new one.
Probe(r, p) ==
  \E s \in IF Recorded(probed[p]) THEN probed[p] ELSE Probing(targets[r]) :
    /\ probed' = [probed EXCEPT ![p] = {s}]
    /\ targets' = [targets EXCEPT ![r] = {}] /\ result' = [result EXCEPT ![r] = s]

ProbeFails(r, p) ==
  /\ ~Recorded(probed[p]) /\ "probe" \in Faults
  /\ End(r)
  /\ UNCHANGED <<launched, ledger, log, asked, row, deaths>>

-----------------------------------------------------------------------------
\* precheck: _baseline_apps.

PrecheckKnown(r) ==
  /\ pc[r] = "precheck" /\ baselines # <<>>
  /\ Goto(r, "complete")
  /\ UNCHANGED <<launched, ledger, log, asked, row, deaths>>

\* The log is read; what follows is not conditional on it any more.
PrecheckUnknown(r) ==
  /\ pc[r] = "precheck" /\ baselines = <<>>
  /\ Goto(r, "resolve")
  /\ UNCHANGED <<launched, ledger, log, asked, row, deaths>>

\* With nothing to probe the engineer is asked, and the step is complete
\* without a baseline; otherwise inputs.app_probes becomes the targets.
BaselineTargets(r) ==
  /\ pc[r] = "resolve"
  /\ \E got \in found["baseline"] \cup Discovery :
       /\ Discover("baseline", got)
       /\ LET on == Resolved(r, got) IN
          /\ targets' = [targets EXCEPT ![r] = on]
          /\ spec' = [spec EXCEPT ![r] = on]
          /\ asked' = (asked \/ on = {})
          /\ pc' = [pc EXCEPT ![r] = IF on = {} THEN "complete" ELSE "baseline"]
  /\ UNCHANGED <<launched, probed, baselines, opened, row, result, deaths>>

BaselineProbe(r) ==
  /\ pc[r] = "baseline"
  /\ Probe(r, "baseline")
  /\ pc' = [pc EXCEPT ![r] = "baselined"]
  /\ UNCHANGED <<launched, found, log, asked, row, spec, deaths>>

BaselineFails(r) == pc[r] = "baseline" /\ ProbeFails(r, "baseline")

LogBaseline(r) ==
  /\ pc[r] = "baselined"
  /\ baselines' = Append(baselines, result[r])
  /\ pc' = [pc EXCEPT ![r] = "complete"] /\ result' = [result EXCEPT ![r] = Nothing]
  /\ UNCHANGED <<launched, ledger, appProbes, opened, asked, row, spec, targets,
                 deaths>>

Complete(r) ==
  /\ pc[r] = "complete"
  /\ prechecked' = TRUE
  /\ Goto(r, "between")
  /\ UNCHANGED <<launched, ledger, log, asked, tested, deaths>>

-----------------------------------------------------------------------------
\* test: _step_test and _verdict_step.

\* Without a baseline the wave is escalated (or judged on diffs its caller
\* brings along: module Wave).
TestUnmeasured(r) ==
  /\ pc[r] = "test" /\ baselines = <<>>
  /\ End(r)
  /\ UNCHANGED <<launched, ledger, log, asked, row, deaths>>

AfterTargets(r) ==
  /\ pc[r] = "test" /\ baselines # <<>>
  /\ \E got \in found["after"] \cup Discovery :
       /\ Discover("after", got)
       /\ targets' = [targets EXCEPT ![r] = Resolved(r, got)]
  /\ pc' = [pc EXCEPT ![r] = "after"]
  /\ UNCHANGED <<launched, probed, baselines, opened, asked, row, spec, result, deaths>>

\* The addresses the agent resolved itself.
Derived(on) == {t \in on : t.side # "supplied"}

\* Mutant: anything that was launched will do.
NothingLaunched(on) == Derived(on) # {} /\ launched = {}

\* The test is refused when every address the agent resolved is the source's.
AllOnSource(on) == Derived(on) # {} /\ \A t \in Derived(on) : t.side = "source"

TestOnSource(r) ==
  /\ pc[r] = "after" /\ AllOnSource(targets[r])
  /\ End(r)
  /\ UNCHANGED <<launched, ledger, log, asked, row, deaths>>

AfterProbe(r) ==
  /\ pc[r] = "after" /\ ~AllOnSource(targets[r])
  /\ Probe(r, "after")
  /\ pc' = [pc EXCEPT ![r] = "verdict"]
  /\ UNCHANGED <<launched, found, log, asked, row, spec, deaths>>

AfterFails(r) ==
  pc[r] = "after" /\ ~AllOnSource(targets[r]) /\ ProbeFails(r, "after")

\* _diff_probes: the applications that appeared, disappeared or look different.
Diffs(was, now) == {a \in App : was.of[a].look # now.of[a].look}

\* The model judges; whatever it says, the test is over: the wave goes on or
\* is rolled back.
Judge(r) ==
  /\ pc[r] = "verdict"
  /\ LET was == Head(baselines) IN
     opened' \in {opened,
                  IF Diffs(was, result[r]) = {} THEN opened
                  ELSE opened \cup {[was |-> was, now |-> result[r]]}}
  /\ tested' = TRUE
  /\ End(r)
  /\ UNCHANGED <<launched, ledger, appProbes, baselines, asked, prechecked, deaths>>

-----------------------------------------------------------------------------
\* What happens around the runs.

\* Test instances are launched once there is a baseline on the log, server by
\* server or together, and may be terminated again.
Launch ==
  /\ baselines # <<>>
  /\ \E hs \in SUBSET (Host \ launched) \ {{}} : launched' = launched \cup hs
  /\ UNCHANGED <<ledger, log, asked, row, run, deaths>>

Terminate ==
  /\ \E hs \in SUBSET launched \ {{}} : launched' = launched \ hs
  /\ UNCHANGED <<ledger, log, asked, row, run, deaths>>

Die(r) ==
  /\ pc[r] # "idle" /\ deaths < MaxDeaths
  /\ deaths' = deaths + 1
  /\ End(r)
  /\ UNCHANGED <<launched, ledger, log, asked, row>>

RunStep(r) ==
  \/ Invoke(r) \/ Walk(r) \/ Leave(r)
  \/ PrecheckKnown(r) \/ PrecheckUnknown(r)
  \/ BaselineTargets(r) \/ BaselineProbe(r) \/ BaselineFails(r)
  \/ LogBaseline(r) \/ Complete(r)
  \/ TestUnmeasured(r) \/ AfterTargets(r) \/ TestOnSource(r)
  \/ AfterProbe(r) \/ AfterFails(r) \/ Judge(r)
  \/ Die(r)

Next == Launch \/ Terminate \/ \E r \in Run : RunStep(r)

Spec == Init /\ [][Next]_vars

-----------------------------------------------------------------------------
PC ==
  {"idle", "precheck", "resolve", "baseline", "baselined", "complete",
   "between", "test", "after", "verdict"}

LedgerTyped ==
  /\ found \in [Phase -> SUBSET (SUBSET Target)]
  /\ probed \in [Phase -> SUBSET Result]

LogTyped ==
  /\ appProbes \in SUBSET Target /\ baselines \in Seq(Result)
  /\ opened \subseteq [was : Result, now : Result]

RunTyped ==
  /\ pc \in [Run -> PC]
  /\ spec \in [Run -> SUBSET Target] /\ targets \in [Run -> SUBSET Target]
  /\ result \in [Run -> Result]

\* Every variable has its type.
TypeOK ==
  /\ launched \subseteq Host /\ LedgerTyped /\ LogTyped /\ RunTyped
  /\ asked \in BOOLEAN /\ prechecked \in BOOLEAN /\ tested \in BOOLEAN
  /\ deaths \in Nat

\* The wave has one baseline: runs that overlap, or take over from one that
\* died, log the same observation, and none re-measures a system that has been
\* migrated since ("so a resumed wave keeps comparing against the original
\* baseline", orchestrator.py, _baseline).
OneBaseline == \A i, j \in DOMAIN baselines : baselines[i] = baselines[j]

\* The runs that judge the wave judge the same two observations: no second run
\* opens the cutover by looking once more.
OneComparison == \A v, w \in opened : v = w

\* No baseline is a look at a migrated machine: also a run that read the log
\* before another one's baseline was on it, and discovers after the launch,
\* logs what was measured before it (orchestrator.py, _baseline_apps).
BeforeIsBefore ==
  \A i \in DOMAIN baselines : \A t \in baselines[i].on : t.side # "migrated"

\* A verdict that opens the cutover looked at a migrated machine, or only at
\* addresses somebody supplied, whichever run resolved them and whichever
\* probed: "probing it again would compare the source with itself"
\* (orchestrator.py, _step_test).
SomethingMoved ==
  \A v \in opened :
    Derived(v.now.on) # {} => \E t \in v.now.on : t.side = "migrated"
=============================================================================
