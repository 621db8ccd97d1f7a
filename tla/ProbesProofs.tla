---------------------------- MODULE ProbesProofs ----------------------------
(***************************************************************************)
(* What the cutover is judged against is one observation from before the   *)
(* launch and one from after it, for any number of applications, servers   *)
(* and overlapping runs, dead ones included.                               *)
(***************************************************************************)
EXTENDS Probes, TLAPS

NotMigrated(on) == \A t \in on : t.side # "migrated"

\* An after-probe that is not of the source alone.
Shown(on) == Derived(on) # {} => \E t \in on : t.side = "migrated"

\* A key has one result.
OneRecord == \A p \in Phase : \A s, t \in probed[p] : s = t

\* What is logged, what a run is about to log or judge, and what was judged
\* are the results on record; a run past its discovery has a baseline.
InLog == \A i \in DOMAIN baselines : baselines[i] \in probed["baseline"]
InHand ==
  \A r \in Run :
    /\ pc[r] = "baselined" => result[r] \in probed["baseline"]
    /\ pc[r] = "verdict" => result[r] \in probed["after"]
    /\ pc[r] \in {"after", "verdict"} => baselines # <<>>
InOpened ==
  \A v \in opened : v.was \in probed["baseline"] /\ v.now \in probed["after"]

\* Until a baseline is on record nothing is launched and no address known to
\* anybody is a migrated machine's.
Early ==
  probed["baseline"] = {} =>
    /\ launched = {} /\ NotMigrated(appProbes)
    /\ \A p \in Phase : \A got \in found[p] : NotMigrated(got)
    /\ \A r \in Run : NotMigrated(spec[r]) /\ NotMigrated(targets[r])

Before == \A s \in probed["baseline"] : NotMigrated(s.on)
After == \A s \in probed["after"] : Shown(s.on)

IInv ==
  /\ TypeOK /\ OneRecord /\ InLog /\ InHand /\ InOpened
  /\ Early /\ Before /\ After

-----------------------------------------------------------------------------
\* Discovery resolves servers to addresses ...
LEMMA DiscoveryTyped == Discovery \subseteq SUBSET Target
  BY DEF Discovery, Serving, Target, Side

\* ... and a probe of addresses is a result.
LEMMA ProbingTyped ==
  ASSUME NEW on \in SUBSET Target
  PROVE  \A s \in Probing(on) : s \in Result /\ s.on = on
  BY DEF Probing, Result

LEMMA NothingTyped == Nothing \in Result
  BY DEF Nothing, Result

\* What a discovery changes has its type.
LEMMA DiscoverTyped ==
  ASSUME TypeOK, NEW p \in Phase, NEW got \in found[p] \cup Discovery,
         Discover(p, got)
  PROVE  /\ got \in SUBSET Target
         /\ found' \in [Phase -> SUBSET (SUBSET Target)]
         /\ appProbes' \in SUBSET Target
<1>1. got \in SUBSET Target
  BY DiscoveryTyped DEF TypeOK, LedgerTyped
<1> QED
  BY <1>1 DEF Discover, TypeOK, LedgerTyped, LogTyped

\* A probe leaves one result on record, and hands it out: the one that was
\* there, or a new one of the run's targets.
LEMMA ProbeRecords ==
  ASSUME TypeOK, OneRecord, NEW r \in Run, NEW p \in Phase, Probe(r, p)
  PROVE  /\ result' \in [Run -> Result] /\ targets' \in [Run -> SUBSET Target]
         /\ probed' \in [Phase -> SUBSET Result]
         /\ result'[r] \in probed'[p]
         /\ targets'[r] = {}
         /\ \A q \in Run \ {r} : result'[q] = result[q] /\ targets'[q] = targets[q]
         /\ \A q \in Phase \ {p} : probed'[q] = probed[q]
         /\ probed[p] \subseteq probed'[p]
         /\ \A s, t \in probed'[p] : s = t
         /\ \A s \in probed'[p] :
              s \in probed[p] \/ (probed[p] = {} /\ s.on = targets[r])
<1>1. PICK s \in IF Recorded(probed[p]) THEN probed[p] ELSE Probing(targets[r]) :
        /\ probed' = [probed EXCEPT ![p] = {s}]
        /\ targets' = [targets EXCEPT ![r] = {}]
        /\ result' = [result EXCEPT ![r] = s]
  BY DEF Probe
<1>2. targets[r] \in SUBSET Target
  BY DEF TypeOK, RunTyped
<1>3. s \in Result /\ (s \in probed[p] \/ (probed[p] = {} /\ s.on = targets[r]))
  BY <1>1, <1>2, ProbingTyped DEF Recorded, TypeOK, LedgerTyped
<1>4. \A t \in probed[p] : t = s
  BY <1>1 DEF Recorded, OneRecord
<1> QED
  BY <1>1, <1>3, <1>4 DEF TypeOK, LedgerTyped, RunTyped

\* A log that is not empty has a first entry, which is on record.
LEMMA HeadRecorded ==
  ASSUME TypeOK, InLog, baselines # <<>>
  PROVE  1 \in DOMAIN baselines /\ Head(baselines) \in probed["baseline"]
  BY DEF TypeOK, LogTyped, InLog

\* A run that ends, or goes on with its locals as they are, holds nothing new.
LEMMA EndTyped ==
  ASSUME RunTyped, NEW r \in Run, End(r)
  PROVE  RunTyped'
  BY NothingTyped DEF RunTyped, End, PC

LEMMA GotoTyped ==
  ASSUME RunTyped, NEW r \in Run, NEW p \in PC, Goto(r, p)
  PROVE  RunTyped'
  BY DEF RunTyped, Goto

-----------------------------------------------------------------------------
\* The steps that change neither the ledger, the log nor what is launched.
Quiet(r) ==
  \/ Invoke(r) \/ Walk(r) \/ Leave(r)
  \/ PrecheckKnown(r) \/ PrecheckUnknown(r)
  \/ BaselineFails(r) \/ Complete(r)
  \/ TestUnmeasured(r) \/ TestOnSource(r) \/ AfterFails(r) \/ Die(r)

LEMMA QuietFrame ==
  ASSUME TypeOK, NEW r \in Run, Quiet(r)
  PROVE  /\ TypeOK'
         /\ UNCHANGED <<launched, ledger, log>>
         /\ targets'[r] \in {targets[r], {}}
         /\ spec'[r] \in {spec[r], {}, appProbes} \/ spec'[r] \in SUBSET Given
         /\ pc'[r] \notin {"baselined", "after", "verdict"}
         /\ \A q \in Run \ {r} :
              /\ pc'[q] = pc[q] /\ spec'[q] = spec[q]
              /\ targets'[q] = targets[q] /\ result'[q] = result[q]
<1>1. CASE Invoke(r)
  <2>1. PICK s \in {appProbes} \cup SUBSET Given : spec' = [spec EXCEPT ![r] = s]
    BY <1>1 DEF Invoke
  <2>2. s \in SUBSET Target
    BY ConstantsTyped DEF TypeOK, LogTyped, Target, Side
  <2> QED
    BY <1>1, <2>1, <2>2 DEF Invoke, TypeOK, LedgerTyped, LogTyped, RunTyped, PC,
       ledger, log, row
<1>2. CASE Walk(r) \/ PrecheckKnown(r) \/ PrecheckUnknown(r) \/ Complete(r)
  <2>1. \E p \in PC \ {"baselined", "after", "verdict"} : Goto(r, p)
    BY <1>2 DEF Walk, PrecheckKnown, PrecheckUnknown, Complete, PC
  <2>2. RunTyped'
    BY <2>1, GotoTyped DEF TypeOK
  <2> QED
    BY <1>2, <2>1, <2>2 DEF Walk, PrecheckKnown, PrecheckUnknown, Complete, Goto,
       TypeOK, LedgerTyped, LogTyped, RunTyped, ledger, log, row
<1>3. CASE \/ Leave(r) \/ BaselineFails(r) \/ TestUnmeasured(r)
           \/ TestOnSource(r) \/ AfterFails(r) \/ Die(r)
  <2>1. End(r) /\ UNCHANGED <<launched, ledger, log, asked, row>>
        /\ deaths' \in {deaths, deaths + 1}
    BY <1>3 DEF Leave, BaselineFails, ProbeFails, TestUnmeasured, TestOnSource,
       AfterFails, Die
  <2>2. RunTyped'
    BY <2>1, EndTyped DEF TypeOK
  <2> QED
    BY <2>1, <2>2 DEF End, TypeOK, LedgerTyped, LogTyped, RunTyped, ledger, log, row
<1> QED
  BY <1>1, <1>2, <1>3 DEF Quiet

LEMMA QuietStep ==
  ASSUME IInv, NEW r \in Run, Quiet(r)
  PROVE  IInv'
<1>1. TypeOK'
  BY QuietFrame DEF IInv
<1>2. UNCHANGED <<launched, found, probed, appProbes, baselines, opened>>
  BY QuietFrame DEF IInv, ledger, log
<1>3. OneRecord' /\ InLog' /\ InOpened' /\ Before' /\ After'
  BY <1>2 DEF IInv, OneRecord, InLog, InOpened, Before, After
<1>4. InHand'
  BY <1>2, QuietFrame DEF IInv, InHand
<1>5. Early'
  <2>1. ASSUME probed["baseline"] = {}, NEW q \in Run
        PROVE  NotMigrated(spec'[q]) /\ NotMigrated(targets'[q])
    BY <2>1, QuietFrame, ConstantsTyped DEF IInv, Early, NotMigrated
  <2> QED
    BY <1>2, <2>1 DEF IInv, Early
<1> QED
  BY <1>1, <1>3, <1>4, <1>5 DEF IInv

-----------------------------------------------------------------------------
\* Discovery: what it finds before a baseline is on record is the source's.
LEMMA DiscoverEarly ==
  ASSUME IInv, NEW p \in Phase, NEW got \in found[p] \cup Discovery,
         Discover(p, got), probed["baseline"] = {}
  PROVE  /\ NotMigrated(got) /\ NotMigrated(appProbes')
         /\ \A q \in Phase : \A g \in found'[q] : NotMigrated(g)
<1>1. launched = {}
  BY DEF IInv, Early
<1>2. \A g \in Discovery : NotMigrated(g)
  BY <1>1 DEF Discovery, Serving, NotMigrated
<1>3. NotMigrated(got)
  BY <1>2 DEF IInv, Early
<1> QED
  BY <1>3 DEF IInv, Early, Discover, TypeOK, LedgerTyped

LEMMA TargetsStep ==
  ASSUME IInv, NEW r \in Run, BaselineTargets(r) \/ AfterTargets(r)
  PROVE  IInv'
<1> DEFINE Aims(p, got) ==
      /\ Discover(p, got)
      /\ targets' = [targets EXCEPT ![r] = Resolved(r, got)]
      /\ spec' = [spec EXCEPT ![r] = Resolved(r, got)] \/ UNCHANGED spec
      /\ \E to \in {"complete", "baseline", "after"} :
           pc' = [pc EXCEPT ![r] = to] /\ (to = "after" => baselines # <<>>)
      /\ asked' \in BOOLEAN
      /\ UNCHANGED <<launched, probed, baselines, opened, row, result, deaths>>
<1>0. PICK p \in Phase : \E got \in found[p] \cup Discovery : Aims(p, got)
  <2>1. CASE BaselineTargets(r)
    <3>1. PICK got \in found["baseline"] \cup Discovery :
            /\ Discover("baseline", got)
            /\ targets' = [targets EXCEPT ![r] = Resolved(r, got)]
            /\ spec' = [spec EXCEPT ![r] = Resolved(r, got)]
            /\ asked' = (asked \/ Resolved(r, got) = {})
            /\ pc' = [pc EXCEPT ![r] = IF Resolved(r, got) = {} THEN "complete"
                                                                ELSE "baseline"]
      BY <2>1 DEF BaselineTargets
    <3> QED
      BY <2>1, <3>1 DEF BaselineTargets, Phase
  <2>2. CASE AfterTargets(r)
    BY <2>2 DEF AfterTargets, Phase, IInv, TypeOK
  <2> QED
    BY <2>1, <2>2
<1>1. PICK got \in found[p] \cup Discovery : Aims(p, got)
  BY <1>0
<1>2. got \in SUBSET Target /\ Resolved(r, got) \in SUBSET Target
  BY <1>1, DiscoverTyped DEF IInv, TypeOK, RunTyped, Resolved
<1>3. TypeOK'
  <2>1. found' \in [Phase -> SUBSET (SUBSET Target)] /\ appProbes' \in SUBSET Target
    BY <1>1, DiscoverTyped DEF IInv
  <2>2. RunTyped'
    BY <1>1, <1>2 DEF IInv, TypeOK, RunTyped, PC
  <2> QED
    BY <1>1, <2>1, <2>2 DEF IInv, TypeOK, LedgerTyped, LogTyped, row
<1>4. OneRecord' /\ InLog' /\ InOpened' /\ Before' /\ After'
  BY <1>1 DEF IInv, OneRecord, InLog, InOpened, Before, After
<1>5. InHand'
  BY <1>1 DEF IInv, InHand, TypeOK, RunTyped
<1>6. Early'
  <2> SUFFICES ASSUME probed["baseline"] = {} PROVE Early'
    BY <1>1 DEF Early
  <2>1. NotMigrated(Resolved(r, got))
    BY <1>1, DiscoverEarly DEF Resolved, IInv, Early
  <2>2. \A q \in Run : NotMigrated(spec'[q]) /\ NotMigrated(targets'[q])
    BY <1>1, <2>1 DEF IInv, Early, TypeOK, RunTyped
  <2> QED
    BY <1>1, <2>2, DiscoverEarly DEF IInv, Early
<1> QED
  BY <1>3, <1>4, <1>5, <1>6 DEF IInv

-----------------------------------------------------------------------------
\* A probe: of the run's own targets when nothing is on record.
LEMMA ProbeStep ==
  ASSUME IInv, NEW r \in Run, BaselineProbe(r) \/ AfterProbe(r)
  PROVE  IInv'
<1>1. PICK p \in Phase :
        /\ Probe(r, p)
        /\ p = "after" => ~AllOnSource(targets[r]) /\ pc[r] = "after"
        /\ p = "after" => pc' = [pc EXCEPT ![r] = "verdict"]
        /\ p = "baseline" => pc' = [pc EXCEPT ![r] = "baselined"]
        /\ UNCHANGED <<launched, found, log, asked, row, spec, deaths>>
  BY DEF BaselineProbe, AfterProbe, Phase
<1>a. UNCHANGED <<launched, found, appProbes, baselines, opened, asked, prechecked,
                  tested, spec, deaths>>
  BY <1>1 DEF log, row
<1>2. /\ result' \in [Run -> Result] /\ targets' \in [Run -> SUBSET Target]
      /\ probed' \in [Phase -> SUBSET Result]
      /\ result'[r] \in probed'[p]
      /\ targets'[r] = {}
      /\ \A q \in Run \ {r} : result'[q] = result[q] /\ targets'[q] = targets[q]
      /\ \A q \in Phase \ {p} : probed'[q] = probed[q]
      /\ probed[p] \subseteq probed'[p]
      /\ \A s, t \in probed'[p] : s = t
      /\ \A s \in probed'[p] :
           s \in probed[p] \/ (probed[p] = {} /\ s.on = targets[r])
  BY <1>1, ProbeRecords DEF IInv
<1>3. \A q \in Phase : probed[q] \subseteq probed'[q]
  BY <1>2
<1>4. TypeOK'
  BY <1>1, <1>2, <1>a DEF IInv, TypeOK, LedgerTyped, LogTyped, RunTyped, PC, Phase
<1>5. OneRecord'
  BY <1>2 DEF IInv, OneRecord
<1>6. InLog' /\ InOpened'
  BY <1>3, <1>a DEF IInv, InLog, InOpened, Phase
<1>7. InHand'
  <2> SUFFICES ASSUME NEW q \in Run
        PROVE /\ pc'[q] = "baselined" => result'[q] \in probed'["baseline"]
              /\ pc'[q] = "verdict" => result'[q] \in probed'["after"]
              /\ pc'[q] \in {"after", "verdict"} => baselines # <<>>
    BY <1>a DEF InHand
  <2>1. CASE q # r
    <3>1. pc'[q] = pc[q] /\ result'[q] = result[q]
      BY <1>1, <1>2, <2>1 DEF IInv, TypeOK, RunTyped, Phase
    <3> QED
      BY <1>3, <3>1 DEF IInv, InHand, Phase
  <2>2. CASE q = r
    <3>1. p = "after" => baselines # <<>>
      BY <1>1 DEF IInv, InHand
    <3>2. pc'[r] = IF p = "after" THEN "verdict" ELSE "baselined"
      BY <1>1 DEF IInv, TypeOK, RunTyped, Phase
    <3> QED
      BY <1>2, <2>2, <3>1, <3>2 DEF Phase
  <2> QED
    BY <2>1, <2>2
<1>8. Early'
  <2>1. probed'["baseline"] = {} => probed["baseline"] = {}
    BY <1>3 DEF Phase
  <2>2. ASSUME probed["baseline"] = {} PROVE \A q \in Run : NotMigrated(targets'[q])
    BY <1>2, <2>2 DEF IInv, Early, NotMigrated
  <2> QED
    BY <1>a, <2>1, <2>2 DEF IInv, Early
<1>9. Before'
  BY <1>2 DEF IInv, Before, Early, Phase
<1>10. After'
  <2>1. CASE p = "baseline"
    BY <1>2, <2>1 DEF IInv, After, Phase
  <2>2. CASE p = "after"
    <3>1. targets[r] \in SUBSET Target
      BY DEF IInv, TypeOK, RunTyped
    <3>2. Shown(targets[r])
      BY <1>1, <2>2, <3>1 DEF AllOnSource, Derived, Shown, Target, Side
    <3> QED
      BY <1>2, <2>2, <3>2 DEF IInv, After
  <2> QED
    BY <2>1, <2>2 DEF Phase
<1> QED
  BY <1>4, <1>5, <1>6, <1>7, <1>8, <1>9, <1>10 DEF IInv

\* The baseline is logged.
LEMMA LogStep ==
  ASSUME IInv, NEW r \in Run, LogBaseline(r)
  PROVE  IInv'
<1>1. result[r] \in probed["baseline"] /\ result[r] \in Result
  BY DEF LogBaseline, IInv, InHand, TypeOK, RunTyped
<1>2. UNCHANGED <<launched, found, probed, appProbes, opened, spec, targets>>
  BY DEF LogBaseline, ledger
<1>3. TypeOK'
  BY <1>1, <1>2, NothingTyped DEF LogBaseline, IInv, TypeOK, LedgerTyped, LogTyped,
     RunTyped, PC, row
<1>4. InLog'
  <2>1. \A i \in DOMAIN baselines' :
          baselines'[i] = result[r] \/ (i \in DOMAIN baselines /\ baselines'[i] = baselines[i])
    BY <1>1 DEF LogBaseline, IInv, TypeOK, LogTyped
  <2> QED
    BY <1>1, <1>2, <2>1 DEF IInv, InLog
<1>5. InHand'
  <2>1. baselines' # <<>>
    BY <1>1 DEF LogBaseline, IInv, TypeOK, LogTyped
  <2> QED
    BY <1>2, <2>1 DEF LogBaseline, IInv, InHand, TypeOK, RunTyped
<1>6. OneRecord' /\ InOpened' /\ Early' /\ Before' /\ After'
  BY <1>2 DEF IInv, OneRecord, InOpened, Early, Before, After
<1> QED
  BY <1>3, <1>4, <1>5, <1>6 DEF IInv

\* The verdict is issued.
LEMMA JudgeStep ==
  ASSUME IInv, NEW r \in Run, Judge(r)
  PROVE  IInv'
<1>1. /\ result[r] \in probed["after"] /\ baselines # <<>>
      /\ Head(baselines) \in probed["baseline"]
  BY HeadRecorded DEF Judge, IInv, InHand
<1>2. opened' \subseteq opened \cup {[was |-> Head(baselines), now |-> result[r]]}
  BY DEF Judge
<1>3. UNCHANGED <<launched, found, probed, appProbes, baselines>>
  BY DEF Judge, ledger
<1>4. End(r)
  BY DEF Judge
<1>5. TypeOK'
  <2>1. RunTyped'
    BY <1>4, EndTyped DEF IInv, TypeOK
  <2>2. opened' \subseteq [was : Result, now : Result]
    BY <1>1, <1>2 DEF IInv, TypeOK, LogTyped, LedgerTyped, Phase
  <2> QED
    BY <1>3, <2>1, <2>2 DEF Judge, IInv, TypeOK, LedgerTyped, LogTyped
<1>6. InOpened'
  BY <1>1, <1>2, <1>3 DEF IInv, InOpened
<1>7. InHand' /\ Early'
  BY <1>3, <1>4 DEF End, IInv, InHand, Early, NotMigrated, TypeOK, RunTyped
<1>8. OneRecord' /\ InLog' /\ Before' /\ After'
  BY <1>3 DEF IInv, OneRecord, InLog, Before, After
<1> QED
  BY <1>5, <1>6, <1>7, <1>8 DEF IInv

\* Machines are launched, when there is a baseline, or terminated.
LEMMA EstateStep ==
  ASSUME IInv, Launch \/ Terminate
  PROVE  IInv'
<1>1. UNCHANGED <<found, probed, appProbes, baselines, opened, pc, spec, targets, result>>
  BY DEF Launch, Terminate, ledger, log, run
<1>2. TypeOK'
  BY <1>1 DEF Launch, Terminate, IInv, TypeOK, LedgerTyped, LogTyped, RunTyped, row
<1>3. Early'
  BY <1>1, HeadRecorded DEF Launch, Terminate, IInv, Early
<1>4. OneRecord' /\ InLog' /\ InHand' /\ InOpened' /\ Before' /\ After'
  BY <1>1 DEF IInv, OneRecord, InLog, InHand, InOpened, Before, After
<1> QED
  BY <1>2, <1>3, <1>4 DEF IInv

-----------------------------------------------------------------------------
LEMMA InitInv == Init => IInv
<1> SUFFICES ASSUME Init PROVE IInv
  OBVIOUS
<1>1. TypeOK
  <2>1. LedgerTyped
    BY DEF Init, LedgerTyped
  <2>2. LogTyped
    BY DEF Init, LogTyped
  <2>3. RunTyped
    BY NothingTyped DEF Init, RunTyped, PC
  <2> QED
    BY <2>1, <2>2, <2>3 DEF Init, TypeOK
<1>2. OneRecord /\ InLog /\ InHand /\ InOpened
  BY DEF Init, OneRecord, InLog, InHand, InOpened, Phase
<1>3. Early /\ Before /\ After
  BY DEF Init, Early, NotMigrated, Before, After, Phase
<1> QED
  BY <1>1, <1>2, <1>3 DEF IInv

LEMMA StepInv == IInv /\ [Next]_vars => IInv'
<1> SUFFICES ASSUME IInv, [Next]_vars PROVE IInv'
  OBVIOUS
<1>1. CASE UNCHANGED vars
  BY <1>1 DEF vars, ledger, log, row, run, IInv, TypeOK, LedgerTyped, LogTyped, RunTyped,
     OneRecord, InLog, InHand, InOpened, Early, Before, After
<1>2. CASE Launch \/ Terminate
  BY <1>2, EstateStep
<1>3. ASSUME NEW r \in Run, RunStep(r) PROVE IInv'
  BY <1>3, QuietStep, TargetsStep, ProbeStep, LogStep, JudgeStep DEF RunStep, Quiet
<1> QED
  BY <1>1, <1>2, <1>3 DEF Next

LEMMA Invariance == Spec => []IInv
  BY InitInv, StepInv, PTL DEF Spec

\* Every variable keeps its type.
THEOREM TypeCorrect == Spec => []TypeOK
<1>1. IInv => TypeOK
  BY DEF IInv
<1> QED
  BY <1>1, Invariance, PTL

\* However many runs overlap, die and take over, the wave has one baseline
\* (orchestrator.py, _baseline).
THEOREM BaselineUnique == Spec => []OneBaseline
<1>1. IInv => OneBaseline
  BY DEF IInv, InLog, OneRecord, OneBaseline, Phase
<1> QED
  BY <1>1, Invariance, PTL

\* The verdicts that open the cutover compare one before with one after.
THEOREM ComparisonUnique == Spec => []OneComparison
<1>1. IInv => OneComparison
  <2> SUFFICES ASSUME IInv, NEW v \in opened, NEW w \in opened PROVE v = w
    BY DEF OneComparison
  <2>1. v.was = w.was /\ v.now = w.now
    BY DEF IInv, InOpened, OneRecord, Phase
  <2> QED
    BY <2>1 DEF IInv, TypeOK, LogTyped
<1> QED
  BY <1>1, Invariance, PTL

\* Provided nothing is launched before a baseline is logged, no baseline is a
\* look at a migrated machine (orchestrator.py, _baseline_apps).
THEOREM BaselineIsOfTheSource == Spec => []BeforeIsBefore
<1>1. IInv => BeforeIsBefore
  BY DEF IInv, InLog, Before, NotMigrated, BeforeIsBefore
<1> QED
  BY <1>1, Invariance, PTL

\* No verdict that opens the cutover looked at the source alone
\* (orchestrator.py, _step_test).
THEOREM VerdictSawMigrated == Spec => []SomethingMoved
<1>1. IInv => SomethingMoved
  BY DEF IInv, InOpened, After, Shown, SomethingMoved
<1> QED
  BY <1>1, Invariance, PTL
=============================================================================
