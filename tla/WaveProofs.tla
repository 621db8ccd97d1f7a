----------------------------- MODULE WaveProofs -----------------------------
(***************************************************************************)
(* What holds of a wave for every list of steps, every set of inputs,      *)
(* every combination of faults and any number of runs that die.            *)
(***************************************************************************)
EXTENDS Wave, TLAPS

\* The parts of a run that belong to one step.
PcStep(p) ==
  CASE p \in {"precheck", "baseline", "baselined"} -> {"precheck"}
    [] p = "interpret" -> {"interpret"}
    [] p \in {"replicate", "replicated"} -> {"replicate"}
    [] p \in {"test", "after", "verdict"} -> {"test"}
    [] p \in {"cutover", "start"} -> {"cutover"}
    [] p = "parity" -> {"parity"}
    [] p \in {"rolling", "rolled"} -> {"test", "parity"}
    [] p = "finops" -> {"finops"}
    [] OTHER -> {step}

\* Step s is one the wave has come to: all before it are complete.
CameTo(s) == \E j \in DOMAIN Steps : Steps[j] = s /\ Reached(j)

\* A run inside a step is inside the first one that is not complete.
PlaceInv ==
  pc \notin {"idle", "gate", "next"} =>
    step \in PcStep(pc) /\ step \notin completed /\ CameTo(step)

\* Everything the cutover moved or completed is behind a green verdict.
JudgedInv ==
  /\ dns = "target" \/ cutover \/ Recorded("cutover") \/ pc = "start"
       => greens # {}
  /\ "cutover" \in completed \/ (pc = "complete" /\ step = "cutover")
       => greens # {}
  /\ status = "DONE" => \A j \in DOMAIN Steps : Steps[j] \in completed

IInv == TypeOK /\ PlaceInv /\ JudgedInv

\* The cutover comes after the test step, wherever the contract puts it.
OrderInv ==
  /\ greens # {} => CameTo("test")
  /\ cutover => "test" \in completed

\* The baseline can still be measured.
Open == baseline = "none" /\ "precheck" \notin completed

\* While the test is ahead, nothing the baseline is made from, or could be
\* made from, is the migrated instance.
BaselineInv ==
  /\ pc \in {"baseline", "baselined"} => baseline = "none"
  /\ Open /\ launched => cutover
  /\ "test" \notin completed =>
       /\ baseline # "migrated"
       /\ ledger["discover-probes-baseline"].side # "migrated"
       /\ ledger["baseline-probe"].side # "migrated"
       /\ pc = "baseline" => targets # "migrated"
       /\ pc = "baselined" => obs.side # "migrated"
       /\ Open => appProbes # "migrated" /\ inp.probes # "migrated"

\* What the verdict looks at was not probed on the source.
AfterInv ==
  /\ ledger["post-migration-probe"].side # "source"
  /\ pc = "verdict" => obs.side # "source"

SidesInv ==
  IInv /\ OrderInv /\ BaselineInv /\ AfterInv /\ GreenComparesTwoMachines
-----------------------------------------------------------------------------
\* The values the actions write are of their variables' types.
LEMMA Typed ==
  /\ NoInputs \in Inputs
  /\ {"PENDING", "DONE", "ROLLING_BACK", "ROLLED_BACK", "ESCALATED"}
       \subseteq Status
  /\ \A s \in Handled : s \in PC /\ StepStatus[s] \in Status
  /\ \A t \in Target, d \in BOOLEAN : Saw(t, d) \in Observation
  BY DEF NoInputs, Inputs, Target, Status, Active, Handled, PC, StepStatus,
         Observation, Saw

\* The actions that write the wave row.
LEMMA RowFrame ==
  [Next]_vars =>
    \/ UNCHANGED row
    \/ Gate \/ Advance \/ Complete \/ Finish \/ BaselineFails \/
       Interpret \/ Replicate \/ DriveJob \/ TestCannotJudge \/
       TestOnSource \/ AfterProbeFails \/ Red \/ RolledBack \/
       CutoverRefused \/ AgentEscalate
  BY DEF vars, Next, RunStep, Around, Invoke, Tick, Start, Goto, End,
         EscalateStep, Continue, row, log, world, run,
         PrecheckKnown, PrecheckDiscover, BaselineProbe,
         LogBaseline, Ready, TestOnSuppliedDiffs, TestDiscover,
         AfterProbe, TestGreen, ParityGreen, Rollback,
         CutoverSkipped, FlipDns, StartCutover, Finops, Crash,
         ResolveGate, EngineerAnswers, LaunchTest, TerminateTest,
         JobCompletes, ReplicationFinishes

\* The actions that write the decision log.
LEMMA LogFrame ==
  [Next]_vars =>
    \/ UNCHANGED log
    \/ PrecheckDiscover \/ LogBaseline \/ TestDiscover \/ TestGreen \/
       RolledBack \/ EngineerAnswers
  BY DEF vars, Next, RunStep, Around, Invoke, Tick, Start, Goto, End,
         EscalateStep, Continue, row, log, world, run,
         Gate, Advance, Complete, Finish, PrecheckKnown,
         BaselineProbe, BaselineFails, Interpret, Replicate, Ready,
         DriveJob, TestCannotJudge, TestOnSuppliedDiffs,
         TestOnSource, AfterProbe, AfterProbeFails, ParityGreen,
         Red, Rollback, CutoverRefused, CutoverSkipped, FlipDns,
         StartCutover, Finops, Crash, AgentEscalate, ResolveGate,
         LaunchTest, TerminateTest, JobCompletes,
         ReplicationFinishes

\* The actions that write the step ledger.
LEMMA LedgerFrame ==
  [Next]_vars =>
    \/ UNCHANGED ledger
    \/ PrecheckDiscover \/ BaselineProbe \/ Replicate \/ TestDiscover
       \/ AfterProbe \/ Rollback \/ StartCutover
  BY DEF vars, Next, RunStep, Around, Invoke, Tick, Start, Goto, End,
         EscalateStep, Continue, row, log, world, run,
         Gate, Advance, Complete, Finish, PrecheckKnown,
         BaselineFails, LogBaseline, Interpret, Ready, DriveJob,
         TestCannotJudge, TestOnSuppliedDiffs, TestOnSource,
         AfterProbeFails, TestGreen, ParityGreen, Red, RolledBack,
         CutoverRefused, CutoverSkipped, FlipDns, Finops, Crash,
         AgentEscalate, ResolveGate, EngineerAnswers, LaunchTest,
         TerminateTest, JobCompletes, ReplicationFinishes

\* The actions that change the world.
LEMMA WorldFrame ==
  [Next]_vars =>
    \/ UNCHANGED world
    \/ Rollback \/ FlipDns \/ StartCutover \/ LaunchTest \/
       TerminateTest \/ JobCompletes \/ ReplicationFinishes
  BY DEF vars, Next, RunStep, Around, Invoke, Tick, Start, Goto, End,
         EscalateStep, Continue, row, log, world, run,
         Gate, Advance, Complete, Finish, PrecheckKnown,
         PrecheckDiscover, BaselineProbe, BaselineFails,
         LogBaseline, Interpret, Replicate, Ready, DriveJob,
         TestCannotJudge, TestOnSuppliedDiffs, TestDiscover,
         TestOnSource, AfterProbe, AfterProbeFails, TestGreen,
         ParityGreen, Red, RolledBack, CutoverRefused,
         CutoverSkipped, Finops, Crash, AgentEscalate, ResolveGate,
         EngineerAnswers

\* The row keeps its type.
LEMMA RowType == TypeOK /\ [Next]_vars => RowTyped'
<1> SUFFICES ASSUME TypeOK, [Next]_vars PROVE RowTyped'
  OBVIOUS
<1> USE DEF TypeOK, RowTyped, row, EscalateStep, Continue
<1>1. CASE UNCHANGED row
  BY <1>1
<1>2. CASE Gate
  BY <1>2, Typed DEF Gate
<1>3. CASE Advance
  BY <1>3, Typed DEF Advance
<1>4. CASE Complete
  <2>1. step \in StepNames
    BY <1>4 DEF Complete, RunTyped
  <2> QED
    BY <1>4, <2>1 DEF Complete
<1>5. CASE Finish
  BY <1>5, Typed DEF Finish
<1>6. CASE BaselineFails
  BY <1>6, Typed DEF BaselineFails
<1>7. CASE Interpret
  BY <1>7, Typed DEF Interpret
<1>8. CASE Replicate
  BY <1>8, Typed DEF Replicate
<1>9. CASE DriveJob
  BY <1>9, Typed DEF DriveJob
<1>10. CASE TestCannotJudge \/ TestOnSource \/ AfterProbeFails
  BY <1>10, Typed DEF TestCannotJudge, TestOnSource, AfterProbeFails
<1>11. CASE Red \/ RolledBack
  BY <1>11, Typed DEF Red, RolledBack
<1>12. CASE CutoverRefused \/ AgentEscalate
  BY <1>12, Typed DEF CutoverRefused, AgentEscalate
<1> QED
  BY <1>1, <1>2, <1>3, <1>4, <1>5, <1>6, <1>7, <1>8, <1>9, <1>10, <1>11, <1>12,
     RowFrame

\* What a discovery may find is an address, and so are the targets made of it.
LEMMA DiscoverTyped ==
  ASSUME TypeOK, NEW k \in LedgerKey, Discover(k)
  PROVE  appProbes' \in Target /\ targets' \in Target /\ LedgerTyped'
<1> USE DEF TypeOK, LedgerTyped
<1>1. ledger[k] \in Observation \/ ledger[k] = Unset
  OBVIOUS
<1>2. ledger[k].side \in Target \cup {"unset"}
  BY <1>1 DEF Observation, Unset
<1>3. PICK found \in {"none", Serving, ledger[k].side} \ {"unset"} :
        /\ \/ UNCHANGED ledger
           \/ Record(k, Saw(found, FALSE))
        /\ targets' = IF found = "none" THEN inp.probes ELSE found
        /\ appProbes' = IF appProbes = "none" THEN found ELSE appProbes
  BY DEF Discover
<1>4. found \in Target
  BY <1>2 DEF Serving, Target
<1>5. inp.probes \in Target /\ appProbes \in Target
  BY DEF RunTyped, Inputs, LogTyped
<1>6. LedgerTyped'
  BY <1>3, <1>4, Typed DEF Record
<1> QED
  BY <1>3, <1>4, <1>5, <1>6

\* The decision log keeps its type.
LEMMA LogType == TypeOK /\ [Next]_vars => LogTyped'
<1> SUFFICES ASSUME TypeOK, [Next]_vars PROVE LogTyped'
  OBVIOUS
<1> USE DEF TypeOK, LogTyped, log
<1>1. CASE UNCHANGED log
  BY <1>1
<1>2. CASE PrecheckDiscover \/ TestDiscover
  <2>1. appProbes' \in Target
    BY <1>2, DiscoverTyped DEF PrecheckDiscover, TestDiscover, LedgerKey
  <2> QED
    BY <1>2, <2>1 DEF PrecheckDiscover, TestDiscover
<1>3. CASE LogBaseline
  <2>1. obs.side \in Target
    BY <1>3 DEF LogBaseline, RunTyped, Observation
  <2> QED
    BY <1>3, <2>1 DEF LogBaseline
<1>4. CASE TestGreen
  <2>1. obs.side \in Target
    BY <1>4 DEF TestGreen, RunTyped, Observation
  <2> QED
    BY <1>4, <2>1 DEF TestGreen
<1>5. CASE RolledBack
  BY <1>5 DEF RolledBack
<1>6. CASE EngineerAnswers
  BY <1>6 DEF EngineerAnswers, Target
<1> QED
  BY <1>1, <1>2, <1>3, <1>4, <1>5, <1>6, LogFrame

\* The step ledger keeps its type.
LEMMA LedgerType == TypeOK /\ [Next]_vars => LedgerTyped'
<1> SUFFICES ASSUME TypeOK, [Next]_vars PROVE LedgerTyped'
  OBVIOUS
<1> USE DEF TypeOK, LedgerTyped, Record
<1>1. CASE UNCHANGED ledger
  BY <1>1
<1>2. CASE PrecheckDiscover \/ TestDiscover
  BY <1>2, DiscoverTyped DEF PrecheckDiscover, TestDiscover, LedgerKey
<1>3. CASE BaselineProbe
  BY <1>3, Typed DEF BaselineProbe, RunTyped
<1>4. CASE Replicate \/ Rollback \/ StartCutover
  <2>1. \A t \in {"none", "source", "migrated"} : Saw(t, FALSE) \in Observation
    BY Typed DEF Target
  <2> QED
    BY <1>4, <2>1 DEF Replicate, Rollback, StartCutover
<1>5. CASE AfterProbe
  BY <1>5, Typed DEF AfterProbe, RunTyped
<1> QED
  BY <1>1, <1>2, <1>3, <1>4, <1>5, LedgerFrame

\* The world keeps its type.
LEMMA WorldType == TypeOK /\ [Next]_vars => WorldTyped'
<1> SUFFICES ASSUME TypeOK, [Next]_vars PROVE WorldTyped'
  OBVIOUS
<1> USE DEF TypeOK, WorldTyped, world
<1>1. CASE UNCHANGED world
  BY <1>1
<1>2. CASE Rollback \/ FlipDns \/ StartCutover
  BY <1>2 DEF Rollback, FlipDns, StartCutover
<1>3. CASE LaunchTest \/ TerminateTest \/ JobCompletes \/ ReplicationFinishes
  BY <1>3 DEF LaunchTest, TerminateTest, JobCompletes, ReplicationFinishes
<1> QED
  BY <1>1, <1>2, <1>3, WorldFrame

\* A run that moves on keeps the types of its locals.
LEMMA GotoTyped ==
  ASSUME RunTyped, NEW p \in PC \ {"baselined", "verdict"}, Goto(p),
         step \in StepNames \/ p \in {"idle", "gate", "next"}
  PROVE  RunTyped'
  BY DEF RunTyped, Goto

\* A run that ends clears them.
LEMMA EndTyped == ASSUME NEW o \in Outcome, End(o) PROVE RunTyped'
  BY Typed DEF End, RunTyped, PC, Target

\* A run's locals keep their types.
LEMMA RunType == TypeOK /\ [Next]_vars => RunTyped'
<1> SUFFICES ASSUME TypeOK, [Next]_vars PROVE RunTyped'
  OBVIOUS
<1>t. RunTyped
  BY DEF TypeOK
<1>e. \A o \in Outcome : End(o) => RunTyped'
  BY EndTyped
<1>g. \A p \in PC \ {"baselined", "verdict"} :
        /\ Goto(p)
        /\ pc \notin {"idle", "gate", "next"} \/ p \in {"idle", "gate", "next"}
        => RunTyped'
  BY <1>t, GotoTyped DEF RunTyped
<1>c. Continue /\ pc \notin {"idle", "gate", "next"} => RunTyped'
  BY <1>g DEF Continue, PC
<1>s. EscalateStep => RunTyped'
  BY <1>e DEF EscalateStep, Outcome
<1>1. CASE UNCHANGED run
  BY <1>t, <1>1 DEF run, RunTyped
<1>2. CASE Gate
  BY <1>2, <1>e, <1>g, <1>s DEF Gate, Outcome, PC
<1>3. CASE Advance
  <2>1. CASE End("RAISED")
    BY <2>1, <1>e DEF Outcome
  <2>2. PICK j \in DOMAIN Steps :
          /\ step' = Steps[j]
          /\ pc' \in Handled \cup {"complete"}
          /\ UNCHANGED <<inp, targets, obs, outcome>>
        \/ End("RAISED")
    BY <1>3 DEF Advance
  <2> QED
    BY <1>t, <2>1, <2>2 DEF RunTyped, StepNames, Handled, PC
<1>4. CASE Complete
  BY <1>t, <1>4, Typed DEF Complete, RunTyped, PC, Target
<1>5. CASE Finish
  BY <1>5, <1>e DEF Finish, Outcome
<1>6. CASE PrecheckDiscover
  <2>1. targets' \in Target
    BY <1>6, DiscoverTyped DEF PrecheckDiscover, LedgerKey
  <2>2. inp' \in Inputs
    BY <1>t, <1>6, <2>1 DEF PrecheckDiscover, RunTyped, Inputs
  <2> QED
    BY <1>t, <1>6, <2>1, <2>2 DEF PrecheckDiscover, RunTyped, PC
<1>7. CASE BaselineProbe
  <2>1. obs' \in Observation
    BY <1>t, <1>7, Typed DEF BaselineProbe, TypeOK, LedgerTyped, LedgerKey,
       Recorded, RunTyped
  <2> QED
    BY <1>t, <1>7, <2>1 DEF BaselineProbe, RunTyped, PC
<1>8. CASE PrecheckKnown \/ LogBaseline \/ ParityGreen \/ Finops \/ TestGreen
           \/ CutoverSkipped \/ StartCutover
  BY <1>8, <1>c DEF PrecheckKnown, LogBaseline, ParityGreen, Finops, TestGreen,
     CutoverSkipped, StartCutover
<1>9. CASE BaselineFails \/ TestCannotJudge \/ TestOnSource \/ AfterProbeFails
           \/ CutoverRefused
  BY <1>9, <1>s DEF BaselineFails, TestCannotJudge, TestOnSource,
     AfterProbeFails, CutoverRefused
<1>10. CASE Interpret
  BY <1>10, <1>c, <1>g, <1>s DEF Interpret, PC
<1>11. CASE Replicate
  BY <1>11, <1>g, <1>s DEF Replicate, PC
<1>12. CASE Ready
  BY <1>12, <1>c, <1>e DEF Ready, Outcome
<1>13. CASE DriveJob
  <2>1. pc = "replicate"
    BY <1>13 DEF DriveJob
  <2>2. Goto("complete") \/ End("WAITING") \/ End("ESCALATED")
    BY <1>13 DEF DriveJob
  <2> QED
    BY <2>1, <2>2, <1>e, <1>g DEF Outcome, PC
<1>14. CASE TestOnSuppliedDiffs
  BY <1>t, <1>14, Typed DEF TestOnSuppliedDiffs, RunTyped, PC, Target
<1>15. CASE TestDiscover
  <2>1. targets' \in Target
    BY <1>15, DiscoverTyped DEF TestDiscover, LedgerKey
  <2> QED
    BY <1>t, <1>15, <2>1 DEF TestDiscover, RunTyped, PC
<1>16. CASE AfterProbe
  <2>1. obs' \in Observation
    BY <1>t, <1>16, Typed DEF AfterProbe, TypeOK, LedgerTyped, LedgerKey,
       Recorded, RunTyped
  <2> QED
    BY <1>t, <1>16, <2>1 DEF AfterProbe, RunTyped, PC
<1>17. CASE Red \/ Rollback \/ FlipDns
  BY <1>17, <1>g DEF Red, Rollback, FlipDns, PC
<1>18. CASE RolledBack \/ Crash
  BY <1>18, <1>e DEF RolledBack, Crash, Outcome
<1>19. CASE AgentEscalate \/ ResolveGate \/ EngineerAnswers \/ LaunchTest
            \/ TerminateTest \/ JobCompletes \/ ReplicationFinishes
  BY <1>1, <1>19 DEF AgentEscalate, ResolveGate, EngineerAnswers, LaunchTest,
     TerminateTest, JobCompletes, ReplicationFinishes
<1>20. CASE Invoke \/ Tick
  <2>1. PICK in \in CallerInputs : Start(in)
    BY <1>20, ConstantsTyped DEF Invoke, Tick
  <2>2. inp' \in Inputs
    BY <2>1 DEF Start, CallerInputs, Inputs, TypeOK, LogTyped
  <2> QED
    BY <1>t, <2>1, <2>2 DEF Start, RunTyped, PC, Outcome
<1> QED
  BY <1>1, <1>2, <1>3, <1>4, <1>5, <1>6, <1>7, <1>8, <1>9, <1>10, <1>11, <1>12,
     <1>13, <1>14, <1>15, <1>16, <1>17, <1>18, <1>19, <1>20
     DEF Next, RunStep, Around, vars

\* Only a run's death is counted.
LEMMA CrashesCount == [Next]_vars => crashes' = crashes \/ Crash
  BY DEF vars, Next, RunStep, Around, Invoke, Tick, Start, Gate, Advance,
         Complete, Finish, PrecheckKnown, PrecheckDiscover, BaselineProbe,
         BaselineFails, LogBaseline, Interpret, Replicate, Ready, DriveJob,
         TestCannotJudge, TestOnSuppliedDiffs, TestDiscover, TestOnSource,
         AfterProbe, AfterProbeFails, TestGreen, ParityGreen, Red, Rollback,
         RolledBack, CutoverRefused, CutoverSkipped, FlipDns, StartCutover,
         Finops, AgentEscalate, ResolveGate, EngineerAnswers, LaunchTest,
         TerminateTest, JobCompletes, ReplicationFinishes

\* Every step keeps the types.
LEMMA TypeStep == TypeOK /\ [Next]_vars => TypeOK'
<1> SUFFICES ASSUME TypeOK, [Next]_vars PROVE TypeOK'
  OBVIOUS
<1>1. approval' \in {"none", "pending", "approved", "rejected"}
  BY DEF TypeOK, vars, Next, RunStep, Around, Invoke, Tick, Start, Gate, Advance,
         Complete, Finish, PrecheckKnown, PrecheckDiscover, BaselineProbe,
         BaselineFails, LogBaseline, Interpret, Replicate, Ready, DriveJob,
         TestCannotJudge, TestOnSuppliedDiffs, TestDiscover, TestOnSource,
         AfterProbe, AfterProbeFails, TestGreen, ParityGreen, Red, Rollback,
         RolledBack, CutoverRefused, CutoverSkipped, FlipDns, StartCutover,
         Finops, Crash, AgentEscalate, ResolveGate, EngineerAnswers, LaunchTest,
         TerminateTest, JobCompletes, ReplicationFinishes
<1>2. crashes' \in {crashes, crashes + 1}
  BY CrashesCount DEF Crash
<1> QED
  BY <1>1, <1>2, RowType, LogType, LedgerType, WorldType, RunType DEF TypeOK

\* A fresh wave has them.
LEMMA TypeInit == Init => TypeOK
<1> SUFFICES ASSUME Init PROVE TypeOK
  OBVIOUS
<1>1. job \in {"missing", "running", "completed"}
  BY ConstantsTyped DEF Init
<1>2. RowTyped /\ LogTyped /\ WorldTyped
  BY <1>1, Typed DEF Init, RowTyped, LogTyped, WorldTyped, Target
<1>3. LedgerTyped
  BY DEF Init, LedgerTyped
<1>4. RunTyped
  BY Typed DEF Init, RunTyped, PC, Target, Outcome
<1> QED
  BY <1>2, <1>3, <1>4 DEF Init, TypeOK

\* A wave's variables keep their types, whatever it is told and whatever fails.
THEOREM TypeCorrect == Spec => []TypeOK
  BY TypeInit, TypeStep, PTL DEF Spec

-----------------------------------------------------------------------------
\* completed_steps only grows, by the step in hand.
LEMMA CompletedGrows ==
  [Next]_vars => \/ completed' = completed
                 \/ Complete /\ completed' = completed \cup {step}
  BY RowFrame DEF row, Gate, Advance, Complete, Finish, BaselineFails, Interpret,
     Replicate, DriveJob, TestCannotJudge, TestOnSource,
     AfterProbeFails, Red,
     RolledBack, CutoverRefused, AgentEscalate, EscalateStep, Continue

\* A step the wave has come to stays so.
LEMMA CameToStays == ASSUME NEW s, [Next]_vars, CameTo(s) PROVE CameTo(s)'
  BY CompletedGrows DEF CameTo, Reached

\* A run that stays inside its step stays in its place.
LEMMA StaysInPlace ==
  ASSUME PlaceInv, completed' = completed, step' = step,
         pc \notin {"idle", "gate", "next"}, step \in PcStep(pc')
  PROVE  PlaceInv'
  BY DEF PlaceInv, PcStep, CameTo, Reached

\* A run that is between steps, or over, has no place to keep.
LEMMA NoPlace == ASSUME pc' \in {"idle", "gate", "next"} PROVE PlaceInv'
  BY DEF PlaceInv

\* Every step of the system keeps runs inside the first incomplete step.
LEMMA PlaceStep == TypeOK /\ PlaceInv /\ [Next]_vars => PlaceInv'
<1> SUFFICES ASSUME TypeOK, PlaceInv, [Next]_vars PROVE PlaceInv'
  OBVIOUS
<1> USE DEF Goto, End, EscalateStep, Continue, row, run
<1>1. CASE UNCHANGED <<completed, run>>
  BY <1>1 DEF PlaceInv, PcStep, CameTo, Reached
<1>2. CASE Advance
  <2>1. CASE End("RAISED")
    BY <2>1, NoPlace
  <2>2. ASSUME NEW j \in DOMAIN Steps, NextStep(j), step' = Steps[j],
               (pc' = Steps[j] /\ Steps[j] \in Handled) \/ pc' = "complete"
        PROVE  PlaceInv'
    <3>1. completed' = completed
      BY <1>2 DEF Advance
    <3>2. CameTo(step)'
      BY <2>2, <3>1 DEF CameTo, NextStep, Reached
    <3>3. (step \in PcStep(pc))'
      BY <2>2 DEF PcStep, Handled
    <3> QED
      BY <2>2, <3>1, <3>2, <3>3 DEF PlaceInv, NextStep
  <2> QED
    BY <1>2, <2>1, <2>2 DEF Advance
<1>3. CASE Gate
  BY <1>3, NoPlace DEF Gate
<1>4. CASE Complete \/ Finish \/ BaselineFails \/ TestCannotJudge \/ TestOnSource
           \/ AfterProbeFails \/ RolledBack \/ CutoverRefused \/ Crash
  BY <1>4, NoPlace DEF Complete, Finish, BaselineFails, TestCannotJudge,
     TestOnSource, AfterProbeFails, RolledBack, CutoverRefused, Crash
<1>5. CASE PrecheckKnown \/ LogBaseline \/ Finops \/ TestGreen \/ ParityGreen
           \/ CutoverSkipped \/ StartCutover
  BY <1>5, StaysInPlace DEF PrecheckKnown, LogBaseline, Finops, TestGreen,
     ParityGreen, CutoverSkipped, StartCutover, PcStep
<1>6. CASE PrecheckDiscover \/ BaselineProbe
  BY <1>6, StaysInPlace DEF PrecheckDiscover, BaselineProbe, PcStep, PlaceInv
<1>7. CASE Interpret
  BY <1>7, StaysInPlace, NoPlace DEF Interpret, PcStep, PlaceInv
<1>8. CASE Replicate \/ Ready \/ DriveJob
  BY <1>8, StaysInPlace, NoPlace DEF Replicate, Ready, DriveJob, PcStep, PlaceInv
<1>9. CASE TestOnSuppliedDiffs \/ TestDiscover \/ AfterProbe
  BY <1>9, StaysInPlace DEF TestOnSuppliedDiffs, TestDiscover, AfterProbe, PcStep,
     PlaceInv
<1>10. CASE Red \/ Rollback
  BY <1>10, StaysInPlace DEF Red, Rollback, PcStep, PlaceInv
<1>11. CASE FlipDns
  BY <1>11, StaysInPlace DEF FlipDns, PcStep, PlaceInv
<1>12. CASE AgentEscalate \/ ResolveGate \/ EngineerAnswers \/ LaunchTest
            \/ TerminateTest \/ JobCompletes \/ ReplicationFinishes
  BY <1>1, <1>12 DEF AgentEscalate, ResolveGate, EngineerAnswers, LaunchTest,
     TerminateTest, JobCompletes, ReplicationFinishes
<1>13. CASE Invoke \/ Tick
  BY <1>13, NoPlace DEF Invoke, Tick, Start
<1> QED
  BY <1>1, <1>2, <1>3, <1>4, <1>5, <1>6, <1>7, <1>8, <1>9, <1>10, <1>11, <1>12,
     <1>13 DEF Next, RunStep, Around, vars

-----------------------------------------------------------------------------
\* The decision log forgets no green verdict.
LEMMA GreensGrow == [Next]_vars => greens \subseteq greens'
  BY LogFrame DEF log, PrecheckDiscover, LogBaseline, TestDiscover, TestGreen,
     RolledBack, EngineerAnswers

\* The cutover's record, once more: only StartCutover writes it.
LEMMA CutoverRecord ==
  TypeOK /\ [Next]_vars =>
    \/ ledger'["cutover"] = ledger["cutover"]
    \/ StartCutover
<1> SUFFICES ASSUME TypeOK, [Next]_vars, ~StartCutover
             PROVE  ledger'["cutover"] = ledger["cutover"]
  OBVIOUS
<1> USE DEF TypeOK, LedgerTyped, LedgerKey, Record
<1>1. CASE PrecheckDiscover \/ TestDiscover
  BY <1>1 DEF PrecheckDiscover, TestDiscover, Discover
<1>2. CASE BaselineProbe \/ Replicate \/ AfterProbe \/ Rollback
  BY <1>2 DEF BaselineProbe, Replicate, AfterProbe, Rollback
<1> QED
  BY <1>1, <1>2, LedgerFrame

\* What the cutover moved stays behind a green verdict.
LEMMA MovedStep ==
  ASSUME TypeOK, PlaceInv, JudgedInv, [Next]_vars
  PROVE  (dns = "target" \/ cutover \/ Recorded("cutover") \/ pc = "start"
            => greens # {})'
<1>1. CASE greens # {}
  BY <1>1, GreensGrow
<1>2. CASE greens = {}
  <2> USE <1>2 DEF JudgedInv
  <2>1. ~FlipDns /\ ~StartCutover
    BY DEF FlipDns, StartCutover
  <2>2. dns' # "target"
    BY <2>1, WorldFrame DEF world, Rollback, LaunchTest, TerminateTest,
       JobCompletes, ReplicationFinishes
  <2>c. cutover' = cutover
    BY <2>1, WorldFrame DEF world, Rollback, LaunchTest, TerminateTest,
       JobCompletes, ReplicationFinishes
  <2>3. ~Recorded("cutover")'
    BY <2>1, CutoverRecord DEF Recorded
  <2>4. pc' # "start"
    BY <2>1 DEF Goto, End, EscalateStep, Continue, run, vars, Next, RunStep,
       Around,
       Invoke, Tick, Start, Gate, Advance, Handled,
       Complete, Finish, PrecheckKnown, PrecheckDiscover, BaselineProbe,
       BaselineFails, LogBaseline, Interpret, Replicate, Ready, DriveJob,
       TestCannotJudge, TestOnSuppliedDiffs, TestDiscover, TestOnSource,
       AfterProbe, AfterProbeFails, TestGreen, ParityGreen, Red, Rollback,
       RolledBack, CutoverRefused, CutoverSkipped, Finops, Crash, AgentEscalate,
       ResolveGate, EngineerAnswers, LaunchTest, TerminateTest, JobCompletes,
       ReplicationFinishes
  <2> QED
    BY <2>2, <2>c, <2>3, <2>4
<1> QED
  BY <1>1, <1>2

\* A cutover step completes only behind a green verdict.
LEMMA CompletedStep ==
  ASSUME TypeOK, PlaceInv, JudgedInv, [Next]_vars
  PROVE  ("cutover" \in completed \/ (pc = "complete" /\ step = "cutover")
            => greens # {})'
<1>1. CASE greens # {}
  BY <1>1, GreensGrow
<1>2. CASE greens = {}
  <2> USE <1>2 DEF JudgedInv
  <2>1. "cutover" \notin completed'
    BY CompletedGrows DEF Complete
  <2>2. ASSUME pc' = "complete", step' = "cutover" PROVE FALSE
    <3>1. CASE UNCHANGED run
      BY <2>2, <3>1 DEF run
    <3>2. CASE Advance
      BY <2>2, <3>2 DEF Advance, Handled, End
    <3>3. CASE CutoverSkipped \/ StartCutover
      BY <3>3 DEF CutoverSkipped, StartCutover
    <3>4. CASE PrecheckDiscover
      BY <2>2, <3>4 DEF PrecheckDiscover, PlaceInv, PcStep
    <3>5. CASE PrecheckKnown \/ LogBaseline \/ Interpret \/ Ready \/ DriveJob
               \/ TestGreen \/ ParityGreen \/ Finops
      BY <2>2, <3>5 DEF PrecheckKnown, LogBaseline, Interpret, Ready, DriveJob,
         TestGreen, ParityGreen, Finops, Continue, Goto, End, EscalateStep,
         PlaceInv, PcStep
    <3> QED
      BY <2>2, <3>1, <3>2, <3>3, <3>4, <3>5
         DEF Goto, End, EscalateStep, run, vars, Next, RunStep, Around, Invoke,
         Tick, Start, Gate, Complete, Finish, BaselineProbe, BaselineFails,
         Replicate, TestCannotJudge, TestOnSuppliedDiffs, TestDiscover,
         TestOnSource, AfterProbe, AfterProbeFails, Red, Rollback, RolledBack,
         CutoverRefused, FlipDns, Crash, AgentEscalate, ResolveGate,
         EngineerAnswers, LaunchTest, TerminateTest, JobCompletes,
         ReplicationFinishes
  <2> QED
    BY <2>1, <2>2
<1> QED
  BY <1>1, <1>2

\* DONE is written when the walk is over, and the walk stays over.
LEMMA DoneStep ==
  ASSUME TypeOK, PlaceInv, JudgedInv, [Next]_vars
  PROVE  (status = "DONE" => \A j \in DOMAIN Steps : Steps[j] \in completed)'
<1>1. completed \subseteq completed'
  BY CompletedGrows
<1>2. CASE Finish
  BY <1>1, <1>2 DEF Finish
<1>3. CASE Advance
  BY <1>1, <1>3 DEF Advance, StepStatus, Handled, JudgedInv
<1>4. CASE ~Finish /\ ~Advance
  <2>1. status' = "DONE" => status = "DONE"
    BY <1>4, RowFrame DEF row, Gate, Complete, BaselineFails, Interpret,
       Replicate,
       DriveJob, TestCannotJudge, TestOnSource,
       AfterProbeFails, Red, RolledBack,
       CutoverRefused, AgentEscalate, EscalateStep, Continue
  <2> QED
    BY <1>1, <2>1 DEF JudgedInv
<1> QED
  BY <1>2, <1>3, <1>4

\* The three invariants together are inductive.
LEMMA IInvStep == IInv /\ [Next]_vars => IInv'
  BY TypeStep, PlaceStep, MovedStep, CompletedStep, DoneStep DEF IInv, JudgedInv

\* They hold throughout.
LEMMA IInvAlways == Spec => []IInv
<1>1. Init => PlaceInv /\ JudgedInv
  BY DEF Init, PlaceInv, JudgedInv, Recorded, LedgerKey
<1>2. Init => IInv
  BY <1>1, TypeInit DEF IInv
<1> QED
  BY <1>2, IInvStep, PTL DEF Spec

\* Nothing is cut over or repointed without a green test verdict in the log.
THEOREM CutoverNeedsGreenTest == Spec => []CutoverAfterGreenTest
<1>1. IInv => CutoverAfterGreenTest
  BY DEF IInv, JudgedInv, CutoverAfterGreenTest
<1> QED
  BY <1>1, IInvAlways, PTL

\* DONE means the whole walk, and a cutover step in it was judged green.
THEOREM DoneIsJudged == Spec => []DoneMeansJudged
<1>1. IInv => DoneMeansJudged
  BY DEF IInv, JudgedInv, DoneMeansJudged
<1> QED
  BY <1>1, IInvAlways, PTL
-----------------------------------------------------------------------------
\* Two steps the wave has come to, one of them not complete: the other is
\* complete, if it is not the same one.
LEMMA FirstIncomplete ==
  ASSUME NEW s, NEW t, CameTo(s), CameTo(t), s \notin completed, s # t
  PROVE  t \in completed
<1>1. PICK i \in DOMAIN Steps : Steps[i] = s /\ Reached(i)
  BY DEF CameTo
<1>2. PICK j \in DOMAIN Steps : Steps[j] = t /\ Reached(j)
  BY DEF CameTo
<1>3. i \in Nat \ {0} /\ j \in Nat \ {0}
  BY <1>1, <1>2, ConstantsTyped
<1>4. CASE i < j
  BY <1>1, <1>2, <1>3, <1>4 DEF Reached
<1>5. CASE j < i
  BY <1>1, <1>2, <1>3, <1>5 DEF Reached
<1> QED
  BY <1>1, <1>2, <1>3, <1>4, <1>5

\* A green verdict is earned in the test step, and the cutover is started in
\* a later one.
LEMMA OrderStep == IInv /\ OrderInv /\ [Next]_vars => OrderInv'
<1> SUFFICES ASSUME IInv, OrderInv, [Next]_vars PROVE OrderInv'
  OBVIOUS
<1> USE DEF IInv, OrderInv
<1>1. (greens # {} => CameTo("test"))'
  <2>1. CASE greens # {}
    BY <2>1, CameToStays
  <2>2. CASE TestGreen
    BY <2>2, CameToStays DEF TestGreen, PlaceInv, PcStep
  <2>3. CASE greens' = greens
    BY <2>3, CameToStays
  <2> QED
    BY <2>2, <2>3, LogFrame DEF log, PrecheckDiscover, LogBaseline, TestDiscover,
       RolledBack, EngineerAnswers
<1>2. (cutover => "test" \in completed)'
  <2>1. completed \subseteq completed'
    BY CompletedGrows
  <2>2. CASE StartCutover
    <3>1. greens # {} /\ step = "cutover" /\ step \notin completed /\ CameTo(step)
      BY <2>2 DEF StartCutover, JudgedInv, PlaceInv, PcStep
    <3>2. "test" \in completed
      BY <3>1, FirstIncomplete
    <3> QED
      BY <2>1, <3>2
  <2>3. CASE cutover' = cutover
    BY <2>1, <2>3
  <2> QED
    BY <2>2, <2>3, WorldFrame DEF world, Rollback, FlipDns, LaunchTest,
       TerminateTest, JobCompletes, ReplicationFinishes
<1> QED
  BY <1>1, <1>2

-----------------------------------------------------------------------------
\* A measured baseline is never taken back.
LEMMA OpenShrinks ==
  ASSUME IInv, BaselineInv, [Next]_vars
  PROVE  /\ baseline' = baseline \/ LogBaseline
         /\ Open' => Open
<1>1. baseline' = baseline \/ LogBaseline
  BY LogFrame DEF log, PrecheckDiscover, TestDiscover, TestGreen, RolledBack,
     EngineerAnswers
<1>2. baseline' = "none" => baseline = "none"
  BY <1>1 DEF LogBaseline, BaselineInv
<1> QED
  BY <1>1, <1>2, CompletedGrows DEF Open

\* A probe point of a step is entered from the one before it.
LEMMA ProbePoints ==
  [Next]_vars =>
    /\ pc' = "baseline" =>
         PrecheckDiscover \/ UNCHANGED <<pc, targets>>
    /\ pc' = "baselined" =>
         BaselineProbe \/ UNCHANGED <<pc, obs>>
    /\ pc' = "verdict" =>
         TestOnSuppliedDiffs \/ AfterProbe \/ UNCHANGED <<pc, obs>>
<1>1. RunStep /\ pc' = "baseline" => PrecheckDiscover \/ UNCHANGED <<pc, targets>>
  BY DEF Goto, End, EscalateStep, Continue, run, RunStep, Gate, Advance, Handled,
     Complete, Finish, PrecheckKnown, BaselineProbe, TestOnSuppliedDiffs,
     AfterProbe, BaselineFails,
     LogBaseline, Interpret, Replicate, Ready, DriveJob,
     TestCannotJudge,
     TestDiscover, TestOnSource, AfterProbeFails, TestGreen, ParityGreen, Red,
     Rollback, RolledBack, CutoverRefused, CutoverSkipped, FlipDns, StartCutover,
     Finops
<1>2. RunStep /\ pc' = "baselined" => BaselineProbe \/ UNCHANGED <<pc, obs>>
  BY DEF Goto, End, EscalateStep, Continue, run, RunStep, Gate, Advance, Handled,
     Complete, Finish, PrecheckKnown, PrecheckDiscover, TestOnSuppliedDiffs,
     AfterProbe, BaselineFails,
     LogBaseline, Interpret, Replicate, Ready, DriveJob,
     TestCannotJudge,
     TestDiscover, TestOnSource, AfterProbeFails, TestGreen, ParityGreen, Red,
     Rollback, RolledBack, CutoverRefused, CutoverSkipped, FlipDns, StartCutover,
     Finops
<1>3. RunStep /\ pc' = "verdict" => TestOnSuppliedDiffs \/ AfterProbe \/ UNCHANGED <<pc, obs>>
  BY DEF Goto, End, EscalateStep, Continue, run, RunStep, Gate, Advance, Handled,
     Complete, Finish, PrecheckKnown, PrecheckDiscover, BaselineProbe,
     BaselineFails,
     LogBaseline, Interpret, Replicate, Ready, DriveJob,
     TestCannotJudge,
     TestDiscover, TestOnSource, AfterProbeFails, TestGreen, ParityGreen, Red,
     Rollback, RolledBack, CutoverRefused, CutoverSkipped, FlipDns, StartCutover,
     Finops
<1>4. Invoke \/ Tick => pc' \in {"gate", "next"}
  BY DEF Invoke, Tick, Start
<1>5. Around \/ UNCHANGED vars => pc' = "idle" \/ UNCHANGED <<pc, targets, obs>>
  BY DEF Around, End, run, vars, Crash, AgentEscalate, ResolveGate,
     EngineerAnswers,
     LaunchTest, TerminateTest, JobCompletes, ReplicationFinishes
<1> QED
  BY <1>1, <1>2, <1>3, <1>4, <1>5 DEF Next

\* Only an invocation, the precheck and the end of a run change the inputs.
LEMMA InputsFrame ==
  [Next]_vars =>
    \/ inp' = inp
    \/ inp' = NoInputs
    \/ PrecheckDiscover
    \/ \E in \in CallerInputs : Start(in)
<1>1. Invoke \/ Tick => \E in \in CallerInputs : Start(in)
  BY ConstantsTyped DEF Invoke, Tick
<1>2. RunStep => inp' = inp \/ inp' = NoInputs \/ PrecheckDiscover
  BY DEF Goto, End, EscalateStep, Continue, run, RunStep,
     Gate, Advance, Complete, Finish, PrecheckKnown, BaselineProbe,
     BaselineFails, LogBaseline, Interpret, Replicate, Ready, DriveJob,
     TestCannotJudge, TestOnSuppliedDiffs, TestDiscover, TestOnSource, AfterProbe,
     AfterProbeFails, TestGreen, ParityGreen, Red, Rollback, RolledBack,
     CutoverRefused, CutoverSkipped, FlipDns, StartCutover, Finops
<1>3. Around => inp' = inp \/ inp' = NoInputs
  BY DEF Around, End, run, Crash, AgentEscalate, ResolveGate, EngineerAnswers,
     LaunchTest, TerminateTest, JobCompletes, ReplicationFinishes
<1>4. UNCHANGED vars => inp' = inp
  BY DEF vars, run
<1> QED
  BY <1>1, <1>2, <1>3, <1>4 DEF Next

\* With nobody launching early, the first probes find the source machine.
LEMMA FoundOnSource ==
  ASSUME IInv, OrderInv, BaselineInv, PrecheckDiscover, "test" \notin completed
  PROVE  /\ ledger'["discover-probes-baseline"].side # "migrated"
         /\ targets' # "migrated" /\ appProbes' # "migrated"
         /\ inp'.probes = targets'
         /\ ledger'["baseline-probe"] = ledger["baseline-probe"]
         /\ baseline = "none"
<1>1. Open
  BY DEF PrecheckDiscover, IInv, PlaceInv, PcStep, Open
<1>2. Serving = "source"
  BY <1>1 DEF OrderInv, BaselineInv, Serving
<1>3. PICK found \in {"none", "source", ledger["discover-probes-baseline"].side} :
        /\ \/ UNCHANGED ledger
           \/ Record("discover-probes-baseline", Saw(found, FALSE))
        /\ targets' = IF found = "none" THEN inp.probes ELSE found
        /\ appProbes' = IF appProbes = "none" THEN found ELSE appProbes
  BY <1>2 DEF PrecheckDiscover, Discover
<1>4. found # "migrated"
  BY <1>3 DEF BaselineInv
<1>5. /\ ledger'["discover-probes-baseline"].side # "migrated"
      /\ ledger'["baseline-probe"] = ledger["baseline-probe"]
  BY <1>3, <1>4 DEF BaselineInv, Record, Saw, IInv, TypeOK, LedgerTyped, LedgerKey
<1>6. targets' # "migrated" /\ appProbes' # "migrated"
  BY <1>1, <1>3, <1>4 DEF BaselineInv
<1>7. inp'.probes = targets' /\ baseline = "none"
  BY DEF PrecheckDiscover, IInv, TypeOK, RunTyped, Inputs
<1> QED
  BY <1>5, <1>6, <1>7

\* Nobody launches a machine while the baseline can be measured, but the
\* cutover itself.
LEMMA NotLaunchedStep ==
  ASSUME ~EarlyLaunch, IInv, BaselineInv, [Next]_vars
  PROVE  (Open /\ launched => cutover)'
<1>1. Open' => Open
  BY OpenShrinks
<1>2. CASE UNCHANGED world
  BY <1>1, <1>2 DEF world, BaselineInv
<1>3. CASE LaunchTest
  BY <1>1, <1>3 DEF LaunchTest, Open
<1>4. CASE StartCutover
  <2>1. cutover' \/ (launched' = launched /\ cutover' = cutover)
    BY <1>4 DEF StartCutover
  <2> QED
    BY <1>1, <2>1 DEF BaselineInv
<1>5. CASE Rollback \/ FlipDns \/ TerminateTest \/ JobCompletes \/ ReplicationFinishes
  BY <1>1, <1>5 DEF Rollback, FlipDns, TerminateTest, JobCompletes,
     ReplicationFinishes, BaselineInv
<1> QED
  BY <1>2, <1>3, <1>4, <1>5, WorldFrame

\* What the ledger says of the baseline, while the test is ahead.
LEMMA BaselineLedgerStep ==
  ASSUME IInv, OrderInv, BaselineInv, [Next]_vars, "test" \notin completed
  PROVE  /\ ledger'["discover-probes-baseline"].side # "migrated"
         /\ ledger'["baseline-probe"].side # "migrated"
<1>1. CASE PrecheckDiscover
  BY <1>1, FoundOnSource DEF BaselineInv
<1>2. CASE BaselineProbe
  BY <1>2 DEF BaselineProbe, Record, Saw, BaselineInv, IInv, TypeOK, LedgerTyped,
     LedgerKey
<1>3. CASE TestDiscover
  BY <1>3 DEF TestDiscover, Discover, Record, BaselineInv, IInv, TypeOK,
     LedgerTyped,
     LedgerKey
<1>4. CASE Replicate \/ AfterProbe \/ Rollback \/ StartCutover
  BY <1>4 DEF Replicate, AfterProbe, Rollback, StartCutover, Record, BaselineInv,
     IInv, TypeOK, LedgerTyped, LedgerKey
<1>5. CASE UNCHANGED ledger
  BY <1>5 DEF BaselineInv
<1> QED
  BY <1>1, <1>2, <1>3, <1>4, <1>5, LedgerFrame

\* What the precheck would probe next is not the migrated instance.
LEMMA ProbesStep ==
  ASSUME IInv, OrderInv, BaselineInv, [Next]_vars, "test" \notin completed, Open'
  PROVE  appProbes' # "migrated" /\ inp'.probes # "migrated"
<1>1. Open
  BY OpenShrinks
<1>2. appProbes' # "migrated"
  <2>1. CASE PrecheckDiscover
    BY <2>1, FoundOnSource
  <2>2. CASE TestDiscover
    BY <1>1, <2>2 DEF TestDiscover, Open
  <2>3. CASE ~PrecheckDiscover /\ ~TestDiscover
    BY <1>1, <2>3, LogFrame DEF log, LogBaseline, TestGreen, RolledBack,
       EngineerAnswers, BaselineInv
  <2> QED
    BY <2>1, <2>2, <2>3
<1>3. inp'.probes # "migrated"
  <2>1. CASE PrecheckDiscover
    BY <2>1, FoundOnSource
  <2>2. CASE \E in \in CallerInputs : Start(in)
    <3>1. PICK in \in CallerInputs : Start(in)
      BY <2>2
    <3>2. inp'.probes = IF in.workspace THEN appProbes ELSE in.probes
      BY <3>1 DEF Start, CallerInputs, Inputs
    <3> QED
      BY <1>1, <3>2 DEF CallerInputs, BaselineInv
  <2>3. CASE inp' = inp \/ inp' = NoInputs
    BY <1>1, <2>3 DEF NoInputs, BaselineInv
  <2> QED
    BY <2>1, <2>2, <2>3, InputsFrame
<1> QED
  BY <1>2, <1>3

\* Under that discipline BaselineInv is inductive.
LEMMA BaselineStep ==
  ASSUME ~EarlyLaunch, IInv, OrderInv, BaselineInv, [Next]_vars
  PROVE  BaselineInv'
<1>1. (pc \in {"baseline", "baselined"} => baseline = "none")'
  <2>1. CASE LogBaseline
    BY <2>1 DEF LogBaseline, Continue, Goto
  <2>2. CASE baseline' = baseline
    BY <2>2, ProbePoints DEF BaselineInv, PrecheckDiscover, BaselineProbe
  <2> QED
    BY <2>1, <2>2, OpenShrinks
<1>2. (Open /\ launched => cutover)'
  BY NotLaunchedStep
<1>3. ASSUME "test" \notin completed'
      PROVE  /\ baseline' # "migrated"
             /\ ledger'["discover-probes-baseline"].side # "migrated"
             /\ ledger'["baseline-probe"].side # "migrated"
             /\ pc' = "baseline" => targets' # "migrated"
             /\ pc' = "baselined" => obs'.side # "migrated"
             /\ Open' => appProbes' # "migrated" /\ inp'.probes # "migrated"
  <2>1. "test" \notin completed
    BY <1>3, CompletedGrows
  <2>2. baseline' # "migrated"
    BY <2>1, OpenShrinks DEF LogBaseline, BaselineInv
  <2>3. pc' = "baseline" => targets' # "migrated"
    BY <2>1, ProbePoints, FoundOnSource DEF BaselineInv
  <2>4. pc' = "baselined" => obs'.side # "migrated"
    BY <2>1, ProbePoints DEF BaselineProbe, Saw, BaselineInv
  <2> QED
    BY <2>1, <2>2, <2>3, <2>4, BaselineLedgerStep, ProbesStep
<1> QED
  BY <1>1, <1>2, <1>3 DEF BaselineInv

\* What the verdict is about was not probed on the source.
LEMMA AfterStep ==
  ASSUME IInv, AfterInv, [Next]_vars
  PROVE  AfterInv'
<1>1. ledger'["post-migration-probe"].side # "source"
  <2>1. CASE AfterProbe
    BY <2>1 DEF AfterProbe, Record, Saw, AfterInv, IInv, TypeOK, LedgerTyped,
       LedgerKey
  <2>2. CASE PrecheckDiscover \/ TestDiscover
    BY <2>2 DEF PrecheckDiscover, TestDiscover, Discover, Record, AfterInv, IInv,
       TypeOK, LedgerTyped, LedgerKey
  <2>3. CASE BaselineProbe \/ Replicate \/ Rollback \/ StartCutover
    BY <2>3 DEF BaselineProbe, Replicate, Rollback, StartCutover, Record,
       AfterInv,
       IInv, TypeOK, LedgerTyped, LedgerKey
  <2>4. CASE UNCHANGED ledger
    BY <2>4 DEF AfterInv
  <2> QED
    BY <2>1, <2>2, <2>3, <2>4, LedgerFrame
<1>2. pc' = "verdict" => obs'.side # "source"
  <2>1. CASE AfterProbe
    BY <2>1 DEF AfterProbe, Saw, AfterInv
  <2>2. CASE TestOnSuppliedDiffs
    BY <2>2 DEF TestOnSuppliedDiffs, Saw
  <2>3. CASE UNCHANGED <<pc, obs>>
    BY <2>3 DEF AfterInv
  <2> QED
    BY <2>1, <2>2, <2>3, ProbePoints
<1> QED
  BY <1>1, <1>2 DEF AfterInv

\* A green verdict is logged in the test step, on what that step probed.
LEMMA GreenStep ==
  ASSUME IInv, BaselineInv, AfterInv, GreenComparesTwoMachines, [Next]_vars
  PROVE  GreenComparesTwoMachines'
<1>1. CASE TestGreen
  <2>1. "test" \notin completed
    BY <1>1 DEF TestGreen, IInv, PlaceInv, PcStep
  <2>2. baseline # "migrated" /\ obs.side # "source"
    BY <1>1, <2>1 DEF TestGreen, BaselineInv, AfterInv
  <2>3. \A g \in greens' : g \in greens \/ (g.was = baseline /\ g.now = obs.side)
    BY <1>1 DEF TestGreen
  <2> QED
    BY <2>2, <2>3 DEF GreenComparesTwoMachines
<1>2. CASE greens' = greens
  BY <1>2 DEF GreenComparesTwoMachines
<1> QED
  BY <1>1, <1>2, LogFrame DEF log, PrecheckDiscover, LogBaseline, TestDiscover,
     RolledBack, EngineerAnswers

\* If test instances are launched only once the precheck had its chance, no
\* green verdict compares a machine with itself, whoever supplied probes and
\* wherever runs died and were taken up again.
THEOREM GreenVerdictsAreReal ==
  ~EarlyLaunch => (Spec => []GreenComparesTwoMachines)
<1>1. Init => OrderInv /\ BaselineInv /\ AfterInv /\ GreenComparesTwoMachines
  BY DEF Init, OrderInv, BaselineInv, AfterInv, GreenComparesTwoMachines, Open,
     NoInputs, Unset, LedgerKey
<1>2. Init => SidesInv
  BY <1>1, TypeInit DEF SidesInv, IInv, Init, PlaceInv, JudgedInv, Recorded,
     LedgerKey
<1> SUFFICES ASSUME ~EarlyLaunch PROVE Spec => []GreenComparesTwoMachines
  OBVIOUS
<1>3. SidesInv /\ [Next]_vars => SidesInv'
  BY IInvStep, OrderStep, BaselineStep, AfterStep, GreenStep DEF SidesInv
<1>4. SidesInv => GreenComparesTwoMachines
  BY DEF SidesInv
<1> QED
  BY <1>2, <1>3, <1>4, PTL DEF Spec

-----------------------------------------------------------------------------
\* The parity step comes after the cutover step.
ParityLast ==
  \A i, j \in DOMAIN Steps : Steps[i] = "cutover" /\ Steps[j] = "parity" => i < j

\* Where the traffic was rolled back, no step that would move it is left.
StandInv ==
  Recorded("parity-rollback") =>
    dns = "source" /\ ("cutover" \in StepNames => "cutover" \in completed)

\* The rollback's record, once more: only Rollback writes it.
LEMMA RollbackRecord ==
  TypeOK /\ [Next]_vars =>
    \/ ledger'["parity-rollback"] = ledger["parity-rollback"]
    \/ Rollback
<1> SUFFICES ASSUME TypeOK, [Next]_vars, ~Rollback
             PROVE  ledger'["parity-rollback"] = ledger["parity-rollback"]
  OBVIOUS
<1> USE DEF TypeOK, LedgerTyped, LedgerKey, Record
<1>1. CASE PrecheckDiscover \/ TestDiscover
  BY <1>1 DEF PrecheckDiscover, TestDiscover, Discover
<1>2. CASE BaselineProbe \/ Replicate \/ AfterProbe \/ StartCutover
  BY <1>2 DEF BaselineProbe, Replicate, AfterProbe, StartCutover
<1> QED
  BY <1>1, <1>2, LedgerFrame

LEMMA StandStep ==
  ASSUME ParityLast, IInv, StandInv, [Next]_vars
  PROVE  StandInv'
<1>g. completed \subseteq completed'
  BY CompletedGrows
<1>r. ledger'["parity-rollback"] = ledger["parity-rollback"] \/ Rollback
  BY RollbackRecord DEF IInv
<1>1. CASE Rollback /\ dns' = "source" /\ step = "parity"
  <2>1. PICK j \in DOMAIN Steps : Steps[j] = "parity" /\ Reached(j)
    BY <1>1 DEF Rollback, IInv, PlaceInv, CameTo
  <2>2. ASSUME NEW i \in DOMAIN Steps, Steps[i] = "cutover"
        PROVE  "cutover" \in completed
    <3>1. i < j /\ i \in Nat \ {0} /\ j \in Nat
      BY <2>1, <2>2, ConstantsTyped DEF ParityLast
    <3> QED
      BY <2>1, <2>2, <3>1 DEF Reached
  <2> QED
    BY <1>1, <1>g, <2>2 DEF StandInv, StepNames
<1>2. CASE Rollback /\ UNCHANGED <<dns, ledger>>
  BY <1>2, <1>g DEF StandInv, Recorded
<1>3. CASE FlipDns
  <2>1. "cutover" \in StepNames /\ "cutover" \notin completed
    BY <1>3 DEF FlipDns, IInv, PlaceInv, PcStep, CameTo, StepNames
  <2>2. ~Recorded("parity-rollback")
    BY <2>1 DEF StandInv
  <2> QED
    BY <1>3, <2>2 DEF FlipDns, StandInv, Recorded
<1>4. CASE ~Rollback /\ ~FlipDns
  <2>1. dns' = dns
    BY <1>4, WorldFrame DEF world, StartCutover, LaunchTest, TerminateTest,
       JobCompletes, ReplicationFinishes
  <2> QED
    BY <1>4, <1>g, <1>r, <2>1 DEF StandInv, Recorded
<1> QED
  BY <1>1, <1>2, <1>3, <1>4 DEF Rollback

\* If parity comes after the cutover in the contract, a parity rollback that
\* was carried out is never undone by a later run, whoever invokes it and
\* however it dies (Wave!RollbackStands).
THEOREM RollbacksStand == ParityLast => (Spec => []RollbackStands)
<1> SUFFICES ASSUME ParityLast PROVE Spec => []RollbackStands
  OBVIOUS
<1>1. Init => StandInv
  BY DEF Init, StandInv, Recorded, LedgerKey
<1>2. IInv /\ StandInv /\ [Next]_vars => StandInv'
  BY StandStep
<1>3. StandInv => RollbackStands
  BY DEF StandInv, RollbackStands
<1> QED
  BY <1>1, <1>2, <1>3, IInvAlways, PTL DEF Spec

-----------------------------------------------------------------------------
\* Only an end changes the outcome to ESCALATED.
LEMMA EscalatedStep ==
  ASSUME IInv, [Next]_vars, outcome' = "ESCALATED", outcome # "ESCALATED"
  PROVE  status' = "ESCALATED" \/ (step = "replicate" /\ inp.workspace)
<1> USE DEF Goto, End, EscalateStep, Continue
<1>1. CASE DriveJob
  <2>1. step = "replicate" /\ inp.workspace
    BY <1>1 DEF DriveJob, IInv, PlaceInv, PcStep
  <2> QED
    BY <2>1
<1>2. CASE RunStep /\ ~DriveJob
  BY <1>2 DEF RunStep, Gate, Advance, Complete, Finish, PrecheckKnown,
     PrecheckDiscover, BaselineProbe, BaselineFails, LogBaseline, Interpret,
     Replicate, Ready, TestCannotJudge, TestOnSuppliedDiffs, TestDiscover,
     TestOnSource, AfterProbe, AfterProbeFails, TestGreen, ParityGreen, Red,
     Rollback, RolledBack, CutoverRefused, CutoverSkipped, FlipDns, StartCutover,
     Finops
<1>3. CASE Around
  BY <1>3 DEF Around, Crash, AgentEscalate, ResolveGate, EngineerAnswers,
     LaunchTest, TerminateTest, JobCompletes, ReplicationFinishes, run
<1>4. CASE Invoke \/ Tick \/ UNCHANGED vars
  BY <1>4 DEF Invoke, Tick, Start, vars, run
<1> QED
  BY <1>1, <1>2, <1>3, <1>4 DEF Next

\* Every escalation but those of the Transform drive marks the row as it ends
\* the run (Wave!EscalatedIsMarked).
THEOREM EscalationsAreMarked == Spec => EscalatedIsMarked
<1>1. IInv /\ [Next]_vars =>
        [outcome' = "ESCALATED" /\ outcome # "ESCALATED" =>
           status' = "ESCALATED" \/ (step = "replicate" /\ inp.workspace)]_vars
  BY EscalatedStep
<1> QED
  BY <1>1, IInvAlways, PTL DEF Spec, EscalatedIsMarked

-----------------------------------------------------------------------------
\* The cutover that is about to start was permitted, and replication has one
\* result.
PermitInv ==
  /\ pc = "start" => Permitted
  /\ ledger["replicate"] \in {Unset, Saw("none", FALSE)}

\* A denied run records nothing new but a rollback.
LEMMA DeniedLedger ==
  ASSUME TypeOK, PermitInv, inp.denies, [Next]_vars,
         NEW k \in LedgerKey \ {"parity-rollback"}
  PROVE  ledger'[k] = ledger[k]
<1> USE DEF TypeOK, LedgerTyped, LedgerKey, Record, Permitted
<1>1. CASE PrecheckDiscover \/ TestDiscover
  <2>1. PICK d \in {"discover-probes-baseline", "discover-probes-after"} : Discover(d)
    BY <1>1 DEF PrecheckDiscover, TestDiscover
  <2> QED
    BY <2>1 DEF Discover
<1>2. CASE BaselineProbe \/ AfterProbe
  BY <1>2 DEF BaselineProbe, AfterProbe
<1>3. CASE Replicate
  BY <1>3 DEF Replicate, Recorded, PermitInv
<1>4. CASE Rollback
  BY <1>4 DEF Rollback
<1>5. CASE StartCutover
  BY <1>5 DEF StartCutover, PermitInv
<1> QED
  BY <1>1, <1>2, <1>3, <1>4, <1>5, LedgerFrame

LEMMA PermitStep ==
  ASSUME TypeOK, PermitInv, [Next]_vars
  PROVE  PermitInv'
<1>1. (pc = "start" => Permitted)'
  <2> SUFFICES ASSUME pc' = "start" PROVE ~inp.denies'
    BY DEF Permitted
  <2> USE DEF Goto, End, EscalateStep, Continue
  <2>1. CASE FlipDns
    BY <2>1 DEF FlipDns, Permitted
  <2>2. CASE UNCHANGED <<pc, inp>>
    BY <2>2 DEF PermitInv, Permitted
  <2>3. RunStep => FlipDns
    BY DEF RunStep, Gate, Advance, Handled, Complete, Finish, PrecheckKnown,
       PrecheckDiscover, BaselineProbe, BaselineFails, LogBaseline, Interpret,
       Replicate, Ready, DriveJob, TestCannotJudge, TestOnSuppliedDiffs,
       TestDiscover, TestOnSource, AfterProbe, AfterProbeFails, TestGreen,
       ParityGreen, Red, Rollback, RolledBack, CutoverRefused, CutoverSkipped,
       StartCutover, Finops
  <2>4. Around => UNCHANGED <<pc, inp>>
    BY DEF Around, Crash, AgentEscalate, ResolveGate, EngineerAnswers,
       LaunchTest, TerminateTest, JobCompletes, ReplicationFinishes, run
  <2>5. ~(Invoke \/ Tick)
    BY DEF Invoke, Tick, Start
  <2> QED
    BY <2>1, <2>2, <2>3, <2>4, <2>5 DEF Next, vars, run
<1>2. ledger'["replicate"] \in {Unset, Saw("none", FALSE)}
  <2> USE DEF TypeOK, LedgerTyped, LedgerKey, Record, PermitInv
  <2>1. CASE Replicate
    BY <2>1 DEF Replicate
  <2>2. CASE PrecheckDiscover \/ TestDiscover
    <3>1. PICK d \in {"discover-probes-baseline", "discover-probes-after"} : Discover(d)
      BY <2>2 DEF PrecheckDiscover, TestDiscover
    <3> QED
      BY <3>1 DEF Discover
  <2>3. CASE BaselineProbe \/ AfterProbe \/ Rollback \/ StartCutover
    BY <2>3 DEF BaselineProbe, AfterProbe, Rollback, StartCutover
  <2> QED
    BY <2>1, <2>2, <2>3, LedgerFrame
<1> QED
  BY <1>1, <1>2 DEF PermitInv

LEMMA DeniedWorld ==
  ASSUME PermitInv, inp.denies, [Next]_vars
  PROVE  cutover' = cutover /\ dns' \in {dns, "source"}
<1>1. ~FlipDns /\ ~StartCutover
  BY DEF FlipDns, StartCutover, PermitInv, Permitted
<1> QED
  BY <1>1, WorldFrame DEF world, Rollback, LaunchTest, TerminateTest, JobCompletes,
     ReplicationFinishes

\* A run whose contract denies its steps carries out none of them, whatever it
\* finds recorded (Wave!PolicyHolds).
THEOREM DeniedRunsDoNothing == Spec => PolicyHolds
<1>1. Init => PermitInv
  BY DEF Init, PermitInv, LedgerKey
<1>2. TypeOK /\ PermitInv /\ [Next]_vars => PermitInv'
  BY PermitStep
<1>3. TypeOK /\ PermitInv /\ [Next]_vars =>
        [inp.denies =>
           /\ cutover' = cutover /\ dns' \in {dns, "source"}
           /\ \A k \in LedgerKey \ {"parity-rollback"} : ledger'[k] = ledger[k]]_vars
  BY DeniedLedger, DeniedWorld
<1> QED
  BY <1>1, <1>2, <1>3, TypeCorrect, PTL DEF Spec, PolicyHolds

-----------------------------------------------------------------------------
\* A run inside a step has the row in that step's status, one that rolls back
\* in ROLLING_BACK.
StatusInv ==
  /\ pc \in {"rolling", "rolled"} => status = "ROLLING_BACK"
  /\ pc \notin {"idle", "gate", "next", "complete", "rolling", "rolled"} =>
       status = StepStatus[step]

\* The statuses a run finds where it writes the row without a look at the table.
LEMMA StatusAt ==
  ASSUME PlaceInv, StatusInv
  PROVE  /\ pc = "baseline" => status = "PRECHECK"
         /\ pc = "interpret" => status = "INTERPRETING"
         /\ pc = "replicate" => status = "REPLICATING"
         /\ pc \in {"test", "after", "verdict"} => status = "TESTING"
         /\ pc \in {"cutover", "start"} => status = "CUTTING_OVER"
         /\ pc = "rolled" => status = "ROLLING_BACK"
  BY DEF PlaceInv, PcStep, StatusInv, StepStatus

\* Every step of the system keeps it.
LEMMA StatusStep ==
  ASSUME TypeOK, PlaceInv, StatusInv, [Next]_vars
  PROVE  StatusInv'
<1> USE DEF Goto, End, EscalateStep, Continue, row, run, StatusInv
<1>1. CASE UNCHANGED <<status, run>>
  BY <1>1
<1>2. CASE Advance
  BY <1>2 DEF Advance, Handled
<1>3. CASE Gate \/ Complete \/ Finish \/ BaselineFails \/ TestCannotJudge
           \/ TestOnSource \/ AfterProbeFails \/ RolledBack \/ CutoverRefused
           \/ Crash
  BY <1>3 DEF Gate, Complete, Finish, BaselineFails, TestCannotJudge,
     TestOnSource, AfterProbeFails, RolledBack, CutoverRefused, Crash
<1>4. CASE PrecheckKnown \/ LogBaseline \/ Finops \/ TestGreen \/ ParityGreen
           \/ CutoverSkipped \/ StartCutover
  BY <1>4 DEF PrecheckKnown, LogBaseline, Finops, TestGreen, ParityGreen,
     CutoverSkipped, StartCutover
<1>5. CASE PrecheckDiscover \/ BaselineProbe \/ FlipDns
  BY <1>5 DEF PrecheckDiscover, BaselineProbe, FlipDns
<1>6. CASE Interpret \/ Replicate \/ Ready \/ DriveJob
  BY <1>6 DEF Interpret, Replicate, Ready, DriveJob
<1>7. CASE TestOnSuppliedDiffs \/ TestDiscover \/ AfterProbe
  BY <1>7 DEF TestOnSuppliedDiffs, TestDiscover, AfterProbe
<1>8. CASE Red \/ Rollback
  BY <1>8 DEF Red, Rollback
<1>9. CASE ResolveGate \/ EngineerAnswers \/ LaunchTest \/ TerminateTest
           \/ JobCompletes \/ ReplicationFinishes
  BY <1>1, <1>9 DEF ResolveGate, EngineerAnswers, LaunchTest, TerminateTest,
     JobCompletes, ReplicationFinishes
<1>10. CASE AgentEscalate
  BY <1>10 DEF AgentEscalate
<1>11. CASE Invoke \/ Tick
  BY <1>11 DEF Invoke, Tick, Start
<1> QED
  BY <1>1, <1>2, <1>3, <1>4, <1>5, <1>6, <1>7, <1>8, <1>9, <1>10, <1>11
     DEF Next, RunStep, Around, vars

\* What a handler's escalation or rollback writes is a move of the table.
LEMMA MoveStep ==
  ASSUME PlaceInv, StatusInv, [Next]_vars
  PROVE  CanMove(status, status')
<1> USE DEF EscalateStep, Continue, row, CanMove
<1>1. CASE UNCHANGED row
  BY <1>1
<1>2. CASE Gate \/ Advance \/ Finish \/ Red \/ AgentEscalate \/ Complete
  BY <1>2 DEF Gate, Advance, Finish, Red, AgentEscalate, Complete
<1>3. CASE BaselineFails \/ Interpret \/ Replicate \/ DriveJob
  BY <1>3, StatusAt DEF BaselineFails, Interpret, Replicate, DriveJob, Targets
<1>4. CASE TestCannotJudge \/ TestOnSource \/ AfterProbeFails \/ CutoverRefused
  BY <1>4, StatusAt DEF TestCannotJudge, TestOnSource, AfterProbeFails,
     CutoverRefused, Targets
<1>5. CASE RolledBack
  BY <1>5, StatusAt DEF RolledBack, Targets
<1> QED
  BY <1>1, <1>2, <1>3, <1>4, <1>5, RowFrame

\* The invariant so far.
RowInv == IInv /\ OrderInv /\ StatusInv

LEMMA RowInvAlways == Spec => []RowInv
<1>1. Init => OrderInv /\ StatusInv
  BY DEF Init, OrderInv, StatusInv
<1>2. IInv /\ OrderInv /\ StatusInv /\ [Next]_vars => OrderInv' /\ StatusInv'
  BY OrderStep, StatusStep DEF IInv
<1> QED
  BY <1>1, <1>2, IInvAlways, PTL DEF Spec, RowInv

\* A wave's status moves by the table alone, also where a handler escalates or
\* ends a rollback without a look at it: neither assert_legal nor put_wave ever
\* refuses what a step's handler writes (state/transitions.py).
THEOREM StatusMovesByTable == Spec => [][CanMove(status, status')]_vars
<1>1. RowInv /\ [Next]_vars => [CanMove(status, status')]_vars
  BY MoveStep DEF RowInv, IInv
<1> QED
  BY <1>1, RowInvAlways, PTL DEF Spec

-----------------------------------------------------------------------------
\* What the post-migration probe has on record.
LastProbe == ledger["post-migration-probe"]

\* Once a verdict is green the ones that follow are green too, or roll the
\* wave back: they judge the same record, or the caller's own differences.
LatestInv ==
  /\ verdict = "red" => status = "ROLLED_BACK"
  /\ greens # {} => verdict \in {"green", "red"}
  /\ pc = "after" => baseline # "none"
  /\ pc = "verdict" => IF baseline = "none" THEN obs.differs ELSE obs = LastProbe
  /\ greens # {} /\ "test" \notin completed =>
       baseline = "none" \/ LastProbe.differs

\* The after-probe is recorded once.
LEMMA LastProbeRecord ==
  TypeOK /\ [Next]_vars => LastProbe' = LastProbe \/ (AfterProbe /\ LastProbe = Unset)
<1> SUFFICES ASSUME TypeOK, [Next]_vars, LastProbe' # LastProbe
             PROVE  AfterProbe /\ LastProbe = Unset
  OBVIOUS
<1> USE DEF TypeOK, LedgerTyped, LedgerKey, Record, LastProbe
<1>1. CASE AfterProbe
  BY <1>1 DEF AfterProbe, Recorded
<1>2. CASE PrecheckDiscover \/ TestDiscover
  <2>1. PICK d \in {"discover-probes-baseline", "discover-probes-after"} : Discover(d)
    BY <1>2 DEF PrecheckDiscover, TestDiscover
  <2> QED
    BY <2>1 DEF Discover
<1>3. CASE BaselineProbe \/ Replicate \/ Rollback \/ StartCutover
  BY <1>3 DEF BaselineProbe, Replicate, Rollback, StartCutover
<1> QED
  BY <1>1, <1>2, <1>3, LedgerFrame

\* The baseline is not measured while a test with a green verdict is ahead:
\* the precheck is complete, or not yet the wave's to do.
LEMMA BaselineSettled ==
  ASSUME IInv, OrderInv, greens # {}, "test" \notin completed, [Next]_vars
  PROVE  baseline' = baseline
<1>1. CASE LogBaseline
  <2>1. CameTo("precheck") /\ "precheck" \notin completed /\ CameTo("test")
    BY <1>1 DEF LogBaseline, IInv, PlaceInv, PcStep, OrderInv
  <2> QED
    BY <2>1, FirstIncomplete
<1> QED
  BY <1>1, LogFrame DEF log, PrecheckDiscover, TestDiscover, TestGreen, RolledBack,
     EngineerAnswers

\* The after-probe and the verdict are of the test step, with a baseline.
LEMMA JudgingPoints ==
  ASSUME TypeOK, LatestInv, [Next]_vars
  PROVE  /\ pc' = "after" => baseline' # "none"
         /\ pc' = "verdict" =>
              IF baseline' = "none" THEN obs'.differs ELSE obs' = LastProbe'
<1> USE DEF Goto, End, EscalateStep, Continue, run, log, LatestInv, LastProbe
<1>1. CASE UNCHANGED <<run, baseline, ledger>>
  BY <1>1
<1>2. CASE RunStep
  <2>1. pc' = "after" => TestDiscover
    BY <1>2 DEF RunStep, Gate, Advance, Handled,
     Complete, Finish, PrecheckKnown, PrecheckDiscover, BaselineProbe,
     TestOnSuppliedDiffs, AfterProbe, BaselineFails, LogBaseline, Interpret,
     Replicate, Ready, DriveJob, TestCannotJudge, TestOnSource, AfterProbeFails,
     TestGreen, ParityGreen, Red, Rollback, RolledBack, CutoverRefused,
     CutoverSkipped, FlipDns, StartCutover, Finops
  <2>2. pc' = "verdict" => TestOnSuppliedDiffs \/ AfterProbe
    BY <1>2 DEF RunStep, Gate, Advance, Handled,
     Complete, Finish, PrecheckKnown, PrecheckDiscover, BaselineProbe,
     TestDiscover, BaselineFails, LogBaseline, Interpret,
     Replicate, Ready, DriveJob, TestCannotJudge, TestOnSource, AfterProbeFails,
     TestGreen, ParityGreen, Red, Rollback, RolledBack, CutoverRefused,
     CutoverSkipped, FlipDns, StartCutover, Finops
  <2>3. TestDiscover => baseline' # "none" /\ pc' = "after"
    BY DEF TestDiscover
  <2>4. TestOnSuppliedDiffs => baseline' = "none" /\ obs'.differs /\ pc' = "verdict"
    BY DEF TestOnSuppliedDiffs, Saw
  <2>5. AfterProbe =>
               baseline' # "none" /\ obs' = LastProbe' /\ pc' = "verdict"
    BY DEF AfterProbe, Record, TypeOK, LedgerTyped, LedgerKey
  <2> QED
    BY <2>1, <2>2, <2>3, <2>4, <2>5
<1>3. CASE Around
  BY <1>1, <1>3 DEF Around, Crash, AgentEscalate, ResolveGate, EngineerAnswers,
     LaunchTest, TerminateTest, JobCompletes, ReplicationFinishes
<1>4. CASE Invoke \/ Tick
  BY <1>4 DEF Invoke, Tick, Start
<1> QED
  BY <1>1, <1>2, <1>3, <1>4 DEF Next, vars

\* What follows a green verdict.
LEMMA VerdictStep ==
  ASSUME RowInv, LatestInv, [Next]_vars
  PROVE  /\ verdict' = "red" => status' = "ROLLED_BACK"
         /\ greens' # {} => verdict' \in {"green", "red"}
<1>1. CanMove(status, status')
  BY MoveStep DEF RowInv, IInv
<1>2. status = "ROLLED_BACK" => status' = "ROLLED_BACK"
  BY <1>1 DEF CanMove, Targets
<1>3. CASE TestGreen
  <2>1. "test" \notin completed
    BY <1>3 DEF TestGreen, RowInv, IInv, PlaceInv, PcStep
  <2>2. greens # {} => obs.differs
    BY <1>3, <2>1 DEF TestGreen, LatestInv
  <2> QED
    BY <1>3, <2>2 DEF TestGreen
<1>4. CASE RolledBack
  BY <1>4 DEF RolledBack, LatestInv
<1>5. CASE UNCHANGED <<verdict, greens>>
  BY <1>2, <1>5 DEF LatestInv
<1> QED
  BY <1>3, <1>4, <1>5, LogFrame DEF log, PrecheckDiscover, LogBaseline,
     TestDiscover, EngineerAnswers

\* What a green verdict was judged on stays as it was.
LEMMA JudgedOnStep ==
  ASSUME RowInv, LatestInv, [Next]_vars, greens' # {}, "test" \notin completed'
  PROVE  baseline' = "none" \/ LastProbe'.differs
<1>1. "test" \notin completed
  BY CompletedGrows
<1>2. CASE TestGreen
  BY <1>1, <1>2 DEF TestGreen, LatestInv, LastProbe
<1>3. CASE greens # {} /\ ~TestGreen
  <2>1. baseline' = baseline
    BY <1>1, <1>3, BaselineSettled DEF RowInv
  <2>2. LastProbe' = LastProbe \/ LastProbe = Unset
    BY LastProbeRecord DEF RowInv, IInv
  <2> QED
    BY <1>1, <1>3, <2>1, <2>2 DEF LatestInv, Unset
<1>4. greens' = greens \/ TestGreen
  BY LogFrame DEF log, PrecheckDiscover, LogBaseline, TestDiscover, RolledBack,
     EngineerAnswers
<1> QED
  BY <1>2, <1>3, <1>4

LEMMA LatestStep == RowInv /\ LatestInv /\ [Next]_vars => LatestInv'
  BY JudgingPoints, VerdictStep, JudgedOnStep DEF LatestInv, RowInv, IInv

\* The cutover is never started on an older verdict than a later one that said
\* red or judged nothing, in whatever order the contract has its steps and
\* however often the test ran (Wave!CutoverOnLatestVerdict).
THEOREM CutoverIsOnLatestVerdict == Spec => CutoverOnLatestVerdict
<1>1. Init => LatestInv
  BY DEF Init, LatestInv
<1>2. RowInv /\ LatestInv /\ [Next]_vars => LatestInv'
  BY LatestStep
<1>3. RowInv /\ LatestInv /\ [Next]_vars =>
        [~cutover /\ cutover' => verdict = "green"]_vars
  <2> SUFFICES ASSUME RowInv, LatestInv, [Next]_vars, ~cutover, cutover'
               PROVE  verdict = "green"
    OBVIOUS
  <2>1. pc = "start"
    BY WorldFrame DEF world, Rollback, FlipDns, StartCutover, LaunchTest,
       TerminateTest, JobCompletes, ReplicationFinishes
  <2>2. status = "CUTTING_OVER"
    BY <2>1, StatusAt DEF RowInv, IInv
  <2>3. greens # {}
    BY <2>1 DEF RowInv, IInv, JudgedInv
  <2> QED
    BY <2>2, <2>3 DEF LatestInv
<1> QED
  BY <1>1, <1>2, <1>3, RowInvAlways, PTL DEF Spec, CutoverOnLatestVerdict

-----------------------------------------------------------------------------
\* As long as no run died, a run that rolled back has the row in ROLLING_BACK,
\* or has left it in ROLLED_BACK.
FinalInv ==
  Recorded("parity-rollback") /\ crashes = 0 =>
    \/ pc = "rolled" /\ status = "ROLLING_BACK"
    \/ status = "ROLLED_BACK"

\* A run that has sent its rollback goes on to ROLLED_BACK, or dies.
LEMMA LeavesRolled ==
  ASSUME [Next]_vars, pc = "rolled", ~Crash
  PROVE  UNCHANGED <<pc, status>> \/ (RolledBack /\ status' = "ROLLED_BACK")
<1>1. RunStep => RolledBack
  BY DEF RunStep, Gate, Advance, Complete, Finish, PrecheckKnown,
     PrecheckDiscover, BaselineProbe, BaselineFails, LogBaseline, Interpret,
     Replicate, Ready, DriveJob, TestCannotJudge, TestOnSuppliedDiffs,
     TestDiscover, TestOnSource, AfterProbe, AfterProbeFails, TestGreen,
     ParityGreen, Red, Rollback, CutoverRefused, CutoverSkipped, FlipDns,
     StartCutover, Finops
<1>2. Around => UNCHANGED <<pc, status>>
  BY DEF Around, AgentEscalate, ResolveGate, EngineerAnswers, LaunchTest,
     TerminateTest, JobCompletes, ReplicationFinishes, run, row
<1>3. ~(Invoke \/ Tick)
  BY DEF Invoke, Tick, Start
<1> QED
  BY <1>1, <1>2, <1>3 DEF Next, RolledBack, vars, run, row

\* Every step keeps it: only a death could come between the two.
LEMMA FinalStep ==
  ASSUME RowInv, FinalInv, [Next]_vars
  PROVE  FinalInv'
<1> SUFFICES ASSUME Recorded("parity-rollback")', crashes' = 0
             PROVE  \/ pc' = "rolled" /\ status' = "ROLLING_BACK"
                    \/ status' = "ROLLED_BACK"
  BY DEF FinalInv
<1>1. crashes = 0 /\ ~Crash
  BY CrashesCount DEF Crash, RowInv, IInv, TypeOK
<1>2. CASE status = "ROLLED_BACK"
  <2>1. CanMove(status, status')
    BY MoveStep DEF RowInv, IInv
  <2> QED
    BY <1>2, <2>1 DEF CanMove, Targets
<1>3. CASE Rollback
  <2>1. StatusInv'
    BY StatusStep DEF RowInv, IInv
  <2> QED
    BY <1>3, <2>1 DEF Rollback, Goto, StatusInv
<1>4. CASE ~Rollback /\ pc = "rolled" /\ status = "ROLLING_BACK"
  BY <1>1, <1>4, LeavesRolled
<1> QED
  BY <1>1, <1>2, <1>3, <1>4, RollbackRecord DEF FinalInv, Recorded, RowInv, IInv

\* As long as no run of it has died, a wave whose parity rollback was carried
\* out is never reported DONE (Wave!RollbackIsFinal).
THEOREM RollbacksAreFinal == Spec => [](crashes = 0 => RollbackIsFinal)
<1>1. Init => FinalInv
  BY DEF Init, FinalInv, Recorded, LedgerKey
<1>2. RowInv /\ FinalInv /\ [Next]_vars => FinalInv'
  BY FinalStep
<1>3. FinalInv => (crashes = 0 => RollbackIsFinal)
  BY DEF FinalInv, RollbackIsFinal
<1> QED
  BY <1>1, <1>2, <1>3, RowInvAlways, PTL DEF Spec

\* Which is so for good where none may die: the instance run wave_settles has.
COROLLARY UndyingRollbacksAreFinal ==
  MaxCrashes = 0 => (Spec => []RollbackIsFinal)
<1> SUFFICES ASSUME MaxCrashes = 0 PROVE Spec => []RollbackIsFinal
  OBVIOUS
<1>1. Init => crashes = 0
  BY DEF Init
<1>2. crashes = 0 /\ [Next]_vars => (crashes = 0)'
  BY CrashesCount DEF Crash
<1> QED
  BY <1>1, <1>2, RollbacksAreFinal, PTL DEF Spec

-----------------------------------------------------------------------------
\* No step is recorded complete before all the steps the contract puts ahead of
\* it are, whichever runs completed them ("the walk is resumable": run_wave
\* skips what completed_steps holds and takes the rest in order).
THEOREM CompletedInOrder == Spec => [](\A s \in completed : CameTo(s))
<1>1. Init => \A s \in completed : CameTo(s)
  BY DEF Init
<1>2. IInv /\ (\A s \in completed : CameTo(s)) /\ [Next]_vars =>
        (\A s \in completed : CameTo(s))'
  <2> SUFFICES ASSUME IInv, \A s \in completed : CameTo(s), [Next]_vars,
                      NEW s \in completed'
               PROVE  CameTo(s)'
    OBVIOUS
  <2>1. s \in completed \/ (pc = "complete" /\ s = step)
    BY CompletedGrows DEF Complete
  <2>2. CameTo(s)
    BY <2>1 DEF IInv, PlaceInv
  <2> QED
    BY <2>2, CameToStays
<1> QED
  BY <1>1, <1>2, IInvAlways, PTL DEF Spec

-----------------------------------------------------------------------------
\* A step that is about to be recorded complete is the one the row says is
\* running, or the interpret step that left the wave to a person.
SaidInv == pc = "complete" => ROW!Running(step)

\* The abstract row reads the same table.
LEMMA SameTable ==
  /\ ROW!StepStatus = StepStatus
  /\ DOMAIN StepStatus = Handled
  /\ \A s : ROW!Targets(s) = Targets(s)
  BY DEF ROW!StepStatus, StepStatus, Handled, ROW!Targets, Targets, ROW!Active, Active

\* The row is not written between the end of a handler and its record.
LEMMA SaidStep ==
  ASSUME TypeOK, PlaceInv, StatusInv, SaidInv, [Next]_vars
  PROVE  SaidInv'
<1> USE DEF Goto, End, EscalateStep, Continue, row, run, SaidInv
<1>1. CASE UNCHANGED <<status, run>>
  BY <1>1 DEF ROW!Running
<1>2. CASE Advance
  <2>1. pc' = "complete" => step' \notin Handled
    BY <1>2 DEF Advance, Handled
  <2> QED
    BY <2>1, SameTable DEF ROW!Running
<1>3. CASE Gate \/ Complete \/ Finish \/ BaselineFails \/ TestCannotJudge
           \/ TestOnSource \/ AfterProbeFails \/ RolledBack \/ CutoverRefused
           \/ Crash
  BY <1>3 DEF Gate, Complete, Finish, BaselineFails, TestCannotJudge,
     TestOnSource, AfterProbeFails, RolledBack, CutoverRefused, Crash
<1>4. CASE PrecheckKnown \/ PrecheckDiscover \/ LogBaseline \/ Finops \/ TestGreen
           \/ ParityGreen \/ CutoverSkipped \/ StartCutover \/ Ready
  <2>1. pc' = "complete" => step' = step /\ status' = status /\ status = StepStatus[step]
    BY <1>4 DEF PrecheckKnown, PrecheckDiscover, LogBaseline, Finops, TestGreen,
       ParityGreen, CutoverSkipped, StartCutover, Ready, StatusInv
  <2> QED
    BY <2>1, SameTable DEF ROW!Running
<1>5. CASE Interpret
  <2>1. pc' = "complete" =>
          /\ step' = "interpret"
          /\ status' \in {StepStatus["interpret"], "ESCALATED"}
    BY <1>5 DEF Interpret, PlaceInv, PcStep, StatusInv
  <2> QED
    BY <2>1, SameTable DEF ROW!Running
<1>6. CASE DriveJob
  <2>1. pc' = "complete" => step' = step /\ status' = status /\ status = StepStatus[step]
    <3>1. \A e \in DriveEnds(job) : e.signal = "CONTINUE" => ~e.marked
      BY DEF DriveEnds, Ends, Handover
    <3> QED
      BY <1>6, <3>1 DEF DriveJob, StatusInv
  <2> QED
    BY <2>1, SameTable DEF ROW!Running
<1>7. CASE BaselineProbe \/ FlipDns \/ Replicate \/ TestOnSuppliedDiffs
           \/ TestDiscover \/ AfterProbe \/ Red \/ Rollback
  BY <1>7 DEF BaselineProbe, FlipDns, Replicate, TestOnSuppliedDiffs, TestDiscover,
     AfterProbe, Red, Rollback
<1>8. CASE ResolveGate \/ EngineerAnswers \/ LaunchTest \/ TerminateTest
           \/ JobCompletes \/ ReplicationFinishes
  BY <1>1, <1>8 DEF ResolveGate, EngineerAnswers, LaunchTest, TerminateTest,
     JobCompletes, ReplicationFinishes
<1>9. CASE AgentEscalate \/ Invoke \/ Tick
  BY <1>9 DEF AgentEscalate, Invoke, Tick, Start
<1> QED
  BY <1>1, <1>2, <1>3, <1>4, <1>5, <1>6, <1>7, <1>8, <1>9
     DEF Next, RunStep, Around, vars

\* Recording a step is the abstract row's.
LEMMA CompleteRefines ==
  ASSUME IInv, SaidInv, Complete
  PROVE  ROW!Extend
<1>1. step \notin completed /\ CameTo(step) /\ ROW!Running(step)
  BY DEF Complete, SaidInv, IInv, PlaceInv
<1>2. PICK j \in DOMAIN Steps : Steps[j] = step /\ \A k \in 1..(j - 1) : Steps[k] \in completed
  BY <1>1 DEF CameTo, Reached
<1> QED
  BY <1>1, <1>2 DEF Complete, ROW!Extend

\* Every step of the system takes the abstract row one step, or none.
LEMMA RowRefines ==
  ASSUME RowInv, SaidInv, [Next]_vars
  PROVE  ROW!Next \/ UNCHANGED ROW!vars
<1>1. CASE Complete
  BY <1>1, CompleteRefines DEF RowInv, ROW!Next
<1>2. CASE completed' = completed
  <2>1. status' = status \/ status' \in ROW!Targets(status)
    BY MoveStep, SameTable DEF RowInv, IInv, CanMove
  <2>2. status' = "DONE" => \A j \in DOMAIN Steps : Steps[j] \in completed
    BY <1>2, IInvStep DEF RowInv, IInv, JudgedInv
  <2> QED
    BY <1>2, <2>1, <2>2 DEF ROW!Next, ROW!Move, ROW!vars
<1> QED
  BY <1>1, <1>2, CompletedGrows

\* A wave is the row its readers know, whatever its runs find, skip, escalate
\* or leave half done: one move of the table at a time, one completed step at a
\* time, in the contract's order and under that step's own status, and DONE
\* only when all of them are there.
THEOREM WaveImplementsRow == Spec => ImplementsRow
<1>1. Init => ROW!Init /\ SaidInv
  BY DEF Init, ROW!Init, SaidInv
<1>2. RowInv /\ SaidInv /\ [Next]_vars => SaidInv'
  BY SaidStep DEF RowInv, IInv
<1>3. RowInv /\ SaidInv /\ [Next]_vars => [ROW!Next]_(ROW!vars)
  BY RowRefines
<1> QED
  BY <1>1, <1>2, <1>3, RowInvAlways, PTL DEF Spec, ImplementsRow, ROW!Spec
=============================================================================
