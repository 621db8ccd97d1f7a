-------------------------- MODULE StepLedgerProofs --------------------------
(***************************************************************************)
(* What holds of the step ledger for every set of calls, keys and results. *)
(***************************************************************************)
EXTENDS StepLedger, TLAPS

\* An invocation that has run its effect holds a result that policy allowed
\* and that is not recorded as a rejection.
PerformedInv ==
  \A i \in Invocation :
    /\ pc[i] \in {"put", "reread", "return"} => i \in performed /\ result[i] \in Result
    /\ pc[i] \in {"effect", "put", "reread", "return"} => allowed[i]
    /\ i \in performed =>
         /\ pc[i] \in {"put", "reread", "return", "done"}
         /\ allowed[i]
         /\ outcome[i] # "rejected"

\* What an invocation is about to return, or has returned, is on record.
AnswerInv ==
  \A i \in Invocation :
    /\ pc[i] = "reread" => ledger[key[i]] # None
    /\ (pc[i] = "return" \/ outcome[i] = "ok")
         => ledger[key[i]] # None /\ result[i] = ledger[key[i]]

\* A call that found a result on record is answered with it or not at all.
SeenInv ==
  \A i \in Invocation :
    /\ pc[i] = "idle" => seen[i] = None
    /\ seen[i] # None =>
         /\ pc[i] \in {"get", "done"}
         /\ i \notin performed
         /\ outcome[i] # "rejected"
         /\ ledger[key[i]] = seen[i]

IInv == TypeOK /\ PerformedInv /\ RecordedWasPerformed

FreshInv == IInv /\ AnswerInv /\ SeenInv
-----------------------------------------------------------------------------
\* Every step keeps the types.
LEMMA TypeStep == TypeOK /\ [Next]_vars => TypeOK'
<1> SUFFICES ASSUME TypeOK, [Next]_vars PROVE TypeOK'
  OBVIOUS
<1> USE DEF TypeOK, PC, Outcome, Maybe, Step, End
<1>1. CASE UNCHANGED vars
  BY <1>1 DEF vars
<1>2. ASSUME NEW i \in Invocation, Dispatch(i) PROVE TypeOK'
  <2>1. CASE Call(i)
    BY <2>1 DEF Call
  <2>2. CASE GetHit(i)
    BY <2>2 DEF GetHit, Reads
  <2>3. CASE GetMiss(i)
    BY <2>3 DEF GetMiss
  <2>4. CASE GuardPass(i)
    BY <2>4 DEF GuardPass
  <2>5. CASE GuardReject(i)
    BY <2>5 DEF GuardReject
  <2>6. CASE EffectOk(i)
    BY <2>6 DEF EffectOk
  <2>7. CASE EffectRaises(i)
    BY <2>7 DEF EffectRaises
  <2>8. CASE PutWins(i)
    BY <2>8 DEF PutWins
  <2>9. CASE PutLoses(i)
    BY <2>9 DEF PutLoses
  <2>10. CASE Reread(i)
    BY <2>10 DEF Reread, Reads
  <2>11. CASE Return(i)
    BY <2>11 DEF Return
  <2>12. CASE Crash(i)
    BY <2>12 DEF Crash
  <2> QED
    BY <1>2, <2>1, <2>2, <2>3, <2>4, <2>5, <2>6, <2>7, <2>8, <2>9, <2>10,
       <2>11, <2>12 DEF Dispatch
<1> QED
  BY <1>1, <1>2 DEF Next

\* The dispatcher's variables keep their types, whatever reads return.
THEOREM TypeCorrect == Spec => []TypeOK
<1>1. Init => TypeOK
  BY DEF Init, TypeOK, PC, Outcome, Maybe
<1> QED
  BY <1>1, TypeStep, PTL DEF Spec
-----------------------------------------------------------------------------
\* A record is never replaced: the only write is conditional.
LEMMA WriteOnce ==
  ASSUME TypeOK, [Next]_vars, NEW k \in Key, ledger[k] # None
  PROVE  ledger'[k] = ledger[k]
<1>1. CASE UNCHANGED vars
  BY <1>1 DEF vars
<1>2. ASSUME NEW i \in Invocation, Dispatch(i) PROVE ledger'[k] = ledger[k]
  <2>1. CASE PutWins(i)
    BY <2>1 DEF PutWins, TypeOK
  <2> QED
    BY <1>2, <2>1 DEF Dispatch, Call, GetHit, GetMiss, GuardPass, GuardReject,
       EffectOk, EffectRaises, PutLoses, Reread, Return, Crash
<1> QED
  BY <1>1, <1>2 DEF Next

\* Results come from finished, allowed effects, step by step.
LEMMA PerformedStep == IInv /\ [Next]_vars => IInv'
<1> SUFFICES ASSUME IInv, [Next]_vars PROVE IInv'
  OBVIOUS
<1>1. TypeOK'
  BY TypeStep DEF IInv
<1>2. CASE UNCHANGED vars
  BY <1>1, <1>2 DEF vars, IInv, PerformedInv, RecordedWasPerformed
<1>3. ASSUME NEW i \in Invocation, Dispatch(i)
      PROVE  PerformedInv' /\ RecordedWasPerformed'
  <2> USE <1>1 DEF IInv, TypeOK, PerformedInv, RecordedWasPerformed, Step, End
  <2>1. CASE Call(i)
    BY <2>1 DEF Call
  <2>2. CASE GetHit(i)
    BY <2>2 DEF GetHit
  <2>3. CASE GetMiss(i)
    BY <2>3 DEF GetMiss
  <2>4. CASE GuardPass(i)
    BY <2>4 DEF GuardPass
  <2>5. CASE GuardReject(i)
    BY <2>5 DEF GuardReject
  <2>6. CASE EffectOk(i)
    BY <2>6 DEF EffectOk
  <2>7. CASE EffectRaises(i)
    BY <2>7 DEF EffectRaises
  <2>8. CASE PutWins(i)
    BY <2>8 DEF PutWins
  <2>9. CASE PutLoses(i)
    BY <2>9 DEF PutLoses
  <2>10. CASE Reread(i)
    BY <2>10 DEF Reread, Reads, Maybe
  <2>11. CASE Return(i)
    BY <2>11 DEF Return
  <2>12. CASE Crash(i)
    BY <2>12 DEF Crash
  <2> QED
    BY <1>3, <2>1, <2>2, <2>3, <2>4, <2>5, <2>6, <2>7, <2>8, <2>9, <2>10,
       <2>11, <2>12 DEF Dispatch
<1> QED
  BY <1>1, <1>2, <1>3 DEF Next, IInv

\* Both facts hold from the start, whatever reads return.
THEOREM RecordsArePerformed == Spec => []RecordedWasPerformed
<1>1. Init => IInv
  BY DEF Init, IInv, TypeOK, PC, Outcome, Maybe, PerformedInv, RecordedWasPerformed
<1>2. IInv => RecordedWasPerformed
  BY DEF IInv
<1> QED
  BY <1>1, <1>2, PerformedStep, PTL DEF Spec
-----------------------------------------------------------------------------
\* With reads that see every earlier write, answers are what is on record.
LEMMA FreshStep == ~StaleReads /\ FreshInv /\ [Next]_vars => FreshInv'
<1> SUFFICES ASSUME ~StaleReads, FreshInv, [Next]_vars PROVE FreshInv'
  OBVIOUS
<1>1. IInv' /\ TypeOK /\ TypeOK'
  BY PerformedStep DEF FreshInv, IInv
<1>2. CASE UNCHANGED vars
  BY <1>1, <1>2 DEF vars, FreshInv, AnswerInv, SeenInv
<1>3. \A k \in Key : ledger[k] # None => ledger'[k] = ledger[k]
  BY <1>1, WriteOnce
<1>4. \A k \in Key : Reads(k) = {ledger[k]}
  BY DEF Reads
<1>5. ASSUME NEW i \in Invocation, Dispatch(i)
      PROVE  AnswerInv' /\ SeenInv'
  <2> USE <1>1, <1>3, <1>4, NoneIsNoResult
      DEF FreshInv, IInv, PerformedInv, TypeOK, AnswerInv, SeenInv, Step, End, Maybe
  <2>1. CASE Call(i)
    BY <2>1 DEF Call
  <2>2. CASE GetHit(i)
    BY <2>2 DEF GetHit
  <2>3. CASE GetMiss(i)
    BY <2>3 DEF GetMiss
  <2>4. CASE GuardPass(i)
    BY <2>4 DEF GuardPass
  <2>5. CASE GuardReject(i)
    BY <2>5 DEF GuardReject
  <2>6. CASE EffectOk(i)
    BY <2>6 DEF EffectOk
  <2>7. CASE EffectRaises(i)
    BY <2>7 DEF EffectRaises
  <2>8. CASE PutWins(i)
    BY <2>8 DEF PutWins
  <2>9. CASE PutLoses(i)
    BY <2>9 DEF PutLoses
  <2>10. CASE Reread(i)
    BY <2>10 DEF Reread
  <2>11. CASE Return(i)
    BY <2>11 DEF Return
  <2>12. CASE Crash(i)
    BY <2>12 DEF Crash
  <2> QED
    BY <1>5, <2>1, <2>2, <2>3, <2>4, <2>5, <2>6, <2>7, <2>8, <2>9, <2>10,
       <2>11, <2>12 DEF Dispatch
<1> QED
  BY <1>1, <1>2, <1>5 DEF Next, FreshInv

LEMMA FreshInit == Init => FreshInv
  BY DEF Init, FreshInv, IInv, TypeOK, PC, Outcome, Maybe, PerformedInv,
         RecordedWasPerformed, AnswerInv, SeenInv

\* The three invariants hold throughout when reads are consistent.
LEMMA FreshAlways == ~StaleReads => (Spec => []FreshInv)
<1> SUFFICES ASSUME ~StaleReads PROVE Spec => []FreshInv
  OBVIOUS
<1>1. FreshInv /\ [Next]_vars => FreshInv'
  BY FreshStep
<1> QED
  BY <1>1, FreshInit, PTL DEF Spec

\* Callers of one key never disagree, provided ledger reads are consistent.
THEOREM CallersAgree == ~StaleReads => (Spec => []Agreement)
<1>1. FreshInv => Agreement
  BY DEF FreshInv, IInv, TypeOK, AnswerInv, Agreement
<1> QED
  BY <1>1, FreshAlways, PTL

\* A call made after the record fires nothing and gets the record, provided
\* ledger reads are consistent.
THEOREM ReplaysReturnTheRecord == ~StaleReads => (Spec => []ReplayReturnsRecord)
<1>1. FreshInv => ReplayReturnsRecord
  BY DEF FreshInv, IInv, TypeOK, AnswerInv, SeenInv, ReplayReturnsRecord
<1> QED
  BY <1>1, FreshAlways, PTL

-----------------------------------------------------------------------------
\* What the abstract ledger shows of each invocation.
Shown == [i \in Invocation |->
            IF outcome[i] = "ok" THEN <<key[i], result[i]>> ELSE None]

\* An invocation that ends with a result shows the record of its key; the
\* others keep what they show.
LEMMA AnswerStep ==
  ASSUME FreshInv, FreshInv', NEW i \in Invocation,
         outcome[i] = "none", outcome' = [outcome EXCEPT ![i] = "ok"],
         key' = key, ledger' = ledger,
         \A j \in Invocation \ {i} : result'[j] = result[j]
  PROVE  ONE!Answer(i, key[i])
<1> USE DEF FreshInv, IInv, TypeOK
<1>1. ledger[key[i]] # None /\ result'[i] = ledger[key[i]]
  BY DEF AnswerInv
<1>2. Shown[i] = None
  BY DEF Shown
<1>3. Shown' = [Shown EXCEPT ![i] = <<key[i], ledger[key[i]]>>]
  BY <1>1 DEF Shown
<1> QED
  BY <1>1, <1>2, <1>3 DEF ONE!Answer, Shown

\* Every step of the dispatcher is a step of the abstract ledger or changes
\* nothing the abstract ledger shows.
LEMMA RefinementStep ==
  ASSUME ~StaleReads, FreshInv, FreshInv', [Next]_vars
  PROVE  [ONE!Next]_(ONE!vars)
<1> USE DEF FreshInv, IInv, TypeOK
<1>1. CASE UNCHANGED vars
  BY <1>1 DEF vars, ONE!vars
<1>2. ASSUME NEW i \in Invocation, Dispatch(i)
      PROVE  ONE!Next \/ UNCHANGED ONE!vars
  <2>1. pc[i] # "done" => outcome[i] = "none"
    OBVIOUS
  <2>2. ASSUME ONE!Answer(i, key[i]) PROVE ONE!Next
    <3>1. key[i] \in Key
      OBVIOUS
    <3> QED
      BY <2>2, <3>1 DEF ONE!Next, ONE!Answer
  <2>3. CASE GetHit(i)
    <3>1. ONE!Answer(i, key[i])
      BY <2>1, <2>3, AnswerStep DEF GetHit, Step, End
    <3> QED
      BY <2>2, <3>1
  <2>4. CASE Reread(i)
    <3>1. ONE!Answer(i, key[i])
      BY <2>1, <2>4, AnswerStep DEF Reread, Step, End
    <3> QED
      BY <2>2, <3>1
  <2>5. CASE Return(i)
    <3>1. ONE!Answer(i, key[i])
      BY <2>1, <2>5, AnswerStep DEF Return, Step, End
    <3> QED
      BY <2>2, <3>1
  <2>6. CASE PutWins(i)
    <3>1. ONE!Record(key[i], result[i])
      BY <2>6 DEF PutWins, Step, ONE!Record
    <3>2. key[i] \in Key /\ result[i] \in Result
      BY <2>6 DEF PutWins, Step, PerformedInv
    <3> QED
      BY <3>1, <3>2 DEF ONE!Next
  <2>7. CASE Call(i) \/ GetMiss(i) \/ GuardPass(i) \/ PutLoses(i)
    BY <2>7 DEF Call, GetMiss, GuardPass, PutLoses, Step, ONE!vars
  <2>8. CASE GuardReject(i) \/ EffectRaises(i) \/ Crash(i)
    <3>1. \E o \in Outcome \ {"ok"} : outcome' = [outcome EXCEPT ![i] = o]
      BY <2>8 DEF GuardReject, EffectRaises, Crash, End, Outcome
    <3>2. outcome[i] = "none" /\ UNCHANGED <<key, result, ledger>>
      BY <2>1, <2>8 DEF GuardReject, EffectRaises, Crash, End, Step
    <3>3. Shown' = Shown
      BY <3>1, <3>2 DEF Shown
    <3> QED
      BY <3>2, <3>3 DEF Shown, ONE!vars
  <2>9. CASE EffectOk(i)
    <3>1. outcome[i] = "none" /\ UNCHANGED <<key, outcome, ledger>>
      BY <2>1, <2>9 DEF EffectOk, Step
    <3>2. \A j \in Invocation \ {i} : result'[j] = result[j]
      BY <2>9 DEF EffectOk
    <3>3. Shown' = Shown
      BY <3>1, <3>2 DEF Shown
    <3> QED
      BY <3>1, <3>3 DEF Shown, ONE!vars
  <2> QED
    BY <1>2, <2>3, <2>4, <2>5, <2>6, <2>7, <2>8, <2>9 DEF Dispatch
<1> QED
  BY <1>1, <1>2 DEF Next

\* With consistent reads the dispatcher implements the abstract ledger: one
\* result per key, and no answer but that one.
THEOREM DispatcherImplementsOneResult ==
  ~StaleReads => (Spec => ImplementsOneResult)
<1> SUFFICES ASSUME ~StaleReads PROVE Spec => ImplementsOneResult
  OBVIOUS
<1>1. Init => ONE!Init
  BY DEF Init, ONE!Init
<1>2. FreshInv /\ FreshInv' /\ [Next]_vars => [ONE!Next]_(ONE!vars)
  BY RefinementStep
<1> QED
  BY <1>1, <1>2, FreshAlways, PTL DEF Spec, ImplementsOneResult, ONE!Spec
=============================================================================
