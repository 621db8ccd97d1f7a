----------------------------- MODULE StepLedger -----------------------------
(***************************************************************************)
(* The step dispatcher (dispatcher/steps.py, dispatcher/handler.py): one   *)
(* Lambda invocation per call, all of them over one ledger of results      *)
(* keyed by (wave_id, step_id).  An invocation reads the ledger, re-checks *)
(* policy, runs the effect and then records its result with a conditional  *)
(* write; it may be killed between any two of those.                       *)
(*                                                                         *)
(* A call is one-shot: a caller's retry, a re-invoked wave and a duplicate *)
(* delivery are other members of Invocation with the same key.             *)
(***************************************************************************)
EXTENDS FiniteSets

CONSTANTS
  Invocation,   \* the calls, in the order nobody promises
  Key,          \* (wave_id, step_id)
  Result,       \* what an effect can return; running it again may differ
  None,
  StaleReads    \* TRUE: get_item is eventually consistent, as the code asks
                \* for it; FALSE: a read sees every earlier write

ASSUME NoneIsNoResult == None \notin Result
ASSUME StaleReadsIsBool == StaleReads \in BOOLEAN

VARIABLES
  ledger,       \* the table: the result on record, None when there is none
  pc,           \* where each invocation is in Dispatcher.dispatch
  key,          \* the key it was called with
  allowed,      \* what evaluate_policy says of its guard and contract
  result,       \* its local result, then the result it returned
  outcome,      \* how it ended, as its caller sees it
  performed,    \* the invocations whose effect ran to its end
  seen          \* history: what was on record when the call came in

vars == <<ledger, pc, key, allowed, result, outcome, performed, seen>>

PC == {"idle", "get", "guard", "effect", "put", "reread", "return", "done"}
Outcome == {"none", "ok", "error", "rejected"}
Maybe == Result \cup {None}

Init ==
  /\ ledger = [k \in Key |-> None]
  /\ pc = [i \in Invocation |-> "idle"]
  /\ key \in [Invocation -> Key]
  /\ allowed \in [Invocation -> BOOLEAN]
  /\ result = [i \in Invocation |-> None]
  /\ outcome = [i \in Invocation |-> "none"]
  /\ performed = {}
  /\ seen = [i \in Invocation |-> None]

-----------------------------------------------------------------------------
\* What a read of k may return: get_item without ConsistentRead can miss a
\* write, and entries never change once written.
Reads(k) == {ledger[k]} \cup (IF StaleReads THEN {None} ELSE {})

\* Invocation i goes from one program point to the next.
Step(i, from, to) ==
  /\ pc[i] = from
  /\ pc' = [pc EXCEPT ![i] = to]
  /\ UNCHANGED <<key, allowed>>

\* Invocation i ends; its caller sees o.
End(i, from, o) ==
  /\ Step(i, from, "done")
  /\ outcome' = [outcome EXCEPT ![i] = o]

\* The Lambda is invoked (LambdaInvokingDispatcher.dispatch, handler).
Call(i) ==
  /\ Step(i, "idle", "get")
  /\ seen' = [seen EXCEPT ![i] = ledger[key[i]]]
  /\ UNCHANGED <<ledger, result, outcome, performed>>

\* A result on record is returned at once, before policy is looked at.
GetHit(i) ==
  \E r \in Reads(key[i]) \ {None} :
    /\ End(i, "get", "ok")
    /\ result' = [result EXCEPT ![i] = r]
    /\ UNCHANGED <<ledger, performed, seen>>

\* Mutant: the ledger is not consulted.
GetIgnored(i) ==
  /\ Step(i, "get", "guard")
  /\ UNCHANGED <<ledger, result, outcome, performed, seen>>

GetMiss(i) ==
  /\ None \in Reads(key[i])
  /\ Step(i, "get", "guard")
  /\ UNCHANGED <<ledger, result, outcome, performed, seen>>

\* Policy is re-evaluated in the Lambda; StepRejected when it denies.
GuardPass(i) ==
  /\ allowed[i]
  /\ Step(i, "guard", "effect")
  /\ UNCHANGED <<ledger, result, outcome, performed, seen>>

GuardReject(i) ==
  /\ ~allowed[i]
  /\ End(i, "guard", "rejected")
  /\ UNCHANGED <<ledger, result, performed, seen>>

\* The registered step function returns.
EffectOk(i) ==
  \E r \in Result :
    /\ Step(i, "effect", "put")
    /\ result' = [result EXCEPT ![i] = r]
    /\ performed' = performed \cup {i}
    /\ UNCHANGED <<ledger, outcome, seen>>

\* Mutant: the error dict is recorded like any result.
ErrorRecorded(i) ==
  \E r \in Result :
    /\ Step(i, "effect", "put")
    /\ result' = [result EXCEPT ![i] = r]
    /\ UNCHANGED <<ledger, outcome, performed, seen>>

\* It raises: any exception becomes {"error": ...} and nothing is recorded;
\* a StepRejected of its own is passed on.
EffectRaises(i) ==
  /\ \E o \in {"error", "rejected"} : End(i, "effect", o)
  /\ UNCHANGED <<ledger, result, performed, seen>>

\* Mutant: put_item without its condition.
PutAlways(i) ==
  /\ Step(i, "put", "return")
  /\ ledger' = [ledger EXCEPT ![key[i]] = result[i]]
  /\ UNCHANGED <<result, outcome, performed, seen>>

\* put_item with attribute_not_exists: the first writer wins.
PutWins(i) ==
  /\ ledger[key[i]] = None
  /\ Step(i, "put", "return")
  /\ ledger' = [ledger EXCEPT ![key[i]] = result[i]]
  /\ UNCHANGED <<result, outcome, performed, seen>>

PutLoses(i) ==
  /\ ledger[key[i]] # None
  /\ Step(i, "put", "reread")
  /\ UNCHANGED <<ledger, result, outcome, performed, seen>>

\* Mutant: the loser of the write returns its own result.
OwnResult(i) ==
  /\ End(i, "reread", "ok")
  /\ UNCHANGED <<ledger, result, performed, seen>>

\* return self._ledger.get(key) or result
Reread(i) ==
  \E r \in Reads(key[i]) :
    /\ End(i, "reread", "ok")
    /\ result' = [result EXCEPT ![i] = IF r = None THEN result[i] ELSE r]
    /\ UNCHANGED <<ledger, performed, seen>>

\* Mutant: the handler falls off its end without an answer.
ReturnNothing(i) ==
  /\ Step(i, "return", "done")
  /\ UNCHANGED <<ledger, result, outcome, performed, seen>>

Return(i) ==
  /\ End(i, "return", "ok")
  /\ UNCHANGED <<ledger, result, performed, seen>>

\* The Lambda times out or fails: the caller reads FunctionError.
Crash(i) ==
  /\ \E from \in PC \ {"idle", "done"} : End(i, from, "error")
  /\ UNCHANGED <<ledger, result, performed, seen>>

Dispatch(i) ==
  \/ Call(i)
  \/ GetHit(i) \/ GetMiss(i)
  \/ GuardPass(i) \/ GuardReject(i)
  \/ EffectOk(i) \/ EffectRaises(i)
  \/ PutWins(i) \/ PutLoses(i)
  \/ Reread(i) \/ Return(i)
  \/ Crash(i)

Next == \E i \in Invocation : Dispatch(i)

Spec == Init /\ [][Next]_vars

-----------------------------------------------------------------------------
\* Every variable has its type, and an invocation is done exactly when its
\* caller has an outcome.
TypeOK ==
  /\ ledger \in [Key -> Maybe]
  /\ pc \in [Invocation -> PC]
  /\ key \in [Invocation -> Key]
  /\ allowed \in [Invocation -> BOOLEAN]
  /\ result \in [Invocation -> Maybe]
  /\ outcome \in [Invocation -> Outcome]
  /\ performed \subseteq Invocation
  /\ seen \in [Invocation -> Maybe]
  /\ \A i \in Invocation : pc[i] = "done" <=> outcome[i] # "none"

\* Two calls for one key that are both answered with a result are answered
\* with the same one, whichever of them ran the effect and in whatever order
\* they wrote ("a concurrent invocation already recorded this step; return
\* the stored result", steps.py:131).
Agreement ==
  \A i, j \in Invocation :
    (outcome[i] = "ok" /\ outcome[j] = "ok" /\ key[i] = key[j])
      => result[i] = result[j]

\* A call that comes in when its key has a result neither runs the effect
\* again nor is rejected by a policy that has become stricter since.
ReplayReturnsRecord ==
  \A i \in Invocation :
    seen[i] # None =>
      /\ i \notin performed
      /\ outcome[i] # "rejected"
      /\ outcome[i] = "ok" => result[i] = seen[i]

\* A result on record was produced by an effect that ran for that key in an
\* invocation that policy allowed: no error, rejection or unfinished effect
\* is ever recorded.
RecordedWasPerformed ==
  \A k \in Key : ledger[k] # None =>
    \E i \in performed : /\ key[i] = k
                         /\ allowed[i]
                         /\ outcome[i] # "rejected"

\* The dispatcher implements one recorded result per key.
ONE == INSTANCE OneResult WITH
  recorded <- ledger,
  answer   <- [i \in Invocation |->
                IF outcome[i] = "ok" THEN <<key[i], result[i]>> ELSE None]

\* Every answered call got the one recorded result of its key, and a record
\* is never replaced.
ImplementsOneResult == ONE!Spec
=============================================================================
