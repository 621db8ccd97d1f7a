----------------------------- MODULE Remediation -----------------------------
(***************************************************************************)
(* The Remediation specialist (agents/remediation.py): known runbooks are  *)
(* tried first, then what the model picks from the contract's allow-list,  *)
(* each through the step dispatcher (_remediation_executor), which carries *)
(* an action out or replays the result it has on record for it.            *)
(*                                                                         *)
(* A server's replication may stall again after it was remedied.  Runs are *)
(* serial.                                                                 *)
(***************************************************************************)
EXTENDS Integers, Sequences, FiniteSets

CONSTANTS
  Wave, Server,  \* the waves, and the source servers MGN knows
  Failure,       \* failures that share words: what a runbook is found by
  Allowed,       \* contract.allowed_actions
  Refused,       \* may policy refuse apply_remediation?
  MaxRetries,    \* the model's attempts per failure
  MaxStalls      \* bound on the stalls

\* The step id's last part and wave for a call that names no target.
NoServer == "x"
NoWave == "-"

Key == [wave : Wave \cup {NoWave}, action : Allowed, on : Server \cup {NoServer}]
Idle == [wave |-> NoWave, on |-> NoServer]

VARIABLES
  remedied, \* the world: servers MGN was asked to resync since they stalled
  stalls,
  ledger,   \* result on record: "unset", "resolved" or "unresolved"
  kb,       \* the runbooks, in the order they were written
  pc, failure, target,  \* the failure in hand, its wave and server
  known,    \* the runbooks still to be tried
  tries,    \* the model's attempts so far
  reported  \* what the last remediation reported

world == <<remedied, stalls>>
vars == <<world, ledger, kb, pc, failure, target, known, tries, reported>>

Init ==
  /\ remedied = {} /\ stalls = 0
  /\ ledger = [k \in Key |-> "unset"]
  /\ kb = <<>>
  /\ pc = "idle" /\ failure = "none" /\ target = Idle
  /\ known = <<>> /\ tries = 0 /\ reported = "none"

\* Replication of a server stalls, for the first time or again.
Stall(s) ==
  /\ pc = "idle" /\ stalls < MaxStalls
  /\ remedied' = remedied \ {s}
  /\ stalls' = stalls + 1
  /\ reported' = "none"
  /\ UNCHANGED <<ledger, kb, pc, failure, target, known, tries>>

\* query: at most three runbooks whose failure shares words with this one.
Query(f) ==
  LET Alike(rb) == rb.failure = f
      all == SelectSeq(kb, Alike)
  IN SubSeq(all, 1, IF Len(all) < 3 THEN Len(all) ELSE 3)

\* The agent's diagnose_and_remediate names its wave and a host that is a
\* source server, or no host; the replicate step names neither.
Delegate(w, s, f) ==
  /\ pc = "idle"
  /\ w = NoWave => s = NoServer
  /\ pc' = "try" /\ failure' = f /\ target' = [wave |-> w, on |-> s]
  /\ known' = Query(f) /\ tries' = 0 /\ reported' = "none"
  /\ UNCHANGED <<world, ledger, kb>>

\* _apply_remediation: resync_volume needs a source server and may raise;
\* restart_replication_agent needs an instance id, which no caller passes; no
\* other action has an executor.  Only a result that did not raise is recorded.
Executes(a) == a = "resync_volume" /\ target.on # NoServer

\* One call of apply_action, which ended with result r.
Apply(a, r) ==
  LET k == [wave |-> target.wave, action |-> a, on |-> target.on] IN
  \/ /\ ledger[k] # "unset" /\ r = ledger[k]
     /\ UNCHANGED <<world, ledger>>
  \/ /\ ledger[k] = "unset" /\ Executes(a) /\ r = "resolved"
     /\ remedied' = remedied \cup {target.on}
     /\ ledger' = [ledger EXCEPT ![k] = r]
     /\ UNCHANGED stalls
  \/ /\ ledger[k] = "unset" /\ ~Executes(a) /\ r = "unresolved"
     /\ ledger' = [ledger EXCEPT ![k] = r]
     /\ UNCHANGED world
  \/ /\ ledger[k] = "unset" /\ (Executes(a) \/ Refused)
     /\ r = "unresolved"
     /\ UNCHANGED <<world, ledger>>

\* remediate returns.
Report(r) ==
  /\ pc' = "idle" /\ reported' = r
  /\ UNCHANGED <<failure, target, known, tries>>

\* A known runbook is applied without the model being asked, unless the
\* contract does not allow its action.
TryRunbook ==
  /\ pc = "try" /\ known # <<>>
  /\ LET a == Head(known).action IN
     \/ /\ a \in Allowed /\ Apply(a, "resolved")
        /\ Report("resolved")
     \/ /\ \/ a \in Allowed /\ Apply(a, "unresolved")
           \/ a \notin Allowed /\ UNCHANGED <<world, ledger>>
        /\ known' = Tail(known)
        /\ UNCHANGED <<pc, failure, target, tries, reported>>
  /\ UNCHANGED kb

\* The model picks an allowed action; one that resolves the failure becomes a
\* runbook.
TryModel ==
  /\ pc = "try" /\ known = <<>> /\ tries < MaxRetries
  /\ \E a \in Allowed :
       \/ /\ Apply(a, "resolved")
          /\ kb' = Append(kb, [failure |-> failure, action |-> a])
          /\ Report("resolved")
       \/ /\ Apply(a, "unresolved")
          /\ tries' = tries + 1
          /\ UNCHANGED <<kb, pc, failure, target, known, reported>>

\* Its answer is illegible or outside the allow-list.
ModelAstray ==
  /\ pc = "try" /\ known = <<>> /\ tries < MaxRetries
  /\ tries' = tries + 1
  /\ UNCHANGED <<world, ledger, kb, pc, failure, target, known, reported>>

GiveUp ==
  /\ pc = "try" /\ known = <<>> /\ tries = MaxRetries
  /\ Report("unresolved")
  /\ UNCHANGED <<world, ledger, kb>>

\* Another binding is built: its knowledge base is empty.
Rebuild ==
  /\ pc = "idle"
  /\ kb' = <<>>
  /\ UNCHANGED <<world, ledger, pc, failure, target, known, tries, reported>>

Next ==
  \/ \E s \in Server : Stall(s)
  \/ \E w \in Wave \cup {NoWave}, s \in Server \cup {NoServer}, f \in Failure :
       Delegate(w, s, f)
  \/ TryRunbook \/ TryModel \/ ModelAstray \/ GiveUp
  \/ Rebuild

Spec == Init /\ [][Next]_vars

-----------------------------------------------------------------------------
\* "It reports honestly rather than claiming success" (agents/remediation.py):
\* a failure of a server that is reported resolved has had something done
\* about it since the server stalled.
ResolvedMeansRemedied ==
  reported = "resolved" => target.on \in remedied
=============================================================================
