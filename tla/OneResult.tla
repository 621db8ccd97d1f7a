----------------------------- MODULE OneResult -----------------------------
(***************************************************************************)
(* What the step dispatcher promises its callers (dispatcher/steps.py):    *)
(* a key gets at most one recorded result, and every call that is answered *)
(* with a result is answered with the recorded one.  Calls that end in an  *)
(* error or a rejection are not visible here.                              *)
(***************************************************************************)
CONSTANTS Invocation, Key, Result, None

VARIABLES
  recorded,   \* the result on record for a key, None when there is none
  answer      \* the key and result an invocation was answered with, or None

vars == <<recorded, answer>>

Init ==
  /\ recorded = [k \in Key |-> None]
  /\ answer = [i \in Invocation |-> None]

Record(k, r) ==
  /\ recorded[k] = None
  /\ recorded' = [recorded EXCEPT ![k] = r]
  /\ UNCHANGED answer

Answer(i, k) ==
  /\ answer[i] = None
  /\ recorded[k] # None
  /\ answer' = [answer EXCEPT ![i] = <<k, recorded[k]>>]
  /\ UNCHANGED recorded

Next ==
  \/ \E k \in Key, r \in Result : Record(k, r)
  \/ \E i \in Invocation, k \in Key : Answer(i, k)

Spec == Init /\ [][Next]_vars
=============================================================================
