----------------------------- MODULE Scheduler -----------------------------
(***************************************************************************)
(* The scheduled tick (dispatcher/resume.py, agents/runtime.py): it takes  *)
(* the first RESUME_BATCH waves in flight, least recently stamped first    *)
(* (state/store.py), and resumes them one after the other.  A resume that  *)
(* saves the wave row stamps it, and so sends it to the end of the order;  *)
(* one that raises before its first save leaves the wave where it was.     *)
(***************************************************************************)
EXTENDS Naturals, Sequences

CONSTANTS
  Wave,
  ResumeBatch,  \* RESUME_BATCH
  Breakable,    \* waves that may get stuck: every resume of them raises early
  MaxKills      \* bound on ticks cut off by the invocation's timeout

ASSUME SchedulerConstants ==
  /\ ResumeBatch \in Nat \ {0}
  /\ Breakable \subseteq Wave
  /\ MaxKills \in Nat

VARIABLES
  order,      \* the waves in flight, least recently stamped first
  over,       \* waves that are done, failed or rolled back
  escalated,  \* waves that wait for a person
  stuck,      \* waves whose resume raises before it saves anything
  batch,      \* what is left of the batch the tick took
  serviced,   \* the wave the last step ran, if it ran one
  kills

vars == <<order, over, escalated, stuck, batch, serviced, kills>>

Nobody == "nobody"
InFlight == {order[i] : i \in DOMAIN order}

Init ==
  /\ order = <<>> /\ over = {} /\ escalated = {} /\ stuck = {}
  /\ batch = <<>> /\ serviced = Nobody /\ kills = 0

\* s without w, which it holds once if at all.
Without(s, w) ==
  IF \E i \in DOMAIN s : s[i] = w
    THEN LET at == CHOOSE i \in DOMAIN s : s[i] = w
         IN  [i \in 1..(Len(s) - 1) |-> IF i < at THEN s[i] ELSE s[i + 1]]
    ELSE s

\* Mutant: the newest stamp first.
StampInFront(w) == order' = <<w>> \o Without(order, w)

\* _save: updated_at is now, so w goes to the end of the order.
Stamp(w) == order' = Append(Without(order, w), w)

\* w leaves the order: it is over, or handed to a person.
Settle(w) ==
  /\ order' = Without(order, w)
  /\ \/ over' = over \cup {w} /\ escalated' = escalated \ {w}
     \/ escalated' = escalated \cup {w} /\ UNCHANGED over

\* A run of w that gets to its first save: it stamps, and it may settle.
Runs(w) ==
  \/ Stamp(w) /\ escalated' = escalated \ {w} /\ UNCHANGED over
  \/ Settle(w)

-----------------------------------------------------------------------------
\* A person's or the console's invocation of w, new or not.
Invoke(w) ==
  /\ w \notin over /\ w \notin stuck
  /\ Runs(w)
  /\ serviced' = w
  /\ UNCHANGED <<stuck, batch, kills>>

\* The agent's escalate tool marks a wave in flight; what made its resumes
\* raise may be gone with the old status.
AgentEscalate(w) ==
  /\ w \in InFlight
  /\ order' = Without(order, w)
  /\ escalated' = escalated \cup {w}
  /\ stuck' \in {stuck, stuck \ {w}}
  /\ serviced' = Nobody
  /\ UNCHANGED <<over, batch, kills>>

\* w gets where its resume raises: a run that died while ROLLING_BACK, a plan
\* the contract no longer converges on.
GetStuck(w) ==
  /\ w \in Breakable \ stuck /\ w \in InFlight
  /\ stuck' = stuck \cup {w}
  /\ serviced' = Nobody
  /\ UNCHANGED <<order, over, escalated, batch, kills>>

\* Mutant: the batch is not bounded.
TickTakesAll ==
  /\ batch = <<>> /\ order # <<>>
  /\ batch' = order
  /\ serviced' = Nobody
  /\ UNCHANGED <<order, over, escalated, stuck, kills>>

\* The schedule fires: waves_in_flight()[:RESUME_BATCH].
Tick ==
  /\ batch = <<>> /\ order # <<>>
  /\ batch' = SubSeq(order, 1, IF Len(order) < ResumeBatch THEN Len(order)
                                                           ELSE ResumeBatch)
  /\ serviced' = Nobody
  /\ UNCHANGED <<order, over, escalated, stuck, kills>>

\* invoke({"wave_id": w}) raises before anything is saved; the loop catches it.
\* A finished wave is re-saved as it is, or refused: either way not in flight.
ResumeRaises ==
  /\ batch # <<>> /\ Head(batch) \in stuck \cup over
  /\ batch' = Tail(batch)
  /\ serviced' = Nobody
  /\ UNCHANGED <<order, over, escalated, stuck, kills>>

\* It runs, whatever has become of the wave since the tick took its batch.
Resume ==
  /\ batch # <<>> /\ Head(batch) \notin stuck \cup over
  /\ Runs(Head(batch))
  /\ batch' = Tail(batch)
  /\ serviced' = Head(batch)
  /\ UNCHANGED <<stuck, kills>>

\* The invocation times out in the middle of its batch.
Kill ==
  /\ batch # <<>> /\ kills < MaxKills
  /\ batch' = <<>>
  /\ kills' = kills + 1
  /\ serviced' = Nobody
  /\ UNCHANGED <<order, over, escalated, stuck>>

Scheduled == Tick \/ ResumeRaises \/ Resume

Next ==
  \/ Scheduled \/ Kill
  \/ \E w \in Wave : Invoke(w) \/ AgentEscalate(w) \/ GetStuck(w)

Spec == Init /\ [][Next]_vars

\* The schedule fires every five minutes and the runtime goes through its
\* batch, whatever people do to other waves in the meantime.
FairSpec == Spec /\ WF_vars(Scheduled)

-----------------------------------------------------------------------------
\* Every wave in flight is in the order once, and nothing else is.
TypeOK ==
  /\ order \in Seq(Wave)
  /\ \A i, j \in DOMAIN order : order[i] = order[j] => i = j
  /\ over \subseteq Wave /\ escalated \subseteq Wave /\ stuck \subseteq Breakable
  /\ InFlight \cap (over \cup escalated) = {} /\ over \cap escalated = {}
  /\ batch \in Seq(Wave) /\ Len(batch) <= ResumeBatch
  /\ serviced \in Wave \cup {Nobody}
  /\ kills \in 0..MaxKills

\* The waves that are to be resumed before w.
Ahead(w) ==
  {order[i] : i \in {k \in DOMAIN order :
                       \E j \in DOMAIN order : k < j /\ order[j] = w}}

\* Nobody overtakes: until w runs again or leaves, a wave that is ahead of it was
\* ahead of it before, whoever else is invoked, resumed, escalated or new ("least
\* recently serviced first", store.py).
NoOvertaking ==
  [][\A w \in InFlight :
       w \in InFlight' /\ serviced' # w => Ahead(w)' \subseteq Ahead(w)]_vars

\* No wave starves: one that is in flight runs again, unless it leaves or its
\* own resumes raise ("ordering by newest would hand
\* every tick back to the same waves and starve the rest", store.py).
NobodyStarves ==
  \A w \in Wave :
    w \in InFlight ~> serviced = w \/ w \in stuck \/ w \notin InFlight
=============================================================================
