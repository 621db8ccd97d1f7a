-------------------------- MODULE SchedulerProofs --------------------------
(***************************************************************************)
(* The order in which waves in flight are resumed, for any number of them, *)
(* any batch and any ticks that are cut off.                               *)
(***************************************************************************)
EXTENDS Scheduler, SequenceTheorems, TLAPS

\* Nothing is in s twice.
Once(s) == \A i, j \in DOMAIN s : s[i] = s[j] => i = j

Elements(s) == {s[i] : i \in DOMAIN s}

\* s holds u ahead of v.
Before(s, u, v) == \E i, j \in DOMAIN s : i < j /\ s[i] = u /\ s[j] = v
-----------------------------------------------------------------------------
\* Where the elements that stay go when the one at a position is taken out.
LEMMA WithoutAt ==
  ASSUME NEW s \in Seq(Wave), NEW w, \E i \in DOMAIN s : s[i] = w
  PROVE  \E at \in 1..Len(s) :
           /\ s[at] = w
           /\ Without(s, w) \in Seq(Wave)
           /\ Len(Without(s, w)) = Len(s) - 1
           /\ \A i \in 1..(Len(s) - 1) :
                Without(s, w)[i] = IF i < at THEN s[i] ELSE s[i + 1]
<1> DEFINE at == CHOOSE i \in DOMAIN s : s[i] = w
           without(i) == IF i < at THEN s[i] ELSE s[i + 1]
<1>1. Len(s) \in Nat /\ DOMAIN s = 1..Len(s) /\ \A i \in 1..Len(s) : s[i] \in Wave
  BY LenProperties
<1>2. at \in 1..Len(s) /\ s[at] = w
  BY <1>1
<1>3. Without(s, w) = [i \in 1..(Len(s) - 1) |-> without(i)]
  BY DEF Without
<1> HIDE DEF at
<1>4. Len(s) - 1 \in Nat /\ \A i \in 1..(Len(s) - 1) : without(i) \in Wave
  BY <1>1, <1>2
<1> HIDE DEF without
<1>5. Without(s, w) \in Seq(Wave) /\ Len(Without(s, w)) = Len(s) - 1
  BY <1>3, <1>4, IsASeq, LenProperties
<1>6. \A i \in 1..(Len(s) - 1) : Without(s, w)[i] = without(i)
  BY <1>3
<1> QED
  BY <1>2, <1>5, <1>6 DEF without

\* Taking an element out of a sequence that has nothing twice leaves the others
\* once, and in their order.
LEMMA WithoutKeeps ==
  ASSUME NEW s \in Seq(Wave), Once(s), NEW w
  PROVE  /\ Without(s, w) \in Seq(Wave) /\ Once(Without(s, w))
         /\ Elements(Without(s, w)) = Elements(s) \ {w}
         /\ \A u, v : Before(Without(s, w), u, v) => Before(s, u, v)
<1>1. Len(s) \in Nat /\ DOMAIN s = 1..Len(s)
  BY LenProperties
<1>2. CASE \E i \in DOMAIN s : s[i] = w
  <2> DEFINE t == Without(s, w)
  <2>1. PICK at \in 1..Len(s) :
               /\ s[at] = w
               /\ t \in Seq(Wave) /\ Len(t) = Len(s) - 1
               /\ \A i \in 1..(Len(s) - 1) : t[i] = IF i < at THEN s[i] ELSE s[i + 1]
    BY <1>2, WithoutAt
  <2> HIDE DEF t
  <2>2. DOMAIN t = 1..(Len(s) - 1)
    BY <2>1, LenProperties
  <2> DEFINE from(i) == IF i < at THEN i ELSE i + 1
  <2>3. \A i \in DOMAIN t : from(i) \in DOMAIN s \ {at} /\ t[i] = s[from(i)]
    BY <1>1, <2>1, <2>2
  <2>4. \A i, j \in DOMAIN t : i < j => from(i) < from(j)
    BY <1>1, <2>2
  <2>5. Once(t)
    <3> SUFFICES ASSUME NEW i \in DOMAIN t, NEW j \in DOMAIN t, t[i] = t[j] PROVE i = j
      BY DEF Once
    <3>1. from(i) = from(j)
      BY <2>3 DEF Once
    <3> QED
      BY <1>1, <2>2, <3>1
  <2>6. \A k \in DOMAIN s \ {at} : \E i \in DOMAIN t : t[i] = s[k]
    <3> TAKE k \in DOMAIN s \ {at}
    <3>1. CASE k < at
      BY <1>1, <2>1, <2>2, <3>1
    <3>2. CASE k > at
      <4>1. k - 1 \in DOMAIN t /\ t[k - 1] = s[k]
        BY <1>1, <2>1, <2>2, <3>2
      <4> QED
        BY <4>1
    <3> QED
      BY <1>1, <3>1, <3>2
  <2>7. Elements(t) = Elements(s) \ {w}
    <3>1. \A i \in DOMAIN t : t[i] \in Elements(s) /\ t[i] # w
      BY <2>1, <2>3, <1>1 DEF Elements, Once
    <3>2. \A k \in DOMAIN s : s[k] # w => k # at
      BY <2>1
    <3> QED
      BY <2>6, <3>1, <3>2 DEF Elements
  <2>8. ASSUME NEW u, NEW v, Before(t, u, v) PROVE Before(s, u, v)
    <3>1. PICK i, j \in DOMAIN t : i < j /\ t[i] = u /\ t[j] = v
      BY <2>8 DEF Before
    <3>2. from(i) \in DOMAIN s /\ from(j) \in DOMAIN s /\ from(i) < from(j)
          /\ s[from(i)] = u /\ s[from(j)] = v
      BY <2>3, <2>4, <3>1
    <3> HIDE DEF from
    <3> QED
      BY <3>2 DEF Before
  <2> QED
    BY <2>1, <2>5, <2>7, <2>8 DEF t
<1>3. CASE ~ \E i \in DOMAIN s : s[i] = w
  BY <1>3 DEF Without, Elements
<1> QED
  BY <1>2, <1>3

\* A new stamp sends w behind the others, which stay as they were.
LEMMA StampedKeeps ==
  ASSUME NEW s \in Seq(Wave), Once(s), NEW w \in Wave
  PROVE  /\ Append(Without(s, w), w) \in Seq(Wave) /\ Once(Append(Without(s, w), w))
         /\ Elements(Append(Without(s, w), w)) = Elements(s) \cup {w}
         /\ \A u, v : v # w /\ Before(Append(Without(s, w), w), u, v) => Before(s, u, v)
<1> DEFINE t == Without(s, w)
           z == Append(t, w)
<1>1. /\ t \in Seq(Wave) /\ Once(t) /\ Elements(t) = Elements(s) \ {w}
      /\ \A u, v : Before(t, u, v) => Before(s, u, v)
  BY WithoutKeeps
<1> HIDE DEF t
<1>2. /\ Len(t) \in Nat /\ DOMAIN t = 1..Len(t)
      /\ z \in Seq(Wave) /\ Len(z) = Len(t) + 1 /\ DOMAIN z = 1..(Len(t) + 1)
      /\ z[Len(t) + 1] = w /\ \A i \in 1..Len(t) : z[i] = t[i]
  BY <1>1, AppendProperties, LenProperties
<1> HIDE DEF z
<1>3. Elements(z) = Elements(s) \cup {w}
  <2>1. \A i \in DOMAIN z : z[i] = w \/ (i \in DOMAIN t /\ z[i] = t[i])
    BY <1>2
  <2>2. Len(t) + 1 \in DOMAIN z /\ \A i \in DOMAIN t : i \in DOMAIN z
    BY <1>2
  <2>3. Elements(z) = Elements(t) \cup {w}
    BY <1>2, <2>1, <2>2 DEF Elements
  <2>4. (Elements(s) \ {w}) \cup {w} = Elements(s) \cup {w}
    OBVIOUS
  <2> QED
    BY <1>1, <2>3, <2>4
<1>4. \A i \in DOMAIN t : t[i] # w
  BY <1>1 DEF Elements
<1>5. Once(z)
  BY <1>1, <1>2, <1>4 DEF Once
<1>6. ASSUME NEW u, NEW v, v # w, Before(z, u, v) PROVE Before(s, u, v)
  <2>1. PICK i, j \in DOMAIN z : i < j /\ z[i] = u /\ z[j] = v
    BY <1>6 DEF Before
  <2>2. i \in DOMAIN t /\ j \in DOMAIN t /\ t[i] = u /\ t[j] = v
    BY <1>2, <1>6, <2>1
  <2> QED
    BY <1>1, <2>1, <2>2 DEF Before
<1> QED
  BY <1>2, <1>3, <1>5, <1>6 DEF z, t

-----------------------------------------------------------------------------
\* What a run of w makes of the order and of the two sets.
LEMMA RunsKeeps ==
  ASSUME TypeOK, NEW w \in Wave, w \notin over, Runs(w)
  PROVE  /\ order' \in Seq(Wave) /\ Once(order')
         /\ over' \subseteq Wave /\ escalated' \subseteq Wave
         /\ InFlight' \cap (over' \cup escalated') = {} /\ over' \cap escalated' = {}
<1>1. order \in Seq(Wave) /\ Once(order)
  BY DEF TypeOK, Once
<1>2. InFlight = Elements(order) /\ InFlight' = Elements(order')
  BY DEF InFlight, Elements
<1>3. CASE Stamp(w) /\ escalated' = escalated \ {w} /\ UNCHANGED over
  <2>1. order' \in Seq(Wave) /\ Once(order') /\ InFlight' = InFlight \cup {w}
    BY <1>1, <1>2, <1>3, StampedKeeps DEF Stamp
  <2> QED
    BY <1>3, <2>1 DEF TypeOK
<1>4. CASE Settle(w)
  <2>1. order' \in Seq(Wave) /\ Once(order') /\ InFlight' = InFlight \ {w}
    BY <1>1, <1>2, <1>4, WithoutKeeps DEF Settle
  <2> QED
    BY <1>4, <2>1 DEF TypeOK, Settle
<1> QED
  BY <1>3, <1>4 DEF Runs

\* A batch is a stretch of the order, and what is left of it a stretch of it.
LEMMA BatchStep ==
  ASSUME TypeOK, [Next]_vars
  PROVE  batch' \in Seq(Wave) /\ Len(batch') <= ResumeBatch
<1> USE DEF TypeOK
<1>1. CASE Tick
  <2> DEFINE n == IF Len(order) < ResumeBatch THEN Len(order) ELSE ResumeBatch
  <2>1. /\ Len(order) \in Nat /\ ResumeBatch \in Nat
        /\ \A i \in 1..Len(order) : order[i] \in Wave
    BY LenProperties, SchedulerConstants
  <2>2. n \in Nat /\ n <= ResumeBatch /\ \A i \in 1..n : order[i] \in Wave
    BY <2>1
  <2>3. batch' = SubSeq(order, 1, n)
    BY <1>1 DEF Tick
  <2> HIDE DEF n
  <2>4. SubSeq(order, 1, n) \in Seq(Wave) /\ Len(SubSeq(order, 1, n)) <= ResumeBatch
    BY <2>1, <2>2, SubSeqProperties
  <2> QED
    BY <2>3, <2>4
<1>2. CASE batch # <<>> /\ batch' = Tail(batch)
  BY <1>2, HeadTailProperties, LenProperties, SchedulerConstants
<1>3. CASE batch' = <<>>
  BY <1>3, SchedulerConstants
<1>4. CASE UNCHANGED batch
  BY <1>4
<1> QED
  BY <1>1, <1>2, <1>3, <1>4
  DEF Next, Scheduled, ResumeRaises, Resume, Kill, Invoke, AgentEscalate, GetStuck, vars

\* The wave a tick resumes is one of the waves.
LEMMA HeadTyped == TypeOK /\ batch # <<>> => Head(batch) \in Wave
  BY HeadTailProperties DEF TypeOK

LEMMA TypeStep == TypeOK /\ [Next]_vars => TypeOK'
<1> SUFFICES ASSUME TypeOK, [Next]_vars PROVE TypeOK'
  OBVIOUS
<1>1. /\ order' \in Seq(Wave) /\ Once(order')
      /\ over' \subseteq Wave /\ escalated' \subseteq Wave
      /\ InFlight' \cap (over' \cup escalated') = {} /\ over' \cap escalated' = {}
  <2>1. CASE UNCHANGED <<order, over, escalated>>
    BY <2>1 DEF TypeOK, InFlight, Once
  <2>2. CASE \E w \in Wave : w \notin over /\ Runs(w)
    BY <2>2, RunsKeeps
  <2>3. CASE \E w \in Wave : AgentEscalate(w)
    <3>1. PICK w \in InFlight : AgentEscalate(w)
      BY <2>3 DEF AgentEscalate
    <3>2. order \in Seq(Wave) /\ Once(order) /\ w \in Wave
      BY <2>3, LenProperties DEF TypeOK, Once, InFlight
    <3>3. InFlight = Elements(order) /\ InFlight' = Elements(order')
      BY DEF InFlight, Elements
    <3>4. order' \in Seq(Wave) /\ Once(order') /\ InFlight' = InFlight \ {w}
      BY <3>1, <3>2, <3>3, WithoutKeeps DEF AgentEscalate
    <3> QED
      BY <3>1, <3>2, <3>4 DEF AgentEscalate, TypeOK
  <2> QED
    BY <2>1, <2>2, <2>3, HeadTyped
    DEF Next, Scheduled, Tick, ResumeRaises, Resume, Kill, Invoke, GetStuck, vars
<1>2. stuck' \subseteq Breakable
  BY DEF TypeOK, Next, Scheduled, Tick, ResumeRaises, Resume, Kill, Invoke,
     AgentEscalate, GetStuck, vars
<1>3. serviced' \in Wave \cup {Nobody}
  BY HeadTyped DEF TypeOK, Next, Scheduled, Tick, ResumeRaises, Resume, Kill, Invoke,
     AgentEscalate, GetStuck, vars
<1>4. kills' \in 0..MaxKills
  BY SchedulerConstants DEF TypeOK, Next, Scheduled, Tick, ResumeRaises, Resume, Kill,
     Invoke, AgentEscalate, GetStuck, vars
<1> QED
  BY <1>1, <1>2, <1>3, <1>4, BatchStep DEF TypeOK, Once

\* A wave in flight is in the order once, and is neither over nor with a person,
\* whoever runs it while a tick goes through its batch.
THEOREM TypeCorrect == Spec => []TypeOK
<1>1. Init => TypeOK
  BY SchedulerConstants DEF Init, TypeOK, InFlight
<1> QED
  BY <1>1, TypeStep, PTL DEF Spec

-----------------------------------------------------------------------------
\* Ahead is Before, seen from one wave.
LEMMA AheadIsBefore ==
  \A u, v : (u \in Ahead(v) <=> Before(order, u, v))
            /\ (u \in Ahead(v)' <=> Before(order', u, v))
  BY DEF Ahead, Before

\* A run of w changes no other wave's place, but to move it up.
LEMMA RunsAhead ==
  ASSUME TypeOK, NEW w \in Wave, Runs(w), NEW v, v # w
  PROVE  Ahead(v)' \subseteq Ahead(v)
<1>1. order \in Seq(Wave) /\ Once(order)
  BY DEF TypeOK, Once
<1>2. \A u : Before(order', u, v) => Before(order, u, v)
  BY <1>1, WithoutKeeps, StampedKeeps DEF Runs, Stamp, Settle
<1> QED
  BY <1>2, AheadIsBefore

\* Nobody overtakes a wave in flight: the waves that are to be resumed before it
\* only become fewer, until it runs again or leaves ("ordering by newest would
\* hand every tick back to the same waves", store.py).
THEOREM NobodyOvertakes == Spec => NoOvertaking
<1>1. TypeOK /\ [Next]_vars =>
        [\A w \in InFlight :
           w \in InFlight' /\ serviced' # w => Ahead(w)' \subseteq Ahead(w)]_vars
  <2> SUFFICES ASSUME TypeOK, [Next]_vars, NEW v \in InFlight, serviced' # v
               PROVE  Ahead(v)' \subseteq Ahead(v)
    OBVIOUS
  <2>1. CASE UNCHANGED order
    BY <2>1 DEF Ahead
  <2>2. CASE \E w \in Wave : Runs(w) /\ serviced' = w
    BY <2>2, RunsAhead
  <2>3. CASE \E w \in Wave : AgentEscalate(w)
    <3>1. order \in Seq(Wave) /\ Once(order)
      BY DEF TypeOK, Once
    <3>2. \A u : Before(order', u, v) => Before(order, u, v)
      BY <2>3, <3>1, WithoutKeeps DEF AgentEscalate
    <3> QED
      BY <3>2, AheadIsBefore
  <2> QED
    BY <2>1, <2>2, <2>3, HeadTyped
    DEF Next, Scheduled, Tick, ResumeRaises, Resume, Kill, Invoke, GetStuck, vars
<1> QED
  BY <1>1, TypeCorrect, PTL DEF Spec, NoOvertaking
=============================================================================
