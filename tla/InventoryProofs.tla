-------------------------- MODULE InventoryProofs --------------------------
(***************************************************************************)
(* What the reconciliation of an inventory never does, for any number of   *)
(* records, names, applications and invocations, dead ones included.       *)
(***************************************************************************)
EXTENDS Inventory, FunctionTheorems, FiniteSetTheorems, TLAPS

\* Imported records leave their application and enter no other one.
PlacesInv == \A p \in Imported : app[p] \in {NoApp, Placed[p]}

\* What a run still has to remove has its twin in the application, or the run
\* will have put it there by then.
TwinInv ==
  \A r \in Run, a \in App, p \in Imported : <<a, p>> \in todo[r].drop =>
    /\ Placed[p] = a
    /\ \E t \in registered :
         Alike(p, t) /\ (app[t] = a \/ <<a, t>> \in todo[r].add)

IInv == TypeOK /\ PlacesInv /\ TwinInv /\ SwappedForTwin

\* What a run still has to add stands for a placeholder that is there, or
\* somebody has placed it meanwhile.
AddInv ==
  \A r \in Run, a \in App, t \in Agent : <<a, t>> \in todo[r].add =>
    \E p \in Imported :
      Placed[p] = a /\ Alike(p, t) /\ (app[p] = a \/ app[t] # NoApp)

-----------------------------------------------------------------------------
\* A run with nothing to do.
LEMMA NothingTyped ==
  Nothing \in [add : SUBSET (App \X registered), drop : SUBSET (App \X Imported)]
  BY DEF Nothing

\* A twin is a server with an agent, of the placeholder's short name.
LEMMA TwinIsLive ==
  ASSUME TypeOK, NEW kept \in Readings, NEW p \in Imported, NEW t \in Twin(p, kept)
  PROVE  t \in registered /\ Alike(p, t)
<1>1. kept \subseteq {s \in Records : ~IsPlaceholder(s)}
  BY DEF Readings
<1>2. t \in kept
  BY DEF Twin
<1>3. Alike(p, t)
  BY DEF Twin, Alike
<1> QED
  BY <1>1, <1>2, <1>3 DEF Records, IsPlaceholder

\* What a run sets out to do has the right type.
LEMMA PlanTyped ==
  ASSUME TypeOK, NEW kept \in Readings
  PROVE  Plan(kept) \in [add : SUBSET (App \X registered), drop : SUBSET (App \X Imported)]
<1>1. \A p \in Tracked : p \in Imported /\ app[p] \in App
  BY DEF Tracked, Records, IsPlaceholder, TypeOK, Server
<1>2. ASSUME NEW e \in Plan(kept).add PROVE e \in App \X registered
  <2>1. PICK p \in Tracked : e[2] \in Twin(p, kept)
    BY <1>2 DEF Plan
  <2>2. e[2] \in registered
    BY <1>1, <2>1, TwinIsLive
  <2>3. e \in Pairs
    BY <1>2 DEF Plan
  <2> QED
    BY <2>2, <2>3 DEF Pairs
<1>3. ASSUME NEW e \in Plan(kept).drop PROVE e \in App \X Imported
  BY <1>1, <1>3 DEF Plan
<1> QED
  BY <1>2, <1>3 DEF Plan

\* Who does what to whom.
LEMMA TypeStep == TypeOK /\ [Next]_vars => TypeOK'
<1> SUFFICES ASSUME TypeOK, [Next]_vars PROVE TypeOK'
  OBVIOUS
<1>1. CASE UNCHANGED vars
  BY <1>1 DEF TypeOK, vars
<1>2. ASSUME NEW r \in Run, Scan(r) PROVE TypeOK'
  <2>1. PICK kept \in Readings : todo' = [todo EXCEPT ![r] = Plan(kept)]
    BY <1>2 DEF Scan
  <2> QED
    BY <1>2, <2>1, PlanTyped DEF Scan, TypeOK
<1>3. ASSUME NEW r \in Run, Add(r) PROVE TypeOK'
  <2>1. PICK a \in App : app' \in [Server -> App \cup {NoApp}]
                         /\ (todo' = [todo EXCEPT ![r].add = Without(a, @)] \/ Raise(r))
    BY <1>3 DEF Add, TypeOK
  <2>2. todo' \in [Run -> [add : SUBSET (App \X registered),
                           drop : SUBSET (App \X Imported)]]
    BY <2>1, NothingTyped DEF Without, Raise, TypeOK
  <2> QED
    BY <1>3, <2>1, <2>2 DEF Add, TypeOK
<1>4. ASSUME NEW r \in Run, Drop(r) PROVE TypeOK'
  <2>1. PICK a \in App : app' \in [Server -> App \cup {NoApp}]
                         /\ (todo' = [todo EXCEPT ![r].drop = Without(a, @)] \/ Raise(r))
    BY <1>4 DEF Drop, TypeOK
  <2>2. todo' \in [Run -> [add : SUBSET (App \X registered),
                           drop : SUBSET (App \X Imported)]]
    BY <2>1, NothingTyped DEF Without, Raise, TypeOK
  <2> QED
    BY <1>4, <2>1, <2>2 DEF Drop, TypeOK
<1>5. ASSUME NEW r \in Run, Crash(r) PROVE TypeOK'
  BY <1>5, NothingTyped, InventoryConstants DEF Crash, Raise, TypeOK
<1>6. ASSUME NEW s \in Agent, Register(s) PROVE TypeOK'
  <2>1. registered \subseteq registered'
    BY <1>6 DEF Register
  <2>2. todo' \in [Run -> [add : SUBSET (App \X registered'),
                           drop : SUBSET (App \X Imported)]]
    BY <1>6, <2>1 DEF Register, TypeOK
  <2> QED
    BY <1>6, <2>2 DEF Register, TypeOK
<1>7. ASSUME NEW s \in Agent, Adopt(s) PROVE TypeOK'
  BY <1>7 DEF Adopt, TypeOK, Server
<1> QED
  BY <1>1, <1>2, <1>3, <1>4, <1>5, <1>6, <1>7 DEF Next, RunStep

\* Every server of a record keeps the application it has, but for a run that
\* removes placeholders from one; names stay and agents do not leave.
LEMMA Moves ==
  ASSUME TypeOK, [Next]_vars
  PROVE  /\ naming' = naming /\ registered \subseteq registered'
         /\ \A s \in Agent : app[s] # NoApp => app'[s] = app[s]
         /\ \A p \in Imported : app'[p] \in {app[p], NoApp}
<1>1. CASE UNCHANGED vars
  BY <1>1 DEF vars
<1>2. ASSUME NEW r \in Run, Scan(r) \/ Crash(r)
      PROVE  UNCHANGED <<naming, registered, app>>
  BY <1>2 DEF Scan, Crash
<1>3. ASSUME NEW r \in Run, Add(r)
      PROVE  /\ UNCHANGED <<naming, registered>>
             /\ \A s \in Server : app'[s] # app[s] => app[s] = NoApp /\ s \in registered
  <2>1. PICK a \in App : LET ids == Of(a, todo[r].add) IN
          \/ /\ \A s \in ids : app[s] = NoApp
             /\ app' = [s \in Server |-> IF s \in ids THEN a ELSE app[s]]
          \/ UNCHANGED app
    BY <1>3 DEF Add
  <2>2. Of(a, todo[r].add) \subseteq registered
    BY DEF Of, TypeOK
  <2> QED
    BY <1>3, <2>1, <2>2 DEF Add
<1>4. ASSUME NEW r \in Run, Drop(r)
      PROVE  /\ UNCHANGED <<naming, registered>>
             /\ \A s \in Server : app'[s] # app[s] => app'[s] = NoApp /\ s \in Imported
  <2>1. PICK a \in App : LET ids == Of(a, todo[r].drop) IN
          \/ app' = [s \in Server |-> IF s \in ids /\ app[s] = a THEN NoApp ELSE app[s]]
          \/ UNCHANGED app
    BY <1>4 DEF Drop
  <2>2. Of(a, todo[r].drop) \subseteq Imported
    BY DEF Of, TypeOK
  <2> QED
    BY <1>4, <2>1, <2>2 DEF Drop
<1>5. ASSUME NEW s \in Agent, Register(s)
      PROVE  naming' = naming /\ registered \subseteq registered' /\ app' = app
  BY <1>5 DEF Register
<1>6. ASSUME NEW s \in Agent, Adopt(s)
      PROVE  /\ UNCHANGED <<naming, registered>>
             /\ \A u \in Server : app'[u] # app[u] => app[u] = NoApp /\ u = s
  BY <1>6 DEF Adopt, TypeOK
<1> QED
  BY <1>1, <1>2, <1>3, <1>4, <1>5, <1>6, InventoryConstants
  DEF Next, RunStep, Server, TypeOK

\* A run's work is what it read, less what it has done.
LEMMA Work ==
  ASSUME TypeOK, [Next]_vars, NEW r \in Run, todo'[r] # todo[r]
  PROVE  \/ Scan(r) \/ Add(r) \/ Drop(r)
         \/ todo'[r] = Nothing
<1>1. CASE UNCHANGED vars
  BY <1>1 DEF vars
<1>2. ASSUME NEW q \in Run, Scan(q) \/ Add(q) \/ Drop(q) \/ Crash(q), q # r
      PROVE  FALSE
  BY <1>2 DEF Scan, Add, Drop, Crash, Raise, TypeOK
<1>3. CASE Crash(r)
  BY <1>3 DEF Crash, Raise, TypeOK
<1>4. ASSUME NEW s \in Agent, Register(s) \/ Adopt(s) PROVE FALSE
  BY <1>4 DEF Register, Adopt
<1> QED
  BY <1>1, <1>2, <1>3, <1>4 DEF Next, RunStep

\* One call for one application.
LEMMA AddCall ==
  ASSUME TypeOK, NEW r \in Run, Add(r)
  PROVE  \/ todo'[r] = Nothing
         \/ /\ todo'[r].drop = todo[r].drop
            /\ todo'[r].add \subseteq todo[r].add
            /\ \A a \in App, t \in Agent :
                 <<a, t>> \in todo[r].add =>
                   app'[t] = a \/ <<a, t>> \in todo'[r].add
<1>1. CASE todo' = [todo EXCEPT ![r] = Nothing]
  BY <1>1 DEF TypeOK
<1>2. ASSUME NEW a \in App,
             app' = [s \in Server |-> IF s \in Of(a, todo[r].add) THEN a ELSE app[s]],
             todo' = [todo EXCEPT ![r].add = Without(a, @)]
      PROVE  /\ todo'[r].drop = todo[r].drop
             /\ todo'[r].add \subseteq todo[r].add
             /\ \A b \in App, t \in Agent :
                  <<b, t>> \in todo[r].add =>
                    app'[t] = b \/ <<b, t>> \in todo'[r].add
  <2>1. todo'[r].drop = todo[r].drop /\ todo'[r].add = Without(a, todo[r].add)
    BY <1>2 DEF TypeOK
  <2>2. ASSUME NEW b \in App, NEW t \in Agent, <<b, t>> \in todo[r].add
        PROVE  app'[t] = b \/ <<b, t>> \in Without(a, todo[r].add)
    BY <1>2, <2>2 DEF Of, Without, Server
  <2> QED
    BY <2>1, <2>2 DEF Without
<1> QED
  BY <1>1, <1>2 DEF Add, Raise

LEMMA DropCall ==
  ASSUME TypeOK, NEW r \in Run, Drop(r)
  PROVE  \/ todo'[r] = Nothing
         \/ /\ todo'[r].add = todo[r].add
            /\ todo'[r].drop \subseteq todo[r].drop
<1>1. CASE todo' = [todo EXCEPT ![r] = Nothing]
  BY <1>1 DEF TypeOK
<1>2. ASSUME NEW a \in App, todo' = [todo EXCEPT ![r].drop = Without(a, @)]
      PROVE  todo'[r].add = todo[r].add /\ todo'[r].drop \subseteq todo[r].drop
  BY <1>2 DEF Without, TypeOK
<1> QED
  BY <1>1, <1>2 DEF Drop, Raise

\* A run that reads the inventory maps every tracked placeholder to its twin.
LEMMA ScanCall ==
  ASSUME TypeOK, PlacesInv, NEW r \in Run, Scan(r)
  PROVE  /\ \A a \in App, p \in Imported : <<a, p>> \in todo'[r].drop =>
              /\ app[p] = a /\ Placed[p] = a
              /\ \E t \in registered :
                   Alike(p, t) /\ (app[t] = a \/ <<a, t>> \in todo'[r].add)
         /\ \A a \in App, t \in Agent : <<a, t>> \in todo'[r].add =>
              \E p \in Imported : app[p] = a /\ Placed[p] = a /\ Alike(p, t)
<1>1. PICK kept \in Readings :
        /\ \A p \in Tracked : Twin(p, kept) # {}
        /\ todo' = [todo EXCEPT ![r] = Plan(kept)]
  BY DEF Scan
<1>2. todo'[r] = Plan(kept)
  BY <1>1 DEF TypeOK
<1>3. \A p \in Tracked : p \in Imported /\ app[p] = Placed[p] /\ app[p] \in App
  BY DEF Tracked, Records, IsPlaceholder, TypeOK, PlacesInv, Server
<1>4. ASSUME NEW a \in App, NEW p \in Imported, <<a, p>> \in Plan(kept).drop
      PROVE  /\ app[p] = a /\ Placed[p] = a
             /\ \E t \in registered :
                  Alike(p, t) /\ (app[t] = a \/ <<a, t>> \in Plan(kept).add)
  <2>1. p \in Tracked /\ app[p] = a
    BY <1>4 DEF Plan
  <2>2. PICK t \in Twin(p, kept) : TRUE
    BY <1>1, <2>1
  <2>3. t \in registered /\ Alike(p, t)
    BY <2>2, TwinIsLive
  <2>4. <<a, t>> \in Pairs
    BY <2>3 DEF Pairs, Server, TypeOK
  <2>5. app[t] # a => <<a, t>> \in Plan(kept).add
    BY <2>1, <2>2, <2>4 DEF Plan
  <2> QED
    BY <1>3, <2>1, <2>3, <2>5
<1>5. ASSUME NEW a \in App, NEW t \in Agent, <<a, t>> \in Plan(kept).add
      PROVE  \E p \in Imported : app[p] = a /\ Placed[p] = a /\ Alike(p, t)
  <2>1. PICK p \in Tracked : app[p] = a /\ t \in Twin(p, kept)
    BY <1>5 DEF Plan
  <2> QED
    BY <1>3, <2>1, TwinIsLive
<1> QED
  BY <1>2, <1>4, <1>5

LEMMA TwinStep == IInv /\ [Next]_vars => TwinInv'
<1> SUFFICES ASSUME IInv, [Next]_vars,
                    NEW r \in Run, NEW a \in App, NEW p \in Imported,
                    <<a, p>> \in todo'[r].drop
             PROVE  /\ Placed[p] = a
                    /\ \E t \in registered' : Alike(p, t)' /\
                         (app'[t] = a \/ <<a, t>> \in todo'[r].add)
  BY DEF TwinInv
<1>1. /\ naming' = naming /\ registered \subseteq registered'
      /\ \A t \in registered : app[t] # NoApp => app'[t] = app[t]
  BY Moves DEF IInv, TypeOK
<1>2. a # NoApp
  BY InventoryConstants
<1>3. CASE todo'[r] = todo[r]
  <2>1. PICK t \in registered :
          Placed[p] = a /\ Alike(p, t) /\ (app[t] = a \/ <<a, t>> \in todo[r].add)
    BY <1>3 DEF IInv, TwinInv
  <2> QED
    BY <1>1, <1>2, <1>3, <2>1 DEF Alike
<1>4. CASE Scan(r)
  BY <1>1, <1>2, <1>4, ScanCall DEF IInv, Alike
<1>5. CASE Add(r) \/ Drop(r)
  <2>1. CASE todo'[r] = Nothing
    BY <2>1 DEF Nothing
  <2>2. /\ <<a, p>> \in todo[r].drop
        /\ \A t \in Agent : <<a, t>> \in todo[r].add =>
             app'[t] = a \/ <<a, t>> \in todo'[r].add
    BY <1>5, <2>1, AddCall, DropCall DEF IInv, Nothing
  <2>3. PICK t \in registered :
          Placed[p] = a /\ Alike(p, t) /\ (app[t] = a \/ <<a, t>> \in todo[r].add)
    BY <2>2 DEF IInv, TwinInv
  <2> QED
    BY <1>1, <1>2, <2>2, <2>3 DEF IInv, TypeOK, Alike
<1>6. todo'[r] # Nothing
  BY DEF Nothing
<1> QED
  BY <1>3, <1>4, <1>5, <1>6, Work DEF IInv

\* A placeholder goes when its twin is there.
LEMMA SwapStep == IInv /\ [Next]_vars => SwappedForTwin'
<1> SUFFICES ASSUME IInv, [Next]_vars, NEW p \in Imported, app'[p] = NoApp
             PROVE  \E t \in registered' : app'[t] = Placed[p] /\ Alike(p, t)'
  BY DEF SwappedForTwin
<1>1. /\ naming' = naming /\ registered \subseteq registered'
      /\ \A t \in registered : app[t] # NoApp => app'[t] = app[t]
  BY Moves DEF IInv, TypeOK
<1>2. Placed[p] \in App /\ Placed[p] # NoApp
  BY InventoryConstants
<1>3. CASE app[p] = NoApp
  BY <1>1, <1>2, <1>3 DEF IInv, SwappedForTwin, Alike
<1>4. CASE app[p] # NoApp
  <2>1. PICK r \in Run : Drop(r)
    <3>1. p \in Server /\ p \notin Agent
      BY InventoryConstants DEF Server
    <3>2. \A r \in Run : Add(r) => app'[p] = app[p]
      BY <1>4, <3>1 DEF Add, Of, IInv, TypeOK
    <3>3. \A s \in Agent : Adopt(s) => app'[p] = app[p]
      BY <3>1 DEF Adopt, IInv, TypeOK
    <3> QED
      BY <1>4, <3>2, <3>3 DEF Next, RunStep, Scan, Crash, Register, vars
  <2>2. PICK a \in App :
          /\ todo[r].add = {}
          /\ app' = [s \in Server |->
               IF s \in Of(a, todo[r].drop) /\ app[s] = a THEN NoApp ELSE app[s]]
    BY <1>4, <2>1 DEF Drop
  <2>3. <<a, p>> \in todo[r].drop
    BY <1>4, <2>2 DEF Of, Server
  <2>4. PICK t \in registered :
          Placed[p] = a /\ Alike(p, t) /\ (app[t] = a \/ <<a, t>> \in todo[r].add)
    BY <2>3 DEF IInv, TwinInv
  <2> QED
    BY <1>1, <1>2, <2>2, <2>4 DEF Alike
<1> QED
  BY <1>3, <1>4

LEMMA PlacesStep == IInv /\ [Next]_vars => PlacesInv'
  BY Moves DEF IInv, PlacesInv

THEOREM IInvAlways == Spec => []IInv
<1>1. Init => IInv
  <2>1. Init => TypeOK
    BY NothingTyped, InventoryConstants DEF Init, TypeOK, Server
  <2>2. Init => PlacesInv /\ TwinInv /\ SwappedForTwin
    BY InventoryConstants DEF Init, PlacesInv, TwinInv, SwappedForTwin, Nothing, Server
  <2> QED
    BY <2>1, <2>2 DEF IInv
<1>2. IInv /\ [Next]_vars => IInv'
  BY TypeStep, TwinStep, SwapStep, PlacesStep DEF IInv
<1> QED
  BY <1>1, <1>2, PTL DEF Spec

\* The types, and what a run adds and removes, hold of every reachable state.
THEOREM TypeCorrect == Spec => []TypeOK
  BY IInvAlways, PTL DEF IInv

\* A placeholder that was taken out has left a server of its name behind.
THEOREM SwapsForATwin == Spec => []SwappedForTwin
  BY IInvAlways, PTL DEF IInv

\* No replicating server is taken out of its application.
THEOREM KeepsReplicating == Spec => ReplicatingKept
<1>1. IInv /\ [Next]_vars =>
        \A s \in registered : app[s] # NoApp => app'[s] = app[s]
  BY Moves DEF IInv, TypeOK
<1> QED
  BY <1>1, IInvAlways, PTL DEF Spec, ReplicatingKept

\* No application is emptied.
THEOREM NeverEmpties == Spec => NeverEmptied
<1>1. ASSUME IInv, [Next]_vars, NEW a \in App, NEW s \in Server, app[s] = a
      PROVE  \E u \in Server : app'[u] = a
  <2>1. a # NoApp
    BY InventoryConstants
  <2>2. CASE s \in Agent
    BY <1>1, <2>1, <2>2, Moves DEF IInv
  <2>3. CASE s \in Imported /\ app'[s] = NoApp
    <3>1. Placed[s] = a
      BY <1>1, <2>1, <2>3 DEF IInv, PlacesInv
    <3>2. PICK t \in registered' : app'[t] = a
      BY <1>1, <2>3, <3>1, SwapStep DEF SwappedForTwin
    <3>3. t \in Server
      BY <1>1, <3>2, TypeStep DEF IInv, TypeOK, Server
    <3> QED
      BY <3>2, <3>3
  <2>4. CASE s \in Imported /\ app'[s] # NoApp
    BY <1>1, <2>4, Moves DEF IInv
  <2> QED
    BY <2>2, <2>3, <2>4 DEF Server
<1>2. IInv /\ [Next]_vars =>
        \A a \in App : (\E s \in Server : app[s] = a) => \E s \in Server : app'[s] = a
  BY <1>1
<1> QED
  BY <1>2, IInvAlways, PTL DEF Spec, NeverEmptied

-----------------------------------------------------------------------------
\* While what a run adds has no place, the placeholder it stands for is there:
\* whoever takes it out has placed the only server of its name.
LEMMA AddStep == IInv /\ (Distinct => AddInv) /\ [Next]_vars => (Distinct => AddInv)'
<1> SUFFICES ASSUME IInv, Distinct => AddInv, [Next]_vars, Distinct',
                    NEW r \in Run, NEW a \in App, NEW t \in Agent,
                    <<a, t>> \in todo'[r].add
             PROVE  \E p \in Imported : /\ Placed[p] = a /\ Alike(p, t)'
                                        /\ app'[p] = a \/ app'[t] # NoApp
  BY DEF AddInv
<1>1. /\ naming' = naming /\ registered \subseteq registered'
      /\ \A s \in Agent : app[s] # NoApp => app'[s] = app[s]
      /\ \A p \in Imported : app'[p] \in {app[p], NoApp}
  BY Moves DEF IInv
<1>2. Distinct /\ AddInv
  BY <1>1 DEF Distinct, Alike
<1>3. a # NoApp
  BY InventoryConstants
<1>4. ASSUME NEW p \in Imported, Placed[p] = a, Alike(p, t),
             app[p] = a \/ app[t] # NoApp
      PROVE  Alike(p, t)' /\ (app'[p] = a \/ app'[t] # NoApp)
  <2>1. CASE app[t] # NoApp
    BY <1>1, <1>4, <2>1 DEF Alike
  <2>2. CASE app'[p] = NoApp
    <3>1. PICK u \in registered' : app'[u] = a /\ Alike(p, u)'
      BY <1>4, <2>2, SwapStep DEF SwappedForTwin
    <3>2. u \in Agent
      BY <3>1, TypeStep DEF IInv, TypeOK
    <3>3. u = t
      BY <1>1, <1>2, <1>4, <3>1, <3>2 DEF Alike, Distinct
    <3> QED
      BY <1>1, <1>3, <1>4, <3>1, <3>3 DEF Alike
  <2> QED
    BY <1>1, <1>4, <2>1, <2>2 DEF Alike
<1>5. CASE Scan(r)
  BY <1>4, <1>5, ScanCall DEF IInv
<1>6. CASE <<a, t>> \in todo[r].add
  <2>1. PICK p \in Imported :
          Placed[p] = a /\ Alike(p, t) /\ (app[p] = a \/ app[t] # NoApp)
    BY <1>2, <1>6 DEF AddInv
  <2> QED
    BY <1>4, <2>1
<1>7. Add(r) \/ Drop(r) => <<a, t>> \in todo[r].add
  BY AddCall, DropCall DEF IInv, Nothing
<1>8. todo'[r] # Nothing
  BY DEF Nothing
<1> QED
  BY <1>5, <1>6, <1>7, <1>8, Work DEF IInv

\* A run only puts a server beside the placeholder it stands for, if agents'
\* servers have names of their own.
THEOREM AddsBesideTwins == Spec => AddedBesideTwin
<1>1. Init => (Distinct => AddInv)
  BY DEF Init, AddInv, Nothing
<1>2. ASSUME IInv, Distinct, AddInv, [Next]_vars,
             NEW s \in Agent, app'[s] # app[s], s \notin adopted'
      PROVE  \E p \in Imported : app[p] = app'[s] /\ Alike(p, s)
  <2>1. PICK r \in Run : Add(r)
    <3>1. \A r \in Run : Drop(r) => app'[s] = app[s]
      <4> SUFFICES ASSUME NEW q \in Run, Drop(q) PROVE app'[s] = app[s]
        OBVIOUS
      <4>1. \A a \in App : s \notin Of(a, todo[q].drop)
        BY <1>2, InventoryConstants DEF Of, IInv, TypeOK
      <4> QED
        BY <1>2, <4>1 DEF Drop, IInv, TypeOK, Server
    <3>2. \A u \in Agent : ~Adopt(u)
      BY <1>2 DEF Adopt, IInv, TypeOK, Server
    <3> QED
      BY <1>2, <3>1, <3>2 DEF Next, RunStep, Scan, Crash, Register, vars
  <2>2. PICK a \in App :
          /\ \A u \in Of(a, todo[r].add) : app[u] = NoApp
          /\ app' = [u \in Server |-> IF u \in Of(a, todo[r].add) THEN a ELSE app[u]]
    BY <1>2, <2>1 DEF Add
  <2>3. <<a, s>> \in todo[r].add /\ app'[s] = a /\ app[s] = NoApp
    BY <1>2, <2>2 DEF Of, Server
  <2> QED
    BY <1>2, <2>3 DEF AddInv
<1>3. IInv /\ (Distinct => AddInv) /\ [Next]_vars =>
        (Distinct => \A s \in Agent : app'[s] # app[s] /\ s \notin adopted' =>
           \E p \in Imported : app[p] = app'[s] /\ Alike(p, s))
  BY <1>2
<1> QED
  BY <1>1, <1>3, AddStep, IInvAlways, PTL DEF Spec, AddedBesideTwin

\* With clear names every application keeps as many members as the import
\* gave it: each placeholder that left is stood for by another server.
THEOREM KeepsItsSize == Spec => []TracksAsMany
<1>1. ASSUME IInv, Unambiguous, NEW a \in App
      PROVE  Cardinality(Members(a)) >= Cardinality({p \in Imported : Placed[p] = a})
  <2> DEFINE P == {p \in Imported : Placed[p] = a}
             TwinOf(p) == CHOOSE t \in Agent : app[t] = a /\ Alike(p, t)
             f == [p \in P |-> IF app[p] = a THEN p ELSE TwinOf(p)]
  <2>1. \A p \in P : app[p] # a =>
          TwinOf(p) \in Agent /\ app[TwinOf(p)] = a /\ Alike(p, TwinOf(p))
    <3> SUFFICES ASSUME NEW p \in P, app[p] # a
                 PROVE  \E t \in Agent : app[t] = a /\ Alike(p, t)
      OBVIOUS
    <3>1. app[p] = NoApp
      BY <1>1 DEF IInv, PlacesInv
    <3> QED
      BY <1>1, <3>1 DEF IInv, SwappedForTwin, TypeOK
  <2>2. f \in [P -> Members(a)]
    BY <2>1 DEF Members, Server
  <2>3. ASSUME NEW p \in P, NEW q \in P, f[p] = f[q] PROVE p = q
    <3>1. CASE app[p] = a /\ app[q] = a
      BY <2>3, <3>1
    <3>2. CASE app[p] # a /\ app[q] # a
      <4>1. TwinOf(p) = TwinOf(q)
        BY <2>3, <3>2
      <4>2. Alike(p, TwinOf(p)) /\ Alike(q, TwinOf(q))
        BY <2>1, <3>2
      <4>3. Alike(p, q)
        BY <4>1, <4>2 DEF Alike
      <4> QED
        BY <1>1, <4>3 DEF Unambiguous
    <3>3. CASE (app[p] = a) # (app[q] = a)
      BY <2>1, <2>3, <3>3, InventoryConstants
    <3> QED
      BY <3>1, <3>2, <3>3
  <2> HIDE DEF f
  <2>4. f \in Injection(P, Members(a))
    BY <2>2, <2>3, Fun_IsInj
  <2>5. IsFiniteSet(Server)
    BY InventoryConstants, FS_Union DEF Server
  <2>6. IsFiniteSet(Members(a))
    BY <2>5, FS_Subset DEF Members
  <2>7. Cardinality(P) <= Cardinality(Members(a)) /\ IsFiniteSet(P)
    BY <2>4, <2>6, FS_Injection
  <2> QED
    BY <2>6, <2>7, FS_CardinalityType
<1>2. IInv => TracksAsMany
  BY <1>1 DEF TracksAsMany
<1> QED
  BY <1>2, IInvAlways, PTL
=============================================================================
