----------------------------- MODULE Inventory -----------------------------
(***************************************************************************)
(* The reconciliation of a wave's inventory with what really replicates    *)
(* (dispatcher/handler.py, _reconcile_wave_inventory).  An import leaves a *)
(* placeholder per machine in the wave's applications; the agents installed*)
(* later register as servers of their own, outside them.  The step puts    *)
(* each placeholder's twin into its application and then takes the         *)
(* placeholders out, with one call per application for either.             *)
(*                                                                         *)
(* An operator repeats the step until it says there is nothing to do, also *)
(* while another one is at it; agents go on registering and AWS Transform  *)
(* adopts servers meanwhile.  What a call decides on is read once, before. *)
(***************************************************************************)
EXTENDS Naturals, FiniteSets

CONSTANTS
  Run,        \* invocations of the step
  App,        \* MGN applications
  Imported,   \* the records of the import ...
  Placed,     \* ... and the application each one is in at first
  Agent,      \* the servers agents register
  Namings,    \* the host names the records may turn out to have
  MaxCrashes  \* bound on the invocations that die or meet a failing call

NoApp == "no application"
Server == Imported \cup Agent

\* A host name, in lower case: what precedes the first dot, and the rest.
HostName == [short : STRING, suffix : STRING]

ASSUME InventoryConstants ==
  /\ NoApp \notin App
  /\ Imported \cap Agent = {} /\ IsFiniteSet(Imported) /\ IsFiniteSet(Agent)
  /\ Placed \in [Imported -> App]
  /\ Namings \subseteq [Server -> HostName]
  /\ MaxCrashes \in Nat

VARIABLES
  naming,      \* the records' host names
  registered,  \* agents that have registered, and replicate
  adopted,     \* ... of them, those AWS Transform has taken over and tagged
  app,         \* MGN: the application of each record
  todo,        \* the invocations: what they still have to add and to remove
  crashes

vars == <<naming, registered, adopted, app, todo, crashes>>

Pairs == App \X Server
Nothing == [add |-> {}, drop |-> {}]

Init ==
  /\ naming \in Namings
  /\ registered = {} /\ adopted = {}
  /\ app = [s \in Server |-> IF s \in Imported THEN Placed[s] ELSE NoApp]
  /\ todo = [r \in Run |-> Nothing]
  /\ crashes = 0

Records == Imported \cup registered

\* Mutant: the tag alone.
IsTagged(s) == s \in Imported \cup adopted

\* _is_placeholder: created by the service, and no agent was ever seen on it.
IsPlaceholder(s) == s \in Imported \cup adopted /\ s \notin registered

\* The dictionary of live servers holds one record per host name.
Readings ==
  LET live == {s \in Records : ~IsPlaceholder(s)} IN
  {kept \in SUBSET live :
     \A s \in live : \E t \in kept :
       naming[t] = naming[s] /\ \A u \in kept : naming[u] = naming[s] => u = t}

Alike(s, t) == naming[s].short = naming[t].short

\* _twin: the server of the very name, or else the only one of the short name.
Twin(p, kept) ==
  LET exact == {t \in kept : naming[t] = naming[p]}
      hits == {t \in kept : Alike(p, t)}
  IN  IF exact # {} THEN exact
      ELSE IF \A t, u \in hits : t = u THEN hits ELSE {}

\* What is still in an application, among what the import left there.
Tracked == {p \in Records : IsPlaceholder(p) /\ app[p] # NoApp}

\* Mutant: what the application holds already is added again.
PlanAnew(kept) ==
  [add |-> {e \in Pairs : \E p \in Tracked : e[1] = app[p] /\ e[2] \in Twin(p, kept)},
   drop |-> {<<app[p], p>> : p \in Tracked}]

\* The servers to add and the placeholders to remove, application by
\* application: the delta against what the applications hold.
Plan(kept) ==
  [add |-> {e \in Pairs : \E p \in Tracked :
              e[1] = app[p] /\ e[2] \in Twin(p, kept) /\ app[e[2]] # e[1]},
   drop |-> {<<app[p], p>> : p \in Tracked}]

\* Mutant: placeholders without a twin are taken out with the others.
ScanPartly(r) ==
  /\ todo[r] = Nothing /\ Tracked # {}
  /\ \E kept \in Readings : todo' = [todo EXCEPT ![r] = Plan(kept)]
  /\ UNCHANGED <<naming, registered, adopted, app, crashes>>

\* The step reads the inventory and decides.  Without a tracked placeholder,
\* or with one that has no twin, it changes nothing.
Scan(r) ==
  /\ todo[r] = Nothing /\ Tracked # {}
  /\ \E kept \in Readings :
       /\ \A p \in Tracked : Twin(p, kept) # {}
       /\ todo' = [todo EXCEPT ![r] = Plan(kept)]
  /\ UNCHANGED <<naming, registered, adopted, app, crashes>>

\* A call MGN refuses, or a run that dies: nothing is recorded.
Raise(r) == todo' = [todo EXCEPT ![r] = Nothing]

Of(a, pairs) == {s \in Server : <<a, s>> \in pairs}
Without(a, pairs) == {e \in pairs : e[1] # a}

\* associate_source_servers, application by application.  MGN refuses to
\* associate a server that is in an application.
Add(r) ==
  \E a \in App : LET ids == Of(a, todo[r].add) IN
    /\ ids # {}
    /\ \/ /\ \A s \in ids : app[s] = NoApp
          /\ app' = [s \in Server |-> IF s \in ids THEN a ELSE app[s]]
          /\ todo' = [todo EXCEPT ![r].add = Without(a, @)]
       \/ /\ \E s \in ids : app[s] # NoApp
          /\ Raise(r) /\ UNCHANGED app
    /\ UNCHANGED <<naming, registered, adopted, crashes>>

\* Mutant: the placeholders go first.
DropFirst(r) ==
  \E a \in App : LET ids == Of(a, todo[r].drop) IN
    /\ ids # {}
    /\ app' = [s \in Server |-> IF s \in ids /\ app[s] = a THEN NoApp ELSE app[s]]
    /\ todo' = [todo EXCEPT ![r].drop = Without(a, @)]
    /\ UNCHANGED <<naming, registered, adopted, crashes>>

\* disassociate_source_servers, after all of the additions.  It may refuse
\* servers another invocation has taken out.
Drop(r) ==
  \E a \in App : LET ids == Of(a, todo[r].drop) IN
    /\ todo[r].add = {} /\ ids # {}
    /\ \/ /\ app' = [s \in Server |-> IF s \in ids /\ app[s] = a THEN NoApp
                                                               ELSE app[s]]
          /\ todo' = [todo EXCEPT ![r].drop = Without(a, @)]
       \/ /\ \E s \in ids : app[s] # a
          /\ Raise(r) /\ UNCHANGED app
    /\ UNCHANGED <<naming, registered, adopted, crashes>>

Crash(r) ==
  /\ todo[r] # Nothing /\ crashes < MaxCrashes
  /\ crashes' = crashes + 1
  /\ Raise(r)
  /\ UNCHANGED <<naming, registered, adopted, app>>

\* An agent registers its machine as a new source server.
Register(s) ==
  /\ s \in Agent \ registered
  /\ registered' = registered \cup {s}
  /\ UNCHANGED <<naming, adopted, app, todo, crashes>>

\* AWS Transform takes a replicating server into an application, and tags it.
Adopt(s) ==
  /\ s \in registered /\ app[s] = NoApp
  /\ adopted' = adopted \cup {s}
  /\ \E a \in App : app' = [app EXCEPT ![s] = a]
  /\ UNCHANGED <<naming, registered, todo, crashes>>

RunStep(r) == Add(r) \/ Drop(r)

Next ==
  \/ \E r \in Run : Scan(r) \/ RunStep(r) \/ Crash(r)
  \/ \E s \in Agent : Register(s) \/ Adopt(s)

Spec == Init /\ [][Next]_vars

\* A call that was started is finished, the agents get installed, and somebody
\* keeps repeating the step while it has something to do.
Fairness ==
  /\ \A r \in Run : WF_vars(RunStep(r))
  /\ \A s \in Agent : WF_vars(Register(s))
  /\ SF_vars(\E r \in Run : Scan(r))

FairSpec == Spec /\ Fairness

-----------------------------------------------------------------------------
\* Every variable has its type; what an invocation adds are servers with an
\* agent, what it removes are imported records.
TypeOK ==
  /\ naming \in [Server -> HostName]
  /\ registered \subseteq Agent /\ adopted \subseteq registered
  /\ app \in [Server -> App \cup {NoApp}]
  /\ todo \in [Run -> [add : SUBSET (App \X registered),
                       drop : SUBSET (App \X Imported)]]
  /\ crashes \in Nat

\* No application that has a server is ever left without one, whatever dies or
\* runs at the same time ("an application is never emptied").
NeverEmptied ==
  [][\A a \in App : (\E s \in Server : app[s] = a) => \E s \in Server : app'[s] = a]_vars

\* A replicating server that is in an application stays there, adopted or not
\* ("a replicating server is never removed, whatever its tags say").
ReplicatingKept ==
  [][\A s \in registered : app[s] # NoApp => app'[s] = app[s]]_vars

\* Agents' servers with names of their own.
Distinct == \A s, t \in Agent : Alike(s, t) => s = t

\* A server is only put where a placeholder of its name sits at that moment,
\* though the run read the inventory long ago and others have been swapping
\* since ("a server is only added where its own twin already sits, matched on
\* hostname").  Of two servers of one name, two runs may add one each.
AddedBesideTwin ==
  [][Distinct => \A s \in Agent : app'[s] # app[s] /\ s \notin adopted' =>
       \E p \in Imported : app[p] = app'[s] /\ Alike(p, s)]_vars

\* A placeholder that was taken out has left a server of its name behind.
SwappedForTwin ==
  \A p \in Imported : app[p] = NoApp =>
    \E t \in registered : app[t] = Placed[p] /\ Alike(p, t)

\* Names that leave no doubt: every imported record has one agent's server of
\* its short name, and no two have the same one.
Unambiguous ==
  /\ \A p \in Imported : \E t \in Agent :
       Alike(p, t) /\ \A u \in Agent : Alike(p, u) => u = t
  /\ \A p, q \in Imported : Alike(p, q) => p = q

Members(a) == {s \in Server : app[s] = a}

\* With such names no application loses a machine ("every placeholder must map
\* to exactly one replicating server before the wave is rewritten").
TracksAsMany ==
  Unambiguous => \A a \in App :
    Cardinality(Members(a)) >= Cardinality({p \in Imported : Placed[p] = a})

\* Somebody put a server into another application than its placeholder's.
Misplaced ==
  \E t \in Agent, p \in Imported : Alike(p, t) /\ app[t] \notin {NoApp, Placed[p]}

\* A half-applied swap is finished by repeating the step, from wherever a run
\* died ("the delta is against what the application holds right now").
Finishes ==
  Unambiguous /\ []~Misplaced => <>[](\A p \in Imported : app[p] = NoApp)
=============================================================================
