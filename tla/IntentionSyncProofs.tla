--------------------------- MODULE IntentionSyncProofs ---------------------------
(***************************************************************************)
(* That what a close writes is of one type whatever interleaves and fails,  *)
(* that builds keep what was recorded on them, and that closes which do not *)
(* overlap leave one current build, one instance of a name and references   *)
(* that lead to the right build, for any intentions, actions and deaths.    *)
(***************************************************************************)
EXTENDS IntentionSync, FiniteSetTheorems, SequenceTheorems, TLAPS

Build == [intention : Intentions, action : Nat, replaced : BOOLEAN,
          installed : Seq(Intentions \X Nat), approvals : Nat]

Ref == Nat \cup {NoBuild}

FinalizerState == [pc : Pc, of : Intentions \cup {NoIntention}, k : Nat,
                   instance : Nat \cup {NoInstance}, build : Ref,
                   read : Build \cup {<<>>}, refs : Seq(Ref), dirty : BOOLEAN]

(* The references of an intention: one for each action, to a build there is. *)
RefsOf(i) == [1 .. Len(ActionsOf[i]) -> (1 .. Len(builds)) \cup {NoBuild}]

NotWaitedFor == {"component", "authorized", "deploy-type", "installation"}

(* What the step a finalizer stands at says of the rest of its copy. *)
StateOK(s) ==
    /\ s.pc # "idle" => /\ s.of \in Intentions /\ s.k \in 1 .. Len(ActionsOf[s.of])
                        /\ s.refs \in RefsOf(s.of)
    /\ s.pc \in {"replaceBuild", "setRef", "pushInstall"} => s.build \in 1 .. Len(builds)
    /\ s.pc = "linkInstance" => s.instance \in 1 .. instances
    /\ s.pc \in {"findInstance", "addInstance", "linkInstance", "findServer", "pushInstall"} =>
          ActionsOf[s.of][s.k].does = "package-installation"
    /\ s.pc \in {"replaceBuild", "addBuild"} => ActionsOf[s.of][s.k].does = "package-build"
    /\ s.pc \in {"findBuild", "setRef"} => ActionsOf[s.of][s.k].does # "other"

BuildsOK ==
    /\ builds \in Seq(Build)
    /\ \A b \in 1 .. Len(builds) : /\ Len(builds[b].installed) <= MaxEmbedded
                                   /\ builds[b].approvals <= MaxApprovals

StoredOK ==
    /\ stored \in [Intentions -> [closed : BOOLEAN, refs : Seq(Ref)]]
    /\ \A i \in Intentions : stored[i].refs \in RefsOf(i)

GraphOK ==
    /\ vertices \subseteq {"project", "service", "server"}
    /\ instances \in Nat
    /\ \A e \in links : e[1] \in NotWaitedFor \cup {"instance"}
    /\ \A t \in floating : t.by \in Finalizers /\ t.edge[1] \in NotWaitedFor

FinalizersOK ==
    /\ finalizer \in [Finalizers -> FinalizerState]
    /\ \A f \in Finalizers : StateOK(finalizer[f])

BoundsOK ==
    /\ scenario \in Scenarios
    /\ deaths \in 0 .. scenario.deaths /\ closes \in 0 .. scenario.closes

TypeInv == BoundsOK /\ BuildsOK /\ StoredOK /\ GraphOK /\ FinalizersOK

-----------------------------------------------------------------------------
(* What holds when f is the only finalizer. *)

Registered(i, k, b) ==
    b \in 1 .. Len(builds) /\ builds[b].intention = i /\ builds[b].action = k

(* The action numbers a finalizer is done with. *)
PassedBy(s) == {k \in Builds(s.of) : k < s.k \/ s.pc = "close"}

ClosedOK ==
    \A i \in Intentions : stored[i].closed =>
        \A k \in Builds(i) : Registered(i, k, stored[i].refs[k])

CopyOK(s) ==
    /\ s.pc # "idle" => /\ ~stored[s.of].closed
                        /\ s.refs = stored[s.of].refs
                        /\ \A k \in PassedBy(s) : Registered(s.of, k, s.refs[k])
    /\ s.pc = "setRef" /\ ActionsOf[s.of][s.k].does = "package-build" =>
          Registered(s.of, s.k, s.build)

(* Only the last build may be current, and is unless the one that replaces  *)
(* it was never added.                                                      *)
CurrentOK(s) ==
    /\ \A b \in 1 .. (Len(builds) - 1) : builds[b].replaced
    /\ s.pc = "addBuild" => \A b \in 1 .. Len(builds) : builds[b].replaced
    /\ s.pc = "replaceBuild" => s.build = Len(builds)
    /\ deaths = 0 /\ s.pc # "addBuild" /\ builds # <<>> => ~builds[Len(builds)].replaced

InstancesOK(s) ==
    /\ \A n : Linked(n) \in links => n \in 1 .. instances
    /\ \A m, n : Linked(m) \in links /\ Linked(n) \in links => m = n
    /\ s.pc = "addInstance" => \A n : Linked(n) \notin links
    /\ s.pc = "linkInstance" => \A n : Linked(n) \in links => n = s.instance

AloneInv(f) ==
    ClosedOK /\ CopyOK(finalizer[f]) /\ CurrentOK(finalizer[f]) /\ InstancesOK(finalizer[f])

SerialInv == \A f \in Finalizers : scenario.crew = {f} => AloneInv(f)

IInv == TypeInv /\ SerialInv

-----------------------------------------------------------------------------
(* The parts of the types. *)

LEMMA ScenarioFacts ==
  ASSUME BoundsOK
  PROVE  /\ scenario.crew \subseteq Finalizers
         /\ \A i \in Intentions : /\ ActionsOf[i] \in Seq(Action)
                                  /\ Len(ActionsOf[i]) \in Nat /\ 1 \in 1 .. Len(ActionsOf[i])
         /\ scenario.deaths \in Nat /\ scenario.closes \in Nat
         /\ scenario.start \subseteq {"project", "service", "server"}
<1>1. scenario \in Scenario /\ \A i \in Intentions : scenario.actions[i] # <<>>
  BY ScenariosAreScenarios DEF BoundsOK
<1>2. \A i \in Intentions : ActionsOf[i] \in Seq(Action) /\ ActionsOf[i] # <<>>
  BY <1>1 DEF Scenario, ActionsOf
<1>3. \A i \in Intentions : Len(ActionsOf[i]) \in Nat /\ 1 \in 1 .. Len(ActionsOf[i])
  BY <1>2
<1> QED
  BY <1>1, <1>2, <1>3 DEF Scenario

LEMMA StateFacts ==
  ASSUME NEW s \in FinalizerState
  PROVE  /\ s.pc \in Pc /\ s.of \in Intentions \cup {NoIntention} /\ s.k \in Nat
         /\ s.instance \in Nat \cup {NoInstance} /\ s.build \in Ref
         /\ s.read \in Build \cup {<<>>} /\ s.refs \in Seq(Ref) /\ s.dirty \in BOOLEAN
  BY DEF FinalizerState

LEMMA IdleFacts == Idle \in FinalizerState /\ Idle.pc = "idle"
<1>1. <<>> \in Seq(Ref)
  OBVIOUS
<1> QED
  BY <1>1 DEF Idle, FinalizerState, Pc, Ref

LEMMA BuildFields ==
  ASSUME NEW d \in Build
  PROVE  /\ d.intention \in Intentions /\ d.action \in Nat /\ d.replaced \in BOOLEAN
         /\ d.installed \in Seq(Intentions \X Nat) /\ d.approvals \in Nat
  BY DEF Build

LEMMA BuildFacts ==
  ASSUME BuildsOK
  PROVE  /\ Len(builds) \in Nat
         /\ \A b \in 1 .. Len(builds) :
               /\ builds[b] \in Build
               /\ builds[b].intention \in Intentions /\ builds[b].action \in Nat
               /\ builds[b].replaced \in BOOLEAN /\ builds[b].approvals \in Nat
               /\ builds[b].installed \in Seq(Intentions \X Nat)
<1>1. \A b \in 1 .. Len(builds) : builds[b] \in Build
  BY DEF BuildsOK
<1>2. Len(builds) \in Nat
  BY DEF BuildsOK
<1> QED
  BY <1>1, <1>2, BuildFields

LEMMA RefsAreSeq ==
  ASSUME BuildsOK, NEW i \in Intentions, Len(ActionsOf[i]) \in Nat, NEW r \in RefsOf(i)
  PROVE  r \in Seq(Ref)
<1>1. r \in [1 .. Len(ActionsOf[i]) -> Ref]
  BY BuildFacts DEF RefsOf, Ref
<1> QED
  BY <1>1

(* After the last action comes the close, after another one the next. *)
LEMMA AfterActionFacts ==
  ASSUME BoundsOK, NEW s \in FinalizerState, s.of \in Intentions,
         s.k \in 1 .. Len(ActionsOf[s.of]), NEW t, t = AfterAction(s)
  PROVE  /\ t \in FinalizerState
         /\ t.pc \in {"service", "close"} /\ t.of = s.of /\ t.refs = s.refs
         /\ t.dirty = s.dirty /\ t.k \in 1 .. Len(ActionsOf[s.of])
         /\ t.pc = "service" => t.k = s.k + 1
         /\ t.pc = "close" => t.k = s.k /\ s.k = Len(ActionsOf[s.of])
<1>1. Len(ActionsOf[s.of]) \in Nat
  BY ScenarioFacts
<1>2. CASE s.k < Len(ActionsOf[s.of])
  <2>1. t = [s EXCEPT !.k = @ + 1, !.pc = "service", !.instance = NoInstance, !.build = NoBuild]
    BY <1>2 DEF AfterAction
  <2>2. /\ t.pc = "service" /\ t.of = s.of /\ t.refs = s.refs /\ t.dirty = s.dirty
        /\ t.k = s.k + 1
    BY <2>1 DEF FinalizerState
  <2>3. s.k + 1 \in 1 .. Len(ActionsOf[s.of])
    BY <1>1, <1>2
  <2>4. t \in FinalizerState
    <3> PICK m \in Nat : m = s.k + 1
      BY <2>3
    <3>1. t = [s EXCEPT !.k = m, !.pc = "service", !.instance = NoInstance, !.build = NoBuild]
      BY <2>1
    <3> QED
      BY <3>1 DEF FinalizerState, Pc, Ref
  <2> QED
    BY <2>2, <2>3, <2>4
<1>3. CASE ~(s.k < Len(ActionsOf[s.of]))
  <2>1. t = [s EXCEPT !.pc = "close", !.instance = NoInstance, !.build = NoBuild]
    BY <1>3 DEF AfterAction
  <2>2. /\ t.pc = "close" /\ t.of = s.of /\ t.refs = s.refs /\ t.dirty = s.dirty
        /\ t.k = s.k
    BY <2>1 DEF FinalizerState
  <2>3. s.k = Len(ActionsOf[s.of])
    BY <1>1, <1>3
  <2>4. t \in FinalizerState
    BY <2>1 DEF FinalizerState, Pc, Ref
  <2> QED
    BY <2>2, <2>3, <2>4
<1> QED
  BY <1>2, <1>3

(* One finalizer goes on, and nothing its copies refer to goes away. *)
LEMMA OneMoves ==
  ASSUME TypeInv, NEW f \in Finalizers, NEW t \in FinalizerState,
         finalizer' = [finalizer EXCEPT ![f] = t], scenario' = scenario,
         Len(builds') \in Nat, Len(builds) <= Len(builds'),
         instances' \in Nat, instances <= instances', StateOK(t)'
  PROVE  FinalizersOK'
<1>1. finalizer' \in [Finalizers -> FinalizerState]
  BY DEF TypeInv, FinalizersOK
<1>2. Len(builds) \in Nat /\ instances \in Nat
  BY BuildFacts DEF TypeInv, GraphOK
<1>3. 1 .. Len(builds) \subseteq 1 .. Len(builds') /\ 1 .. instances \subseteq 1 .. instances'
  BY <1>2
<1>4. ASSUME NEW g \in Finalizers PROVE StateOK(finalizer[g])'
  <2>1. CASE g = f
    <3>1. finalizer'[g] = t
      BY <2>1 DEF TypeInv, FinalizersOK
    <3> QED
      BY <3>1 DEF StateOK
  <2>2. CASE g # f
    <3>1. finalizer'[g] = finalizer[g]
      BY <2>2 DEF TypeInv, FinalizersOK
    <3>2. StateOK(finalizer[g])
      BY DEF TypeInv, FinalizersOK
    <3>3. \A i \in Intentions : RefsOf(i) \subseteq RefsOf(i)'
      BY <1>3 DEF RefsOf, ActionsOf
    <3> QED
      BY <1>3, <3>1, <3>2, <3>3 DEF StateOK, ActionsOf
  <2> QED
    BY <2>1, <2>2
<1> QED
  BY <1>1, <1>4 DEF FinalizersOK

(* The flush of a finalizer writes references to builds there are. *)
LEMMA Flushed ==
  ASSUME TypeInv, NEW f \in Finalizers, finalizer[f].pc # "idle", scenario' = scenario,
         Len(builds') \in Nat, Len(builds) <= Len(builds'), stored' = FlushStored(f)
  PROVE  /\ StoredOK'
         /\ \A i \in Intentions : stored'[i].closed = stored[i].closed
         /\ \A i \in Intentions : stored'[i].refs =
               IF finalizer[f].dirty /\ i = finalizer[f].of THEN finalizer[f].refs
                                                              ELSE stored[i].refs
<1> PICK s : s = finalizer[f]
  OBVIOUS
<1>1. s \in FinalizerState /\ StateOK(s) /\ s.of \in Intentions /\ s.refs \in RefsOf(s.of)
  BY DEF TypeInv, FinalizersOK, StateOK
<1>2. stored \in [Intentions -> [closed : BOOLEAN, refs : Seq(Ref)]]
  BY DEF TypeInv, StoredOK
<1>3. /\ \A i \in Intentions : stored'[i].closed = stored[i].closed
      /\ \A i \in Intentions : stored'[i].refs =
            IF s.dirty /\ i = s.of THEN s.refs ELSE stored[i].refs
      /\ stored' \in [Intentions -> [closed : BOOLEAN, refs : Seq(Ref)]]
  <2>1. CASE s.dirty
    <3>1. stored' = [stored EXCEPT ![s.of].refs = s.refs]
      BY <2>1 DEF FlushStored
    <3> QED
      BY <1>1, <1>2, <2>1, <3>1, StateFacts
  <2>2. CASE ~s.dirty
    BY <1>2, <2>2 DEF FlushStored
  <2> QED
    BY <2>1, <2>2
<1>4. Len(builds) \in Nat
  BY BuildFacts DEF TypeInv
<1>5. \A i \in Intentions : RefsOf(i) \subseteq RefsOf(i)'
  BY <1>4 DEF RefsOf, ActionsOf
<1>6. \A i \in Intentions : stored'[i].refs \in RefsOf(i)'
  BY <1>1, <1>3, <1>5 DEF TypeInv, StoredOK
<1> QED
  BY <1>3, <1>6 DEF StoredOK

LEMMA BoundsKept ==
  ASSUME BoundsOK, scenario' = scenario, deaths' = deaths, closes' = closes
  PROVE  BoundsOK'
  BY DEF BoundsOK

LEMMA BuildsKept == ASSUME BuildsOK, builds' = builds PROVE BuildsOK'
  BY DEF BuildsOK

LEMMA StoredKept ==
  ASSUME BuildsOK, StoredOK, scenario' = scenario, stored' = stored,
         Len(builds') \in Nat, Len(builds) <= Len(builds')
  PROVE  StoredOK'
<1>1. \A i \in Intentions : RefsOf(i) \subseteq RefsOf(i)'
  BY BuildFacts DEF RefsOf, ActionsOf
<1> QED
  BY <1>1 DEF StoredOK

LEMMA GraphKept ==
  ASSUME GraphOK, vertices' = vertices, instances' = instances, links' = links,
         floating' = floating
  PROVE  GraphOK'
  BY DEF GraphOK

(* A step of f that touches neither builds nor documents nor the graph. *)
LEMMA OnlyMoves ==
  ASSUME TypeInv, NEW f \in Finalizers, NEW t \in FinalizerState,
         finalizer' = [finalizer EXCEPT ![f] = t], scenario' = scenario, builds' = builds,
         instances' = instances, StateOK(t)
  PROVE  FinalizersOK'
<1>1. Len(builds) \in Nat /\ instances \in Nat
  BY BuildFacts DEF TypeInv, GraphOK
<1>2. StateOK(t)'
  BY DEF StateOK, RefsOf, ActionsOf
<1>3. /\ Len(builds') \in Nat /\ Len(builds) <= Len(builds')
      /\ instances' \in Nat /\ instances <= instances'
  BY <1>1
<1> QED
  BY <1>2, <1>3, OneMoves

(* Calls not waited for. *)
LEMMA Floated ==
  ASSUME GraphOK, NEW f \in Finalizers, NEW new, Float(f, new),
         \A e \in new : e[1] \in NotWaitedFor, instances' = instances,
         vertices' \subseteq {"project", "service", "server"},
         \A e \in links' : e[1] \in NotWaitedFor \cup {"instance"}
  PROVE  GraphOK'
<1>1. \A t \in floating' : t.by \in Finalizers /\ t.edge[1] \in NotWaitedFor
  BY DEF GraphOK, Float
<1> QED
  BY <1>1 DEF GraphOK

LEMMA TypeBeginClose ==
  ASSUME TypeInv, NEW f \in Finalizers, NEW i \in Intentions, BeginClose(f, i)
  PROVE  TypeInv'
<1> PICK t : t = [Idle EXCEPT !.pc = "service", !.of = i, !.refs = stored[i].refs]
  OBVIOUS
<1>1. finalizer' = [finalizer EXCEPT ![f] = t]
  BY DEF BeginClose
<1>2. stored[i].refs \in RefsOf(i) /\ stored[i].refs \in Seq(Ref)
  BY DEF TypeInv, StoredOK
<1>3. t \in FinalizerState
  BY <1>2, IdleFacts DEF FinalizerState, Pc
<1>4. t.pc = "service" /\ t.of = i /\ t.k = 1 /\ t.refs = stored[i].refs
  BY DEF Idle
<1>5. StateOK(t)
  BY <1>2, <1>4, ScenarioFacts DEF StateOK, TypeInv
<1>6. FinalizersOK'
  BY <1>1, <1>3, <1>5, OnlyMoves DEF BeginClose
<1>7. BoundsOK'
  BY ScenarioFacts DEF TypeInv, BoundsOK, BeginClose
<1>8. BuildsOK' /\ StoredOK' /\ GraphOK'
  BY BuildFacts, BuildsKept, StoredKept, GraphKept DEF TypeInv, BeginClose
<1> QED
  BY <1>6, <1>7, <1>8 DEF TypeInv

LEMMA TypeSyncAction ==
  ASSUME TypeInv, NEW f \in Finalizers, SyncAction(f)
  PROVE  TypeInv'
<1> PICK s : s = finalizer[f]
  OBVIOUS
<1> PICK does : does = CurrentAction(f).does
  OBVIOUS
<1> PICK t : t = CASE does = "package-installation" -> [s EXCEPT !.pc = "findInstance"]
                   [] does = "package-build" -> [s EXCEPT !.pc = "findBuild"]
                   [] OTHER -> AfterAction(s)
  OBVIOUS
<1>1. s.pc = "service" /\ does = ActionsOf[s.of][s.k].does
  BY DEF SyncAction, At, CurrentAction
<1>2. s \in FinalizerState /\ StateOK(s)
  BY DEF TypeInv, FinalizersOK
<1>3. s.of \in Intentions /\ s.k \in 1 .. Len(ActionsOf[s.of]) /\ s.refs \in RefsOf(s.of)
  BY <1>1, <1>2 DEF StateOK
<1>4. finalizer' = [finalizer EXCEPT ![f] = t]
  BY DEF SyncAction
<1>5. t \in FinalizerState /\ StateOK(t)
  <2>1. CASE does = "package-installation"
    <3>1. t = [s EXCEPT !.pc = "findInstance"]
      BY <2>1
    <3>2. t \in FinalizerState /\ t.pc = "findInstance" /\ t.of = s.of /\ t.k = s.k /\ t.refs = s.refs
      BY <1>2, <3>1 DEF FinalizerState, Pc
    <3> QED
      BY <1>1, <1>3, <2>1, <3>2 DEF StateOK
  <2>2. CASE does = "package-build"
    <3>1. t = [s EXCEPT !.pc = "findBuild"]
      BY <2>2
    <3>2. t \in FinalizerState /\ t.pc = "findBuild" /\ t.of = s.of /\ t.k = s.k /\ t.refs = s.refs
      BY <1>2, <3>1 DEF FinalizerState, Pc
    <3> QED
      BY <1>1, <1>3, <2>2, <3>2 DEF StateOK
  <2>3. CASE does # "package-installation" /\ does # "package-build"
    <3>1. t = AfterAction(s)
      BY <2>3
    <3> QED
      BY <1>2, <1>3, <3>1, AfterActionFacts DEF StateOK, TypeInv
  <2> QED
    BY <2>1, <2>2, <2>3
<1>6. FinalizersOK'
  BY <1>4, <1>5, OnlyMoves DEF SyncAction
<1>7. GraphOK'
  <2>1. \A e \in {Component} \cup AccountEdges : e[1] \in NotWaitedFor
    BY DEF Component, AccountEdges, NotWaitedFor
  <2>2. vertices' \subseteq {"project", "service", "server"} /\ links' = links /\ instances' = instances
    BY DEF SyncAction, TypeInv, GraphOK
  <2> QED
    BY <2>1, <2>2, Floated DEF SyncAction, TypeInv, GraphOK
<1>8. BoundsOK' /\ BuildsOK' /\ StoredOK'
  BY BuildFacts, BoundsKept, BuildsKept, StoredKept DEF TypeInv, SyncAction
<1> QED
  BY <1>6, <1>7, <1>8 DEF TypeInv

(* What a finalizer that is under way has. *)
LEMMA UnderWay ==
  ASSUME TypeInv, NEW f \in Finalizers, finalizer[f].pc # "idle"
  PROVE  /\ finalizer[f] \in FinalizerState /\ StateOK(finalizer[f])
         /\ finalizer[f].of \in Intentions
         /\ finalizer[f].k \in 1 .. Len(ActionsOf[finalizer[f].of])
         /\ finalizer[f].refs \in RefsOf(finalizer[f].of)
         /\ Len(builds) \in Nat /\ instances \in Nat /\ BoundsOK
  BY BuildFacts DEF TypeInv, FinalizersOK, StateOK, GraphOK

(* Steps that keep their place in the loop. *)
LEMMA SamePlace ==
  ASSUME NEW s \in FinalizerState, StateOK(s), s.pc # "idle",
         NEW pc \in Pc, NEW t, t = [s EXCEPT !.pc = pc]
  PROVE  /\ t \in FinalizerState /\ t.pc = pc /\ t.of = s.of /\ t.k = s.k /\ t.refs = s.refs
         /\ t.build = s.build /\ t.instance = s.instance /\ t.dirty = s.dirty
  BY DEF FinalizerState

LEMMA FoundInstanceFacts ==
  ASSUME instances \in Nat
  PROVE  /\ FoundInstance # NoInstance =>
               FoundInstance \in 1 .. instances /\ Linked(FoundInstance) \in links
         /\ \A n \in 1 .. instances :
               (\A m \in 1 .. instances : Linked(m) \in links <=> m = n) => FoundInstance = n
         /\ (\A m, n \in 1 .. instances : Linked(m) \in links /\ Linked(n) \in links => m = n)
               => (FoundInstance = NoInstance => \A n \in 1 .. instances : Linked(n) \notin links)
<1> DEFINE found == {n \in 1 .. instances : Linked(n) \in links}
<1>1. FoundInstance = IF Cardinality(found) = 1 THEN CHOOSE n \in found : TRUE ELSE NoInstance
  BY DEF FoundInstance
<1>2. IsFiniteSet(found)
  <2>1. IsFiniteSet(1 .. instances)
    BY FS_Interval
  <2>2. found \in SUBSET (1 .. instances)
    OBVIOUS
  <2> QED
    BY <2>1, <2>2, FS_Subset
<1>3. Cardinality(found) = 1 <=> \E n : found = {n}
  BY <1>2, FS_Singleton
<1>4. NoInstance \notin Nat
  BY AbsentIsNoId
<1>5. ASSUME NEW n \in 1 .. instances, found = {n} PROVE FoundInstance = n
  BY <1>1, <1>3, <1>5
<1>6. FoundInstance # NoInstance =>
         FoundInstance \in 1 .. instances /\ Linked(FoundInstance) \in links
  <2>1. SUFFICES ASSUME FoundInstance # NoInstance
                 PROVE FoundInstance \in found
    OBVIOUS
  <2>2. PICK n : found = {n}
    BY <1>1, <1>3, <2>1
  <2> QED
    BY <1>5, <2>2
<1>7. ASSUME NEW n \in 1 .. instances, \A m \in 1 .. instances : Linked(m) \in links <=> m = n
      PROVE  FoundInstance = n
  <2>1. found = {n}
    BY <1>7
  <2> QED
    BY <1>5, <2>1
<1>8. ASSUME \A m, n \in 1 .. instances : Linked(m) \in links /\ Linked(n) \in links => m = n,
             FoundInstance = NoInstance, NEW n \in 1 .. instances, Linked(n) \in links
      PROVE  FALSE
  <2>1. found = {n}
    BY <1>8
  <2> QED
    BY <1>4, <1>5, <1>8, <2>1
<1> QED
  BY <1>6, <1>7, <1>8

LEMMA FoundBuildFacts ==
  ASSUME Len(builds) \in Nat
  PROVE  /\ FoundBuild # NoBuild => FoundBuild \in Current
         /\ (\A b, c \in Current : b = c) => (FoundBuild = NoBuild => Current = {})
         /\ FoundBuild \in (1 .. Len(builds)) \cup {NoBuild}
<1>1. IsFiniteSet(Current)
  <2>1. IsFiniteSet(1 .. Len(builds))
    BY FS_Interval
  <2>2. Current \in SUBSET (1 .. Len(builds))
    BY DEF Current
  <2> QED
    BY <2>1, <2>2, FS_Subset
<1>2. Cardinality(Current) = 1 <=> \E b : Current = {b}
  BY <1>1, FS_Singleton
<1>3. NoBuild \notin Nat
  BY AbsentIsNoId
<1>4. ASSUME NEW b, Current = {b} PROVE FoundBuild = b
  BY <1>2, <1>4 DEF FoundBuild
<1>5. ASSUME ~(\E b : Current = {b}) PROVE FoundBuild = NoBuild
  BY <1>2, <1>5 DEF FoundBuild
<1>6. Current \subseteq Nat
  BY DEF Current
<1>7. FoundBuild # NoBuild => FoundBuild \in Current
  BY <1>4, <1>5
<1>8. ASSUME \A b, c \in Current : b = c, FoundBuild = NoBuild PROVE Current = {}
  <2>1. ASSUME NEW b \in Current PROVE FALSE
    <3>1. Current = {b}
      BY <1>8
    <3> QED
      BY <1>3, <1>4, <1>6, <1>8, <3>1
  <2> QED
    BY <2>1
<1>9. Current \subseteq 1 .. Len(builds)
  BY DEF Current
<1> QED
  BY <1>7, <1>8, <1>9

LEMMA TypeFindInstance ==
  ASSUME TypeInv, NEW f \in Finalizers, FindInstance(f)
  PROVE  TypeInv'
<1> PICK s : s = finalizer[f]
  OBVIOUS
<1> PICK n : n = FoundInstance
  OBVIOUS
<1> PICK pc : pc = IF n = NoInstance THEN "addInstance" ELSE "linkInstance"
  OBVIOUS
<1> PICK t : t = [s EXCEPT !.instance = n, !.pc = pc]
  OBVIOUS
<1>1. s.pc = "findInstance"
  BY DEF FindInstance, At
<1>2. s \in FinalizerState /\ StateOK(s) /\ instances \in Nat
  BY <1>1, UnderWay
<1>3. finalizer' = [finalizer EXCEPT ![f] = t]
  BY DEF FindInstance
<1>4. n # NoInstance => n \in 1 .. instances
  BY <1>2, FoundInstanceFacts
<1>5. n \in Nat \cup {NoInstance} /\ pc \in Pc
  BY <1>2, <1>4 DEF Pc
<1>6. /\ t \in FinalizerState /\ t.pc = pc /\ t.instance = n
      /\ t.of = s.of /\ t.k = s.k /\ t.refs = s.refs
  BY <1>2, <1>5 DEF FinalizerState
<1>7. StateOK(t)
  BY <1>1, <1>2, <1>4, <1>6 DEF StateOK
<1>8. FinalizersOK'
  BY <1>3, <1>6, <1>7, OnlyMoves DEF FindInstance
<1>9. BoundsOK' /\ BuildsOK' /\ StoredOK' /\ GraphOK'
  BY BuildFacts, BoundsKept, BuildsKept, StoredKept, GraphKept DEF TypeInv, FindInstance
<1> QED
  BY <1>8, <1>9 DEF TypeInv

LEMMA TypeAddInstance ==
  ASSUME TypeInv, NEW f \in Finalizers, AddInstance(f)
  PROVE  TypeInv'
<1> PICK s : s = finalizer[f]
  OBVIOUS
<1> PICK n : n = instances + 1
  OBVIOUS
<1> PICK t : t = [s EXCEPT !.instance = n, !.pc = "linkInstance"]
  OBVIOUS
<1>1. s.pc = "addInstance"
  BY DEF AddInstance, At
<1>2. s \in FinalizerState /\ StateOK(s) /\ instances \in Nat /\ n \in Nat /\ Len(builds) \in Nat
  BY <1>1, UnderWay
<1>3. finalizer' = [finalizer EXCEPT ![f] = t] /\ instances' = n
  BY DEF AddInstance
<1>4. /\ t \in FinalizerState /\ t.pc = "linkInstance" /\ t.instance = n
      /\ t.of = s.of /\ t.k = s.k /\ t.refs = s.refs
  BY <1>2 DEF FinalizerState, Pc
<1>5. n \in 1 .. instances' /\ builds' = builds /\ scenario' = scenario
  BY <1>2, <1>3 DEF AddInstance
<1>6. StateOK(t)'
  BY <1>1, <1>2, <1>4, <1>5 DEF StateOK, RefsOf, ActionsOf
<1>7. FinalizersOK'
  <2>1. /\ instances' \in Nat /\ instances <= instances'
        /\ Len(builds') \in Nat /\ Len(builds) <= Len(builds')
    BY <1>2, <1>3, <1>5
  <2> QED
    BY <1>3, <1>4, <1>5, <1>6, <2>1, OneMoves
<1>8. StoredOK'
  BY <1>1, <1>2, <1>5, Flushed DEF AddInstance
<1>9. GraphOK'
  BY <1>2, <1>3 DEF AddInstance, TypeInv, GraphOK
<1>10. BoundsOK' /\ BuildsOK'
  BY BoundsKept, BuildsKept DEF TypeInv, AddInstance
<1> QED
  BY <1>7, <1>8, <1>9, <1>10 DEF TypeInv

LEMMA TypeLinkInstance ==
  ASSUME TypeInv, NEW f \in Finalizers, LinkInstance(f)
  PROVE  TypeInv'
<1> PICK s : s = finalizer[f]
  OBVIOUS
<1> PICK t : t = [s EXCEPT !.pc = "findServer"]
  OBVIOUS
<1>1. s.pc = "linkInstance"
  BY DEF LinkInstance, At
<1>2. s \in FinalizerState /\ StateOK(s)
  BY <1>1, UnderWay
<1>3. finalizer' = [finalizer EXCEPT ![f] = t]
  BY DEF LinkInstance, Goto
<1>4. "findServer" \in Pc
  BY DEF Pc
<1>5. t \in FinalizerState /\ t.pc = "findServer" /\ t.of = s.of /\ t.k = s.k /\ t.refs = s.refs
  BY <1>1, <1>2, <1>4, SamePlace
<1>6. StateOK(t)
  BY <1>1, <1>2, <1>5 DEF StateOK
<1>7. FinalizersOK'
  BY <1>3, <1>5, <1>6, OnlyMoves DEF LinkInstance
<1>8. GraphOK'
  <2> PICK e : e = Linked(s.instance)
    OBVIOUS
  <2>1. links' = links \cup {e} /\ Float(f, {<<"deploy-type", e[3], "environment">>})
    BY DEF LinkInstance, Link
  <2>2. e[1] = "instance"
    BY DEF Linked
  <2>3. \A d \in links' : d[1] \in NotWaitedFor \cup {"instance"}
    BY <2>1, <2>2 DEF TypeInv, GraphOK
  <2>4. \A d \in {<<"deploy-type", e[3], "environment">>} : d[1] \in NotWaitedFor
    BY DEF NotWaitedFor
  <2>5. vertices' \subseteq {"project", "service", "server"} /\ instances' = instances
    BY DEF LinkInstance, TypeInv, GraphOK
  <2> QED
    BY <2>1, <2>3, <2>4, <2>5, Floated DEF TypeInv
<1>9. BoundsOK' /\ BuildsOK' /\ StoredOK'
  BY BuildFacts, BoundsKept, BuildsKept, StoredKept DEF TypeInv, LinkInstance
<1> QED
  BY <1>7, <1>8, <1>9 DEF TypeInv

LEMMA TypeFindServer ==
  ASSUME TypeInv, NEW f \in Finalizers, FindServer(f)
  PROVE  TypeInv'
<1> PICK s : s = finalizer[f]
  OBVIOUS
<1> PICK t : t = [s EXCEPT !.pc = "findBuild"]
  OBVIOUS
<1>1. s.pc = "findServer"
  BY DEF FindServer, At
<1>2. s \in FinalizerState /\ StateOK(s)
  BY <1>1, UnderWay
<1>3. finalizer' = [finalizer EXCEPT ![f] = t]
  BY DEF FindServer, Goto
<1>4. "findBuild" \in Pc
  BY DEF Pc
<1>5. t \in FinalizerState /\ t.pc = "findBuild" /\ t.of = s.of /\ t.k = s.k /\ t.refs = s.refs
  BY <1>1, <1>2, <1>4, SamePlace
<1>6. StateOK(t)
  BY <1>1, <1>2, <1>5 DEF StateOK
<1>7. FinalizersOK'
  BY <1>3, <1>5, <1>6, OnlyMoves DEF FindServer
<1>8. GraphOK'
  <2> PICK new : new = IF "server" \in vertices THEN {<<"installation", ByName, "server">>} ELSE {}
    OBVIOUS
  <2>1. Float(f, new) /\ links' = links /\ vertices' = vertices /\ instances' = instances
    BY DEF FindServer
  <2>2. \A e \in new : e[1] \in NotWaitedFor
    BY DEF NotWaitedFor
  <2> QED
    BY <2>1, <2>2, Floated DEF TypeInv, GraphOK
<1>9. BoundsOK' /\ BuildsOK' /\ StoredOK'
  BY BuildFacts, BoundsKept, BuildsKept, StoredKept DEF TypeInv, FindServer
<1> QED
  BY <1>7, <1>8, <1>9 DEF TypeInv

LEMMA TypeFindBuild ==
  ASSUME TypeInv, NEW f \in Finalizers, FindBuild(f)
  PROVE  TypeInv'
<1> PICK s : s = finalizer[f]
  OBVIOUS
<1> PICK b : b = FoundBuild
  OBVIOUS
<1> PICK does : does = CurrentAction(f).does
  OBVIOUS
<1> PICK pc : pc = AfterFind(f)
  OBVIOUS
<1> PICK read : read = IF b = NoBuild THEN <<>> ELSE builds[b]
  OBVIOUS
<1>1. s.pc = "findBuild" /\ does = ActionsOf[s.of][s.k].does
  BY DEF FindBuild, At, CurrentAction
<1>2. /\ s \in FinalizerState /\ StateOK(s) /\ s.of \in Intentions
      /\ s.k \in 1 .. Len(ActionsOf[s.of]) /\ s.refs \in RefsOf(s.of)
      /\ Len(builds) \in Nat /\ BoundsOK
  BY <1>1, UnderWay
<1>3. does # "other"
  BY <1>1, <1>2 DEF StateOK
<1>4. b \in (1 .. Len(builds)) \cup {NoBuild}
  BY <1>2, FoundBuildFacts
<1>5. read \in Build \cup {<<>>}
  BY <1>4, BuildFacts DEF TypeInv
<1>6. PICK t : /\ finalizer' = [finalizer EXCEPT ![f] = t]
               /\ \/ /\ t = [s EXCEPT !.pc = pc, !.build = b, !.read = read]
                     /\ does = "package-build" \/ b # NoBuild
                  \/ t = AfterAction(s)
  BY DEF FindBuild
<1>7. t \in FinalizerState /\ StateOK(t)
  <2>1. CASE /\ t = [s EXCEPT !.pc = pc, !.build = b, !.read = read]
             /\ does = "package-build" \/ b # NoBuild
    <3>1. /\ pc \in {"replaceBuild", "addBuild", "setRef"}
          /\ pc = "addBuild" => does = "package-build" /\ b = NoBuild
          /\ pc = "replaceBuild" => does = "package-build" /\ b # NoBuild
          /\ pc = "setRef" => does # "package-build"
      BY DEF AfterFind
    <3>2. /\ t \in FinalizerState /\ t.pc = pc /\ t.of = s.of /\ t.k = s.k /\ t.refs = s.refs
          /\ t.build = b
      <4>1. pc \in Pc /\ b \in Ref
        BY <1>2, <1>4, <3>1 DEF Pc, Ref
      <4>2. t = [s EXCEPT !.pc = pc, !.build = b, !.read = read]
        BY <2>1
      <4> QED
        BY <1>2, <1>5, <4>1, <4>2 DEF FinalizerState
    <3> QED
      BY <1>1, <1>2, <1>3, <1>4, <2>1, <3>1, <3>2 DEF StateOK
  <2>2. CASE t = AfterAction(s)
    BY <1>2, <2>2, AfterActionFacts DEF StateOK
  <2> QED
    BY <1>6, <2>1, <2>2
<1>8. FinalizersOK'
  BY <1>6, <1>7, OnlyMoves DEF FindBuild
<1>9. BoundsOK' /\ BuildsOK' /\ StoredOK' /\ GraphOK'
  BY BuildFacts, BoundsKept, BuildsKept, StoredKept, GraphKept DEF TypeInv, FindBuild
<1> QED
  BY <1>8, <1>9 DEF TypeInv

(* One build is changed and keeps its identity and its type. *)
LEMMA OneBuildChanged ==
  ASSUME BuildsOK, NEW b \in 1 .. Len(builds), NEW d \in Build,
         builds' = [builds EXCEPT ![b] = d],
         Len(d.installed) <= MaxEmbedded, d.approvals <= MaxApprovals
  PROVE  /\ BuildsOK' /\ Len(builds') = Len(builds)
         /\ \A c \in 1 .. Len(builds) : builds'[c] = IF c = b THEN d ELSE builds[c]
<1>1. builds \in Seq(Build)
  BY DEF BuildsOK
<1>2. builds' \in Seq(Build) /\ Len(builds') = Len(builds)
  BY <1>1
<1>3. \A c \in 1 .. Len(builds) : builds'[c] = IF c = b THEN d ELSE builds[c]
  BY <1>1
<1> QED
  BY <1>2, <1>3 DEF BuildsOK

(* A build is marked as replaced, and nothing else of it changes. *)
LEMMA Marked ==
  ASSUME TypeInv, NEW f \in Finalizers, MarkBuildAsReplaced(f),
         NEW b, b = finalizer[f].build
  PROVE  /\ b \in 1 .. Len(builds) /\ BuildsOK' /\ Len(builds') = Len(builds)
         /\ \A c \in 1 .. Len(builds) :
               /\ builds'[c].replaced = (IF c = b THEN TRUE ELSE builds[c].replaced)
               /\ builds'[c].intention = builds[c].intention
               /\ builds'[c].action = builds[c].action
               /\ builds'[c].approvals = builds[c].approvals
               /\ builds'[c].installed = builds[c].installed
<1>1. finalizer[f].pc = "replaceBuild"
  BY DEF MarkBuildAsReplaced, At
<1>2. b \in 1 .. Len(builds)
  BY <1>1, UnderWay DEF StateOK
<1> PICK d : d = [builds[b] EXCEPT !.replaced = TRUE]
  OBVIOUS
<1>3. builds' = [builds EXCEPT ![b] = d]
  BY DEF MarkBuildAsReplaced, Replaced
<1>4. builds[b] \in Build
  BY <1>2, BuildFacts DEF TypeInv
<1>5. /\ d \in Build /\ d.replaced = TRUE /\ d.intention = builds[b].intention
      /\ d.action = builds[b].action /\ d.approvals = builds[b].approvals
      /\ d.installed = builds[b].installed
  BY <1>4 DEF Build
<1>6. /\ BuildsOK' /\ Len(builds') = Len(builds)
      /\ \A c \in 1 .. Len(builds) : builds'[c] = IF c = b THEN d ELSE builds[c]
  <2>1. Len(d.installed) <= MaxEmbedded /\ d.approvals <= MaxApprovals
    BY <1>2, <1>5 DEF TypeInv, BuildsOK
  <2> QED
    BY <1>2, <1>3, <1>5, <2>1, OneBuildChanged DEF TypeInv
<1> QED
  BY <1>2, <1>5, <1>6

LEMMA TypeMark ==
  ASSUME TypeInv, NEW f \in Finalizers, MarkBuildAsReplaced(f)
  PROVE  TypeInv'
<1> PICK s : s = finalizer[f]
  OBVIOUS
<1> PICK t : t = [s EXCEPT !.pc = "addBuild", !.read = <<>>]
  OBVIOUS
<1>1. s.pc = "replaceBuild"
  BY DEF MarkBuildAsReplaced, At
<1>2. s \in FinalizerState /\ StateOK(s) /\ Len(builds) \in Nat /\ instances \in Nat
  BY <1>1, UnderWay
<1>3. finalizer' = [finalizer EXCEPT ![f] = t]
  BY DEF MarkBuildAsReplaced
<1>4. t \in FinalizerState /\ t.pc = "addBuild" /\ t.of = s.of /\ t.k = s.k /\ t.refs = s.refs
  BY <1>2 DEF FinalizerState, Pc
<1>5. BuildsOK' /\ Len(builds') = Len(builds)
  BY Marked
<1>6. StateOK(t)'
  BY <1>1, <1>2, <1>4, <1>5 DEF StateOK, RefsOf, ActionsOf, MarkBuildAsReplaced
<1>7. FinalizersOK'
  <2>1. /\ instances' \in Nat /\ instances <= instances' /\ scenario' = scenario
        /\ Len(builds') \in Nat /\ Len(builds) <= Len(builds')
    BY <1>2, <1>5 DEF MarkBuildAsReplaced
  <2> QED
    BY <1>3, <1>4, <1>6, <2>1, OneMoves
<1>8. StoredOK'
  BY <1>1, <1>2, <1>5, Flushed DEF MarkBuildAsReplaced
<1>9. GraphOK' /\ BoundsOK'
  BY BoundsKept, GraphKept DEF MarkBuildAsReplaced, TypeInv
<1> QED
  BY <1>5, <1>7, <1>8, <1>9 DEF TypeInv

LEMMA Added ==
  ASSUME TypeInv, NEW f \in Finalizers, AddBuild(f)
  PROVE  /\ BuildsOK' /\ Len(builds') = Len(builds) + 1
         /\ \A c \in 1 .. Len(builds) : builds'[c] = builds[c]
         /\ builds'[Len(builds')].intention = finalizer[f].of
         /\ builds'[Len(builds')].action = finalizer[f].k
         /\ builds'[Len(builds')].replaced = FALSE
<1> PICK s : s = finalizer[f]
  OBVIOUS
<1> PICK d : d = [intention |-> s.of, action |-> s.k, replaced |-> FALSE,
                  installed |-> <<>>, approvals |-> 0]
  OBVIOUS
<1>1. s.pc = "addBuild"
  BY DEF AddBuild, At
<1>2. s.of \in Intentions /\ s.k \in Nat
  BY <1>1, UnderWay, StateFacts
<1>3. <<>> \in Seq(Intentions \X Nat) /\ Len(<<>>) = 0
  OBVIOUS
<1>4. d \in Build /\ Len(d.installed) <= MaxEmbedded /\ d.approvals <= MaxApprovals
  BY <1>2, <1>3, SyncBounds DEF Build
<1>5. builds \in Seq(Build) /\ builds' = Append(builds, d)
  BY DEF AddBuild, TypeInv, BuildsOK
<1>6. /\ builds' \in Seq(Build) /\ Len(builds') = Len(builds) + 1
      /\ \A c \in 1 .. Len(builds) : builds'[c] = builds[c]
      /\ builds'[Len(builds) + 1] = d
  BY <1>4, <1>5
<1>7. BuildsOK'
  <2>1. ASSUME NEW c \in 1 .. Len(builds')
        PROVE  Len(builds'[c].installed) <= MaxEmbedded /\ builds'[c].approvals <= MaxApprovals
    <3>1. CASE c \in 1 .. Len(builds)
      BY <1>6, <3>1 DEF TypeInv, BuildsOK
    <3>2. CASE c = Len(builds) + 1
      BY <1>4, <1>6, <3>2
    <3> QED
      BY <1>6, <3>1, <3>2, BuildFacts DEF TypeInv
  <2> QED
    BY <1>6, <2>1 DEF BuildsOK
<1> QED
  BY <1>6, <1>7

LEMMA TypeAddBuild ==
  ASSUME TypeInv, NEW f \in Finalizers, AddBuild(f)
  PROVE  TypeInv'
<1> PICK s : s = finalizer[f]
  OBVIOUS
<1> PICK t : t = [s EXCEPT !.pc = "setRef", !.build = Len(builds')]
  OBVIOUS
<1>1. s.pc = "addBuild"
  BY DEF AddBuild, At
<1>2. s \in FinalizerState /\ StateOK(s) /\ Len(builds) \in Nat /\ instances \in Nat
  BY <1>1, UnderWay
<1>3. finalizer' = [finalizer EXCEPT ![f] = t]
  BY DEF AddBuild
<1>4. BuildsOK' /\ Len(builds') = Len(builds) + 1
  BY Added
<1>5. Len(builds') \in Nat /\ Len(builds') \in 1 .. Len(builds') /\ Len(builds) <= Len(builds')
  BY <1>2, <1>4
<1>6. /\ t \in FinalizerState /\ t.pc = "setRef" /\ t.of = s.of /\ t.k = s.k
      /\ t.refs = s.refs /\ t.build = Len(builds')
  <2> PICK m \in Nat : m = Len(builds')
    BY <1>5
  <2>1. t = [s EXCEPT !.pc = "setRef", !.build = m]
    OBVIOUS
  <2> QED
    BY <1>2, <2>1 DEF FinalizerState, Pc, Ref
<1>7. StateOK(t)'
  <2>1. /\ s.refs \in RefsOf(s.of) /\ s.of \in Intentions /\ s.k \in 1 .. Len(ActionsOf[s.of])
        /\ ActionsOf[s.of][s.k].does = "package-build"
    BY <1>1, <1>2 DEF StateOK
  <2>2. scenario' = scenario /\ RefsOf(s.of) \subseteq RefsOf(s.of)'
    BY <1>2, <1>5 DEF RefsOf, ActionsOf, AddBuild
  <2> QED
    BY <1>5, <1>6, <2>1, <2>2 DEF StateOK, ActionsOf
<1>8. FinalizersOK'
  <2>1. instances' \in Nat /\ instances <= instances' /\ scenario' = scenario
    BY <1>2 DEF AddBuild
  <2> QED
    BY <1>3, <1>5, <1>6, <1>7, <2>1, OneMoves
<1>9. StoredOK'
  BY <1>1, <1>5, Flushed DEF AddBuild
<1>10. GraphOK' /\ BoundsOK'
  BY BoundsKept, GraphKept DEF AddBuild, TypeInv
<1> QED
  BY <1>4, <1>8, <1>9, <1>10 DEF TypeInv

LEMMA CopiedRef ==
  ASSUME TypeInv, NEW f \in Finalizers, SetActionPackageBuildRef(f),
         NEW s, s = finalizer[f], NEW c, c = RefOnCopy(s)
  PROVE  /\ c \in FinalizerState /\ c.pc = s.pc /\ c.of = s.of /\ c.k = s.k /\ c.dirty
         /\ c.build = s.build /\ c.refs \in RefsOf(s.of)
         /\ c.refs[s.k] = s.build
         /\ \A j \in 1 .. Len(ActionsOf[s.of]) : j # s.k => c.refs[j] = s.refs[j]
<1> PICK refs : refs = [s.refs EXCEPT ![s.k] = s.build]
  OBVIOUS
<1>1. s.pc = "setRef"
  BY DEF SetActionPackageBuildRef, At
<1>2. /\ s \in FinalizerState /\ s.of \in Intentions /\ s.k \in 1 .. Len(ActionsOf[s.of])
      /\ s.refs \in RefsOf(s.of) /\ s.build \in 1 .. Len(builds) /\ BoundsOK
  BY <1>1, UnderWay DEF StateOK
<1>3. /\ refs \in RefsOf(s.of) /\ refs[s.k] = s.build
      /\ \A j \in 1 .. Len(ActionsOf[s.of]) : j # s.k => refs[j] = s.refs[j]
  BY <1>2 DEF RefsOf
<1>4. refs \in Seq(Ref)
  BY <1>2, <1>3, RefsAreSeq, ScenarioFacts DEF TypeInv
<1>5. c = [s EXCEPT !.refs = refs, !.dirty = TRUE]
  BY DEF RefOnCopy
<1>6. /\ c \in FinalizerState /\ c.pc = s.pc /\ c.of = s.of /\ c.k = s.k /\ c.dirty
      /\ c.build = s.build /\ c.refs = refs
  BY <1>2, <1>4, <1>5 DEF FinalizerState
<1> QED
  BY <1>3, <1>6

LEMMA AfterSetRef ==
  ASSUME TypeInv, NEW f \in Finalizers, SetActionPackageBuildRef(f),
         NEW s, s = finalizer[f], NEW c, c = RefOnCopy(s)
  PROVE  \E t \in FinalizerState :
            /\ finalizer' = [finalizer EXCEPT ![f] = t]
            /\ t.of = s.of /\ t.refs = c.refs /\ t.dirty
            /\ t.k \in 1 .. Len(ActionsOf[s.of])
            /\ \/ /\ t.pc = "pushInstall" /\ t.k = s.k /\ t.build = s.build
                  /\ ActionsOf[s.of][s.k].does = "package-installation"
               \/ t.pc = "service" /\ t.k = s.k + 1
               \/ t.pc = "close" /\ t.k = s.k /\ s.k = Len(ActionsOf[s.of])
<1>1. s.pc = "setRef" /\ CurrentAction(f).does = ActionsOf[s.of][s.k].does
  BY DEF SetActionPackageBuildRef, At, CurrentAction
<1>2. s.of \in Intentions /\ s.k \in 1 .. Len(ActionsOf[s.of]) /\ BoundsOK
  BY <1>1, UnderWay
<1>3. /\ c \in FinalizerState /\ c.of = s.of /\ c.k = s.k /\ c.dirty /\ c.build = s.build
  BY CopiedRef
<1>4. CASE ActionsOf[s.of][s.k].does = "package-installation"
  <2> PICK t : t = [c EXCEPT !.pc = "pushInstall"]
    OBVIOUS
  <2>1. finalizer' = [finalizer EXCEPT ![f] = t]
    BY <1>1, <1>4 DEF SetActionPackageBuildRef
  <2>2. /\ t \in FinalizerState /\ t.of = c.of /\ t.k = c.k /\ t.build = c.build
        /\ t.refs = c.refs /\ t.dirty = c.dirty /\ t.pc = "pushInstall"
    BY <1>3 DEF FinalizerState, Pc
  <2> QED
    BY <1>2, <1>3, <1>4, <2>1, <2>2
<1>5. CASE ActionsOf[s.of][s.k].does # "package-installation"
  <2> PICK t : t = AfterAction(c)
    OBVIOUS
  <2>1. finalizer' = [finalizer EXCEPT ![f] = t]
    BY <1>1, <1>5 DEF SetActionPackageBuildRef
  <2>2. /\ t \in FinalizerState
        /\ t.pc \in {"service", "close"} /\ t.of = c.of /\ t.refs = c.refs
        /\ t.dirty = c.dirty /\ t.k \in 1 .. Len(ActionsOf[c.of])
        /\ t.pc = "service" => t.k = c.k + 1
        /\ t.pc = "close" => t.k = c.k /\ c.k = Len(ActionsOf[c.of])
    BY <1>2, <1>3, AfterActionFacts
  <2> QED
    BY <1>3, <2>1, <2>2
<1> QED
  BY <1>4, <1>5

(* The one reference that is written. *)
LEMMA RefStored ==
  ASSUME TypeInv, NEW f \in Finalizers, SetActionPackageBuildRef(f),
         NEW s, s = finalizer[f]
  PROVE  /\ StoredOK'
         /\ \A i \in Intentions : /\ stored'[i].closed = stored[i].closed
                                  /\ i # s.of => stored'[i].refs = stored[i].refs
         /\ stored'[s.of].refs[s.k] = s.build
         /\ \A j \in 1 .. Len(ActionsOf[s.of]) :
               j # s.k => stored'[s.of].refs[j] = stored[s.of].refs[j]
<1> PICK refs : refs = [stored[s.of].refs EXCEPT ![s.k] = s.build]
  OBVIOUS
<1>1. s.pc = "setRef"
  BY DEF SetActionPackageBuildRef, At
<1>2. /\ s \in FinalizerState /\ s.of \in Intentions /\ s.k \in 1 .. Len(ActionsOf[s.of])
      /\ s.build \in 1 .. Len(builds) /\ BoundsOK
  BY <1>1, UnderWay DEF StateOK
<1>3. stored[s.of].refs \in RefsOf(s.of)
  BY <1>2 DEF TypeInv, StoredOK
<1>4. /\ refs \in RefsOf(s.of) /\ refs[s.k] = s.build
      /\ \A j \in 1 .. Len(ActionsOf[s.of]) : j # s.k => refs[j] = stored[s.of].refs[j]
  BY <1>2, <1>3 DEF RefsOf
<1>5. refs \in Seq(Ref)
  BY <1>2, <1>4, RefsAreSeq, ScenarioFacts DEF TypeInv
<1>6. stored' = [stored EXCEPT ![s.of].refs = refs]
  BY DEF SetActionPackageBuildRef
<1>7. stored \in [Intentions -> [closed : BOOLEAN, refs : Seq(Ref)]]
  BY DEF TypeInv, StoredOK
<1>8. /\ stored' \in [Intentions -> [closed : BOOLEAN, refs : Seq(Ref)]]
      /\ \A i \in Intentions : /\ stored'[i].closed = stored[i].closed
                               /\ i # s.of => stored'[i].refs = stored[i].refs
      /\ stored'[s.of].refs = refs
  BY <1>2, <1>5, <1>6, <1>7
<1>9. \A i \in Intentions : RefsOf(i)' = RefsOf(i)
  BY DEF RefsOf, ActionsOf, SetActionPackageBuildRef
<1>10. \A i \in Intentions : stored'[i].refs \in RefsOf(i)'
  BY <1>4, <1>8, <1>9 DEF TypeInv, StoredOK
<1> QED
  BY <1>4, <1>8, <1>10 DEF StoredOK

LEMMA TypeSetRef ==
  ASSUME TypeInv, NEW f \in Finalizers, SetActionPackageBuildRef(f)
  PROVE  TypeInv'
<1> PICK s : s = finalizer[f]
  OBVIOUS
<1> PICK c : c = RefOnCopy(s)
  OBVIOUS
<1>1. s.pc = "setRef"
  BY DEF SetActionPackageBuildRef, At
<1>2. s.of \in Intentions /\ s.build \in 1 .. Len(builds) /\ c.refs \in RefsOf(s.of)
  BY <1>1, UnderWay, CopiedRef DEF StateOK
<1>3. PICK t \in FinalizerState :
        /\ finalizer' = [finalizer EXCEPT ![f] = t]
        /\ t.of = s.of /\ t.refs = c.refs /\ t.k \in 1 .. Len(ActionsOf[s.of])
        /\ \/ /\ t.pc = "pushInstall" /\ t.k = s.k /\ t.build = s.build
              /\ ActionsOf[s.of][s.k].does = "package-installation"
           \/ t.pc = "service"
           \/ t.pc = "close"
  BY AfterSetRef
<1>4. StateOK(t)
  BY <1>2, <1>3 DEF StateOK
<1>5. FinalizersOK'
  BY <1>3, <1>4, OnlyMoves DEF SetActionPackageBuildRef
<1>6. StoredOK'
  BY RefStored
<1>7. GraphOK' /\ BoundsOK' /\ BuildsOK'
  BY BoundsKept, GraphKept, BuildsKept DEF SetActionPackageBuildRef, TypeInv
<1> QED
  BY <1>5, <1>6, <1>7 DEF TypeInv

LEMMA Slice ==
  ASSUME NEW S, NEW q, NEW m \in Int, NEW n \in Int, \A i \in m .. n : q[i] \in S
  PROVE  /\ SubSeq(q, m, n) \in Seq(S)
         /\ Len(SubSeq(q, m, n)) = IF m <= n THEN n - m + 1 ELSE 0
<1>1. /\ SubSeq(q, m, n) \in Seq(S)
      /\ Len(SubSeq(q, m, n)) = IF m <= n THEN n - m + 1 ELSE 0
      /\ \A i \in 1 .. n - m + 1 : SubSeq(q, m, n)[i] = q[m + i - 1]
  BY SubSeqProperties
<1> QED
  BY <1>1

(* What is kept of a list: all of it and one more, or as much as may be. *)
LEMMA LastOfFacts ==
  ASSUME NEW S, NEW q \in Seq(S), Len(q) >= 1
  PROVE  /\ LastOf(q) \in Seq(S) /\ Len(LastOf(q)) <= MaxEmbedded
         /\ Len(q) <= MaxEmbedded + 1 => Len(LastOf(q)) >= Len(q) - 1
<1> PICK n \in Nat : n = Len(q) /\ n >= 1
  OBVIOUS
<1> PICK from : from = Max({1, n - MaxEmbedded + 1})
  OBVIOUS
<1>1. MaxEmbedded \in Nat /\ MaxEmbedded >= 1
  BY SyncBounds
<1>2. from = IF n - MaxEmbedded + 1 >= 1 THEN n - MaxEmbedded + 1 ELSE 1
  <2> DEFINE top(x) == x \in {1, n - MaxEmbedded + 1} /\ \A y \in {1, n - MaxEmbedded + 1} : x >= y
  <2>1. \A x, y : top(x) /\ top(y) => x = y
    BY <1>1
  <2>2. top(IF n - MaxEmbedded + 1 >= 1 THEN n - MaxEmbedded + 1 ELSE 1)
    BY <1>1
  <2>3. from = CHOOSE x \in {1, n - MaxEmbedded + 1} : \A y \in {1, n - MaxEmbedded + 1} : x >= y
    BY DEF Max
  <2> QED
    BY <2>1, <2>2, <2>3
<1>3. from \in 1 .. n
  BY <1>1, <1>2
<1>4. LastOf(q) = SubSeq(q, from, n)
  BY DEF LastOf
<1>5. LastOf(q) \in Seq(S) /\ Len(LastOf(q)) = n - from + 1
  <2>1. from \in Int /\ n \in Int /\ from <= n
    BY <1>3
  <2>2. \A i \in 1 .. Len(q) : q[i] \in S
    OBVIOUS
  <2>3. \A i \in from .. n : q[i] \in S
    BY <1>3, <2>2
  <2>4. /\ SubSeq(q, from, n) \in Seq(S)
        /\ Len(SubSeq(q, from, n)) = IF from <= n THEN n - from + 1 ELSE 0
    BY <2>1, <2>3, Slice
  <2> QED
    BY <1>4, <2>1, <2>4
<1> QED
  BY <1>1, <1>2, <1>5

LEMMA Installed ==
  ASSUME TypeInv, NEW f \in Finalizers, AddInstallActionToBuild(f)
  PROVE  /\ BuildsOK' /\ Len(builds') = Len(builds)
         /\ \A c \in 1 .. Len(builds) :
               /\ builds'[c].replaced = builds[c].replaced
               /\ builds'[c].intention = builds[c].intention
               /\ builds'[c].action = builds[c].action
               /\ builds'[c].approvals = builds[c].approvals
               /\ Len(builds'[c].installed) >= Len(builds[c].installed)
<1> PICK s : s = finalizer[f]
  OBVIOUS
<1> PICK b : b = s.build
  OBVIOUS
<1> PICK q : q = Append(builds[b].installed, <<s.of, s.k>>)
  OBVIOUS
<1> PICK d : d = [builds[b] EXCEPT !.installed = LastOf(q)]
  OBVIOUS
<1>1. s.pc = "pushInstall"
  BY DEF AddInstallActionToBuild, At
<1>2. /\ b \in 1 .. Len(builds) /\ s.of \in Intentions /\ s.k \in Nat
  BY <1>1, UnderWay, StateFacts DEF StateOK
<1>3. builds' = [builds EXCEPT ![b] = d]
  BY DEF AddInstallActionToBuild
<1>4. builds[b] \in Build /\ builds[b].installed \in Seq(Intentions \X Nat)
  BY <1>2, BuildFacts DEF TypeInv
<1>5. Len(builds[b].installed) <= MaxEmbedded /\ builds[b].approvals <= MaxApprovals
  BY <1>2 DEF TypeInv, BuildsOK
<1>6. q \in Seq(Intentions \X Nat) /\ Len(q) = Len(builds[b].installed) + 1
  <2>1. <<s.of, s.k>> \in Intentions \X Nat
    BY <1>2
  <2> QED
    BY <1>4, <2>1
<1>7. /\ LastOf(q) \in Seq(Intentions \X Nat) /\ Len(LastOf(q)) <= MaxEmbedded
      /\ Len(LastOf(q)) >= Len(builds[b].installed)
  <2>1. Len(builds[b].installed) \in Nat /\ MaxEmbedded \in Nat
    BY <1>4, SyncBounds
  <2>2. Len(q) >= 1 /\ Len(q) <= MaxEmbedded + 1 /\ Len(q) - 1 = Len(builds[b].installed)
    BY <1>5, <1>6, <2>1
  <2>3. /\ LastOf(q) \in Seq(Intentions \X Nat) /\ Len(LastOf(q)) <= MaxEmbedded
        /\ Len(LastOf(q)) >= Len(q) - 1
    BY <1>6, <2>2, LastOfFacts
  <2> QED
    BY <2>2, <2>3
<1>8. /\ d \in Build /\ d.replaced = builds[b].replaced /\ d.intention = builds[b].intention
      /\ d.action = builds[b].action /\ d.approvals = builds[b].approvals
      /\ d.installed = LastOf(q)
  BY <1>4, <1>7 DEF Build
<1>9. /\ BuildsOK' /\ Len(builds') = Len(builds)
      /\ \A c \in 1 .. Len(builds) : builds'[c] = IF c = b THEN d ELSE builds[c]
  BY <1>2, <1>3, <1>5, <1>7, <1>8, OneBuildChanged DEF TypeInv
<1>10. ASSUME NEW c \in 1 .. Len(builds)
       PROVE  /\ builds'[c].replaced = builds[c].replaced
              /\ builds'[c].intention = builds[c].intention
              /\ builds'[c].action = builds[c].action
              /\ builds'[c].approvals = builds[c].approvals
              /\ Len(builds'[c].installed) >= Len(builds[c].installed)
  <2>1. Len(builds[c].installed) \in Nat
    BY BuildFacts DEF TypeInv
  <2>2. CASE c = b
    BY <1>7, <1>8, <1>9, <2>2
  <2>3. CASE c # b
    BY <1>9, <2>1, <2>3
  <2> QED
    BY <2>2, <2>3
<1> QED
  BY <1>9, <1>10

LEMMA TypePush ==
  ASSUME TypeInv, NEW f \in Finalizers, AddInstallActionToBuild(f)
  PROVE  TypeInv'
<1> PICK s : s = finalizer[f]
  OBVIOUS
<1> PICK t : t = AfterAction(s)
  OBVIOUS
<1>1. s.pc = "pushInstall"
  BY DEF AddInstallActionToBuild, At
<1>2. /\ s \in FinalizerState /\ s.of \in Intentions /\ s.k \in 1 .. Len(ActionsOf[s.of])
      /\ s.refs \in RefsOf(s.of) /\ BoundsOK /\ Len(builds) \in Nat /\ instances \in Nat
  BY <1>1, UnderWay
<1>3. finalizer' = [finalizer EXCEPT ![f] = t]
  BY DEF AddInstallActionToBuild
<1>4. /\ t \in FinalizerState /\ t.pc \in {"service", "close"} /\ t.of = s.of
      /\ t.refs = s.refs /\ t.k \in 1 .. Len(ActionsOf[s.of])
  BY <1>2, AfterActionFacts
<1>5. /\ BuildsOK' /\ Len(builds') = Len(builds) /\ scenario' = scenario
      /\ instances' = instances
  BY Installed DEF AddInstallActionToBuild
<1>6. StateOK(t)'
  BY <1>2, <1>4, <1>5 DEF StateOK, RefsOf, ActionsOf
<1>7. FinalizersOK'
  <2>1. /\ instances' \in Nat /\ instances <= instances'
        /\ Len(builds') \in Nat /\ Len(builds) <= Len(builds')
    BY <1>2, <1>5
  <2> QED
    BY <1>3, <1>4, <1>5, <1>6, <2>1, OneMoves
<1>8. StoredOK'
  BY <1>2, <1>5, StoredKept DEF AddInstallActionToBuild, TypeInv
<1>9. GraphOK' /\ BoundsOK'
  BY BoundsKept, GraphKept DEF AddInstallActionToBuild, TypeInv
<1> QED
  BY <1>5, <1>7, <1>8, <1>9 DEF TypeInv

LEMMA ClosedStored ==
  ASSUME TypeInv, NEW f \in Finalizers, CloseIntention(f), NEW s, s = finalizer[f]
  PROVE  /\ StoredOK'
         /\ \A i \in Intentions : i # s.of => stored'[i] = stored[i]
         /\ stored'[s.of].closed
         /\ stored'[s.of].refs \in {s.refs, stored[s.of].refs}
         /\ s.dirty => stored'[s.of].refs = s.refs
<1> PICK refs : refs = IF s.dirty \/ "service" \notin scenario.start THEN s.refs
                                                                     ELSE stored[s.of].refs
  OBVIOUS
<1>1. s.pc = "close"
  BY DEF CloseIntention, At
<1>2. s \in FinalizerState /\ s.of \in Intentions /\ s.refs \in RefsOf(s.of)
  BY <1>1, UnderWay
<1>3. stored \in [Intentions -> [closed : BOOLEAN, refs : Seq(Ref)]]
  BY DEF TypeInv, StoredOK
<1>4. refs \in RefsOf(s.of) /\ refs \in Seq(Ref)
  BY <1>2, <1>3, StateFacts DEF TypeInv, StoredOK
<1>5. stored' = [stored EXCEPT ![s.of] = [closed |-> TRUE, refs |-> refs]]
  BY DEF CloseIntention
<1>6. /\ stored' \in [Intentions -> [closed : BOOLEAN, refs : Seq(Ref)]]
      /\ \A i \in Intentions : i # s.of => stored'[i] = stored[i]
      /\ stored'[s.of].closed /\ stored'[s.of].refs = refs
  BY <1>2, <1>3, <1>4, <1>5
<1>7. \A i \in Intentions : RefsOf(i)' = RefsOf(i)
  BY DEF RefsOf, ActionsOf, CloseIntention
<1>8. \A i \in Intentions : stored'[i].refs \in RefsOf(i)'
  BY <1>4, <1>6, <1>7 DEF TypeInv, StoredOK
<1> QED
  BY <1>6, <1>8 DEF StoredOK

LEMMA TypeClose ==
  ASSUME TypeInv, NEW f \in Finalizers, CloseIntention(f)
  PROVE  TypeInv'
<1>1. finalizer' = [finalizer EXCEPT ![f] = Idle]
  BY DEF CloseIntention
<1>2. StateOK(Idle)
  BY IdleFacts DEF StateOK
<1>3. FinalizersOK'
  BY <1>1, <1>2, IdleFacts, OnlyMoves DEF CloseIntention
<1>4. StoredOK'
  BY ClosedStored
<1>5. GraphOK' /\ BoundsOK' /\ BuildsOK'
  BY BoundsKept, GraphKept, BuildsKept DEF CloseIntention, TypeInv
<1> QED
  BY <1>3, <1>4, <1>5 DEF TypeInv

LEMMA TypeAbandon ==
  ASSUME TypeInv, NEW f \in Finalizers, Abandon(f)
  PROVE  TypeInv'
<1>1. finalizer' = [finalizer EXCEPT ![f] = Idle]
  BY DEF Abandon
<1>2. StateOK(Idle)
  BY IdleFacts DEF StateOK
<1>3. FinalizersOK'
  BY <1>1, <1>2, IdleFacts, OnlyMoves DEF Abandon
<1>4. BoundsOK'
  BY ScenarioFacts DEF Abandon, TypeInv, BoundsOK
<1>5. GraphOK'
  BY DEF Abandon, TypeInv, GraphOK
<1>6. BuildsOK' /\ StoredOK'
  BY BuildFacts, BuildsKept, StoredKept DEF Abandon, TypeInv
<1> QED
  BY <1>3, <1>4, <1>5, <1>6 DEF TypeInv

LEMMA TypeRunFloating ==
  ASSUME TypeInv, NEW t \in floating, RunFloating(t)
  PROVE  TypeInv'
<1>1. t.edge[1] \in NotWaitedFor
  BY DEF TypeInv, GraphOK
<1>2. \A e \in links' : e[1] \in NotWaitedFor \cup {"instance"}
  <2>1. \A e \in links' : e \in links \/ e = t.edge \/ e = <<"installation", FoundInstance, "server">>
    BY DEF RunFloating
  <2>2. \A e \in links : e[1] \in NotWaitedFor \cup {"instance"}
    BY DEF TypeInv, GraphOK
  <2>3. <<"installation", FoundInstance, "server">>[1] \in NotWaitedFor
    BY DEF NotWaitedFor
  <2> QED
    BY <1>1, <2>1, <2>2, <2>3
<1>3. GraphOK'
  BY <1>2 DEF RunFloating, TypeInv, GraphOK
<1>4. BuildsOK' /\ StoredOK' /\ BoundsOK'
  BY BuildFacts, BuildsKept, StoredKept, BoundsKept DEF RunFloating, TypeInv
<1>5. FinalizersOK'
  BY DEF RunFloating, TypeInv, FinalizersOK, StateOK, RefsOf, ActionsOf
<1> QED
  BY <1>3, <1>4, <1>5 DEF TypeInv

LEMMA Approved ==
  ASSUME TypeInv, NEW b \in 1 .. Len(builds), ApprovePackage(b)
  PROVE  /\ BuildsOK' /\ Len(builds') = Len(builds)
         /\ \A c \in 1 .. Len(builds) :
               /\ builds'[c].replaced = builds[c].replaced
               /\ builds'[c].intention = builds[c].intention
               /\ builds'[c].action = builds[c].action
               /\ builds'[c].approvals >= builds[c].approvals
               /\ builds'[c].installed = builds[c].installed
<1> PICK n : n = builds[b].approvals + 1
  OBVIOUS
<1> PICK d : d = [builds[b] EXCEPT !.approvals = n]
  OBVIOUS
<1>1. builds' = [builds EXCEPT ![b] = d]
  BY DEF ApprovePackage
<1>2. builds[b] \in Build /\ builds[b].approvals \in Nat
  BY BuildFacts DEF TypeInv
<1>3. n \in Nat /\ n <= MaxApprovals
  BY <1>2, SyncBounds DEF ApprovePackage
<1>4. /\ d \in Build /\ d.replaced = builds[b].replaced /\ d.intention = builds[b].intention
      /\ d.action = builds[b].action /\ d.approvals = n /\ d.installed = builds[b].installed
  BY <1>2, <1>3 DEF Build
<1>5. Len(d.installed) <= MaxEmbedded /\ d.approvals <= MaxApprovals
  BY <1>3, <1>4 DEF TypeInv, BuildsOK
<1>6. /\ BuildsOK' /\ Len(builds') = Len(builds)
      /\ \A c \in 1 .. Len(builds) : builds'[c] = IF c = b THEN d ELSE builds[c]
  BY <1>1, <1>4, <1>5, OneBuildChanged DEF TypeInv
<1>7. ASSUME NEW c \in 1 .. Len(builds)
      PROVE  /\ builds'[c].replaced = builds[c].replaced
             /\ builds'[c].intention = builds[c].intention
             /\ builds'[c].action = builds[c].action
             /\ builds'[c].approvals >= builds[c].approvals
             /\ builds'[c].installed = builds[c].installed
  <2>1. builds[c].approvals \in Nat
    BY BuildFacts DEF TypeInv
  <2>2. CASE c = b
    <3>1. builds'[c] = d /\ n >= builds[b].approvals
      BY <1>2, <1>6, <2>2
    <3> QED
      BY <1>4, <2>2, <3>1
  <2>3. CASE c # b
    <3>1. builds'[c] = builds[c]
      BY <1>6, <2>3
    <3> QED
      BY <2>1, <3>1
  <2> QED
    BY <2>2, <2>3
<1> QED
  BY <1>6, <1>7

LEMMA TypeApprove ==
  ASSUME TypeInv, NEW b \in 1 .. Len(builds), ApprovePackage(b)
  PROVE  TypeInv'
<1>1. BuildsOK' /\ Len(builds') = Len(builds) /\ Len(builds) \in Nat
  BY Approved, BuildFacts DEF TypeInv
<1>2. StoredOK' /\ GraphOK' /\ BoundsOK'
  BY <1>1, StoredKept, GraphKept, BoundsKept DEF ApprovePackage, TypeInv
<1>3. FinalizersOK'
  BY <1>1 DEF ApprovePackage, TypeInv, FinalizersOK, StateOK, RefsOf, ActionsOf
<1> QED
  BY <1>1, <1>2, <1>3 DEF TypeInv

LEMMA TypeInit == SyncInit => TypeInv
<1> SUFFICES ASSUME SyncInit PROVE TypeInv
  OBVIOUS
<1>1. builds = <<>> /\ BuildsOK
  BY DEF SyncInit, BuildsOK
<1>2. BoundsOK
  <2>1. scenario \in Scenarios /\ deaths = 0 /\ closes = 0
    BY DEF SyncInit
  <2>2. scenario.deaths \in Nat /\ scenario.closes \in Nat
    BY <2>1, ScenariosAreScenarios DEF Scenario
  <2> QED
    BY <2>1, <2>2 DEF BoundsOK
<1>3. StoredOK
  <2>1. ASSUME NEW i \in Intentions
        PROVE  /\ [k \in 1 .. Len(ActionsOf[i]) |-> NoBuild] \in RefsOf(i)
               /\ [k \in 1 .. Len(ActionsOf[i]) |-> NoBuild] \in Seq(Ref)
    <3>1. [k \in 1 .. Len(ActionsOf[i]) |-> NoBuild] \in RefsOf(i)
      BY DEF RefsOf
    <3>2. Len(ActionsOf[i]) \in Nat
      BY <1>2, ScenarioFacts
    <3> QED
      BY <1>1, <3>1, <3>2, RefsAreSeq
  <2> QED
    BY <2>1 DEF SyncInit, StoredOK
<1>4. GraphOK
  BY <1>2, ScenarioFacts DEF SyncInit, GraphOK
<1>5. FinalizersOK
  <2>1. StateOK(Idle)
    BY IdleFacts DEF StateOK
  <2> QED
    BY <2>1, IdleFacts DEF SyncInit, FinalizersOK
<1> QED
  BY <1>1, <1>2, <1>3, <1>4, <1>5 DEF TypeInv

LEMMA TypeNext == TypeInv /\ [SyncNext]_syncVars => TypeInv'
<1> SUFFICES ASSUME TypeInv, [SyncNext]_syncVars PROVE TypeInv'
  OBVIOUS
<1>1. scenario.crew \subseteq Finalizers
  BY ScenarioFacts DEF TypeInv
<1>2. ASSUME NEW f \in scenario.crew, FinalizerStep(f) PROVE TypeInv'
  BY <1>1, <1>2, TypeSyncAction, TypeFindInstance, TypeAddInstance, TypeLinkInstance,
     TypeFindServer, TypeFindBuild, TypeMark, TypeAddBuild, TypeSetRef, TypePush, TypeClose
     DEF FinalizerStep
<1>3. ASSUME NEW f \in scenario.crew, Abandon(f) PROVE TypeInv'
  BY <1>1, <1>3, TypeAbandon
<1>4. ASSUME NEW f \in scenario.crew, NEW i \in Intentions, BeginClose(f, i) PROVE TypeInv'
  BY <1>1, <1>4, TypeBeginClose
<1>5. ASSUME NEW t \in floating, RunFloating(t) PROVE TypeInv'
  BY <1>5, TypeRunFloating
<1>6. ASSUME NEW b \in 1 .. Len(builds), ApprovePackage(b) PROVE TypeInv'
  BY <1>6, TypeApprove
<1>7. CASE UNCHANGED syncVars
  BY <1>7 DEF syncVars, TypeInv, BoundsOK, BuildsOK, StoredOK, GraphOK, FinalizersOK, StateOK,
              RefsOf, ActionsOf
<1> QED
  BY <1>2, <1>3, <1>4, <1>5, <1>6, <1>7 DEF SyncNext

LEMMA SyncIsTyped == TypeInv => SyncTypeOK
<1> SUFFICES ASSUME TypeInv PROVE SyncTypeOK
  OBVIOUS
<1>1. \A b \in 1 .. Len(builds) :
         /\ builds[b].intention \in Intentions /\ builds[b].replaced \in BOOLEAN
         /\ Len(builds[b].installed) <= MaxEmbedded /\ builds[b].approvals \in 0 .. MaxApprovals
  BY BuildFacts, SyncBounds DEF TypeInv, BuildsOK
<1>2. \A i \in Intentions :
         /\ stored[i].closed \in BOOLEAN
         /\ stored[i].refs \in [1..Len(ActionsOf[i]) -> (1..Len(builds)) \cup {NoBuild}]
  BY DEF TypeInv, StoredOK, RefsOf
<1>3. \A f \in Finalizers : finalizer[f].pc \in Pc
  BY StateFacts DEF TypeInv, FinalizersOK
<1>4. /\ vertices \subseteq {"project", "service", "server"} /\ instances \in Nat
      /\ \A t \in floating : t.by \in Finalizers
      /\ \A e \in links : e[1] \in {"component", "authorized", "instance", "deploy-type",
                                     "installation"}
  BY DEF TypeInv, GraphOK, NotWaitedFor
<1> QED
  BY <1>1, <1>2, <1>3, <1>4 DEF TypeInv, BoundsOK, SyncTypeOK

(* What a close writes into the graph, the builds and the documents is of   *)
(* its type and within its bounds, whatever finalizers overlap and fail     *)
(* (intention-sync.service.ts).                                             *)
THEOREM SyncTypeCorrect == SyncSpec => []SyncTypeOK
BY SyncIsTyped, TypeInit, TypeNext, PTL DEF SyncSpec

(* A finalizer that writes to a build it read earlier takes nothing away    *)
(* from what approvals and installations recorded on it meanwhile           *)
(* (build-mongo.repository.ts).                                             *)
THEOREM RecordsAreKept == SyncSpec => RecordsKept
<1> DEFINE Kept == \A b \in 1 .. Len(builds) :
                      /\ builds'[b].approvals >= builds[b].approvals
                      /\ Len(builds'[b].installed) >= Len(builds[b].installed)
<1>1. TypeInv /\ SyncNext => Kept
  <2> SUFFICES ASSUME TypeInv, SyncNext PROVE Kept
    OBVIOUS
  <2>1. scenario.crew \subseteq Finalizers
    BY ScenarioFacts DEF TypeInv
  <2>2. \A b \in 1 .. Len(builds) :
           builds[b].approvals \in Nat /\ Len(builds[b].installed) \in Nat
    BY BuildFacts DEF TypeInv
  <2>3. CASE builds' = builds
    BY <2>2, <2>3
  <2>4. ASSUME NEW f \in scenario.crew, MarkBuildAsReplaced(f) PROVE Kept
    <3>1. \A c \in 1 .. Len(builds) : /\ builds'[c].approvals = builds[c].approvals
                                     /\ builds'[c].installed = builds[c].installed
      BY <2>1, <2>4, Marked
    <3> QED
      BY <2>2, <3>1
  <2>5. ASSUME NEW f \in scenario.crew, AddBuild(f) PROVE Kept
    <3>1. \A c \in 1 .. Len(builds) : builds'[c] = builds[c]
      BY <2>1, <2>5, Added
    <3> QED
      BY <2>2, <3>1
  <2>6. ASSUME NEW f \in scenario.crew, AddInstallActionToBuild(f) PROVE Kept
    BY <2>1, <2>2, <2>6, Installed
  <2>7. ASSUME NEW b \in 1 .. Len(builds), ApprovePackage(b) PROVE Kept
    BY <2>2, <2>7, Approved
  <2>8. \/ builds' = builds
        \/ \E f \in scenario.crew : \/ MarkBuildAsReplaced(f) \/ AddBuild(f)
                                    \/ AddInstallActionToBuild(f)
        \/ \E b \in 1 .. Len(builds) : ApprovePackage(b)
    BY DEF SyncNext, FinalizerStep, SyncAction, FindInstance, AddInstance, LinkInstance,
           FindServer, FindBuild, SetActionPackageBuildRef, CloseIntention, Abandon,
           BeginClose, RunFloating
  <2> QED
    BY <2>3, <2>4, <2>5, <2>6, <2>7, <2>8
<1>2. TypeInv /\ [SyncNext]_syncVars => [Kept]_syncVars
  BY <1>1
<1> QED
  BY <1>2, TypeInit, TypeNext, PTL DEF SyncSpec, RecordsKept

-----------------------------------------------------------------------------
(* Closes that do not overlap: f is alone. *)

LEMMA AloneNext ==
  ASSUME TypeInv, NEW f \in Finalizers, NEW t, finalizer' = [finalizer EXCEPT ![f] = t],
         ClosedOK', CopyOK(t)', CurrentOK(t)', InstancesOK(t)'
  PROVE  AloneInv(f)'
<1>1. finalizer'[f] = t
  BY DEF TypeInv, FinalizersOK
<1> QED
  BY <1>1 DEF AloneInv, CopyOK, CurrentOK, InstancesOK, PassedBy

LEMMA InstancesKept ==
  ASSUME NEW s, NEW t, InstancesOK(s), links' = links, instances' = instances,
         t.pc \notin {"addInstance", "linkInstance"}
  PROVE  InstancesOK(t)'
  BY DEF InstancesOK

LEMMA CurrentKept ==
  ASSUME NEW s, NEW t, CurrentOK(s), BuildsOK, BuildsOK', Len(builds') = Len(builds),
         \A c \in 1 .. Len(builds) : builds'[c].replaced = builds[c].replaced,
         t.pc \notin {"addBuild", "replaceBuild"},
         deaths' = 0 => deaths = 0 /\ s.pc # "addBuild"
  PROVE  CurrentOK(t)'
<1>1. Len(builds) \in Nat /\ (builds # <<>> <=> Len(builds) > 0)
  BY DEF BuildsOK
<1>2. builds' # <<>> <=> Len(builds') > 0
  BY DEF BuildsOK
<1>3. builds' # <<>> => builds # <<>> /\ builds'[Len(builds)].replaced = builds[Len(builds)].replaced
  BY <1>1, <1>2
<1>4. \A b \in 1 .. (Len(builds') - 1) : builds'[b].replaced
  BY <1>1 DEF CurrentOK
<1> QED
  BY <1>3, <1>4 DEF CurrentOK

(* Builds are added and keep whom they were added for. *)
IdentitiesKept ==
    /\ Len(builds) \in Nat /\ Len(builds') \in Nat /\ Len(builds) <= Len(builds')
    /\ \A c \in 1 .. Len(builds) : /\ builds'[c].intention = builds[c].intention
                                   /\ builds'[c].action = builds[c].action

LEMMA RegisteredKept ==
  ASSUME IdentitiesKept, NEW i, NEW k, NEW b, Registered(i, k, b)
  PROVE  Registered(i, k, b)'
<1>1. b \in 1 .. Len(builds')
  BY DEF IdentitiesKept, Registered
<1> QED
  BY <1>1 DEF IdentitiesKept, Registered

(* A step from s to t that passes no build action, or has it registered. *)
LEMMA CopyKept ==
  ASSUME TypeInv, StoredOK', scenario' = scenario, IdentitiesKept,
         NEW s \in FinalizerState, NEW t \in FinalizerState,
         s.pc # "idle", s.of \in Intentions, s.pc # "close",
         s.k \in 1 .. Len(ActionsOf[s.of]),
         ClosedOK, CopyOK(s), t.of = s.of, t.refs = s.refs,
         \A i \in Intentions : stored'[i].closed = stored[i].closed
                              /\ stored'[i].refs = stored[i].refs,
         \/ t.pc \notin {"close", "idle", "setRef"} /\ t.k = s.k
         \/ /\ s.k \notin Builds(s.of)
            /\ \/ t.pc = "service" /\ t.k = s.k + 1
               \/ t.pc = "close" /\ t.k = s.k /\ s.k = Len(ActionsOf[s.of])
         \/ /\ t.pc = "setRef" /\ t.k = s.k
            /\ ActionsOf[s.of][s.k].does = "package-build" => Registered(s.of, s.k, t.build)'
  PROVE  ClosedOK' /\ CopyOK(t)'
<1>1. \A i : Builds(i)' = Builds(i)
  BY DEF Builds, ActionsOf
<1>2. ~stored[s.of].closed /\ s.refs = stored[s.of].refs
      /\ \A k \in PassedBy(s) : Registered(s.of, k, s.refs[k])
  BY DEF CopyOK
<1>3. ClosedOK'
  <2>1. ASSUME NEW i \in Intentions, stored'[i].closed, NEW k \in Builds(i),
               NEW b, b = stored'[i].refs[k]
        PROVE  Registered(i, k, b)'
    <3>1. stored[i].closed /\ i # s.of /\ stored'[i].refs = stored[i].refs
      BY <1>2, <2>1
    <3>2. Registered(i, k, b)
      BY <2>1, <3>1 DEF ClosedOK
    <3> QED
      BY <3>2, RegisteredKept
  <2> QED
    BY <1>1, <2>1 DEF ClosedOK, Registered
<1>4. PassedBy(t)' \subseteq PassedBy(s)
  <2>1. Len(ActionsOf[s.of]) \in Nat /\ s.k \in Nat
    BY ScenarioFacts DEF TypeInv
  <2>2. PassedBy(t)' = {k \in Builds(s.of) : k < t.k \/ t.pc = "close"}
    BY <1>1 DEF PassedBy
  <2>3. \A k \in Builds(s.of) : k \in 1 .. Len(ActionsOf[s.of])
    BY DEF Builds
  <2>4. ASSUME NEW k \in PassedBy(t)' PROVE k \in PassedBy(s)
    <3>1. k \in Builds(s.of) /\ (k < t.k \/ t.pc = "close") /\ k \in Nat /\ k <= Len(ActionsOf[s.of])
      BY <2>1, <2>2, <2>3
    <3>2. k < s.k
      BY <2>1, <3>1
    <3> QED
      BY <3>1, <3>2 DEF PassedBy
  <2> QED
    BY <2>4
<1>5. ~stored'[t.of].closed /\ t.refs = stored'[t.of].refs
  BY <1>2
<1>6. ASSUME NEW k \in PassedBy(t)' PROVE Registered(t.of, k, t.refs[k])'
  BY <1>2, <1>4, <1>6, RegisteredKept
<1>7. t.pc = "setRef" /\ ActionsOf'[t.of][t.k].does = "package-build" =>
         Registered(t.of, t.k, t.build)'
  BY DEF ActionsOf
<1>8. CopyOK(t)'
  BY <1>5, <1>6, <1>7 DEF CopyOK
<1> QED
  BY <1>3, <1>8

(* A step that leaves the documents and the builds alone. *)
LEMMA SameDocuments ==
  ASSUME TypeInv, builds' = builds, stored' = stored, scenario' = scenario
  PROVE  /\ IdentitiesKept /\ BuildsOK /\ BuildsOK' /\ StoredOK'
         /\ \A c \in 1 .. Len(builds) : builds'[c].replaced = builds[c].replaced
         /\ \A i \in Intentions : stored'[i].closed = stored[i].closed
                                 /\ stored'[i].refs = stored[i].refs
  BY BuildFacts, BuildsKept, StoredKept DEF TypeInv, IdentitiesKept

LEMMA AloneBeginClose ==
  ASSUME TypeInv, NEW f \in Finalizers, AloneInv(f), NEW i \in Intentions, BeginClose(f, i)
  PROVE  AloneInv(f)'
<1> PICK s : s = finalizer[f]
  OBVIOUS
<1> PICK t : t = [Idle EXCEPT !.pc = "service", !.of = i, !.refs = stored[i].refs]
  OBVIOUS
<1>1. finalizer' = [finalizer EXCEPT ![f] = t] /\ s.pc = "idle"
  BY DEF BeginClose, At
<1>2. /\ t.pc = "service" /\ t.of = i /\ t.k = 1 /\ t.refs = stored[i].refs
  BY DEF Idle
<1>3. /\ ClosedOK /\ CopyOK(s) /\ CurrentOK(s) /\ InstancesOK(s)
      /\ stored' = stored /\ builds' = builds /\ scenario' = scenario
      /\ ~stored[i].closed
  BY DEF AloneInv, BeginClose
<1>4. ClosedOK'
  BY <1>3 DEF ClosedOK, Registered, Builds, ActionsOf
<1>5. CopyOK(t)'
  <2>1. \A k \in Builds(i)' : k \in Nat /\ k >= 1
    BY DEF Builds, ActionsOf
  <2>2. PassedBy(t)' = {}
    BY <1>2, <2>1 DEF PassedBy
  <2> QED
    BY <1>2, <1>3, <2>2 DEF CopyOK
<1>6. CurrentOK(t)'
  BY <1>1, <1>2, <1>3, SameDocuments, CurrentKept DEF BeginClose
<1>7. InstancesOK(t)'
  BY <1>2, <1>3, InstancesKept DEF BeginClose
<1> QED
  BY <1>1, <1>4, <1>5, <1>6, <1>7, AloneNext

LEMMA AloneSyncAction ==
  ASSUME TypeInv, NEW f \in Finalizers, AloneInv(f), SyncAction(f)
  PROVE  AloneInv(f)'
<1> PICK s : s = finalizer[f]
  OBVIOUS
<1> PICK does : does = CurrentAction(f).does
  OBVIOUS
<1> PICK t : t = CASE does = "package-installation" -> [s EXCEPT !.pc = "findInstance"]
                   [] does = "package-build" -> [s EXCEPT !.pc = "findBuild"]
                   [] OTHER -> AfterAction(s)
  OBVIOUS
<1>1. /\ s.pc = "service" /\ does = ActionsOf[s.of][s.k].does
      /\ finalizer' = [finalizer EXCEPT ![f] = t]
  BY DEF SyncAction, At, CurrentAction
<1>2. /\ s \in FinalizerState /\ s.of \in Intentions /\ s.k \in 1 .. Len(ActionsOf[s.of])
      /\ BoundsOK
  BY <1>1, UnderWay
<1>3. /\ ClosedOK /\ CopyOK(s) /\ CurrentOK(s) /\ InstancesOK(s)
      /\ stored' = stored /\ builds' = builds /\ scenario' = scenario
  BY DEF AloneInv, SyncAction
<1>4. /\ t \in FinalizerState /\ t.of = s.of /\ t.refs = s.refs
      /\ \/ t.pc \in {"findInstance", "findBuild"} /\ t.k = s.k
         \/ /\ s.k \notin Builds(s.of)
            /\ \/ t.pc = "service" /\ t.k = s.k + 1
               \/ t.pc = "close" /\ t.k = s.k /\ s.k = Len(ActionsOf[s.of])
  <2>1. CASE does = "package-installation"
    <3>1. t = [s EXCEPT !.pc = "findInstance"]
      BY <2>1
    <3> QED
      BY <1>2, <3>1 DEF FinalizerState, Pc
  <2>2. CASE does = "package-build"
    <3>1. t = [s EXCEPT !.pc = "findBuild"]
      BY <2>2
    <3> QED
      BY <1>2, <3>1 DEF FinalizerState, Pc
  <2>3. CASE does # "package-installation" /\ does # "package-build"
    <3>1. t = AfterAction(s)
      BY <2>3
    <3>2. s.k \notin Builds(s.of)
      BY <1>1, <2>3 DEF Builds
    <3> QED
      BY <1>2, <3>1, <3>2, AfterActionFacts
  <2> QED
    BY <2>1, <2>2, <2>3
<1>5. ClosedOK' /\ CopyOK(t)'
  BY <1>1, <1>2, <1>3, <1>4, SameDocuments, CopyKept
<1>6. CurrentOK(t)'
  BY <1>1, <1>3, <1>4, SameDocuments, CurrentKept DEF SyncAction
<1>7. InstancesOK(t)'
  BY <1>3, <1>4, InstancesKept DEF SyncAction
<1> QED
  BY <1>1, <1>5, <1>6, <1>7, AloneNext

(* What is found, when at most one instance is linked. *)
LEMMA AloneFindInstance ==
  ASSUME TypeInv, NEW f \in Finalizers, AloneInv(f), FindInstance(f)
  PROVE  AloneInv(f)'
<1> PICK s : s = finalizer[f]
  OBVIOUS
<1> PICK n : n = FoundInstance
  OBVIOUS
<1> PICK pc : pc = IF n = NoInstance THEN "addInstance" ELSE "linkInstance"
  OBVIOUS
<1> PICK t : t = [s EXCEPT !.instance = n, !.pc = pc]
  OBVIOUS
<1>1. s.pc = "findInstance" /\ finalizer' = [finalizer EXCEPT ![f] = t]
  BY DEF FindInstance, At
<1>2. /\ s \in FinalizerState /\ s.of \in Intentions /\ s.k \in 1 .. Len(ActionsOf[s.of])
      /\ instances \in Nat
  BY <1>1, UnderWay
<1>3. /\ ClosedOK /\ CopyOK(s) /\ CurrentOK(s) /\ InstancesOK(s)
      /\ stored' = stored /\ builds' = builds /\ scenario' = scenario
      /\ links' = links /\ instances' = instances
  BY DEF AloneInv, FindInstance
<1>4. n # NoInstance => n \in 1 .. instances /\ Linked(n) \in links
  BY <1>2, FoundInstanceFacts
<1>5. n = NoInstance => \A m \in 1 .. instances : Linked(m) \notin links
  <2>1. \A l, m \in 1 .. instances : Linked(l) \in links /\ Linked(m) \in links => l = m
    BY <1>3 DEF InstancesOK
  <2> QED
    BY <1>2, <2>1, FoundInstanceFacts
<1>6. /\ t \in FinalizerState /\ t.pc = pc /\ t.instance = n
      /\ t.of = s.of /\ t.k = s.k /\ t.refs = s.refs
      /\ t.pc \in {"addInstance", "linkInstance"}
  <2>1. n \in Nat \cup {NoInstance} /\ pc \in {"addInstance", "linkInstance"}
    BY <1>2, <1>4
  <2> QED
    BY <1>2, <2>1 DEF FinalizerState, Pc
<1>7. ClosedOK' /\ CopyOK(t)'
  BY <1>1, <1>2, <1>3, <1>6, SameDocuments, CopyKept
<1>8. CurrentOK(t)'
  BY <1>1, <1>3, <1>6, SameDocuments, CurrentKept DEF FindInstance
<1>9. InstancesOK(t)'
  BY <1>3, <1>4, <1>5, <1>6 DEF InstancesOK
<1> QED
  BY <1>1, <1>7, <1>8, <1>9, AloneNext

LEMMA AloneAddInstance ==
  ASSUME TypeInv, NEW f \in Finalizers, AloneInv(f), AddInstance(f)
  PROVE  AloneInv(f)'
<1> PICK s : s = finalizer[f]
  OBVIOUS
<1> PICK n : n = instances + 1
  OBVIOUS
<1> PICK t : t = [s EXCEPT !.instance = n, !.pc = "linkInstance"]
  OBVIOUS
<1>1. /\ s.pc = "addInstance" /\ finalizer' = [finalizer EXCEPT ![f] = t] /\ instances' = n
  BY DEF AddInstance, At
<1>2. /\ s \in FinalizerState /\ s.of \in Intentions /\ s.k \in 1 .. Len(ActionsOf[s.of])
      /\ instances \in Nat /\ Len(builds) \in Nat
  BY <1>1, UnderWay
<1>3. /\ ClosedOK /\ CopyOK(s) /\ CurrentOK(s) /\ InstancesOK(s)
      /\ stored' = FlushStored(f) /\ builds' = builds /\ scenario' = scenario /\ links' = links
  BY DEF AloneInv, AddInstance
<1>4. /\ t \in FinalizerState /\ t.pc = "linkInstance" /\ t.instance = n
      /\ t.of = s.of /\ t.k = s.k /\ t.refs = s.refs
  <2>1. n \in Nat
    BY <1>2
  <2> QED
    BY <1>2, <2>1 DEF FinalizerState, Pc
<1>5. /\ StoredOK'
      /\ \A i \in Intentions : stored'[i].closed = stored[i].closed
                            /\ stored'[i].refs = stored[i].refs
  <2>1. Len(builds') \in Nat /\ Len(builds) <= Len(builds')
    BY <1>2, <1>3
  <2>2. s.refs = stored[s.of].refs
    BY <1>1, <1>3 DEF CopyOK
  <2> QED
    BY <1>1, <1>3, <2>1, <2>2, Flushed
<1>6. IdentitiesKept
  BY <1>2, <1>3 DEF IdentitiesKept
<1>7. ClosedOK' /\ CopyOK(t)'
  BY <1>1, <1>2, <1>3, <1>4, <1>5, <1>6, CopyKept
<1>8. CurrentOK(t)'
  <2>1. BuildsOK /\ BuildsOK' /\ deaths' = deaths
    BY <1>3, BuildsKept DEF TypeInv, AddInstance
  <2> QED
    BY <1>1, <1>3, <1>4, <2>1, CurrentKept
<1>9. InstancesOK(t)'
  BY <1>1, <1>2, <1>3, <1>4 DEF InstancesOK
<1> QED
  BY <1>1, <1>7, <1>8, <1>9, AloneNext

LEMMA LinkedIsOne == \A m, n : Linked(m) = Linked(n) => m = n
  BY DEF Linked

LEMMA AloneLinkInstance ==
  ASSUME TypeInv, NEW f \in Finalizers, AloneInv(f), LinkInstance(f)
  PROVE  AloneInv(f)'
<1> PICK s : s = finalizer[f]
  OBVIOUS
<1> PICK t : t = [s EXCEPT !.pc = "findServer"]
  OBVIOUS
<1>1. s.pc = "linkInstance" /\ finalizer' = [finalizer EXCEPT ![f] = t]
  BY DEF LinkInstance, At, Goto
<1>2. /\ s \in FinalizerState /\ s.of \in Intentions /\ s.k \in 1 .. Len(ActionsOf[s.of])
      /\ s.instance \in 1 .. instances
  BY <1>1, UnderWay DEF StateOK
<1>3. /\ ClosedOK /\ CopyOK(s) /\ CurrentOK(s) /\ InstancesOK(s)
      /\ stored' = stored /\ builds' = builds /\ scenario' = scenario
      /\ instances' = instances /\ links' = links \cup {Linked(s.instance)}
  BY DEF AloneInv, LinkInstance, Link
<1>4. t \in FinalizerState /\ t.pc = "findServer" /\ t.of = s.of /\ t.k = s.k /\ t.refs = s.refs
  BY <1>2 DEF FinalizerState, Pc
<1>5. ClosedOK' /\ CopyOK(t)'
  BY <1>1, <1>2, <1>3, <1>4, SameDocuments, CopyKept
<1>6. CurrentOK(t)'
  BY <1>1, <1>3, <1>4, SameDocuments, CurrentKept DEF LinkInstance
<1>7. InstancesOK(t)'
  <2>1. ASSUME NEW n, Linked(n) \in links' PROVE n = s.instance
    <3>1. CASE Linked(n) \in links
      BY <1>1, <1>3, <3>1 DEF InstancesOK
    <3>2. CASE Linked(n) = Linked(s.instance)
      BY <3>2, LinkedIsOne
    <3> QED
      BY <1>3, <2>1, <3>1, <3>2
  <2> QED
    BY <1>2, <1>3, <1>4, <2>1 DEF InstancesOK
<1> QED
  BY <1>1, <1>5, <1>6, <1>7, AloneNext

LEMMA AloneFindServer ==
  ASSUME TypeInv, NEW f \in Finalizers, AloneInv(f), FindServer(f)
  PROVE  AloneInv(f)'
<1> PICK s : s = finalizer[f]
  OBVIOUS
<1> PICK t : t = [s EXCEPT !.pc = "findBuild"]
  OBVIOUS
<1>1. s.pc = "findServer" /\ finalizer' = [finalizer EXCEPT ![f] = t]
  BY DEF FindServer, At, Goto
<1>2. s \in FinalizerState /\ s.of \in Intentions /\ s.k \in 1 .. Len(ActionsOf[s.of])
  BY <1>1, UnderWay
<1>3. /\ ClosedOK /\ CopyOK(s) /\ CurrentOK(s) /\ InstancesOK(s)
      /\ stored' = stored /\ builds' = builds /\ scenario' = scenario
      /\ instances' = instances /\ links' = links
  BY DEF AloneInv, FindServer
<1>4. t \in FinalizerState /\ t.pc = "findBuild" /\ t.of = s.of /\ t.k = s.k /\ t.refs = s.refs
  BY <1>2 DEF FinalizerState, Pc
<1>5. ClosedOK' /\ CopyOK(t)'
  BY <1>1, <1>2, <1>3, <1>4, SameDocuments, CopyKept
<1>6. CurrentOK(t)'
  BY <1>1, <1>3, <1>4, SameDocuments, CurrentKept DEF FindServer
<1>7. InstancesOK(t)'
  BY <1>3, <1>4, InstancesKept
<1> QED
  BY <1>1, <1>5, <1>6, <1>7, AloneNext

LEMMA AloneFindBuild ==
  ASSUME TypeInv, NEW f \in Finalizers, AloneInv(f), FindBuild(f)
  PROVE  AloneInv(f)'
<1> PICK s : s = finalizer[f]
  OBVIOUS
<1> PICK b : b = FoundBuild
  OBVIOUS
<1> PICK a : a = ActionsOf[s.of][s.k]
  OBVIOUS
<1> PICK pc : pc = AfterFind(f)
  OBVIOUS
<1> PICK read : read = IF b = NoBuild THEN <<>> ELSE builds[b]
  OBVIOUS
<1>1. s.pc = "findBuild" /\ a = CurrentAction(f)
  BY DEF FindBuild, At, CurrentAction
<1>2. /\ s \in FinalizerState /\ StateOK(s) /\ s.of \in Intentions
      /\ s.k \in 1 .. Len(ActionsOf[s.of]) /\ Len(builds) \in Nat /\ BoundsOK
  BY <1>1, UnderWay
<1>3. /\ ClosedOK /\ CopyOK(s) /\ CurrentOK(s) /\ InstancesOK(s)
      /\ stored' = stored /\ builds' = builds /\ scenario' = scenario
      /\ instances' = instances /\ links' = links /\ deaths' = deaths
  BY DEF AloneInv, FindBuild
<1>4. /\ b \in (1 .. Len(builds)) \cup {NoBuild} /\ NoBuild \notin Nat
      /\ b # NoBuild => b \in Current
  BY <1>2, FoundBuildFacts, AbsentIsNoId
<1>5. Current \subseteq {Len(builds)}
  <2>1. ASSUME NEW c \in Current PROVE c = Len(builds)
    <3>1. c \in 1 .. Len(builds) /\ ~builds[c].replaced
      BY DEF Current
    <3>2. c \notin 1 .. (Len(builds) - 1)
      BY <1>3, <3>1 DEF CurrentOK
    <3> QED
      BY <1>2, <3>1, <3>2
  <2> QED
    BY <2>1
<1>6. b = NoBuild => \A c \in 1 .. Len(builds) : builds[c].replaced
  <2>1. \A c, d \in Current : c = d
    BY <1>5
  <2>2. b = NoBuild => Current = {}
    BY <1>2, <2>1, FoundBuildFacts
  <2>3. \A c \in 1 .. Len(builds) : builds[c].replaced \in BOOLEAN
    BY BuildFacts DEF TypeInv
  <2> QED
    BY <2>2, <2>3 DEF Current
<1>7. PICK t : /\ finalizer' = [finalizer EXCEPT ![f] = t]
               /\ \/ /\ t = [s EXCEPT !.pc = pc, !.build = b, !.read = read]
                     /\ a.does = "package-build" \/ b # NoBuild
                  \/ /\ t = AfterAction(s)
                     /\ ~(a.release /\ (a.does = "package-build" \/ b # NoBuild))
  BY <1>1 DEF FindBuild
<1>8. CASE /\ t = [s EXCEPT !.pc = pc, !.build = b, !.read = read]
           /\ a.does = "package-build" \/ b # NoBuild
  <2>1. /\ pc \in {"replaceBuild", "addBuild", "setRef"}
        /\ pc = "addBuild" => b = NoBuild
        /\ pc = "replaceBuild" => b # NoBuild
        /\ pc = "setRef" => a.does # "package-build"
    BY <1>1 DEF AfterFind
  <2>2. read \in Build \cup {<<>>} /\ pc \in Pc /\ b \in Ref
    BY <1>2, <1>4, <2>1, BuildFacts DEF TypeInv, Pc, Ref
  <2>3. /\ t \in FinalizerState /\ t.pc = pc /\ t.of = s.of /\ t.k = s.k /\ t.refs = s.refs
        /\ t.build = b
    <3>1. t = [s EXCEPT !.pc = pc, !.build = b, !.read = read]
      BY <1>8
    <3> QED
      BY <1>2, <2>2, <3>1 DEF FinalizerState
  <2>4. ClosedOK' /\ CopyOK(t)'
    BY <1>1, <1>2, <1>3, <2>1, <2>3, SameDocuments, CopyKept
  <2>5. InstancesOK(t)'
    BY <1>3, <2>1, <2>3, InstancesKept
  <2>6. CurrentOK(t)
    <3>1. pc = "addBuild" => \A c \in 1 .. Len(builds) : builds[c].replaced
      BY <1>6, <2>1
    <3>2. pc = "replaceBuild" => b = Len(builds)
      BY <1>4, <1>5, <2>1
    <3> QED
      BY <1>1, <1>3, <2>3, <3>1, <3>2 DEF CurrentOK
  <2>7. CurrentOK(t)'
    BY <1>3, <2>6 DEF CurrentOK
  <2> QED
    BY <1>7, <2>4, <2>5, <2>7, AloneNext
<1>9. CASE /\ t = AfterAction(s)
           /\ ~(a.release /\ (a.does = "package-build" \/ b # NoBuild))
  <2>1. s.k \notin Builds(s.of)
    BY <1>9 DEF Builds
  <2>2. /\ t \in FinalizerState /\ t.of = s.of /\ t.refs = s.refs
        /\ t.pc \in {"service", "close"}
        /\ t.pc = "service" => t.k = s.k + 1
        /\ t.pc = "close" => t.k = s.k /\ s.k = Len(ActionsOf[s.of])
    BY <1>2, <1>9, AfterActionFacts
  <2>3. ClosedOK' /\ CopyOK(t)'
    BY <1>1, <1>2, <1>3, <2>1, <2>2, SameDocuments, CopyKept
  <2>4. CurrentOK(t)'
    BY <1>1, <1>3, <2>2, SameDocuments, CurrentKept
  <2>5. InstancesOK(t)'
    BY <1>3, <2>2, InstancesKept
  <2> QED
    BY <1>7, <2>3, <2>4, <2>5, AloneNext
<1> QED
  BY <1>7, <1>8, <1>9

LEMMA AloneMark ==
  ASSUME TypeInv, NEW f \in Finalizers, AloneInv(f), MarkBuildAsReplaced(f)
  PROVE  AloneInv(f)'
<1> PICK s : s = finalizer[f]
  OBVIOUS
<1> PICK b : b = s.build
  OBVIOUS
<1> PICK t : t = [s EXCEPT !.pc = "addBuild", !.read = <<>>]
  OBVIOUS
<1>1. s.pc = "replaceBuild" /\ finalizer' = [finalizer EXCEPT ![f] = t]
  BY DEF MarkBuildAsReplaced, At
<1>2. /\ s \in FinalizerState /\ s.of \in Intentions /\ s.k \in 1 .. Len(ActionsOf[s.of])
      /\ Len(builds) \in Nat
  BY <1>1, UnderWay
<1>3. /\ ClosedOK /\ CopyOK(s) /\ CurrentOK(s) /\ InstancesOK(s)
      /\ stored' = FlushStored(f) /\ scenario' = scenario
      /\ instances' = instances /\ links' = links
  BY DEF AloneInv, MarkBuildAsReplaced
<1>4. t \in FinalizerState /\ t.pc = "addBuild" /\ t.of = s.of /\ t.k = s.k /\ t.refs = s.refs
  BY <1>2 DEF FinalizerState, Pc
<1>5. /\ b \in 1 .. Len(builds) /\ BuildsOK' /\ Len(builds') = Len(builds)
      /\ \A c \in 1 .. Len(builds) :
            /\ builds'[c].replaced = (IF c = b THEN TRUE ELSE builds[c].replaced)
            /\ builds'[c].intention = builds[c].intention
            /\ builds'[c].action = builds[c].action
  BY Marked
<1>6. IdentitiesKept
  <2>1. \A c \in 1 .. Len(builds) : /\ builds'[c].intention = builds[c].intention
                                   /\ builds'[c].action = builds[c].action
    BY <1>5
  <2>2. Len(builds') \in Nat /\ Len(builds) <= Len(builds')
    BY <1>2, <1>5
  <2> QED
    BY <1>2, <2>1, <2>2 DEF IdentitiesKept
<1>7. /\ StoredOK'
      /\ \A i \in Intentions : stored'[i].closed = stored[i].closed
                            /\ stored'[i].refs = stored[i].refs
  <2>1. s.refs = stored[s.of].refs
    BY <1>1, <1>3 DEF CopyOK
  <2> QED
    BY <1>1, <1>2, <1>3, <1>5, <2>1, Flushed
<1>8. ClosedOK' /\ CopyOK(t)'
  BY <1>1, <1>2, <1>3, <1>4, <1>6, <1>7, CopyKept
<1>9. CurrentOK(t)'
  <2>1. b = Len(builds) /\ \A c \in 1 .. (Len(builds) - 1) : builds[c].replaced
    BY <1>1, <1>3 DEF CurrentOK
  <2>2. \A c \in 1 .. Len(builds') : builds'[c].replaced
    <3>1. ASSUME NEW c \in 1 .. Len(builds) PROVE builds'[c].replaced
      <4>1. c = b \/ c \in 1 .. (Len(builds) - 1)
        BY <1>2, <2>1
      <4> QED
        BY <1>5, <2>1, <4>1
    <3> QED
      BY <1>5, <3>1
  <2> QED
    BY <1>2, <1>4, <1>5, <2>2 DEF CurrentOK
<1>10. InstancesOK(t)'
  BY <1>3, <1>4, InstancesKept
<1> QED
  BY <1>1, <1>8, <1>9, <1>10, AloneNext

LEMMA AloneAddBuild ==
  ASSUME TypeInv, NEW f \in Finalizers, AloneInv(f), AddBuild(f)
  PROVE  AloneInv(f)'
<1> PICK s : s = finalizer[f]
  OBVIOUS
<1> PICK m : m = Len(builds')
  OBVIOUS
<1> PICK t : t = [s EXCEPT !.pc = "setRef", !.build = m]
  OBVIOUS
<1>1. s.pc = "addBuild" /\ finalizer' = [finalizer EXCEPT ![f] = t]
  BY DEF AddBuild, At
<1>2. /\ s \in FinalizerState /\ s.of \in Intentions /\ s.k \in 1 .. Len(ActionsOf[s.of])
      /\ Len(builds) \in Nat
  BY <1>1, UnderWay
<1>3. /\ ClosedOK /\ CopyOK(s) /\ CurrentOK(s) /\ InstancesOK(s)
      /\ stored' = FlushStored(f) /\ scenario' = scenario
      /\ instances' = instances /\ links' = links
  BY DEF AloneInv, AddBuild
<1>4. /\ m = Len(builds) + 1
      /\ \A c \in 1 .. Len(builds) : builds'[c] = builds[c]
      /\ builds'[m].intention = s.of /\ builds'[m].action = s.k /\ builds'[m].replaced = FALSE
      /\ m \in Nat /\ Len(builds') = m
  <2>1. /\ Len(builds') = Len(builds) + 1
        /\ \A c \in 1 .. Len(builds) : builds'[c] = builds[c]
        /\ builds'[Len(builds')].intention = s.of
        /\ builds'[Len(builds')].action = s.k
        /\ builds'[Len(builds')].replaced = FALSE
    BY Added
  <2> QED
    BY <1>2, <2>1
<1>5. /\ t \in FinalizerState /\ t.pc = "setRef" /\ t.of = s.of /\ t.k = s.k
      /\ t.refs = s.refs /\ t.build = m
  BY <1>2, <1>4 DEF FinalizerState, Pc, Ref
<1>6. IdentitiesKept
  BY <1>2, <1>4 DEF IdentitiesKept
<1>7. /\ StoredOK'
      /\ \A i \in Intentions : stored'[i].closed = stored[i].closed
                            /\ stored'[i].refs = stored[i].refs
  <2>1. s.refs = stored[s.of].refs
    BY <1>1, <1>3 DEF CopyOK
  <2>2. Len(builds') \in Nat /\ Len(builds) <= Len(builds')
    BY <1>2, <1>4
  <2> QED
    BY <1>1, <1>3, <2>1, <2>2, Flushed
<1>8. ClosedOK' /\ CopyOK(t)'
  <2>1. Registered(s.of, s.k, t.build)'
    BY <1>2, <1>4, <1>5 DEF Registered
  <2> QED
    BY <1>1, <1>2, <1>3, <1>5, <1>6, <1>7, <2>1, CopyKept
<1>9. CurrentOK(t)'
  <2>1. \A c \in 1 .. Len(builds) : builds[c].replaced
    BY <1>1, <1>3 DEF CurrentOK
  <2>2. \A c \in 1 .. (Len(builds') - 1) : builds'[c].replaced
    BY <1>2, <1>4, <2>1
  <2>3. ~builds'[Len(builds')].replaced
    BY <1>4
  <2> QED
    BY <1>5, <2>2, <2>3 DEF CurrentOK
<1>10. InstancesOK(t)'
  BY <1>3, <1>5, InstancesKept
<1> QED
  BY <1>1, <1>8, <1>9, <1>10, AloneNext

LEMMA AloneSetRef ==
  ASSUME TypeInv, NEW f \in Finalizers, AloneInv(f), SetActionPackageBuildRef(f)
  PROVE  AloneInv(f)'
<1> PICK s : s = finalizer[f]
  OBVIOUS
<1> PICK c : c = RefOnCopy(s)
  OBVIOUS
<1>1. s.pc = "setRef"
  BY DEF SetActionPackageBuildRef, At
<1>2. /\ s \in FinalizerState /\ StateOK(s) /\ s.of \in Intentions
      /\ s.k \in 1 .. Len(ActionsOf[s.of]) /\ s.refs \in RefsOf(s.of) /\ BoundsOK
  BY <1>1, UnderWay
<1>3. /\ ClosedOK /\ CopyOK(s) /\ CurrentOK(s) /\ InstancesOK(s)
      /\ builds' = builds /\ scenario' = scenario
      /\ instances' = instances /\ links' = links /\ deaths' = deaths
  BY DEF AloneInv, SetActionPackageBuildRef
<1>4. /\ c.refs \in RefsOf(s.of) /\ c.refs[s.k] = s.build
      /\ \A j \in 1 .. Len(ActionsOf[s.of]) : j # s.k => c.refs[j] = s.refs[j]
  BY CopiedRef
<1>5. /\ StoredOK'
      /\ \A i \in Intentions : /\ stored'[i].closed = stored[i].closed
                               /\ i # s.of => stored'[i].refs = stored[i].refs
      /\ stored'[s.of].refs[s.k] = s.build
      /\ \A j \in 1 .. Len(ActionsOf[s.of]) :
            j # s.k => stored'[s.of].refs[j] = stored[s.of].refs[j]
  BY RefStored
<1>6. PICK t \in FinalizerState :
            /\ finalizer' = [finalizer EXCEPT ![f] = t]
            /\ t.of = s.of /\ t.refs = c.refs
            /\ \/ /\ t.pc = "pushInstall" /\ t.k = s.k
                  /\ ActionsOf[s.of][s.k].does = "package-installation"
               \/ t.pc = "service" /\ t.k = s.k + 1
               \/ t.pc = "close" /\ t.k = s.k /\ s.k = Len(ActionsOf[s.of])
  BY AfterSetRef
<1>7. /\ ~stored[s.of].closed /\ s.refs = stored[s.of].refs
      /\ \A k \in PassedBy(s) : Registered(s.of, k, s.refs[k])
      /\ ActionsOf[s.of][s.k].does = "package-build" => Registered(s.of, s.k, s.build)
  BY <1>1, <1>3 DEF CopyOK
<1>8. c.refs = stored'[s.of].refs
  <2> PICK q : q = c.refs
    OBVIOUS
  <2> PICK r : r = stored'[s.of].refs
    OBVIOUS
  <2>1. r \in RefsOf(s.of)
    BY <1>2, <1>3, <1>5 DEF StoredOK, RefsOf, ActionsOf
  <2>2. \A j \in 1 .. Len(ActionsOf[s.of]) : q[j] = r[j]
    BY <1>4, <1>5, <1>7
  <2>3. q \in RefsOf(s.of)
    BY <1>4
  <2>4. q = r
    BY <2>1, <2>2, <2>3 DEF RefsOf
  <2> QED
    BY <2>4
<1>9. \A i : Builds(i)' = Builds(i)
  BY <1>3 DEF Builds, ActionsOf
<1>10. ClosedOK'
  <2>1. \A i \in Intentions : stored'[i].closed =>
           stored[i].closed /\ stored'[i].refs = stored[i].refs
    BY <1>5, <1>7
  <2>2. \A i \in Intentions : stored[i].closed =>
           \A k \in Builds(i) : Registered(i, k, stored[i].refs[k])
    BY <1>3 DEF ClosedOK
  <2> QED
    BY <1>3, <1>9, <2>1, <2>2, SMTT(30) DEF ClosedOK, Registered
<1>11. CopyOK(t)'
  <2>1. ASSUME NEW k \in PassedBy(t)' PROVE Registered(s.of, k, c.refs[k])
    <3>1. k \in Builds(s.of) /\ (k < t.k \/ t.pc = "close")
      BY <1>6, <1>9 DEF PassedBy
    <3>2. k \in 1 .. Len(ActionsOf[s.of]) /\ ActionsOf[s.of][k].does = "package-build"
      BY <3>1 DEF Builds
    <3>3. CASE k = s.k
      BY <1>4, <1>7, <3>2, <3>3
    <3>4. CASE k # s.k
      <4>1. Len(ActionsOf[s.of]) \in Nat /\ s.k \in Nat /\ k \in Nat /\ k <= Len(ActionsOf[s.of])
        BY <1>2, <3>2, ScenarioFacts
      <4>2. k < s.k
        BY <1>6, <3>1, <3>4, <4>1
      <4>3. Registered(s.of, k, s.refs[k])
        BY <1>7, <3>1, <4>2 DEF PassedBy
      <4> QED
        BY <1>4, <3>2, <3>4, <4>3
    <3> QED
      BY <3>3, <3>4
  <2>2. \A k \in PassedBy(t)' : Registered(t.of, k, t.refs[k])'
    BY <1>3, <1>6, <2>1 DEF Registered
  <2>3. ~stored'[t.of].closed /\ t.refs = stored'[t.of].refs
    BY <1>2, <1>5, <1>6, <1>7, <1>8
  <2> QED
    BY <1>6, <2>2, <2>3 DEF CopyOK
<1>12. CurrentOK(t)'
  <2>1. /\ BuildsOK /\ BuildsOK' /\ Len(builds') = Len(builds)
        /\ \A j \in 1 .. Len(builds) : builds'[j].replaced = builds[j].replaced
    BY <1>3, BuildsKept DEF TypeInv
  <2> QED
    BY <1>1, <1>3, <1>6, <2>1, CurrentKept
<1>13. InstancesOK(t)'
  BY <1>3, <1>6, InstancesKept
<1> QED
  BY <1>6, <1>10, <1>11, <1>12, <1>13, AloneNext

LEMMA AlonePush ==
  ASSUME TypeInv, NEW f \in Finalizers, AloneInv(f), AddInstallActionToBuild(f)
  PROVE  AloneInv(f)'
<1> PICK s : s = finalizer[f]
  OBVIOUS
<1> PICK t : t = AfterAction(s)
  OBVIOUS
<1>1. s.pc = "pushInstall" /\ finalizer' = [finalizer EXCEPT ![f] = t]
  BY DEF AddInstallActionToBuild, At
<1>2. /\ s \in FinalizerState /\ s.of \in Intentions /\ s.k \in 1 .. Len(ActionsOf[s.of])
      /\ Len(builds) \in Nat /\ BoundsOK
      /\ ActionsOf[s.of][s.k].does = "package-installation"
  BY <1>1, UnderWay DEF StateOK
<1>3. /\ ClosedOK /\ CopyOK(s) /\ CurrentOK(s) /\ InstancesOK(s)
      /\ stored' = stored /\ scenario' = scenario
      /\ instances' = instances /\ links' = links /\ deaths' = deaths
  BY DEF AloneInv, AddInstallActionToBuild
<1>4. /\ BuildsOK /\ BuildsOK' /\ Len(builds') = Len(builds)
      /\ \A c \in 1 .. Len(builds) : /\ builds'[c].replaced = builds[c].replaced
                                     /\ builds'[c].intention = builds[c].intention
                                     /\ builds'[c].action = builds[c].action
  BY Installed DEF TypeInv
<1>5. /\ t \in FinalizerState /\ t.of = s.of /\ t.refs = s.refs
      /\ t.pc \in {"service", "close"}
      /\ t.pc = "service" => t.k = s.k + 1
      /\ t.pc = "close" => t.k = s.k /\ s.k = Len(ActionsOf[s.of])
  BY <1>2, AfterActionFacts
<1>6. s.k \notin Builds(s.of)
  BY <1>2 DEF Builds
<1>7. ClosedOK' /\ CopyOK(t)'
  <2>1. IdentitiesKept
    BY <1>2, <1>4 DEF IdentitiesKept
  <2>2. StoredOK'
    BY <1>2, <1>3, <1>4, StoredKept DEF TypeInv
  <2> QED
    BY <1>1, <1>2, <1>3, <1>5, <1>6, <2>1, <2>2, CopyKept
<1>8. CurrentOK(t)'
  BY <1>1, <1>3, <1>4, <1>5, CurrentKept
<1>9. InstancesOK(t)'
  BY <1>3, <1>5, InstancesKept
<1> QED
  BY <1>1, <1>7, <1>8, <1>9, AloneNext

LEMMA AloneClose ==
  ASSUME TypeInv, NEW f \in Finalizers, AloneInv(f), CloseIntention(f)
  PROVE  AloneInv(f)'
<1> PICK s : s = finalizer[f]
  OBVIOUS
<1>1. s.pc = "close" /\ finalizer' = [finalizer EXCEPT ![f] = Idle]
  BY DEF CloseIntention, At
<1>2. s.of \in Intentions
  BY <1>1, UnderWay
<1>3. /\ ClosedOK /\ CopyOK(s) /\ CurrentOK(s) /\ InstancesOK(s)
      /\ builds' = builds /\ scenario' = scenario
      /\ instances' = instances /\ links' = links /\ deaths' = deaths
  BY DEF AloneInv, CloseIntention
<1>4. /\ \A i \in Intentions : i # s.of => stored'[i] = stored[i]
      /\ stored'[s.of].refs \in {s.refs, stored[s.of].refs}
  BY ClosedStored
<1>5. /\ s.refs = stored[s.of].refs
      /\ \A k \in Builds(s.of) : Registered(s.of, k, s.refs[k])
  BY <1>1, <1>3 DEF CopyOK, PassedBy
<1>6. ClosedOK'
  <2>1. ASSUME NEW i \in Intentions, stored'[i].closed, NEW k \in Builds(i)
        PROVE  \E b : b = stored'[i].refs[k] /\ Registered(i, k, b)
    <3>1. CASE i = s.of
      BY <1>4, <1>5, <3>1
    <3>2. CASE i # s.of
      BY <1>3, <1>4, <2>1, <3>2 DEF ClosedOK
    <3> QED
      BY <3>1, <3>2
  <2>2. \A i : Builds(i)' = Builds(i)
    BY <1>3 DEF Builds, ActionsOf
  <2> QED
    BY <1>3, <2>1, <2>2 DEF ClosedOK, Registered
<1>7. CopyOK(Idle)'
  BY IdleFacts DEF CopyOK
<1>8. CurrentOK(Idle)'
  <2>1. /\ BuildsOK /\ BuildsOK' /\ Len(builds') = Len(builds)
        /\ \A j \in 1 .. Len(builds) : builds'[j].replaced = builds[j].replaced
    BY <1>3, BuildsKept DEF TypeInv
  <2> QED
    BY <1>1, <1>3, <2>1, IdleFacts, CurrentKept
<1>9. InstancesOK(Idle)'
  BY <1>3, IdleFacts, InstancesKept
<1> QED
  BY <1>1, <1>6, <1>7, <1>8, <1>9, AloneNext

LEMMA AloneAbandon ==
  ASSUME TypeInv, NEW f \in Finalizers, AloneInv(f), Abandon(f)
  PROVE  AloneInv(f)'
<1> PICK s : s = finalizer[f]
  OBVIOUS
<1>1. /\ finalizer' = [finalizer EXCEPT ![f] = Idle]
      /\ builds' = builds /\ scenario' = scenario /\ stored' = stored
      /\ instances' = instances /\ links' = links /\ deaths' = deaths + 1
  BY DEF Abandon
<1>2. ClosedOK /\ CurrentOK(s) /\ InstancesOK(s)
  BY DEF AloneInv
<1>3. ClosedOK'
  BY <1>1, <1>2 DEF ClosedOK, Registered, Builds, ActionsOf
<1>4. CopyOK(Idle)'
  BY IdleFacts DEF CopyOK
<1>5. CurrentOK(Idle)'
  <2>1. /\ BuildsOK /\ BuildsOK' /\ Len(builds') = Len(builds)
        /\ \A j \in 1 .. Len(builds) : builds'[j].replaced = builds[j].replaced
    BY <1>1, BuildsKept DEF TypeInv
  <2>2. deaths' # 0
    BY <1>1, ScenarioFacts DEF TypeInv, BoundsOK
  <2> QED
    BY <1>2, <2>1, <2>2, IdleFacts, CurrentKept
<1>6. InstancesOK(Idle)'
  BY <1>1, <1>2, IdleFacts, InstancesKept
<1> QED
  BY <1>1, <1>3, <1>4, <1>5, <1>6, AloneNext

LEMMA AloneRunFloating ==
  ASSUME TypeInv, NEW f \in Finalizers, AloneInv(f), NEW t \in floating, RunFloating(t)
  PROVE  AloneInv(f)'
<1>1. /\ finalizer' = finalizer /\ builds' = builds /\ scenario' = scenario
      /\ stored' = stored /\ instances' = instances /\ deaths' = deaths
  BY DEF RunFloating
<1>2. \A n : Linked(n) \in links' <=> Linked(n) \in links
  <2>1. t.edge[1] # "instance"
    BY DEF TypeInv, GraphOK, NotWaitedFor
  <2>2. \A n : Linked(n) # t.edge /\ Linked(n) # <<"installation", FoundInstance, "server">>
    BY <2>1 DEF Linked
  <2>3. \A e \in links' : e \in links \/ e = t.edge \/ e = <<"installation", FoundInstance, "server">>
    BY DEF RunFloating
  <2>4. links \subseteq links'
    BY DEF RunFloating
  <2> QED
    BY <2>2, <2>3, <2>4
<1>3. InstancesOK(finalizer[f])'
  BY <1>1, <1>2 DEF AloneInv, InstancesOK
<1>4. ClosedOK' /\ CopyOK(finalizer[f])' /\ CurrentOK(finalizer[f])'
  BY <1>1 DEF AloneInv, ClosedOK, CopyOK, CurrentOK, Registered, PassedBy, Builds, ActionsOf
<1> QED
  BY <1>3, <1>4 DEF AloneInv

LEMMA AloneApprove ==
  ASSUME TypeInv, NEW f \in Finalizers, AloneInv(f), NEW b \in 1 .. Len(builds), ApprovePackage(b)
  PROVE  AloneInv(f)'
<1> PICK s : s = finalizer[f]
  OBVIOUS
<1>1. /\ finalizer' = finalizer /\ scenario' = scenario /\ stored' = stored
      /\ instances' = instances /\ deaths' = deaths /\ links' = links
  BY DEF ApprovePackage
<1>2. /\ BuildsOK /\ BuildsOK' /\ Len(builds') = Len(builds) /\ Len(builds) \in Nat
      /\ \A c \in 1 .. Len(builds) : /\ builds'[c].replaced = builds[c].replaced
                                     /\ builds'[c].intention = builds[c].intention
                                     /\ builds'[c].action = builds[c].action
  BY Approved, BuildFacts DEF TypeInv
<1>3. ClosedOK /\ CopyOK(s) /\ CurrentOK(s) /\ InstancesOK(s)
  BY DEF AloneInv
<1>4. \A i, k, c : Registered(i, k, c)' <=> Registered(i, k, c)
  BY <1>2 DEF Registered
<1>5. \A i : Builds(i)' = Builds(i)
  BY <1>1 DEF Builds, ActionsOf
<1>6. ClosedOK'
  BY <1>1, <1>2, <1>3, <1>5 DEF ClosedOK, Registered
<1>7. CopyOK(s)'
  BY <1>1, <1>3, <1>4, <1>5 DEF CopyOK, PassedBy, ActionsOf
<1>8. CurrentOK(s)'
  <2>1. builds # <<>> <=> Len(builds) > 0
    BY <1>2 DEF BuildsOK
  <2>2. builds' # <<>> <=> Len(builds') > 0
    BY <1>2 DEF BuildsOK
  <2>3. builds' # <<>> => builds # <<>> /\ builds'[Len(builds)].replaced = builds[Len(builds)].replaced
    BY <1>2, <2>1, <2>2
  <2> QED
    BY <1>1, <1>2, <1>3, <2>3 DEF CurrentOK
<1>9. InstancesOK(s)'
  BY <1>1, <1>3 DEF InstancesOK
<1>10. finalizer'[f] = s
  BY <1>1
<1> QED
  BY <1>6, <1>7, <1>8, <1>9, <1>10 DEF AloneInv, CopyOK, CurrentOK, InstancesOK, PassedBy

LEMMA AloneInit == SyncInit => SerialInv
<1> SUFFICES ASSUME SyncInit, NEW f \in Finalizers PROVE AloneInv(f)
  BY DEF SerialInv
<1>1. finalizer[f] = Idle /\ builds = <<>> /\ links = {} /\ \A i \in Intentions : ~stored[i].closed
  BY DEF SyncInit
<1>2. ClosedOK /\ CopyOK(Idle) /\ InstancesOK(Idle)
  BY <1>1, IdleFacts DEF ClosedOK, CopyOK, InstancesOK
<1>3. CurrentOK(Idle)
  BY <1>1, IdleFacts DEF CurrentOK
<1> QED
  BY <1>1, <1>2, <1>3 DEF AloneInv

LEMMA AloneStep ==
  ASSUME TypeInv, NEW f \in Finalizers, scenario.crew = {f}, AloneInv(f), SyncNext
  PROVE  AloneInv(f)'
<1>1. CASE FinalizerStep(f)
  BY <1>1, AloneSyncAction, AloneFindInstance, AloneAddInstance, AloneLinkInstance,
     AloneFindServer, AloneFindBuild, AloneMark, AloneAddBuild, AloneSetRef, AlonePush, AloneClose
     DEF FinalizerStep
<1>2. CASE Abandon(f)
  BY <1>2, AloneAbandon
<1>3. ASSUME NEW i \in Intentions, BeginClose(f, i) PROVE AloneInv(f)'
  BY <1>3, AloneBeginClose
<1>4. ASSUME NEW t \in floating, RunFloating(t) PROVE AloneInv(f)'
  BY <1>4, AloneRunFloating
<1>5. ASSUME NEW b \in 1 .. Len(builds), ApprovePackage(b) PROVE AloneInv(f)'
  BY <1>5, AloneApprove
<1> QED
  BY <1>1, <1>2, <1>3, <1>4, <1>5 DEF SyncNext

LEMMA ScenarioIsFixed == SyncNext => scenario' = scenario
  BY DEF SyncNext, FinalizerStep, SyncAction, FindInstance, AddInstance, LinkInstance, FindServer,
         FindBuild, MarkBuildAsReplaced, AddBuild, SetActionPackageBuildRef,
         AddInstallActionToBuild, CloseIntention, Abandon, BeginClose, RunFloating, ApprovePackage

LEMMA SerialNext == TypeInv /\ SerialInv /\ [SyncNext]_syncVars => SerialInv'
<1> SUFFICES ASSUME TypeInv, SerialInv, [SyncNext]_syncVars PROVE SerialInv'
  OBVIOUS
<1>1. CASE SyncNext
  <2> SUFFICES ASSUME NEW f \in Finalizers, scenario'.crew = {f} PROVE AloneInv(f)'
    BY DEF SerialInv
  <2>1. scenario.crew = {f}
    BY <1>1, ScenarioIsFixed
  <2>2. AloneInv(f)
    BY <2>1 DEF SerialInv
  <2> QED
    BY <1>1, <2>1, <2>2, AloneStep
<1>2. CASE UNCHANGED syncVars
  BY <1>2 DEF syncVars, SerialInv, AloneInv, ClosedOK, CopyOK, CurrentOK, InstancesOK, Registered,
              PassedBy, Builds, ActionsOf
<1> QED
  BY <1>1, <1>2

LEMMA IInvHolds == SyncSpec => []IInv
<1>1. SyncInit => IInv
  BY TypeInit, AloneInit DEF IInv
<1>2. IInv /\ [SyncNext]_syncVars => IInv'
  BY TypeNext, SerialNext DEF IInv
<1> QED
  BY <1>1, <1>2, PTL DEF SyncSpec

(* Closes one after the other leave at most one current build of a version, *)
(* the last one if nothing failed: getServiceBuildByVersion finds it        *)
(* (build-mongo.repository.ts).                                             *)
THEOREM OneBuildIsCurrent == SyncSpec => []OneCurrentBuild
<1>1. IInv => OneCurrentBuild
  <2> SUFFICES ASSUME IInv, NEW f \in Finalizers, scenario.crew = {f}
               PROVE  /\ Cardinality(Current) <= 1
                      /\ deaths = 0 /\ builds # <<>> /\ At(f, "idle") => Current = {Len(builds)}
    BY DEF OneCurrentBuild, Serial
  <2>1. CurrentOK(finalizer[f]) /\ BuildsOK
    BY DEF IInv, SerialInv, AloneInv, TypeInv
  <2>2. Len(builds) \in Nat /\ (builds # <<>> => Len(builds) > 0)
    BY <2>1 DEF BuildsOK
  <2>3. Current \subseteq {Len(builds)}
    BY <2>1, <2>2 DEF CurrentOK, Current
  <2>4. Cardinality(Current) <= 1
    <3>1. IsFiniteSet({Len(builds)}) /\ Cardinality({Len(builds)}) = 1
      BY FS_Singleton
    <3>2. Current \in SUBSET {Len(builds)}
      BY <2>3
    <3> QED
      BY <3>1, <3>2, FS_Subset
  <2>5. ASSUME deaths = 0, builds # <<>>, At(f, "idle") PROVE Current = {Len(builds)}
    <3>1. ~builds[Len(builds)].replaced /\ Len(builds) \in 1 .. Len(builds)
      BY <2>1, <2>2, <2>5 DEF CurrentOK, At
    <3> QED
      BY <2>3, <3>1 DEF Current
  <2> QED
    BY <2>4, <2>5
<1> QED
  BY <1>1, IInvHolds, PTL

(* Every build action of an intention closed by closes that do not overlap  *)
(* refers to the build that was added for it, whatever died meanwhile       *)
(* (intention-sync.service.ts).                                             *)
THEOREM ReferencesAreRight == SyncSpec => []ClosedRefersToBuild
<1>1. IInv => ClosedRefersToBuild
  <2> SUFFICES ASSUME IInv, NEW f \in Finalizers, scenario.crew = {f},
                      NEW i \in Intentions, stored[i].closed, NEW k \in Builds(i),
                      NEW b, b = stored[i].refs[k]
               PROVE  b # NoBuild /\ builds[b].intention = i /\ builds[b].action = k
    BY DEF ClosedRefersToBuild, Serial
  <2>1. Registered(i, k, b)
    BY DEF IInv, SerialInv, AloneInv, ClosedOK
  <2> QED
    BY <2>1, AbsentIsNoId DEF Registered
<1> QED
  BY <1>1, IInvHolds, PTL

(* Closes one after the other link one instance of a name to the service,   *)
(* also after one died between adding a vertex and linking it               *)
(* (intention-sync.service.ts).                                             *)
THEOREM InstanceIsUnique == SyncSpec => []OneInstance
<1>1. IInv => OneInstance
  <2> SUFFICES ASSUME IInv, NEW f \in Finalizers, scenario.crew = {f}
               PROVE  Cardinality({n \in 1..instances : Linked(n) \in links}) <= 1
    BY DEF OneInstance, Serial
  <2> DEFINE linked == {n \in 1..instances : Linked(n) \in links}
  <2>1. \A m, n \in linked : m = n
    BY DEF IInv, SerialInv, AloneInv, InstancesOK
  <2>2. CASE linked = {}
    BY <2>2, FS_EmptySet
  <2>3. ASSUME NEW n \in linked PROVE Cardinality(linked) <= 1
    <3>1. linked = {n}
      BY <2>1
    <3>2. Cardinality({n}) = 1
      BY FS_Singleton
    <3> QED
      BY <3>1, <3>2
  <2> QED
    BY <2>2, <2>3
<1> QED
  BY <1>1, IInvHolds, PTL
=============================================================================
