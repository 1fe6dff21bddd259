------------------------------ MODULE IntentionSync ------------------------------
(***************************************************************************)
(* What closing an intention with outcome success writes into the graph     *)
(* and the package builds (graph/sync/intention-sync.service.ts,            *)
(* build-mongo.repository.ts).  A finalizer walks the actions of its copy   *)
(* of the intention; between two calls to MongoDB other finalizers, of the  *)
(* same or of another intention, approvals and links it did not wait for    *)
(* run.  A finalizer may die or throw at any step, and the client closes    *)
(* again.  One service, one version of one package, one instance name.      *)
(***************************************************************************)
EXTENDS Integers, Sequences, FiniteSets, SequencesExt

CONSTANTS
    Intentions,        \* open intentions that are going to be closed
    Finalizers,        \* requests that close an intention
    Scenarios,         \* what the behaviours start from, see Scenario
    MaxEmbedded,       \* COLLECTION_MAX_EMBEDDED
    MaxApprovals,      \* bound of the approvals of a build
    MaxApproved,       \* bound of the builds that are approved
    NoBuild, NoInstance, NoIntention

Action == [does : {"package-build", "package-installation", "other"}, release : BOOLEAN]

(* The finalizers that run (one after the other if there is one), the       *)
(* actions of each intention, the vertices that exist, whether a broker     *)
(* account opened the intentions, and bounds of the two counters.           *)
Scenario == [crew : SUBSET Finalizers, actions : [Intentions -> Seq(Action)],
             start : SUBSET {"project", "service", "server"}, account : BOOLEAN,
             deaths : Nat, closes : Nat]

ASSUME ScenariosAreScenarios ==
    \A s \in Scenarios : s \in Scenario /\ \A i \in Intentions : s.actions[i] # <<>>
ASSUME SyncBounds ==
    MaxEmbedded \in Nat \ {0} /\ MaxApprovals \in Nat /\ MaxApproved \in Nat
ASSUME AbsentIsNoId == NoBuild \notin Nat /\ NoInstance \notin Nat /\ NoIntention \notin Intentions

VARIABLES
    scenario,          \* fixed
    builds,            \* PackageBuildEntity documents, in the order they were added
    stored,            \* the intention documents: closed, and package.id of each action
    vertices, instances, links, \* the graph
    finalizer,         \* what each finalizer has in memory
    floating,          \* calls nobody waits for
    deaths, closes     \* counters

syncVars == <<scenario, builds, stored, vertices, instances, links, finalizer,
              floating, deaths, closes>>

Pc == {"idle", "service", "findInstance", "addInstance", "linkInstance", "findServer",
       "findBuild", "replaceBuild", "addBuild", "setRef", "pushInstall", "close"}

ActionsOf == scenario.actions

Serial == \E f \in Finalizers : scenario.crew = {f}

Idle == [pc |-> "idle", of |-> NoIntention, k |-> 1, instance |-> NoInstance,
         build |-> NoBuild, read |-> <<>>, refs |-> <<>>, dirty |-> FALSE]

Linked(n) == <<"instance", "service", n>>

SyncTypeOK ==
    /\ scenario \in Scenarios
    /\ \A b \in 1..Len(builds) :
          /\ builds[b].intention \in Intentions /\ builds[b].replaced \in BOOLEAN
          /\ Len(builds[b].installed) <= MaxEmbedded /\ builds[b].approvals \in 0..MaxApprovals
    /\ \A i \in Intentions :
          /\ stored[i].closed \in BOOLEAN
          /\ stored[i].refs \in [1..Len(ActionsOf[i]) -> (1..Len(builds)) \cup {NoBuild}]
    /\ vertices \subseteq {"project", "service", "server"}
    /\ \A e \in links : e[1] \in {"component", "authorized", "instance", "deploy-type",
                                   "installation"}
    /\ instances \in Nat
    /\ \A f \in Finalizers : finalizer[f].pc \in Pc
    /\ \A t \in floating : t.by \in Finalizers
    /\ deaths \in 0..scenario.deaths /\ closes \in 0..scenario.closes

SyncInit ==
    /\ scenario \in Scenarios
    /\ builds = <<>>
    /\ stored = [i \in Intentions |->
                   [closed |-> FALSE, refs |-> [k \in 1..Len(ActionsOf[i]) |-> NoBuild]]]
    /\ vertices = scenario.start
    /\ instances = 0
    /\ links = {}
    /\ finalizer = [f \in Finalizers |-> Idle]
    /\ floating = {}
    /\ deaths = 0 /\ closes = 0

-----------------------------------------------------------------------------
(* Steps of a finalizer *)

At(f, pc) == finalizer[f].pc = pc

CurrentAction(f) == ActionsOf[finalizer[f].of][finalizer[f].k]

Goto(f, pc) == finalizer' = [finalizer EXCEPT ![f].pc = pc]

(* The loop over intention.actions. *)
AfterAction(s) ==
    IF s.k < Len(ActionsOf[s.of])
      THEN [s EXCEPT !.k = @ + 1, !.pc = "service", !.instance = NoInstance, !.build = NoBuild]
      ELSE [s EXCEPT !.pc = "close", !.instance = NoInstance, !.build = NoBuild]

(* A flush of the unit of work writes the whole actions array of the copy   *)
(* when the copy differs from what was read.                                *)
FlushStored(f) ==
    IF finalizer[f].dirty THEN [stored EXCEPT ![finalizer[f].of].refs = finalizer[f].refs]
                          ELSE stored

BeginClose(f, i) ==
    /\ At(f, "idle") /\ closes < scenario.closes
    /\ ~stored[i].closed
    /\ finalizer' = [finalizer EXCEPT ![f] =
                       [Idle EXCEPT !.pc = "service", !.of = i, !.refs = stored[i].refs]]
    /\ closes' = closes + 1
    /\ UNCHANGED <<scenario, builds, stored, vertices, instances, links, floating,
                   deaths>>

(* A call for an edge that is already there finds nothing to change. *)
Float(f, new) == floating' = floating \cup {[by |-> f, edge |-> e] : e \in new \ links}

Component == <<"component", "project", "service">>

(* An account that is not authorized through the service is by the project. *)
AccountEdges ==
    IF scenario.account /\ <<"authorized", "account", "service">> \notin links
      THEN {<<"authorized", "account", "project">>} ELSE {}

(* sync(): upsert project and service; their links are not waited for. *)
SyncAction(f) ==
    LET does == CurrentAction(f).does IN
    /\ At(f, "service")
    /\ vertices' = vertices \cup {"project", "service"}
    /\ Float(f, {Component} \cup AccountEdges)
    /\ finalizer' = [finalizer EXCEPT ![f] =
                       CASE does = "package-installation" -> [@ EXCEPT !.pc = "findInstance"]
                         [] does = "package-build" -> [@ EXCEPT !.pc = "findBuild"]
                         [] OTHER -> AfterAction(@)]
    /\ UNCHANGED <<scenario, builds, stored, instances, links, deaths, closes>>

(* getVertexByParentIdAndName: nothing unless exactly one edge leads there. *)
FoundInstance ==
    LET found == {n \in 1..instances : Linked(n) \in links} IN
    IF Cardinality(found) = 1 THEN CHOOSE n \in found : TRUE ELSE NoInstance

FindInstance(f) ==
    /\ At(f, "findInstance")
    /\ finalizer' = [finalizer EXCEPT ![f].instance = FoundInstance,
                       ![f].pc = IF FoundInstance = NoInstance THEN "addInstance"
                                                                ELSE "linkInstance"]
    /\ UNCHANGED <<scenario, builds, stored, vertices, instances, links, floating,
                   deaths, closes>>

AddInstance(f) ==
    /\ At(f, "addInstance")
    /\ instances' = instances + 1
    /\ finalizer' = [finalizer EXCEPT ![f].instance = instances', ![f].pc = "linkInstance"]
    /\ stored' = FlushStored(f)
    /\ UNCHANGED <<scenario, builds, vertices, links, floating, deaths, closes>>

LinkLater(f, e) == links' = links /\ Float(f, {e, <<"deploy-type", e[3], "environment">>})

LinkOnly(f, e) == links' = links \cup {e} /\ Float(f, {})

(* The edge of the instance is waited for, the edge to the environment not. *)
Link(f, e) == links' = links \cup {e} /\ Float(f, {<<"deploy-type", e[3], "environment">>})

LinkInstance(f) ==
    /\ At(f, "linkInstance")
    /\ Link(f, Linked(finalizer[f].instance))
    /\ Goto(f, "findServer")
    /\ UNCHANGED <<scenario, builds, stored, vertices, instances, deaths, closes>>

(* The instance an installation edge starts from is only looked up later. *)
ByName == 0

(* syncCloudInfrastructure() only finds a server that is registered, and    *)
(* syncInstallationProperties() is not waited for.                          *)
FindServer(f) ==
    /\ At(f, "findServer")
    /\ Float(f, IF "server" \in vertices THEN {<<"installation", ByName, "server">>} ELSE {})
    /\ Goto(f, "findBuild")
    /\ UNCHANGED <<scenario, builds, stored, vertices, instances, links, deaths,
                   closes>>

(* getServiceBuildByVersion: nothing unless exactly one is not replaced. *)
Current == {b \in 1..Len(builds) : ~builds[b].replaced}

FoundBuild == IF Cardinality(Current) = 1 THEN CHOOSE b \in Current : TRUE ELSE NoBuild

AddWithoutReplacing(f) ==
    IF CurrentAction(f).does = "package-build" THEN "addBuild" ELSE "setRef"

AfterFind(f) ==
    LET building == CurrentAction(f).does = "package-build" IN
    CASE building /\ FoundBuild # NoBuild -> "replaceBuild"
      [] building /\ FoundBuild = NoBuild -> "addBuild"
      [] OTHER -> "setRef"

(* syncPackageBuild(): a version that is no release is not recorded, and an *)
(* installation without a build only logs a warning.                        *)
FindBuild(f) ==
    LET recorded == /\ CurrentAction(f).release
                    /\ CurrentAction(f).does = "package-build" \/ FoundBuild # NoBuild IN
    /\ At(f, "findBuild")
    /\ finalizer' = [finalizer EXCEPT ![f] =
                       IF recorded
                         THEN [@ EXCEPT !.pc = AfterFind(f), !.build = FoundBuild,
                                 !.read = IF FoundBuild = NoBuild THEN <<>>
                                                                  ELSE builds[FoundBuild]]
                         ELSE AfterAction(@)]
    /\ UNCHANGED <<scenario, builds, stored, vertices, instances, links, floating,
                   deaths, closes>>

(* The flush writes the fields that changed, not the document as it was read. *)
WholeDocument(stale, now) == [stale EXCEPT !.replaced = TRUE]

Replaced(stale, now) == [now EXCEPT !.replaced = TRUE]

MarkBuildAsReplaced(f) ==
    /\ At(f, "replaceBuild")
    /\ builds' = [builds EXCEPT ![finalizer[f].build] = Replaced(finalizer[f].read, @)]
    /\ finalizer' = [finalizer EXCEPT ![f].pc = "addBuild", ![f].read = <<>>]
    /\ stored' = FlushStored(f)
    /\ UNCHANGED <<scenario, vertices, instances, links, floating, deaths, closes>>

AddBuild(f) ==
    /\ At(f, "addBuild")
    /\ builds' = Append(builds, [intention |-> finalizer[f].of, action |-> finalizer[f].k,
                                 replaced |-> FALSE, installed |-> <<>>, approvals |-> 0])
    /\ finalizer' = [finalizer EXCEPT ![f].pc = "setRef", ![f].build = Len(builds')]
    /\ stored' = FlushStored(f)
    /\ UNCHANGED <<scenario, vertices, instances, links, floating, deaths, closes>>

NativeOnly(s) == s

(* action.package.id is set on the copy as well, for the close writes it. *)
RefOnCopy(s) == [s EXCEPT !.refs[s.k] = s.build, !.dirty = TRUE]

SetActionPackageBuildRef(f) ==
    LET s == finalizer[f] IN
    /\ At(f, "setRef")
    /\ stored' = [stored EXCEPT ![s.of].refs[s.k] = s.build]
    /\ finalizer' = [finalizer EXCEPT ![f] =
                       IF CurrentAction(f).does = "package-installation"
                         THEN [RefOnCopy(@) EXCEPT !.pc = "pushInstall"]
                         ELSE AfterAction(RefOnCopy(@))]
    /\ UNCHANGED <<scenario, builds, vertices, instances, links, floating, deaths,
                   closes>>

LastOf(seq) == SubSeq(seq, Max({1, Len(seq) - MaxEmbedded + 1}), Len(seq))

(* $push with $slice: -COLLECTION_MAX_EMBEDDED. *)
AddInstallActionToBuild(f) ==
    LET s == finalizer[f] IN
    /\ At(f, "pushInstall")
    /\ builds' = [builds EXCEPT ![s.build].installed = LastOf(Append(@, <<s.of, s.k>>))]
    /\ finalizer' = [finalizer EXCEPT ![f] = AfterAction(@)]
    /\ UNCHANGED <<scenario, stored, vertices, instances, links, floating, deaths,
                   closes>>

(* The service's id is filled in where it was not known, then the intention *)
(* is closed and its copy flushed.                                          *)
CloseIntention(f) ==
    LET s == finalizer[f]
        refs == IF s.dirty \/ "service" \notin scenario.start THEN s.refs ELSE stored[s.of].refs IN
    /\ At(f, "close")
    /\ stored' = [stored EXCEPT ![s.of] = [closed |-> TRUE, refs |-> refs]]
    /\ finalizer' = [finalizer EXCEPT ![f] = Idle]
    /\ UNCHANGED <<scenario, builds, vertices, instances, links, floating, deaths,
                   closes>>

-----------------------------------------------------------------------------
(* Everything else that happens meanwhile *)

(* A call nobody waited for is made.  The installation edge looks its      *)
(* instance up only then.                                                  *)
RunFloating(t) ==
    /\ floating' = floating \ {t}
    /\ links' = links \cup
         IF t.edge[1] # "installation" THEN {t.edge}
         ELSE IF FoundInstance = NoInstance THEN {}
         ELSE {<<"installation", FoundInstance, "server">>}
    /\ UNCHANGED <<scenario, builds, stored, vertices, instances, finalizer, deaths,
                   closes>>

(* A call fails and the request with it, or the process dies and the calls *)
(* under way with it.                                                      *)
Abandon(f) ==
    /\ ~At(f, "idle") /\ deaths < scenario.deaths
    /\ finalizer' = [finalizer EXCEPT ![f] = Idle]
    /\ \/ floating' = floating
       \/ floating' = {t \in floating : t.by # f}
    /\ deaths' = deaths + 1
    /\ UNCHANGED <<scenario, builds, stored, vertices, instances, links, closes>>

(* package.service.ts approve(): a native $push. *)
ApprovePackage(b) ==
    /\ builds[b].approvals < MaxApprovals
    /\ Cardinality({c \in 1..Len(builds) : builds[c].approvals > 0} \cup {b}) <= MaxApproved
    /\ builds' = [builds EXCEPT ![b].approvals = @ + 1]
    /\ UNCHANGED <<scenario, stored, vertices, instances, links, finalizer, floating,
                   deaths, closes>>

FinalizerStep(f) ==
    \/ SyncAction(f) \/ FindInstance(f) \/ AddInstance(f) \/ LinkInstance(f) \/ FindServer(f)
    \/ FindBuild(f) \/ MarkBuildAsReplaced(f) \/ AddBuild(f) \/ SetActionPackageBuildRef(f)
    \/ AddInstallActionToBuild(f) \/ CloseIntention(f)

SyncNext ==
    \/ \E f \in scenario.crew : \/ FinalizerStep(f) \/ Abandon(f)
                             \/ \E i \in Intentions : BeginClose(f, i)
    \/ \E t \in floating : RunFloating(t)
    \/ \E b \in 1..Len(builds) : ApprovePackage(b)

(* Node.js runs every continuation: a started finalizer goes on, and a call *)
(* nobody waits for is made.                                                *)
SyncFairness ==
    /\ \A f \in Finalizers : WF_syncVars(FinalizerStep(f))
    /\ WF_syncVars(\E t \in floating : RunFloating(t))

-----------------------------------------------------------------------------
(* Properties *)

Builds(i) == {k \in 1..Len(ActionsOf[i]) :
                ActionsOf[i][k].does = "package-build" /\ ActionsOf[i][k].release}

(* Closes that do not overlap leave at most one current build of a version, *)
(* also when a finalizer dies between replacing the old one and adding the  *)
(* new one: with two, getServiceBuildByVersion would find none any more.    *)
(* When nothing failed the current build is the last one.                   *)
OneCurrentBuild ==
    Serial =>
        /\ Cardinality(Current) <= 1
        /\ deaths = 0 /\ builds # <<>> /\ (\A f \in Finalizers : At(f, "idle"))
              => Current = {Len(builds)}

(* A build action of a closed intention refers to the build it registered,  *)
(* although the reference is written past the unit of work that writes the  *)
(* whole array again at the close.                                          *)
ClosedRefersToBuild ==
    Serial => \A i \in Intentions : stored[i].closed =>
        \A k \in Builds(i) :
            LET b == stored[i].refs[k] IN
            /\ b # NoBuild
            /\ builds[b].intention = i /\ builds[b].action = k

(* Approvals and installations are recorded on a build for good, whatever   *)
(* finalizers that read it earlier write to it: the lists do not get shorter *)
(* (a full list of installations forgets its first one).                     *)
RecordsKept ==
    [][\A b \in 1..Len(builds) :
          /\ builds'[b].approvals >= builds[b].approvals
          /\ Len(builds'[b].installed) >= Len(builds[b].installed)]_syncVars

(* Closes that do not overlap give a service one instance of a name, also   *)
(* when two actions of one intention install it and when one died after it  *)
(* added a vertex it had not linked yet.                                    *)
OneInstance == Serial => Cardinality({n \in 1..instances : Linked(n) \in links}) <= 1

Installs(i) == {k \in 1..Len(ActionsOf[i]) : ActionsOf[i][k].does = "package-installation"}

(* An installation that was closed without anything failing is in the end   *)
(* linked to its server and its environment, and the service to the project,*)
(* although the calls are not waited for.                                   *)
InstallationIsLinked ==
    \A i \in Intentions :
        (Serial /\ deaths = 0 /\ stored[i].closed /\ Installs(i) # {} /\ "server" \in vertices)
            ~> \/ deaths > 0
               \/ /\ Component \in links
                  /\ \E n \in 1..instances :
                        {Linked(n), <<"installation", n, "server">>,
                         <<"deploy-type", n, "environment">>} \subseteq links

SyncSpec == SyncInit /\ [][SyncNext]_syncVars /\ SyncFairness

=============================================================================
