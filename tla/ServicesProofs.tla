----------------------------- MODULE ServicesProofs -----------------------------
(***************************************************************************)
(* Proofs about what the Broker does for services.  What the validation     *)
(* rules keep in memory and in the graph has its type; an action with a     *)
(* target is let through only if its own service is configured for it; and  *)
(* builds are promoted in order where instances have the names of their     *)
(* environments.  Then the parts of the services run, beside each other.    *)
(***************************************************************************)
EXTENDS MCServices, IntentionSyncProofs, VaultProofs, GraphQueriesProofs

(* The edges that no change can take away. *)
Staying == Configured \ Changing

(* Edges that a successful close may add; none is of the kinds the rules     *)
(* about targets and promotion follow.                                      *)
Synced == [from : Vertices, name : {"component", "authorized"}, to : Vertices]

EdgesOK == edges \subseteq Configured \cup Changing \cup Synced /\ Staying \subseteq edges

ExistingOK == existing \subseteq Vertices /\ Vertices \ Missing \subseteq existing

(* Instances have the names of their environments. *)
Named == \A d \in delivered : EnvironmentOf(d.name) = d.environment

(* The record has the fields of an instance and no other. *)
IsInstance(i) ==
    i = [service |-> i.service, name |-> i.name, environment |-> i.environment,
         build |-> i.build]

OwnTarget(a) ==
    a.target # Unset =>
        [from |-> a.service, name |-> "provision-token", to |-> a.target]
            \in Configured \cup Changing

HasEnvironment(a) == a.kind = "package-installation" => EnvironmentOf(a.environment) # Unset

Promoted(d) ==
    Named => \A e \in Staying :
        e.name = "promotes-to" /\ e.to = d.environment /\ d.build # Unset => WasIn(e.from, d)

(* What the rules have seen to for an action that passed them; it stays true. *)
PassedRules(a) ==
    /\ HasEnvironment(a)
    /\ a.kind = "package-installation" => Promoted(Instance(a))

(* The n-th action has passed: no violation was found up to it. *)
HasPassed(o, n) == o.pc = "validate" => n < o.at /\ ~o.violated

(* What is known of an action that passed, its target only of a service that *)
(* the Broker knew at the time.                                             *)
SeenTo(o, n) ==
    /\ PassedRules(o.request.actions[n])
    /\ n \notin o.unknown => OwnTarget(o.request.actions[n])

IsOpening(o) ==
    /\ o = [pc |-> o.pc, request |-> o.request, at |-> o.at, patched |-> o.patched,
            violated |-> o.violated, bound |-> o.bound, targets |-> o.targets,
            unknown |-> o.unknown]
    /\ o.pc \in {"validate", "open", "closing"}
    /\ o.request \in Requests
    /\ o.at \in 1 .. Len(o.request.actions)
    /\ o.violated \in BOOLEAN
    /\ o.targets \subseteq Vertices
    /\ o.unknown \subseteq 1 .. Len(o.request.actions)

OpeningsOK ==
    /\ DOMAIN opening = Openers
    /\ \A p \in Openers : opening[p] # NotOpen =>
          /\ IsOpening(opening[p])
          /\ \A n \in 1 .. Len(opening[p].request.actions) :
                HasPassed(opening[p], n) => SeenTo(opening[p], n)

(* An instance comes from an action that passed, and has a name of its own. *)
Origin(i) ==
    \E r \in Requests : \E a \in ToSet(r.actions) :
        a.kind = "package-installation" /\ a.service = i.service /\ a.build = i.build

InstalledOK ==
    /\ \A i \in installed : IsInstance(i) /\ In(i.environment, "environment") /\ Origin(i)
    /\ \A i, j \in installed : i.service = j.service /\ i.name = j.name => i = j
    /\ Named => installed \subseteq delivered

DeliveredOK == \A d \in delivered : Promoted(d)

RulesInv ==
    EdgesOK /\ ExistingOK /\ OpeningsOK /\ InstalledOK /\ DeliveredOK /\ opens \in 0 .. MaxOpens

-----------------------------------------------------------------------------
(* The least of some numbers is one of them. *)
LEMMA MinIsOne ==
  ASSUME NEW T \in SUBSET Nat, T # {}
  PROVE  Min(T) \in T
<1>1. \E n \in T : \A m \in T : n <= m
  BY LeastElement
<1> QED
  BY <1>1, Zenon DEF Min

(* The edges into a vertex are among those found up the graph from it. *)
LEMMA UpFindsDirect ==
  ASSUME NEW among, NEW v, NEW e \in among, e.to = v
  PROVE  e \in Up(v, among, 8)
<1> DEFINE U(n) == Up(v, among, n)
           S == {n \in Nat : e \in U(n)}
<1>1. 0 \in S /\ \A n \in S : n + 1 \in S
  BY UpStepByStep
<1> HIDE DEF U
<1>2. S \in SUBSET Nat
  OBVIOUS
<1> HIDE DEF S
<1>3. 8 \in S
  BY <1>1, <1>2, OneAfterTheOther
<1> QED
  BY <1>3 DEF S, U

(* An edge promotes-to leads out of an environment. *)
LEMMA PromotesFromEnvironment ==
  ASSUME NEW e \in Configured \cup Changing, e.name = "promotes-to"
  PROVE  In(e.from, "environment")
<1>1. e.from \in Vertices /\ CollectionOf[e.from] \in Collections
  BY RulesAreApplicable, VerticesAreCollected
<1>2. PrototypeOf(e) # {}
  <2>1. Cardinality(PrototypeOf(e)) = 1
    BY RulesAreApplicable
  <2> HIDE DEF PrototypeOf
  <2>2. Cardinality({}) = 0
    BY FS_EmptySet
  <2> QED
    BY <2>1, <2>2
<1>3. PICK x \in ConfigOf(CollectionOf[e.from]).edges : x.name = "promotes-to"
  BY <1>2 DEF PrototypeOf
<1>4. PICK c \in Collections : c = CollectionOf[e.from]
  BY <1>1
<1>5. x \in ConfigOf(c).edges /\ x.name = "promotes-to"
  BY <1>3, <1>4
<1>6. c = "environment"
  <2>1. CASE c = "project"
    BY <1>5, <2>1 DEF ConfigOf, Project, EdgeTo
  <2>2. CASE c = "service"
    <3>1. x \in Service.edges
      BY <1>5, <2>2 DEF ConfigOf
    <3>2. \/ x \in {Cascading(EdgeTo("serviceInstance", "instance")),
                    Cascading(Restricted(EdgeTo("service", "provision-token"))),
                    EdgeTo("repository", "source")}
          \/ \E d : x = Restricted(EdgeTo(d, "deploys"))
      BY <3>1 DEF Service
    <3>3. /\ Cascading(EdgeTo("serviceInstance", "instance")).name = "instance"
          /\ EdgeTo("repository", "source").name = "source"
      BY DEF EdgeTo, Cascading
    <3>4. Cascading(Restricted(EdgeTo("service", "provision-token"))).name = "provision-token"
      BY DEF EdgeTo, Cascading, Restricted
    <3>5. \A d : Restricted(EdgeTo(d, "deploys")).name = "deploys"
      BY DEF EdgeTo, Restricted
    <3> QED
      BY <1>5, <3>2, <3>3, <3>4, <3>5
  <2>3. CASE c = "serviceInstance"
    BY <1>5, <2>3 DEF ConfigOf, ServiceInstance, EdgeTo, OneToOneEdge, Restricted
  <2>4. CASE c = "user"
    BY <1>5, <2>4 DEF ConfigOf, User, EdgeTo, TeamRoles
  <2>5. CASE c = "brokerAccount"
    BY <1>5, <2>5 DEF ConfigOf, BrokerAccount, EdgeTo
  <2>6. CASE c = "team"
    BY <1>5, <2>6 DEF ConfigOf, Team, EdgeTo, Restricted
  <2>7. CASE c \in {"server", "repository", "openshiftProject"}
    BY <1>5, <2>7 DEF ConfigOf, Server, Repository, OpenshiftProject
  <2>8. CASE c = "cloud"
    BY <1>5, <2>8 DEF ConfigOf, Cloud, EdgeTo
  <2> QED
    BY <1>4, <2>1, <2>2, <2>3, <2>4, <2>5, <2>6, <2>7, <2>8 DEF Collections
<1> QED
  BY <1>4, <1>6 DEF In

(* An environment that is found by a name is an environment. *)
LEMMA EnvironmentIsOne ==
  ASSUME NEW name, EnvironmentOf(name) # Unset
  PROVE  In(EnvironmentOf(name), "environment")
BY DEF EnvironmentOf

-----------------------------------------------------------------------------
(* The verdict is pass only if every rule passes; the three that matter. *)
LEMMA VerdictPasses ==
  ASSUME NEW a, NEW account, NEW bound, NEW targets,
         Verdict(a, account, bound, targets) \notin {"fail", "exception"}
  PROVE  /\ TargetService(a, targets) = "pass"
         /\ EnvironmentPromotion(a, account) = "pass"
         /\ PackageInstallation(a, account) = "pass"
<1> DEFINE verdicts == <<UserSet(a, account.skipUser), VaultEnv(a),
                         AccountBoundProject(a, account, bound), TargetService(a, targets),
                         DatabaseAccess(a), PackageBuild(a, account),
                         EnvironmentPromotion(a, account), PackageInstallation(a, account)>>
           stops == {n \in DOMAIN verdicts : verdicts[n] # "pass"}
<1>1. Verdict(a, account, bound, targets) = IF stops = {} THEN "pass" ELSE verdicts[Min(stops)]
  BY Zenon DEF Verdict
<1>2. \A passes : Rule(passes) \in {"pass", "fail"}
  BY DEF Rule
<1>3. AssistedDelivery(a) \in {"pass", "fail", "exception"}
  BY <1>2 DEF AssistedDelivery
<1>4. /\ UserSet(a, account.skipUser) \in {"pass", "fail"}
      /\ VaultEnv(a) \in {"pass", "fail"}
      /\ AccountBoundProject(a, account, bound) \in {"pass", "fail"}
      /\ TargetService(a, targets) \in {"pass", "fail"}
      /\ PackageBuild(a, account) \in {"pass", "fail"}
      /\ EnvironmentPromotion(a, account) \in {"pass", "fail"}
  BY <1>2, Zenon DEF UserSet, VaultEnv, AccountBoundProject, TargetService, PackageBuild,
                     EnvironmentPromotion
<1>5. DatabaseAccess(a) \in {"pass", "fail", "exception"}
  BY <1>3 DEF DatabaseAccess
<1>6. PackageInstallation(a, account) \in {"pass", "fail", "exception"}
  BY <1>3 DEF PackageInstallation
<1>7. /\ DOMAIN verdicts = 1 .. 8
      /\ \A n \in 1 .. 8 : verdicts[n] \in {"pass", "fail", "exception"}
  BY <1>4, <1>5, <1>6
<1>8. verdicts[4] = TargetService(a, targets) /\ verdicts[7] = EnvironmentPromotion(a, account)
      /\ verdicts[8] = PackageInstallation(a, account)
  OBVIOUS
<1>9. stops = {}
  <2> SUFFICES ASSUME stops # {} PROVE FALSE
    OBVIOUS
  <2>1. stops \subseteq Nat
    BY <1>7
  <2>2. Min(stops) \in stops
    <3> HIDE DEF stops
    <3> QED
      BY <2>1, MinIsOne
  <2> QED
    BY <1>1, <1>7, <2>2
<1> QED
  BY <1>7, <1>8, <1>9

(* The actions of a request are numbered. *)
LEMMA ActionsAreNumbered ==
  ASSUME NEW r \in Requests
  PROVE  /\ Len(r.actions) \in Nat \ {0}
         /\ ToSet(r.actions) = {r.actions[n] : n \in 1 .. Len(r.actions)}
<1>1. r.actions \in Seq(ToSet(r.actions)) /\ r.actions # <<>>
  BY RulesAreApplicable
<1> QED
  BY <1>1 DEF ToSet

(* An action that has passed the rules has been seen to: this is where the   *)
(* graph at the time of the request is read.                                 *)
LEMMA RulesSeeToIt ==
  ASSUME EdgesOK, InstalledOK, NEW a, NEW account, NEW bound, NEW before, NEW targets,
         targets = TargetServices(a, before),
         Verdict(a, account, bound, targets) \notin {"fail", "exception"}
  PROVE  PassedRules(a) /\ (Known(a.service) => OwnTarget(a))
<1>1. /\ TargetService(a, targets) = "pass"
      /\ EnvironmentPromotion(a, account) = "pass"
      /\ PackageInstallation(a, account) = "pass"
  BY VerdictPasses, Zenon
<1>2. \A passes \in BOOLEAN : Rule(passes) = "pass" <=> passes
  BY DEF Rule
<1>3. Known(a.service) => OwnTarget(a)
  <2> SUFFICES ASSUME Known(a.service), a.target # Unset
               PROVE  [from |-> a.service, name |-> "provision-token", to |-> a.target]
                        \in Configured \cup Changing
    BY DEF OwnTarget
  <2>1. a.target \in targets
    BY <1>1, <1>2 DEF TargetService
  <2>2. a.target \in TargetsOf(a.service)
    BY <2>1 DEF TargetServices
  <2>3. PICK e \in edges : e.from = a.service /\ e.name = "provision-token" /\ e.to = a.target
    BY <2>2 DEF TargetsOf
  <2>4. e \in Configured \cup Changing
    BY <2>3 DEF EdgesOK, Synced
  <2>5. e \in [from : Vertices, name : STRING, to : Vertices]
    BY <2>4, RulesAreApplicable
  <2>6. e = [from |-> a.service, name |-> "provision-token", to |-> a.target]
    BY <2>3, <2>5
  <2> QED
    BY <2>4, <2>6
<1>4. HasEnvironment(a)
  BY <1>1 DEF PackageInstallation, HasEnvironment
<1>5. ASSUME a.kind = "package-installation" PROVE Promoted(Instance(a))
  <2> DEFINE environment == EnvironmentOf(a.environment)
             sources == Upstream(environment, edges, "environment", {"promotes-to"})
  <2> SUFFICES ASSUME Named, NEW e \in Staying, e.name = "promotes-to", e.to = environment,
                      a.build # Unset
               PROVE  WasIn(e.from, Instance(a))
    BY DEF Promoted, Instance
  <2>1. e \in edges /\ e \in Configured \cup Changing
    BY DEF EdgesOK, Staying
  <2>2. e \in Up(environment, edges, 8)
    BY <2>1, UpFindsDirect, Zenon
  <2>3. e.from \in sources
    BY <2>1, <2>2, PromotesFromEnvironment DEF Upstream
  <2>4. environment # Unset
    BY <1>4, <1>5 DEF HasEnvironment
  <2>5. \E i \in installed : i.service = a.service /\ IsDeployedTo(i, e.from) /\ i.build = a.build
    <3> HIDE DEF environment, sources
    <3>1. environment # Unset /\ sources # {} =>
            /\ Known(a.service)
            /\ \A x \in sources : \E i \in installed :
                  i.service = a.service /\ IsDeployedTo(i, x) /\ i.build = a.build
      BY <1>1, <1>2, <1>5 DEF EnvironmentPromotion, environment, sources
    <3> QED
      BY <2>3, <2>4, <3>1
  <2> HIDE DEF environment, sources
  <2>6. PICK i \in installed : i.service = a.service /\ i.environment = e.from /\ i.build = a.build
    BY <2>5 DEF IsDeployedTo
  <2>7. i \in delivered
    BY DEF InstalledOK
  <2> QED
    BY <2>6, <2>7 DEF WasIn, Instance
<1> QED
  BY <1>3, <1>4, <1>5 DEF PassedRules

(* It stays so, whatever is installed later. *)
LEMMA PassedStays ==
  ASSUME delivered \subseteq delivered'
  PROVE  /\ Named' => Named
         /\ \A d : Promoted(d) => Promoted(d)'
         /\ \A a : PassedRules(a) => PassedRules(a)'
<1>1. Named' => Named
  BY DEF Named
<1>2. \A e, d : WasIn(e, d) => WasIn(e, d)'
  BY DEF WasIn
<1>3. \A d : Promoted(d) => Promoted(d)'
  BY <1>1, <1>2, Zenon DEF Promoted
<1> QED
  BY <1>1, <1>3, Zenon DEF PassedRules, HasEnvironment

(* One request goes on, and the others stay as they are. *)
LEMMA OneRequestGoesOn ==
  ASSUME OpeningsOK, delivered \subseteq delivered', NEW p \in Openers, NEW o,
         opening' = [opening EXCEPT ![p] = o],
         o # NotOpen =>
            /\ IsOpening(o)
            /\ \A n \in 1 .. Len(o.request.actions) :
                  HasPassed(o, n) => SeenTo(o, n)
  PROVE  OpeningsOK'
<1>1. DOMAIN opening' = Openers
  BY DEF OpeningsOK
<1>2. ASSUME NEW q \in Openers, opening'[q] # NotOpen
      PROVE  \E x : /\ x = opening'[q]
                    /\ IsOpening(x)
                    /\ \A n \in 1 .. Len(x.request.actions) :
                          HasPassed(x, n) => SeenTo(x, n)'
  <2>1. PICK x : x = opening'[q]
    OBVIOUS
  <2>2. IsOpening(x) /\ \A n \in 1 .. Len(x.request.actions) :
                          HasPassed(x, n) => SeenTo(x, n)
    <3>1. CASE q = p
      <4>1. x = o
        BY <2>1, <3>1 DEF OpeningsOK
      <4> QED
        BY <1>2, <2>1, <4>1
    <3>2. CASE q # p
      <4>1. x = opening[q]
        BY <2>1, <3>2 DEF OpeningsOK
      <4> QED
        BY <1>2, <2>1, <4>1 DEF OpeningsOK
    <3> QED
      BY <3>1, <3>2
  <2>3. \A n \in 1 .. Len(x.request.actions) : HasPassed(x, n) => SeenTo(x, n)'
    BY <2>2, PassedStays DEF SeenTo
  <2> QED
    BY <2>1, <2>2, <2>3
<1> QED
  BY <1>1, <1>2 DEF OpeningsOK

(* What is installed and delivered stays as it is. *)
LEMMA InstancesUnchanged ==
  ASSUME InstalledOK, DeliveredOK, UNCHANGED <<installed, delivered>>
  PROVE  InstalledOK' /\ DeliveredOK'
<1>1. (Named <=> Named') /\ \A d : Promoted(d) => Promoted(d)'
  BY PassedStays DEF Named
<1>2. \A i : IsInstance(i) /\ In(i.environment, "environment") /\ Origin(i)
             => (IsInstance(i) /\ In(i.environment, "environment") /\ Origin(i))'
  BY DEF IsInstance, In, Origin
<1>3. InstalledOK'
  BY <1>1, <1>2 DEF InstalledOK
<1>4. DeliveredOK'
  BY <1>1 DEF DeliveredOK
<1> QED
  BY <1>3, <1>4

LEMMA EdgesUnchanged ==
  ASSUME EdgesOK, ExistingOK, UNCHANGED <<edges, existing>>
  PROVE  EdgesOK' /\ ExistingOK'
BY DEF EdgesOK, ExistingOK, Staying

(* A request that begins has seen to nothing yet. *)
LEMMA ValidatingIsOpening ==
  ASSUME NEW r \in Requests, NEW again \in BOOLEAN
  PROVE  /\ IsOpening(Validating(r, again))
         /\ \A n \in 1 .. Len(Validating(r, again).request.actions) :
               ~ HasPassed(Validating(r, again), n)
<1>1. PICK o : o = Validating(r, again)
  OBVIOUS
<1>2. PICK b : o = [pc |-> "validate", request |-> r, at |-> 1, patched |-> again,
                    violated |-> FALSE, bound |-> b, targets |-> {}, unknown |-> {}]
  BY <1>1 DEF Validating
<1>3. 1 \in 1 .. Len(r.actions)
  BY ActionsAreNumbered
<1>4. IsOpening(o)
  BY <1>2, <1>3 DEF IsOpening
<1>5. \A n \in 1 .. Len(o.request.actions) : ~ HasPassed(o, n)
  BY <1>2, ActionsAreNumbered DEF HasPassed
<1> QED
  BY <1>1, <1>4, <1>5

LEMMA RulesInvInit == RulesInit => RulesInv
<1> SUFFICES ASSUME RulesInit PROVE RulesInv
  OBVIOUS
<1>1. EdgesOK /\ ExistingOK
  BY DEF RulesInit, EdgesOK, ExistingOK, Staying
<1>2. OpeningsOK
  BY DEF RulesInit, OpeningsOK
<1>3. InstalledOK /\ DeliveredOK
  BY DEF RulesInit, InstalledOK, DeliveredOK
<1>4. opens \in 0 .. MaxOpens
  BY RulesAreApplicable DEF RulesInit
<1> QED
  BY <1>1, <1>2, <1>3, <1>4 DEF RulesInv

LEMMA RulesInvBeginOpen ==
  ASSUME RulesInv, NEW p \in Openers, NEW r \in Requests, BeginOpen(p, r)
  PROVE  RulesInv'
<1>1. EdgesOK' /\ ExistingOK'
  BY EdgesUnchanged DEF RulesInv, BeginOpen
<1>2. OpeningsOK'
  <2>1. PICK o : o = Validating(r, FALSE)
    OBVIOUS
  <2>2. opening' = [opening EXCEPT ![p] = o] /\ delivered' = delivered
    BY <2>1 DEF BeginOpen
  <2>3. /\ IsOpening(o)
        /\ \A n \in 1 .. Len(o.request.actions) : HasPassed(o, n) => SeenTo(o, n)
    BY <2>1, ValidatingIsOpening
  <2> QED
    BY <2>2, <2>3, OneRequestGoesOn DEF RulesInv
<1>3. InstalledOK' /\ DeliveredOK'
  BY InstancesUnchanged DEF RulesInv, BeginOpen
<1>4. (opens \in 0 .. MaxOpens)'
  BY RulesAreApplicable DEF RulesInv, BeginOpen
<1> QED
  BY <1>1, <1>2, <1>3, <1>4 DEF RulesInv

LEMMA RulesInvPatchAction ==
  ASSUME RulesInv, NEW p \in Openers, PatchAction(p)
  PROVE  RulesInv'
<1>1. EdgesOK' /\ ExistingOK'
  BY EdgesUnchanged DEF RulesInv, PatchAction
<1>2. OpeningsOK'
  <2>1. PICK o : o = Validating(opening[p].request, TRUE)
    OBVIOUS
  <2>2. opening' = [opening EXCEPT ![p] = o] /\ delivered' = delivered
    BY <2>1 DEF PatchAction
  <2>3. opening[p].request \in Requests
    BY DEF PatchAction, RulesInv, OpeningsOK, IsOpening, NotOpen
  <2>4. /\ IsOpening(o)
        /\ \A n \in 1 .. Len(o.request.actions) : HasPassed(o, n) => SeenTo(o, n)
    BY <2>1, <2>3, ValidatingIsOpening
  <2> QED
    BY <2>2, <2>4, OneRequestGoesOn DEF RulesInv
<1>3. InstalledOK' /\ DeliveredOK'
  BY InstancesUnchanged DEF RulesInv, PatchAction
<1>4. (opens \in 0 .. MaxOpens)'
  BY DEF RulesInv, PatchAction
<1> QED
  BY <1>1, <1>2, <1>3, <1>4 DEF RulesInv

LEMMA RulesInvCloseUnsuccessful ==
  ASSUME RulesInv, NEW p \in Openers, CloseUnsuccessful(p)
  PROVE  RulesInv'
<1>1. EdgesOK' /\ ExistingOK'
  BY EdgesUnchanged DEF RulesInv, CloseUnsuccessful
<1>2. OpeningsOK'
  BY OneRequestGoesOn DEF RulesInv, CloseUnsuccessful
<1>3. InstalledOK' /\ DeliveredOK'
  BY InstancesUnchanged DEF RulesInv, CloseUnsuccessful
<1>4. (opens \in 0 .. MaxOpens)'
  BY DEF RulesInv, CloseUnsuccessful
<1> QED
  BY <1>1, <1>2, <1>3, <1>4 DEF RulesInv

LEMMA RulesInvGraphChanges ==
  ASSUME RulesInv, NEW e \in Changing, GraphChanges(e)
  PROVE  RulesInv'
<1>1. EdgesOK' /\ ExistingOK'
  BY DEF RulesInv, EdgesOK, ExistingOK, Staying, GraphChanges, AddEdge, DeleteEdge
<1>2. OpeningsOK'
  <2>1. UNCHANGED <<opening, delivered>>
    BY DEF GraphChanges
  <2>2. \A a : PassedRules(a) => PassedRules(a)'
    BY <2>1, PassedStays
  <2> QED
    BY <2>1, <2>2 DEF RulesInv, OpeningsOK, SeenTo
<1>3. InstalledOK' /\ DeliveredOK'
  BY InstancesUnchanged DEF RulesInv, GraphChanges
<1>4. (opens \in 0 .. MaxOpens)'
  BY DEF RulesInv, GraphChanges
<1> QED
  BY <1>1, <1>2, <1>3, <1>4 DEF RulesInv

LEMMA RulesInvValidateAction ==
  ASSUME RulesInv, NEW p \in Openers, ValidateAction(p)
  PROVE  RulesInv'
<1>1. EdgesOK' /\ ExistingOK'
  BY EdgesUnchanged DEF RulesInv, ValidateAction
<1>2. OpeningsOK'
  <2>1. PICK o : o = opening[p]
    OBVIOUS
  <2>2. PICK a : a = o.request.actions[o.at]
    OBVIOUS
  <2>3. PICK targets : targets = TargetServices(a, o.targets)
    OBVIOUS
  <2>4. PICK verdict : verdict = Verdict(a, o.request.account, o.bound, targets)
    OBVIOUS
  <2>5. PICK violated \in BOOLEAN : violated = (o.violated \/ verdict = "fail")
    OBVIOUS
  <2>15. PICK unknown : unknown = o.unknown \cup IF Known(a.service) THEN {} ELSE {o.at}
    OBVIOUS
  <2>6. PICK next :
          /\ next = IF verdict = "exception" THEN NotOpen
                    ELSE IF o.at < Len(o.request.actions)
                         THEN [o EXCEPT !.at = o.at + 1, !.targets = targets,
                                        !.violated = violated, !.unknown = unknown]
                    ELSE IF violated THEN NotOpen
                    ELSE [o EXCEPT !.pc = "open", !.at = 1, !.targets = {}, !.bound = {},
                                   !.unknown = unknown]
          /\ opening' = [opening EXCEPT ![p] = next]
    BY <2>1, <2>2, <2>3, <2>4, <2>5, <2>15 DEF ValidateAction
  <2>7. /\ o.pc = "validate" /\ IsOpening(o)
        /\ \A n \in 1 .. Len(o.request.actions) : HasPassed(o, n) => SeenTo(o, n)
    BY <2>1 DEF ValidateAction, RulesInv, OpeningsOK, NotOpen
  <2>8. o.request \in Requests /\ o.at \in 1 .. Len(o.request.actions)
        /\ Len(o.request.actions) \in Nat \ {0}
    BY <2>7, ActionsAreNumbered DEF IsOpening
  <2>9. targets \subseteq Vertices
    <3>1. TargetsOf(a.service) \subseteq Vertices
      BY RulesAreApplicable DEF RulesInv, EdgesOK, Synced, TargetsOf
    <3>2. o.targets \subseteq Vertices
      BY <2>7 DEF IsOpening
    <3> QED
      BY <2>3, <3>1, <3>2 DEF TargetServices
  <2>16. /\ unknown \subseteq 1 .. Len(o.request.actions)
         /\ o.unknown \subseteq unknown
         /\ ~ Known(a.service) => o.at \in unknown
    <3>1. o.unknown \subseteq 1 .. Len(o.request.actions)
      BY <2>7 DEF IsOpening
    <3> QED
      BY <2>8, <2>15, <3>1
  <2>10. ~ violated /\ verdict # "exception" =>
           PassedRules(a) /\ (Known(a.service) => OwnTarget(a))
    BY <2>3, <2>4, <2>5, RulesSeeToIt DEF RulesInv
  <2>11. ~ violated /\ verdict # "exception" =>
           \A n \in 1 .. o.at :
              /\ PassedRules(o.request.actions[n])
              /\ n \notin unknown => OwnTarget(o.request.actions[n])
    <3> SUFFICES ASSUME ~ violated, verdict # "exception", NEW n \in 1 .. o.at
                 PROVE  /\ PassedRules(o.request.actions[n])
                        /\ n \notin unknown => OwnTarget(o.request.actions[n])
      OBVIOUS
    <3>1. CASE n = o.at
      BY <2>2, <2>10, <2>16, <3>1
    <3>2. CASE n # o.at
      <4>1. n \in 1 .. Len(o.request.actions) /\ n < o.at
        BY <2>8, <3>2
      <4>2. HasPassed(o, n)
        BY <2>5, <4>1 DEF HasPassed
      <4> QED
        BY <2>7, <2>16, <4>1, <4>2 DEF SeenTo
    <3> QED
      BY <3>1, <3>2
  <2>12. next # NotOpen =>
           /\ IsOpening(next)
           /\ \A n \in 1 .. Len(next.request.actions) :
                 HasPassed(next, n) => SeenTo(next, n)
    <3>1. CASE verdict # "exception" /\ o.at < Len(o.request.actions)
      <4>1. next = [pc |-> "validate", request |-> o.request, at |-> o.at + 1,
                    patched |-> o.patched, violated |-> violated, bound |-> o.bound,
                    targets |-> targets, unknown |-> unknown]
        BY <2>6, <2>7, <3>1 DEF IsOpening
      <4>2. IsOpening(next)
        BY <2>8, <2>9, <2>16, <3>1, <4>1 DEF IsOpening
      <4>3. \A n \in 1 .. Len(next.request.actions) :
               HasPassed(next, n) => SeenTo(next, n)
        BY <2>8, <2>11, <3>1, <4>1 DEF HasPassed, SeenTo
      <4> QED
        BY <4>2, <4>3
    <3>2. CASE verdict # "exception" /\ o.at = Len(o.request.actions) /\ ~ violated
      <4>1. next = [pc |-> "open", request |-> o.request, at |-> 1,
                    patched |-> o.patched, violated |-> o.violated, bound |-> {},
                    targets |-> {}, unknown |-> unknown]
        <5>1. next = [o EXCEPT !.pc = "open", !.at = 1, !.targets = {}, !.bound = {},
                               !.unknown = unknown]
          <6>1. ~ (o.at < Len(o.request.actions))
            BY <2>8, <3>2
          <6> QED
            BY <2>6, <3>2, <6>1
        <5> QED
          BY <2>7, <5>1 DEF IsOpening
      <4>2. o.violated \in BOOLEAN
        BY <2>7 DEF IsOpening
      <4>3. IsOpening(next)
        BY <2>8, <2>16, <3>2, <4>1, <4>2 DEF IsOpening
      <4>4. \A n \in 1 .. Len(next.request.actions) : SeenTo(next, n)
        BY <2>8, <2>11, <3>2, <4>1 DEF SeenTo
      <4> QED
        BY <4>3, <4>4
    <3> QED
      BY <2>6, <2>8, <3>1, <3>2
  <2>13. delivered' = delivered
    BY DEF ValidateAction
  <2> QED
    BY <2>6, <2>12, <2>13, OneRequestGoesOn DEF RulesInv
<1>3. InstalledOK' /\ DeliveredOK'
  BY InstancesUnchanged DEF RulesInv, ValidateAction
<1>4. (opens \in 0 .. MaxOpens)'
  BY DEF RulesInv, ValidateAction
<1> QED
  BY <1>1, <1>2, <1>3, <1>4 DEF RulesInv

(* An installation: one instance is new, or has another build. *)
LEMMA InstallationKeeps ==
  ASSUME InstalledOK, DeliveredOK, NEW r \in Requests, NEW a \in ToSet(r.actions), PassedRules(a),
         a.kind = "package-installation",
         installed' = Install(installed, a), delivered' = delivered \cup {Instance(a)}
  PROVE  InstalledOK' /\ DeliveredOK'
<1> DEFINE known == {i \in installed : i.service = a.service /\ i.name = InstanceName(a)}
           environment == EnvironmentOf(a.environment)
<1>1. PICK d : d = Instance(a)
  OBVIOUS
<1>2. /\ d = [service |-> a.service, name |-> InstanceName(a), environment |-> environment,
              build |-> a.build]
      /\ IsInstance(d) /\ d \in delivered'
  BY <1>1 DEF Instance, IsInstance
<1>3. In(environment, "environment")
  BY EnvironmentIsOne DEF PassedRules, HasEnvironment
<1>4. ASSUME NEW i \in installed'
      PROVE  \/ i \in installed /\ ~ (i.service = a.service /\ i.name = InstanceName(a))
             \/ known = {} /\ i = d
             \/ \E j \in known :
                   i = [service |-> j.service, name |-> j.name, environment |-> j.environment,
                        build |-> a.build]
  <2>1. CASE known = {}
    <3>1. installed' = (installed \ known) \cup {d}
      BY <1>1, <2>1 DEF Install
    <3> QED
      BY <2>1, <3>1
  <2>2. CASE known # {}
    <3>1. installed' = (installed \ known) \cup {[j EXCEPT !.build = a.build] : j \in known}
      BY <2>2 DEF Install
    <3>2. CASE i \in installed \ known
      BY <3>2
    <3>3. CASE i \notin installed \ known
      <4>1. PICK j \in known : i = [j EXCEPT !.build = a.build]
        BY <3>1, <3>3
      <4>2. j = [service |-> j.service, name |-> j.name, environment |-> j.environment,
                 build |-> j.build]
        BY DEF InstalledOK, IsInstance
      <4> QED
        BY <4>1, <4>2
    <3> QED
      BY <3>2, <3>3
  <2> QED
    BY <2>1, <2>2
<1>5. ASSUME NEW i \in installed'
      PROVE  IsInstance(i) /\ In(i.environment, "environment") /\ Origin(i)
  <2>1. CASE i \in installed
    BY <2>1 DEF InstalledOK
  <2>2. CASE i = d
    BY <1>2, <1>3, <2>2 DEF Origin
  <2>3. CASE \E j \in known :
               i = [service |-> j.service, name |-> j.name, environment |-> j.environment,
                    build |-> a.build]
    <3>1. PICK j \in known :
             i = [service |-> j.service, name |-> j.name, environment |-> j.environment,
                  build |-> a.build]
      BY <2>3
    <3>2. In(j.environment, "environment") /\ j.service = a.service
      BY DEF InstalledOK
    <3> QED
      BY <3>1, <3>2 DEF IsInstance, Origin
  <2> QED
    BY <1>4, <2>1, <2>2, <2>3
<1>6. ASSUME NEW i \in installed', NEW j \in installed', i.service = j.service, i.name = j.name
      PROVE  i = j
  <2>1. \A x, y \in installed : x.service = y.service /\ x.name = y.name => x = y
    BY DEF InstalledOK
  <2>2. d.service = a.service /\ d.name = InstanceName(a)
    BY <1>2
  <2>3. CASE i.service = a.service /\ i.name = InstanceName(a)
    <3> DEFINE new(x) == [service |-> x.service, name |-> x.name,
                          environment |-> x.environment, build |-> a.build]
    <3>1. (known = {} /\ i = d) \/ \E x \in known : i = new(x)
      BY <1>4, <2>3
    <3>2. (known = {} /\ j = d) \/ \E x \in known : j = new(x)
      BY <1>4, <1>6, <2>3
    <3>3. \A x, y \in known : x = y
      BY <2>1
    <3> HIDE DEF new, known
    <3> QED
      BY <3>1, <3>2, <3>3
  <2>4. CASE ~ (i.service = a.service /\ i.name = InstanceName(a))
    <3>1. i \in installed
      BY <1>4, <2>2, <2>4
    <3>2. j \in installed
      BY <1>4, <1>6, <2>2, <2>4
    <3> QED
      BY <1>6, <2>1, <3>1, <3>2
  <2> QED
    BY <2>3, <2>4
<1>7. Named' => installed' \subseteq delivered'
  <2> SUFFICES ASSUME Named', NEW i \in installed' PROVE i \in delivered'
    OBVIOUS
  <2>1. installed \subseteq delivered
    BY PassedStays DEF InstalledOK
  <2>2. \A x \in delivered' : EnvironmentOf(x.name) = x.environment
    BY DEF Named
  <2>3. ASSUME NEW j \in known,
               i = [service |-> j.service, name |-> j.name, environment |-> j.environment,
                    build |-> a.build]
        PROVE  i = d
    <3>1. EnvironmentOf(InstanceName(a)) = environment
      BY <1>2, <2>2
    <3>2. EnvironmentOf(j.name) = j.environment
      BY <2>1, <2>2
    <3>3. j.service = a.service /\ j.name = InstanceName(a) /\ j.environment = environment
      BY <3>1, <3>2
    <3> HIDE DEF environment
    <3> QED
      BY <1>2, <2>3, <3>3
  <2> QED
    BY <1>2, <1>4, <2>1, <2>3
<1>8. InstalledOK'
  <2>1. \A i \in installed' : (IsInstance(i) /\ In(i.environment, "environment") /\ Origin(i))'
    BY <1>5 DEF IsInstance, In, Origin
  <2> QED
    BY <1>6, <1>7, <2>1 DEF InstalledOK
<1>9. DeliveredOK'
  <2>1. \A x : Promoted(x) => Promoted(x)'
    BY PassedStays
  <2>2. Promoted(d)
    BY <1>1 DEF PassedRules
  <2> QED
    BY <1>1, <2>1, <2>2 DEF DeliveredOK
<1> QED
  BY <1>8, <1>9

LEMMA RulesInvCloseAction ==
  ASSUME RulesInv, NEW p \in Openers, CloseAction(p)
  PROVE  RulesInv'
<1>1. PICK o : o = opening[p]
  OBVIOUS
<1>2. PICK a : a = o.request.actions[o.at]
  OBVIOUS
<1>3. /\ o.pc \in {"open", "closing"} /\ IsOpening(o)
      /\ \A n \in 1 .. Len(o.request.actions) : HasPassed(o, n) => SeenTo(o, n)
  BY <1>1 DEF CloseAction, RulesInv, OpeningsOK, NotOpen
<1>4. o.request \in Requests /\ o.at \in 1 .. Len(o.request.actions)
      /\ Len(o.request.actions) \in Nat \ {0}
  BY <1>3, ActionsAreNumbered DEF IsOpening
<1>5. \A n \in 1 .. Len(o.request.actions) : SeenTo(o, n)
  BY <1>3 DEF HasPassed
<1>6. a \in ToSet(o.request.actions) /\ PassedRules(a)
  BY <1>2, <1>4, <1>5, ActionsAreNumbered DEF SeenTo
<1>7. /\ IF a.kind = "package-installation"
         THEN installed' = Install(installed, a) /\ delivered' = delivered \cup {Instance(a)}
         ELSE UNCHANGED <<installed, delivered>>
      /\ opening' = [opening EXCEPT ![p] =
            IF o.at < Len(o.request.actions) THEN [o EXCEPT !.pc = "closing", !.at = o.at + 1]
            ELSE NotOpen]
  BY <1>1, <1>2 DEF CloseAction
<1>8. delivered \subseteq delivered'
  BY <1>7
<1>9. EdgesOK' /\ ExistingOK'
  <2>1. {a.project, a.service, o.request.account.vertex} \subseteq Vertices
    BY <1>4, <1>6, RulesAreApplicable
  <2>2. SyncedEdges(a, o.request.account) \subseteq Synced
    <3>1. PICK vertex \in Vertices : vertex = o.request.account.vertex
      BY <2>1
    <3>2. \A v, w \in Vertices : \A name \in {"component", "authorized"} :
             [from |-> v, name |-> name, to |-> w] \in Synced
      BY DEF Synced
    <3>3. /\ [from |-> a.project, name |-> "component", to |-> a.service] \in Synced
          /\ [from |-> vertex, name |-> "authorized", to |-> a.project] \in Synced
      BY <2>1, <3>2
    <3> QED
      BY <3>1, <3>3, Zenon DEF SyncedEdges
  <2>3. /\ edges' = edges \cup SyncedEdges(a, o.request.account)
        /\ existing' = existing \cup {a.project, a.service}
    BY <1>1, <1>2 DEF CloseAction
  <2>4. EdgesOK'
    BY <2>2, <2>3 DEF RulesInv, EdgesOK, Staying, Synced
  <2> QED
    BY <2>1, <2>3, <2>4 DEF RulesInv, ExistingOK
<1>10. OpeningsOK'
  <2>1. PICK next :
          /\ next = IF o.at < Len(o.request.actions)
                    THEN [o EXCEPT !.pc = "closing", !.at = o.at + 1] ELSE NotOpen
          /\ opening' = [opening EXCEPT ![p] = next]
    BY <1>7
  <2>2. ASSUME next # NotOpen
        PROVE  /\ IsOpening(next)
               /\ \A n \in 1 .. Len(next.request.actions) :
                     HasPassed(next, n) => SeenTo(next, n)
    <3>1. o.at < Len(o.request.actions)
      BY <2>1, <2>2
    <3>2. next = [pc |-> "closing", request |-> o.request, at |-> o.at + 1,
                  patched |-> o.patched, violated |-> o.violated, bound |-> o.bound,
                  targets |-> o.targets, unknown |-> o.unknown]
      BY <1>3, <2>1, <3>1 DEF IsOpening
    <3>3. /\ o.violated \in BOOLEAN /\ o.targets \subseteq Vertices
          /\ o.unknown \subseteq 1 .. Len(o.request.actions)
      BY <1>3 DEF IsOpening
    <3>4. IsOpening(next)
      BY <1>4, <3>1, <3>2, <3>3 DEF IsOpening
    <3> QED
      BY <1>5, <3>2, <3>4 DEF SeenTo
  <2> QED
    BY <1>8, <2>1, <2>2, OneRequestGoesOn DEF RulesInv
<1>11. InstalledOK' /\ DeliveredOK'
  <2>1. CASE a.kind = "package-installation"
    BY <1>4, <1>6, <1>7, <2>1, InstallationKeeps DEF RulesInv
  <2>2. CASE a.kind # "package-installation"
    BY <1>7, <2>2, InstancesUnchanged DEF RulesInv
  <2> QED
    BY <2>1, <2>2
<1>12. (opens \in 0 .. MaxOpens)'
  BY DEF RulesInv, CloseAction
<1> QED
  BY <1>9, <1>10, <1>11, <1>12 DEF RulesInv

LEMMA RulesInvNext ==
  ASSUME RulesInv, [RulesNext]_rulesVars
  PROVE  RulesInv'
<1>1. ASSUME NEW p \in Openers, NEW r \in Requests, BeginOpen(p, r) PROVE RulesInv'
  BY <1>1, RulesInvBeginOpen
<1>2. ASSUME NEW p \in Openers, ValidateAction(p) PROVE RulesInv'
  BY <1>2, RulesInvValidateAction
<1>3. ASSUME NEW p \in Openers, PatchAction(p) PROVE RulesInv'
  BY <1>3, RulesInvPatchAction
<1>4. ASSUME NEW p \in Openers, CloseAction(p) PROVE RulesInv'
  BY <1>4, RulesInvCloseAction
<1>5. ASSUME NEW p \in Openers, CloseUnsuccessful(p) PROVE RulesInv'
  BY <1>5, RulesInvCloseUnsuccessful
<1>6. ASSUME NEW e \in Changing, GraphChanges(e) PROVE RulesInv'
  BY <1>6, RulesInvGraphChanges
<1>7. CASE UNCHANGED rulesVars
  <2>1. UNCHANGED <<edges, existing, opening, installed, delivered, opens>>
    BY <1>7 DEF rulesVars
  <2>2. \A x : PassedRules(x) => PassedRules(x)'
    BY <2>1, PassedStays
  <2>3. OpeningsOK'
    BY <2>1, <2>2 DEF RulesInv, OpeningsOK, SeenTo
  <2>4. InstalledOK' /\ DeliveredOK'
    BY <2>1, InstancesUnchanged DEF RulesInv
  <2>5. EdgesOK' /\ ExistingOK'
    BY <2>1, EdgesUnchanged DEF RulesInv
  <2> QED
    BY <2>1, <2>3, <2>4, <2>5 DEF RulesInv
<1> QED
  BY <1>1, <1>2, <1>3, <1>4, <1>5, <1>6, <1>7 DEF RulesNext

LEMMA RulesInvAlways == RulesSpec => []RulesInv
<1>1. RulesInv /\ [RulesNext]_rulesVars => RulesInv'
  BY RulesInvNext
<1> QED
  BY RulesInvInit, <1>1, PTL DEF RulesSpec

LEMMA RulesAreTyped == RulesInv => RulesTypeOK
<1> SUFFICES ASSUME RulesInv PROVE RulesTypeOK
  OBVIOUS
<1>1. ASSUME NEW p \in Openers, opening[p].pc # "closed"
      PROVE  /\ opening[p].pc \in {"validate", "open", "closing"}
             /\ opening[p].request \in Requests
             /\ opening[p].at \in 1 .. Len(opening[p].request.actions)
             /\ opening[p].targets \subseteq Vertices
             /\ opening[p].unknown \subseteq 1 .. Len(opening[p].request.actions)
  BY <1>1 DEF RulesInv, OpeningsOK, IsOpening, NotOpen
<1>2. /\ \A i \in installed : In(i.environment, "environment") /\ Origin(i)
      /\ \A i, j \in installed : i.service = j.service /\ i.name = j.name => i = j
      /\ opens \in 0 .. MaxOpens
      /\ existing \subseteq Vertices /\ Vertices \ Missing \subseteq existing
  BY DEF RulesInv, InstalledOK, ExistingOK
<1> QED
  BY <1>1, <1>2, Zenon DEF RulesTypeOK, Origin

-----------------------------------------------------------------------------
(* What requests have in memory, the instances and the counter have their   *)
(* types: an instance lies in an environment, comes from an installation    *)
(* that was asked for, and is the only one of its name.                     *)
THEOREM RulesTypeCorrect == RulesSpec => []RulesTypeOK
BY RulesAreTyped, RulesInvAlways, PTL

(* validateActions(): where no edge provision-token comes or goes while      *)
(* requests are under way, an action with a target, of a service that the    *)
(* Broker knew when it validated the action, is let through only if that     *)
(* service is configured for the target, whatever the actions before it have *)
(* left in targetServices, and whatever is added in the meantime.            *)
THEOREM TargetsStayOwn ==
  ASSUME \A e \in Changing : e.name # "provision-token"
  PROVE  RulesSpec => []TargetsAreOwn
<1>1. RulesInv => TargetsAreOwn
  <2> SUFFICES ASSUME RulesInv, NEW p \in Openers, opening[p].pc = "open",
                      NEW n \in DOMAIN opening[p].request.actions \ opening[p].unknown,
                      opening[p].request.actions[n].target # Unset
               PROVE  [from |-> opening[p].request.actions[n].service,
                       name |-> "provision-token",
                       to |-> opening[p].request.actions[n].target] \in edges
    BY DEF TargetsAreOwn
  <2>1. /\ opening[p].request \in Requests
        /\ \A m \in 1 .. Len(opening[p].request.actions) : SeenTo(opening[p], m)
    BY DEF RulesInv, OpeningsOK, IsOpening, HasPassed, NotOpen
  <2>2. OwnTarget(opening[p].request.actions[n])
    <3>1. DOMAIN opening[p].request.actions = 1 .. Len(opening[p].request.actions)
      BY <2>1, RulesAreApplicable
    <3> QED
      BY <2>1, <3>1 DEF SeenTo
  <2>3. PICK e : e = [from |-> opening[p].request.actions[n].service,
                      name |-> "provision-token",
                      to |-> opening[p].request.actions[n].target]
    OBVIOUS
  <2>4. e \in Configured \cup Changing /\ e.name = "provision-token"
    BY <2>2, <2>3 DEF OwnTarget
  <2>5. e \in Staying
    BY <2>4 DEF Staying
  <2> QED
    BY <2>3, <2>5 DEF RulesInv, EdgesOK
<1> QED
  BY <1>1, RulesInvAlways, PTL

(* environment-promotion-validation.rule.ts: where the order of promotion    *)
(* stays and instances have the names of their environments, a build is in   *)
(* an environment only after it was in the one that promotes to it, however  *)
(* the requests that validated it and the installations interleave.          *)
THEOREM PromotionIsOrdered ==
  ASSUME \A e \in Changing : e.name # "promotes-to"
  PROVE  RulesSpec => []PromotedWhereNamed
<1>1. RulesInv => PromotedWhereNamed
  <2> SUFFICES ASSUME RulesInv, Named, NEW d \in delivered, NEW e \in edges,
                      e.name = "promotes-to", e.to = d.environment, d.build # Unset
               PROVE  WasIn(e.from, d)
    BY DEF PromotedWhereNamed, PromotedInOrder, Named
  <2>1. e \in Staying
    BY DEF RulesInv, EdgesOK, Synced, Staying
  <2>2. Promoted(d)
    BY DEF RulesInv, DeliveredOK
  <2> QED
    BY <2>1, <2>2 DEF Promoted
<1> QED
  BY <1>1, RulesInvAlways, PTL

-----------------------------------------------------------------------------
(* Opening, closing and destroying beside each other, as the run takes them: *)
(* while one goes on the others stand still, so each keeps its own invariant.*)
ServicesInv == TypeInv /\ SecretTypeInv /\ RulesInv

LEMMA ServicesInvHolds == Spec => []ServicesInv
<1>1. Init => ServicesInv
  BY TypeInit, SecretInitType, RulesInvInit DEF Init, ServicesInv
<1>2. ServicesInv /\ [Next]_<<part, syncVars, secretVars, rulesVars>> => ServicesInv'
  <2> SUFFICES ASSUME ServicesInv, [Next]_<<part, syncVars, secretVars, rulesVars>>
               PROVE  ServicesInv'
    OBVIOUS
  <2>1. [SyncNext]_syncVars /\ [SecretNext]_secretVars /\ [RulesNext]_rulesVars
    BY DEF Next
  <2> QED
    BY <2>1, TypeNext, SecretTypeStep, RulesInvNext DEF ServicesInv
<1> QED
  BY <1>1, <1>2, PTL DEF Spec

(* Whatever the Broker does for services, what it keeps has its type. *)
THEOREM ServicesTypesCorrect == Spec => []TypesOK
<1>1. ServicesInv => TypesOK
  BY SyncIsTyped, SecretIsTyped, RulesAreTyped DEF ServicesInv, TypesOK
<1> QED
  BY <1>1, ServicesInvHolds, PTL

=============================================================================
