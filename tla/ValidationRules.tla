------------------------------ MODULE ValidationRules ------------------------------
(***************************************************************************)
(* Which intentions the Broker opens (intention/intention.service.ts,       *)
(* intention/validation): the rules that every action has to pass, and what *)
(* is installed by the intentions that were opened, which the rule of       *)
(* environment promotion reads.  Requests validate one action after the     *)
(* other while roles and accounts change in the graph; a patch validates    *)
(* an open intention again.  How closing writes the graph for an action     *)
(* step by step is the subject of IntentionSync; here it is one step.       *)
(***************************************************************************)
EXTENDS GraphQueries

CONSTANTS
    Openers,        \* requests that open, patch and close an intention
    Requests,       \* intentions to open: [account, actions]
    Configured,     \* edges that stay
    Changing,       \* edges that come and go
    Missing,        \* projects and services that nobody has added yet
    MaxOpens,       \* bound of the intentions that are opened
    Unset           \* a field that is not there

(* What the rules look at in an action: the service it is for and the one it *)
(* targets, the user, the version (prerelease, or not semver at all) and the *)
(* commit of the build, and whether it is provisioned from Vault.            *)
Fields == {"kind", "project", "service", "target", "environment", "instanceName", "user",
           "version", "build", "provisioned"}

ASSUME RulesAreApplicable ==
    /\ Configured \cup Changing \subseteq [from : Vertices, name : STRING, to : Vertices]
    /\ \A e \in Configured \cup Changing :
          Cardinality(PrototypeOf(e)) = 1 /\ {e.from, e.to} \cap Missing = {}
    /\ \A r \in Requests : /\ r.account.vertex \in Vertices
                            /\ r.actions \in Seq(ToSet(r.actions)) \ {<<>>}
                            /\ \A a \in ToSet(r.actions) :
                                  DOMAIN a = Fields /\ {a.project, a.service} \subseteq Vertices
    /\ MaxOpens \in Nat

VARIABLES
    existing,       \* the vertices that are there
    opening,        \* what each request has in memory
    installed,      \* the instances: [service, name, environment, build]
    released,       \* the builds of release versions: [service, build]
    delivered,      \* every installation there was: [service, name, environment, build]
    opens           \* counter

rulesVars == <<edges, existing, opening, installed, released, delivered, opens>>

NotOpen == [pc |-> "closed"]

Validating(r, isPatch) ==
    [pc |-> "validate", request |-> r, at |-> 1, patched |-> isPatch, violated |-> FALSE,
     bound |-> {b \in Vertices \X AccountServices(r.account.vertex) :
                  [from |-> b[1], name |-> "component", to |-> b[2]] \in edges},
     targets |-> {}, unknown |-> {}]

RulesTypeOK ==
    /\ existing \subseteq Vertices /\ Vertices \ Missing \subseteq existing
    /\ \A p \in Openers :
          opening[p].pc # "closed" =>
              /\ opening[p].pc \in {"validate", "open", "closing"}
              /\ opening[p].request \in Requests
              /\ opening[p].at \in 1..Len(opening[p].request.actions)
              /\ opening[p].targets \subseteq Vertices
              /\ opening[p].unknown \subseteq 1..Len(opening[p].request.actions)
    /\ \A i \in installed :
          /\ In(i.environment, "environment")
          /\ \E r \in Requests : \E a \in ToSet(r.actions) :
                a.kind = "package-installation" /\ a.service = i.service /\ a.build = i.build
    /\ \A i, j \in installed : i.service = j.service /\ i.name = j.name => i = j
    /\ opens \in 0..MaxOpens

RulesInit ==
    /\ edges = Configured \cup Changing /\ existing = Vertices \ Missing
    /\ opening = [p \in Openers |-> NotOpen]
    /\ installed = {} /\ released = {} /\ delivered = {} /\ opens = 0

-----------------------------------------------------------------------------
Known(name) == name \in existing

(* getEnvMap(): an environment by its name or its short name. *)
EnvironmentOf(name) ==
    LET named == {e \in Vertices : In(e, "environment") /\ name \in {e, ShortName[e]}}
    IN  IF named = {} THEN Unset ELSE CHOOSE e \in named : TRUE

(* instanceName(): the last of the search paths that is set. *)
InstanceName(a) == IF a.instanceName # Unset THEN a.instanceName ELSE a.environment

(* resolveVaultEnvironment() after computeVaultEnvironment(). *)
VaultEnvironment(a) ==
    IF EnvironmentOf(a.environment) = Unset THEN a.environment ELSE EnvironmentOf(a.environment)

TargetsOf(service) == {e.to : e \in {f \in edges : f.from = service /\ f.name = "provision-token"}}

Accumulated(a, before) == IF Known(a.service) /\ a.target # Unset
                          THEN before \cup TargetsOf(a.service) ELSE before

(* targetServices in the loop of validateActions(): what an earlier action  *)
(* left, unless this one names a service that exists, and a target.         *)
TargetServices(a, before) ==
    IF Known(a.service) /\ a.target # Unset THEN TargetsOf(a.service) ELSE before

-----------------------------------------------------------------------------
(* The verdict of a rule: pass, fail, or an exception nobody catches. *)
Rule(passes) == IF passes THEN "pass" ELSE "fail"

UserSet(a, skip) == Rule(skip \/ a.user # Unset)

VaultEnv(a) == Rule(a.provisioned => VaultEnvironment(a) \in DOMAIN ShortName)

AccountBoundProject(a, account, bound) ==
    LET projectFound == \E b \in bound : b[1] = a.project
    IN  Rule(/\ account.requireProject => projectFound
             /\ account.requireService => <<a.project, a.service>> \in bound)

TargetService(a, targets) == Rule(a.target = Unset \/ a.target \in targets)

(* The environment is looked up by its name, never by its short name, and   *)
(* an environment that is not found is an exception.                        *)
AssistedDelivery(a) ==
    IF ~Known(a.project) \/ ~Known(a.service) THEN "pass"
    ELSE IF [from |-> a.project, name |-> "component", to |-> a.service] \notin edges THEN "fail"
    ELSE IF a.environment \notin Vertices THEN "exception"
    ELSE Rule(a.user \in Upstream(a.service, Unrestricted, "user", ChangeRoles(a.environment)))

DatabaseAccess(a) ==
    IF a.kind # "database-access" THEN "pass"
    ELSE IF a.user = Unset THEN "fail" ELSE AssistedDelivery(a)

PackageBuild(a, account) ==
    Rule(a.kind = "package-build" =>
            /\ a.version # Unset /\ a.build # Unset
            /\ a.version = "release" =>
                  IF Known(a.service)
                  THEN \A b \in released : b.service = a.service => b.build = a.build
                  ELSE ~account.requireService)

AnyInstance(i, environment) == TRUE

IsDeployedTo(i, environment) == i.environment = environment

EnvironmentPromotion(a, account) ==
    LET environment == EnvironmentOf(a.environment)
        sources == Upstream(environment, edges, "environment", {"promotes-to"})
    IN  Rule(\/ a.kind # "package-installation"
             \/ a.build = Unset /\ account.skipBuild
             \/ /\ a.build # Unset
                /\ environment # Unset /\ sources # {} =>
                      /\ Known(a.service)
                      /\ \A e \in sources : \E i \in installed :
                            i.service = a.service /\ IsDeployedTo(i, e) /\ i.build = a.build)

PackageInstallation(a, account) ==
    IF a.kind # "package-installation" THEN "pass"
    ELSE IF \/ EnvironmentOf(a.environment) = Unset
            \/ ~account.maskSemver /\ a.version = Unset
            \/ /\ ~account.maskSemver
               /\ EnvironmentOf(a.environment) = "production" /\ a.version = "prerelease"
         THEN "fail"
    ELSE IF account.skipUser THEN "pass" ELSE AssistedDelivery(a)

(* ValidationRuleEngine.validate(): by priority, up to the first that does  *)
(* not pass.                                                                *)
Verdict(a, account, bound, targets) ==
    LET verdicts == <<UserSet(a, account.skipUser), VaultEnv(a),
                      AccountBoundProject(a, account, bound), TargetService(a, targets),
                      DatabaseAccess(a), PackageBuild(a, account),
                      EnvironmentPromotion(a, account), PackageInstallation(a, account)>>
        stops == {n \in DOMAIN verdicts : verdicts[n] # "pass"}
    IN  IF stops = {} THEN "pass" ELSE verdicts[Min(stops)]

-----------------------------------------------------------------------------
BeginOpen(p, r) ==
    /\ opening[p] = NotOpen /\ opens < MaxOpens
    /\ opening' = [opening EXCEPT ![p] = Validating(r, FALSE)]
    /\ opens' = opens + 1
    /\ UNCHANGED <<edges, existing, installed, released, delivered>>

(* One round of the loop of validateActions(); every action is validated.   *)
(* A violation rejects the intention, when it is opened and when it is       *)
(* patched; an exception ends the request, and a patch closes the intention. *)
ValidateAction(p) ==
    /\ opening[p].pc = "validate"
    /\ LET o == opening[p]
           a == o.request.actions[o.at]
           targets == TargetServices(a, o.targets)
           verdict == Verdict(a, o.request.account, o.bound, targets)
           violated == o.violated \/ verdict = "fail"
           unknown == o.unknown \cup IF Known(a.service) THEN {} ELSE {o.at}
       IN  opening' = [opening EXCEPT ![p] =
             IF verdict = "exception" THEN NotOpen
             ELSE IF o.at < Len(o.request.actions)
                  THEN [o EXCEPT !.at = o.at + 1, !.targets = targets, !.violated = violated,
                                 !.unknown = unknown]
             ELSE IF violated THEN NotOpen
             ELSE [o EXCEPT !.pc = "open", !.at = 1, !.targets = {}, !.bound = {},
                            !.unknown = unknown]]
    /\ UNCHANGED <<edges, existing, installed, released, delivered, opens>>

PatchAction(p) ==
    /\ opening[p].pc = "open" /\ ~opening[p].patched
    /\ opening' = [opening EXCEPT ![p] = Validating(opening[p].request, TRUE)]
    /\ UNCHANGED <<edges, existing, installed, released, delivered, opens>>

Instance(a) == [service |-> a.service, name |-> InstanceName(a),
                environment |-> EnvironmentOf(a.environment), build |-> a.build]

(* An installation: the instance of that name now has this action; its edge *)
(* deploy-type is one to one, and a second one is refused.                  *)
Install(instances, a) ==
    LET known == {i \in instances : i.service = a.service /\ i.name = InstanceName(a)}
    IN  (instances \ known)
        \cup IF known = {} THEN {Instance(a)} ELSE {[i EXCEPT !.build = a.build] : i \in known}

RecordBuild(builds, a) ==
    IF a.version # "release" THEN builds
    ELSE {b \in builds : b.service # a.service} \cup {[service |-> a.service, build |-> a.build]}

(* sync(): the project is linked to the service, and an account that is not  *)
(* authorized through the service is by the project.                         *)
SyncedEdges(a, account) ==
    {[from |-> a.project, name |-> "component", to |-> a.service]}
    \cup IF [from |-> account.vertex, name |-> "authorized", to |-> a.service] \in edges THEN {}
         ELSE {[from |-> account.vertex, name |-> "authorized", to |-> a.project]}

(* A successful close writes action after action: it adds the project and    *)
(* the service if nobody has, and their edges.  Without success nothing is   *)
(* written.                                                                  *)
CloseAction(p) ==
    /\ opening[p].pc \in {"open", "closing"}
    /\ LET o == opening[p]
           a == o.request.actions[o.at]
       IN  /\ existing' = existing \cup {a.project, a.service}
           /\ edges' = edges \cup SyncedEdges(a, o.request.account)
           /\ IF a.kind = "package-installation"
                THEN installed' = Install(installed, a) /\ delivered' = delivered \cup {Instance(a)}
                ELSE UNCHANGED <<installed, delivered>>
           /\ released' = IF a.kind = "package-build" THEN RecordBuild(released, a) ELSE released
           /\ opening' = [opening EXCEPT ![p] =
                 IF o.at < Len(o.request.actions) THEN [o EXCEPT !.pc = "closing", !.at = o.at + 1]
                 ELSE NotOpen]
    /\ UNCHANGED opens

CloseUnsuccessful(p) ==
    /\ opening[p].pc = "open"
    /\ opening' = [opening EXCEPT ![p] = NotOpen]
    /\ UNCHANGED <<edges, existing, installed, released, delivered, opens>>

GraphChanges(e) ==
    /\ AddEdge(e) \/ DeleteEdge(e)
    /\ UNCHANGED <<existing, opening, installed, released, delivered, opens>>

RulesNext ==
    \/ \E p \in Openers :
          \/ \E r \in Requests : BeginOpen(p, r)
          \/ ValidateAction(p) \/ PatchAction(p) \/ CloseAction(p) \/ CloseUnsuccessful(p)
    \/ \E e \in Changing : GraphChanges(e)

RulesSpec == RulesInit /\ [][RulesNext]_rulesVars

-----------------------------------------------------------------------------
(* An action with a target is let through only if its own service is         *)
(* configured for that target, whatever the actions before it named.  (Of a  *)
(* service the Broker did not know then nothing of the kind is checked.)     *)
TargetsAreOwn ==
    \A p \in Openers : opening[p].pc = "open" =>
        \A n \in DOMAIN opening[p].request.actions \ opening[p].unknown :
            LET a == opening[p].request.actions[n]
            IN  a.target # Unset =>
                    [from |-> a.service, name |-> "provision-token", to |-> a.target] \in edges

(* environment-promotion-validation.rule.ts: "Cannot deploy build X to       *)
(* production unless build X is already deployed to test".                   *)
WasIn(environment, d) ==
    \E c \in delivered : c.service = d.service /\ c.environment = environment /\ c.build = d.build

PromotedInOrder ==
    \A d \in delivered : \A e \in edges :
        e.name = "promotes-to" /\ e.to = d.environment /\ d.build # Unset => WasIn(e.from, d)

(* So it is where instances have the names of their environments.            *)
PromotedWhereNamed ==
    (\A d \in delivered : EnvironmentOf(d.name) = d.environment) => PromotedInOrder

=============================================================================
