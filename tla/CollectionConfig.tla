------------------------------ MODULE CollectionConfig ------------------------------
(***************************************************************************)
(* What the database is set up with (scripts/db/mongo-setup.js): for each   *)
(* collection the edges that may leave its vertices, the operations the API *)
(* allows, the unique fields, the related collections that are shown, and   *)
(* the synchronisation rules; the graph paths that give users permissions;  *)
(* the sync queues.  Labels, hints, colours and field types are left out.   *)
(***************************************************************************)
EXTENDS Integers, Sequences, FiniteSets, SequencesExt

Collections == {"environment", "project", "service", "serviceInstance", "user",
                "brokerAccount", "team", "server", "repository", "cloud", "openshiftProject"}

-----------------------------------------------------------------------------
(* An edge prototype.  A restricted edge is not followed by the lookups that *)
(* collect what is up or down the graph; oneToOne allows one such edge.      *)
EdgeTo(to, name) ==
    [to |-> to, name |-> name, oneToOne |-> FALSE, restrict |-> FALSE, cascade |-> FALSE]
Restricted(e) == [e EXCEPT !.restrict = TRUE]
OneToOneEdge(e) == [e EXCEPT !.oneToOne = TRUE]
Cascading(e) == [e EXCEPT !.cascade = TRUE]

AllOf == {"browse", "create", "filter", "update", "delete"}

NoSync == {}

(* A rule for this collection's own queue, and one that passes a request on *)
(* to the vertices of a collection that is up or down the graph.            *)
OwnQueue(queue) == [kind |-> "queue", queues |-> {queue}, collection |-> "", down |-> TRUE,
                    maxDepth |-> 0]
TraverseTo(collection, maxDepth, queues) ==
    [kind |-> "traverse", queues |-> queues, collection |-> collection, down |-> TRUE,
     maxDepth |-> maxDepth]

Environment ==
    [index |-> 0, edges |-> {OneToOneEdge(Restricted(EdgeTo("environment", "promotes-to")))},
     allows |-> {"browse", "update"}, unique |-> {"name", "short"}, syncQueues |-> NoSync,
     down |-> {}, up |-> {}]

Project ==
    [index |-> 1, edges |-> {EdgeTo("service", "component")},
     allows |-> AllOf, unique |-> {"name"}, syncQueues |-> NoSync,
     down |-> {"service", "repository"}, up |-> {}]

Service ==
    [index |-> 2,
     edges |-> {Cascading(EdgeTo("serviceInstance", "instance")),
                Cascading(Restricted(EdgeTo("service", "provision-token"))),
                EdgeTo("repository", "source")}
               \cup {Restricted(EdgeTo(c, "deploys")) : c \in {"cloud", "server", "openshiftProject"}},
     allows |-> AllOf, unique |-> {"name"}, syncQueues |-> NoSync,
     down |-> {"repository", "serviceInstance"}, up |-> {}]

(* Its name is unique below its parent, the source of the edge instance. *)
ServiceInstance ==
    [index |-> 3,
     edges |-> {OneToOneEdge(Restricted(EdgeTo("environment", "deploy-type"))),
                Restricted(EdgeTo("serviceInstance", "requires"))}
               \cup {Restricted(EdgeTo(c, "installation")) : c \in {"server", "openshiftProject"}},
     allows |-> {"create", "update", "delete"}, unique |-> {}, syncQueues |-> NoSync,
     down |-> {}, up |-> {}]

TeamRoles == {"owner", "full-access", "lead-developer", "developer", "tester", "prod-operator"}

User ==
    [index |-> 4, edges |-> {EdgeTo("team", role) : role \in TeamRoles},
     allows |-> {"browse", "delete"}, unique |-> {}, syncQueues |-> NoSync,
     down |-> {"team", "project", "service", "brokerAccount", "repository"}, up |-> {}]

BrokerAccount ==
    [index |-> 5, edges |-> {EdgeTo(c, "authorized") : c \in {"project", "service"}},
     allows |-> AllOf, unique |-> {"name"},
     syncQueues |-> {TraverseTo("repository", 8, {"GITHUB_SYNC_SECRETS"})},
     down |-> {"project", "service", "repository"}, up |-> {}]

TeamShallow ==
    [index |-> 6,
     edges |-> {EdgeTo("brokerAccount", "owns"), Restricted(EdgeTo("service", "uses")),
                EdgeTo("cloud", "operates")},
     allows |-> AllOf, unique |-> {"name"},
     syncQueues |-> {TraverseTo("repository", 2, {"GITHUB_SYNC_SECRETS", "GITHUB_SYNC_USERS"}),
                     TraverseTo("openshiftProject", 8, {"KUBERNETES_SYNC_SECRETS"})},
     down |-> {"project", "service", "brokerAccount", "repository", "cloud"}, up |-> {"user"}]

Team ==
    [index |-> 6,
     edges |-> {EdgeTo("brokerAccount", "owns"), Restricted(EdgeTo("service", "uses")),
                EdgeTo("cloud", "operates")},
     allows |-> AllOf, unique |-> {"name"},
     syncQueues |-> {TraverseTo("repository", 8, {"GITHUB_SYNC_SECRETS", "GITHUB_SYNC_USERS"}),
                     TraverseTo("openshiftProject", 8, {"KUBERNETES_SYNC_SECRETS"})},
     down |-> {"project", "service", "brokerAccount", "repository", "cloud"}, up |-> {"user"}]

Server ==
    [index |-> 7, edges |-> {}, allows |-> AllOf \ {"filter"}, unique |-> {"name"},
     syncQueues |-> NoSync, down |-> {}, up |-> {}]

Repository ==
    [index |-> 8, edges |-> {}, allows |-> AllOf, unique |-> {"name"},
     syncQueues |-> {OwnQueue(q) : q \in {"GITHUB_SYNC_SECRETS", "GITHUB_SYNC_USERS",
                                          "GITHUB_CATALOG_SCAN"}},
     down |-> {}, up |-> {"brokerAccount", "project", "service", "team"}]

Cloud ==
    [index |-> 9, edges |-> {EdgeTo(c, "host") : c \in {"openshiftProject", "server"}},
     allows |-> AllOf, unique |-> {"name"},
     syncQueues |-> {TraverseTo("openshiftProject", 4, {"KUBERNETES_SYNC_SECRETS"})},
     down |-> {}, up |-> {}]

(* Its queue asks for enableSyncSecrets. *)
OpenshiftProject ==
    [index |-> 10, edges |-> {}, allows |-> AllOf, unique |-> {"name"},
     syncQueues |-> {OwnQueue("KUBERNETES_SYNC_SECRETS")},
     down |-> {"serviceInstance"}, up |-> {}]

ConfigOf(c) ==
    CASE c = "environment" -> Environment       [] c = "project" -> Project
      [] c = "service" -> Service               [] c = "serviceInstance" -> ServiceInstance
      [] c = "user" -> User                     [] c = "brokerAccount" -> BrokerAccount
      [] c = "team" -> Team                     [] c = "server" -> Server
      [] c = "repository" -> Repository         [] c = "cloud" -> Cloud
      [] c = "openshiftProject" -> OpenshiftProject

SyncQueueNames == {"GITHUB_SYNC_SECRETS", "GITHUB_CATALOG_SCAN", "GITHUB_SYNC_USERS",
                   "KUBERNETES_SYNC_SECRETS"}

-----------------------------------------------------------------------------
(* A path of graph permissions: each step follows an edge of this name to a  *)
(* vertex of this collection and grants these permissions on it.             *)
Via(name, to, grants) == [name |-> name, to |-> to, grants |-> grants]

Nothing == {}

OwnerPath == <<Via("owner", "team", {"sudo", "update", "delete"})>>

(* The same four paths for a lead developer and for full access. *)
DeveloperPaths(role, onTeam) ==
    {<<Via(role, "team", onTeam), Via("owns", "brokerAccount", {"sudo"}),
       Via("authorized", "project", {"update"}), Via("component", "service", {"sudo", "update"}),
       Via("instance", "serviceInstance", {"update"})>>,
     <<Via(role, "team", Nothing), Via("owns", "brokerAccount", Nothing),
       Via("authorized", "service", {"sudo", "update"}),
       Via("instance", "serviceInstance", {"update"})>>,
     <<Via(role, "team", Nothing), Via("owns", "brokerAccount", Nothing),
       Via("authorized", "project", Nothing), Via("component", "service", Nothing),
       Via("source", "repository", {"sudo", "update"})>>,
     <<Via(role, "team", Nothing), Via("owns", "brokerAccount", Nothing),
       Via("authorized", "service", Nothing), Via("source", "repository", {"sudo", "update"})>>}

TesterPaths ==
    {<<Via("tester", "team", Nothing), Via("owns", "brokerAccount", Nothing),
       Via("authorized", "project", Nothing), Via("component", "service", {"approve"})>>,
     <<Via("tester", "team", Nothing), Via("owns", "brokerAccount", Nothing),
       Via("authorized", "service", {"approve"})>>}

CloudPaths == {<<Via(role, "team", Nothing), Via("operates", "cloud", {"sudo", "update"})>> :
                 role \in {"lead-developer", "full-access"}}

PermissionPaths ==
    {OwnerPath} \cup DeveloperPaths("lead-developer", {"update"})
        \cup DeveloperPaths("full-access", {"update"}) \cup TesterPaths \cup CloudPaths

-----------------------------------------------------------------------------
(* The environments, with their short names and the roles that may change    *)
(* what runs in them.                                                        *)
ShortName == [production |-> "prod", test |-> "test", development |-> "dev", tools |-> "tools"]

ChangeRoles(environment) ==
    IF environment = "production" THEN {"full-access", "prod-operator"}
    ELSE {"full-access", "lead-developer", "developer"}

-----------------------------------------------------------------------------
(* edgeToRoles: the role in a repository of the first entry whose edges a    *)
(* user has; the last entry has none and stands for every edge.              *)
RepositoryRoles ==
    << [edges |-> {"full-access"}, role |-> "admin"],
       [edges |-> {"lead-developer"}, role |-> "maintain"],
       [edges |-> {"developer"}, role |-> "write"],
       [edges |-> {"owner", "tester"}, role |-> "triage"],
       [edges |-> TeamRoles, role |-> "read"] >>

-----------------------------------------------------------------------------
(* findRuleByQueue(): exactly one rule of the collection names the queue. *)
RulesFor(c, queue) == {r \in ConfigOf(c).syncQueues : queue \in r.queues}

=============================================================================
