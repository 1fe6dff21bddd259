---- MODULE MCGraphQueries ----
(* Two teams whose accounts lead to one service, and what hangs on it. *)
EXTENDS GraphQueries, TLC

MCCollectionOf ==
    "user" :> "user" @@ "t1" :> "team" @@ "t2" :> "team" @@ "a1" :> "brokerAccount"
    @@ "a2" :> "brokerAccount" @@ "project" :> "project" @@ "service" :> "service"
    @@ "instance" :> "serviceInstance" @@ "repo" :> "repository" @@ "cloud" :> "cloud"
    @@ "namespace" :> "openshiftProject"

E(f, n, t) == [from |-> f, name |-> n, to |-> t]

MCPossibleEdges ==
    {E("user", "lead-developer", "t1"), E("user", "tester", "t1"), E("user", "tester", "t2"),
     E("t1", "owns", "a1"), E("t2", "owns", "a2"), E("a1", "authorized", "project"),
     E("a1", "authorized", "service"), E("a2", "authorized", "service"),
     E("project", "component", "service"), E("service", "instance", "instance"),
     E("service", "source", "repo"), E("t1", "operates", "cloud"),
     E("cloud", "host", "namespace"), E("instance", "installation", "namespace")}
====
