---- MODULE MCValidationRules ----
(* A service that goes from development over test to production, and one     *)
(* that it gets its tokens from.                                             *)
EXTENDS ValidationRules, TLC

MCCollectionOf ==
    "user" :> "user" @@ "team" :> "team" @@ "account" :> "brokerAccount"
    @@ "project" :> "project" @@ "service" :> "service" @@ "api" :> "service"
    @@ "unknown" :> "service"
    @@ "development" :> "environment" @@ "test" :> "environment" @@ "production" :> "environment"

E(f, n, t) == [from |-> f, name |-> n, to |-> t]

MCConfigured ==
    {E("development", "promotes-to", "test"), E("test", "promotes-to", "production"),
     E("team", "owns", "account"), E("account", "authorized", "service"), E("project", "component", "service"),
     E("service", "provision-token", "api"), E("user", "lead-developer", "team")}

MCChanging == {E("user", "prod-operator", "team")}

Pipeline == [vertex |-> "account", requireProject |-> FALSE, requireService |-> FALSE,
             skipUser |-> TRUE, maskSemver |-> TRUE, skipBuild |-> TRUE]

Strict == [vertex |-> "account", requireProject |-> TRUE, requireService |-> TRUE,
           skipUser |-> FALSE, maskSemver |-> FALSE, skipBuild |-> FALSE]

Other == [kind |-> "other", project |-> "project", service |-> "service", target |-> Unset,
          environment |-> "test", instanceName |-> Unset, user |-> "user", version |-> Unset,
          build |-> Unset, provisioned |-> FALSE]

InstallationOf(e, b) == [Other EXCEPT !.kind = "package-installation", !.environment = e,
                                !.version = "release", !.build = b]
By(account, actions) == [account |-> account, actions |-> actions]
ByPipeline(a) == By(Pipeline, <<[a EXCEPT !.user = Unset]>>)

MCRequests ==
    {ByPipeline(InstallationOf("development", b)) : b \in {"b1", "b2"}}
    \cup {ByPipeline(InstallationOf(e, "b1")) : e \in {"test", "prod"}}
    \cup {ByPipeline([InstallationOf(x[1], x[2]) EXCEPT !.instanceName = "app"]) :
             x \in {<<"test", "b1">>, <<"development", "b2">>}}
    \cup {ByPipeline(InstallationOf("production", b)) : b \in {"b2", Unset}}
    \cup {By(Pipeline, <<InstallationOf("test", "b1"),
                           [InstallationOf("development", "b1") EXCEPT !.instanceName = "app"]>>)}
    \cup {By(Strict, <<InstallationOf("test", "b1")>>), By(Strict, <<InstallationOf("prod", "b1")>>),
          By(Strict, <<[InstallationOf("production", "b1") EXCEPT !.version = "prerelease"]>>),
          By(Strict, <<[Other EXCEPT !.kind = "database-access", !.environment = "production"]>>),
          By(Strict, <<[Other EXCEPT !.kind = "package-build", !.version = "release",
                                     !.build = "b1"]>>),
          By(Strict, <<[Other EXCEPT !.kind = "package-build", !.version = "release",
                                     !.build = "b2"]>>),
          By(Pipeline, <<[Other EXCEPT !.target = "api"],
                         [Other EXCEPT !.service = "api", !.target = "api"]>>),
          By(Pipeline, <<[Other EXCEPT !.target = "api", !.provisioned = TRUE],
                         [Other EXCEPT !.service = "unknown", !.target = "api"]>>)}
====
