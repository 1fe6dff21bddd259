---- MODULE MCIntentionSync ----
(* What a service is closed with.                                            *)
EXTENDS IntentionSync

Release(does) == [does |-> does, release |-> TRUE]

Snapshot == [does |-> "package-build", release |-> FALSE]

(* Three actions of one intention and a snapshot, an installation and a new *)
(* build, closed one intention at a time by a request that may die; and two  *)
(* closes that overlap.  The third installation of a build is one more than  *)
(* its list may hold.                                                       *)
MCScenarios ==
    {[crew |-> {"f1"}, start |-> {"server"}, account |-> TRUE, deaths |-> 1, closes |-> 3,
      actions |-> "i1" :> <<Release("package-build"), Release("package-installation"),
                            Release("package-installation")>>
               @@ "i2" :> <<Snapshot, Release("package-installation"),
                            Release("package-build")>>],
     [crew |-> {"f1", "f2"}, start |-> {"project", "service"}, account |-> FALSE,
      deaths |-> 0, closes |-> 2,
      actions |-> "i1" :> <<Release("other"), Release("package-build")>>
               @@ "i2" :> <<Release("package-build"), Release("package-installation")>>]}
====
