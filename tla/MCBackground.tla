---- MODULE MCBackground ----
(* The background work of the Broker and what is computed from the graph,   *)
(* one part of it at a time.                                                *)
EXTENDS VaultTokenRenewal, ResponseCache, TypeaheadIndex, SyncQueues, RepositoryUsers,
        MCGraphQueries

MCEdgeToRoles == RepositoryRoles

VARIABLE part

(* Two requests without a fault, or one with a fault. *)
CopyingScenario ==
    \/ syncFaults = MaxSyncFaults /\ \A r \in Refreshes : ~refresh[r].begun
    \/ syncFaults = 0 /\ \E r \in Refreshes : \A q \in Refreshes : refresh[q].begun <=> q # r

Rest ==
    /\ part = "renewal" \/ UNCHANGED renewalVars
    /\ part = "cache" \/ UNCHANGED cacheVars
    /\ part = "index" \/ UNCHANGED indexVars
    /\ part = "copying" \/ UNCHANGED syncQueueVars
    /\ part = "users" \/ UNCHANGED usersVars
    /\ part = "queries" \/ UNCHANGED edges

Init ==
    /\ part \in {"renewal", "cache", "index", "copying", "users", "queries"}
    /\ RenewalInit /\ CacheInit /\ IndexInit /\ SyncQueueInit /\ UsersInit /\ GraphInit
    /\ part # "renewal" => now = 0
    /\ IF part = "copying" THEN CopyingScenario
                           ELSE syncFaults = 0 /\ \A r \in Refreshes : ~refresh[r].begun
    /\ part # "users" => aliased = {} /\ \A u \in People : holds[u] = {} /\ collaborators[u] = "none"

Next ==
    /\ UNCHANGED part
    /\ \/ part = "renewal" /\ RenewalNext
       \/ part = "cache" /\ CacheNext
       \/ part = "index" /\ IndexNext
       \/ part = "copying" /\ SyncQueueNext
       \/ part = "users" /\ UsersNext
       \/ part = "queries" /\ GraphNext
    /\ Rest

vars == <<part, renewalVars, cacheVars, indexVars, syncQueueVars, usersVars, edges>>

(* While nothing is copied no action of SyncQueueFairness is enabled. *)
Spec == Init /\ [][Next]_vars /\ SyncQueueFairness

TypesOK == RenewalTypeOK /\ CacheTypeOK /\ IndexTypeOK /\ SyncQueueTypeOK /\ UsersTypeOK
====
