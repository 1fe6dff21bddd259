------------------------------ MODULE ResponseCache ------------------------------
(***************************************************************************)
(* The responses of the graph that Redis keeps: those of the handlers with  *)
(* a cache key (persistence-cache.interceptor.ts), removed after each write *)
(* of the graph (redis-composition/graph-redis.repository.ts) by calls that *)
(* nobody waits for.  They have no TTL.  The content of the graph is its    *)
(* version, a number every write increases.                                *)
(***************************************************************************)
EXTENDS Integers, FiniteSets

CONSTANTS
    Slices,              \* keys "graph-<hash>", one for each set of collections
    GraphKey,            \* the key "graph" of the whole graph
    Writers, Readers,    \* requests
    MaxVersion,          \* bound of the writes
    NoResponse           \* nothing cached, nothing read

ASSUME SlicesAreSlices == GraphKey \notin Slices
ASSUME VersionsAreBounded == MaxVersion \in Nat
ASSUME NoResponseIsNoVersion == NoResponse \notin Nat

VARIABLES
    version,             \* of the graph in MongoDB
    responses,           \* the cached responses: the version each was computed from
    writing,             \* the writers whose write MongoDB has not answered yet
    reader,              \* the readers
    invalidations,       \* invalidateCache() calls under way
    overtaken,           \* a write was made between computing and storing a response
    torn                 \* a write failed half way, or its process died

cacheVars == <<version, responses, writing, reader, invalidations, overtaken, torn>>

Keys == Slices \cup {GraphKey}

Unread == [at |-> "idle", key |-> GraphKey, data |-> NoResponse]

CacheTypeOK ==
    /\ version \in 0..MaxVersion
    /\ responses \in [Keys -> (0..MaxVersion) \cup {NoResponse}]
    /\ writing \subseteq Writers
    /\ reader \in [Readers -> [at : {"idle", "get", "handle", "set"}, key : Keys,
                               data : (0..MaxVersion) \cup {NoResponse}]]
    /\ invalidations \subseteq [by : Writers, at : {"keys", "del"}, todo : SUBSET Keys]
    /\ overtaken \in BOOLEAN /\ torn \in BOOLEAN

CacheInit ==
    /\ version = 0
    /\ responses = [k \in Keys |-> NoResponse]
    /\ writing = {}
    /\ reader = [r \in Readers |-> Unread]
    /\ invalidations = {}
    /\ overtaken = FALSE /\ torn = FALSE

-----------------------------------------------------------------------------
Request(r) ==
    /\ reader[r].at = "idle"
    /\ \E k \in Keys : reader' = [reader EXCEPT ![r] = [Unread EXCEPT !.at = "get", !.key = k]]
    /\ UNCHANGED <<version, responses, writing, invalidations, overtaken, torn>>

(* A hit is answered from the cache. *)
GetCached(r) ==
    /\ reader[r].at = "get"
    /\ reader' = [reader EXCEPT ![r] = IF responses[@.key] # NoResponse THEN Unread
                                         ELSE [@ EXCEPT !.at = "handle"]]
    /\ UNCHANGED <<version, responses, writing, invalidations, overtaken, torn>>

(* The handler reads the graph. *)
Handle(r) ==
    /\ reader[r].at = "handle"
    /\ reader' = [reader EXCEPT ![r].at = "set", ![r].data = version]
    /\ UNCHANGED <<version, responses, writing, invalidations, overtaken, torn>>

SetCached(r) ==
    /\ reader[r].at = "set"
    /\ responses' = [responses EXCEPT ![reader[r].key] = reader[r].data]
    /\ reader' = [reader EXCEPT ![r] = Unread]
    /\ UNCHANGED <<version, writing, invalidations, overtaken, torn>>

(* addEdge, editEdge, deleteEdge, addVertex, editVertex, deleteVertex: the  *)
(* graph is changed, and perhaps only a part of the write succeeds.         *)
Commit(w) ==
    /\ w \notin writing /\ version < MaxVersion
    /\ version' = version + 1
    /\ overtaken' = (overtaken \/ \E r \in Readers : reader[r].at = "set")
    /\ \/ writing' = writing \cup {w} /\ UNCHANGED torn
       \/ torn' = TRUE /\ UNCHANGED writing
    /\ UNCHANGED <<responses, reader, invalidations>>

(* When MongoDB has answered the invalidation is started. *)
AfterWrite(w) ==
    /\ w \in writing
    /\ writing' = writing \ {w}
    /\ invalidations' = invalidations \cup {[by |-> w, at |-> "keys", todo |-> {}]}
    /\ UNCHANGED <<version, responses, reader, overtaken, torn>>

GraphKeyOnly(found) == {GraphKey}

(* The keys that keys('graph-*') found, and the fixed ones. *)
KeysToDelete(found) == found \cup {GraphKey}

FindKeys(i) ==
    /\ i.at = "keys"
    /\ invalidations' = (invalidations \ {i}) \cup
         {[i EXCEPT !.at = "del",
                    !.todo = KeysToDelete({k \in Slices : responses[k] # NoResponse})]}
    /\ UNCHANGED <<version, responses, writing, reader, overtaken, torn>>

DeleteKey(i) ==
    /\ i.at = "del"
    /\ \E k \in i.todo :
          /\ responses' = [responses EXCEPT ![k] = NoResponse]
          /\ invalidations' = (invalidations \ {i}) \cup
               (IF i.todo = {k} THEN {} ELSE {[i EXCEPT !.todo = @ \ {k}]})
    /\ UNCHANGED <<version, writing, reader, overtaken, torn>>

CacheNext ==
    \/ \E r \in Readers : Request(r) \/ GetCached(r) \/ Handle(r) \/ SetCached(r)
    \/ \E w \in Writers : Commit(w) \/ AfterWrite(w)
    \/ \E i \in invalidations : FindKeys(i) \/ DeleteKey(i)

CacheSpec == CacheInit /\ [][CacheNext]_cacheVars

-----------------------------------------------------------------------------
(* Once the invalidations of the writes are through, no response is older   *)
(* than the graph, unless one was computed before a write and stored after  *)
(* it, or a write failed half way: such a response stays until the next     *)
(* write of the graph.                                                      *)
NothingStale ==
    writing = {} /\ invalidations = {} /\ ~overtaken /\ ~torn =>
        \A k \in Keys : responses[k] \in {NoResponse, version}

=============================================================================
