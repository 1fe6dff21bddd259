------------------------------ MODULE TypeaheadIndex ------------------------------
(***************************************************************************)
(* The typeahead index of the vertices in Redis (redis-composition/         *)
(* graph-redis.repository.ts).  After MongoDB has answered a write the       *)
(* entry of the vertex is set, by a call that nobody waits for, or removed  *)
(* at once; a reindex drops the index and fills it anew.  A call has the    *)
(* name from the copy of the vertex it was given, which for a reindex is    *)
(* what it read of all of them before, and the text from the collection,    *)
(* which it reads again.                                                    *)
(***************************************************************************)
EXTENDS Integers, FiniteSets

CONSTANTS
    Editors,             \* requests that write a vertex
    IndexedVertices,     \* ids, each used once
    MaxEdits, MaxReindex \* bounds

ASSUME IndexBounds == MaxEdits \in Nat /\ MaxReindex \in Nat

VARIABLES
    names,               \* the vertices in MongoDB, with the number of their name
    removed,             \* the vertices that were deleted
    entries,             \* the index: the name of a vertex, and that in its text
    editor,              \* the write each editor waits for
    upserts,             \* upsertVertexTypeaheadIndex() calls under way
    reindex,             \* reindexCache()
    edits,               \* counter
    raced,               \* history: vertices written while a call had a copy of them,
    cascaded             \* and those that went with another one

indexVars == <<names, removed, entries, editor, upserts, reindex, edits, raced, cascaded>>

Present == DOMAIN names

NoWrite == [kind |-> "none", vertex |-> 0, name |-> 0]

Empty == [v \in {} |-> 0]

IndexTypeOK ==
    /\ Present \subseteq IndexedVertices \ removed /\ DOMAIN entries \subseteq IndexedVertices
    /\ \A v \in Present : names[v] \in 0..MaxEdits
    /\ \A v \in DOMAIN entries : entries[v] \in [name : 0..MaxEdits, text : 0..MaxEdits]
    /\ \A e \in Editors : editor[e].kind \in {"none", "save", "delete"}
    /\ \A u \in upserts : u.at \in {"read", "set"} /\ u.vertex \in IndexedVertices
    /\ reindex.at \in {"idle", "drop", "read", "upsert", "fill"}
    /\ DOMAIN reindex.found \subseteq IndexedVertices
    /\ edits \in 0..MaxEdits /\ raced \subseteq IndexedVertices /\ cascaded \subseteq removed

IndexInit ==
    /\ names = Empty /\ removed = {}
    /\ entries = Empty
    /\ editor = [e \in Editors |-> NoWrite]
    /\ upserts = {}
    /\ reindex = [at |-> "idle", found |-> Empty, runs |-> MaxReindex]
    /\ edits = 0 /\ raced = {} /\ cascaded = {}

Kept(f, v) == f
Without(f, v) == [u \in DOMAIN f \ {v} |-> f[u]]
With(f, v, n) == [u \in DOMAIN f \cup {v} |-> IF u = v THEN n ELSE f[u]]

(* Somebody has a copy of v, or is about to set or to remove its entry. *)
UnderWay(v) ==
    \/ \E u \in upserts : u.vertex = v
    \/ \E e \in Editors : editor[e].kind # "none" /\ editor[e].vertex = v
    \/ v \in DOMAIN reindex.found

Racing(v) == IF UnderWay(v) THEN raced \cup {v} ELSE raced

(* addVertex and editVertex, up to the answer with the vertex as written. *)
SaveVertex(e, v) ==
    /\ editor[e].kind = "none" /\ edits < MaxEdits /\ v \notin removed
    /\ names' = With(names, v, edits + 1)
    /\ edits' = edits + 1
    /\ raced' = Racing(v)
    /\ editor' = [editor EXCEPT ![e] = [kind |-> "save", vertex |-> v, name |-> edits + 1]]
    /\ UNCHANGED <<removed, entries, upserts, reindex, cascaded>>

(* deleteVertex: first the vertices that go with the one that is deleted,   *)
(* one after the other; nobody removes their entries.                       *)
CascadeVertex(e, v) ==
    /\ editor[e].kind = "none" /\ v \in Present /\ Present # {v}
    /\ names' = Without(names, v)
    /\ removed' = removed \cup {v} /\ cascaded' = cascaded \cup {v}
    /\ UNCHANGED <<entries, editor, upserts, reindex, edits, raced>>

(* At last the vertex itself. *)
RemoveVertex(e, v) ==
    /\ editor[e].kind = "none" /\ v \in Present
    /\ names' = Without(names, v)
    /\ removed' = removed \cup {v}
    /\ raced' = Racing(v)
    /\ editor' = [editor EXCEPT ![e] = [kind |-> "delete", vertex |-> v, name |-> 0]]
    /\ UNCHANGED <<entries, upserts, reindex, edits, cascaded>>

(* upsertVertexTypeaheadIndex() of a copy of v. *)
UpsertOf(by, v, name) == [by |-> by, vertex |-> v, at |-> "read", name |-> name, text |-> 0]

UpdateIndex(e) ==
    LET v == editor[e].vertex IN
    /\ editor[e].kind # "none"
    /\ editor' = [editor EXCEPT ![e] = NoWrite]
    /\ IF editor[e].kind = "save"
         THEN upserts' = upserts \cup {UpsertOf(e, v, editor[e].name)} /\ UNCHANGED entries
         ELSE entries' = Without(entries, v) /\ UNCHANGED upserts
    /\ UNCHANGED <<names, removed, reindex, edits, raced, cascaded>>

(* The collection is read; without one the call ends. *)
ReadForEntry(u) ==
    /\ u.at = "read"
    /\ upserts' = (upserts \ {u}) \cup
         (IF u.vertex \in Present
            THEN {[u EXCEPT !.at = "set", !.text = names[u.vertex]]} ELSE {})
    /\ UNCHANGED <<names, removed, entries, editor, reindex, edits, raced, cascaded>>

SetEntry(u) ==
    /\ u.at = "set"
    /\ upserts' = upserts \ {u}
    /\ entries' = With(entries, u.vertex, [name |-> u.name, text |-> u.text])
    /\ UNCHANGED <<names, removed, editor, reindex, edits, raced, cascaded>>

-----------------------------------------------------------------------------
ReadFirst == [start |-> "read", read |-> "drop", drop |-> "upsert"]

(* dropIndex with its documents, create, and only then are the vertices read. *)
ReindexOrder == [start |-> "drop", drop |-> "read", read |-> "upsert"]

StartReindex ==
    /\ reindex.at = "idle" /\ reindex.runs > 0
    /\ reindex' = [reindex EXCEPT !.at = ReindexOrder.start, !.runs = @ - 1]
    /\ UNCHANGED <<names, removed, entries, editor, upserts, edits, raced, cascaded>>

DropIndex ==
    /\ reindex.at = "drop"
    /\ entries' = Empty
    /\ reindex' = [reindex EXCEPT !.at = ReindexOrder.drop]
    /\ UNCHANGED <<names, removed, editor, upserts, edits, raced, cascaded>>

(* getData(): from here on the reindex has these names. *)
ReadVertices ==
    /\ reindex.at = "read"
    /\ reindex' = [reindex EXCEPT !.at = ReindexOrder.read, !.found = names]
    /\ UNCHANGED <<names, removed, entries, editor, upserts, edits, raced, cascaded>>

(* Promise.all over the vertices. *)
FillIndex ==
    /\ reindex.at = "upsert"
    /\ upserts' = upserts \cup
         {UpsertOf("reindex", v, reindex.found[v]) : v \in DOMAIN reindex.found}
    /\ reindex' = [reindex EXCEPT !.at = "fill", !.found = Empty]
    /\ UNCHANGED <<names, removed, entries, editor, edits, raced, cascaded>>

(* The reads of its calls are waited for, the entries are not. *)
EndReindex ==
    /\ reindex.at = "fill"
    /\ \A u \in upserts : u.by = "reindex" => u.at = "set"
    /\ reindex' = [reindex EXCEPT !.at = "idle"]
    /\ UNCHANGED <<names, removed, entries, editor, upserts, edits, raced, cascaded>>

IndexNext ==
    \/ \E e \in Editors :
          \/ UpdateIndex(e)
          \/ \E v \in IndexedVertices :
                SaveVertex(e, v) \/ CascadeVertex(e, v) \/ RemoveVertex(e, v)
    \/ \E u \in upserts : ReadForEntry(u) \/ SetEntry(u)
    \/ StartReindex \/ DropIndex \/ ReadVertices \/ FillIndex \/ EndReindex

IndexSpec == IndexInit /\ [][IndexNext]_indexVars

-----------------------------------------------------------------------------
Settled == upserts = {} /\ reindex.at = "idle" /\ \A e \in Editors : editor[e].kind = "none"

(* Once the calls under way are through every vertex can be found, although *)
(* a reindex drops the index while vertices are added, renamed and deleted. *)
(* The entry of a vertex that was not written while a call - a reindex from *)
(* the moment it has read the vertices - had a copy of it says what the     *)
(* vertex does, and there is none of a vertex that a request deleted.       *)
IndexIsCurrent ==
    Settled =>
        /\ Present \subseteq DOMAIN entries
        /\ \A v \in Present \ raced : entries[v] = [name |-> names[v], text |-> names[v]]
        /\ DOMAIN entries \subseteq Present \cup raced \cup cascaded

=============================================================================
