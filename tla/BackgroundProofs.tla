----------------------------- MODULE BackgroundProofs -----------------------------
(***************************************************************************)
(* Proofs about the background work of the Broker: the response cache is    *)
(* never stale for longer than its invalidations take, for any number of    *)
(* keys, readers and writers; the typeahead index finds every vertex once   *)
(* the calls under way are through, whatever edits, deletions and           *)
(* reindexing overlap; the status of an OpenShift project never claims more *)
(* than has been copied, for any number of targets, mappings, requests and  *)
(* workers; and synchronising the collaborators of a repository ends with   *)
(* everybody in the role the graph gives, for any number of people, any     *)
(* list of roles and any failures.                                           *)
(***************************************************************************)
EXTENDS MCBackground, VaultProofs

-----------------------------------------------------------------------------
(* An invalidation that will still remove k: it has yet to look for keys, or *)
(* has found k.                                                             *)
WillRemove(i, k) == i.at = "keys" \/ (i.at = "del" /\ k \in i.todo)

(* What is cached, and what a reader is about to cache, is of the graph's    *)
(* version, or a write is on its way to removing it.                        *)
Fresh ==
    ~overtaken /\ ~torn =>
        /\ \A r \in Readers : reader[r].at = "set" => reader[r].data = version
        /\ \A k \in Keys : \/ responses[k] \in {NoResponse, version}
                           \/ writing # {}
                           \/ \E i \in invalidations : WillRemove(i, k)

CacheInv == CacheTypeOK /\ Fresh

LEMMA CacheInitInv == CacheInit => CacheInv
<1> SUFFICES ASSUME CacheInit PROVE CacheInv
  OBVIOUS
<1>1. GraphKey \in Keys /\ 0 \in 0 .. MaxVersion
  BY VersionsAreBounded DEF Keys
<1>2. reader \in [Readers -> [at : {"idle", "get", "handle", "set"}, key : Keys,
                              data : (0 .. MaxVersion) \cup {NoResponse}]]
  BY <1>1 DEF CacheInit, Unread
<1>3. \A r \in Readers : reader[r].at = "idle"
  BY DEF CacheInit, Unread
<1>4. responses \in [Keys -> (0 .. MaxVersion) \cup {NoResponse}]
      /\ \A k \in Keys : responses[k] = NoResponse
  BY DEF CacheInit
<1>5. CacheTypeOK
  BY <1>1, <1>2, <1>4 DEF CacheInit, CacheTypeOK
<1>6. Fresh
  BY <1>3, <1>4 DEF Fresh
<1> QED
  BY <1>5, <1>6 DEF CacheInv

LEMMA ReadersKeep ==
  ASSUME CacheInv, NEW r \in Readers, Request(r) \/ GetCached(r) \/ Handle(r)
  PROVE  CacheInv'
<1> DEFINE State == [at : {"idle", "get", "handle", "set"}, key : Keys,
                     data : (0 .. MaxVersion) \cup {NoResponse}]
<1>1. Unread \in State
  BY DEF Unread, Keys
<1>2. PICK s \in State : /\ reader' = [reader EXCEPT ![r] = s]
                         /\ s.at = "set" => s.data = version
  <2>1. CASE Request(r)
    <3>1. PICK k \in Keys : reader' = [reader EXCEPT ![r] = [Unread EXCEPT !.at = "get", !.key = k]]
      BY <2>1 DEF Request
    <3>2. [Unread EXCEPT !.at = "get", !.key = k] \in State
      BY <1>1
    <3>3. [Unread EXCEPT !.at = "get", !.key = k].at = "get"
      BY DEF Unread
    <3> QED
      BY <3>1, <3>2, <3>3
  <2>2. CASE GetCached(r)
    <3>1. [reader[r] EXCEPT !.at = "handle"] \in State
      BY DEF CacheInv, CacheTypeOK
    <3>2. Unread.at = "idle" /\ [reader[r] EXCEPT !.at = "handle"].at = "handle"
      BY DEF Unread, CacheInv, CacheTypeOK
    <3>3. \/ reader' = [reader EXCEPT ![r] = Unread]
          \/ reader' = [reader EXCEPT ![r] = [reader[r] EXCEPT !.at = "handle"]]
      BY <2>2 DEF GetCached
    <3> QED
      BY <1>1, <3>1, <3>2, <3>3
  <2>3. CASE Handle(r)
    <3> DEFINE s == [reader[r] EXCEPT !.at = "set", !.data = version]
    <3>1. reader' = [reader EXCEPT ![r] = s]
      BY <2>3 DEF Handle, CacheInv, CacheTypeOK
    <3>2. s \in State /\ s.data = version
      BY DEF CacheInv, CacheTypeOK
    <3> QED
      BY <3>1, <3>2
  <2> QED
    BY <2>1, <2>2, <2>3
<1>3. UNCHANGED <<version, responses, writing, invalidations, overtaken, torn>>
  BY DEF Request, GetCached, Handle
<1>4. CacheTypeOK'
  BY <1>2, <1>3 DEF CacheInv, CacheTypeOK, Keys
<1>5. \A q \in Readers : reader'[q] = IF q = r THEN s ELSE reader[q]
  BY <1>2 DEF CacheInv, CacheTypeOK
<1>6. Fresh'
  BY <1>2, <1>3, <1>5 DEF CacheInv, Fresh, WillRemove
<1> QED
  BY <1>4, <1>6 DEF CacheInv

LEMMA SetKeeps ==
  ASSUME CacheInv, NEW r \in Readers, SetCached(r)
  PROVE  CacheInv'
<1> DEFINE State == [at : {"idle", "get", "handle", "set"}, key : Keys,
                     data : (0 .. MaxVersion) \cup {NoResponse}]
<1>1. CacheTypeOK'
  <2>1. Unread \in State
    BY DEF Unread, Keys
  <2>2. reader' \in [Readers -> State]
    BY <2>1 DEF CacheInv, CacheTypeOK, SetCached
  <2>3. reader[r].key \in Keys /\ reader[r].data \in (0 .. MaxVersion) \cup {NoResponse}
    BY DEF CacheInv, CacheTypeOK
  <2>4. responses' \in [Keys -> (0 .. MaxVersion) \cup {NoResponse}]
    BY <2>3 DEF CacheInv, CacheTypeOK, SetCached
  <2> QED
    BY <2>2, <2>4 DEF CacheInv, CacheTypeOK, SetCached
<1>2. Fresh'
  BY DEF CacheInv, CacheTypeOK, SetCached, Unread, Fresh, WillRemove
<1> QED
  BY <1>1, <1>2 DEF CacheInv

(* A write makes every response stale, and is itself what will remove them. *)
LEMMA WritersKeep ==
  ASSUME CacheInv, NEW w \in Writers, Commit(w) \/ AfterWrite(w)
  PROVE  CacheInv'
<1>1. CASE Commit(w)
  <2>1. version' \in 0 .. MaxVersion /\ 0 .. MaxVersion \subseteq Nat
    BY <1>1, VersionsAreBounded DEF CacheInv, CacheTypeOK, Commit
  <2>2. overtaken' \in BOOLEAN
    BY <1>1 DEF Commit
  <2>3. CacheTypeOK'
    BY <1>1, <2>1, <2>2 DEF CacheInv, CacheTypeOK, Commit, Keys
  <2>4. Fresh'
    BY <1>1 DEF CacheInv, CacheTypeOK, Commit, Fresh
  <2> QED
    BY <2>3, <2>4 DEF CacheInv
<1>2. CASE AfterWrite(w)
  <2> DEFINE new == [by |-> w, at |-> "keys", todo |-> {}]
  <2>1. CacheTypeOK'
    BY <1>2 DEF CacheInv, CacheTypeOK, AfterWrite
  <2>2. new \in invalidations' /\ \A k \in Keys : WillRemove(new, k)
    BY <1>2 DEF AfterWrite, WillRemove
  <2>3. Fresh'
    BY <1>2, <2>2 DEF CacheInv, Fresh, AfterWrite, WillRemove
  <2> QED
    BY <2>1, <2>3 DEF CacheInv
<1> QED
  BY <1>1, <1>2

(* Whatever was stale and is not found by the look for keys was not cached. *)
LEMMA FindKeeps ==
  ASSUME CacheInv, NEW i \in invalidations, FindKeys(i)
  PROVE  CacheInv'
<1> DEFINE found == KeysToDelete({k \in Slices : responses[k] # NoResponse})
           next == [i EXCEPT !.at = "del", !.todo = found]
<1>1. found \subseteq Keys
  BY DEF KeysToDelete, Keys
<1>2. /\ next \in [by : Writers, at : {"keys", "del"}, todo : SUBSET Keys]
      /\ next.at = "del" /\ next.todo = found
  BY <1>1 DEF CacheInv, CacheTypeOK
<1>3. invalidations' = (invalidations \ {i}) \cup {next}
  BY DEF FindKeys
<1>4. CacheTypeOK'
  BY <1>2, <1>3 DEF CacheInv, CacheTypeOK, FindKeys
<1>5. ASSUME NEW k \in Keys, responses[k] \notin {NoResponse, version},
             NEW j \in invalidations, WillRemove(j, k)
      PROVE  \E m \in invalidations' : WillRemove(m, k)
  <2>1. k \in found
    BY <1>5 DEF KeysToDelete, Keys
  <2>2. CASE j = i
    BY <2>1, <1>2, <1>3 DEF WillRemove
  <2>3. CASE j # i
    BY <2>3, <1>3, <1>5
  <2> QED
    BY <2>2, <2>3
<1>6. Fresh'
  BY <1>5 DEF CacheInv, Fresh, FindKeys, WillRemove
<1> QED
  BY <1>4, <1>6 DEF CacheInv

LEMMA DeleteKeeps ==
  ASSUME CacheInv, NEW i \in invalidations, DeleteKey(i)
  PROVE  CacheInv'
<1>1. PICK d \in i.todo :
        /\ responses' = [responses EXCEPT ![d] = NoResponse]
        /\ invalidations' = (invalidations \ {i}) \cup
             (IF i.todo = {d} THEN {} ELSE {[i EXCEPT !.todo = @ \ {d}]})
  BY DEF DeleteKey
<1> DEFINE next == [i EXCEPT !.todo = @ \ {d}]
<1>2. i.at = "del" /\ i.by \in Writers /\ i.todo \subseteq Keys /\ d \in Keys
  BY DEF CacheInv, CacheTypeOK, DeleteKey
<1>3. /\ next \in [by : Writers, at : {"keys", "del"}, todo : SUBSET Keys]
      /\ next.at = "del" /\ next.todo = i.todo \ {d}
  BY <1>2 DEF CacheInv, CacheTypeOK
<1>4. CacheTypeOK'
  BY <1>1, <1>2, <1>3 DEF CacheInv, CacheTypeOK, DeleteKey
<1>5. ASSUME NEW k \in Keys, k # d, NEW j \in invalidations, WillRemove(j, k)
      PROVE  \E m \in invalidations' : WillRemove(m, k)
  <2>1. CASE j = i
    <3>1. k \in i.todo
      BY <1>2, <1>5, <2>1 DEF WillRemove
    <3>2. next \in invalidations' /\ k \in next.todo
      BY <1>1, <1>5, <3>1
    <3> QED
      BY <1>3, <3>2 DEF WillRemove
  <2>2. CASE j # i
    BY <2>2, <1>1, <1>5
  <2> QED
    BY <2>1, <2>2
<1>6. \A k \in Keys : responses'[k] = IF k = d THEN NoResponse ELSE responses[k]
  BY <1>1, <1>2 DEF CacheInv, CacheTypeOK
<1>7. Fresh'
  BY <1>5, <1>6 DEF CacheInv, Fresh, DeleteKey, WillRemove
<1> QED
  BY <1>4, <1>7 DEF CacheInv

LEMMA CacheInvariance == CacheInv /\ [CacheNext]_cacheVars => CacheInv'
<1>1. CASE CacheNext
  BY <1>1, ReadersKeep, SetKeeps, WritersKeep, FindKeeps, DeleteKeeps DEF CacheNext
<1>2. CASE UNCHANGED cacheVars
  BY <1>2 DEF cacheVars, CacheInv, CacheTypeOK, Fresh, WillRemove
<1> QED
  BY <1>1, <1>2

LEMMA FreshAtRest == CacheInv => NothingStale
  BY DEF CacheInv, Fresh, NothingStale

(* The cache keeps its shape. *)
THEOREM CacheTypeCorrect == CacheSpec => []CacheTypeOK
<1>1. CacheInv => CacheTypeOK
  BY DEF CacheInv
<1> QED
  BY CacheInitInv, CacheInvariance, <1>1, PTL DEF CacheSpec

(* Once the invalidations that nobody waits for are through, no response is  *)
(* older than the graph, whatever the keys, readers and writers: a response  *)
(* that is has been overtaken by a write on its way to the cache, or the     *)
(* write failed half way.                                                    *)
THEOREM CacheIsFresh == CacheSpec => []NothingStale
  BY CacheInitInv, CacheInvariance, FreshAtRest, PTL DEF CacheSpec

-----------------------------------------------------------------------------
(* The entry of v will be set: by a call under way, by the one an editor is  *)
(* about to make, or by a reindex that has yet to read v or has read it.     *)
WillBeSet(v) ==
    \/ \E u \in upserts : u.vertex = v
    \/ \E e \in Editors : editor[e].kind = "save" /\ editor[e].vertex = v
    \/ reindex.at \in {"drop", "read"}
    \/ v \in DOMAIN reindex.found

Numbers == 0 .. MaxEdits

Entry == [name : Numbers, text : Numbers]

Upsert == [by : Editors \cup {"reindex"}, vertex : IndexedVertices, at : {"read", "set"},
           name : Numbers, text : Numbers]

Write == [kind : {"none", "save", "delete"}, vertex : IndexedVertices \cup {0}, name : Numbers]

Reindexing == [at : {"idle", "drop", "read", "upsert", "fill"},
               found : UNION {[vs -> Numbers] : vs \in SUBSET IndexedVertices}, runs : Nat]

IndexIsTyped ==
    /\ names \in [Present -> Numbers] /\ Present \subseteq IndexedVertices
    /\ removed \subseteq IndexedVertices /\ Present \cap removed = {}
    /\ entries \in [DOMAIN entries -> Entry] /\ DOMAIN entries \subseteq IndexedVertices
    /\ editor \in [Editors -> Write]
    /\ \A e \in Editors : editor[e].kind # "none" => editor[e].vertex \in IndexedVertices
    /\ upserts \subseteq Upsert
    /\ reindex \in Reindexing
    /\ edits \in Numbers /\ raced \subseteq IndexedVertices /\ cascaded \subseteq removed

HeldWhileFilling == reindex.at # "upsert" => DOMAIN reindex.found = {}

DeletedIsGone == \A e \in Editors : editor[e].kind = "delete" => editor[e].vertex \in removed

(* Every copy of v says what MongoDB does.                                  *)
CopiesAgree(v) ==
    /\ \A u \in upserts : u.vertex = v => u.name = names[v] /\ (u.at = "set" => u.text = names[v])
    /\ \A e \in Editors : editor[e].kind = "save" /\ editor[e].vertex = v => editor[e].name = names[v]
    /\ v \in DOMAIN reindex.found => reindex.found[v] = names[v]

EntryIsRight(v) == v \in DOMAIN entries => entries[v] = [name |-> names[v], text |-> names[v]]

Current == \A v \in Present \ raced : CopiesAgree(v) /\ (EntryIsRight(v) \/ UnderWay(v))

(* Nobody sets the entry of v, and if there is one somebody removes it.     *)
NobodySets(v) ==
    /\ \A u \in upserts : u.vertex # v
    /\ \A e \in Editors : editor[e].vertex = v => editor[e].kind # "save"
    /\ v \notin DOMAIN reindex.found
    /\ v \in DOMAIN entries => \E e \in Editors : editor[e].kind = "delete" /\ editor[e].vertex = v

Gone == IndexedVertices \ (Present \cup raced \cup cascaded)

PresentIsFound == \A v \in Present : v \in DOMAIN entries \/ WillBeSet(v)

IndexInv ==
    /\ IndexIsTyped /\ HeldWhileFilling /\ DeletedIsGone /\ PresentIsFound
    /\ Current /\ \A v \in Gone : NobodySets(v)

-----------------------------------------------------------------------------
LEMMA FoundIsTyped ==
  ASSUME IndexIsTyped
  PROVE  /\ reindex.found \in [DOMAIN reindex.found -> Numbers]
         /\ DOMAIN reindex.found \subseteq IndexedVertices
<1>1. PICK vs \in SUBSET IndexedVertices : reindex.found \in [vs -> Numbers]
  BY DEF IndexIsTyped, Reindexing
<1> QED
  BY <1>1

LEMMA EmptyFacts ==
  /\ DOMAIN Empty = {} /\ \A S : Empty \in [{} -> S]
  /\ Empty \in UNION {[vs -> Numbers] : vs \in SUBSET IndexedVertices}
<1>1. DOMAIN Empty = {} /\ \A S : Empty \in [{} -> S]
  BY DEF Empty
<1>2. Empty \in [{} -> Numbers] /\ {} \in SUBSET IndexedVertices
  BY <1>1
<1> QED
  BY <1>1, <1>2

LEMMA IndexInitInv == IndexInit => IndexInv
<1> SUFFICES ASSUME IndexInit PROVE IndexInv
  OBVIOUS
<1>1. DOMAIN names = {} /\ DOMAIN entries = {} /\ DOMAIN reindex.found = {}
  BY EmptyFacts DEF IndexInit
<1>2. \A e \in Editors : editor[e].kind = "none"
  BY DEF IndexInit, NoWrite
<1>3. IndexIsTyped
  <2>1. names \in [{} -> Numbers] /\ entries \in [{} -> Entry]
    BY EmptyFacts DEF IndexInit
  <2>2. 0 \in Numbers /\ NoWrite \in Write
    BY IndexBounds DEF NoWrite, Write, Numbers
  <2>3. reindex \in Reindexing
    BY IndexBounds, EmptyFacts DEF IndexInit, Reindexing
  <2> QED
    BY <1>1, <1>2, <2>1, <2>2, <2>3 DEF IndexInit, IndexIsTyped, Present
<1>4. upserts = {}
  BY DEF IndexInit
<1> QED
  BY <1>1, <1>2, <1>3, <1>4 DEF IndexInv, HeldWhileFilling, DeletedIsGone, PresentIsFound, Current,
                                NobodySets, Present

LEMMA IndexSave ==
  ASSUME IndexInv, NEW e \in Editors, NEW v \in IndexedVertices, SaveVertex(e, v)
  PROVE  IndexInv'
<1> PICK n : n = edits + 1
  OBVIOUS
<1> PICK w : w = [kind |-> "save", vertex |-> v, name |-> n]
  OBVIOUS
<1>1. /\ names' = With(names, v, n) /\ edits' = n /\ v \notin removed /\ edits < MaxEdits
      /\ raced' = Racing(v) /\ editor[e].kind = "none"
      /\ editor' = [editor EXCEPT ![e] = w]
      /\ removed' = removed /\ entries' = entries /\ upserts' = upserts /\ reindex' = reindex
      /\ cascaded' = cascaded
  BY DEF SaveVertex
<1>2. IndexIsTyped
  BY DEF IndexInv
<1>3. n \in Numbers
  BY <1>1, <1>2, IndexBounds DEF IndexIsTyped, Numbers
<1>4. /\ Present' = Present \cup {v} /\ names' \in [Present' -> Numbers]
      /\ names'[v] = n /\ \A u \in Present : u # v => names'[u] = names[u]
  <2> PICK g : g = names'
    OBVIOUS
  <2>1. names \in [DOMAIN names -> Numbers]
    BY <1>2 DEF IndexIsTyped, Present
  <2>2. /\ DOMAIN g = DOMAIN names \cup {v} /\ g \in [DOMAIN g -> Numbers]
        /\ g[v] = n /\ \A u \in DOMAIN names : u # v => g[u] = names[u]
    BY <1>1, <1>3, <2>1 DEF With
  <2> QED
    BY <2>2 DEF Present
<1>5. /\ w \in Write /\ w.kind = "save" /\ w.vertex = v /\ w.name = n
      /\ editor' \in [Editors -> Write]
      /\ \A d \in Editors : editor'[d] = IF d = e THEN w ELSE editor[d]
  BY <1>1, <1>2, <1>3 DEF IndexIsTyped, Write
<1>6. raced' = IF UnderWay(v) THEN raced \cup {v} ELSE raced
  BY <1>1 DEF Racing
<1>7. IndexIsTyped'
  BY <1>1, <1>2, <1>3, <1>4, <1>5, <1>6 DEF IndexIsTyped
<1>8. DeletedIsGone' /\ HeldWhileFilling'
  BY <1>1, <1>5 DEF IndexInv, DeletedIsGone, HeldWhileFilling
<1>9. PresentIsFound'
  BY <1>1, <1>4, <1>5 DEF IndexInv, PresentIsFound, WillBeSet
<1>10. ASSUME NEW x \in Present' \ raced' PROVE CopiesAgree(x)' /\ (EntryIsRight(x) \/ UnderWay(x))'
  <2>1. CASE x = v
    <3>1. ~UnderWay(v)
      BY <1>6, <1>10, <2>1
    <3>2. \A u \in upserts : u.vertex # v
      BY <3>1 DEF UnderWay
    <3>3. \A d \in Editors : editor[d].kind = "none" \/ editor[d].vertex # v
      BY <3>1 DEF UnderWay
    <3>4. v \notin DOMAIN reindex.found
      BY <3>1 DEF UnderWay
    <3>5. CopiesAgree(v)'
      BY <1>1, <1>4, <1>5, <3>2, <3>3, <3>4 DEF CopiesAgree
    <3>6. UnderWay(v)'
      BY <1>5 DEF UnderWay
    <3> QED
      BY <2>1, <3>5, <3>6
  <2>2. CASE x # v
    <3>1. x \in Present \ raced /\ names'[x] = names[x]
      BY <1>4, <1>6, <1>10, <2>2
    <3>2. CopiesAgree(x) /\ (EntryIsRight(x) \/ UnderWay(x))
      BY <3>1 DEF IndexInv, Current
    <3>3. CopiesAgree(x)'
      BY <1>1, <1>5, <2>2, <3>1, <3>2 DEF CopiesAgree
    <3>4. UnderWay(x) => UnderWay(x)'
      BY <1>1, <1>5 DEF UnderWay
    <3>5. EntryIsRight(x) => EntryIsRight(x)'
      BY <1>1, <3>1 DEF EntryIsRight
    <3> QED
      BY <3>2, <3>3, <3>4, <3>5
  <2> QED
    BY <2>1, <2>2
<1>11. ASSUME NEW x \in Gone' PROVE NobodySets(x)'
  <2>1. x \in Gone /\ x # v
    BY <1>1, <1>4, <1>6, <1>11 DEF Gone
  <2>2. NobodySets(x)
    BY <2>1 DEF IndexInv
  <2> QED
    BY <1>1, <1>5, <2>1, <2>2 DEF NobodySets
<1> QED
  BY <1>7, <1>8, <1>9, <1>10, <1>11 DEF IndexInv, Current

(* What is left of the other vertices when v is deleted. *)
LEMMA IndexDelete ==
  ASSUME IndexInv, NEW v \in Present, names' = Without(names, v), removed' = removed \cup {v},
         entries' = entries, upserts' = upserts, reindex' = reindex, edits' = edits,
         raced' \subseteq IndexedVertices, raced \subseteq raced',
         cascaded' \subseteq removed', cascaded \subseteq cascaded',
         \A x \in IndexedVertices : x # v => (x \in raced' <=> x \in raced)
                                             /\ (x \in cascaded' <=> x \in cascaded),
         editor' \in [Editors -> Write],
         \A e \in Editors : \/ editor'[e] = editor[e]
                            \/ editor[e].kind = "none" /\ editor'[e].kind = "delete"
                               /\ editor'[e].vertex = v,
         v \in Gone' => NobodySets(v)'
  PROVE  IndexInv'
<1>1. IndexIsTyped
  BY DEF IndexInv
<1>2. /\ Present' = Present \ {v} /\ names' \in [Present' -> Numbers]
      /\ \A u \in Present' : names'[u] = names[u]
  <2> PICK g : g = names'
    OBVIOUS
  <2>1. names \in [DOMAIN names -> Numbers]
    BY <1>1 DEF IndexIsTyped, Present
  <2>2. /\ DOMAIN g = DOMAIN names \ {v} /\ g \in [DOMAIN g -> Numbers]
        /\ \A u \in DOMAIN g : g[u] = names[u]
    BY <2>1 DEF Without
  <2> QED
    BY <2>2 DEF Present
<1>3. v \in IndexedVertices
  BY <1>1 DEF IndexIsTyped
<1>4. IndexIsTyped'
  BY <1>1, <1>2, <1>3 DEF IndexIsTyped
<1>5. DeletedIsGone' /\ HeldWhileFilling'
  BY DEF IndexInv, DeletedIsGone, HeldWhileFilling
<1>6. PresentIsFound'
  BY <1>2 DEF IndexInv, PresentIsFound, WillBeSet
<1>7. ASSUME NEW x \in Present' \ raced' PROVE CopiesAgree(x)' /\ (EntryIsRight(x) \/ UnderWay(x))'
  <2>1. x \in Present \ raced /\ x # v /\ names'[x] = names[x]
    BY <1>2, <1>7
  <2>2. CopiesAgree(x) /\ (EntryIsRight(x) \/ UnderWay(x))
    BY <2>1 DEF IndexInv, Current
  <2>3. CopiesAgree(x)'
    BY <2>1, <2>2 DEF CopiesAgree
  <2>4. UnderWay(x) => UnderWay(x)'
    BY <2>1 DEF UnderWay
  <2>5. EntryIsRight(x) => EntryIsRight(x)'
    BY <2>1 DEF EntryIsRight
  <2> QED
    BY <2>2, <2>3, <2>4, <2>5
<1>8. ASSUME NEW x \in Gone', x # v PROVE NobodySets(x)'
  <2>1. x \in Gone
    BY <1>2, <1>8 DEF Gone
  <2>2. NobodySets(x)
    BY <2>1 DEF IndexInv
  <2> QED
    BY <1>8, <2>2 DEF NobodySets
<1> QED
  BY <1>4, <1>5, <1>6, <1>7, <1>8 DEF IndexInv, Current

LEMMA IndexCascade ==
  ASSUME IndexInv, NEW e \in Editors, NEW v \in IndexedVertices, CascadeVertex(e, v)
  PROVE  IndexInv'
<1>1. IndexIsTyped
  BY DEF IndexInv
<1>2. editor' \in [Editors -> Write] /\ \A d \in Editors : editor'[d] = editor[d]
  BY <1>1 DEF CascadeVertex, IndexIsTyped
<1>3. v \notin Gone'
  BY DEF CascadeVertex, Gone
<1>4. /\ v \in Present /\ names' = Without(names, v) /\ removed' = removed \cup {v}
      /\ entries' = entries /\ upserts' = upserts /\ reindex' = reindex /\ edits' = edits
      /\ raced' = raced /\ cascaded' = cascaded \cup {v}
  BY DEF CascadeVertex
<1>5. raced \subseteq IndexedVertices /\ cascaded \subseteq removed
  BY <1>1 DEF IndexIsTyped
<1> QED
  BY <1>2, <1>3, <1>4, <1>5, IndexDelete

LEMMA IndexRemove ==
  ASSUME IndexInv, NEW e \in Editors, NEW v \in IndexedVertices, RemoveVertex(e, v)
  PROVE  IndexInv'
<1> PICK w : w = [kind |-> "delete", vertex |-> v, name |-> 0]
  OBVIOUS
<1>1. IndexIsTyped
  BY DEF IndexInv
<1>2. /\ v \in Present /\ names' = Without(names, v) /\ removed' = removed \cup {v}
      /\ entries' = entries /\ upserts' = upserts /\ reindex' = reindex /\ edits' = edits
      /\ raced' = Racing(v) /\ cascaded' = cascaded
      /\ editor[e].kind = "none" /\ editor' = [editor EXCEPT ![e] = w]
  BY DEF RemoveVertex
<1>3. 0 \in Numbers
  BY IndexBounds DEF Numbers
<1>4. w \in Write /\ w.kind = "delete" /\ w.vertex = v
  BY <1>3 DEF Write
<1>5. /\ editor' \in [Editors -> Write]
      /\ \A d \in Editors : editor'[d] = IF d = e THEN w ELSE editor[d]
  BY <1>1, <1>2, <1>4 DEF IndexIsTyped
<1>6. raced' = IF UnderWay(v) THEN raced \cup {v} ELSE raced
  BY <1>2 DEF Racing
<1>7. ASSUME v \in Gone' PROVE NobodySets(v)'
  <2>1. ~UnderWay(v)
    BY <1>6, <1>7 DEF Gone
  <2>2. \A u \in upserts : u.vertex # v
    BY <2>1 DEF UnderWay
  <2>3. \A d \in Editors : editor[d].kind = "none" \/ editor[d].vertex # v
    BY <2>1 DEF UnderWay
  <2>4. v \notin DOMAIN reindex.found
    BY <2>1 DEF UnderWay
  <2> QED
    BY <1>2, <1>4, <1>5, <2>2, <2>3, <2>4 DEF NobodySets
<1>8. raced \subseteq IndexedVertices /\ cascaded \subseteq removed
  BY <1>1 DEF IndexIsTyped
<1> QED
  BY <1>2, <1>4, <1>5, <1>6, <1>7, <1>8, IndexDelete

LEMMA IndexUpdate ==
  ASSUME IndexInv, NEW e \in Editors, UpdateIndex(e)
  PROVE  IndexInv'
<1> PICK v : v = editor[e].vertex
  OBVIOUS
<1> PICK n : n = editor[e].name
  OBVIOUS
<1>1. IndexIsTyped /\ v \in IndexedVertices /\ n \in Numbers
  BY DEF IndexInv, IndexIsTyped, UpdateIndex, Write
<1>2. /\ editor[e].kind # "none" /\ editor' = [editor EXCEPT ![e] = NoWrite]
      /\ names' = names /\ Present' = Present /\ removed' = removed /\ reindex' = reindex
      /\ edits' = edits /\ raced' = raced /\ cascaded' = cascaded
  BY DEF UpdateIndex, Present
<1>3. /\ editor' \in [Editors -> Write]
      /\ \A d \in Editors : IF d = e THEN editor'[d].kind = "none" ELSE editor'[d] = editor[d]
  <2>1. NoWrite \in Write /\ NoWrite.kind = "none"
    BY IndexBounds DEF NoWrite, Write, Numbers
  <2> QED
    BY <1>1, <1>2, <2>1 DEF IndexIsTyped
<1>4. DeletedIsGone' /\ HeldWhileFilling'
  BY <1>2, <1>3 DEF IndexInv, DeletedIsGone, HeldWhileFilling
<1>5. Gone' = Gone
  BY <1>2 DEF Gone
<1>6. CASE editor[e].kind = "save"
  <2> PICK w : w = UpsertOf(e, v, n)
    OBVIOUS
  <2>1. upserts' = upserts \cup {w} /\ entries' = entries
    BY <1>6 DEF UpdateIndex
  <2>2. w \in Upsert /\ w.vertex = v /\ w.at = "read" /\ w.name = n
    BY <1>1, IndexBounds DEF Upsert, UpsertOf, Numbers
  <2>3. IndexIsTyped'
    BY <1>1, <1>2, <1>3, <2>1, <2>2 DEF IndexIsTyped
  <2>4. PresentIsFound'
    BY <1>2, <1>3, <2>1, <2>2 DEF IndexInv, PresentIsFound, WillBeSet
  <2>5. ASSUME NEW x \in Present \ raced PROVE CopiesAgree(x)' /\ (EntryIsRight(x) \/ UnderWay(x))'
    <3>1. CopiesAgree(x) /\ (EntryIsRight(x) \/ UnderWay(x))
      BY DEF IndexInv, Current
    <3>2. x = v => n = names[x]
      BY <1>6, <3>1 DEF CopiesAgree
    <3>3. \A u \in upserts' : u.vertex = x => u.name = names[x] /\ (u.at = "set" => u.text = names[x])
      BY <2>1, <2>2, <3>1, <3>2 DEF CopiesAgree
    <3>4. CopiesAgree(x)'
      BY <1>2, <1>3, <3>1, <3>3 DEF CopiesAgree
    <3>5. UnderWay(x) => UnderWay(x)'
      BY <1>2, <1>3, <2>1, <2>2 DEF UnderWay
    <3>6. EntryIsRight(x) => EntryIsRight(x)'
      BY <1>2, <2>1 DEF EntryIsRight
    <3> QED
      BY <3>1, <3>4, <3>5, <3>6
  <2>6. ASSUME NEW x \in Gone PROVE NobodySets(x)'
    <3>1. NobodySets(x) /\ x # v
      BY <1>6 DEF IndexInv, NobodySets
    <3> QED
      BY <1>2, <1>3, <1>6, <2>1, <2>2, <3>1 DEF NobodySets
  <2> QED
    BY <1>2, <1>4, <1>5, <2>3, <2>4, <2>5, <2>6 DEF IndexInv, Current
<1>7. CASE editor[e].kind = "delete"
  <2>1. entries' = Without(entries, v) /\ upserts' = upserts
    BY <1>7 DEF UpdateIndex
  <2>2. /\ DOMAIN entries' = DOMAIN entries \ {v} /\ entries' \in [DOMAIN entries' -> Entry]
        /\ \A u \in DOMAIN entries' : entries'[u] = entries[u]
    <3> PICK g : g = entries'
      OBVIOUS
    <3>1. entries \in [DOMAIN entries -> Entry]
      BY <1>1 DEF IndexIsTyped
    <3>2. /\ DOMAIN g = DOMAIN entries \ {v} /\ g \in [DOMAIN g -> Entry]
          /\ \A u \in DOMAIN g : g[u] = entries[u]
      BY <2>1, <3>1 DEF Without
    <3> QED
      BY <3>2
  <2>3. v \notin Present
    BY <1>1, <1>7 DEF IndexInv, DeletedIsGone, IndexIsTyped
  <2>4. IndexIsTyped'
    BY <1>1, <1>2, <1>3, <2>1, <2>2 DEF IndexIsTyped
  <2>5. PresentIsFound'
    BY <1>2, <1>3, <1>7, <2>1, <2>2, <2>3 DEF IndexInv, PresentIsFound, WillBeSet
  <2>6. ASSUME NEW x \in Present \ raced PROVE CopiesAgree(x)' /\ (EntryIsRight(x) \/ UnderWay(x))'
    <3>1. CopiesAgree(x) /\ (EntryIsRight(x) \/ UnderWay(x)) /\ x # v
      BY <2>3 DEF IndexInv, Current
    <3>2. CopiesAgree(x)'
      BY <1>2, <1>3, <2>1, <3>1 DEF CopiesAgree
    <3>3. UnderWay(x) => UnderWay(x)'
      BY <1>2, <1>3, <2>1, <3>1 DEF UnderWay
    <3>4. EntryIsRight(x) => EntryIsRight(x)'
      BY <1>2, <2>2 DEF EntryIsRight
    <3> QED
      BY <3>1, <3>2, <3>3, <3>4
  <2>7. ASSUME NEW x \in Gone PROVE NobodySets(x)'
    <3>1. NobodySets(x)
      BY DEF IndexInv
    <3> QED
      BY <1>2, <1>3, <2>1, <2>2, <3>1 DEF NobodySets
  <2> QED
    BY <1>2, <1>4, <1>5, <2>4, <2>5, <2>6, <2>7 DEF IndexInv, Current
<1>8. editor[e].kind \in {"none", "save", "delete"}
  BY <1>1 DEF IndexIsTyped, Write
<1> QED
  BY <1>2, <1>6, <1>7, <1>8

LEMMA IndexRead ==
  ASSUME IndexInv, NEW u \in upserts, ReadForEntry(u)
  PROVE  IndexInv'
<1> PICK v : v = u.vertex
  OBVIOUS
<1> PICK w : w = [u EXCEPT !.at = "set", !.text = names[v]]
  OBVIOUS
<1>1. /\ u.at = "read" /\ upserts' = (upserts \ {u}) \cup (IF v \in Present THEN {w} ELSE {})
      /\ names' = names /\ Present' = Present /\ removed' = removed /\ entries' = entries
      /\ editor' = editor /\ reindex' = reindex /\ edits' = edits /\ raced' = raced
      /\ cascaded' = cascaded
  BY DEF ReadForEntry, Present
<1>2. IndexIsTyped /\ u \in Upsert /\ v \in IndexedVertices
  BY DEF IndexInv, IndexIsTyped, Upsert
<1>3. v \in Present => w \in Upsert /\ w.vertex = v /\ w.name = u.name /\ w.text = names[v]
  <2> SUFFICES ASSUME v \in Present
               PROVE  w \in Upsert /\ w.vertex = v /\ w.name = u.name /\ w.text = names[v]
    OBVIOUS
  <2> PICK m \in Numbers : m = names[v]
    BY <1>2 DEF IndexIsTyped
  <2>1. w = [u EXCEPT !.at = "set", !.text = m]
    OBVIOUS
  <2> QED
    BY <1>2, <2>1 DEF Upsert
<1>4. IndexIsTyped'
  <2>1. upserts' \subseteq Upsert
    BY <1>1, <1>2, <1>3 DEF IndexIsTyped
  <2> QED
    BY <1>1, <1>2, <2>1 DEF IndexIsTyped
<1>5. DeletedIsGone' /\ HeldWhileFilling'
  BY <1>1 DEF IndexInv, DeletedIsGone, HeldWhileFilling
<1>6. PresentIsFound'
  BY <1>1, <1>3 DEF IndexInv, PresentIsFound, WillBeSet
<1>7. ASSUME NEW x \in Present \ raced PROVE CopiesAgree(x)' /\ (EntryIsRight(x) \/ UnderWay(x))'
  <2>1. CopiesAgree(x) /\ (EntryIsRight(x) \/ UnderWay(x))
    BY DEF IndexInv, Current
  <2>2. ASSUME NEW y \in upserts', y.vertex = x
        PROVE  y.name = names[x] /\ (y.at = "set" => y.text = names[x])
    <3>1. CASE y \in upserts
      BY <2>1, <2>2, <3>1 DEF CopiesAgree
    <3>2. CASE y = w /\ v \in Present
      BY <1>3, <2>1, <2>2, <3>2 DEF CopiesAgree
    <3> QED
      BY <1>1, <3>1, <3>2
  <2>3. CopiesAgree(x)'
    BY <1>1, <2>1, <2>2 DEF CopiesAgree
  <2>4. UnderWay(x) => UnderWay(x)'
    BY <1>1, <1>3 DEF UnderWay
  <2>5. EntryIsRight(x) => EntryIsRight(x)'
    BY <1>1 DEF EntryIsRight
  <2> QED
    BY <2>1, <2>3, <2>4, <2>5
<1>8. ASSUME NEW x \in Gone PROVE NobodySets(x)'
  <2>1. NobodySets(x) /\ x \notin Present
    BY DEF IndexInv, Gone
  <2> QED
    BY <1>1, <1>3, <2>1 DEF NobodySets
<1>9. Gone' = Gone
  BY <1>1 DEF Gone
<1> QED
  BY <1>1, <1>4, <1>5, <1>6, <1>7, <1>8, <1>9 DEF IndexInv, Current

LEMMA IndexSet ==
  ASSUME IndexInv, NEW u \in upserts, SetEntry(u)
  PROVE  IndexInv'
<1> PICK v : v = u.vertex
  OBVIOUS
<1> PICK n : n = [name |-> u.name, text |-> u.text]
  OBVIOUS
<1>1. /\ u.at = "set" /\ upserts' = upserts \ {u} /\ entries' = With(entries, v, n)
      /\ names' = names /\ Present' = Present /\ removed' = removed
      /\ editor' = editor /\ reindex' = reindex /\ edits' = edits /\ raced' = raced
      /\ cascaded' = cascaded
  BY DEF SetEntry, Present
<1>2. IndexIsTyped /\ u \in Upsert /\ v \in IndexedVertices /\ n \in Entry
  BY DEF IndexInv, IndexIsTyped, Upsert, Entry
<1>3. /\ DOMAIN entries' = DOMAIN entries \cup {v} /\ entries' \in [DOMAIN entries' -> Entry]
      /\ entries'[v] = n /\ \A x \in DOMAIN entries : x # v => entries'[x] = entries[x]
  <2> PICK g : g = entries'
    OBVIOUS
  <2>1. entries \in [DOMAIN entries -> Entry]
    BY <1>2 DEF IndexIsTyped
  <2>2. /\ DOMAIN g = DOMAIN entries \cup {v} /\ g \in [DOMAIN g -> Entry]
        /\ g[v] = n /\ \A x \in DOMAIN entries : x # v => g[x] = entries[x]
    BY <1>1, <1>2, <2>1 DEF With
  <2> QED
    BY <2>2
<1>4. IndexIsTyped'
  BY <1>1, <1>2, <1>3 DEF IndexIsTyped
<1>5. DeletedIsGone' /\ HeldWhileFilling'
  BY <1>1 DEF IndexInv, DeletedIsGone, HeldWhileFilling
<1>6. PresentIsFound'
  BY <1>1, <1>3 DEF IndexInv, PresentIsFound, WillBeSet
<1>7. ASSUME NEW x \in Present \ raced PROVE CopiesAgree(x)' /\ (EntryIsRight(x) \/ UnderWay(x))'
  <2>1. CopiesAgree(x) /\ (EntryIsRight(x) \/ UnderWay(x))
    BY DEF IndexInv, Current
  <2>2. CopiesAgree(x)'
    BY <1>1, <2>1 DEF CopiesAgree
  <2>3. CASE x = v
    <3>1. n = [name |-> names[x], text |-> names[x]]
      BY <1>1, <2>1, <2>3 DEF CopiesAgree
    <3>2. EntryIsRight(x)'
      BY <1>1, <1>3, <2>3, <3>1 DEF EntryIsRight
    <3> QED
      BY <2>2, <3>2
  <2>4. CASE x # v
    <3>1. UnderWay(x) => UnderWay(x)'
      BY <1>1, <2>4 DEF UnderWay
    <3>2. EntryIsRight(x) => EntryIsRight(x)'
      BY <1>1, <1>3, <2>4 DEF EntryIsRight
    <3> QED
      BY <2>1, <2>2, <3>1, <3>2
  <2> QED
    BY <2>3, <2>4
<1>8. ASSUME NEW x \in Gone PROVE NobodySets(x)'
  <2>1. NobodySets(x) /\ x # v
    BY DEF IndexInv, NobodySets
  <2> QED
    BY <1>1, <1>3, <2>1 DEF NobodySets
<1>9. Gone' = Gone
  BY <1>1 DEF Gone
<1> QED
  BY <1>1, <1>4, <1>5, <1>6, <1>7, <1>8, <1>9 DEF IndexInv, Current

(* A step of the reindex that drops nothing and reads nothing. *)
LEMMA IndexTurns ==
  ASSUME IndexInv, StartReindex \/ EndReindex
  PROVE  IndexInv'
<1>1. IndexIsTyped
  BY DEF IndexInv
<1>2. /\ names' = names /\ Present' = Present /\ removed' = removed /\ entries' = entries
      /\ editor' = editor /\ edits' = edits /\ raced' = raced /\ upserts' = upserts
      /\ cascaded' = cascaded
  BY DEF StartReindex, EndReindex, Present
<1>3. /\ reindex' \in Reindexing /\ reindex'.found = reindex.found
      /\ \/ reindex.at = "idle" /\ reindex'.at = "drop"
         \/ reindex.at = "fill" /\ reindex'.at = "idle"
  <2>1. CASE StartReindex
    <3>1. reindex.runs - 1 \in Nat
      BY <1>1, <2>1 DEF StartReindex, IndexIsTyped, Reindexing
    <3>2. reindex' = [reindex EXCEPT !.at = "drop", !.runs = @ - 1]
      BY <2>1 DEF StartReindex, ReindexOrder
    <3> QED
      BY <1>1, <2>1, <3>1, <3>2 DEF StartReindex, IndexIsTyped, Reindexing
  <2>2. CASE EndReindex
    BY <1>1, <2>2 DEF EndReindex, IndexIsTyped, Reindexing
  <2> QED
    BY <2>1, <2>2
<1>4. IndexIsTyped'
  BY <1>1, <1>2, <1>3 DEF IndexIsTyped
<1>5. PresentIsFound'
  BY <1>2, <1>3 DEF IndexInv, PresentIsFound, WillBeSet
<1>6. DeletedIsGone' /\ HeldWhileFilling'
  BY <1>2, <1>3 DEF IndexInv, DeletedIsGone, HeldWhileFilling
<1>7. Current'
  BY <1>2, <1>3 DEF IndexInv, Current, CopiesAgree, EntryIsRight, UnderWay
<1>8. (\A v \in Gone : NobodySets(v))'
  BY <1>2, <1>3 DEF IndexInv, Gone, NobodySets
<1> QED
  BY <1>4, <1>5, <1>6, <1>7, <1>8 DEF IndexInv

LEMMA IndexReadAll ==
  ASSUME IndexInv, ReadVertices
  PROVE  IndexInv'
<1>1. IndexIsTyped
  BY DEF IndexInv
<1>2. /\ names' = names /\ Present' = Present /\ removed' = removed /\ entries' = entries
      /\ editor' = editor /\ edits' = edits /\ raced' = raced /\ upserts' = upserts
      /\ cascaded' = cascaded /\ reindex.at = "read"
      /\ reindex' = [reindex EXCEPT !.at = "upsert", !.found = names]
  BY DEF ReadVertices, Present, ReindexOrder
<1>3. names \in UNION {[vs -> Numbers] : vs \in SUBSET IndexedVertices}
  BY <1>1 DEF IndexIsTyped
<1>4. reindex' \in Reindexing /\ reindex'.at = "upsert" /\ reindex'.found = names
  BY <1>1, <1>2, <1>3 DEF IndexIsTyped, Reindexing
<1>5. DOMAIN reindex'.found = Present /\ DOMAIN reindex.found = {}
  BY <1>2, <1>4 DEF Present, IndexInv, HeldWhileFilling
<1>6. IndexIsTyped'
  BY <1>1, <1>2, <1>4 DEF IndexIsTyped
<1>7. PresentIsFound' /\ DeletedIsGone' /\ HeldWhileFilling'
  BY <1>2, <1>4, <1>5 DEF IndexInv, PresentIsFound, WillBeSet, DeletedIsGone, HeldWhileFilling
<1>8. Current'
  <2> SUFFICES ASSUME NEW x \in Present \ raced PROVE CopiesAgree(x)' /\ UnderWay(x)'
    BY <1>2 DEF Current
  <2>1. CopiesAgree(x)
    BY DEF IndexInv, Current
  <2> QED
    BY <1>2, <1>4, <1>5, <2>1 DEF CopiesAgree, UnderWay
<1>9. (\A v \in Gone : NobodySets(v))'
  BY <1>2, <1>5 DEF IndexInv, Gone, NobodySets
<1> QED
  BY <1>6, <1>7, <1>8, <1>9 DEF IndexInv

LEMMA IndexDrop ==
  ASSUME IndexInv, DropIndex
  PROVE  IndexInv'
<1>1. IndexIsTyped
  BY DEF IndexInv
<1>2. /\ names' = names /\ Present' = Present /\ removed' = removed
      /\ editor' = editor /\ edits' = edits /\ raced' = raced /\ upserts' = upserts
      /\ cascaded' = cascaded /\ reindex.at = "drop"
      /\ reindex' = [reindex EXCEPT !.at = "read"] /\ entries' = Empty
  BY DEF DropIndex, Present, ReindexOrder
<1>3. reindex' \in Reindexing /\ reindex'.at = "read" /\ reindex'.found = reindex.found
  BY <1>1, <1>2 DEF IndexIsTyped, Reindexing
<1>4. DOMAIN entries' = {} /\ entries' \in [{} -> Entry]
  BY <1>2, EmptyFacts
<1>5. IndexIsTyped'
  BY <1>1, <1>2, <1>3, <1>4 DEF IndexIsTyped
<1>6. PresentIsFound' /\ DeletedIsGone' /\ HeldWhileFilling'
  BY <1>2, <1>3 DEF IndexInv, PresentIsFound, WillBeSet, DeletedIsGone, HeldWhileFilling
<1>7. Current'
  BY <1>2, <1>3, <1>4 DEF IndexInv, Current, CopiesAgree, EntryIsRight
<1>8. (\A v \in Gone : NobodySets(v))'
  BY <1>2, <1>3, <1>4 DEF IndexInv, Gone, NobodySets
<1> QED
  BY <1>5, <1>6, <1>7, <1>8 DEF IndexInv

LEMMA IndexFill ==
  ASSUME IndexInv, FillIndex
  PROVE  IndexInv'
<1> DEFINE IndexCall(v) == UpsertOf("reindex", v, reindex.found[v])
<1> PICK found : found = DOMAIN reindex.found
  OBVIOUS
<1>1. /\ IndexIsTyped /\ found \subseteq IndexedVertices
      /\ \A v \in found : reindex.found[v] \in Numbers
  BY FoundIsTyped DEF IndexInv
<1>2. /\ names' = names /\ Present' = Present /\ removed' = removed /\ entries' = entries
      /\ editor' = editor /\ edits' = edits /\ raced' = raced /\ cascaded' = cascaded
      /\ reindex.at = "upsert"
      /\ upserts' = upserts \cup {IndexCall(v) : v \in found}
      /\ reindex' = [reindex EXCEPT !.at = "fill", !.found = Empty]
  BY DEF FillIndex, Present
<1>3. reindex' \in Reindexing /\ reindex'.at = "fill" /\ DOMAIN reindex'.found = {}
  BY <1>1, <1>2, EmptyFacts DEF IndexIsTyped, Reindexing
<1>4. \A v \in found : /\ IndexCall(v) \in Upsert /\ IndexCall(v).vertex = v
                       /\ IndexCall(v).at = "read" /\ IndexCall(v).name = reindex.found[v]
  BY <1>1, IndexBounds DEF Upsert, UpsertOf, Numbers
<1>5. \A u \in upserts' : u \in upserts \/ \E v \in found : u = IndexCall(v)
  BY <1>2
<1>6. \A v \in found : \E u \in upserts' : u.vertex = v
  BY <1>2, <1>4
<1> HIDE DEF IndexCall
<1>7. IndexIsTyped'
  <2>1. upserts' \subseteq Upsert
    BY <1>1, <1>4, <1>5 DEF IndexIsTyped
  <2> QED
    BY <1>1, <1>2, <1>3, <2>1 DEF IndexIsTyped
<1>8. DeletedIsGone' /\ HeldWhileFilling'
  BY <1>2, <1>3 DEF IndexInv, DeletedIsGone, HeldWhileFilling
<1>9. PresentIsFound'
  BY <1>2, <1>6 DEF IndexInv, PresentIsFound, WillBeSet
<1>10. ASSUME NEW x \in Present \ raced PROVE CopiesAgree(x)' /\ (EntryIsRight(x) \/ UnderWay(x))'
  <2>1. CopiesAgree(x) /\ (EntryIsRight(x) \/ UnderWay(x))
    BY DEF IndexInv, Current
  <2>2. \A u \in upserts' : u.vertex = x => u.name = names[x] /\ (u.at = "set" => u.text = names[x])
    BY <1>4, <1>5, <2>1 DEF CopiesAgree
  <2>3. CopiesAgree(x)'
    BY <1>2, <1>3, <2>1, <2>2 DEF CopiesAgree
  <2>4. UnderWay(x) => UnderWay(x)'
    BY <1>2, <1>6 DEF UnderWay
  <2>5. EntryIsRight(x) => EntryIsRight(x)'
    BY <1>2 DEF EntryIsRight
  <2> QED
    BY <2>1, <2>3, <2>4, <2>5
<1>11. ASSUME NEW x \in Gone PROVE NobodySets(x)'
  <2>1. NobodySets(x)
    BY DEF IndexInv
  <2>2. x \notin found
    BY <2>1 DEF NobodySets
  <2>3. \A u \in upserts' : u.vertex # x
    BY <1>4, <1>5, <2>1, <2>2 DEF NobodySets
  <2> QED
    BY <1>2, <1>3, <2>1, <2>3 DEF NobodySets
<1>12. Gone' = Gone
  BY <1>2 DEF Gone
<1> QED
  BY <1>2, <1>7, <1>8, <1>9, <1>10, <1>11, <1>12 DEF IndexInv, Current

LEMMA IndexStep == IndexInv /\ [IndexNext]_indexVars => IndexInv'
<1> SUFFICES ASSUME IndexInv, [IndexNext]_indexVars PROVE IndexInv'
  OBVIOUS
<1>1. ASSUME NEW e \in Editors, UpdateIndex(e) PROVE IndexInv'
  BY <1>1, IndexUpdate
<1>2. ASSUME NEW e \in Editors, NEW v \in IndexedVertices, SaveVertex(e, v) PROVE IndexInv'
  BY <1>2, IndexSave
<1>3. ASSUME NEW e \in Editors, NEW v \in IndexedVertices, CascadeVertex(e, v) PROVE IndexInv'
  BY <1>3, IndexCascade
<1>4. ASSUME NEW e \in Editors, NEW v \in IndexedVertices, RemoveVertex(e, v) PROVE IndexInv'
  BY <1>4, IndexRemove
<1>5. ASSUME NEW u \in upserts, ReadForEntry(u) PROVE IndexInv'
  BY <1>5, IndexRead
<1>6. ASSUME NEW u \in upserts, SetEntry(u) PROVE IndexInv'
  BY <1>6, IndexSet
<1>7. CASE StartReindex \/ EndReindex
  BY <1>7, IndexTurns
<1>8. CASE DropIndex
  BY <1>8, IndexDrop
<1>9. CASE ReadVertices
  BY <1>9, IndexReadAll
<1>10. CASE FillIndex
  BY <1>10, IndexFill
<1>11. CASE UNCHANGED indexVars
  BY <1>11 DEF indexVars, IndexInv, IndexIsTyped, HeldWhileFilling, DeletedIsGone, PresentIsFound,
               WillBeSet, Current, CopiesAgree, EntryIsRight, UnderWay, Gone, NobodySets, Present
<1> QED
  BY <1>1, <1>2, <1>3, <1>4, <1>5, <1>6, <1>7, <1>8, <1>9, <1>10, <1>11 DEF IndexNext

LEMMA IndexInvHolds == IndexSpec => []IndexInv
  BY IndexInitInv, IndexStep, PTL DEF IndexSpec

LEMMA IndexInvTypes == IndexInv => IndexTypeOK
<1> SUFFICES ASSUME IndexInv PROVE IndexTypeOK
  OBVIOUS
<1>1. IndexIsTyped
  BY DEF IndexInv
<1> QED
  BY <1>1, FoundIsTyped
     DEF IndexIsTyped, IndexTypeOK, Write, Upsert, Reindexing, Entry, Numbers

(* The index, the vertices and the calls under way are of their types: an    *)
(* entry is only ever of a vertex that was written.                         *)
THEOREM IndexTypeCorrect == IndexSpec => []IndexTypeOK
  BY IndexInvHolds, IndexInvTypes, PTL

(* Once the calls under way are through every vertex is found by typeahead,  *)
(* whatever edits, deletions and reindexing overlapped; a vertex that was    *)
(* not written while a call or a reindex had a copy of it is found under the *)
(* name MongoDB has, and none is found that a request deleted                *)
(* (graph-redis.repository.ts).                                             *)
THEOREM IndexStaysCurrent == IndexSpec => []IndexIsCurrent
<1>1. IndexInv => IndexIsCurrent
  <2> SUFFICES ASSUME IndexInv, Settled
               PROVE  /\ Present \subseteq DOMAIN entries
                      /\ \A v \in Present \ raced :
                            entries[v] = [name |-> names[v], text |-> names[v]]
                      /\ DOMAIN entries \subseteq Present \cup raced \cup cascaded
    BY DEF IndexIsCurrent
  <2>1. IndexIsTyped /\ DOMAIN reindex.found = {}
    BY DEF IndexInv, HeldWhileFilling, Settled
  <2>2. Present \subseteq DOMAIN entries
    BY <2>1 DEF IndexInv, PresentIsFound, WillBeSet, Settled
  <2>3. ASSUME NEW v \in Present \ raced PROVE entries[v] = [name |-> names[v], text |-> names[v]]
    <3>1. ~UnderWay(v)
      BY <2>1 DEF UnderWay, Settled
    <3> QED
      BY <2>2, <3>1 DEF IndexInv, Current, EntryIsRight
  <2>4. ASSUME NEW v \in DOMAIN entries, v \notin Present \cup raced \cup cascaded PROVE FALSE
    <3>1. v \in Gone
      BY <2>1, <2>4 DEF Gone, IndexIsTyped
    <3> QED
      BY <3>1 DEF IndexInv, NobodySets, Settled
  <2> QED
    BY <2>2, <2>3, <2>4
<1> QED
  BY <1>1, IndexInvHolds, PTL

-----------------------------------------------------------------------------
Doc == [enabled : BOOLEAN, syncAt : Nat]

Held == [part : Parts, version : Nat]

Task == [target : Targets \cup {"none"}, todo : SUBSET Parts, read : Doc, held : SUBSET Held,
         lost : BOOLEAN, began : Nat, late : BOOLEAN]

Todo == UNION {[ts -> Doc] : ts \in SUBSET Targets}

(* The project's job that no other has overtaken. *)
Latest(w, t) == worker[w].target = t /\ ~worker[w].late

(* A version that somebody takes a project to be synced to, but for some of  *)
(* its parts: no part is older, except those that an overtaken worker wrote, *)
(* nor will be, as the latest job began no earlier.                         *)
UpTo(t, v, but) ==
    /\ v <= secrets
    /\ t \in OpenshiftProjects =>
         /\ \A w \in Workers : Latest(w, t) => v <= worker[w].began
         /\ \A p \in Parts \ (but \cup overrun[t]) : v <= copied[t][p]

(* What a copy of a document of t claims is true. *)
True(t, doc) == UpTo(t, doc.syncAt, {})

QueueShapeOK ==
    /\ secrets \in Nat
    /\ copied \in [Targets -> [Parts -> Nat]]
    /\ overrun \in [Targets -> SUBSET Parts]
    /\ document \in [Targets -> Doc]
    /\ writes \subseteq [target : Targets, document : Doc]
    /\ refresh \in [Refreshes -> [begun : BOOLEAN, todo : Todo]]
    /\ worker \in [Workers -> Task]

CopiesOK ==
    /\ \A t \in Targets : True(t, document[t])
    /\ \A x \in writes : True(x.target, x.document)
    /\ \A r \in Refreshes : \A t \in DOMAIN refresh[r].todo : True(t, refresh[r].todo[t])

(* A job's copy of the document is true, and what it has done and what it    *)
(* has read is as new as its beginning.                                     *)
TaskOK(s) ==
    /\ True(s.target, s.read)
    /\ UpTo(s.target, s.began, s.todo)
    /\ \A h \in s.held : s.began <= h.version
    /\ s.target = "none" => s.todo = {}

WorkersOK == \A w \in Workers : TaskOK(worker[w])

QueueInv == QueueShapeOK /\ CopiesOK /\ WorkersOK

LEMMA TodoIs ==
  ASSUME NEW f \in Todo
  PROVE  DOMAIN f \subseteq Targets /\ \A t \in DOMAIN f : f[t] \in Doc
  BY DEF Todo

LEMMA RestrictIs ==
  ASSUME NEW f, NEW S \in SUBSET DOMAIN f,
         DOMAIN f \subseteq Targets, \A t \in DOMAIN f : f[t] \in Doc
  PROVE  /\ Restrict(f, S) \in Todo
         /\ DOMAIN Restrict(f, S) = S /\ \A t \in S : Restrict(f, S)[t] = f[t]
<1>1. Restrict(f, S) = [t \in S |-> f[t]]
  BY DEF Restrict
<1>2. Restrict(f, S) \in [S -> Doc] /\ S \in SUBSET Targets
  BY <1>1
<1> QED
  BY <1>1, <1>2 DEF Todo

LEMMA NothingToDo == <<>> \in Todo /\ DOMAIN <<>> = {}
<1>1. DOMAIN <<>> = {}
  OBVIOUS
<1>2. <<>> \in [{} -> Doc]
  BY <1>1
<1> QED
  BY <1>1, <1>2 DEF Todo

LEMMA RestingIs ==
  /\ Resting \in Task /\ Resting.target = "none" /\ "none" \notin OpenshiftProjects
  /\ Resting.began = 0 /\ Resting.read.syncAt = 0 /\ Resting.held = {}
  /\ QueueShapeOK => TaskOK(Resting)
  BY TwoQueues DEF Resting, Task, Doc, QueueShapeOK, TaskOK, True, UpTo, Targets

LEMMA QueueInitInv == SyncQueueInit => QueueInv
<1> SUFFICES ASSUME SyncQueueInit PROVE QueueInv
  OBVIOUS
<1>1. \A begun \in BOOLEAN : [begun |-> begun, todo |-> <<>>] \in [begun : BOOLEAN, todo : Todo]
  BY NothingToDo
<1>2. [enabled |-> TRUE, syncAt |-> 0] \in Doc
  BY DEF Doc
<1>3. refresh \in [Refreshes -> [begun : BOOLEAN, todo : Todo]]
  BY NothingToDo DEF SyncQueueInit
<1>4. QueueShapeOK
  BY <1>2, <1>3, RestingIs DEF SyncQueueInit, QueueShapeOK
<1>5. \A r \in Refreshes : DOMAIN refresh[r].todo = {}
  BY NothingToDo DEF SyncQueueInit
<1>6. \A t \in Targets : True(t, document[t])
  <2>1. \A w \in Workers : worker[w].began = 0
    BY RestingIs DEF SyncQueueInit
  <2> QED
    BY <2>1 DEF SyncQueueInit, True, UpTo, Targets
<1>7. CopiesOK
  BY <1>5, <1>6 DEF SyncQueueInit, CopiesOK
<1>8. WorkersOK
  BY <1>4, RestingIs DEF SyncQueueInit, WorkersOK
<1> QED
  BY <1>4, <1>7, <1>8 DEF QueueInv

(* What a step has to leave so that what was reached stays so: a latest job  *)
(* begins now or was there before; what is written is as it was, or written  *)
(* by a latest job, or by one that was overtaken.                           *)
LatestStay ==
    \A w \in Workers : \A t \in OpenshiftProjects : Latest(w, t)' =>
        \/ worker'[w].began >= secrets
        \/ Latest(w, t) /\ worker[w].began = worker'[w].began

NothingOlder ==
    \A t \in OpenshiftProjects : \A p \in Parts \ overrun'[t] :
        \/ p \notin overrun[t] /\ copied'[t][p] = copied[t][p]
        \/ \E w \in Workers : Latest(w, t) /\ worker[w].began <= copied'[t][p]

Steady == secrets' >= secrets /\ LatestStay /\ NothingOlder

LEMMA UpToStays ==
  ASSUME QueueShapeOK, QueueShapeOK', Steady,
         NEW t \in Targets \cup {"none"}, NEW v \in Nat, NEW but, UpTo(t, v, but)
  PROVE  UpTo(t, v, but)'
<1>1. v <= secrets'
  BY DEF Steady, UpTo, QueueShapeOK
<1>2. ASSUME t \in OpenshiftProjects, NEW w \in Workers, Latest(w, t)'
      PROVE  v <= worker'[w].began
  <2>1. worker'[w].began \in Nat /\ worker[w].began \in Nat /\ secrets \in Nat
    BY DEF QueueShapeOK, Task
  <2>2. \/ worker'[w].began >= secrets
        \/ Latest(w, t) /\ worker[w].began = worker'[w].began
    BY <1>2 DEF Steady, LatestStay
  <2>3. v <= secrets /\ (Latest(w, t) => v <= worker[w].began)
    BY <1>2 DEF UpTo
  <2> QED
    BY <2>1, <2>2, <2>3
<1>3. ASSUME t \in OpenshiftProjects, NEW p \in Parts \ (but \cup overrun'[t])
      PROVE  v <= copied'[t][p]
  <2>1. copied[t][p] \in Nat /\ copied'[t][p] \in Nat
    BY <1>3 DEF QueueShapeOK, Targets
  <2>2. CASE p \notin overrun[t] /\ copied'[t][p] = copied[t][p]
    BY <1>3, <2>2 DEF UpTo
  <2>3. CASE \E w \in Workers : Latest(w, t) /\ worker[w].began <= copied'[t][p]
    <3>1. PICK w \in Workers : Latest(w, t) /\ worker[w].began <= copied'[t][p]
      BY <2>3
    <3>2. worker[w].began \in Nat /\ v <= worker[w].began
      BY <1>3, <3>1 DEF UpTo, QueueShapeOK, Task
    <3> QED
      BY <2>1, <3>1, <3>2
  <2> QED
    BY <1>3, <2>2, <2>3 DEF Steady, NothingOlder
<1> QED
  BY <1>1, <1>2, <1>3 DEF UpTo

LEMMA TrueStays ==
  ASSUME QueueShapeOK, QueueShapeOK', Steady,
         NEW t \in Targets \cup {"none"}, NEW doc \in Doc, True(t, doc)
  PROVE  True(t, doc)'
<1>1. doc.syncAt \in Nat /\ UpTo(t, doc.syncAt, {})
  BY DEF Doc, True
<1>2. \A v \in Nat : UpTo(t, v, {}) => UpTo(t, v, {})'
  BY UpToStays
<1> QED
  BY <1>1, <1>2 DEF True

(* The same job, but for its lock and what overtook it. *)
Like(s, old) ==
    /\ s.target = old.target /\ s.todo = old.todo /\ s.read = old.read
    /\ s.held = old.held /\ s.began = old.began

LEMMA TaskStays ==
  ASSUME QueueShapeOK, QueueShapeOK', Steady, NEW s \in Task, NEW old \in Task,
         Like(s, old), TaskOK(old)
  PROVE  TaskOK(s)'
<1>1. old.target \in Targets \cup {"none"} /\ old.began \in Nat /\ old.read \in Doc
  BY DEF Task
<1>2. True(old.target, old.read)'
  BY <1>1, TrueStays DEF TaskOK
<1>3. UpTo(old.target, old.began, old.todo)'
  BY <1>1, UpToStays DEF TaskOK
<1> QED
  BY <1>2, <1>3 DEF TaskOK, Like

(* Copies that were there stay true, and of new ones it has to be shown. *)
LEMMA Preserved ==
  ASSUME QueueInv, QueueShapeOK', Steady,
         \A t \in Targets : \/ document'[t] = document[t]
                            \/ True(t, document'[t]),
         \A x \in writes' : x \in writes \/ True(x.target, x.document)',
         \A r \in Refreshes : \A t \in DOMAIN refresh'[r].todo :
             \/ t \in DOMAIN refresh[r].todo /\ refresh'[r].todo[t] = refresh[r].todo[t]
             \/ True(t, refresh'[r].todo[t]),
         \A w \in Workers : Like(worker'[w], worker[w]) \/ TaskOK(worker[w])'
  PROVE  QueueInv'
<1>1. \A t \in Targets : \A doc \in Doc : True(t, doc) => True(t, doc)'
  BY TrueStays DEF QueueInv
<1>2. ASSUME NEW t \in Targets PROVE True(t, document[t])'
  <2>1. True(t, document'[t]) /\ document'[t] \in Doc
    BY DEF QueueInv, CopiesOK, QueueShapeOK
  <2>2. \A doc \in Doc : True(t, doc) => True(t, doc)'
    BY <1>1
  <2> QED
    BY <2>1, <2>2 DEF True
<1>3. ASSUME NEW x \in writes' PROVE True(x.target, x.document)'
  <2>1. CASE x \in writes
    <3>1. x.target \in Targets /\ x.document \in Doc
      BY <2>1 DEF QueueInv, QueueShapeOK
    <3> QED
      BY <1>1, <2>1, <3>1 DEF QueueInv, CopiesOK
  <2> QED
    BY <2>1
<1>4. ASSUME NEW r \in Refreshes, NEW t \in DOMAIN refresh'[r].todo
      PROVE  True(t, refresh[r].todo[t])'
  <2>1. refresh'[r].todo \in Todo
    BY DEF QueueShapeOK
  <2>2. t \in Targets /\ refresh'[r].todo[t] \in Doc
    BY <2>1, TodoIs
  <2>3. True(t, refresh'[r].todo[t])
    BY DEF QueueInv, CopiesOK
  <2>4. \A doc \in Doc : True(t, doc) => True(t, doc)'
    BY <1>1, <2>2
  <2> QED
    BY <2>2, <2>3, <2>4 DEF True
<1>5. ASSUME NEW w \in Workers PROVE TaskOK(worker[w])'
  <2>1. CASE Like(worker'[w], worker[w])
    <3>1. worker[w] \in Task /\ worker'[w] \in Task /\ TaskOK(worker[w])
      BY DEF QueueInv, QueueShapeOK, WorkersOK
    <3>2. \A s, old \in Task : Like(s, old) /\ TaskOK(old) => TaskOK(s)'
      BY TaskStays DEF QueueInv
    <3>3. \A s \in Task : s = worker'[w] => TaskOK(s)'
      BY <2>1, <3>1, <3>2
    <3> QED
      BY <3>1, <3>3 DEF TaskOK, True
  <2> QED
    BY <2>1
<1>6. CopiesOK'
  BY <1>2, <1>3, <1>4 DEF CopiesOK
<1>7. WorkersOK'
  BY <1>5 DEF WorkersOK
<1> QED
  BY <1>6, <1>7 DEF QueueInv

(* Many steps copy nothing and leave the jobs alone. *)
LEMMA NothingCopied ==
  ASSUME QueueShapeOK, QueueShapeOK', UNCHANGED <<copied, overrun, worker>>, secrets' >= secrets
  PROVE  Steady /\ \A w \in Workers : Like(worker'[w], worker[w])
  BY DEF Steady, LatestStay, NothingOlder, Latest, Like

LEMMA WorldKeeps ==
  ASSUME QueueInv, ChangeSecrets \/ \E t \in Targets : Switch(t)
  PROVE  QueueInv'
<1>1. CASE ChangeSecrets
  <2>1. secrets' \in Nat /\ secrets' >= secrets
    BY <1>1 DEF ChangeSecrets, QueueInv, QueueShapeOK
  <2>2. QueueShapeOK'
    BY <1>1, <2>1 DEF ChangeSecrets, QueueInv, QueueShapeOK
  <2>3. Steady /\ \A w \in Workers : Like(worker'[w], worker[w])
    BY <1>1, <2>1, <2>2, NothingCopied DEF ChangeSecrets, QueueInv
  <2> QED
    BY <1>1, <2>2, <2>3, Preserved DEF ChangeSecrets
<1>2. ASSUME NEW u \in Targets, Switch(u)
      PROVE  QueueInv'
  <2>1. [document[u] EXCEPT !.enabled = ~@] \in Doc
    BY DEF QueueInv, QueueShapeOK, Doc
  <2>2. document' = [document EXCEPT ![u] = [document[u] EXCEPT !.enabled = ~@]]
    BY <1>2 DEF Switch, QueueInv, QueueShapeOK
  <2>3. QueueShapeOK'
    BY <1>2, <2>1, <2>2 DEF Switch, QueueInv, QueueShapeOK
  <2>4. [document[u] EXCEPT !.enabled = ~@].syncAt = document[u].syncAt
    BY DEF QueueInv, QueueShapeOK, Doc
  <2>5. \A t \in Targets : document'[t] = document[t] \/ True(t, document'[t])
    BY <2>2, <2>4 DEF QueueInv, QueueShapeOK, CopiesOK, True
  <2>6. secrets' >= secrets
    BY <1>2 DEF Switch, QueueInv, QueueShapeOK
  <2>7. Steady /\ \A w \in Workers : Like(worker'[w], worker[w])
    BY <1>2, <2>3, <2>6, NothingCopied DEF Switch, QueueInv
  <2> QED
    BY <1>2, <2>3, <2>5, <2>7, Preserved DEF Switch
<1> QED
  BY <1>1, <1>2

LEMMA RefreshesKeep ==
  ASSUME QueueInv, NEW r \in Refreshes, BeginRefresh(r) \/ QueueTarget(r) \/ RefreshDies(r)
  PROVE  QueueInv'
<1>1. UNCHANGED <<secrets, copied, document, worker, overrun>>
  BY DEF BeginRefresh, QueueTarget, RefreshDies
<1>2. refresh[r].todo \in Todo /\ refresh[r].begun \in BOOLEAN
  BY DEF QueueInv, QueueShapeOK
<1>3. secrets' >= secrets
  BY <1>1 DEF QueueInv, QueueShapeOK
<1>4. CASE BeginRefresh(r)
  <2>1. PICK some \in SUBSET Targets :
          refresh' = [refresh EXCEPT ![r] = [begun |-> TRUE, todo |-> Restrict(document, some)]]
    <3>1. PICK any \in ((SUBSET Repositories) \cup (SUBSET OpenshiftProjects)) \ {{}} :
            refresh' = [refresh EXCEPT ![r] =
              [begun |-> TRUE, todo |-> Restrict(document, {t \in any : IsQueueTargetEnabled(t)})]]
      BY <1>4 DEF BeginRefresh
    <3>2. any \in SUBSET Targets
      <4>1. any \subseteq Repositories \/ any \subseteq OpenshiftProjects
        OBVIOUS
      <4>2. \A x \in any : x \in Targets
        BY <4>1 DEF Targets
      <4> QED
        BY <4>2
    <3>3. {t \in any : IsQueueTargetEnabled(t)} \in SUBSET Targets
      BY <3>2
    <3> QED
      BY <3>1, <3>3
  <2>2. DOMAIN document = Targets /\ \A t \in Targets : document[t] \in Doc
    BY DEF QueueInv, QueueShapeOK
  <2>3. /\ Restrict(document, some) \in Todo
        /\ DOMAIN Restrict(document, some) = some
        /\ \A t \in some : Restrict(document, some)[t] = document[t]
    BY <2>2, RestrictIs
  <2>4. QueueShapeOK'
    BY <1>1, <1>4, <2>1, <2>3 DEF BeginRefresh, QueueInv, QueueShapeOK
  <2>5. \A q \in Refreshes : \A t \in DOMAIN refresh'[q].todo :
          \/ t \in DOMAIN refresh[q].todo /\ refresh'[q].todo[t] = refresh[q].todo[t]
          \/ True(t, refresh'[q].todo[t])
    BY <2>1, <2>3 DEF QueueInv, QueueShapeOK, CopiesOK
  <2>6. Steady /\ \A w \in Workers : Like(worker'[w], worker[w])
    BY <1>1, <1>3, <2>4, NothingCopied DEF QueueInv
  <2> QED
    BY <1>1, <1>4, <2>4, <2>5, <2>6, Preserved DEF BeginRefresh
<1>5. CASE QueueTarget(r)
  <2>1. PICK u \in DOMAIN refresh[r].todo :
          /\ writes' = writes \cup {[target |-> u, document |-> refresh[r].todo[u]]}
          /\ refresh' = [refresh EXCEPT ![r].todo = Restrict(@, DOMAIN @ \ {u})]
    BY <1>5 DEF QueueTarget, WriteBack
  <2> DEFINE old == refresh[r].todo
             rest == Restrict(old, DOMAIN old \ {u})
  <2>2. DOMAIN old \subseteq Targets /\ \A t \in DOMAIN old : old[t] \in Doc
    BY <1>2, TodoIs
  <2>3. /\ rest \in Todo /\ DOMAIN rest = DOMAIN old \ {u}
        /\ \A t \in DOMAIN rest : rest[t] = old[t]
    BY <2>2, RestrictIs
  <2>4. \A q \in Refreshes : refresh'[q] = IF q = r THEN [begun |-> refresh[r].begun, todo |-> rest]
                                                     ELSE refresh[q]
    BY <2>1 DEF QueueInv, QueueShapeOK
  <2>5. refresh' \in [Refreshes -> [begun : BOOLEAN, todo : Todo]]
    BY <1>2, <2>1, <2>3 DEF QueueInv, QueueShapeOK
  <2>6. QueueShapeOK'
    BY <1>1, <2>1, <2>2, <2>5 DEF QueueInv, QueueShapeOK
  <2>7. \A q \in Refreshes : \A t \in DOMAIN refresh'[q].todo :
          t \in DOMAIN refresh[q].todo /\ refresh'[q].todo[t] = refresh[q].todo[t]
    BY <2>3, <2>4
  <2>8. \A x \in writes' : x \in writes \/ True(x.target, x.document)'
    BY <1>1, <2>1 DEF QueueInv, CopiesOK, True, UpTo, Latest
  <2>9. Steady /\ \A w \in Workers : Like(worker'[w], worker[w])
    BY <1>1, <1>3, <2>6, NothingCopied DEF QueueInv
  <2> QED
    BY <1>1, <2>6, <2>7, <2>8, <2>9, Preserved
<1>6. CASE RefreshDies(r)
  <2>1. refresh' = [refresh EXCEPT ![r].todo = <<>>] /\ UNCHANGED writes
    BY <1>6 DEF RefreshDies
  <2>2. refresh' \in [Refreshes -> [begun : BOOLEAN, todo : Todo]]
    BY <1>2, <2>1, NothingToDo DEF QueueInv, QueueShapeOK
  <2>3. QueueShapeOK'
    BY <1>1, <2>1, <2>2 DEF QueueInv, QueueShapeOK
  <2>4. \A q \in Refreshes : refresh'[q].todo = refresh[q].todo \/ DOMAIN refresh'[q].todo = {}
    BY <2>1, NothingToDo DEF QueueInv, QueueShapeOK
  <2>5. Steady /\ \A w \in Workers : Like(worker'[w], worker[w])
    BY <1>1, <1>3, <2>3, NothingCopied DEF QueueInv
  <2> QED
    BY <1>1, <2>1, <2>3, <2>4, <2>5, Preserved
<1> QED
  BY <1>4, <1>5, <1>6

LEMMA LandKeeps ==
  ASSUME QueueInv, NEW x \in writes, Land(x)
  PROVE  QueueInv'
<1>1. x.target \in Targets /\ x.document \in Doc /\ True(x.target, x.document)
  BY DEF QueueInv, QueueShapeOK, CopiesOK
<1>2. QueueShapeOK' /\ secrets' >= secrets
  BY <1>1 DEF Land, QueueInv, QueueShapeOK
<1>3. \A t \in Targets : document'[t] = document[t] \/ True(t, document'[t])
  BY <1>1 DEF Land, QueueInv, QueueShapeOK
<1>4. Steady /\ \A w \in Workers : Like(worker'[w], worker[w])
  BY <1>2, NothingCopied DEF Land, QueueInv
<1> QED
  BY <1>2, <1>3, <1>4, Preserved DEF Land

LEMMA DebouncedKeeps ==
  ASSUME QueueInv, NEW t \in Targets, Debounced(t)
  PROVE  QueueInv'
  BY DEF Debounced, QueueInv, QueueShapeOK, CopiesOK, WorkersOK, TaskOK, True, UpTo, Latest

(* The new job begins now, and the others on its target are overtaken. *)
LEMMA TakeJobKeeps ==
  ASSUME QueueInv, NEW w \in Workers, TakeJob(w)
  PROVE  QueueInv'
<1>1. PICK t \in Targets :
        \/ worker' = [x \in Workers |-> IF x = w THEN Begun(t) ELSE Overtaken(x, t)]
        \/ worker' = worker
  BY DEF TakeJob
<1>2. UNCHANGED <<secrets, copied, document, refresh, writes, overrun>> /\ secrets' >= secrets
  BY DEF TakeJob, QueueInv, QueueShapeOK
<1>3. Begun(t) \in Task
  BY DEF QueueInv, QueueShapeOK, Task, Begun
<1>4. \A x \in Workers :
        /\ Overtaken(x, t) \in Task /\ Like(Overtaken(x, t), worker[x])
        /\ Overtaken(x, t).target = t => Overtaken(x, t).late
        /\ Overtaken(x, t).target # t => Overtaken(x, t) = worker[x]
  <2> SUFFICES ASSUME NEW x \in Workers
               PROVE  /\ Overtaken(x, t) \in Task /\ Like(Overtaken(x, t), worker[x])
                      /\ Overtaken(x, t).target = t => Overtaken(x, t).late
                      /\ Overtaken(x, t).target # t => Overtaken(x, t) = worker[x]
    OBVIOUS
  <2>1. worker[x] \in Task
    BY DEF QueueInv, QueueShapeOK
  <2> QED
    BY <2>1 DEF Overtaken, Task, Like
<1>5. CASE worker' = worker
  <2>1. QueueShapeOK'
    BY <1>2, <1>5 DEF QueueInv, QueueShapeOK
  <2> QED
    BY <1>2, <1>5, <2>1, NothingCopied, Preserved DEF QueueInv
<1>6. CASE worker' = [x \in Workers |-> IF x = w THEN Begun(t) ELSE Overtaken(x, t)]
  <2>1. QueueShapeOK'
    BY <1>2, <1>3, <1>4, <1>6 DEF QueueInv, QueueShapeOK
  <2>2. LatestStay
    <3> SUFFICES ASSUME NEW x \in Workers, NEW u \in OpenshiftProjects, Latest(x, u)'
                 PROVE  \/ worker'[x].began >= secrets
                        \/ Latest(x, u) /\ worker[x].began = worker'[x].began
      BY DEF LatestStay
    <3>1. CASE x = w
      BY <1>6, <3>1 DEF Begun, QueueInv, QueueShapeOK
    <3>2. CASE x # w
      <4>1. worker'[x] = Overtaken(x, t) /\ worker'[x].target = u /\ ~worker'[x].late
        BY <1>6, <3>2 DEF Latest
      <4>2. worker'[x] = worker[x]
        BY <1>4, <4>1
      <4> QED
        BY <4>1, <4>2 DEF Latest
    <3> QED
      BY <3>1, <3>2
  <2>3. Steady
    BY <1>2, <2>2 DEF Steady, NothingOlder
  <2>4. TaskOK(worker[w])'
    <3>1. worker'[w] = Begun(t)
      BY <1>6
    <3>2. /\ Begun(t).target = t /\ Begun(t).read = document[t] /\ Begun(t).began = secrets
          /\ Begun(t).todo = Parts /\ Begun(t).held = {}
      BY DEF Begun
    <3>3. True(t, document[t])'
      <4>1. document[t] \in Doc /\ True(t, document[t])
        BY DEF QueueInv, QueueShapeOK, CopiesOK
      <4>2. \A doc \in Doc : True(t, doc) => True(t, doc)'
        BY <2>1, <2>3, TrueStays DEF QueueInv
      <4> QED
        BY <1>2, <4>1, <4>2 DEF True
    <3>4. ASSUME NEW x \in Workers, Latest(x, t)' PROVE secrets' <= worker'[x].began
      <4>1. x = w
        BY <1>4, <1>6, <3>4 DEF Latest
      <4> QED
        BY <1>2, <3>1, <3>2, <4>1 DEF QueueInv, QueueShapeOK
    <3>5. secrets' <= secrets'
      BY <1>2 DEF QueueInv, QueueShapeOK
    <3>6. UpTo(t, secrets, Parts)'
      BY <3>4, <3>5 DEF UpTo
    <3>7. t # "none"
      BY TwoQueues DEF Targets
    <3> QED
      BY <1>2, <3>1, <3>2, <3>3, <3>6, <3>7 DEF TaskOK, True
  <2>5. \A x \in Workers : Like(worker'[x], worker[x]) \/ TaskOK(worker[x])'
    BY <1>4, <1>6, <2>4
  <2> QED
    BY <1>2, <2>1, <2>3, <2>5, Preserved
<1> QED
  BY <1>1, <1>5, <1>6

(* A step of one worker, which begins no job. *)
LEMMA OneWorker ==
  ASSUME QueueShapeOK, NEW w \in Workers, NEW next, worker' = [worker EXCEPT ![w] = next],
         next.target \in OpenshiftProjects /\ ~next.late =>
            Latest(w, next.target) /\ next.began = worker[w].began
  PROVE  /\ LatestStay
         /\ \A x \in Workers : x = w \/ Like(worker'[x], worker[x])
         /\ worker'[w] = next
<1>1. \A x \in Workers : worker'[x] = IF x = w THEN next ELSE worker[x]
  BY DEF QueueShapeOK
<1>2. LatestStay
  BY <1>1 DEF LatestStay, Latest
<1> QED
  BY <1>1, <1>2 DEF Like

LEMMA RestingKeeps ==
  ASSUME QueueShapeOK', NEW w \in Workers, worker'[w] = Resting
  PROVE  TaskOK(worker[w])'
<1>1. /\ secrets' \in Nat /\ copied' \in [Targets -> [Parts -> Nat]]
      /\ \A x \in Workers : worker'[x].began \in Nat
  BY DEF QueueShapeOK, Task
<1> QED
  BY <1>1, RestingIs DEF TaskOK, True, UpTo, Targets, Resting

(* What a worker writes is as new as its job, if it is the latest. *)
LEMMA ArrivesIs ==
  ASSUME QueueInv, NEW w \in Workers, NEW h \in worker[w].held, Arrives(w, h),
         worker[w].target \in Targets
  PROVE  /\ copied' \in [Targets -> [Parts -> Nat]] /\ overrun' \in [Targets -> SUBSET Parts]
         /\ NothingOlder /\ h.part \in Parts
         /\ h.part \notin overrun'[Job(w)] =>
              ~worker[w].late /\ worker[w].began <= copied'[Job(w)][h.part]
<1> DEFINE u == Job(w)
<1>1. worker[w] \in Task /\ h.part \in Parts /\ h.version \in Nat /\ u \in Targets
      /\ worker[w].began <= h.version
  BY DEF QueueInv, QueueShapeOK, WorkersOK, TaskOK, Task, Held, Job
<1>2. copied' = [copied EXCEPT ![u] = [copied[u] EXCEPT ![h.part] = h.version]]
  BY DEF Arrives
<1>3. overrun' = [overrun EXCEPT ![u] = IF worker[w].late THEN overrun[u] \cup {h.part}
                                                        ELSE overrun[u] \ {h.part}]
  BY DEF Arrives
<1>4. copied' \in [Targets -> [Parts -> Nat]] /\ overrun' \in [Targets -> SUBSET Parts]
  BY <1>1, <1>2, <1>3 DEF QueueInv, QueueShapeOK
<1>5. \A t \in Targets : \A p \in Parts :
        /\ t # u \/ p # h.part => /\ copied'[t][p] = copied[t][p]
                                  /\ p \in overrun'[t] <=> p \in overrun[t]
        /\ copied'[u][h.part] = h.version
        /\ h.part \in overrun'[u] <=> worker[w].late
  BY <1>1, <1>2, <1>3 DEF QueueInv, QueueShapeOK
<1>6. NothingOlder
  <2> SUFFICES ASSUME NEW t \in OpenshiftProjects, NEW p \in Parts, p \notin overrun'[t]
               PROVE  \/ p \notin overrun[t] /\ copied'[t][p] = copied[t][p]
                      \/ \E x \in Workers : Latest(x, t) /\ worker[x].began <= copied'[t][p]
    BY DEF NothingOlder
  <2>1. t \in Targets
    BY DEF Targets
  <2>2. CASE t = u /\ p = h.part
    BY <1>1, <1>5, <2>1, <2>2 DEF Latest, Job
  <2> QED
    BY <1>5, <2>1, <2>2
<1> QED
  BY <1>1, <1>4, <1>5, <1>6

LEMMA ReadSecretKeeps ==
  ASSUME QueueInv, NEW w \in Workers, NEW p \in Parts, ReadSecret(w, p)
  PROVE  QueueInv'
<1> DEFINE got == [part |-> p, version |-> secrets]
           next == [worker[w] EXCEPT !.held = {got}]
<1>1. worker[w] \in Task /\ TaskOK(worker[w]) /\ got \in Held
  BY DEF QueueInv, QueueShapeOK, WorkersOK, Held
<1>2. next \in Task /\ next.held = {got} /\ next.target = worker[w].target
      /\ next.began = worker[w].began /\ next.todo = worker[w].todo /\ next.read = worker[w].read
      /\ next.late = worker[w].late
  BY <1>1 DEF Task
<1>3. worker' = [worker EXCEPT ![w] = next]
      /\ UNCHANGED <<secrets, copied, document, refresh, writes, overrun>>
  BY DEF ReadSecret, QueueInv, QueueShapeOK
<1>4. QueueShapeOK' /\ secrets' >= secrets
  BY <1>2, <1>3 DEF QueueInv, QueueShapeOK
<1>5. /\ LatestStay /\ worker'[w] = next
      /\ \A x \in Workers : x = w \/ Like(worker'[x], worker[x])
  BY <1>2, <1>3, OneWorker DEF QueueInv, Latest
<1>6. Steady
  BY <1>3, <1>4, <1>5 DEF Steady, NothingOlder
<1>7. TaskOK(worker[w])'
  <2>1. PICK s \in Task : s = [next EXCEPT !.held = worker[w].held]
    BY <1>1, <1>2 DEF Task
  <2>2. /\ s.target = next.target /\ s.began = next.began /\ s.todo = next.todo
        /\ s.read = next.read /\ s.held = worker[w].held
    BY <1>2, <2>1 DEF Task
  <2>3. TaskOK(s)'
    BY <1>1, <1>2, <1>4, <1>6, <2>2, TaskStays DEF QueueInv, Like
  <2>4. next.began <= secrets
    BY <1>1, <1>2 DEF TaskOK, UpTo
  <2> QED
    BY <1>2, <1>5, <2>2, <2>3, <2>4 DEF TaskOK, True
<1>8. \A x \in Workers : Like(worker'[x], worker[x]) \/ TaskOK(worker[x])'
  BY <1>5, <1>7
<1> QED
  BY <1>3, <1>4, <1>6, <1>8, Preserved

(* What a repository is given is no project's. *)
LEMMA OfRepository ==
  ASSUME QueueInv, NEW w \in Workers, NEW next \in Task, next.target \in Repositories,
         next.target = worker[w].target, next.began = worker[w].began, next.held = {},
         next.read.syncAt \in {worker[w].read.syncAt, worker[w].began}
  PROVE  /\ next.target \notin OpenshiftProjects /\ next.target \in Targets
         /\ UNCHANGED secrets /\ worker'[w] = next =>
               TaskOK(worker[w])' /\ UpTo(next.target, next.began, {})'
<1>1. next.target \notin OpenshiftProjects /\ next.target \in Targets
  BY TwoQueues DEF Targets
<1>2. worker[w].began <= secrets /\ worker[w].read.syncAt <= secrets
  BY DEF QueueInv, WorkersOK, TaskOK, True, UpTo
<1>3. next.target # "none"
  BY TwoQueues
<1> SUFFICES ASSUME UNCHANGED secrets, worker'[w] = next
             PROVE  TaskOK(worker[w])' /\ UpTo(next.target, next.began, {})'
  BY <1>1
<1>4. UpTo(next.target, next.began, {})' /\ UpTo(next.target, next.began, next.todo)'
  BY <1>1, <1>2 DEF UpTo
<1>5. True(next.target, next.read)'
  BY <1>1, <1>2 DEF True, UpTo
<1> QED
  BY <1>3, <1>4, <1>5 DEF TaskOK, True

LEMMA GoOnIs ==
  ASSUME QueueInv, NEW w \in Workers, NEW q
  PROVE  /\ GoOn(w, q) \in Task /\ GoOn(w, q).target = worker[w].target
         /\ GoOn(w, q).began = worker[w].began /\ GoOn(w, q).read = worker[w].read
         /\ GoOn(w, q).held = {} /\ GoOn(w, q).todo = worker[w].todo \ {q}
         /\ GoOn(w, q).late = worker[w].late
<1>1. worker[w] \in Task
  BY DEF QueueInv, QueueShapeOK
<1> QED
  BY <1>1 DEF GoOn, Task

LEMMA CopyServiceKeeps ==
  ASSUME QueueInv, NEW w \in Workers, NEW h \in worker[w].held, CopyService(w, h)
  PROVE  QueueInv'
<1>1. PICK u \in Repositories : u = worker[w].target /\ u \in Targets /\ u \notin OpenshiftProjects
  BY TwoQueues DEF CopyService, Job, Targets
<1>2. PICK doc \in Doc : doc = WithSyncAt(w) /\ doc.syncAt = worker[w].began
  <2>1. worker[w].read \in Doc /\ worker[w].began \in Nat
    BY DEF QueueInv, QueueShapeOK, Task
  <2>2. WithSyncAt(w) \in Doc /\ WithSyncAt(w).syncAt = worker[w].began
    BY <2>1 DEF WithSyncAt, Doc
  <2> QED
    BY <2>2
<1>3. PICK next \in Task :
        /\ next = [GoOn(w, h.part) EXCEPT !.read = doc]
        /\ next.target = u /\ next.began = worker[w].began /\ next.held = {} /\ next.read = doc
  <2>1. PICK g \in Task : g = GoOn(w, h.part) /\ g.target = u /\ g.began = worker[w].began
                          /\ g.held = {}
    BY <1>1, GoOnIs
  <2>2. /\ [g EXCEPT !.read = doc] \in Task
        /\ [g EXCEPT !.read = doc].target = g.target
        /\ [g EXCEPT !.read = doc].began = g.began
        /\ [g EXCEPT !.read = doc].held = g.held
        /\ [g EXCEPT !.read = doc].read = doc
    BY DEF Task
  <2> QED
    BY <2>1, <2>2
<1>4. /\ writes' = writes \cup {[target |-> u, document |-> doc]}
      /\ UNCHANGED <<secrets, document, refresh>>
      /\ worker' = [worker EXCEPT ![w] = next]
  BY <1>1, <1>2, <1>3 DEF CopyService, WriteBack, Job
<1>5. /\ copied' \in [Targets -> [Parts -> Nat]] /\ overrun' \in [Targets -> SUBSET Parts]
      /\ NothingOlder
  BY <1>1, ArrivesIs DEF CopyService
<1>6. QueueShapeOK' /\ secrets' >= secrets
  BY <1>1, <1>2, <1>3, <1>4, <1>5 DEF QueueInv, QueueShapeOK
<1>7. /\ LatestStay /\ worker'[w] = next
      /\ \A x \in Workers : x = w \/ Like(worker'[x], worker[x])
  <2>1. next.target \notin OpenshiftProjects /\ worker' = [worker EXCEPT ![w] = next]
    BY <1>1, <1>3, <1>4
  <2> QED
    BY <2>1, OneWorker DEF QueueInv
<1>8. TaskOK(worker[w])' /\ UpTo(u, next.began, {})'
  <2>1. /\ next.target \in Repositories /\ next.target = worker[w].target
        /\ next.began = worker[w].began /\ next.held = {}
        /\ next.read.syncAt \in {worker[w].read.syncAt, worker[w].began}
        /\ UNCHANGED secrets /\ worker'[w] = next
    BY <1>1, <1>2, <1>3, <1>4, <1>7
  <2>2. TaskOK(worker[w])' /\ UpTo(next.target, next.began, {})'
    BY <2>1, OfRepository
  <2> QED
    BY <1>3, <2>2
<1>9. \A x \in writes' : x \in writes \/ True(x.target, x.document)'
  BY <1>2, <1>3, <1>4, <1>8 DEF True
<1>10. \A x \in Workers : Like(worker'[x], worker[x]) \/ TaskOK(worker[x])'
  BY <1>7, <1>8
<1>11. Steady
  BY <1>5, <1>6, <1>7 DEF Steady
<1> QED
  BY <1>4, <1>6, <1>9, <1>10, <1>11, Preserved

LEMMA CopyMappingKeeps ==
  ASSUME QueueInv, NEW w \in Workers, NEW h \in worker[w].held, CopyMapping(w, h)
  PROVE  QueueInv'
<1>1. PICK u \in OpenshiftProjects : u = worker[w].target /\ u \in Targets /\ u = Job(w)
  BY SMT DEF CopyMapping, Job, Targets
<1>2. worker[w] \in Task /\ TaskOK(worker[w])
  BY DEF QueueInv, QueueShapeOK, WorkersOK
<1>3. PICK next \in Task :
        /\ next = GoOn(w, h.part) /\ next.target = u /\ next.began = worker[w].began
        /\ next.held = {} /\ next.read = worker[w].read
        /\ next.todo = worker[w].todo \ {h.part} /\ next.late = worker[w].late
  <2>1. GoOn(w, h.part) \in Task /\ GoOn(w, h.part).target = u
    BY <1>1, GoOnIs
  <2>2. /\ GoOn(w, h.part).began = worker[w].began /\ GoOn(w, h.part).held = {}
        /\ GoOn(w, h.part).read = worker[w].read
        /\ GoOn(w, h.part).todo = worker[w].todo \ {h.part}
        /\ GoOn(w, h.part).late = worker[w].late
    BY GoOnIs
  <2> QED
    BY <2>1, <2>2
<1>4. UNCHANGED <<secrets, document, refresh, writes>> /\ worker' = [worker EXCEPT ![w] = next]
  BY <1>3 DEF CopyMapping
<1>5. /\ copied' \in [Targets -> [Parts -> Nat]] /\ overrun' \in [Targets -> SUBSET Parts]
      /\ NothingOlder /\ h.part \in Parts
      /\ h.part \notin overrun'[u] => worker[w].began <= copied'[u][h.part]
  BY <1>1, ArrivesIs DEF CopyMapping
<1>6. QueueShapeOK' /\ secrets' >= secrets
  BY <1>3, <1>4, <1>5 DEF QueueInv, QueueShapeOK
<1>7. /\ LatestStay /\ worker'[w] = next
      /\ \A x \in Workers : x = w \/ Like(worker'[x], worker[x])
  BY <1>1, <1>3, <1>4, OneWorker DEF QueueInv, Latest
<1>8. Steady
  BY <1>5, <1>6, <1>7 DEF Steady
<1>9. TaskOK(worker[w])'
  <2>1. PICK s \in Task : s = worker[w]
    BY <1>2
  <2>2. s.read \in Doc /\ s.began \in Nat /\ s.target = u
    BY <1>1, <2>1 DEF Task
  <2>3. True(u, s.read)'
    <3>1. True(u, s.read)
      BY <1>2, <2>1, <2>2 DEF TaskOK
    <3> QED
      BY <1>1, <1>6, <1>8, <2>2, <3>1, TrueStays DEF QueueInv
  <2>4. UpTo(u, s.began, s.todo)'
    <3>1. UpTo(u, s.began, s.todo)
      BY <1>2, <2>1, <2>2 DEF TaskOK
    <3> QED
      BY <1>1, <1>6, <1>8, <2>2, <3>1, UpToStays DEF QueueInv
  <2>5. UpTo(u, s.began, s.todo \ {h.part})'
    BY <1>1, <1>5, <2>1, <2>4 DEF UpTo
  <2>6. u # "none"
    BY TwoQueues
  <2>7. /\ next.target = u /\ next.read = s.read /\ next.began = s.began /\ next.held = {}
        /\ next.todo = s.todo \ {h.part}
    BY <1>3, <2>1
  <2> QED
    BY <1>7, <2>3, <2>5, <2>6, <2>7 DEF TaskOK, True
<1>10. \A x \in Workers : Like(worker'[x], worker[x]) \/ TaskOK(worker[x])'
  BY <1>7, <1>9
<1> QED
  BY <1>4, <1>6, <1>8, <1>10, Preserved

LEMMA CopyFailsKeeps ==
  ASSUME QueueInv, NEW w \in Workers, NEW p \in Parts, CopyFails(w, p)
  PROVE  QueueInv'
<1>1. UNCHANGED <<secrets, document, refresh, writes>>
      /\ worker' = [worker EXCEPT ![w] = AfterFailure(w, p)]
  BY DEF CopyFails
<1>2. worker[w] \in Task /\ p \in worker[w].todo
  BY DEF CopyFails, QueueInv, QueueShapeOK
<1>3. worker[w].target \in Targets
  BY <1>2 DEF Task, QueueInv, WorkersOK, TaskOK
<1>4. /\ copied' \in [Targets -> [Parts -> Nat]] /\ overrun' \in [Targets -> SUBSET Parts]
      /\ NothingOlder
  <2>1. CASE \E h \in worker[w].held : Arrives(w, h)
    BY <1>3, <2>1, ArrivesIs
  <2>2. CASE UNCHANGED <<copied, overrun>>
    BY <2>2 DEF NothingOlder, QueueInv, QueueShapeOK
  <2> QED
    BY <2>1, <2>2 DEF CopyFails
<1>5. CASE worker[w].target \in Repositories
  <2> DEFINE next == GoOn(w, p)
  <2>1. /\ next \in Task /\ next.target = worker[w].target /\ next.began = worker[w].began
        /\ next.read = worker[w].read /\ next.held = {}
    BY GoOnIs
  <2>2. worker' = [worker EXCEPT ![w] = next]
    BY <1>1, <1>5 DEF AfterFailure, Job
  <2>3. QueueShapeOK' /\ secrets' >= secrets
    BY <1>1, <1>4, <2>1, <2>2 DEF QueueInv, QueueShapeOK
  <2>4. next.target \notin OpenshiftProjects
    BY <1>5, <2>1, TwoQueues
  <2>5. /\ LatestStay /\ worker'[w] = next
        /\ \A x \in Workers : x = w \/ Like(worker'[x], worker[x])
    BY <2>2, <2>4, OneWorker DEF QueueInv
  <2>6. TaskOK(worker[w])'
    BY <1>1, <1>5, <2>1, <2>5, OfRepository
  <2>7. \A x \in Workers : Like(worker'[x], worker[x]) \/ TaskOK(worker[x])'
    BY <2>5, <2>6
  <2>8. Steady
    BY <1>4, <2>3, <2>5 DEF Steady
  <2> QED
    BY <1>1, <2>3, <2>7, <2>8, Preserved
<1>6. CASE worker[w].target \notin Repositories
  <2>1. worker' = [worker EXCEPT ![w] = Resting]
    BY <1>1, <1>6 DEF AfterFailure, Job
  <2>2. QueueShapeOK' /\ secrets' >= secrets
    BY <1>1, <1>4, <2>1, RestingIs DEF QueueInv, QueueShapeOK
  <2>3. /\ LatestStay /\ worker'[w] = Resting
        /\ \A x \in Workers : x = w \/ Like(worker'[x], worker[x])
    BY <2>1, RestingIs, OneWorker DEF QueueInv
  <2>4. TaskOK(worker[w])'
    BY <2>2, <2>3, RestingKeeps
  <2>5. \A x \in Workers : Like(worker'[x], worker[x]) \/ TaskOK(worker[x])'
    BY <2>3, <2>4
  <2>6. Steady
    BY <1>4, <2>2, <2>3 DEF Steady
  <2> QED
    BY <1>1, <2>2, <2>5, <2>6, Preserved
<1> QED
  BY <1>5, <1>6

LEMMA LossesKeep ==
  ASSUME QueueInv, NEW w \in Workers, Stall(w) \/ WorkerDies(w)
  PROVE  QueueInv'
<1>1. UNCHANGED <<secrets, copied, document, refresh, writes, overrun>>
  BY DEF Stall, WorkerDies
<1>2. PICK next \in Task :
        /\ worker' = [worker EXCEPT ![w] = next]
        /\ \/ next = Resting
           \/ /\ Like(next, worker[w])
              /\ next.late = worker[w].late
  <2>1. CASE Stall(w)
    <3>1. worker[w] \in Task
      BY DEF QueueInv, QueueShapeOK
    <3>2. PICK n : n = [worker[w] EXCEPT !.lost = TRUE]
      OBVIOUS
    <3>3. n \in Task /\ Like(n, worker[w]) /\ n.late = worker[w].late
      BY <3>1, <3>2 DEF Task, Like
    <3>4. worker' = [worker EXCEPT ![w] = n]
      BY <2>1, <3>2 DEF Stall
    <3> QED
      BY <3>3, <3>4
  <2>2. CASE WorkerDies(w)
    BY <2>2, RestingIs DEF WorkerDies
  <2> QED
    BY <2>1, <2>2
<1>3. QueueShapeOK' /\ secrets' >= secrets
  BY <1>1, <1>2 DEF QueueInv, QueueShapeOK
<1>4. /\ LatestStay /\ worker'[w] = next
      /\ \A x \in Workers : x = w \/ Like(worker'[x], worker[x])
  <2>1. next.target \in OpenshiftProjects /\ ~next.late =>
          Latest(w, next.target) /\ next.began = worker[w].began
    BY <1>2, RestingIs DEF Latest, Like
  <2>2. QueueShapeOK /\ worker' = [worker EXCEPT ![w] = next]
    BY <1>2 DEF QueueInv
  <2> QED
    BY <2>1, <2>2, OneWorker
<1>5. Like(worker'[w], worker[w]) \/ TaskOK(worker[w])'
  BY <1>2, <1>3, <1>4, RestingKeeps
<1>6. \A x \in Workers : Like(worker'[x], worker[x]) \/ TaskOK(worker[x])'
  BY <1>4, <1>5
<1>7. Steady
  BY <1>1, <1>3, <1>4 DEF Steady, NothingOlder
<1> QED
  BY <1>1, <1>3, <1>6, <1>7, Preserved

(* A job that ends has copied everything since it began. *)
LEMMA EndJobKeeps ==
  ASSUME QueueInv, NEW w \in Workers, EndJob(w)
  PROVE  QueueInv'
<1> DEFINE doc == WithSyncAt(w)
<1>1. UNCHANGED <<secrets, copied, document, refresh, overrun>>
      /\ worker' = [worker EXCEPT ![w] = Resting]
  BY DEF EndJob
<1>2. worker[w] \in Task /\ TaskOK(worker[w]) /\ worker[w].todo = {}
  BY DEF EndJob, QueueInv, QueueShapeOK, WorkersOK
<1>3. doc \in Doc /\ doc.syncAt = worker[w].began
  BY <1>2 DEF WithSyncAt, Task, Doc
<1>4. True(Job(w), doc)
  BY <1>2, <1>3 DEF TaskOK, True, Job
<1>5. \/ writes' = writes
      \/ writes' = writes \cup {[target |-> Job(w), document |-> doc]} /\ Job(w) \in Targets
  BY DEF EndJob, WriteBack, Targets
<1>6. QueueShapeOK' /\ secrets' >= secrets
  BY <1>1, <1>3, <1>5, RestingIs DEF QueueInv, QueueShapeOK
<1>7. /\ LatestStay /\ worker'[w] = Resting
      /\ \A x \in Workers : x = w \/ Like(worker'[x], worker[x])
  BY <1>1, RestingIs, OneWorker DEF QueueInv
<1>8. Steady
  BY <1>1, <1>6, <1>7 DEF Steady, NothingOlder
<1>9. \A x \in writes' : x \in writes \/ True(x.target, x.document)'
  <2> SUFFICES ASSUME writes' = writes \cup {[target |-> Job(w), document |-> doc]},
                      Job(w) \in Targets
               PROVE  \A x \in writes' : x \in writes \/ True(x.target, x.document)'
    BY <1>5
  <2>1. \A t \in Targets : \A d \in Doc : True(t, d) => True(t, d)'
    BY <1>6, <1>8, TrueStays DEF QueueInv
  <2>2. PICK t \in Targets, d \in Doc : t = Job(w) /\ d = doc
    BY <1>3
  <2>3. True(t, d)'
    BY <1>4, <2>1, <2>2
  <2> QED
    BY <2>2, <2>3
<1>10. TaskOK(worker[w])'
  BY <1>6, <1>7, RestingKeeps
<1>11. \A x \in Workers : Like(worker'[x], worker[x]) \/ TaskOK(worker[x])'
  BY <1>7, <1>10
<1> QED
  BY <1>1, <1>6, <1>8, <1>9, <1>11, Preserved

LEMMA QueueInvariance == QueueInv /\ [SyncQueueNext]_syncQueueVars => QueueInv'
<1>1. CASE SyncQueueNext
  BY <1>1, WorldKeeps, RefreshesKeep, LandKeeps, DebouncedKeeps, TakeJobKeeps, ReadSecretKeeps,
     CopyServiceKeeps, CopyMappingKeeps, CopyFailsKeeps, LossesKeep, EndJobKeeps DEF SyncQueueNext
<1>2. CASE UNCHANGED syncQueueVars
  BY <1>2 DEF syncQueueVars, QueueInv, QueueShapeOK, CopiesOK, WorkersOK, TaskOK, True, UpTo, Latest
<1> QED
  BY <1>1, <1>2

LEMMA ClaimsAreTrue == QueueInv => SyncAtMeansSynced
  BY DEF QueueInv, QueueShapeOK, CopiesOK, True, UpTo, SyncAtMeansSynced, Targets, Doc

(* Whichever of the copies of a project's document is written back last,     *)
(* whatever fails, and whatever a worker whose job was taken over still     *)
(* reads and writes, its syncAt means that every mapping has been copied    *)
(* since the job that set it began - but for the mappings last written by   *)
(* such a worker.                                                           *)
THEOREM StatusIsHonest == SyncQueueSpec => []SyncAtMeansSynced
  BY QueueInitInv, QueueInvariance, ClaimsAreTrue, PTL DEF SyncQueueSpec

-----------------------------------------------------------------------------
Carried == [part : Parts, version : Version]

Copying == [target : Targets, todo : SUBSET Parts, read : Document, held : SUBSET Carried,
            lost : BOOLEAN, began : Version, late : BOOLEAN]

Pending == UNION {[ts -> Document] : ts \in SUBSET Targets}

QueueTypeInv == SyncQueueTypeOK /\ DOMAIN worker = Workers

LEMMA PendingIs ==
  ASSUME NEW f \in Pending
  PROVE  /\ DOMAIN f \subseteq Targets /\ \A t \in DOMAIN f : f[t] \in Document
         /\ \A S \in SUBSET DOMAIN f : Restrict(f, S) \in Pending
<1>1. PICK ts \in SUBSET Targets : f \in [ts -> Document]
  BY DEF Pending
<1>2. ASSUME NEW S \in SUBSET DOMAIN f PROVE Restrict(f, S) \in Pending
  <2>1. Restrict(f, S) \in [S -> Document] /\ S \in SUBSET Targets
    BY <1>1 DEF Restrict
  <2> QED
    BY <2>1 DEF Pending
<1> QED
  BY <1>1, <1>2

LEMMA DocumentsPend ==
  ASSUME document \in [Targets -> Document]
  PROVE  /\ \A S \in SUBSET Targets : Restrict(document, S) \in Pending
         /\ <<>> \in Pending
<1>1. document \in Pending
  BY DEF Pending
<1>2. <<>> = [t \in {} |-> 0] /\ [t \in {} |-> 0] \in [{} -> Document]
  OBVIOUS
<1> QED
  BY <1>1, <1>2, PendingIs DEF Pending

LEMMA NumbersOfQueues ==
  ASSUME QueueTypeInv
  PROVE  /\ secrets \in 0 .. MaxChanges /\ switches \in 0 .. MaxSwitches
         /\ syncFaults \in 0 .. MaxSyncFaults
         /\ MaxChanges \in Nat /\ MaxSwitches \in Nat /\ MaxSyncFaults \in Nat
  BY ChangesInNat DEF QueueTypeInv, SyncQueueTypeOK, Version

LEMMA FaultyIs ==
  ASSUME QueueTypeInv, Faulty
  PROVE  syncFaults' \in 0 .. MaxSyncFaults
  BY NumbersOfQueues DEF Faulty

LEMMA QueueInitType == SyncQueueInit => QueueTypeInv
<1> SUFFICES ASSUME SyncQueueInit PROVE QueueTypeInv
  OBVIOUS
<1>1. 0 \in Version /\ 0 \in 0 .. MaxSwitches
  BY ChangesInNat DEF Version
<1>2. copied \in [Targets -> [Parts -> Version]] /\ overrun \in [Targets -> SUBSET Parts]
  BY <1>1 DEF SyncQueueInit
<1>3. document \in [Targets -> Document]
  BY <1>1 DEF SyncQueueInit, Document
<1>4. refresh \in [Refreshes -> [begun : BOOLEAN, todo : Pending]]
  BY <1>3, DocumentsPend DEF SyncQueueInit
<1>5. queued \in [Targets -> {"none", "delayed", "waiting"}] /\ writes = {}
  BY DEF SyncQueueInit
<1>6. DOMAIN worker = Workers /\ \A w \in Workers : worker[w] = Resting
  BY DEF SyncQueueInit
<1>7. /\ secrets \in Version /\ switches \in 0 .. MaxSwitches /\ syncFaults \in 0 .. MaxSyncFaults
  BY <1>1 DEF SyncQueueInit
<1> QED
  BY <1>2, <1>3, <1>4, <1>5, <1>6, <1>7 DEF QueueTypeInv, SyncQueueTypeOK, Pending

LEMMA TypeOfWorld ==
  ASSUME QueueTypeInv, ChangeSecrets \/ \E t \in Targets : Switch(t) \/ Debounced(t)
  PROVE  QueueTypeInv'
<1>1. CASE ChangeSecrets
  <2>1. secrets' \in 0 .. MaxChanges
    BY <1>1, NumbersOfQueues DEF ChangeSecrets
  <2> QED
    BY <1>1, <2>1 DEF ChangeSecrets, QueueTypeInv, SyncQueueTypeOK, Version, Document
<1>2. ASSUME NEW t \in Targets, Switch(t) PROVE QueueTypeInv'
  <2>1. switches' \in 0 .. MaxSwitches
    BY <1>2, NumbersOfQueues DEF Switch
  <2> PICK d : d = [document[t] EXCEPT !.enabled = ~@]
    OBVIOUS
  <2>2. document[t] \in Document
    BY DEF QueueTypeInv, SyncQueueTypeOK
  <2>3. d \in Document
    BY <2>2 DEF Document
  <2>4. document' = [document EXCEPT ![t] = d]
    BY <1>2 DEF Switch
  <2>5. document' \in [Targets -> Document]
    BY <2>3, <2>4 DEF QueueTypeInv, SyncQueueTypeOK
  <2> QED
    BY <1>2, <2>1, <2>5 DEF Switch, QueueTypeInv, SyncQueueTypeOK, Version, Document
<1>3. ASSUME NEW t \in Targets, Debounced(t) PROVE QueueTypeInv'
  BY <1>3 DEF Debounced, QueueTypeInv, SyncQueueTypeOK, Version, Document
<1> QED
  BY <1>1, <1>2, <1>3

LEMMA TypeOfRefresh ==
  ASSUME QueueTypeInv, NEW r \in Refreshes, BeginRefresh(r) \/ QueueTarget(r) \/ RefreshDies(r)
  PROVE  QueueTypeInv'
<1>1. /\ document \in [Targets -> Document] /\ refresh \in [Refreshes -> [begun : BOOLEAN, todo : Pending]]
      /\ refresh[r].begun \in BOOLEAN /\ refresh[r].todo \in Pending
  BY DEF QueueTypeInv, SyncQueueTypeOK, Pending
<1>2. ASSUME NEW x \in [begun : BOOLEAN, todo : Pending], refresh' = [refresh EXCEPT ![r] = x]
      PROVE  refresh' \in [Refreshes -> [begun : BOOLEAN, todo : Pending]]
  BY <1>1, <1>2
<1>3. CASE BeginRefresh(r)
  <2>1. PICK reached \in ((SUBSET Repositories) \cup (SUBSET OpenshiftProjects)) \ {{}} :
          refresh' = [refresh EXCEPT ![r] =
              [begun |-> TRUE,
               todo |-> Restrict(document, {t \in reached : IsQueueTargetEnabled(t)})]]
    BY <1>3 DEF BeginRefresh
  <2>2. {t \in reached : IsQueueTargetEnabled(t)} \in SUBSET Targets
    <3>1. reached \in SUBSET Targets
      <4>1. reached \subseteq Repositories \/ reached \subseteq OpenshiftProjects
        OBVIOUS
      <4>2. \A x \in reached : x \in Targets
        BY <4>1 DEF Targets
      <4> QED
        BY <4>2
    <3> QED
      BY <3>1
  <2>3. [begun |-> TRUE, todo |-> Restrict(document, {t \in reached : IsQueueTargetEnabled(t)})]
            \in [begun : BOOLEAN, todo : Pending]
    BY <1>1, <2>2, DocumentsPend
  <2>4. refresh' \in [Refreshes -> [begun : BOOLEAN, todo : Pending]]
    BY <1>2, <2>1, <2>3
  <2> QED
    BY <1>3, <2>4 DEF BeginRefresh, QueueTypeInv, SyncQueueTypeOK, Pending, Version, Document
<1>4. CASE QueueTarget(r)
  <2>1. PICK t \in DOMAIN refresh[r].todo :
          /\ Enqueued(t)
          /\ WriteBack(t, refresh[r].todo[t])
          /\ refresh' = [refresh EXCEPT ![r].todo = Restrict(@, DOMAIN @ \ {t})]
    BY <1>4 DEF QueueTarget
  <2>2. t \in Targets /\ refresh[r].todo[t] \in Document
        /\ Restrict(refresh[r].todo, DOMAIN refresh[r].todo \ {t}) \in Pending
    BY <1>1, PendingIs
  <2> PICK x : x = [begun |-> refresh[r].begun,
                    todo |-> Restrict(refresh[r].todo, DOMAIN refresh[r].todo \ {t})]
    OBVIOUS
  <2>3. x \in [begun : BOOLEAN, todo : Pending]
    BY <1>1, <2>2
  <2>4. refresh' = [refresh EXCEPT ![r] = x]
    <3>1. refresh[r] = [begun |-> refresh[r].begun, todo |-> refresh[r].todo]
      BY <1>1
    <3>2. [refresh[r] EXCEPT !.todo = Restrict(@, DOMAIN @ \ {t})] = x
      BY <3>1
    <3> QED
      BY <2>1, <3>2
  <2>5. refresh' \in [Refreshes -> [begun : BOOLEAN, todo : Pending]]
    BY <1>2, <2>3, <2>4
  <2>6. queued' \in [Targets -> {"none", "delayed", "waiting"}]
    <3>1. queued \in [Targets -> {"none", "delayed", "waiting"}]
      BY DEF QueueTypeInv, SyncQueueTypeOK
    <3> QED
      BY <2>1, <3>1 DEF Enqueued
  <2>7. [target |-> t, document |-> refresh[r].todo[t]] \in [target : Targets, document : Document]
    BY <2>2
  <2>8. writes' \subseteq [target : Targets, document : Document]
    BY <2>1, <2>7 DEF WriteBack, QueueTypeInv, SyncQueueTypeOK
  <2> QED
    BY <1>4, <2>5, <2>6, <2>8 DEF QueueTarget, QueueTypeInv, SyncQueueTypeOK, Pending, Version, Document
<1>5. CASE RefreshDies(r)
  <2> PICK x : x = [begun |-> refresh[r].begun, todo |-> <<>>]
    OBVIOUS
  <2>1. x \in [begun : BOOLEAN, todo : Pending]
    BY <1>1, DocumentsPend
  <2>2. refresh' = [refresh EXCEPT ![r] = x]
    <3>1. refresh[r] = [begun |-> refresh[r].begun, todo |-> refresh[r].todo]
      BY <1>1
    <3>2. [refresh[r] EXCEPT !.todo = <<>>] = x
      BY <3>1
    <3> QED
      BY <1>5, <3>2 DEF RefreshDies
  <2>3. refresh' \in [Refreshes -> [begun : BOOLEAN, todo : Pending]]
    BY <1>2, <2>1, <2>2
  <2>4. syncFaults' \in 0 .. MaxSyncFaults
    BY <1>5, FaultyIs DEF RefreshDies
  <2> QED
    BY <1>5, <2>3, <2>4 DEF RefreshDies, QueueTypeInv, SyncQueueTypeOK, Pending, Version, Document
<1> QED
  BY <1>3, <1>4, <1>5

LEMMA TypeOfLanding ==
  ASSUME QueueTypeInv, NEW x \in writes, Land(x)
  PROVE  QueueTypeInv'
<1>1. x.target \in Targets /\ x.document \in Document
  BY DEF QueueTypeInv, SyncQueueTypeOK
<1>2. document' \in [Targets -> Document]
  BY <1>1 DEF Land, QueueTypeInv, SyncQueueTypeOK
<1> QED
  BY <1>2 DEF Land, QueueTypeInv, SyncQueueTypeOK, Version, Document

LEMMA TypeOfWorkers ==
  ASSUME QueueTypeInv, DOMAIN worker' = Workers,
         \A w \in Workers : worker'[w] = Resting \/ worker'[w] \in Copying,
         queued' \in [Targets -> {"none", "delayed", "waiting"}],
         copied' \in [Targets -> [Parts -> Version]],
         writes' \subseteq [target : Targets, document : Document],
         overrun' \in [Targets -> SUBSET Parts],
         syncFaults' \in 0 .. MaxSyncFaults, UNCHANGED <<secrets, document, refresh, switches>>
  PROVE  QueueTypeInv'
  BY DEF QueueTypeInv, SyncQueueTypeOK, Copying, Carried, Version, Document

(* A worker that goes on with a job or ends it. *)
LEMMA TypeOfWorker ==
  ASSUME QueueTypeInv, NEW w \in Workers, NEW x, x = Resting \/ x \in Copying,
         worker' = worker \/ worker' = [worker EXCEPT ![w] = x]
  PROVE  DOMAIN worker' = Workers /\ \A v \in Workers : worker'[v] = Resting \/ worker'[v] \in Copying
<1>1. ASSUME NEW v \in Workers PROVE worker[v] = Resting \/ worker[v] \in Copying
  BY DEF QueueTypeInv, SyncQueueTypeOK, Copying, Carried
<1>2. ASSUME NEW v \in Workers, worker' = [worker EXCEPT ![w] = x]
      PROVE  worker'[v] \in {worker[v], x}
  BY <1>2 DEF QueueTypeInv
<1> QED
  BY <1>1, <1>2 DEF QueueTypeInv

LEMMA TypeOfJob ==
  ASSUME QueueTypeInv, NEW w \in Workers, worker[w] # Resting
  PROVE  /\ worker[w] \in Copying /\ Job(w) \in Targets /\ WithSyncAt(w) \in Document
         /\ \A p : GoOn(w, p) \in Copying
         /\ \A p : [GoOn(w, p) EXCEPT !.read = WithSyncAt(w)] \in Copying
         /\ [worker[w] EXCEPT !.lost = TRUE] \in Copying
         /\ \A h \in Carried : [worker[w] EXCEPT !.held = {h}] \in Copying
         /\ \A h \in worker[w].held : h \in Carried
<1>1. worker[w] \in Copying
  BY DEF QueueTypeInv, SyncQueueTypeOK, Copying, Carried
<1>2. worker[w].read \in Document /\ worker[w].began \in Version
  BY <1>1 DEF Copying
<1>3. WithSyncAt(w) \in Document
  BY <1>2 DEF WithSyncAt, Document
<1>4. ASSUME NEW p PROVE GoOn(w, p) \in Copying
  BY <1>1 DEF Copying, GoOn
<1>5. ASSUME NEW p PROVE [GoOn(w, p) EXCEPT !.read = WithSyncAt(w)] \in Copying
  BY <1>3, <1>4 DEF Copying
<1>6. [worker[w] EXCEPT !.lost = TRUE] \in Copying
  BY <1>1 DEF Copying
<1>7. \A h \in Carried : [worker[w] EXCEPT !.held = {h}] \in Copying
  BY <1>1 DEF Copying
<1> QED
  BY <1>1, <1>3, <1>4, <1>5, <1>6, <1>7 DEF Job, Copying

LEMMA TypeOfArrival ==
  ASSUME QueueTypeInv, NEW w \in Workers, worker[w] # Resting, NEW h \in worker[w].held,
         Arrives(w, h)
  PROVE  copied' \in [Targets -> [Parts -> Version]] /\ overrun' \in [Targets -> SUBSET Parts]
<1>1. copied \in [Targets -> [Parts -> Version]] /\ overrun \in [Targets -> SUBSET Parts]
  BY DEF QueueTypeInv, SyncQueueTypeOK
<1>2. Job(w) \in Targets /\ h.part \in Parts /\ h.version \in Version
  BY TypeOfJob DEF Carried
<1> PICK c : c = [copied[Job(w)] EXCEPT ![h.part] = h.version]
  OBVIOUS
<1>3. c \in [Parts -> Version] /\ copied' = [copied EXCEPT ![Job(w)] = c]
  BY <1>1, <1>2 DEF Arrives
<1> PICK o : o = IF worker[w].late THEN overrun[Job(w)] \cup {h.part}
                                   ELSE overrun[Job(w)] \ {h.part}
  OBVIOUS
<1>4. o \in SUBSET Parts /\ overrun' = [overrun EXCEPT ![Job(w)] = o]
  BY <1>1, <1>2 DEF Arrives
<1> QED
  BY <1>1, <1>3, <1>4

LEMMA TypeOfWrite ==
  ASSUME QueueTypeInv, NEW t \in Targets, NEW doc \in Document, WriteBack(t, doc)
  PROVE  writes' \subseteq [target : Targets, document : Document]
<1>1. [target |-> t, document |-> doc] \in [target : Targets, document : Document]
  OBVIOUS
<1> QED
  BY <1>1 DEF WriteBack, QueueTypeInv, SyncQueueTypeOK

LEMMA TypeOfRest ==
  ASSUME QueueTypeInv
  PROVE  /\ queued \in [Targets -> {"none", "delayed", "waiting"}]
         /\ copied \in [Targets -> [Parts -> Version]]
         /\ overrun \in [Targets -> SUBSET Parts]
         /\ writes \subseteq [target : Targets, document : Document]
         /\ document \in [Targets -> Document]
         /\ syncFaults \in 0 .. MaxSyncFaults /\ secrets \in Version
         /\ \A t \in Targets, q \in {"none", "delayed", "waiting"} :
               [queued EXCEPT ![t] = q] \in [Targets -> {"none", "delayed", "waiting"}]
  BY DEF QueueTypeInv, SyncQueueTypeOK

LEMMA TypeOfBeginning ==
  ASSUME QueueTypeInv, NEW w \in Workers, TakeJob(w)
  PROVE  QueueTypeInv'
<1>1. PICK t \in Targets :
        /\ queued' = [queued EXCEPT ![t] = "none"]
        /\ \/ worker' = [x \in Workers |-> IF x = w THEN Begun(t) ELSE Overtaken(x, t)]
           \/ worker' = worker
  BY DEF TakeJob
<1>2. UNCHANGED <<secrets, copied, document, refresh, writes, switches, syncFaults, overrun>>
  BY DEF TakeJob
<1>3. queued' \in [Targets -> {"none", "delayed", "waiting"}]
  BY <1>1, TypeOfRest
<1>4. Begun(t) \in Copying
  BY TypeOfRest DEF Begun, Copying
<1>5. \A x \in Workers : worker[x] = Resting \/ worker[x] \in Copying
  BY DEF QueueTypeInv, SyncQueueTypeOK, Copying, Carried
<1>6. \A x \in Workers : Overtaken(x, t) = Resting \/ Overtaken(x, t) \in Copying
  <2> SUFFICES ASSUME NEW x \in Workers
               PROVE  Overtaken(x, t) = Resting \/ Overtaken(x, t) \in Copying
    OBVIOUS
  <2>1. CASE worker[x] = Resting
    <3>1. worker[x].target # t
      BY <2>1, TwoQueues DEF Resting, Targets
    <3> QED
      BY <2>1, <3>1 DEF Overtaken
  <2>2. CASE worker[x] \in Copying
    BY <2>2 DEF Overtaken, Copying
  <2> QED
    BY <1>5, <2>1, <2>2
<1>7. DOMAIN worker' = Workers /\ \A x \in Workers : worker'[x] = Resting \/ worker'[x] \in Copying
  BY <1>1, <1>4, <1>5, <1>6 DEF QueueTypeInv
<1> QED
  BY <1>2, <1>3, <1>7, TypeOfRest, TypeOfWorkers

LEMMA TypeOfWork ==
  ASSUME QueueTypeInv, NEW w \in Workers,
         \/ EndJob(w) \/ Stall(w) \/ WorkerDies(w)
         \/ \E p \in Parts : ReadSecret(w, p) \/ CopyFails(w, p)
         \/ \E h \in worker[w].held : CopyService(w, h) \/ CopyMapping(w, h)
  PROVE  QueueTypeInv'
<1>1. CASE EndJob(w)
  <2>1. /\ worker[w] # Resting /\ worker' = [worker EXCEPT ![w] = Resting]
        /\ WriteBack(Job(w), WithSyncAt(w)) \/ UNCHANGED writes
        /\ UNCHANGED <<secrets, copied, document, queued, refresh, switches, syncFaults, overrun>>
    BY <1>1 DEF EndJob
  <2>2. writes' \subseteq [target : Targets, document : Document]
    BY <2>1, TypeOfJob, TypeOfWrite, TypeOfRest
  <2> QED
    BY <2>1, <2>2, TypeOfRest, TypeOfWorker, TypeOfWorkers
<1>2. CASE Stall(w) \/ WorkerDies(w)
  <2>1. PICK x : /\ worker' = [worker EXCEPT ![w] = x]
                 /\ x = Resting \/ x = [worker[w] EXCEPT !.lost = TRUE]
    <3>1. CASE WorkerDies(w)
      BY <3>1 DEF WorkerDies
    <3>2. CASE Stall(w)
      <4>1. worker' = [worker EXCEPT ![w] = [worker[w] EXCEPT !.lost = TRUE]]
        BY <3>2 DEF Stall
      <4> QED
        BY <4>1
    <3> QED
      BY <1>2, <3>1, <3>2
  <2>2. /\ worker[w] # Resting /\ Faulty
        /\ queued' = [queued EXCEPT ![Job(w)] = "waiting"] \/ UNCHANGED queued
        /\ UNCHANGED <<secrets, copied, document, refresh, writes, switches, overrun>>
    BY <1>2 DEF Stall, WorkerDies, Retried
  <2>3. queued' \in [Targets -> {"none", "delayed", "waiting"}]
    BY <2>2, TypeOfJob, TypeOfRest
  <2>4. x = Resting \/ x \in Copying
    BY <2>1, <2>2, TypeOfJob
  <2> QED
    BY <2>1, <2>2, <2>3, <2>4, FaultyIs, TypeOfRest, TypeOfWorker, TypeOfWorkers
<1>3. ASSUME NEW h \in worker[w].held, CopyService(w, h) PROVE QueueTypeInv'
  <2>1. /\ Arrives(w, h) /\ Job(w) \in Repositories
        /\ WriteBack(Job(w), WithSyncAt(w))
        /\ worker' = [worker EXCEPT ![w] = [GoOn(w, h.part) EXCEPT !.read = WithSyncAt(w)]]
        /\ UNCHANGED <<secrets, document, queued, refresh, switches, syncFaults>>
    BY <1>3 DEF CopyService
  <2>2. worker[w] # Resting
    BY <2>1, TwoQueues DEF Resting, Job
  <2>3. [GoOn(w, h.part) EXCEPT !.read = WithSyncAt(w)] \in Copying
    BY <2>2, TypeOfJob
  <2>4. writes' \subseteq [target : Targets, document : Document]
    BY <2>1, <2>2, TypeOfJob, TypeOfWrite
  <2>5. copied' \in [Targets -> [Parts -> Version]] /\ overrun' \in [Targets -> SUBSET Parts]
    BY <2>1, <2>2, TypeOfArrival
  <2>6. DOMAIN worker' = Workers /\ \A v \in Workers : worker'[v] = Resting \/ worker'[v] \in Copying
    BY <2>1, <2>3, TypeOfWorker
  <2> QED
    BY <2>1, <2>4, <2>5, <2>6, TypeOfRest, TypeOfWorkers
<1>4. ASSUME NEW h \in worker[w].held, CopyMapping(w, h) PROVE QueueTypeInv'
  <2>1. /\ Arrives(w, h) /\ Job(w) \in OpenshiftProjects
        /\ worker' = [worker EXCEPT ![w] = GoOn(w, h.part)]
        /\ UNCHANGED <<secrets, document, queued, refresh, writes, switches, syncFaults>>
    BY <1>4 DEF CopyMapping
  <2>2. worker[w] # Resting
    BY <2>1, TwoQueues DEF Resting, Job
  <2>3. GoOn(w, h.part) \in Copying
    BY <2>2, TypeOfJob
  <2>4. copied' \in [Targets -> [Parts -> Version]] /\ overrun' \in [Targets -> SUBSET Parts]
    BY <2>1, <2>2, TypeOfArrival
  <2>5. DOMAIN worker' = Workers /\ \A v \in Workers : worker'[v] = Resting \/ worker'[v] \in Copying
    BY <2>1, <2>3, TypeOfWorker
  <2> QED
    BY <2>1, <2>4, <2>5, TypeOfRest, TypeOfWorkers
<1>5. ASSUME NEW p \in Parts, ReadSecret(w, p) PROVE QueueTypeInv'
  <2>1. /\ p \in worker[w].todo
        /\ worker' = [worker EXCEPT ![w].held = {[part |-> p, version |-> secrets]}]
        /\ UNCHANGED <<secrets, copied, document, queued, refresh, writes, switches, syncFaults, overrun>>
    BY <1>5 DEF ReadSecret
  <2>2. worker[w] # Resting
    BY <2>1 DEF Resting
  <2> PICK h : h = [part |-> p, version |-> secrets]
    OBVIOUS
  <2>3. h \in Carried
    BY TypeOfRest DEF Carried
  <2>4. worker' = [worker EXCEPT ![w] = [worker[w] EXCEPT !.held = {h}]]
    BY <2>1
  <2>5. [worker[w] EXCEPT !.held = {h}] \in Copying
    BY <2>2, <2>3, TypeOfJob
  <2>6. DOMAIN worker' = Workers /\ \A v \in Workers : worker'[v] = Resting \/ worker'[v] \in Copying
    BY <2>4, <2>5, TypeOfWorker
  <2> QED
    BY <2>1, <2>6, TypeOfRest, TypeOfWorkers
<1>6. ASSUME NEW p \in Parts, CopyFails(w, p) PROVE QueueTypeInv'
  <2>1. /\ p \in worker[w].todo /\ Faulty /\ worker' = [worker EXCEPT ![w] = AfterFailure(w, p)]
        /\ (\E h \in worker[w].held : Arrives(w, h)) \/ UNCHANGED <<copied, overrun>>
        /\ UNCHANGED <<secrets, document, queued, refresh, writes, switches>>
    BY <1>6 DEF CopyFails
  <2>2. worker[w] # Resting
    BY <2>1 DEF Resting
  <2>3. AfterFailure(w, p) = Resting \/ AfterFailure(w, p) \in Copying
    BY <2>2, TypeOfJob DEF AfterFailure
  <2>4. copied' \in [Targets -> [Parts -> Version]] /\ overrun' \in [Targets -> SUBSET Parts]
    BY <2>1, <2>2, TypeOfArrival, TypeOfRest
  <2>5. DOMAIN worker' = Workers /\ \A v \in Workers : worker'[v] = Resting \/ worker'[v] \in Copying
    BY <2>1, <2>3, TypeOfWorker
  <2> QED
    BY <2>1, <2>4, <2>5, FaultyIs, TypeOfRest, TypeOfWorkers
<1> QED
  BY <1>1, <1>2, <1>3, <1>4, <1>5, <1>6

LEMMA QueueTypeStep == QueueTypeInv /\ [SyncQueueNext]_syncQueueVars => QueueTypeInv'
<1> SUFFICES ASSUME QueueTypeInv, [SyncQueueNext]_syncQueueVars PROVE QueueTypeInv'
  OBVIOUS
<1>1. CASE UNCHANGED syncQueueVars
  BY <1>1 DEF syncQueueVars, QueueTypeInv, SyncQueueTypeOK, Version, Document
<1>2. CASE SyncQueueNext
  BY <1>2, TypeOfWorld, TypeOfRefresh, TypeOfLanding, TypeOfBeginning, TypeOfWork
      DEF SyncQueueNext
<1> QED
  BY <1>1, <1>2

(* Documents, their copies, jobs and queues are of their types. *)
THEOREM QueueTypeCorrect == SyncQueueSpec => []SyncQueueTypeOK
<1>1. QueueTypeInv => SyncQueueTypeOK
  BY DEF QueueTypeInv
<1> QED
  BY <1>1, QueueInitType, QueueTypeStep, PTL DEF SyncQueueSpec

-----------------------------------------------------------------------------
L == Len(EdgeToRoles)

(* Somebody with these edges is among the users of an entry of the list. *)
Gives(held, i) == held \cap EdgeToRoles[i].edges # {}

Meets(u, i) == u \in aliased /\ Gives(holds[u], i)

Before(u, i) == \E j \in 1 .. (i - 1) : Meets(u, j)

(* The role of somebody with these edges. *)
RoleBy(known, held) ==
    LET matching == {i \in 1 .. Len(EdgeToRoles) : held \cap EdgeToRoles[i].edges # {}}
    IN  IF ~known \/ matching = {} THEN "none"
        ELSE EdgeToRoles[CHOOSE i \in matching : \A j \in matching : i <= j].role

AsListed(u) == collaborators[u] = userSync.listed[u] /\ u \notin refused

Placed(u) ==
    collaborators[u] = IF u \in refused THEN userSync.listed[u]
                                        ELSE RoleBy(u \in aliased, holds[u])

(* The users met so far are those of the entries before, and are placed; the *)
(* others are as GitHub listed them.                                        *)
UserOK(u) ==
    /\ userSync.step = "query" => (u \in userSync.touched <=> Before(u, userSync.entry))
    /\ userSync.step = "add" =>
          /\ u \in userSync.todo => Meets(u, userSync.entry) /\ u \notin userSync.touched
          /\ u \in userSync.touched <=> \/ Before(u, userSync.entry)
                                        \/ Meets(u, userSync.entry) /\ u \notin userSync.todo
    /\ userSync.step \in {"query", "add"} =>
          IF u \in userSync.touched THEN Placed(u) ELSE AsListed(u)
    /\ userSync.step = "remove" =>
          IF u \in userSync.todo THEN ~Before(u, L + 1) /\ AsListed(u) ELSE Placed(u)
    /\ userSync.step = "done" => Placed(u)

StartOK ==
    userSync.step \in {"none", "list"} =>
        refused = {} /\ userSync.touched = {} /\ userSync.entry = 1

EntryOK == userSync.step = "add" => userSync.entry <= L

UsersInv == UsersTypeOK /\ StartOK /\ EntryOK /\ \A u \in People \ moved : UserOK(u)

-----------------------------------------------------------------------------
LEMMA RoleIs ==
  ASSUME NEW held, NEW i \in 1 .. L, Gives(held, i), \A j \in 1 .. (i - 1) : ~Gives(held, j)
  PROVE  RoleBy(TRUE, held) = EdgeToRoles[i].role
<1> DEFINE matching == {k \in 1 .. Len(EdgeToRoles) : held \cap EdgeToRoles[k].edges # {}}
           least(k) == \A j \in matching : k <= j
<1>1. L \in Nat
  BY UsersBounds DEF L
<1>2. i \in matching /\ least(i)
  BY <1>1 DEF L, Gives
<1>3. \A k \in matching : least(k) => k = i
  BY <1>1, <1>2 DEF L
<1>4. (CHOOSE k \in matching : least(k)) = i
  BY <1>2, <1>3
<1> QED
  BY <1>2, <1>4 DEF RoleBy

LEMMA Unmet ==
  ASSUME NEW u, ~Before(u, L + 1)
  PROVE  RoleBy(u \in aliased, holds[u]) = "none"
<1>1. \A j \in 1 .. L : ~(u \in aliased /\ Gives(holds[u], j))
  BY UsersBounds DEF Before, Meets, L
<1>2. CASE u \in aliased
  <2>1. {j \in 1 .. Len(EdgeToRoles) : holds[u] \cap EdgeToRoles[j].edges # {}} = {}
    BY <1>1, <1>2 DEF Gives, L
  <2> QED
    BY <2>1 DEF RoleBy
<1>3. CASE u \notin aliased
  BY <1>3 DEF RoleBy
<1> QED
  BY <1>2, <1>3

LEMMA RoleForIs == \A u : RoleFor(u) = RoleBy(u \in aliased, holds[u])
  BY DEF RoleFor, RoleBy

LEMMA EntriesAreNumbers ==
  /\ L \in Nat /\ 1 \in 1 .. (Len(EdgeToRoles) + 1)
  /\ \A i \in 1 .. L : EdgeToRoles[i].role \in Roles
  /\ "none" \in Roles
  BY UsersBounds DEF L, Roles

LEMMA UsersInitInv == UsersInit => UsersInv
<1> SUFFICES ASSUME UsersInit PROVE UsersInv
  OBVIOUS
<1>1. UsersTypeOK
  <2>1. /\ 0 \in 0 .. MaxGrants /\ 0 \in 0 .. MaxGithubFaults
        /\ [u \in People |-> "none"] \in [People -> Roles]
    BY UsersBounds, EntriesAreNumbers
  <2>2. userSync \in [step : {"none", "list", "query", "add", "remove", "done"},
                      entry : 1 .. (Len(EdgeToRoles) + 1), todo : SUBSET People,
                      touched : SUBSET People, listed : [People -> Roles]]
    BY <2>1, EntriesAreNumbers DEF UsersInit
  <2>3. collaborators \in [People -> Roles]
    BY DEF UsersInit, Roles
  <2> QED
    BY <2>1, <2>2, <2>3 DEF UsersInit, UsersTypeOK
<1>2. StartOK /\ EntryOK
  BY DEF UsersInit, StartOK, EntryOK
<1>3. \A u \in People : UserOK(u)
  BY DEF UsersInit, UserOK
<1> QED
  BY <1>1, <1>2, <1>3 DEF UsersInv

(* Of whoever does not move everything the graph says stays. *)
LEMMA SameGraph ==
  ASSUME NEW u, holds'[u] = holds[u], aliased' = aliased
  PROVE  /\ \A i : Meets(u, i)' <=> Meets(u, i)
         /\ \A i : Before(u, i)' <=> Before(u, i)
         /\ RoleBy(u \in aliased, holds[u])' = RoleBy(u \in aliased, holds[u])
  BY DEF Meets, Before, Gives, RoleBy

LEMMA RegrantKeeps ==
  ASSUME UsersInv, NEW v \in People, Regrant(v)
  PROVE  UsersInv'
<1>1. UsersTypeOK'
  BY UsersBounds DEF UsersInv, UsersTypeOK, Regrant
<1>2. UNCHANGED <<aliased, collaborators, userSync, refused>> /\ moved' = moved \cup {v}
  BY DEF Regrant
<1>3. StartOK' /\ EntryOK'
  BY <1>2 DEF UsersInv, StartOK, EntryOK
<1>4. ASSUME NEW u \in People \ moved' PROVE UserOK(u)'
  <2>1. u \in People \ moved /\ holds'[u] = holds[u]
    BY <1>2 DEF UsersInv, UsersTypeOK, Regrant
  <2> QED
    BY <1>2, <2>1, SameGraph DEF UsersInv, UserOK, Placed, AsListed
<1> QED
  BY <1>1, <1>3, <1>4 DEF UsersInv

LEMMA BeginUsersKeeps == UsersInv /\ (BeginUserSync \/ ListCollaborators) => UsersInv'
<1> SUFFICES ASSUME UsersInv, BeginUserSync \/ ListCollaborators PROVE UsersInv'
  OBVIOUS
<1>1. /\ UNCHANGED <<holds, aliased, collaborators, grants, moved, refused>>
      /\ githubFaults' \in 0 .. MaxGithubFaults
      /\ refused = {} /\ userSync.touched = {} /\ userSync.entry = 1
  BY UsersBounds DEF UsersInv, UsersTypeOK, StartOK, BeginUserSync, ListCollaborators
<1>2. \/ userSync' = [userSync EXCEPT !.step = "list"]
      \/ userSync' = [userSync EXCEPT !.step = "none"]
      \/ userSync' = [userSync EXCEPT !.step = "query", !.listed = collaborators]
  BY DEF BeginUserSync, ListCollaborators
<1>3. UsersTypeOK'
  BY <1>1, <1>2 DEF UsersInv, UsersTypeOK
<1>4. StartOK' /\ EntryOK'
  BY <1>1, <1>2 DEF UsersInv, UsersTypeOK, StartOK, EntryOK
<1>5. ASSUME NEW u \in People PROVE UserOK(u)'
  <2>1. CASE userSync' = [userSync EXCEPT !.step = "query", !.listed = collaborators]
    <3>1. /\ userSync'.step = "query" /\ userSync'.touched = {} /\ userSync'.entry = 1
          /\ userSync'.listed = collaborators
      BY <1>1, <2>1 DEF UsersInv, UsersTypeOK
    <3>2. ~Before(u, userSync.entry)'
      BY <3>1 DEF Before
    <3> QED
      BY <1>1, <3>1, <3>2 DEF UserOK, AsListed
  <2>2. CASE userSync'.step \in {"none", "list"}
    BY <2>2 DEF UserOK
  <2> QED
    BY <1>2, <2>1, <2>2 DEF UsersInv, UsersTypeOK
<1> QED
  BY <1>3, <1>4, <1>5 DEF UsersInv

LEMMA QueryKeeps == UsersInv /\ QueryRole => UsersInv'
<1> SUFFICES ASSUME UsersInv, QueryRole PROVE UsersInv'
  OBVIOUS
<1> DEFINE i == userSync.entry
           found == {u \in aliased : holds[u] \cap EdgeToRoles[i].edges # {} /\ NotTouched(u)}
<1>1. UNCHANGED <<holds, aliased, collaborators, grants, githubFaults, moved, refused>>
  BY DEF QueryRole
<1>2. i \in 1 .. (L + 1) /\ L \in Nat /\ userSync.step = "query"
  BY EntriesAreNumbers DEF UsersInv, UsersTypeOK, L, QueryRole
<1>3. CASE i <= L
  <2>1. userSync' = [userSync EXCEPT !.step = "add", !.todo = found]
    BY <1>3 DEF QueryRole, L
  <2>2. found \subseteq People
    BY DEF UsersInv, UsersTypeOK
  <2>3. /\ userSync'.step = "add" /\ userSync'.todo = found /\ userSync'.entry = i
        /\ userSync'.touched = userSync.touched /\ userSync'.listed = userSync.listed
    BY <2>1 DEF UsersInv, UsersTypeOK
  <2>4. UsersTypeOK' /\ StartOK' /\ EntryOK'
    BY <1>1, <1>3, <2>1, <2>2, <2>3 DEF UsersInv, UsersTypeOK, StartOK, EntryOK
  <2>5. ASSUME NEW u \in People \ moved' PROVE UserOK(u)'
    <3>1. UserOK(u)
      BY <1>1 DEF UsersInv
    <3>2. u \in found <=> Meets(u, i) /\ u \notin userSync.touched
      BY DEF Meets, Gives, NotTouched
    <3>3. /\ Meets(u, i)' <=> Meets(u, i)
          /\ Before(u, i)' <=> Before(u, i)
          /\ Placed(u)' <=> Placed(u)
          /\ AsListed(u)' <=> AsListed(u)
      BY <1>1, <2>3, SameGraph DEF Placed, AsListed
    <3> QED
      BY <1>2, <2>3, <3>1, <3>2, <3>3 DEF UserOK
  <2> QED
    BY <2>4, <2>5 DEF UsersInv
<1>4. CASE i = L + 1
  <2>1. userSync' = [userSync EXCEPT !.step = "remove", !.todo = Listed \ userSync.touched]
    BY <1>2, <1>4 DEF QueryRole, L
  <2>2. Listed \ userSync.touched \subseteq People
    BY DEF Listed
  <2>3. /\ userSync'.step = "remove" /\ userSync'.todo = Listed \ userSync.touched
        /\ userSync'.entry = i /\ userSync'.touched = userSync.touched
        /\ userSync'.listed = userSync.listed
    BY <2>1 DEF UsersInv, UsersTypeOK
  <2>4. UsersTypeOK' /\ StartOK' /\ EntryOK'
    BY <1>1, <2>1, <2>2, <2>3 DEF UsersInv, UsersTypeOK, StartOK, EntryOK
  <2>5. ASSUME NEW u \in People \ moved' PROVE UserOK(u)'
    <3>1. UserOK(u)
      BY <1>1 DEF UsersInv
    <3>2. u \in userSync.touched <=> Before(u, L + 1)
      BY <1>2, <1>4, <3>1 DEF UserOK
    <3>3. IF u \in userSync.touched THEN Placed(u) ELSE AsListed(u)
      BY <1>2, <3>1 DEF UserOK
    <3>4. /\ Before(u, L + 1)' <=> Before(u, L + 1)
          /\ Placed(u)' <=> Placed(u)
          /\ AsListed(u)' <=> AsListed(u)
      BY <1>1, <2>3, SameGraph DEF Placed, AsListed
    <3>5. ASSUME u \notin userSync.touched, u \notin Listed PROVE Placed(u)
      <4>1. AsListed(u) /\ userSync.listed[u] = "none"
        BY <3>3, <3>5 DEF Listed
      <4>2. RoleBy(u \in aliased, holds[u]) = "none"
        BY <3>2, <3>5, Unmet
      <4> QED
        BY <4>1, <4>2 DEF AsListed, Placed
    <3> QED
      BY <2>3, <3>2, <3>3, <3>4, <3>5 DEF UserOK
  <2> QED
    BY <2>4, <2>5 DEF UsersInv
<1> QED
  BY <1>2, <1>3, <1>4

(* A call for v changes nobody else, and v to the role or not at all. *)
LEMMA CallIs ==
  ASSUME UsersTypeOK, NEW v \in People, NEW role \in Roles,
         PutCollaborator(v, role) \/ (DropCollaborator(v) /\ role = "none")
  PROVE  /\ collaborators' \in [People -> Roles]
         /\ refused' \subseteq People /\ githubFaults' \in 0 .. MaxGithubFaults
         /\ \A u \in People : u # v => /\ collaborators'[u] = collaborators[u]
                                       /\ u \in refused' <=> u \in refused
         /\ \/ collaborators'[v] = role /\ (v \in refused' <=> v \in refused)
            \/ collaborators'[v] = collaborators[v] /\ v \in refused'
  BY UsersBounds DEF UsersTypeOK, PutCollaborator, DropCollaborator, GithubFails

LEMMA AddKeeps == UsersInv /\ AddCollaborators => UsersInv'
<1> SUFFICES ASSUME UsersInv, AddCollaborators PROVE UsersInv'
  OBVIOUS
<1> DEFINE i == userSync.entry
           role == EdgeToRoles[i].role
<1>1. UNCHANGED <<holds, aliased, grants, moved>> /\ userSync.step = "add"
  BY DEF AddCollaborators
<1>2. i \in 1 .. L /\ L \in Nat /\ role \in Roles
  BY <1>1, EntriesAreNumbers DEF UsersInv, UsersTypeOK, EntryOK, L
<1>3. ASSUME NEW v \in userSync.todo,
             userSync' = [userSync EXCEPT !.todo = @ \ {v}, !.touched = @ \cup {v}],
             \/ userSync.listed[v] # role /\ PutCollaborator(v, role)
             \/ userSync.listed[v] = role /\ UNCHANGED <<collaborators, githubFaults, refused>>
      PROVE  UsersInv'
  <2>1. v \in People
    BY DEF UsersInv, UsersTypeOK
  <2>2. /\ userSync'.step = "add" /\ userSync'.entry = i /\ userSync'.listed = userSync.listed
        /\ userSync'.todo = userSync.todo \ {v} /\ userSync'.touched = userSync.touched \cup {v}
    BY <1>1, <1>3 DEF UsersInv, UsersTypeOK
  <2>3. /\ collaborators' \in [People -> Roles]
        /\ refused' \subseteq People /\ githubFaults' \in 0 .. MaxGithubFaults
        /\ \A u \in People : u # v => /\ collaborators'[u] = collaborators[u]
                                      /\ u \in refused' <=> u \in refused
        /\ \/ collaborators'[v] = role /\ (v \in refused' <=> v \in refused)
           \/ collaborators'[v] = collaborators[v] /\ v \in refused'
           \/ /\ userSync.listed[v] = role /\ collaborators'[v] = collaborators[v]
              /\ v \in refused' <=> v \in refused
    BY <1>2, <1>3, <2>1, CallIs DEF UsersInv, UsersTypeOK
  <2>4. UsersTypeOK'
    BY <1>1, <1>3, <2>1, <2>3 DEF UsersInv, UsersTypeOK
  <2>5. StartOK' /\ EntryOK'
    BY <1>2, <2>2 DEF StartOK, EntryOK
  <2>6. ASSUME NEW u \in People \ moved' PROVE UserOK(u)'
    <3>1. UserOK(u)
      BY <1>1 DEF UsersInv
    <3>2. /\ Meets(u, i)' <=> Meets(u, i)
          /\ Before(u, i)' <=> Before(u, i)
          /\ RoleBy(u \in aliased, holds[u])' = RoleBy(u \in aliased, holds[u])
      BY <1>1, <2>2, SameGraph
    <3>3. CASE u # v
      <4>1. (Placed(u)' <=> Placed(u)) /\ (AsListed(u)' <=> AsListed(u))
        BY <2>2, <2>3, <3>2, <3>3 DEF Placed, AsListed
      <4> QED
        BY <1>1, <2>2, <3>1, <3>2, <3>3, <4>1 DEF UserOK
    <3>4. CASE u = v
      <4>1. Meets(u, i) /\ u \notin userSync.touched /\ ~Before(u, i) /\ AsListed(u)
        BY <1>1, <1>3, <3>1, <3>4 DEF UserOK
      <4>2. RoleBy(u \in aliased, holds[u]) = role
        <5>1. u \in aliased /\ Gives(holds[u], i) /\ \A j \in 1 .. (i - 1) : ~Gives(holds[u], j)
          BY <4>1 DEF Meets, Before
        <5>2. RoleBy(TRUE, holds[u]) = role
          BY <1>2, <5>1, RoleIs
        <5>3. (u \in aliased) = TRUE
          BY <5>1
        <5> QED
          BY <5>2, <5>3
      <4>3. Placed(u)'
        BY <2>2, <2>3, <3>2, <3>4, <4>1, <4>2 DEF Placed, AsListed
      <4> QED
        BY <2>2, <3>2, <3>4, <4>1, <4>3 DEF UserOK
    <3> QED
      BY <3>3, <3>4
  <2> QED
    BY <2>4, <2>5, <2>6 DEF UsersInv
<1>4. ASSUME userSync.todo = {}, userSync' = [userSync EXCEPT !.step = "query", !.entry = @ + 1],
             UNCHANGED <<collaborators, githubFaults, refused>>
      PROVE  UsersInv'
  <2>1. /\ userSync'.step = "query" /\ userSync'.entry = i + 1 /\ userSync'.listed = userSync.listed
        /\ userSync'.todo = {} /\ userSync'.touched = userSync.touched
    BY <1>4 DEF UsersInv, UsersTypeOK
  <2>2. i + 1 \in 1 .. (Len(EdgeToRoles) + 1)
    BY <1>2 DEF L
  <2>3. UsersTypeOK' /\ StartOK' /\ EntryOK'
    BY <1>1, <1>4, <2>1, <2>2 DEF UsersInv, UsersTypeOK, StartOK, EntryOK
  <2>4. PICK k \in 1 .. L : k = i
    BY <1>2
  <2>5. ASSUME NEW u \in People \ moved' PROVE UserOK(u)'
    <3>1. UserOK(u)
      BY <1>1 DEF UsersInv
    <3>2. u \in userSync.touched <=> Before(u, k) \/ Meets(u, k)
      BY <1>1, <1>4, <2>4, <3>1 DEF UserOK
    <3>3. Before(u, k + 1) <=> Before(u, k) \/ Meets(u, k)
      BY <1>2 DEF Before
    <3>4. /\ Before(u, k + 1)' <=> Before(u, k + 1)
          /\ RoleBy(u \in aliased, holds[u])' = RoleBy(u \in aliased, holds[u])
      BY <1>1, SameGraph
    <3>5. Before(u, userSync.entry)' <=> Before(u, k + 1)
      BY <2>1, <2>4, <3>4
    <3>6. (Placed(u)' <=> Placed(u)) /\ (AsListed(u)' <=> AsListed(u))
      BY <1>4, <2>1, <3>4 DEF Placed, AsListed
    <3> QED
      BY <1>1, <2>1, <3>1, <3>2, <3>3, <3>5, <3>6 DEF UserOK
  <2> QED
    BY <2>3, <2>5 DEF UsersInv
<1> QED
  BY <1>3, <1>4 DEF AddCollaborators

LEMMA RemoveKeeps == UsersInv /\ RemoveCollaborators => UsersInv'
<1> SUFFICES ASSUME UsersInv, RemoveCollaborators PROVE UsersInv'
  OBVIOUS
<1>1. UNCHANGED <<holds, aliased, grants, moved>> /\ userSync.step = "remove" /\ L \in Nat
  BY EntriesAreNumbers DEF RemoveCollaborators
<1>2. ASSUME NEW v \in userSync.todo, userSync' = [userSync EXCEPT !.todo = @ \ {v}],
             DropCollaborator(v)
      PROVE  UsersInv'
  <2>1. v \in People
    BY DEF UsersInv, UsersTypeOK
  <2>2. /\ userSync'.step = "remove" /\ userSync'.listed = userSync.listed
        /\ userSync'.todo = userSync.todo \ {v}
    BY <1>1, <1>2 DEF UsersInv, UsersTypeOK
  <2>3. /\ collaborators' \in [People -> Roles]
        /\ refused' \subseteq People /\ githubFaults' \in 0 .. MaxGithubFaults
        /\ \A u \in People : u # v => /\ collaborators'[u] = collaborators[u]
                                      /\ u \in refused' <=> u \in refused
        /\ \/ collaborators'[v] = "none" /\ (v \in refused' <=> v \in refused)
           \/ collaborators'[v] = collaborators[v] /\ v \in refused'
    BY <1>2, <2>1, CallIs, EntriesAreNumbers DEF UsersInv
  <2>4. UsersTypeOK'
    BY <1>1, <1>2, <2>3 DEF UsersInv, UsersTypeOK
  <2>5. StartOK' /\ EntryOK'
    BY <2>2 DEF StartOK, EntryOK
  <2>6. ASSUME NEW u \in People \ moved' PROVE UserOK(u)'
    <3>1. UserOK(u)
      BY <1>1 DEF UsersInv
    <3>2. /\ Before(u, L + 1)' <=> Before(u, L + 1)
          /\ RoleBy(u \in aliased, holds[u])' = RoleBy(u \in aliased, holds[u])
      BY <1>1, SameGraph
    <3>3. CASE u # v
      <4>1. (Placed(u)' <=> Placed(u)) /\ (AsListed(u)' <=> AsListed(u))
        BY <2>2, <2>3, <3>2, <3>3 DEF Placed, AsListed
      <4> QED
        BY <1>1, <2>2, <3>1, <3>2, <3>3, <4>1 DEF UserOK
    <3>4. CASE u = v
      <4>1. ~Before(u, L + 1) /\ AsListed(u)
        BY <1>1, <1>2, <3>1, <3>4 DEF UserOK
      <4>2. RoleBy(u \in aliased, holds[u]) = "none"
        BY <4>1, Unmet
      <4>3. Placed(u)'
        BY <2>2, <2>3, <3>2, <3>4, <4>1, <4>2 DEF Placed, AsListed
      <4> QED
        BY <2>2, <3>4, <4>3 DEF UserOK
    <3> QED
      BY <3>3, <3>4
  <2> QED
    BY <2>4, <2>5, <2>6 DEF UsersInv
<1>3. ASSUME userSync.todo = {}, userSync' = [userSync EXCEPT !.step = "done"],
             UNCHANGED <<collaborators, githubFaults, refused>>
      PROVE  UsersInv'
  <2>1. userSync'.step = "done" /\ userSync'.listed = userSync.listed
    BY <1>3 DEF UsersInv, UsersTypeOK
  <2>2. UsersTypeOK' /\ StartOK' /\ EntryOK'
    BY <1>1, <1>3, <2>1 DEF UsersInv, UsersTypeOK, StartOK, EntryOK
  <2>3. ASSUME NEW u \in People \ moved' PROVE UserOK(u)'
    <3>1. Placed(u)
      BY <1>1, <1>3 DEF UsersInv, UserOK
    <3>2. RoleBy(u \in aliased, holds[u])' = RoleBy(u \in aliased, holds[u])
      BY <1>1, SameGraph
    <3> QED
      BY <1>3, <2>1, <3>1, <3>2 DEF UserOK, Placed
  <2> QED
    BY <2>2, <2>3 DEF UsersInv
<1> QED
  BY <1>2, <1>3 DEF RemoveCollaborators

LEMMA UsersInvariance == UsersInv /\ [UsersNext]_usersVars => UsersInv'
<1>1. CASE UsersNext
  BY <1>1, RegrantKeeps, BeginUsersKeeps, QueryKeeps, AddKeeps, RemoveKeeps DEF UsersNext
<1>2. CASE UNCHANGED usersVars
  <2>1. \A u : RoleBy(u \in aliased, holds[u])' = RoleBy(u \in aliased, holds[u])
    BY <1>2, SameGraph DEF usersVars
  <2> QED
    BY <1>2, <2>1 DEF usersVars, UsersInv, UsersTypeOK, StartOK, EntryOK, UserOK, Before, Meets,
                      Gives, Placed, AsListed
<1> QED
  BY <1>1, <1>2

LEMMA DoneIsPlaced == UsersInv => SyncedUsersMatch
  BY RoleForIs DEF UsersInv, UserOK, Placed, SyncedUsersMatch

(* The job's locals, and what GitHub knows, keep their shape. *)
THEOREM UsersTypeCorrect == UsersSpec => []UsersTypeOK
<1>1. UsersInv => UsersTypeOK
  BY DEF UsersInv
<1> QED
  BY UsersInitInv, UsersInvariance, <1>1, PTL DEF UsersSpec

(* When the job is done everybody who was not moved under it has the role of *)
(* the first entry that one of the edges is in, or none, and nobody whose    *)
(* call was refused has any other role than before: for every list of roles. *)
THEOREM EverybodyIsPlaced == UsersSpec => []SyncedUsersMatch
  BY UsersInitInv, UsersInvariance, DoneIsPlaced, PTL DEF UsersSpec

-----------------------------------------------------------------------------
(* The parts beside each other, as the run takes them: while one goes on the *)
(* others stand still, so each keeps its own invariant.                      *)
BackgroundInv == RenewalInv /\ CacheInv /\ IndexInv /\ QueueInv /\ QueueTypeInv /\ UsersInv

LEMMA BackgroundInvHolds == Spec => []BackgroundInv
<1>1. Init => BackgroundInv
  BY RenewalInitInv, CacheInitInv, IndexInitInv, QueueInitInv, QueueInitType, UsersInitInv
     DEF Init, BackgroundInv
<1>2. BackgroundInv /\ [Next]_vars => BackgroundInv'
  <2> SUFFICES ASSUME BackgroundInv, [Next]_vars PROVE BackgroundInv'
    OBVIOUS
  <2>1. /\ [RenewalNext]_renewalVars /\ [CacheNext]_cacheVars /\ [IndexNext]_indexVars
        /\ [SyncQueueNext]_syncQueueVars /\ [UsersNext]_usersVars
    BY DEF Next, Rest, vars
  <2> QED
    BY <2>1, RenewalInvariance, CacheInvariance, IndexStep, QueueInvariance, QueueTypeStep,
       UsersInvariance DEF BackgroundInv
<1> QED
  BY <1>1, <1>2, PTL DEF Spec

(* Whatever part of the background work goes on, what every part keeps has   *)
(* its type.                                                                 *)
THEOREM BackgroundTypesCorrect == Spec => []TypesOK
<1>1. CacheInv => CacheTypeOK
  BY DEF CacheInv
<1>2. RenewalInv => RenewalTypeOK
  BY DEF RenewalInv
<1>3. QueueTypeInv => SyncQueueTypeOK
  BY DEF QueueTypeInv
<1>4. UsersInv => UsersTypeOK
  BY DEF UsersInv
<1>5. BackgroundInv => TypesOK
  BY <1>1, <1>2, <1>3, <1>4, IndexInvTypes DEF BackgroundInv, TypesOK
<1> QED
  BY <1>5, BackgroundInvHolds, PTL

=============================================================================
