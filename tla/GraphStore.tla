----------------------------- MODULE GraphStore -----------------------------
(***************************************************************************)
(* The graph of the Broker: vertices, the collection document that holds   *)
(* the details of each vertex, and named edges, under concurrent writers   *)
(* (graph.service.ts, graph-mongo.repository.ts).                          *)
(*                                                                         *)
(* MongoDB keeps the three in collections of their own, with no            *)
(* transaction and no unique index over them: what a writer checks is read *)
(* some awaits before what it writes, and a delete is a recursive walk     *)
(* with a write at every step.                                             *)
(***************************************************************************)
EXTENDS Naturals, Sequences, FiniteSets

CONSTANTS
    Vertex,     \* the ids vertices may be given
    Edge,       \* the ids edges may be given
    Name,       \* the names of edges the configuration knows
    OneToOne,   \* those with relation oneToOne
    Cascade,    \* those with onDelete cascade
    Deletable,  \* the vertices of collections with the delete permission
    SameKey,    \* sets of vertices that ask for one value of a unique field
    Seed,       \* the vertices that are there from the start
    Writer,     \* requests that change the graph
    MaxFaults,  \* how many deaths and failed deletes there may be
    None        \* no vertex, no edge, no name

ASSUME EdgeKinds == OneToOne \subseteq Name /\ Cascade \subseteq Name
ASSUME SeedIsVertices == Seed \subseteq Vertex
ASSUME SeedHasItsKeys == \A K \in SameKey, u, v \in Seed : {u, v} \subseteq K => u = v
ASSUME MaxFaultsInNat == MaxFaults \in Nat
ASSUME NoneIsNothing == None \notin Vertex /\ None \notin Edge /\ None \notin Name

VARIABLES
    status,     \* of a vertex: "unborn", "drawn" (its id), "there" or "gone"
    details,    \* the vertices with a collection document
    edges,      \* the edges there are
    link,       \* source, target and name of every edge that ever was
    proc,       \* the local state of every writer
    faults      \* deaths and failed deletes there have been

vars == <<status, details, edges, link, proc, faults>>

There == {v \in Vertex : status[v] = "there"}

Link == [source : Vertex, target : Vertex, name : Name]

NoLink == [source |-> None, target |-> None, name |-> None]

-----------------------------------------------------------------------------
(* What a writer is doing.  The walk of a delete is a stack with a frame   *)
(* per call of deleteVertex(); "via" is the edge whose deletion cascaded.  *)

Stage == {"start", "in", "out", "last"}

Frame == [vertex : Vertex, via : Edge \union {None}, stage : Stage, todo : SUBSET Edge]

Idle == [pc |-> "idle", vertex |-> None, link |-> NoLink, edge |-> None,
         removed |-> {}, stack |-> <<>>]

PC == {"idle", "vertex", "details", "undo", "cycle", "duplicate", "single", "edge",
       "upsert", "edit", "walk", "count", "remove"}

ProcState ==
    [pc : PC, vertex : Vertex \union {None}, link : Link \union {NoLink},
     edge : Edge \union {None}, removed : SUBSET Edge, stack : Seq(Frame)]

Goto(p, state) == proc' = [proc EXCEPT ![p] = state]

At(p, pc) == [proc[p] EXCEPT !.pc = pc]

StoreUntouched == UNCHANGED <<status, details, edges, link, faults>>

-----------------------------------------------------------------------------
(* addVertex(): the unique fields are checked, the vertex is inserted, then *)
(* its collection document; a failure of the latter removes the vertex.    *)

\* No other vertex has the value of a unique field.
KeyIsFree(v) == \A K \in SameKey : v \in K => K \intersect details \subseteq {v}

BeginAddVertex(p, v) ==
    /\ status[v] = "unborn"
    /\ KeyIsFree(v)
    /\ status' = [status EXCEPT ![v] = "drawn"]
    /\ Goto(p, [Idle EXCEPT !.pc = "vertex", !.vertex = v])
    /\ UNCHANGED <<details, edges, link, faults>>

InsertVertex(p) ==
    /\ proc[p].pc = "vertex"
    /\ status' = [status EXCEPT ![proc[p].vertex] = "there"]
    /\ Goto(p, At(p, "details"))
    /\ UNCHANGED <<details, edges, link, faults>>

InsertDetails(p) ==
    /\ proc[p].pc = "details"
    /\ \/ details' = details \union {proc[p].vertex} /\ Goto(p, Idle)
       \/ details' = details /\ Goto(p, At(p, "undo"))
    /\ UNCHANGED <<status, edges, link, faults>>

\* MUTANT: the orphan is left behind.
LeftBehind(v) == status

Removed(v) == [status EXCEPT ![v] = "gone"]

\* "Delete orphan vertex".
UndoVertex(p) ==
    /\ proc[p].pc = "undo"
    /\ status' = Removed(proc[p].vertex)
    /\ Goto(p, Idle)
    /\ UNCHANGED <<details, edges, link, faults>>

-----------------------------------------------------------------------------
(* editVertex(): both documents must be there, and the unique fields are   *)
(* checked; the collection document is an upsert, the vertex is not.       *)

BeginEditVertex(p, v) ==
    /\ v \in There
    /\ v \in details
    /\ KeyIsFree(v)
    /\ Goto(p, [Idle EXCEPT !.pc = "upsert", !.vertex = v])
    /\ StoreUntouched

UpsertDetails(p) ==
    /\ proc[p].pc = "upsert"
    /\ details' = details \union {proc[p].vertex}
    /\ Goto(p, At(p, "edit"))
    /\ UNCHANGED <<status, edges, link, faults>>

\* MUTANT: the vertex is an upsert as well.
Upserted(v) == [status EXCEPT ![v] = "there"]

\* updateOne() on a vertex that is gone matches nothing, and editVertex() throws.
Edited(v) == status

EditVertex(p) ==
    /\ proc[p].pc = "edit"
    /\ status' = Edited(proc[p].vertex)
    /\ Goto(p, Idle)
    /\ UNCHANGED <<details, edges, link, faults>>

-----------------------------------------------------------------------------
(* addEdge(): four reads, each of which may refuse the edge, and an insert. *)

BeginAddEdge(p, s, t, n) ==
    /\ s \in There /\ t \in There /\ s # t
    /\ Goto(p, [Idle EXCEPT !.pc = "cycle",
                            !.link = [source |-> s, target |-> t, name |-> n]])
    /\ StoreUntouched

Successors(v) == {link[e].target : e \in {x \in edges : link[x].source = v}}

\* The sets no edge leads out of.
Closed(S) == \A e \in edges : link[e].source \in S => link[e].target \in S

\* An edge leads from v to somewhere from where edges lead to w.
Reaches(v, w) == \A S \in SUBSET Vertex : Successors(v) \subseteq S /\ Closed(S) => w \in S

\* MUTANT: only a direct edge back counts.
ClosesShortCycle(l) == l.target \in There /\ l.source \in Successors(l.target)

\* The $graphLookup that starts at the target, if that is still there.
ClosesCycle(l) == l.target \in There /\ Reaches(l.target, l.source)

CheckCycle(p) ==
    /\ proc[p].pc = "cycle"
    /\ Goto(p, IF ClosesCycle(proc[p].link) THEN Idle ELSE At(p, "duplicate"))
    /\ StoreUntouched

CheckDuplicate(p) ==
    /\ proc[p].pc = "duplicate"
    /\ Goto(p, IF \E e \in edges : link[e] = proc[p].link THEN Idle
               ELSE At(p, IF proc[p].link.name \in OneToOne THEN "single" ELSE "edge"))
    /\ StoreUntouched

\* MUTANT: only edges to the same target are counted.
CountsTarget(l, k) == l = k

SameRelation(l, k) == l.source = k.source /\ l.name = k.name

CheckSingle(p) ==
    /\ proc[p].pc = "single"
    /\ Goto(p, IF \E e \in edges : SameRelation(link[e], proc[p].link) THEN Idle
               ELSE At(p, "edge"))
    /\ StoreUntouched

InsertEdge(p, e) ==
    /\ proc[p].pc = "edge"
    /\ link[e] = NoLink
    /\ link' = [link EXCEPT ![e] = proc[p].link]
    /\ edges' = edges \union {e}
    /\ Goto(p, Idle)
    /\ UNCHANGED <<status, details, faults>>

-----------------------------------------------------------------------------
(* deleteEdge() and deleteVertex().                                        *)

Top(p) == proc[p].stack[Len(proc[p].stack)]

\* The innermost call of deleteVertex() goes on as frame f.
WithTop(p, f) ==
    [proc[p] EXCEPT !.stack = [@ EXCEPT ![Len(proc[p].stack)] = f]]

Incoming(v) == {e \in edges : link[e].target = v}

Outgoing(v) == {e \in edges : link[e].source = v}

\* MUTANT: the call of deleteEdge() by a request returns to a loop, too.
BackToLoop(state) == [state EXCEPT !.pc = "walk", !.edge = None]

\* A delete of an edge ends, or goes back to the loop it was called from.
Resume(state) == IF state.stack = <<>> THEN Idle ELSE [state EXCEPT !.pc = "walk", !.edge = None]

\* What is left of the list of the innermost call: an edge this request has
\* removed is not found again.
Left(p) == Top(p).todo \ proc[p].removed

BeginDeleteEdge(p, e) ==
    /\ e \in edges
    /\ link[e].source \in There
    /\ Goto(p, [Idle EXCEPT !.pc = IF link[e].name \in Cascade THEN "count" ELSE "remove",
                            !.edge = e])
    /\ StoreUntouched

Call(v, via) == [vertex |-> v, via |-> via, stage |-> "start", todo |-> {}]

MayDelete(v) == v \in There /\ v \in Deletable

BeginDeleteVertex(p, v) ==
    /\ MayDelete(v)
    /\ Goto(p, [Idle EXCEPT !.pc = "walk", !.stack = <<Call(v, None)>>])
    /\ StoreUntouched

Walking(p, stage) == proc[p].pc = "walk" /\ Top(p).stage = stage

ReadIncoming(p) ==
    /\ Walking(p, "start")
    /\ Goto(p, WithTop(p, [Top(p) EXCEPT !.stage = "in", !.todo = Incoming(Top(p).vertex)]))
    /\ StoreUntouched

Without(p, e) == WithTop(p, [Top(p) EXCEPT !.todo = @ \ {e}])

\* deleteEdge(e, false).  It throws for an edge whose source is gone; that is ignored.
PickIncoming(p, e) ==
    /\ Walking(p, "in")
    /\ e \in Left(p)
    /\ Goto(p, IF link[e].source \in There
               THEN [Without(p, e) EXCEPT !.pc = "remove", !.edge = e]
               ELSE Without(p, e))
    /\ StoreUntouched

\* MUTANT: the edges out of the vertex are not looked for.
NoOutgoing(v) == {}

OutgoingOf(v) == Outgoing(v)

ReadOutgoing(p) ==
    /\ Walking(p, "in")
    /\ Left(p) = {}
    /\ Goto(p, WithTop(p, [Top(p) EXCEPT !.stage = "out", !.todo = OutgoingOf(Top(p).vertex)]))
    /\ StoreUntouched

PickOutgoing(p, e) ==
    /\ Walking(p, "out")
    /\ e \in Left(p)
    /\ Goto(p, [Without(p, e) EXCEPT
                  !.pc = IF link[e].name \in Cascade THEN "count" ELSE "remove",
                  !.edge = e])
    /\ StoreUntouched

\* MUTANT: any edge into the vertex will do.
Referenced(v) == Incoming(v) # {}

OnlyReference(v) == Cardinality(Incoming(v)) = 1

\* The last edge into a vertex takes the vertex with it.  If that may not be
\* deleted the edge stays too.
CountTarget(p) ==
    /\ proc[p].pc = "count"
    /\ LET e == proc[p].edge
           v == link[e].target
       IN Goto(p, IF ~OnlyReference(v) THEN At(p, "remove")
                  ELSE IF MayDelete(v)
                  THEN [At(p, "walk") EXCEPT !.stack = Append(@, Call(v, e)), !.edge = None]
                  ELSE Resume(proc[p]))
    /\ StoreUntouched

RemoveEdge(p) ==
    /\ proc[p].pc = "remove"
    /\ edges' = edges \ {proc[p].edge}
    /\ Goto(p, Resume([proc[p] EXCEPT !.removed = @ \union {proc[p].edge}]))
    /\ UNCHANGED <<status, details, link, faults>>

\* MongoDB refuses: a loop of deleteVertex() goes on as if the edge were gone.
RemoveEdgeFails(p) ==
    /\ proc[p].pc = "remove"
    /\ faults < MaxFaults
    /\ faults' = faults + 1
    /\ Goto(p, Resume(proc[p]))
    /\ UNCHANGED <<status, details, edges, link>>

RemoveDetails(p) ==
    /\ Walking(p, "out")
    /\ Left(p) = {}
    /\ details' = details \ {Top(p).vertex}
    /\ Goto(p, WithTop(p, [Top(p) EXCEPT !.stage = "last"]))
    /\ UNCHANGED <<status, edges, link, faults>>

Front(s) == SubSeq(s, 1, Len(s) - 1)

\* The vertex itself, and back to the edge the call was made for.
RemoveVertex(p) ==
    /\ Walking(p, "last")
    /\ status' = Removed(Top(p).vertex)
    /\ Goto(p, IF Top(p).via = None THEN Idle
               ELSE [At(p, "remove") EXCEPT !.stack = Front(@), !.edge = Top(p).via])
    /\ UNCHANGED <<details, edges, link, faults>>

-----------------------------------------------------------------------------
Crash(p) ==
    /\ proc[p].pc # "idle"
    /\ faults < MaxFaults
    /\ faults' = faults + 1
    /\ Goto(p, Idle)
    /\ UNCHANGED <<status, details, edges, link>>

BeginRequest(p) ==
    /\ proc[p].pc = "idle"
    /\ \/ \E v \in Vertex :
            BeginAddVertex(p, v) \/ BeginEditVertex(p, v) \/ BeginDeleteVertex(p, v)
       \/ \E s, t \in Vertex, n \in Name : BeginAddEdge(p, s, t, n)
       \/ \E e \in Edge : BeginDeleteEdge(p, e)

Continue(p) ==
    \/ InsertVertex(p) \/ InsertDetails(p) \/ UndoVertex(p)
    \/ UpsertDetails(p) \/ EditVertex(p)
    \/ CheckCycle(p) \/ CheckDuplicate(p) \/ CheckSingle(p)
    \/ \E e \in Edge : InsertEdge(p, e) \/ PickIncoming(p, e) \/ PickOutgoing(p, e)
    \/ ReadIncoming(p) \/ ReadOutgoing(p) \/ CountTarget(p)
    \/ RemoveEdge(p) \/ RemoveEdgeFails(p) \/ RemoveDetails(p) \/ RemoveVertex(p)

Step(p) == BeginRequest(p) \/ Continue(p) \/ Crash(p)

Init ==
    /\ status = [v \in Vertex |-> IF v \in Seed THEN "there" ELSE "unborn"]
    /\ details = Seed
    /\ edges = {}
    /\ link = [e \in Edge |-> NoLink]
    /\ proc = [p \in Writer |-> Idle]
    /\ faults = 0

Next == \E p \in Writer : Step(p)

Spec == Init /\ [][Next]_vars

\* No two writers overlap.
Alone(p) == \A q \in Writer \ {p} : proc[q].pc = "idle"

SerialNext == \E p \in Writer : Alone(p) /\ Step(p)

SerialSpec == Init /\ [][SerialNext]_vars

-----------------------------------------------------------------------------
(* Properties.                                                             *)

(* Documents and locals keep their shape: an edge that is there says what   *)
(* it links, and a walk is in some call of deleteVertex().                 *)
TypeOK ==
    /\ status \in [Vertex -> {"unborn", "drawn", "there", "gone"}]
    /\ details \in SUBSET Vertex
    /\ edges \in SUBSET Edge
    /\ link \in [Edge -> Link \union {NoLink}]
    /\ \A e \in edges : link[e] \in Link
    /\ proc \in [Writer -> ProcState]
    /\ \A p \in Writer : proc[p].pc = "walk" => proc[p].stack # <<>>
    /\ faults \in 0 .. MaxFaults

(* A vertex that was deleted never comes back, although an edit that began  *)
(* before the delete upserts its collection document afterwards.           *)
GoneForGood == [][\A v \in Vertex : status[v] = "gone" => status'[v] = "gone"]_vars

(* A vertex has its collection document, or somebody is about to insert it  *)
(* or to remove the vertex, however adds, edits and deletes of it race      *)
(* ("Delete orphan vertex"); each fault strands one vertex at most.         *)
Responsible(p, v) ==
    \/ proc[p].pc \in {"details", "undo"} /\ proc[p].vertex = v
    \/ Walking(p, "last") /\ Top(p).vertex = v

Stranded == {v \in There \ details : \A p \in Writer : ~Responsible(p, v)}

StrandedByFaults == Cardinality(Stranded) <= faults

(* Nothing is left of what was deleted: when no writer is at work, and none *)
(* overlapped or died, vertices and collection documents come in pairs *)
(* and every edge has both its ends.                                        *)
Quiet == \A p \in Writer : proc[p].pc = "idle"

WholeAtRest ==
    Quiet => /\ details = There
             /\ \A e \in edges : link[e].source \in There /\ link[e].target \in There

(* With no overlap two edges never say the same, a one-to-one relation has  *)
(* one target, and a unique field one owner.                               *)
Unambiguous ==
    /\ \A e, f \in edges :
         \/ e = f
         \/ /\ link[e] # link[f]
            /\ link[e].name \in OneToOne /\ link[f].name = link[e].name
               => link[f].source # link[e].source
    /\ \A K \in SameKey, u, v \in Vertex : {u, v} \subseteq K \intersect details => u = v

(* With no overlap a cascade takes no vertex that anything but the edge it  *)
(* came along still refers to.                                             *)
CascadeSparesShared ==
    \A p \in Writer : \A i \in 2 .. Len(proc[p].stack) :
       Incoming(proc[p].stack[i].vertex) \subseteq {proc[p].stack[i].via}

(* addEdge(): "Check for cycles: if there's a path from target to source    *)
(* through any edges, adding this edge would create a cycle".               *)
Acyclic == \A v \in Vertex : ~Reaches(v, v)

=============================================================================
