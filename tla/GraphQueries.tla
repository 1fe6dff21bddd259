------------------------------- MODULE GraphQueries -------------------------------
(***************************************************************************)
(* What is computed from the graph (persistence/mongo/                      *)
(* graph-mongo.repository.ts): the permissions of a user, the services of a *)
(* broker account, what is connected, and the targets of a sync request     *)
(* (collection/collection-sync.service.ts).  The graph grows and shrinks by *)
(* any of the edges the collections allow.  MongoDB's $graphLookup visits   *)
(* an edge once, at the smallest depth it is found at.                      *)
(***************************************************************************)
EXTENDS CollectionConfig

CONSTANTS
    CollectionOf,        \* the vertices: a function to their collections
    PossibleEdges        \* the edges that may be added: [from, name, to]

Vertices == DOMAIN CollectionOf

In(v, c) == CollectionOf[v] = c

PrototypeOf(e) ==
    {x \in ConfigOf(CollectionOf[e.from]).edges : x.name = e.name /\ In(e.to, x.to)}

ASSUME VerticesAreCollected ==
    IsFiniteSet(Vertices) /\ \A v \in Vertices : CollectionOf[v] \in Collections

(* Clients add edges from the configuration; addEdge() itself looks for one  *)
(* of that name in the collection of the source.                             *)
ASSUME EdgesArePrototyped ==
    /\ PossibleEdges \subseteq [from : Vertices, name : STRING, to : Vertices]
    /\ \A e \in PossibleEdges : Cardinality(PrototypeOf(e)) = 1

VARIABLE edges

GraphInit == edges = {}

AddEdge(e) == e \notin edges /\ edges' = edges \cup {e}

DeleteEdge(e) == e \in edges /\ edges' = edges \ {e}

GraphNext == \E e \in PossibleEdges : AddEdge(e) \/ DeleteEdge(e)

GraphSpec == GraphInit /\ [][GraphNext]_edges

IsRestricted(e) == \E x \in PrototypeOf(e) : x.restrict

Unrestricted == {e \in edges : ~IsRestricted(e)}

-----------------------------------------------------------------------------
(* $graphLookup: the edges found down (up) from v among those that are       *)
(* searched, to the given depth; a maxDepth of 0 is one edge.               *)
Down(v, among, maxDepth) ==
    LET found[n \in Nat] ==
          IF n = 0 THEN {e \in among : e.from = v}
          ELSE LET before == found[n - 1]
               IN  before \cup {e \in among : e.from \in {f.to : f \in before}}
    IN  found[maxDepth]

Up(v, among, maxDepth) ==
    LET found[n \in Nat] ==
          IF n = 0 THEN {e \in among : e.to = v}
          ELSE LET before == found[n - 1]
               IN  before \cup {e \in among : e.to \in {f.from : f \in before}}
    IN  found[maxDepth]

(* depthField: the edges that are found first at each depth. *)
ByDepth(v, among) ==
    LET at(n) == Down(v, among, n) \ (IF n = 0 THEN {} ELSE Down(v, among, n - 1))
    IN  <<at(0), at(1), at(2), at(3), at(4)>>

Downstream(v, c, maxDepth) == {e.to : e \in {f \in Down(v, Unrestricted, maxDepth) : In(f.to, c)}}

Upstream(v, among, c, names) ==
    {e.from : e \in {f \in Up(v, among, 8) : In(f.from, c) /\ f.name \in names}}

UserConnectedVertex(u) ==
    LET followed == {e \in Unrestricted : "filter" \in ConfigOf(CollectionOf[e.to]).allows}
    IN  {u} \cup {e.to : e \in Down(u, followed, Cardinality(Vertices))}

(* The services of an account, each with the projects it is a component of. *)
AccountServices(a) ==
    LET path == Down(a, {e \in Unrestricted : CollectionOf[e.to] \in {"service", "project"}}, 2)
        services == {e.to : e \in {f \in path : In(f.to, "service")}}
    IN  {s \in services : \E e \in edges : e.to = s /\ In(e.from, "project")}

-----------------------------------------------------------------------------
AnyEdgeOf(step, sources, at) == {e \in at : e.name = step.name /\ In(e.to, step.to)}

(* One step of collectPermissions(): the edges at this depth that the step  *)
(* names and whose source the step before has reached.                      *)
StepEdges(step, sources, at) ==
    {e \in at : e.name = step.name /\ In(e.to, step.to) /\ e.from \in sources}

(* collectPermissions() over one path: what is reached step by step, with   *)
(* the edges of each depth given.                                           *)
Reached(path, v, at) ==
    LET reached[k \in 0..Len(path)] ==
          IF k = 0 THEN {v}
          ELSE LET before == reached[k - 1]
               IN  {e.to : e \in StepEdges(path[k], before, at[k])}
    IN  reached

(* The pairs of a permission and a vertex. *)
Collected(paths, v, at) ==
    UNION {LET reached == Reached(path, v, at)
           IN  UNION {path[k].grants \X reached[k] : k \in {n \in 1..Len(path) : path[n].grants # {}}} :
             path \in paths}

PermissionsAmong(u, among) == Collected(PermissionPaths, u, ByDepth(u, among))

UserPermissions(u) == PermissionsAmong(u, Unrestricted)

TeamUserPermissionsUnshifted(t, role) ==
    LET made == [from |-> t, name |-> role, to |-> t]
    IN  Collected({path \in PermissionPaths : path[1].name = role}, t,
                  <<{made} \cup ByDepth(t, Unrestricted)[1]>> \o Tail(ByDepth(t, Unrestricted)))

(* What a role gives in a team: an edge of the role is made up before those *)
(* found from the team, which are one deeper than found.                    *)
TeamUserPermissions(t, role) ==
    LET made == [from |-> t, name |-> role, to |-> t]
    IN  Collected({path \in PermissionPaths : path[1].name = role}, t,
                  <<{made}>> \o ByDepth(t, Unrestricted))

-----------------------------------------------------------------------------
Owns(c, queue) == \E r \in ConfigOf(c).syncQueues : r.kind = "queue" /\ queue \in r.queues

(* resolveQueueTargets(), which findRuleByQueue() stops with an error unless *)
(* exactly one rule applies.                                                *)
Unresolved == "unresolved"

QueueTargets(v, queue) ==
    LET targets[left \in 0..Cardinality(Collections)] ==
          [w \in Vertices |->
             LET rules == RulesFor(CollectionOf[w], queue)
                 rule == CHOOSE r \in rules : TRUE
             IN  IF Cardinality(rules) # 1 \/ left = 0 THEN {Unresolved}
                 ELSE IF rule.kind = "queue" THEN {w}
                 ELSE UNION {targets[left - 1][x] :
                               x \in Downstream(w, rule.collection, rule.maxDepth)}]
    IN  targets[Cardinality(Collections)][v]

-----------------------------------------------------------------------------
(* The edges that end walks of one edge, of two, and so on. *)
Walked(v) ==
    LET from(sources) == {e \in edges : e.from \in sources /\ ~IsRestricted(e)}
        after(found) == from({e.to : e \in found})
        one == from({v})
        two == after(one)
        three == after(two)
        four == after(three)
    IN  <<one, two, three, four, after(four)>>

OneWay(v) ==
    LET at == Walked(v) IN \A m, n \in DOMAIN at : m # n => at[m] \cap at[n] = {}

Joined == {e.from : e \in edges} \cup {e.to : e \in edges}

(* What the paths of the configuration say: where the edges they name lead. *)
Granted(u) ==
    LET among == Unrestricted
        leads(path) ==
          LET to[k \in 0..Len(path)] ==
                IF k = 0 THEN {u}
                ELSE LET before == to[k - 1]
                     IN  {e.to : e \in {f \in among : /\ f.from \in before /\ f.name = path[k].name
                                                     /\ In(f.to, path[k].to)}}
          IN  UNION {path[k].grants \X to[k] : k \in {n \in 1..Len(path) : path[n].grants # {}}}
    IN  UNION {leads(path) : path \in PermissionPaths}

(* A user has a permission only along a path of the configuration that is   *)
(* in the graph, and has each of them if no edge is reached in two numbers  *)
(* of steps; and whatever can be filtered and is permitted, is connected.   *)
PermissionsFollowPaths ==
    \A u \in {v \in Joined : In(v, "user")} :
        /\ UserPermissions(u) \subseteq Granted(u)
        /\ OneWay(u) => UserPermissions(u) = Granted(u)
        /\ \A x \in UserPermissions(u) :
              "filter" \in ConfigOf(CollectionOf[x[2]]).allows => x[2] \in UserConnectedVertex(u)

(* What a team is told a role gives is what a user has who has that role    *)
(* there and no other; a lead developer can update every service that an    *)
(* account of the team may open intentions for.                             *)
RolePreviewIsTrue ==
    \A e \in edges : In(e.from, "user") =>
        LET u == e.from
            t == e.to
        IN  /\ {f \in edges : f.from = u} = {e} => UserPermissions(u) = TeamUserPermissions(t, e.name)
            /\ \A a \in Vertices : [from |-> t, name |-> "owns", to |-> a] \in edges =>
                  {"update"} \X AccountServices(a) \subseteq TeamUserPermissions(t, "lead-developer")

(* A request for a queue finds, from wherever it may be made, every vertex  *)
(* below that has the queue, and no other, and never ends in an error.      *)
RefreshFindsTargets ==
    \A v \in Joined : \A queue \in SyncQueueNames :
        RulesFor(CollectionOf[v], queue) # {} =>
            QueueTargets(v, queue) =
                {w \in Vertices : /\ Owns(CollectionOf[w], queue)
                                  /\ \/ w = v
                                     \/ \E e \in Down(v, Unrestricted, Cardinality(Vertices)) : e.to = w}

=============================================================================
