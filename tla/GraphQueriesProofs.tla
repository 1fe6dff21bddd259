--------------------------- MODULE GraphQueriesProofs ---------------------------
(***************************************************************************)
(* That what is computed from the graph is what the configuration says, for *)
(* any vertices and any edges that have prototypes in the collections that  *)
(* are shipped.  Lookups are recursive functions: first that these exist    *)
(* and what they are step by step; then that unrestricted edges lead from a *)
(* lower rank of collection to a higher, so that a lookup has found all it  *)
(* can at depth 4; then what permission paths reach, what a role previews,  *)
(* and where a request for a queue ends up.                                  *)
(***************************************************************************)
EXTENDS GraphQueries, FiniteSetTheorems, WellFoundedInduction, TLAPS

(* A set of numbers that is not empty has a least element. *)
LEMMA LeastElement ==
  ASSUME NEW T \in SUBSET Nat, T # {}
  PROVE  \E n \in T : \A m \in T : n <= m
<1>0. PICK R : R = OpToRel(<, Nat)
  OBVIOUS
<1>1. IsWellFoundedOn(R, Nat)
  BY <1>0, NatLessThanWellFounded
<1>2. \A m, n \in Nat : <<m, n>> \in R <=> m < n
  BY <1>0 DEF OpToRel
<1>3. PICK n \in T : \A m \in T : ~ (<<m, n>> \in R)
  BY <1>1, WFMin, Zenon
<1>4. \A m \in T : ~ (m < n)
  BY <1>2, <1>3
<1> QED
  BY <1>4

(* Induction over the natural numbers, about a set. *)
LEMMA OneAfterTheOther ==
  ASSUME NEW S \in SUBSET Nat, 0 \in S, \A n \in S : n + 1 \in S
  PROVE  S = Nat
<1> SUFFICES ASSUME Nat \ S # {} PROVE FALSE
  OBVIOUS
<1>1. PICK n \in Nat \ S : \A m \in Nat \ S : n <= m
  BY LeastElement
<1>2. n # 0 /\ n - 1 \in Nat /\ n - 1 \in S
  BY <1>1
<1> QED
  BY <1>1, <1>2

(* A function that is defined by what it is at 0, and at each number from    *)
(* what it is at the one before, exists.                                     *)
LEMMA RecursionOnNat ==
  ASSUME NEW X, NEW a \in X, NEW G \in [Nat -> [X -> X]]
  PROVE  \E f \in [Nat -> X] : f = [n \in Nat |-> IF n = 0 THEN a ELSE G[n][f[n - 1]]]
<1> DEFINE Upto(n) == {g \in [0 .. n -> X] : g[0] = a /\ \A k \in 1 .. n : g[k] = G[k][g[k - 1]]}
<1>1. \A n \in Nat : Upto(n) # {}
  <2> DEFINE S == {n \in Nat : Upto(n) # {}}
  <2>1. 0 \in S
    <3>1. [k \in 0 .. 0 |-> a] \in Upto(0)
      OBVIOUS
    <3> QED
      BY <3>1
  <2>2. ASSUME NEW n \in S PROVE n + 1 \in S
    <3>1. PICK g \in Upto(n) : TRUE
      OBVIOUS
    <3> DEFINE h == [k \in 0 .. n + 1 |-> IF k <= n THEN g[k] ELSE G[k][g[n]]]
    <3>2. h \in [0 .. n + 1 -> X]
      OBVIOUS
    <3>3. h[0] = a
      OBVIOUS
    <3>4. ASSUME NEW k \in 1 .. n + 1 PROVE h[k] = G[k][h[k - 1]]
      <4>1. h[k - 1] = g[k - 1]
        OBVIOUS
      <4>2. CASE k <= n
        BY <4>1, <4>2
      <4>3. CASE k = n + 1
        BY <4>1, <4>3
      <4> QED
        BY <4>2, <4>3
    <3>5. h \in Upto(n + 1)
      BY <3>2, <3>3, <3>4
    <3> HIDE DEF h, Upto
    <3> QED
      BY <3>5
  <2>3. S = Nat
    <3> HIDE DEF S
    <3>1. S \in SUBSET Nat
      BY DEF S
    <3> QED
      BY <2>1, <2>2, <3>1, OneAfterTheOther
  <2> QED
    BY <2>3
<1>2. ASSUME NEW m \in Nat, NEW n \in Nat, NEW g \in Upto(m), NEW h \in Upto(n)
      PROVE  \A k \in Nat : k <= m /\ k <= n => g[k] = h[k]
  <2> DEFINE S == {k \in Nat : k <= m /\ k <= n => g[k] = h[k]}
  <2>1. 0 \in S
    OBVIOUS
  <2>2. ASSUME NEW k \in S, k + 1 <= m, k + 1 <= n PROVE g[k + 1] = h[k + 1]
    <3>1. g[k] = h[k]
      BY <2>2
    <3>2. k + 1 \in 1 .. m /\ k + 1 \in 1 .. n /\ (k + 1) - 1 = k
      BY <2>2
    <3>3. g[k + 1] = G[k + 1][g[k]] /\ h[k + 1] = G[k + 1][h[k]]
      BY <3>2
    <3> QED
      BY <3>1, <3>3
  <2>3. S = Nat
    <3> HIDE DEF S
    <3>1. S \in SUBSET Nat
      BY DEF S
    <3>2. \A k \in S : k + 1 \in S
      BY <2>2 DEF S
    <3> QED
      BY <2>1, <3>1, <3>2, OneAfterTheOther
  <2> QED
    BY <2>3
<1> DEFINE part(n) == CHOOSE g \in Upto(n) : TRUE
           f == [n \in Nat |-> part(n)[n]]
<1>3. \A n \in Nat : part(n) \in Upto(n)
  BY <1>1
<1> HIDE DEF part
<1>4. f \in [Nat -> X]
  BY <1>3
<1>5. f[0] = a
  BY <1>3
<1>6. ASSUME NEW n \in Nat, n # 0 PROVE f[n] = G[n][f[n - 1]]
  <2>1. part(n) \in Upto(n) /\ part(n - 1) \in Upto(n - 1) /\ n - 1 \in Nat
    BY <1>3, <1>6
  <2>2. part(n)[n] = G[n][part(n)[n - 1]]
    BY <2>1, <1>6
  <2>3. part(n)[n - 1] = part(n - 1)[n - 1]
    <3> PICK m \in Nat : m = n - 1
      BY <2>1
    <3>1. part(m) \in Upto(m) /\ part(n) \in Upto(n) /\ m <= n
      BY <2>1
    <3> HIDE DEF Upto
    <3>2. part(n)[m] = part(m)[m]
      BY <1>2, <3>1
    <3> QED
      BY <3>2
  <2> QED
    BY <2>1, <2>2, <2>3
<1>7. f = [n \in Nat |-> IF n = 0 THEN a ELSE G[n][f[n - 1]]]
  BY <1>4, <1>5, <1>6
<1> QED
  BY <1>4, <1>7

(* The same, named. *)
IsRecursion(f, a, G) == f = [n \in Nat |-> IF n = 0 THEN a ELSE G[n][f[n - 1]]]

LEMMA RecursionExists ==
  ASSUME NEW X, NEW a \in X, NEW G \in [Nat -> [X -> X]]
  PROVE  \E f \in [Nat -> X] : IsRecursion(f, a, G)
BY RecursionOnNat DEF IsRecursion

-----------------------------------------------------------------------------
(* Down and up: the edges at a vertex, then those at their other ends. *)
LEMMA DownStepByStep ==
  ASSUME NEW v, NEW among
  PROVE  /\ \A e : e \in Down(v, among, 0) <=> e \in among /\ e.from = v
         /\ \A n \in Nat : \A e :
               e \in Down(v, among, n + 1) <=>
                  \/ e \in Down(v, among, n)
                  \/ e \in among /\ \E f \in Down(v, among, n) : e.from = f.to
<1> DEFINE X == SUBSET among
           a == {x \in among : x.from = v}
           next(before) == before \cup {x \in among : x.from \in {f.to : f \in before}}
           G == [n \in Nat |-> [before \in X |-> next(before)]]
<1>1. a \in X /\ G \in [Nat -> [X -> X]]
  OBVIOUS
<1>2. PICK f \in [Nat -> X] : f = [n \in Nat |-> IF n = 0 THEN a ELSE G[n][f[n - 1]]]
  <2> HIDE DEF X, a, G
  <2> QED
    BY <1>1, RecursionOnNat
<1>3. f = [n \in Nat |-> IF n = 0 THEN a ELSE next(f[n - 1])]
  <2>1. ASSUME NEW n \in Nat, n # 0 PROVE G[n][f[n - 1]] = next(f[n - 1])
    <3>1. f[n - 1] \in X
      BY <2>1
    <3> QED
      BY <3>1
  <2> HIDE DEF G, next, a, X
  <2>2. \A n \in Nat : f[n] = IF n = 0 THEN a ELSE next(f[n - 1])
    BY <1>2, <2>1
  <2> QED
    BY <2>2
<1> DEFINE found == CHOOSE g : g = [n \in Nat |-> IF n = 0 THEN a ELSE next(g[n - 1])]
<1>4. found = [n \in Nat |-> IF n = 0 THEN a ELSE next(found[n - 1])]
  <2> HIDE DEF next, a
  <2> QED
    BY <1>3
<1>5. \A n : Down(v, among, n) = found[n]
  BY DEF Down
<1> HIDE DEF found
<1>6. found[0] = a /\ \A n \in Nat : found[n + 1] = next(found[n])
  <2> HIDE DEF next, a
  <2>1. \A k \in Nat : found[k] = IF k = 0 THEN a ELSE next(found[k - 1])
    BY <1>4
  <2>2. ASSUME NEW n \in Nat PROVE found[n + 1] = next(found[n])
    <3>1. PICK k \in Nat : k = n + 1 /\ k # 0 /\ k - 1 = n
      OBVIOUS
    <3>2. found[k] = next(found[k - 1])
      BY <2>1, <3>1
    <3> QED
      BY <3>1, <3>2
  <2>3. found[0] = a
    BY <2>1
  <2> QED
    BY <2>2, <2>3
<1> QED
  BY <1>5, <1>6

LEMMA UpStepByStep ==
  ASSUME NEW v, NEW among
  PROVE  /\ \A e : e \in Up(v, among, 0) <=> e \in among /\ e.to = v
         /\ \A n \in Nat : \A e :
               e \in Up(v, among, n + 1) <=>
                  \/ e \in Up(v, among, n)
                  \/ e \in among /\ \E f \in Up(v, among, n) : e.to = f.from
<1> DEFINE X == SUBSET among
           a == {x \in among : x.to = v}
           next(before) == before \cup {x \in among : x.to \in {f.from : f \in before}}
           G == [n \in Nat |-> [before \in X |-> next(before)]]
<1>1. a \in X /\ G \in [Nat -> [X -> X]]
  OBVIOUS
<1>2. PICK f \in [Nat -> X] : f = [n \in Nat |-> IF n = 0 THEN a ELSE G[n][f[n - 1]]]
  <2> HIDE DEF X, a, G
  <2> QED
    BY <1>1, RecursionOnNat
<1>3. f = [n \in Nat |-> IF n = 0 THEN a ELSE next(f[n - 1])]
  <2>1. ASSUME NEW n \in Nat, n # 0 PROVE G[n][f[n - 1]] = next(f[n - 1])
    <3>1. f[n - 1] \in X
      BY <2>1
    <3> QED
      BY <3>1
  <2> HIDE DEF G, next, a, X
  <2>2. \A n \in Nat : f[n] = IF n = 0 THEN a ELSE next(f[n - 1])
    BY <1>2, <2>1
  <2> QED
    BY <2>2
<1> DEFINE found == CHOOSE g : g = [n \in Nat |-> IF n = 0 THEN a ELSE next(g[n - 1])]
<1>4. found = [n \in Nat |-> IF n = 0 THEN a ELSE next(found[n - 1])]
  <2> HIDE DEF next, a
  <2> QED
    BY <1>3
<1>5. \A n : Up(v, among, n) = found[n]
  BY DEF Up
<1> HIDE DEF found
<1>6. found[0] = a /\ \A n \in Nat : found[n + 1] = next(found[n])
  <2> HIDE DEF next, a
  <2>1. \A k \in Nat : found[k] = IF k = 0 THEN a ELSE next(found[k - 1])
    BY <1>4
  <2>2. ASSUME NEW n \in Nat PROVE found[n + 1] = next(found[n])
    <3>1. PICK k \in Nat : k = n + 1 /\ k # 0 /\ k - 1 = n
      OBVIOUS
    <3>2. found[k] = next(found[k - 1])
      BY <2>1, <3>1
    <3> QED
      BY <3>1, <3>2
  <2>3. found[0] = a
    BY <2>1
  <2> QED
    BY <2>2, <2>3
<1> QED
  BY <1>5, <1>6

(* Deeper lookups find more, and the edges into a vertex at any depth. *)
LEMMA DownGrows ==
  ASSUME NEW v, NEW among, NEW m \in Nat, NEW n \in Nat, m <= n
  PROVE  Down(v, among, m) \subseteq Down(v, among, n) /\ Down(v, among, n) \subseteq among
<1> DEFINE D(k) == Down(v, among, k)
           S == {d \in Nat : D(m) \subseteq D(m + d)}
           A == {d \in Nat : D(d) \subseteq among}
<1>1. \A k \in Nat : D(k) \subseteq D(k + 1) /\ (D(k) \subseteq among => D(k + 1) \subseteq among)
  BY DownStepByStep
<1>2. D(0) \subseteq among
  BY DownStepByStep
<1> HIDE DEF D
<1>3. S = Nat
  <2>1. 0 \in S /\ S \in SUBSET Nat
    OBVIOUS
  <2>2. \A d \in S : d + 1 \in S
    <3> SUFFICES ASSUME NEW d \in S PROVE D(m) \subseteq D(m + (d + 1))
      OBVIOUS
    <3>1. m + d \in Nat /\ (m + d) + 1 = m + (d + 1)
      OBVIOUS
    <3>2. D(m + d) \subseteq D((m + d) + 1)
      BY <1>1, <3>1
    <3> QED
      BY <3>1, <3>2
  <2> HIDE DEF S
  <2> QED
    BY <2>1, <2>2, OneAfterTheOther
<1>4. A = Nat
  <2>1. 0 \in A /\ A \in SUBSET Nat
    BY <1>2
  <2>2. \A d \in A : d + 1 \in A
    BY <1>1
  <2> HIDE DEF A
  <2> QED
    BY <2>1, <2>2, OneAfterTheOther
<1>5. D(m) \subseteq D(n)
  <2>1. PICK d \in Nat : m + d = n
    <3>1. n - m \in Nat /\ m + (n - m) = n
      OBVIOUS
    <3> QED
      BY <3>1
  <2>2. d \in S
    BY <1>3
  <2> QED
    BY <2>1, <2>2
<1> QED
  BY <1>4, <1>5 DEF D

-----------------------------------------------------------------------------
(* Every edge has one prototype in the collection it leaves. *)
Prototyped ==
    /\ edges \subseteq [from : Vertices, name : STRING, to : Vertices]
    /\ \A e \in edges : Cardinality(PrototypeOf(e)) = 1

(* Where the edges lead that lookups follow. *)
Leads(c, name, d) ==
    \/ c = "user" /\ d = "team" /\ name \in TeamRoles
    \/ c = "team" /\ d = "brokerAccount" /\ name = "owns"
    \/ c = "team" /\ d = "cloud" /\ name = "operates"
    \/ c = "brokerAccount" /\ d \in {"project", "service"} /\ name = "authorized"
    \/ c = "project" /\ d = "service" /\ name = "component"
    \/ c = "service" /\ d = "serviceInstance" /\ name = "instance"
    \/ c = "service" /\ d = "repository" /\ name = "source"
    \/ c = "cloud" /\ d \in {"openshiftProject", "server"} /\ name = "host"

LEMMA EdgeHasPrototype ==
  ASSUME Prototyped, NEW e \in edges
  PROVE  /\ e \in [from : Vertices, name : STRING, to : Vertices]
         /\ \E c \in Collections : \E x \in ConfigOf(c).edges :
               /\ c = CollectionOf[e.from] /\ x \in PrototypeOf(e)
               /\ x.name = e.name /\ x.to = CollectionOf[e.to]
<1>1. e \in [from : Vertices, name : STRING, to : Vertices]
  BY DEF Prototyped
<1>2. CollectionOf[e.from] \in Collections
  BY <1>1, VerticesAreCollected
<1>3. PrototypeOf(e) # {}
  <2>1. Cardinality(PrototypeOf(e)) = 1
    BY DEF Prototyped
  <2> HIDE DEF PrototypeOf
  <2>2. Cardinality({}) = 0
    BY FS_EmptySet
  <2> QED
    BY <2>1, <2>2
<1>4. PICK x \in PrototypeOf(e) : TRUE
  BY <1>3
<1>5. x \in ConfigOf(CollectionOf[e.from]).edges /\ x.name = e.name /\ x.to = CollectionOf[e.to]
  BY <1>4 DEF PrototypeOf, In
<1> QED
  BY <1>1, <1>2, <1>4, <1>5

(* The prototypes that are shipped. *)
LEMMA PrototypesLead ==
  ASSUME NEW c \in Collections, NEW x \in ConfigOf(c).edges
  PROVE  /\ ~ x.restrict => Leads(c, x.name, x.to)
         /\ c = "user" \/ x.name = "owns" => ~ x.restrict
<1>1. \A d, name : /\ ~ EdgeTo(d, name).restrict
                   /\ EdgeTo(d, name).name = name /\ EdgeTo(d, name).to = d
  BY DEF EdgeTo
<1>2. \A d, name : /\ Restricted(EdgeTo(d, name)).restrict
                   /\ Restricted(EdgeTo(d, name)).name = name
                   /\ OneToOneEdge(Restricted(EdgeTo(d, name))).restrict
                   /\ OneToOneEdge(Restricted(EdgeTo(d, name))).name = name
                   /\ Cascading(Restricted(EdgeTo(d, name))).restrict
                   /\ Cascading(Restricted(EdgeTo(d, name))).name = name
                   /\ ~ Cascading(EdgeTo(d, name)).restrict
                   /\ Cascading(EdgeTo(d, name)).name = name
                   /\ Cascading(EdgeTo(d, name)).to = d
  BY DEF EdgeTo, Restricted, OneToOneEdge, Cascading
<1>3. CASE c = "environment"
  <2>1. x = OneToOneEdge(Restricted(EdgeTo("environment", "promotes-to")))
    BY <1>3 DEF ConfigOf, Environment
  <2> QED
    BY <1>2, <1>3, <2>1
<1>4. CASE c = "project"
  <2>1. x = EdgeTo("service", "component")
    BY <1>4 DEF ConfigOf, Project
  <2> QED
    BY <1>1, <1>4, <2>1 DEF Leads
<1>5. CASE c = "service"
  <2>1. x \in Service.edges
    BY <1>5 DEF ConfigOf
  <2>2. \/ x = Cascading(EdgeTo("serviceInstance", "instance"))
        \/ x = Cascading(Restricted(EdgeTo("service", "provision-token")))
        \/ x = EdgeTo("repository", "source")
        \/ \E d : x = Restricted(EdgeTo(d, "deploys"))
    BY <2>1 DEF Service
  <2>3. CASE x = Cascading(EdgeTo("serviceInstance", "instance"))
    BY <1>2, <1>5, <2>3 DEF Leads
  <2>4. CASE x = Cascading(Restricted(EdgeTo("service", "provision-token")))
    BY <1>2, <1>5, <2>4
  <2>5. CASE x = EdgeTo("repository", "source")
    BY <1>1, <1>5, <2>5 DEF Leads
  <2>6. CASE \E d : x = Restricted(EdgeTo(d, "deploys"))
    BY <1>2, <1>5, <2>6
  <2> QED
    BY <2>2, <2>3, <2>4, <2>5, <2>6
<1>6. CASE c = "serviceInstance"
  <2>1. \/ x = OneToOneEdge(Restricted(EdgeTo("environment", "deploy-type")))
        \/ x = Restricted(EdgeTo("serviceInstance", "requires"))
        \/ \E d : x = Restricted(EdgeTo(d, "installation"))
    BY <1>6 DEF ConfigOf, ServiceInstance
  <2> QED
    BY <1>2, <1>6, <2>1
<1>7. CASE c = "user"
  <2>1. \E role \in TeamRoles : x = EdgeTo("team", role)
    BY <1>7 DEF ConfigOf, User
  <2> QED
    BY <1>1, <1>7, <2>1 DEF Leads
<1>8. CASE c = "brokerAccount"
  <2>1. \E d \in {"project", "service"} : x = EdgeTo(d, "authorized")
    BY <1>8 DEF ConfigOf, BrokerAccount
  <2> QED
    BY <1>1, <1>8, <2>1 DEF Leads
<1>9. CASE c = "team"
  <2>1. \/ x = EdgeTo("brokerAccount", "owns") \/ x = Restricted(EdgeTo("service", "uses"))
        \/ x = EdgeTo("cloud", "operates")
    BY <1>9 DEF ConfigOf, Team
  <2> QED
    BY <1>1, <1>2, <1>9, <2>1 DEF Leads
<1>10. CASE c = "cloud"
  <2>1. \E d \in {"openshiftProject", "server"} : x = EdgeTo(d, "host")
    BY <1>10 DEF ConfigOf, Cloud
  <2> QED
    BY <1>1, <1>10, <2>1 DEF Leads
<1>11. CASE c \in {"server", "repository", "openshiftProject"}
  BY <1>11 DEF ConfigOf, Server, Repository, OpenshiftProject
<1> QED
  BY <1>3, <1>4, <1>5, <1>6, <1>7, <1>8, <1>9, <1>10, <1>11 DEF Collections

LEMMA EdgesLead ==
  ASSUME Prototyped
  PROVE  /\ \A e \in edges : e \in [from : Vertices, name : STRING, to : Vertices]
         /\ \A e \in Unrestricted : Leads(CollectionOf[e.from], e.name, CollectionOf[e.to])
         /\ \A e \in edges : CollectionOf[e.from] = "user" \/ e.name = "owns" => e \in Unrestricted
<1>1. \A e \in edges : e \in [from : Vertices, name : STRING, to : Vertices]
  BY DEF Prototyped
<1>2. ASSUME NEW e \in Unrestricted
      PROVE  Leads(CollectionOf[e.from], e.name, CollectionOf[e.to])
  <2>1. e \in edges /\ ~ IsRestricted(e)
    BY DEF Unrestricted
  <2>2. PICK c \in Collections : \E x \in ConfigOf(c).edges :
               /\ c = CollectionOf[e.from] /\ x \in PrototypeOf(e)
               /\ x.name = e.name /\ x.to = CollectionOf[e.to]
    BY <2>1, EdgeHasPrototype
  <2>3. PICK x \in ConfigOf(c).edges :
               /\ c = CollectionOf[e.from] /\ x \in PrototypeOf(e)
               /\ x.name = e.name /\ x.to = CollectionOf[e.to]
    BY <2>2
  <2>4. ~ x.restrict
    BY <2>1, <2>3 DEF IsRestricted
  <2>5. Leads(c, x.name, x.to)
    BY <2>4, PrototypesLead
  <2> QED
    BY <2>3, <2>5
<1>3. ASSUME NEW e \in edges, CollectionOf[e.from] = "user" \/ e.name = "owns"
      PROVE  e \in Unrestricted
  <2> SUFFICES ASSUME NEW x \in PrototypeOf(e), x.restrict PROVE FALSE
    BY DEF Unrestricted, IsRestricted
  <2>1. PICK c \in Collections : c = CollectionOf[e.from]
    BY <1>1, VerticesAreCollected
  <2>2. x \in ConfigOf(c).edges /\ x.name = e.name
    BY <2>1 DEF PrototypeOf
  <2>3. c = "user" \/ x.name = "owns" => ~ x.restrict
    BY <2>2, PrototypesLead
  <2> QED
    BY <1>3, <2>1, <2>2, <2>3
<1> QED
  BY <1>1, <1>2, <1>3

-----------------------------------------------------------------------------
(* Every edge that is followed leads to a collection of a higher rank. *)
RankOf(c) ==
    CASE c = "user" -> 0            [] c = "team" -> 1
      [] c = "brokerAccount" -> 2   [] c = "cloud" -> 2
      [] c = "project" -> 3         [] c = "service" -> 4
      [] OTHER -> 5

LEMMA EdgesClimb ==
  ASSUME NEW c, NEW name, NEW d, Leads(c, name, d)
  PROVE  /\ RankOf(c) \in 0 .. 4 /\ RankOf(d) \in 0 .. 5
         /\ RankOf(c) < RankOf(d)
BY DEF Leads, RankOf

Rank(v) == RankOf(CollectionOf[v])

Below(v) == {x \in Vertices : Rank(x) <= Rank(v)}

(* An edge that a lookup finds first at some depth leaves a vertex of at    *)
(* least that rank, and so many vertices lie below.                          *)
LEMMA NewEdgesAreHigh ==
  ASSUME Prototyped, NEW among \in SUBSET Unrestricted, NEW v, NEW n \in Nat,
         NEW e \in Down(v, among, n), n # 0 => e \notin Down(v, among, n - 1)
  PROVE  n <= Rank(e.from) /\ n + 1 <= Cardinality(Below(e.from))
<1> DEFINE D(k) == Down(v, among, k)
           high(f, k) == k <= Rank(f.from) /\ k + 1 <= Cardinality(Below(f.from))
           S == {k \in Nat : \A f \in D(k) : (k # 0 => f \notin D(k - 1)) => high(f, k)}
<1>0. /\ \A x : x \in Down(v, among, 0) <=> x \in among /\ x.from = v
      /\ \A j \in Nat : \A x :
            x \in Down(v, among, j + 1) <=>
               \/ x \in Down(v, among, j)
               \/ x \in among /\ \E g \in Down(v, among, j) : x.from = g.to
  BY DownStepByStep
<1>1. \A k \in Nat : D(k) \subseteq among
  BY DownGrows
<1>2. ASSUME NEW f \in among
      PROVE  /\ f.from \in Vertices /\ f.to \in Vertices
             /\ Rank(f.from) \in 0 .. 4 /\ Rank(f.to) \in 0 .. 5 /\ Rank(f.from) < Rank(f.to)
  <2>1. f \in Unrestricted /\ f \in edges
    BY DEF Unrestricted
  <2> QED
    BY <2>1, EdgesLead, EdgesClimb DEF Rank
<1>3. \A x : IsFiniteSet(Below(x)) /\ Cardinality(Below(x)) \in Nat
  BY VerticesAreCollected, FS_Subset, FS_CardinalityType DEF Below
<1>4. 0 \in S
  <2> SUFFICES ASSUME NEW f \in D(0) PROVE high(f, 0)
    OBVIOUS
  <2>1. f \in among
    BY <1>1
  <2>2. f.from \in Below(f.from)
    BY <1>2, <2>1 DEF Below
  <2>3. Cardinality(Below(f.from)) # 0
    BY <1>3, <2>2, FS_EmptySet
  <2> QED
    BY <1>2, <1>3, <2>1, <2>3
<1>5. ASSUME NEW k \in S PROVE k + 1 \in S
  <2> SUFFICES ASSUME NEW f \in D(k + 1), f \notin D(k)
               PROVE  high(f, k + 1)
    OBVIOUS
  <2>1. PICK g \in D(k) : f.from = g.to
    <3>1. k \in Nat
      OBVIOUS
    <3>2. f \in Down(v, among, k + 1) /\ f \notin Down(v, among, k)
      OBVIOUS
    <3>3. \E g \in Down(v, among, k) : f.from = g.to
      BY <1>0, <3>1, <3>2
    <3> QED
      BY <3>3
  <2>2. k # 0 => g \notin D(k - 1)
    <3> SUFFICES ASSUME k # 0, g \in D(k - 1) PROVE FALSE
      OBVIOUS
    <3>1. PICK m \in Nat : m + 1 = k /\ m = k - 1
      OBVIOUS
    <3>2. f \in among
      BY <1>1
    <3>3. f \in Down(v, among, m + 1)
      BY <2>1, <3>1, <3>2, DownStepByStep
    <3> QED
      BY <3>1, <3>3
  <2>3. high(g, k)
    BY <2>2
  <2>4. g \in among /\ f \in among
    BY <1>1
  <2> HIDE DEF D
  <2>5. Rank(g.from) < Rank(f.from)
    BY <1>2, <2>1, <2>4
  <2>6. k + 1 <= Rank(f.from)
    BY <1>2, <2>3, <2>4, <2>5
  <2>7. Below(g.from) \cup {f.from} \subseteq Below(f.from) /\ f.from \notin Below(g.from)
    <3>1. \A x \in Vertices : Rank(x) \in 0 .. 5
      BY VerticesAreCollected DEF Rank, RankOf
    <3> QED
      BY <1>2, <2>4, <2>5, <3>1 DEF Below
  <2>8. Cardinality(Below(g.from) \cup {f.from}) = Cardinality(Below(g.from)) + 1
    BY <1>3, <2>7, FS_AddElement
  <2>9. Cardinality(Below(g.from) \cup {f.from}) <= Cardinality(Below(f.from))
    BY <1>3, <2>7, FS_Subset
  <2> QED
    BY <1>3, <2>3, <2>6, <2>8, <2>9
<1>6. S = Nat
  <2>1. S \in SUBSET Nat
    OBVIOUS
  <2> HIDE DEF S
  <2> QED
    BY <1>4, <1>5, <2>1, OneAfterTheOther
<1> QED
  BY <1>6

(* A lookup has found everything at depth 4, and at any depth that is at    *)
(* least the number of vertices.                                             *)
LEMMA DownSettles ==
  ASSUME Prototyped, NEW among \in SUBSET Unrestricted, NEW v, NEW n \in Nat,
         n >= 4 \/ n >= Cardinality(Vertices)
  PROVE  Down(v, among, n) = Down(v, among, 4)
<1> DEFINE D(k) == Down(v, among, k)
           N == Cardinality(Vertices)
<1>1. N \in Nat
  BY VerticesAreCollected, FS_CardinalityType
<1>2. ASSUME NEW k \in Nat, k >= 4 \/ k >= N PROVE D(k + 1) = D(k)
  <2> SUFFICES ASSUME NEW e \in D(k + 1), e \notin D(k) PROVE FALSE
    BY DownGrows
  <2>1. k + 1 \in Nat /\ k + 1 # 0 /\ (k + 1) - 1 = k
    OBVIOUS
  <2>2. k + 1 <= Rank(e.from) /\ (k + 1) + 1 <= Cardinality(Below(e.from))
    BY <2>1, NewEdgesAreHigh
  <2>3. e \in Unrestricted /\ e \in edges
    BY <2>1, DownGrows DEF Unrestricted
  <2>4. Rank(e.from) \in 0 .. 4
    BY <2>3, EdgesLead, EdgesClimb DEF Rank
  <2>5. Below(e.from) \subseteq Vertices
    BY DEF Below
  <2>6. Cardinality(Below(e.from)) <= N /\ Cardinality(Below(e.from)) \in Nat
    BY <2>5, VerticesAreCollected, FS_Subset, FS_CardinalityType
  <2> HIDE DEF D, N
  <2> QED
    BY <1>1, <1>2, <2>2, <2>4, <2>6
<1> HIDE DEF D, N
<1>3. ASSUME NEW m \in Nat, m >= 4 \/ m >= N PROVE \A d \in Nat : D(m + d) = D(m)
  <2> DEFINE S == {d \in Nat : D(m + d) = D(m)}
  <2>1. 0 \in S /\ S \in SUBSET Nat
    OBVIOUS
  <2>2. ASSUME NEW d \in S PROVE d + 1 \in S
    <3>1. m + d \in Nat /\ (m + d >= 4 \/ m + d >= N) /\ (m + d) + 1 = m + (d + 1)
      BY <1>1, <1>3
    <3>2. D((m + d) + 1) = D(m + d)
      BY <1>2, <3>1
    <3> QED
      BY <3>1, <3>2
  <2>3. S = Nat
    <3> HIDE DEF S
    <3> QED
      BY <2>1, <2>2, OneAfterTheOther
  <2> QED
    BY <2>3
<1>4. CASE n >= 4
  <2>1. PICK d \in Nat : 4 + d = n
    <3>1. n - 4 \in Nat /\ 4 + (n - 4) = n
      BY <1>4
    <3> QED
      BY <3>1
  <2> QED
    BY <1>3, <2>1 DEF D
<1>5. CASE n < 4
  <2>1. PICK d \in Nat : n + d = 4
    <3>1. 4 - n \in Nat /\ n + (4 - n) = 4
      BY <1>5
    <3> QED
      BY <3>1
  <2>2. n >= N
    BY <1>5 DEF N
  <2> QED
    BY <1>3, <2>1, <2>2 DEF D
<1> QED
  BY <1>4, <1>5

-----------------------------------------------------------------------------
(* What a path reaches, step by step: first for a number of steps that is not *)
(* tied to the path.                                                          *)
ReachedIn(n, path, v, at) ==
    LET reached[k \in 0 .. n] ==
          IF k = 0 THEN {v}
          ELSE LET before == reached[k - 1]
               IN  {e.to : e \in StepEdges(path[k], before, at[k])}
    IN  reached

LEMMA ReachedInSteps ==
  ASSUME NEW n \in Nat, NEW path, NEW v, NEW at
  PROVE  /\ \A w : w \in ReachedIn(n, path, v, at)[0] <=> w = v
         /\ \A k \in 1 .. n : \A w :
               w \in ReachedIn(n, path, v, at)[k] <=>
                  \E e \in at[k] : /\ e.name = path[k].name /\ In(e.to, path[k].to)
                                   /\ e.from \in ReachedIn(n, path, v, at)[k - 1] /\ e.to = w
<1> DEFINE X == SUBSET ({v} \cup UNION {{e.to : e \in at[k]} : k \in 1 .. n})
           next(k, before) == {e.to : e \in StepEdges(path[k], before, at[k])}
           G == [k \in Nat |-> [before \in X |-> IF k \in 1 .. n THEN next(k, before) ELSE {}]]
<1>1. \A k \in 1 .. n : \A before : next(k, before) \in X
  BY DEF StepEdges
<1>2. {v} \in X /\ G \in [Nat -> [X -> X]]
  <2>1. {v} \in X /\ {} \in X
    OBVIOUS
  <2> HIDE DEF X, next
  <2> QED
    BY <1>1, <2>1
<1>3. PICK f \in [Nat -> X] : f = [k \in Nat |-> IF k = 0 THEN {v} ELSE G[k][f[k - 1]]]
  <2> DEFINE a == {v}
  <2>1. a \in X /\ G \in [Nat -> [X -> X]]
    BY <1>2
  <2> HIDE DEF X, G, a
  <2>2. PICK f \in [Nat -> X] : f = [k \in Nat |-> IF k = 0 THEN a ELSE G[k][f[k - 1]]]
    BY <2>1, RecursionOnNat
  <2> QED
    BY <2>2 DEF a
<1>4. \E g : g = [k \in 0 .. n |-> IF k = 0 THEN {v} ELSE next(k, g[k - 1])]
  <2> DEFINE g == [k \in 0 .. n |-> f[k]]
  <2>1. ASSUME NEW k \in 0 .. n, k # 0 PROVE f[k] = next(k, g[k - 1])
    <3>1. k \in 1 .. n /\ k \in Nat /\ k - 1 \in 0 .. n /\ k - 1 \in Nat
      BY <2>1
    <3>2. f[k - 1] \in X /\ g[k - 1] = f[k - 1]
      BY <3>1
    <3>3. f[k] = G[k][f[k - 1]]
      <4> HIDE DEF X, G
      <4> QED
        BY <1>3, <2>1, <3>1
    <3> HIDE DEF X, next, g
    <3> QED
      BY <3>1, <3>2, <3>3
  <2>2. f[0] = {v}
    <3> HIDE DEF X, G
    <3> QED
      BY <1>3
  <2>3. \A k \in 0 .. n : g[k] = IF k = 0 THEN {v} ELSE next(k, g[k - 1])
    <3> SUFFICES ASSUME NEW k \in 0 .. n
                 PROVE  g[k] = IF k = 0 THEN {v} ELSE next(k, g[k - 1])
      OBVIOUS
    <3>1. g[k] = f[k]
      OBVIOUS
    <3> HIDE DEF g, next, X, G
    <3> QED
      BY <2>1, <2>2, <3>1
  <2>4. g = [k \in 0 .. n |-> g[k]]
    OBVIOUS
  <2> HIDE DEF g, next
  <2>5. g = [k \in 0 .. n |-> IF k = 0 THEN {v} ELSE next(k, g[k - 1])]
    BY <2>3, <2>4
  <2> QED
    BY <2>5
<1> DEFINE reached == CHOOSE r : r = [k \in 0 .. n |-> IF k = 0 THEN {v} ELSE next(k, r[k - 1])]
<1>5. reached = [k \in 0 .. n |-> IF k = 0 THEN {v} ELSE next(k, reached[k - 1])]
  <2> HIDE DEF next
  <2> QED
    BY <1>4
<1>6. ReachedIn(n, path, v, at) = reached
  BY DEF ReachedIn
<1> HIDE DEF reached
<1>7. reached[0] = {v} /\ \A k \in 1 .. n : reached[k] = next(k, reached[k - 1])
  <2>1. \A k \in 0 .. n : reached[k] = IF k = 0 THEN {v} ELSE next(k, reached[k - 1])
    <3> HIDE DEF next
    <3> QED
      BY <1>5
  <2>2. 0 \in 0 .. n /\ \A k \in 1 .. n : k \in 0 .. n /\ k # 0
    OBVIOUS
  <2> HIDE DEF next
  <2> QED
    BY <2>1, <2>2
<1>8. ASSUME NEW k \in 1 .. n, NEW w
      PROVE  w \in next(k, reached[k - 1]) <=>
               \E e \in at[k] : /\ e.name = path[k].name /\ In(e.to, path[k].to)
                                /\ e.from \in reached[k - 1] /\ e.to = w
  BY DEF StepEdges
<1>9. \A w : w \in reached[0] <=> w = v
  BY <1>7
<1>10. ASSUME NEW k \in 1 .. n, NEW w
       PROVE  w \in reached[k] <=> w \in next(k, reached[k - 1])
  <2> HIDE DEF next
  <2> QED
    BY <1>7
<1> HIDE DEF next
<1> QED
  BY <1>6, <1>8, <1>9, <1>10

LEMMA ReachedStepByStep ==
  ASSUME NEW path, Len(path) \in Nat, NEW v, NEW at
  PROVE  /\ \A w : w \in Reached(path, v, at)[0] <=> w = v
         /\ \A k \in 1 .. Len(path) : \A w :
               w \in Reached(path, v, at)[k] <=>
                  \E e \in at[k] : /\ e.name = path[k].name /\ In(e.to, path[k].to)
                                   /\ e.from \in Reached(path, v, at)[k - 1] /\ e.to = w
<1>1. Reached(path, v, at) = ReachedIn(Len(path), path, v, at)
  BY DEF Reached, ReachedIn
<1> QED
  BY <1>1, ReachedInSteps

(* What the paths of the configuration say, step by step. *)
LedIn(n, path, u) ==
    LET to[k \in 0 .. n] ==
          IF k = 0 THEN {u}
          ELSE LET before == to[k - 1]
               IN  {e.to : e \in {f \in Unrestricted : /\ f.from \in before /\ f.name = path[k].name
                                                       /\ In(f.to, path[k].to)}}
    IN  to

Led(path, u) == LedIn(Len(path), path, u)

LEMMA LedInSteps ==
  ASSUME NEW n \in Nat, NEW path, NEW u
  PROVE  /\ \A w : w \in LedIn(n, path, u)[0] <=> w = u
         /\ \A k \in 1 .. n : \A w :
               w \in LedIn(n, path, u)[k] <=>
                  \E e \in Unrestricted : /\ e.name = path[k].name /\ In(e.to, path[k].to)
                                          /\ e.from \in LedIn(n, path, u)[k - 1] /\ e.to = w
<1> DEFINE X == SUBSET ({u} \cup {e.to : e \in Unrestricted})
           next(k, before) ==
              {e.to : e \in {f \in Unrestricted : /\ f.from \in before /\ f.name = path[k].name
                                                  /\ In(f.to, path[k].to)}}
           G == [k \in Nat |-> [before \in X |-> next(k, before)]]
<1>1. \A k : \A before : next(k, before) \in X
  OBVIOUS
<1>2. {u} \in X /\ G \in [Nat -> [X -> X]]
  <2>1. {u} \in X
    OBVIOUS
  <2> HIDE DEF X, next
  <2> QED
    BY <1>1, <2>1
<1>3. PICK f \in [Nat -> X] : f = [k \in Nat |-> IF k = 0 THEN {u} ELSE G[k][f[k - 1]]]
  <2> DEFINE a == {u}
  <2>1. a \in X /\ G \in [Nat -> [X -> X]]
    BY <1>2
  <2> HIDE DEF X, G, a
  <2>2. PICK f \in [Nat -> X] : f = [k \in Nat |-> IF k = 0 THEN a ELSE G[k][f[k - 1]]]
    BY <2>1, RecursionOnNat
  <2> QED
    BY <2>2 DEF a
<1>4. \E g : g = [k \in 0 .. n |-> IF k = 0 THEN {u} ELSE next(k, g[k - 1])]
  <2> DEFINE g == [k \in 0 .. n |-> f[k]]
  <2>1. ASSUME NEW k \in 0 .. n, k # 0 PROVE f[k] = next(k, g[k - 1])
    <3>1. k \in 1 .. n /\ k \in Nat /\ k - 1 \in 0 .. n /\ k - 1 \in Nat
      BY <2>1
    <3>2. f[k - 1] \in X /\ g[k - 1] = f[k - 1]
      BY <3>1
    <3>3. f[k] = G[k][f[k - 1]]
      <4> HIDE DEF X, G
      <4> QED
        BY <1>3, <2>1, <3>1
    <3> HIDE DEF X, next, g
    <3> QED
      BY <3>1, <3>2, <3>3
  <2>2. f[0] = {u}
    <3> HIDE DEF X, G
    <3> QED
      BY <1>3
  <2>3. \A k \in 0 .. n : g[k] = IF k = 0 THEN {u} ELSE next(k, g[k - 1])
    <3> SUFFICES ASSUME NEW k \in 0 .. n
                 PROVE  g[k] = IF k = 0 THEN {u} ELSE next(k, g[k - 1])
      OBVIOUS
    <3>1. g[k] = f[k]
      OBVIOUS
    <3> HIDE DEF g, next, X, G
    <3> QED
      BY <2>1, <2>2, <3>1
  <2>4. g = [k \in 0 .. n |-> g[k]]
    OBVIOUS
  <2> HIDE DEF g, next
  <2>5. g = [k \in 0 .. n |-> IF k = 0 THEN {u} ELSE next(k, g[k - 1])]
    BY <2>3, <2>4
  <2> QED
    BY <2>5
<1> DEFINE led == CHOOSE r : r = [k \in 0 .. n |-> IF k = 0 THEN {u} ELSE next(k, r[k - 1])]
<1>5. led = [k \in 0 .. n |-> IF k = 0 THEN {u} ELSE next(k, led[k - 1])]
  <2> HIDE DEF next
  <2> QED
    BY <1>4
<1>6. LedIn(n, path, u) = led
  BY DEF LedIn
<1> HIDE DEF led
<1>7. led[0] = {u} /\ \A k \in 1 .. n : led[k] = next(k, led[k - 1])
  <2>1. \A k \in 0 .. n : led[k] = IF k = 0 THEN {u} ELSE next(k, led[k - 1])
    <3> HIDE DEF next
    <3> QED
      BY <1>5
  <2>2. 0 \in 0 .. n /\ \A k \in 1 .. n : k \in 0 .. n /\ k # 0
    OBVIOUS
  <2> HIDE DEF next
  <2> QED
    BY <2>1, <2>2
<1>8. ASSUME NEW k \in 1 .. n, NEW w
      PROVE  w \in next(k, led[k - 1]) <=>
               \E e \in Unrestricted : /\ e.name = path[k].name /\ In(e.to, path[k].to)
                                       /\ e.from \in led[k - 1] /\ e.to = w
  OBVIOUS
<1>9. \A w : w \in led[0] <=> w = u
  BY <1>7
<1>10. ASSUME NEW k \in 1 .. n, NEW w
       PROVE  w \in led[k] <=> w \in next(k, led[k - 1])
  <2> HIDE DEF next
  <2> QED
    BY <1>7
<1> HIDE DEF next
<1> QED
  BY <1>6, <1>8, <1>9, <1>10

LEMMA LedStepByStep ==
  ASSUME NEW path, Len(path) \in Nat, NEW u
  PROVE  /\ \A w : w \in Led(path, u)[0] <=> w = u
         /\ \A k \in 1 .. Len(path) : \A w :
               w \in Led(path, u)[k] <=>
                  \E e \in Unrestricted : /\ e.name = path[k].name /\ In(e.to, path[k].to)
                                          /\ e.from \in Led(path, u)[k - 1] /\ e.to = w
BY LedInSteps DEF Led

-----------------------------------------------------------------------------
(* What permissions are collected and granted. *)
LEMMA CollectedAlongPaths ==
  ASSUME NEW paths, NEW v, NEW at, NEW x
  PROVE  x \in Collected(paths, v, at) <=>
            \E path \in paths : \E k \in 1 .. Len(path) :
               path[k].grants # {} /\ x \in path[k].grants \X Reached(path, v, at)[k]
<1> DEFINE R(path) == Reached(path, v, at)
<1>1. Collected(paths, v, at) =
        UNION {UNION {path[k].grants \X R(path)[k] : k \in {n \in 1 .. Len(path) : path[n].grants # {}}} :
                 path \in paths}
  BY DEF Collected
<1> HIDE DEF R
<1>2. x \in Collected(paths, v, at) <=>
        \E path \in paths :
           x \in UNION {path[k].grants \X R(path)[k] : k \in {n \in 1 .. Len(path) : path[n].grants # {}}}
  BY <1>1
<1>3. ASSUME NEW path
      PROVE  x \in UNION {path[k].grants \X R(path)[k] : k \in {n \in 1 .. Len(path) : path[n].grants # {}}}
             <=> \E k \in 1 .. Len(path) : path[k].grants # {} /\ x \in path[k].grants \X R(path)[k]
  OBVIOUS
<1> QED
  BY <1>2, <1>3 DEF R

LEMMA GrantedAlongPaths ==
  ASSUME NEW u, NEW x
  PROVE  x \in Granted(u) <=>
            \E path \in PermissionPaths : \E k \in 1 .. Len(path) :
               path[k].grants # {} /\ x \in path[k].grants \X Led(path, u)[k]
<1> DEFINE R(path) == Led(path, u)
<1>1. Granted(u) =
        UNION {UNION {path[k].grants \X R(path)[k] : k \in {n \in 1 .. Len(path) : path[n].grants # {}}} :
                 path \in PermissionPaths}
  BY DEF Granted, Led, LedIn
<1> HIDE DEF R
<1>2. x \in Granted(u) <=>
        \E path \in PermissionPaths :
           x \in UNION {path[k].grants \X R(path)[k] : k \in {n \in 1 .. Len(path) : path[n].grants # {}}}
  BY <1>1
<1>3. ASSUME NEW path
      PROVE  x \in UNION {path[k].grants \X R(path)[k] : k \in {n \in 1 .. Len(path) : path[n].grants # {}}}
             <=> \E k \in 1 .. Len(path) : path[k].grants # {} /\ x \in path[k].grants \X R(path)[k]
  OBVIOUS
<1> QED
  BY <1>2, <1>3 DEF R

(* The paths that are shipped have five steps or fewer, and each step but the *)
(* last leads to a collection that can be filtered.                          *)
Filterable(c) == "filter" \in ConfigOf(c).allows

IsPath(path) ==
    /\ Len(path) \in 1 .. 5
    /\ \A k \in 1 .. Len(path) : k < Len(path) => Filterable(path[k].to)
    /\ path[1].name \in TeamRoles

LEMMA FilterableCollections ==
  /\ Filterable("team") /\ Filterable("brokerAccount") /\ Filterable("project")
  /\ Filterable("service")
<1>1. "filter" \in AllOf
  BY DEF AllOf
<1>2. /\ Team.allows = AllOf /\ BrokerAccount.allows = AllOf /\ Project.allows = AllOf
      /\ Service.allows = AllOf
  BY DEF Team, BrokerAccount, Project, Service
<1>3. /\ ConfigOf("team") = Team /\ ConfigOf("brokerAccount") = BrokerAccount
      /\ ConfigOf("project") = Project /\ ConfigOf("service") = Service
  BY DEF ConfigOf
<1> QED
  BY <1>1, <1>2, <1>3 DEF Filterable

LEMMA PathsAreShort ==
  ASSUME NEW path \in PermissionPaths
  PROVE  IsPath(path)
<1>1. \A name, to, grants : Via(name, to, grants).name = name /\ Via(name, to, grants).to = to
  BY DEF Via
<1>2. ASSUME NEW role \in TeamRoles, NEW onTeam, NEW p \in DeveloperPaths(role, onTeam)
      PROVE  IsPath(p)
  <2>1. CASE p = <<Via(role, "team", onTeam), Via("owns", "brokerAccount", {"sudo"}),
                   Via("authorized", "project", {"update"}),
                   Via("component", "service", {"sudo", "update"}),
                   Via("instance", "serviceInstance", {"update"})>>
    <3>1. /\ Len(p) = 5 /\ p[1].to = "team" /\ p[2].to = "brokerAccount" /\ p[3].to = "project"
          /\ p[4].to = "service" /\ p[1].name = role
      BY <1>1, <2>1
    <3> QED
      BY <3>1, FilterableCollections DEF IsPath
  <2>2. CASE p = <<Via(role, "team", Nothing), Via("owns", "brokerAccount", Nothing),
                   Via("authorized", "service", {"sudo", "update"}),
                   Via("instance", "serviceInstance", {"update"})>>
    <3>1. /\ Len(p) = 4 /\ p[1].to = "team" /\ p[2].to = "brokerAccount" /\ p[3].to = "service"
          /\ p[1].name = role
      BY <1>1, <2>2
    <3> QED
      BY <3>1, FilterableCollections DEF IsPath
  <2>3. CASE p = <<Via(role, "team", Nothing), Via("owns", "brokerAccount", Nothing),
                   Via("authorized", "project", Nothing), Via("component", "service", Nothing),
                   Via("source", "repository", {"sudo", "update"})>>
    <3>1. /\ Len(p) = 5 /\ p[1].to = "team" /\ p[2].to = "brokerAccount" /\ p[3].to = "project"
          /\ p[4].to = "service" /\ p[1].name = role
      BY <1>1, <2>3
    <3> QED
      BY <3>1, FilterableCollections DEF IsPath
  <2>4. CASE p = <<Via(role, "team", Nothing), Via("owns", "brokerAccount", Nothing),
                   Via("authorized", "service", Nothing),
                   Via("source", "repository", {"sudo", "update"})>>
    <3>1. /\ Len(p) = 4 /\ p[1].to = "team" /\ p[2].to = "brokerAccount" /\ p[3].to = "service"
          /\ p[1].name = role
      BY <1>1, <2>4
    <3> QED
      BY <3>1, FilterableCollections DEF IsPath
  <2> QED
    BY <2>1, <2>2, <2>3, <2>4 DEF DeveloperPaths
<1>3. IsPath(OwnerPath)
  <2>1. Len(OwnerPath) = 1 /\ OwnerPath[1].name = "owner"
    BY DEF OwnerPath, Via
  <2> QED
    BY <2>1 DEF IsPath, TeamRoles
<1>4. ASSUME NEW p \in TesterPaths PROVE IsPath(p)
  <2>1. CASE p = <<Via("tester", "team", Nothing), Via("owns", "brokerAccount", Nothing),
                   Via("authorized", "project", Nothing), Via("component", "service", {"approve"})>>
    <3>1. /\ Len(p) = 4 /\ p[1].to = "team" /\ p[2].to = "brokerAccount" /\ p[3].to = "project"
          /\ p[1].name = "tester"
      BY <1>1, <2>1
    <3> QED
      BY <3>1, FilterableCollections DEF IsPath, TeamRoles
  <2>2. CASE p = <<Via("tester", "team", Nothing), Via("owns", "brokerAccount", Nothing),
                   Via("authorized", "service", {"approve"})>>
    <3>1. /\ Len(p) = 3 /\ p[1].to = "team" /\ p[2].to = "brokerAccount" /\ p[1].name = "tester"
      BY <1>1, <2>2
    <3> QED
      BY <3>1, FilterableCollections DEF IsPath, TeamRoles
  <2> QED
    BY <2>1, <2>2 DEF TesterPaths
<1>5. ASSUME NEW p \in CloudPaths PROVE IsPath(p)
  <2>1. PICK role \in {"lead-developer", "full-access"} :
           p = <<Via(role, "team", Nothing), Via("operates", "cloud", {"sudo", "update"})>>
    BY DEF CloudPaths
  <2>2. Len(p) = 2 /\ p[1].to = "team" /\ p[1].name = role
    BY <1>1, <2>1
  <2> QED
    BY <2>2, FilterableCollections DEF IsPath, TeamRoles
<1> QED
  BY <1>2, <1>3, <1>4, <1>5 DEF PermissionPaths, TeamRoles

-----------------------------------------------------------------------------
(* The edges that are first found at each depth, and those that end walks. *)
LEMMA ByDepthIs ==
  ASSUME NEW v, NEW among
  PROVE  /\ DOMAIN ByDepth(v, among) = 1 .. 5
         /\ \A k \in 1 .. 5 : \A e :
               e \in ByDepth(v, among)[k] <=>
                  e \in Down(v, among, k - 1) /\ (k # 1 => e \notin Down(v, among, k - 2))
<1> DEFINE D(n) == Down(v, among, n)
<1>1. ByDepth(v, among) = <<D(0) \ {}, D(1) \ D(0), D(2) \ D(1), D(3) \ D(2), D(4) \ D(3)>>
  <2>1. /\ 1 - 1 = 0 /\ 2 - 1 = 1 /\ 3 - 1 = 2 /\ 4 - 1 = 3
    OBVIOUS
  <2> QED
    BY <2>1 DEF ByDepth
<1> HIDE DEF D
<1>2. DOMAIN ByDepth(v, among) = 1 .. 5
  BY <1>1
<1>3. ASSUME NEW k \in 1 .. 5, NEW e
      PROVE  e \in ByDepth(v, among)[k] <=> e \in D(k - 1) /\ (k # 1 => e \notin D(k - 2))
  <2>1. CASE k = 1
    BY <1>1, <2>1
  <2>2. CASE k = 2
    BY <1>1, <2>2
  <2>3. CASE k = 3
    BY <1>1, <2>3
  <2>4. CASE k = 4
    BY <1>1, <2>4
  <2>5. CASE k = 5
    BY <1>1, <2>5
  <2> QED
    BY <2>1, <2>2, <2>3, <2>4, <2>5
<1> QED
  BY <1>2, <1>3 DEF D

LEMMA WalkedStepByStep ==
  ASSUME NEW v
  PROVE  /\ DOMAIN Walked(v) = 1 .. 5
         /\ \A e : e \in Walked(v)[1] <=> e \in Unrestricted /\ e.from = v
         /\ \A k \in 1 .. 4 : \A e :
               e \in Walked(v)[k + 1] <=>
                  e \in Unrestricted /\ \E f \in Walked(v)[k] : e.from = f.to
<1> DEFINE from(sources) == {e \in edges : e.from \in sources /\ ~ IsRestricted(e)}
           after(found) == from({e.to : e \in found})
<1>1. Walked(v) = <<from({v}), after(from({v})), after(after(from({v}))),
                    after(after(after(from({v})))), after(after(after(after(from({v})))))>>
  BY DEF Walked
<1>2. \A e : e \in from({v}) <=> e \in Unrestricted /\ e.from = v
  BY DEF Unrestricted
<1>3. \A found : \A e : e \in after(found) <=> e \in Unrestricted /\ \E f \in found : e.from = f.to
  BY DEF Unrestricted
<1>4. PICK one : one = from({v})
  OBVIOUS
<1> HIDE DEF from, after
<1>5. /\ Walked(v)[1] = one /\ Walked(v)[2] = after(Walked(v)[1])
      /\ Walked(v)[3] = after(Walked(v)[2]) /\ Walked(v)[4] = after(Walked(v)[3])
      /\ Walked(v)[5] = after(Walked(v)[4]) /\ DOMAIN Walked(v) = 1 .. 5
  BY <1>1, <1>4
<1>6. ASSUME NEW k \in 1 .. 4, NEW e
      PROVE  e \in Walked(v)[k + 1] <=>
                e \in Unrestricted /\ \E f \in Walked(v)[k] : e.from = f.to
  <2>1. Walked(v)[k + 1] = after(Walked(v)[k])
    BY <1>5
  <2> QED
    BY <1>3, <2>1
<1>7. \A e : e \in Walked(v)[1] <=> e \in Unrestricted /\ e.from = v
  BY <1>2, <1>4, <1>5
<1> QED
  BY <1>5, <1>6, <1>7

(* If no edge ends walks of two lengths, it is found where its walks end. *)
LEMMA WalkedIsByDepth ==
  ASSUME NEW v, OneWay(v), NEW k \in 1 .. 5
  PROVE  Walked(v)[k] \subseteq ByDepth(v, Unrestricted)[k]
<1> DEFINE W(i) == Walked(v)[i]
           D(n) == Down(v, Unrestricted, n)
           S == {n \in Nat : n <= 4 => \A e : e \in D(n) <=> \E i \in 1 .. n + 1 : e \in W(i)}
<1>1. 0 \in S
  <2>1. \A e : e \in D(0) <=> e \in W(1)
    BY DownStepByStep, WalkedStepByStep
  <2>2. \A i \in 1 .. 0 + 1 : i = 1
    OBVIOUS
  <2> HIDE DEF D, W
  <2> QED
    BY <2>1, <2>2
<1>2. ASSUME NEW n \in S PROVE n + 1 \in S
  <2> SUFFICES ASSUME n + 1 <= 4, NEW e
               PROVE  e \in D(n + 1) <=> \E i \in 1 .. (n + 1) + 1 : e \in W(i)
    OBVIOUS
  <2>1. \A f : f \in D(n) <=> \E i \in 1 .. n + 1 : f \in W(i)
    OBVIOUS
  <2>2. e \in D(n + 1) <=> e \in D(n) \/ (e \in Unrestricted /\ \E f \in D(n) : e.from = f.to)
    <3>1. \A j \in Nat : \A x :
             x \in Down(v, Unrestricted, j + 1) <=>
                \/ x \in Down(v, Unrestricted, j)
                \/ x \in Unrestricted /\ \E f \in Down(v, Unrestricted, j) : x.from = f.to
      BY DownStepByStep
    <3>2. n \in Nat
      OBVIOUS
    <3> HIDE DEF S
    <3> QED
      BY <3>1, <3>2
  <2>3. /\ e \in W(1) <=> e \in Unrestricted /\ e.from = v
        /\ \A i \in 1 .. 4 : e \in W(i + 1) <=> e \in Unrestricted /\ \E f \in W(i) : e.from = f.to
    BY WalkedStepByStep
  <2>0. n \in Nat /\ n <= 3
    OBVIOUS
  <2> HIDE DEF D, W, S
  <2>4. ASSUME e \in D(n + 1) PROVE \E i \in 1 .. (n + 1) + 1 : e \in W(i)
    <3>1. CASE e \in D(n)
      <4>1. PICK i \in 1 .. n + 1 : e \in W(i)
        BY <2>1, <3>1
      <4>2. i \in 1 .. (n + 1) + 1
        BY <2>0
      <4> QED
        BY <4>1, <4>2
    <3>2. CASE e \notin D(n)
      <4>1. PICK f \in D(n) : e \in Unrestricted /\ e.from = f.to
        BY <2>2, <2>4, <3>2
      <4>2. PICK i \in 1 .. n + 1 : f \in W(i)
        BY <2>1
      <4>3. i \in 1 .. 4 /\ i + 1 \in 1 .. (n + 1) + 1
        BY <2>0
      <4>4. e \in W(i + 1)
        BY <2>3, <4>1, <4>2, <4>3
      <4> QED
        BY <4>3, <4>4
    <3> QED
      BY <3>1, <3>2
  <2>5. ASSUME NEW i \in 1 .. (n + 1) + 1, e \in W(i) PROVE e \in D(n + 1)
    <3>1. CASE i <= n + 1
      <4>1. i \in 1 .. n + 1
        BY <2>0, <3>1
      <4> QED
        BY <2>1, <2>2, <2>5, <4>1
    <3>2. CASE i = n + 2
      <4>1. PICK j \in 1 .. 4 : i = j + 1 /\ j \in 1 .. n + 1
        <5>1. n + 1 \in 1 .. 4 /\ i = (n + 1) + 1 /\ n + 1 \in 1 .. n + 1
          BY <2>0, <3>2
        <5> QED
          BY <5>1
      <4>2. e \in Unrestricted /\ \E f \in W(j) : e.from = f.to
        BY <2>3, <2>5, <4>1
      <4> QED
        BY <2>1, <2>2, <4>1, <4>2
    <3> QED
      BY <2>0, <3>1, <3>2
  <2> QED
    BY <2>4, <2>5
<1>3. S = Nat
  <2>1. S \in SUBSET Nat
    OBVIOUS
  <2> HIDE DEF S
  <2> QED
    BY <1>1, <1>2, <2>1, OneAfterTheOther
<1>4. \A n \in 0 .. 4 : \A e : e \in D(n) <=> \E i \in 1 .. n + 1 : e \in W(i)
  BY <1>3
<1> SUFFICES ASSUME NEW e \in W(k) PROVE e \in ByDepth(v, Unrestricted)[k]
  OBVIOUS
<1> HIDE DEF D, W, S
<1>5. e \in D(k - 1)
  <2>1. PICK n \in 0 .. 4 : n = k - 1 /\ n + 1 = k
    OBVIOUS
  <2> QED
    BY <1>4, <2>1
<1>6. k # 1 => e \notin D(k - 2)
  <2> SUFFICES ASSUME k # 1, e \in D(k - 2) PROVE FALSE
    OBVIOUS
  <2>1. PICK n \in 0 .. 4 : n = k - 2 /\ n + 1 = k - 1
    OBVIOUS
  <2>2. PICK i \in 1 .. n + 1 : e \in W(i)
    BY <1>4, <2>1
  <2>3. i \in 1 .. 5 /\ i # k
    BY <2>1
  <2>4. W(i) \cap W(k) = {}
    BY <2>3, WalkedStepByStep DEF OneWay, W
  <2> QED
    BY <2>2, <2>4
<1> QED
  BY <1>5, <1>6, ByDepthIs DEF D

-----------------------------------------------------------------------------
(* Where a path leads from its start: what it reaches lies there. *)
LEMMA ReachedIsLed ==
  ASSUME NEW path \in PermissionPaths, NEW u, NEW k \in 0 .. Len(path)
  PROVE  Reached(path, u, ByDepth(u, Unrestricted))[k] \subseteq Led(path, u)[k]
<1> DEFINE at == ByDepth(u, Unrestricted)
           R == Reached(path, u, at)
           T == Led(path, u)
<1>1. PICK n \in 1 .. 5 : n = Len(path)
  BY PathsAreShort DEF IsPath
<1>2. /\ \A w : w \in R[0] <=> w = u
      /\ \A j \in 1 .. n : \A w :
            w \in R[j] <=> \E e \in at[j] : /\ e.name = path[j].name /\ In(e.to, path[j].to)
                                            /\ e.from \in R[j - 1] /\ e.to = w
  BY <1>1, ReachedStepByStep
<1>3. /\ \A w : w \in T[0] <=> w = u
      /\ \A j \in 1 .. n : \A w :
            w \in T[j] <=> \E e \in Unrestricted : /\ e.name = path[j].name /\ In(e.to, path[j].to)
                                                   /\ e.from \in T[j - 1] /\ e.to = w
  BY <1>1, LedStepByStep
<1>4. \A j \in 1 .. 5 : at[j] \subseteq Unrestricted
  BY ByDepthIs, DownGrows
<1> HIDE DEF at, R, T
<1> DEFINE S == {j \in Nat : j <= n => R[j] \subseteq T[j]}
<1>5. 0 \in S
  BY <1>2, <1>3
<1>6. ASSUME NEW j \in S PROVE j + 1 \in S
  <2> SUFFICES ASSUME j + 1 <= n, NEW w \in R[j + 1] PROVE w \in T[j + 1]
    OBVIOUS
  <2>1. j + 1 \in 1 .. n /\ (j + 1) - 1 = j /\ R[j] \subseteq T[j] /\ j + 1 \in 1 .. 5
    OBVIOUS
  <2>2. PICK e \in at[j + 1] : /\ e.name = path[j + 1].name /\ In(e.to, path[j + 1].to)
                               /\ e.from \in R[j] /\ e.to = w
    BY <1>2, <2>1
  <2> QED
    BY <1>3, <1>4, <2>1, <2>2
<1>7. S = Nat
  <2>1. S \in SUBSET Nat
    OBVIOUS
  <2> HIDE DEF S
  <2> QED
    BY <1>5, <1>6, <2>1, OneAfterTheOther
<1>8. k \in S /\ k <= n
  BY <1>1, <1>7
<1>9. R[k] \subseteq T[k]
  BY <1>8
<1> QED
  BY <1>9 DEF R, T, at

(* ... and all of it is reached where no edge ends walks of two lengths. *)
LEMMA LedIsReached ==
  ASSUME NEW path \in PermissionPaths, NEW u, OneWay(u), NEW k \in 0 .. Len(path)
  PROVE  Led(path, u)[k] \subseteq Reached(path, u, ByDepth(u, Unrestricted))[k]
<1> DEFINE at == ByDepth(u, Unrestricted)
           R == Reached(path, u, at)
           T == Led(path, u)
           W == Walked(u)
<1>1. PICK n \in 1 .. 5 : n = Len(path)
  BY PathsAreShort DEF IsPath
<1>2. /\ \A w : w \in R[0] <=> w = u
      /\ \A j \in 1 .. n : \A w :
            w \in R[j] <=> \E e \in at[j] : /\ e.name = path[j].name /\ In(e.to, path[j].to)
                                            /\ e.from \in R[j - 1] /\ e.to = w
  BY <1>1, ReachedStepByStep
<1>3. /\ \A w : w \in T[0] <=> w = u
      /\ \A j \in 1 .. n : \A w :
            w \in T[j] <=> \E e \in Unrestricted : /\ e.name = path[j].name /\ In(e.to, path[j].to)
                                                   /\ e.from \in T[j - 1] /\ e.to = w
  BY <1>1, LedStepByStep
<1>4. \A j \in 1 .. 5 : W[j] \subseteq at[j]
  BY WalkedIsByDepth
<1>5. /\ \A e : e \in W[1] <=> e \in Unrestricted /\ e.from = u
      /\ \A j \in 1 .. 4 : \A e :
            e \in W[j + 1] <=> e \in Unrestricted /\ \E f \in W[j] : e.from = f.to
  BY WalkedStepByStep
<1> HIDE DEF at, R, T, W
<1> DEFINE S == {j \in Nat : j <= n => \A w \in T[j] : /\ w \in R[j]
                                                       /\ j # 0 => \E e \in W[j] : e.to = w}
<1>6. 0 \in S
  BY <1>2, <1>3
<1>7. ASSUME NEW j \in S PROVE j + 1 \in S
  <2> SUFFICES ASSUME j + 1 <= n, NEW w \in T[j + 1]
               PROVE  w \in R[j + 1] /\ \E e \in W[j + 1] : e.to = w
    OBVIOUS
  <2>1. j + 1 \in 1 .. n /\ (j + 1) - 1 = j /\ j + 1 \in 1 .. 5 /\ j \in Nat
    OBVIOUS
  <2>2. \A x \in T[j] : x \in R[j] /\ (j # 0 => \E e \in W[j] : e.to = x)
    OBVIOUS
  <2>3. PICK e \in Unrestricted : /\ e.name = path[j + 1].name /\ In(e.to, path[j + 1].to)
                                  /\ e.from \in T[j] /\ e.to = w
    BY <1>3, <2>1
  <2>4. e \in W[j + 1]
    <3>1. CASE j = 0
      BY <1>3, <1>5, <2>3, <3>1
    <3>2. CASE j # 0
      <4>1. j \in 1 .. 4
        BY <2>1, <3>2
      <4> QED
        BY <1>5, <2>2, <2>3, <3>2, <4>1
    <3> QED
      BY <3>1, <3>2
  <2> QED
    BY <1>2, <1>4, <2>1, <2>2, <2>3, <2>4
<1>8. S = Nat
  <2>1. S \in SUBSET Nat
    OBVIOUS
  <2> HIDE DEF S
  <2> QED
    BY <1>6, <1>7, <2>1, OneAfterTheOther
<1>9. k \in S /\ k <= n
  BY <1>1, <1>8
<1>10. T[k] \subseteq R[k]
  BY <1>9
<1> QED
  BY <1>10 DEF R, T, at

(* What a path leads to and can be filtered is connected. *)
LEMMA LedIsConnected ==
  ASSUME Prototyped, NEW path \in PermissionPaths, NEW u, NEW k \in 1 .. Len(path),
         NEW w \in Led(path, u)[k], Filterable(CollectionOf[w])
  PROVE  w \in UserConnectedVertex(u)
<1> DEFINE T == Led(path, u)
           followed == {e \in Unrestricted : Filterable(CollectionOf[e.to])}
           D(m) == Down(u, followed, m)
<1>1. PICK n \in 1 .. 5 : n = Len(path) /\ \A j \in 1 .. n : j < n => Filterable(path[j].to)
  BY PathsAreShort DEF IsPath
<1>2. /\ \A x : x \in T[0] <=> x = u
      /\ \A j \in 1 .. n : \A x :
            x \in T[j] <=> \E e \in Unrestricted : /\ e.name = path[j].name /\ In(e.to, path[j].to)
                                                   /\ e.from \in T[j - 1] /\ e.to = x
  BY <1>1, LedStepByStep
<1>3. /\ \A e : e \in D(0) <=> e \in followed /\ e.from = u
      /\ \A m \in Nat : \A e : e \in followed /\ (\E f \in D(m) : e.from = f.to) => e \in D(m + 1)
  BY DownStepByStep
<1>4. \A e \in Unrestricted : Filterable(CollectionOf[e.to]) => e \in followed
  OBVIOUS
<1>5. k \in 1 .. n /\ w \in T[k]
  BY <1>1
<1> HIDE DEF T, D, followed
<1> DEFINE S == {j \in Nat : j + 1 <= n =>
                   \A x \in T[j + 1] : Filterable(CollectionOf[x]) => \E e \in D(j) : e.to = x}
<1>6. 0 \in S
  <2> SUFFICES ASSUME NEW x \in T[1], Filterable(CollectionOf[x]) PROVE \E e \in D(0) : e.to = x
    OBVIOUS
  <2>1. PICK e \in Unrestricted : e.from \in T[0] /\ e.to = x
    <3>1. 1 \in 1 .. n /\ 1 - 1 = 0
      OBVIOUS
    <3> QED
      BY <1>2, <3>1
  <2> QED
    BY <1>2, <1>3, <1>4, <2>1
<1>7. ASSUME NEW j \in S PROVE j + 1 \in S
  <2> SUFFICES ASSUME (j + 1) + 1 <= n, NEW x \in T[(j + 1) + 1], Filterable(CollectionOf[x])
               PROVE  \E e \in D(j + 1) : e.to = x
    OBVIOUS
  <2>1. /\ (j + 1) + 1 \in 1 .. n /\ ((j + 1) + 1) - 1 = j + 1 /\ j + 1 \in 1 .. n /\ j + 1 < n
        /\ j \in Nat
    OBVIOUS
  <2>2. \A y \in T[j + 1] : Filterable(CollectionOf[y]) => \E e \in D(j) : e.to = y
    BY <2>1
  <2>3. PICK e \in Unrestricted : e.from \in T[j + 1] /\ e.to = x
    BY <1>2, <2>1
  <2>4. Filterable(CollectionOf[e.from])
    <3>1. In(e.from, path[j + 1].to)
      BY <1>2, <2>1, <2>3
    <3> QED
      BY <1>1, <2>1, <3>1 DEF In
  <2>5. e \in D(j + 1)
    BY <1>3, <1>4, <2>1, <2>2, <2>3, <2>4
  <2> QED
    BY <2>3, <2>5
<1>8. S = Nat
  <2>1. S \in SUBSET Nat
    OBVIOUS
  <2> HIDE DEF S
  <2> QED
    BY <1>6, <1>7, <2>1, OneAfterTheOther
<1>9. PICK j \in 0 .. 4 : j + 1 = k
  <2>1. k - 1 \in 0 .. 4 /\ (k - 1) + 1 = k
    BY <1>5
  <2> QED
    BY <2>1
<1>10. \E e \in D(j) : e.to = w
  <2>1. j \in S
    BY <1>8
  <2> QED
    BY <1>5, <1>9, <2>1
<1>11. D(j) \subseteq D(Cardinality(Vertices))
  <2>1. followed \in SUBSET Unrestricted
    BY DEF followed
  <2>2. Cardinality(Vertices) \in Nat
    BY VerticesAreCollected, FS_CardinalityType
  <2>3. Down(u, followed, Cardinality(Vertices)) = Down(u, followed, 4)
    BY <2>1, <2>2, DownSettles
  <2>4. Down(u, followed, j) \subseteq Down(u, followed, 4)
    BY DownGrows
  <2> QED
    BY <2>3, <2>4 DEF D
<1>12. followed = {e \in Unrestricted : "filter" \in ConfigOf(CollectionOf[e.to]).allows}
  BY DEF followed, Filterable
<1> QED
  BY <1>10, <1>11, <1>12 DEF UserConnectedVertex, D

(* A user has what the paths of the configuration lead to, in every graph   *)
(* whose edges have their prototypes.                                        *)
LEMMA PathsAreFollowed ==
  ASSUME Prototyped
  PROVE  PermissionsFollowPaths
<1> SUFFICES ASSUME NEW u
             PROVE  /\ UserPermissions(u) \subseteq Granted(u)
                    /\ OneWay(u) => UserPermissions(u) = Granted(u)
                    /\ \A x \in UserPermissions(u) :
                          "filter" \in ConfigOf(CollectionOf[x[2]]).allows =>
                             x[2] \in UserConnectedVertex(u)
  BY DEF PermissionsFollowPaths
<1> DEFINE R(path) == Reached(path, u, ByDepth(u, Unrestricted))
<1>1. \A x : x \in UserPermissions(u) <=>
         \E path \in PermissionPaths : \E k \in 1 .. Len(path) :
            path[k].grants # {} /\ x \in path[k].grants \X R(path)[k]
  BY CollectedAlongPaths DEF UserPermissions, PermissionsAmong
<1>2. \A x : x \in Granted(u) <=>
         \E path \in PermissionPaths : \E k \in 1 .. Len(path) :
            path[k].grants # {} /\ x \in path[k].grants \X Led(path, u)[k]
  BY GrantedAlongPaths
<1>3. \A path \in PermissionPaths : \A k \in 1 .. Len(path) :
         /\ R(path)[k] \subseteq Led(path, u)[k]
         /\ OneWay(u) => R(path)[k] = Led(path, u)[k]
  <2> SUFFICES ASSUME NEW path \in PermissionPaths, NEW k \in 1 .. Len(path)
               PROVE  /\ R(path)[k] \subseteq Led(path, u)[k]
                      /\ OneWay(u) => R(path)[k] = Led(path, u)[k]
    OBVIOUS
  <2>1. k \in 0 .. Len(path)
    BY PathsAreShort DEF IsPath
  <2>2. R(path)[k] \subseteq Led(path, u)[k]
    BY <2>1, ReachedIsLed
  <2>3. ASSUME OneWay(u) PROVE Led(path, u)[k] \subseteq R(path)[k]
    BY <2>1, <2>3, LedIsReached
  <2> HIDE DEF R
  <2> QED
    BY <2>2, <2>3
<1> HIDE DEF R
<1>4. ASSUME NEW x \in UserPermissions(u), Filterable(CollectionOf[x[2]])
      PROVE  x[2] \in UserConnectedVertex(u)
  <2>1. PICK path \in PermissionPaths : \E k \in 1 .. Len(path) :
           path[k].grants # {} /\ x \in path[k].grants \X R(path)[k]
    BY <1>1
  <2>2. PICK k \in 1 .. Len(path) : x \in path[k].grants \X R(path)[k]
    BY <2>1
  <2>3. x[2] \in R(path)[k]
    BY <2>2
  <2>4. PICK w \in Led(path, u)[k] : w = x[2]
    BY <1>3, <2>3
  <2>5. Filterable(CollectionOf[w])
    BY <1>4, <2>4
  <2>6. w \in UserConnectedVertex(u)
    BY <2>5, LedIsConnected
  <2> QED
    BY <2>4, <2>6
<1>5. UserPermissions(u) \subseteq Granted(u)
  BY <1>1, <1>2, <1>3
<1>6. ASSUME OneWay(u) PROVE UserPermissions(u) = Granted(u)
  <2>1. \A path \in PermissionPaths : \A k \in 1 .. Len(path) : R(path)[k] = Led(path, u)[k]
    BY <1>3, <1>6
  <2>2. \A x : x \in Granted(u) => x \in UserPermissions(u)
    BY <1>1, <1>2, <2>1
  <2> QED
    BY <1>5, <2>2
<1> QED
  BY <1>4, <1>5, <1>6 DEF Filterable

-----------------------------------------------------------------------------
(* The collection whose vertices have a queue. *)
OwnerOf(queue) == IF queue = "KUBERNETES_SYNC_SECRETS" THEN "openshiftProject" ELSE "repository"

(* A rule for a queue has the queue itself or passes on, to any depth there *)
(* is, to the collection that has it.                                        *)
LEMMA RulesLeadToTheOwner ==
  ASSUME NEW c \in Collections, NEW queue \in SyncQueueNames
  PROVE  /\ Owns(c, queue) <=> c = OwnerOf(queue)
         /\ c = OwnerOf(queue) => RulesFor(c, queue) = {OwnQueue(queue)}
         /\ c # OwnerOf(queue) /\ RulesFor(c, queue) # {} =>
               \E r : /\ RulesFor(c, queue) = {r} /\ r.kind = "traverse"
                      /\ r.collection = OwnerOf(queue) /\ r.maxDepth \in {4, 8}
<1>1. \A q : OwnQueue(q).kind = "queue" /\ OwnQueue(q).queues = {q}
  BY DEF OwnQueue
<1>2. \A d, m, qs : /\ TraverseTo(d, m, qs).kind = "traverse"
                    /\ TraverseTo(d, m, qs).queues = qs
                    /\ TraverseTo(d, m, qs).collection = d
                    /\ TraverseTo(d, m, qs).maxDepth = m
  BY DEF TraverseTo
<1>3. CASE c = "repository"
  <2>1. ConfigOf(c).syncQueues = {OwnQueue(q) : q \in {"GITHUB_SYNC_SECRETS", "GITHUB_SYNC_USERS",
                                                       "GITHUB_CATALOG_SCAN"}}
    BY <1>3 DEF ConfigOf, Repository
  <2>2. queue = "KUBERNETES_SYNC_SECRETS" \/
        queue \in {"GITHUB_SYNC_SECRETS", "GITHUB_SYNC_USERS", "GITHUB_CATALOG_SCAN"}
    BY DEF SyncQueueNames
  <2>3. CASE queue = "KUBERNETES_SYNC_SECRETS"
    <3>1. \A r \in ConfigOf(c).syncQueues : queue \notin r.queues
      BY <1>1, <2>1, <2>3
    <3> QED
      BY <1>3, <2>3, <3>1 DEF Owns, OwnerOf, RulesFor
  <2>4. CASE queue \in {"GITHUB_SYNC_SECRETS", "GITHUB_SYNC_USERS", "GITHUB_CATALOG_SCAN"}
    <3>1. OwnerOf(queue) = c
      BY <1>3, <2>4 DEF OwnerOf
    <3>2. OwnQueue(queue) \in ConfigOf(c).syncQueues
      BY <2>1, <2>4
    <3>3. \A r \in ConfigOf(c).syncQueues : queue \in r.queues => r = OwnQueue(queue)
      BY <1>1, <2>1
    <3>4. RulesFor(c, queue) = {OwnQueue(queue)}
      BY <1>1, <3>2, <3>3 DEF RulesFor
    <3> QED
      BY <1>1, <3>1, <3>2, <3>4 DEF Owns
  <2> QED
    BY <2>2, <2>3, <2>4
<1>4. CASE c = "openshiftProject"
  <2>1. ConfigOf(c).syncQueues = {OwnQueue("KUBERNETES_SYNC_SECRETS")}
    BY <1>4 DEF ConfigOf, OpenshiftProject
  <2>2. CASE queue = "KUBERNETES_SYNC_SECRETS"
    <3>1. RulesFor(c, queue) = {OwnQueue(queue)} /\ OwnerOf(queue) = c
      BY <1>1, <1>4, <2>1, <2>2 DEF RulesFor, OwnerOf
    <3> QED
      BY <1>1, <2>1, <2>2, <3>1 DEF Owns
  <2>3. CASE queue # "KUBERNETES_SYNC_SECRETS"
    <3>1. \A r \in ConfigOf(c).syncQueues : queue \notin r.queues
      BY <1>1, <2>1, <2>3
    <3> QED
      BY <1>4, <2>3, <3>1 DEF Owns, OwnerOf, RulesFor
  <2> QED
    BY <2>2, <2>3
<1>5. ASSUME c # "repository", c # "openshiftProject",
             \A r \in ConfigOf(c).syncQueues :
                r.kind = "traverse" /\ r.maxDepth \in {4, 8} /\
                (queue \in r.queues => r.collection = OwnerOf(queue)),
             \A r, s \in ConfigOf(c).syncQueues :
                queue \in r.queues /\ queue \in s.queues => r = s
      PROVE  /\ Owns(c, queue) <=> c = OwnerOf(queue)
             /\ c = OwnerOf(queue) => RulesFor(c, queue) = {OwnQueue(queue)}
             /\ c # OwnerOf(queue) /\ RulesFor(c, queue) # {} =>
                   \E r : /\ RulesFor(c, queue) = {r} /\ r.kind = "traverse"
                          /\ r.collection = OwnerOf(queue) /\ r.maxDepth \in {4, 8}
  <2>1. c # OwnerOf(queue) /\ ~ Owns(c, queue)
    BY <1>5 DEF OwnerOf, Owns
  <2>2. ASSUME NEW r \in RulesFor(c, queue)
        PROVE  /\ RulesFor(c, queue) = {r} /\ r.kind = "traverse"
               /\ r.collection = OwnerOf(queue) /\ r.maxDepth \in {4, 8}
    BY <1>5 DEF RulesFor
  <2> QED
    BY <2>1, <2>2
<1>6. CASE c = "brokerAccount"
  <2>1. \A r \in ConfigOf(c).syncQueues : r = TraverseTo("repository", 8, {"GITHUB_SYNC_SECRETS"})
    BY <1>6 DEF ConfigOf, BrokerAccount
  <2> QED
    BY <1>2, <1>5, <1>6, <2>1 DEF OwnerOf
<1>7. CASE c = "team"
  <2>1. \A r \in ConfigOf(c).syncQueues :
           \/ r = TraverseTo("repository", 8, {"GITHUB_SYNC_SECRETS", "GITHUB_SYNC_USERS"})
           \/ r = TraverseTo("openshiftProject", 8, {"KUBERNETES_SYNC_SECRETS"})
    BY <1>7 DEF ConfigOf, Team
  <2>2. /\ \A r \in ConfigOf(c).syncQueues : r.kind = "traverse" /\ r.maxDepth \in {4, 8}
        /\ \A r \in ConfigOf(c).syncQueues : queue \in r.queues => r.collection = OwnerOf(queue)
    BY <1>2, <2>1 DEF OwnerOf
  <2>3. \A r, s \in ConfigOf(c).syncQueues : queue \in r.queues /\ queue \in s.queues => r = s
    BY <1>2, <2>1
  <2> QED
    BY <1>5, <1>7, <2>2, <2>3
<1>8. CASE c = "cloud"
  <2>1. \A r \in ConfigOf(c).syncQueues :
           r = TraverseTo("openshiftProject", 4, {"KUBERNETES_SYNC_SECRETS"})
    BY <1>8 DEF ConfigOf, Cloud
  <2> QED
    BY <1>2, <1>5, <1>8, <2>1 DEF OwnerOf
<1>9. CASE c \in {"environment", "project", "service", "serviceInstance", "user", "server"}
  <2>1. ConfigOf(c).syncQueues = {}
    BY <1>9 DEF ConfigOf, Environment, Project, Service, ServiceInstance, User, Server, NoSync
  <2> QED
    BY <1>5, <1>9, <2>1
<1> QED
  BY <1>3, <1>4, <1>6, <1>7, <1>8, <1>9 DEF Collections

-----------------------------------------------------------------------------
(* The targets of a vertex, from those that are found one pass further on. *)
PassedOn(w, queue, left, further) ==
    LET rules == RulesFor(CollectionOf[w], queue)
        rule == CHOOSE r \in rules : TRUE
    IN  IF Cardinality(rules) # 1 \/ left = 0 THEN {Unresolved}
        ELSE IF rule.kind = "queue" THEN {w}
        ELSE UNION {further[x] : x \in Downstream(w, rule.collection, rule.maxDepth)}

PassesOf(n, queue) ==
    LET targets[left \in 0 .. n] ==
          [w \in Vertices |-> PassedOn(w, queue, left, targets[left - 1])]
    IN  targets

LEMMA DownstreamVertices ==
  ASSUME Prototyped, NEW v, NEW c, NEW n \in Nat
  PROVE  Downstream(v, c, n) \subseteq Vertices
<1>1. Down(v, Unrestricted, n) \subseteq edges
  BY DownGrows DEF Unrestricted
<1> QED
  BY <1>1 DEF Downstream, Prototyped

LEMMA RuleDepths ==
  ASSUME NEW c \in Collections, NEW queue \in SyncQueueNames, Cardinality(RulesFor(c, queue)) = 1,
         (CHOOSE r \in RulesFor(c, queue) : TRUE).kind # "queue"
  PROVE  (CHOOSE r \in RulesFor(c, queue) : TRUE).maxDepth \in Nat
<1> DEFINE rule == CHOOSE r \in RulesFor(c, queue) : TRUE
<1>0. rule.kind # "queue"
  OBVIOUS
<1>1. RulesFor(c, queue) # {}
  BY FS_EmptySet
<1>2. c # OwnerOf(queue)
  <2> SUFFICES ASSUME c = OwnerOf(queue) PROVE FALSE
    OBVIOUS
  <2>1. RulesFor(c, queue) = {OwnQueue(queue)}
    BY RulesLeadToTheOwner
  <2>2. rule \in RulesFor(c, queue)
    BY <1>1
  <2>3. OwnQueue(queue).kind = "queue"
    BY DEF OwnQueue
  <2> HIDE DEF rule
  <2> QED
    BY <1>0, <2>1, <2>2, <2>3
<1>3. PICK r : RulesFor(c, queue) = {r} /\ r.maxDepth \in {4, 8}
  BY <1>1, <1>2, RulesLeadToTheOwner
<1> QED
  BY <1>3

LEMMA TargetsInSteps ==
  ASSUME Prototyped, NEW n \in Nat, NEW queue \in SyncQueueNames
  PROVE  \A k \in 0 .. n : \A w \in Vertices :
            PassesOf(n, queue)[k][w] = PassedOn(w, queue, k, PassesOf(n, queue)[k - 1])
<1> DEFINE X == [Vertices -> SUBSET (Vertices \cup {Unresolved})]
           next(k, further) == [w \in Vertices |-> PassedOn(w, queue, k, further)]
           a == [w \in Vertices |-> {Unresolved}]
           G == [k \in Nat |-> [further \in X |-> next(k, further)]]
<1>1. ASSUME NEW k \in Nat, NEW further \in X PROVE next(k, further) \in X
  <2> SUFFICES ASSUME NEW w \in Vertices
               PROVE  PassedOn(w, queue, k, further) \subseteq Vertices \cup {Unresolved}
    OBVIOUS
  <2>1. CollectionOf[w] \in Collections
    BY VerticesAreCollected
  <2> DEFINE rules == RulesFor(CollectionOf[w], queue)
             rule == CHOOSE r \in rules : TRUE
  <2>2. CASE Cardinality(rules) # 1 \/ k = 0
    BY <2>2 DEF PassedOn
  <2>3. CASE ~ (Cardinality(rules) # 1 \/ k = 0) /\ rule.kind = "queue"
    BY <2>3 DEF PassedOn
  <2>4. CASE ~ (Cardinality(rules) # 1 \/ k = 0) /\ rule.kind # "queue"
    <3>1. rule.maxDepth \in Nat
      BY <2>1, <2>4, RuleDepths
    <3>2. Downstream(w, rule.collection, rule.maxDepth) \subseteq Vertices
      BY <3>1, DownstreamVertices
    <3>3. PassedOn(w, queue, k, further) =
            UNION {further[x] : x \in Downstream(w, rule.collection, rule.maxDepth)}
      BY <2>4 DEF PassedOn
    <3> HIDE DEF rule
    <3> QED
      BY <3>2, <3>3
  <2> QED
    BY <2>2, <2>3, <2>4
<1>2. a \in X /\ G \in [Nat -> [X -> X]]
  <2>1. a \in X
    OBVIOUS
  <2> HIDE DEF X, next
  <2> QED
    BY <1>1, <2>1
<1>3. \A further : next(0, further) = a
  BY DEF PassedOn
<1>4. PICK f \in [Nat -> X] : f = [k \in Nat |-> IF k = 0 THEN a ELSE G[k][f[k - 1]]]
  <2> HIDE DEF X, G, a
  <2>1. PICK f \in [Nat -> X] : IsRecursion(f, a, G)
    BY <1>2, RecursionExists
  <2> QED
    BY <2>1 DEF IsRecursion
<1>5. \E g : g = [k \in 0 .. n |-> next(k, g[k - 1])]
  <2> DEFINE g == [k \in 0 .. n |-> f[k]]
  <2>1. ASSUME NEW k \in 0 .. n PROVE g[k] = next(k, g[k - 1])
    <3>0. g[k] = f[k]
      OBVIOUS
    <3>1. CASE k = 0
      <4>1. f[0] = a
        <5> HIDE DEF X, G, a
        <5> QED
          BY <1>4
      <4> HIDE DEF g, next, X, G, a
      <4> QED
        BY <1>3, <3>0, <3>1, <4>1
    <3>2. CASE k # 0
      <4>1. k \in Nat /\ k - 1 \in 0 .. n /\ k - 1 \in Nat
        BY <3>2
      <4>2. f[k - 1] \in X /\ g[k - 1] = f[k - 1]
        BY <4>1
      <4>3. f[k] = G[k][f[k - 1]]
        <5> HIDE DEF X, G, a
        <5> QED
          BY <1>4, <3>2, <4>1
      <4> HIDE DEF X, next, g
      <4> QED
        BY <3>0, <4>1, <4>2, <4>3
    <3> QED
      BY <3>1, <3>2
  <2>2. g = [k \in 0 .. n |-> g[k]]
    OBVIOUS
  <2> HIDE DEF g, next
  <2>3. g = [k \in 0 .. n |-> next(k, g[k - 1])]
    BY <2>1, <2>2
  <2> QED
    BY <2>3
<1> DEFINE t == CHOOSE g : g = [k \in 0 .. n |-> next(k, g[k - 1])]
<1>6. t = [k \in 0 .. n |-> next(k, t[k - 1])]
  <2> HIDE DEF next
  <2> QED
    BY <1>5
<1>7. PassesOf(n, queue) = t
  BY DEF PassesOf
<1> HIDE DEF t
<1>8. ASSUME NEW k \in 0 .. n PROVE t[k] = next(k, t[k - 1])
  <2> HIDE DEF next
  <2> QED
    BY <1>6
<1>9. ASSUME NEW k \in 0 .. n, NEW w \in Vertices PROVE t[k][w] = PassedOn(w, queue, k, t[k - 1])
  BY <1>8
<1> QED
  BY <1>7, <1>9

(* There are more collections than passes. *)
LEMMA CollectionsAreMany ==
  Cardinality(Collections) \in Nat /\ Cardinality(Collections) >= 2
<1>1. IsFiniteSet(Collections)
  <2> DEFINE s == <<"environment", "project", "service", "serviceInstance", "user",
                    "brokerAccount", "team", "server", "repository", "cloud", "openshiftProject">>
  <2>1. s \in Seq(Collections) /\ Len(s) = 11
    BY DEF Collections
  <2>2. /\ s[1] = "environment" /\ s[2] = "project" /\ s[3] = "service" /\ s[4] = "serviceInstance"
        /\ s[5] = "user" /\ s[6] = "brokerAccount" /\ s[7] = "team" /\ s[8] = "server"
        /\ s[9] = "repository" /\ s[10] = "cloud" /\ s[11] = "openshiftProject"
    OBVIOUS
  <2> HIDE DEF s
  <2>3. \A c \in Collections : \E i \in 1 .. Len(s) : s[i] = c
    BY <2>1, <2>2 DEF Collections
  <2> QED
    BY <2>1, <2>3 DEF IsFiniteSet
<1>2. Cardinality(Collections) \in Nat
  BY <1>1, FS_CardinalityType
<1>3. Cardinality(Collections) # 0
  BY <1>1, FS_EmptySet DEF Collections
<1>4. Cardinality(Collections) # 1
  <2>1. Cardinality(Collections) = 1 => \E c : Collections = {c}
    BY <1>1, FS_Singleton
  <2>2. "team" \in Collections /\ "user" \in Collections
    BY DEF Collections
  <2> QED
    BY <2>1, <2>2
<1> QED
  BY <1>2, <1>3, <1>4

(* No edge is followed from a vertex that has a queue. *)
LEMMA OwnersAreLowest ==
  ASSUME Prototyped, NEW v, CollectionOf[v] \in {"repository", "openshiftProject"}, NEW n \in Nat
  PROVE  Down(v, Unrestricted, n) = {}
<1> DEFINE D(k) == Down(v, Unrestricted, k)
           S == {k \in Nat : \A e : e \notin D(k)}
<1>1. ASSUME NEW e, e \in D(0) PROVE FALSE
  <2>1. e \in Unrestricted /\ e.from = v
    BY <1>1, DownStepByStep
  <2>2. Leads(CollectionOf[v], e.name, CollectionOf[e.to])
    BY <2>1, EdgesLead
  <2> QED
    BY <2>2 DEF Leads
<1>2. \A k \in Nat : \A e : e \in D(k + 1) => e \in D(k) \/ \E f : f \in D(k)
  BY DownStepByStep
<1> HIDE DEF D
<1>3. 0 \in S /\ S \in SUBSET Nat /\ \A k \in S : k + 1 \in S
  BY <1>1, <1>2
<1> HIDE DEF S
<1>4. n \in S
  BY <1>3, OneAfterTheOther
<1> QED
  BY <1>4 DEF S, D

(* The targets of a vertex whose collection has the queue, and of one that  *)
(* passes the request on.                                                    *)
LEMMA OwnersAreTargets ==
  ASSUME NEW v \in Vertices, NEW queue \in SyncQueueNames, NEW left \in Nat, left # 0, NEW further,
         CollectionOf[v] = OwnerOf(queue)
  PROVE  PassedOn(v, queue, left, further) = {v}
<1> DEFINE rules == RulesFor(CollectionOf[v], queue)
           rule == CHOOSE r \in rules : TRUE
<1>1. rules = {OwnQueue(queue)}
  BY VerticesAreCollected, RulesLeadToTheOwner
<1>2. Cardinality(rules) = 1
  BY <1>1, FS_Singleton
<1>3. rule \in rules
  BY <1>1
<1>4. OwnQueue(queue).kind = "queue"
  BY DEF OwnQueue
<1>5. PassedOn(v, queue, left, further) =
        IF Cardinality(rules) # 1 \/ left = 0 THEN {Unresolved}
        ELSE IF rule.kind = "queue" THEN {v}
        ELSE UNION {further[x] : x \in Downstream(v, rule.collection, rule.maxDepth)}
  BY DEF PassedOn
<1> HIDE DEF rule, rules
<1>6. rule.kind = "queue"
  BY <1>1, <1>3, <1>4
<1> QED
  BY <1>2, <1>5, <1>6

LEMMA OthersPassOn ==
  ASSUME NEW v \in Vertices, NEW queue \in SyncQueueNames, NEW left \in Nat, left # 0, NEW further,
         RulesFor(CollectionOf[v], queue) # {}, CollectionOf[v] # OwnerOf(queue)
  PROVE  \E depth \in {4, 8} :
            PassedOn(v, queue, left, further) =
               UNION {further[x] : x \in Downstream(v, OwnerOf(queue), depth)}
<1> DEFINE rules == RulesFor(CollectionOf[v], queue)
           rule == CHOOSE r \in rules : TRUE
<1>1. PICK r : /\ rules = {r} /\ r.kind = "traverse"
               /\ r.collection = OwnerOf(queue) /\ r.maxDepth \in {4, 8}
  BY VerticesAreCollected, RulesLeadToTheOwner
<1>2. Cardinality(rules) = 1 /\ rule = r
  BY <1>1, FS_Singleton
<1>3. PassedOn(v, queue, left, further) =
        IF Cardinality(rules) # 1 \/ left = 0 THEN {Unresolved}
        ELSE IF rule.kind = "queue" THEN {v}
        ELSE UNION {further[x] : x \in Downstream(v, rule.collection, rule.maxDepth)}
  BY DEF PassedOn
<1> HIDE DEF rule, rules
<1>4. PassedOn(v, queue, left, further) =
        UNION {further[x] : x \in Downstream(v, OwnerOf(queue), r.maxDepth)}
  BY <1>1, <1>2, <1>3
<1> QED
  BY <1>1, <1>4

(* A request finds the vertices below that have the queue, in every graph   *)
(* whose edges have their prototypes.                                        *)
LEMMA TargetsAreFound ==
  ASSUME Prototyped
  PROVE  RefreshFindsTargets
<1> SUFFICES ASSUME NEW v \in Joined, NEW queue \in SyncQueueNames,
                    RulesFor(CollectionOf[v], queue) # {}
             PROVE  QueueTargets(v, queue) =
                      {w \in Vertices : /\ Owns(CollectionOf[w], queue)
                                        /\ \/ w = v
                                           \/ \E e \in Down(v, Unrestricted, Cardinality(Vertices)) :
                                                 e.to = w}
  BY DEF RefreshFindsTargets
<1>1. v \in Vertices
  BY DEF Joined, Prototyped
<1>2. \A w \in Vertices : Owns(CollectionOf[w], queue) <=> CollectionOf[w] = OwnerOf(queue)
  BY VerticesAreCollected, RulesLeadToTheOwner
<1>3. PICK N \in Nat : N = Cardinality(Collections) /\ N >= 2
  BY CollectionsAreMany
<1>4. QueueTargets(v, queue) = PassesOf(N, queue)[N][v]
  BY <1>3 DEF QueueTargets, PassesOf, PassedOn
<1>5. PICK found : found = PassesOf(N, queue)
  OBVIOUS
<1>6. \A k \in 0 .. N : \A w \in Vertices : found[k][w] = PassedOn(w, queue, k, found[k - 1])
  BY <1>5, TargetsInSteps
<1>7. QueueTargets(v, queue) = PassedOn(v, queue, N, found[N - 1])
  BY <1>1, <1>3, <1>4, <1>5, <1>6
<1>8. Cardinality(Vertices) \in Nat
  BY VerticesAreCollected, FS_CardinalityType
<1>9. CASE CollectionOf[v] = OwnerOf(queue)
  <2>1. QueueTargets(v, queue) = {v}
    BY <1>1, <1>3, <1>7, <1>9, OwnersAreTargets
  <2>2. CollectionOf[v] \in {"repository", "openshiftProject"}
    BY <1>9 DEF OwnerOf
  <2>3. Down(v, Unrestricted, Cardinality(Vertices)) = {}
    BY <1>8, <2>2, OwnersAreLowest
  <2>4. Owns(CollectionOf[v], queue)
    BY <1>1, <1>2, <1>9
  <2> QED
    BY <1>1, <2>1, <2>3, <2>4
<1>10. CASE CollectionOf[v] # OwnerOf(queue)
  <2>1. PICK depth \in {4, 8} :
           QueueTargets(v, queue) =
              UNION {found[N - 1][x] : x \in Downstream(v, OwnerOf(queue), depth)}
    <3>1. N \in Nat /\ N # 0
      BY <1>3
    <3>2. PICK further : further = found[N - 1]
      OBVIOUS
    <3>3. \E depth \in {4, 8} :
             PassedOn(v, queue, N, further) =
                UNION {further[x] : x \in Downstream(v, OwnerOf(queue), depth)}
      BY <1>1, <1>10, <3>1, OthersPassOn
    <3> QED
      BY <1>7, <3>2, <3>3
  <2>2. ASSUME NEW x \in Downstream(v, OwnerOf(queue), depth)
        PROVE  found[N - 1][x] = {x}
    <3>1. x \in Vertices /\ CollectionOf[x] = OwnerOf(queue)
      BY DownstreamVertices DEF Downstream, In
    <3>2. N - 1 \in Nat /\ N - 1 # 0 /\ N - 1 \in 0 .. N
      BY <1>3
    <3> QED
      BY <1>6, <3>1, <3>2, OwnersAreTargets
  <2>3. QueueTargets(v, queue) = Downstream(v, OwnerOf(queue), depth)
    BY <2>1, <2>2
  <2>4. Down(v, Unrestricted, depth) = Down(v, Unrestricted, Cardinality(Vertices))
    BY <1>8, DownSettles
  <2>5. \A w : w \in Downstream(v, OwnerOf(queue), depth) <=>
                 /\ w \in Vertices /\ CollectionOf[w] = OwnerOf(queue)
                 /\ \E e \in Down(v, Unrestricted, Cardinality(Vertices)) : e.to = w
    BY <2>4, DownstreamVertices DEF Downstream, In
  <2> QED
    BY <1>2, <1>10, <2>3, <2>5
<1> QED
  BY <1>9, <1>10

-----------------------------------------------------------------------------
(* An edge that is found leaves the start or the end of one that is found. *)
LEMMA FoundFromFound ==
  ASSUME NEW v, NEW among, NEW n \in Nat
  PROVE  \A f \in Down(v, among, n) : f.from = v \/ \E g \in Down(v, among, n) : f.from = g.to
<1> DEFINE D(k) == Down(v, among, k)
           S == {k \in Nat : \A f : f \in D(k) => f.from = v \/ \E g : g \in D(k) /\ f.from = g.to}
<1>1. /\ \A e : e \in D(0) <=> e \in among /\ e.from = v
      /\ \A k \in Nat : \A e :
            e \in D(k + 1) <=>
               \/ e \in D(k)
               \/ e \in among /\ \E f \in D(k) : e.from = f.to
  BY DownStepByStep
<1> HIDE DEF D
<1>2. 0 \in S /\ S \in SUBSET Nat /\ \A k \in S : k + 1 \in S
  BY <1>1
<1> HIDE DEF S
<1>3. n \in S
  BY <1>2, OneAfterTheOther
<1> QED
  BY <1>3 DEF S, D

(* A user who has one role in one team and no other: the edges found from   *)
(* the team are those found from the user, one deeper.                       *)
LEMMA RoleThenTeam ==
  ASSUME Prototyped, NEW e \in edges, In(e.from, "user"), {f \in edges : f.from = e.from} = {e}
  PROVE  /\ ByDepth(e.from, Unrestricted)[1] = {e}
         /\ \A k \in 1 .. 4 : ByDepth(e.from, Unrestricted)[k + 1] = ByDepth(e.to, Unrestricted)[k]
<1> DEFINE u == e.from
           t == e.to
           U(k) == Down(u, Unrestricted, k)
           D(k) == Down(t, Unrestricted, k)
<1>1. e \in Unrestricted
  BY EdgesLead DEF In
<1>2. \A f \in Unrestricted : f.from = u => f = e
  BY DEF Unrestricted
<1>3. \A f \in Unrestricted : CollectionOf[f.to] # "user"
  BY EdgesLead DEF Leads
<1>4. CollectionOf[u] = "user" /\ CollectionOf[t] # "user"
  BY <1>1, <1>3 DEF In
<1>5. /\ \A f : f \in U(0) <=> f \in Unrestricted /\ f.from = u
      /\ \A k \in Nat : \A f :
            f \in U(k + 1) <=>
               \/ f \in U(k)
               \/ f \in Unrestricted /\ \E g \in U(k) : f.from = g.to
  BY DownStepByStep
<1>6. /\ \A f : f \in D(0) <=> f \in Unrestricted /\ f.from = t
      /\ \A k \in Nat : \A f :
            f \in D(k + 1) <=>
               \/ f \in D(k)
               \/ f \in Unrestricted /\ \E g \in D(k) : f.from = g.to
  BY DownStepByStep
<1>7. \A k \in Nat : e \notin D(k)
  <2> SUFFICES ASSUME NEW k \in Nat, e \in D(k) PROVE FALSE
    OBVIOUS
  <2>1. e.from = t \/ \E g \in D(k) : e.from = g.to
    BY FoundFromFound
  <2>2. D(k) \subseteq Unrestricted
    BY DownGrows
  <2> HIDE DEF D
  <2> QED
    BY <1>3, <1>4, <2>1, <2>2
<1>8. \A f : f \in U(0) <=> f = e
  BY <1>1, <1>2, <1>5
<1> HIDE DEF U, D
<1> DEFINE S == {k \in Nat : \A f : f \in U(k + 1) <=> f = e \/ f \in D(k)}
<1>9. 0 \in S
  <2> SUFFICES ASSUME NEW f PROVE f \in U(1) <=> f = e \/ f \in D(0)
    OBVIOUS
  <2>1. f \in U(1) <=> f \in U(0) \/ (f \in Unrestricted /\ \E g \in U(0) : f.from = g.to)
    <3>1. 0 \in Nat /\ 0 + 1 = 1
      OBVIOUS
    <3> QED
      BY <1>5, <3>1
  <2> QED
    BY <1>6, <1>8, <2>1
<1>10. ASSUME NEW k \in S PROVE k + 1 \in S
  <2> SUFFICES ASSUME NEW f PROVE f \in U((k + 1) + 1) <=> f = e \/ f \in D(k + 1)
    OBVIOUS
  <2>1. k + 1 \in Nat /\ k \in Nat /\ \A g : g \in U(k + 1) <=> g = e \/ g \in D(k)
    OBVIOUS
  <2>2. f \in U((k + 1) + 1) <=>
           f \in U(k + 1) \/ (f \in Unrestricted /\ \E g \in U(k + 1) : f.from = g.to)
    BY <1>5, <2>1
  <2>3. f \in D(k + 1) <=> f \in D(k) \/ (f \in Unrestricted /\ \E g \in D(k) : f.from = g.to)
    BY <1>6, <2>1
  <2>4. f \in Unrestricted /\ f.from = e.to => f \in D(k)
    <3>1. f \in Unrestricted /\ f.from = e.to => f \in Down(t, Unrestricted, 0)
      BY <1>6 DEF D
    <3>2. Down(t, Unrestricted, 0) \subseteq Down(t, Unrestricted, k)
      BY <2>1, DownGrows
    <3> QED
      BY <3>1, <3>2 DEF D
  <2> HIDE DEF S
  <2> QED
    BY <2>1, <2>2, <2>3, <2>4
<1>11. \A k \in Nat : \A f : f \in U(k + 1) <=> f = e \/ f \in D(k)
  <2>1. S \in SUBSET Nat
    OBVIOUS
  <2> HIDE DEF S
  <2>2. S = Nat
    BY <1>9, <1>10, <2>1, OneAfterTheOther
  <2> QED
    BY <2>2 DEF S
<1>12. ByDepth(u, Unrestricted)[1] = {e}
  <2>1. \A f : f \in ByDepth(u, Unrestricted)[1] <=> f \in U(0)
    <3>1. 1 \in 1 .. 5 /\ 1 - 1 = 0
      OBVIOUS
    <3> QED
      BY <3>1, ByDepthIs DEF U
  <2> QED
    BY <1>8, <2>1
<1>13. ASSUME NEW k \in 1 .. 4
       PROVE  ByDepth(u, Unrestricted)[k + 1] = ByDepth(t, Unrestricted)[k]
  <2> SUFFICES ASSUME NEW f
               PROVE  f \in ByDepth(u, Unrestricted)[k + 1] <=> f \in ByDepth(t, Unrestricted)[k]
    OBVIOUS
  <2>1. /\ k + 1 \in 1 .. 5 /\ k \in 1 .. 5 /\ (k + 1) - 1 = k /\ (k + 1) - 2 = k - 1
        /\ k + 1 # 1 /\ k - 1 \in Nat /\ (k - 1) + 1 = k
    OBVIOUS
  <2>2. f \in ByDepth(u, Unrestricted)[k + 1] <=> f \in U(k) /\ f \notin U(k - 1)
    BY <2>1, ByDepthIs DEF U
  <2>3. f \in ByDepth(t, Unrestricted)[k] <=> f \in D(k - 1) /\ (k # 1 => f \notin D(k - 2))
    BY <2>1, ByDepthIs DEF D
  <2>4. f \in U(k) <=> f = e \/ f \in D(k - 1)
    BY <1>11, <2>1
  <2>5. CASE k = 1
    <3>1. f \in U(k - 1) <=> f = e
      BY <1>8, <2>5
    <3> QED
      BY <1>7, <2>1, <2>2, <2>3, <2>4, <2>5, <3>1
  <2>6. CASE k # 1
    <3>1. k - 2 \in Nat /\ (k - 2) + 1 = k - 1
      BY <2>6
    <3>2. f \in U(k - 1) <=> f = e \/ f \in D(k - 2)
      BY <1>11, <3>1
    <3> QED
      BY <1>7, <2>1, <2>2, <2>3, <2>4, <2>6, <3>2
  <2> QED
    BY <2>5, <2>6
<1> QED
  BY <1>12, <1>13

(* What a path reaches from the team, behind an edge that is made up, is    *)
(* what it reaches from the user who has that role.                          *)
Previewed(t, role) ==
    LET made == [from |-> t, name |-> role, to |-> t]
    IN  <<{made}>> \o ByDepth(t, Unrestricted)

LEMMA PreviewIs ==
  ASSUME NEW t, NEW role
  PROVE  /\ Previewed(t, role)[1] = {[from |-> t, name |-> role, to |-> t]}
         /\ \A k \in 1 .. 4 : Previewed(t, role)[k + 1] = ByDepth(t, Unrestricted)[k]
<1> DEFINE at == ByDepth(t, Unrestricted)
           D(n) == Down(t, Unrestricted, n)
<1>1. at = <<D(0) \ {}, D(1) \ D(0), D(2) \ D(1), D(3) \ D(2), D(4) \ D(3)>>
  <2>1. /\ 1 - 1 = 0 /\ 2 - 1 = 1 /\ 3 - 1 = 2 /\ 4 - 1 = 3
    OBVIOUS
  <2> QED
    BY <2>1 DEF ByDepth
<1> HIDE DEF D
<1>2. at = <<at[1], at[2], at[3], at[4], at[5]>>
  BY <1>1
<1>3. PICK made : made = {[from |-> t, name |-> role, to |-> t]}
  OBVIOUS
<1>4. Previewed(t, role) = <<made>> \o at
  BY <1>3 DEF Previewed
<1> HIDE DEF at
<1>5. PICK a, b, c, d, f : at = <<a, b, c, d, f>>
  BY <1>2
<1> DEFINE A == {made, a, b, c, d, f}
<1>6. <<made>> \in Seq(A) /\ at \in Seq(A) /\ Len(at) = 5 /\ Len(<<made>>) = 1 /\ <<made>>[1] = made
  BY <1>5
<1> HIDE DEF A
<1>7. Previewed(t, role)[1] = made
  BY <1>4, <1>6
<1>8. ASSUME NEW k \in 1 .. 4 PROVE Previewed(t, role)[k + 1] = at[k]
  BY <1>4, <1>6
<1> QED
  BY <1>3, <1>7, <1>8 DEF at

LEMMA PreviewReaches ==
  ASSUME Prototyped, NEW e \in edges, In(e.from, "user"), {f \in edges : f.from = e.from} = {e},
         NEW path \in PermissionPaths, NEW k \in 1 .. Len(path)
  PROVE  \A w : w \in Reached(path, e.from, ByDepth(e.from, Unrestricted))[k] <=>
                   /\ path[1].name = e.name
                   /\ w \in Reached(path, e.to, Previewed(e.to, e.name))[k]
<1> DEFINE at == ByDepth(e.from, Unrestricted)
           pr == Previewed(e.to, e.name)
           R == Reached(path, e.from, at)
           P == Reached(path, e.to, pr)
           made == [from |-> e.to, name |-> e.name, to |-> e.to]
<1>1. PICK n \in 1 .. 5 : n = Len(path)
  BY PathsAreShort DEF IsPath
<1>2. /\ \A w : w \in R[0] <=> w = e.from
      /\ \A j \in 1 .. n : \A w :
            w \in R[j] <=> \E f \in at[j] : /\ f.name = path[j].name /\ In(f.to, path[j].to)
                                            /\ f.from \in R[j - 1] /\ f.to = w
  <2>1. Len(path) \in Nat
    BY <1>1
  <2>2. /\ \A w : w \in R[0] <=> w = e.from
        /\ \A j \in 1 .. Len(path) : \A w :
              w \in R[j] <=> \E f \in at[j] : /\ f.name = path[j].name /\ In(f.to, path[j].to)
                                              /\ f.from \in R[j - 1] /\ f.to = w
    BY <2>1, ReachedStepByStep
  <2> QED
    BY <1>1, <2>2
<1>3. /\ \A w : w \in P[0] <=> w = e.to
      /\ \A j \in 1 .. n : \A w :
            w \in P[j] <=> \E f \in pr[j] : /\ f.name = path[j].name /\ In(f.to, path[j].to)
                                            /\ f.from \in P[j - 1] /\ f.to = w
  <2>1. Len(path) \in Nat
    BY <1>1
  <2>2. /\ \A w : w \in P[0] <=> w = e.to
        /\ \A j \in 1 .. Len(path) : \A w :
              w \in P[j] <=> \E f \in pr[j] : /\ f.name = path[j].name /\ In(f.to, path[j].to)
                                              /\ f.from \in P[j - 1] /\ f.to = w
    BY <2>1, ReachedStepByStep
  <2> QED
    BY <1>1, <2>2
<1>4. at[1] = {e} /\ pr[1] = {made} /\ \A j \in 1 .. 4 : at[j + 1] = pr[j + 1]
  BY RoleThenTeam, PreviewIs
<1>5. made.from = e.to /\ made.name = e.name /\ made.to = e.to
  OBVIOUS
<1> HIDE DEF at, pr, R, P, made
<1> DEFINE S == {j \in Nat : j + 1 <= n =>
                   \A w : w \in R[j + 1] <=> path[1].name = e.name /\ w \in P[j + 1]}
<1>6. 0 \in S
  <2> SUFFICES ASSUME NEW w PROVE w \in R[1] <=> path[1].name = e.name /\ w \in P[1]
    OBVIOUS
  <2>1. 1 \in 1 .. n /\ 1 - 1 = 0
    OBVIOUS
  <2>2. w \in R[1] <=> e.name = path[1].name /\ In(e.to, path[1].to) /\ e.to = w
    BY <1>2, <1>4, <2>1
  <2>3. w \in P[1] <=> e.name = path[1].name /\ In(e.to, path[1].to) /\ e.to = w
    BY <1>3, <1>4, <1>5, <2>1
  <2> QED
    BY <2>2, <2>3
<1>7. ASSUME NEW j \in S PROVE j + 1 \in S
  <2> SUFFICES ASSUME (j + 1) + 1 <= n, NEW w
               PROVE  w \in R[(j + 1) + 1] <=> path[1].name = e.name /\ w \in P[(j + 1) + 1]
    OBVIOUS
  <2>1. /\ (j + 1) + 1 \in 1 .. n /\ ((j + 1) + 1) - 1 = j + 1 /\ j + 1 \in 1 .. 4 /\ j + 1 <= n
    OBVIOUS
  <2>2. \A x : x \in R[j + 1] <=> path[1].name = e.name /\ x \in P[j + 1]
    BY <2>1
  <2> HIDE DEF S
  <2>3. PICK i \in 2 .. 5 : i = (j + 1) + 1 /\ i \in 1 .. n /\ i - 1 = j + 1 /\ at[i] = pr[i]
    <3>1. (j + 1) + 1 \in 2 .. 5
      BY <2>1
    <3> QED
      BY <1>4, <2>1, <3>1
  <2>4. \A x : x \in R[i - 1] <=> path[1].name = e.name /\ x \in P[i - 1]
    BY <2>2, <2>3
  <2>5. w \in R[i] <=> \E f \in at[i] : /\ f.name = path[i].name /\ In(f.to, path[i].to)
                                        /\ f.from \in R[i - 1] /\ f.to = w
    BY <1>2, <2>3
  <2>6. i \in 1 .. n
    BY <2>3
  <2>7. w \in P[i] <=> \E f \in at[i] : /\ f.name = path[i].name /\ In(f.to, path[i].to)
                                        /\ f.from \in P[i - 1] /\ f.to = w
    <3>1. w \in P[i] <=> \E f \in pr[i] : /\ f.name = path[i].name /\ In(f.to, path[i].to)
                                          /\ f.from \in P[i - 1] /\ f.to = w
      <4>1. \A m \in 1 .. n : \A x :
               x \in P[m] <=> \E f \in pr[m] : /\ f.name = path[m].name /\ In(f.to, path[m].to)
                                               /\ f.from \in P[m - 1] /\ f.to = x
        BY <1>3
      <4> QED
        BY <2>6, <4>1, Zenon
    <3>2. at[i] = pr[i]
      BY <2>3
    <3> QED
      BY <3>1, <3>2
  <2>8. w \in R[i] <=> path[1].name = e.name /\ w \in P[i]
    BY <2>4, <2>5, <2>7
  <2> QED
    BY <2>3, <2>8
<1>8. S = Nat
  <2>1. S \in SUBSET Nat
    OBVIOUS
  <2> HIDE DEF S
  <2> QED
    BY <1>6, <1>7, <2>1, OneAfterTheOther
<1>9. PICK j \in Nat : j + 1 = k /\ j + 1 <= n
  <2>1. k - 1 \in Nat /\ (k - 1) + 1 = k /\ k <= n
    BY <1>1
  <2> QED
    BY <2>1
<1>10. \A w : w \in R[k] <=> path[1].name = e.name /\ w \in P[k]
  BY <1>8, <1>9
<1> QED
  BY <1>10 DEF R, P, at, pr

LEMMA PreviewIsWhatUsersHave ==
  ASSUME Prototyped, NEW e \in edges, In(e.from, "user"), {f \in edges : f.from = e.from} = {e}
  PROVE  UserPermissions(e.from) = TeamUserPermissions(e.to, e.name)
<1> DEFINE R(path) == Reached(path, e.from, ByDepth(e.from, Unrestricted))
           P(path) == Reached(path, e.to, Previewed(e.to, e.name))
           named == {path \in PermissionPaths : path[1].name = e.name}
<1>1. \A x : x \in UserPermissions(e.from) <=>
         \E path \in PermissionPaths : \E k \in 1 .. Len(path) :
            path[k].grants # {} /\ x \in path[k].grants \X R(path)[k]
  BY CollectedAlongPaths DEF UserPermissions, PermissionsAmong
<1>2. \A x : x \in TeamUserPermissions(e.to, e.name) <=>
         \E path \in named : \E k \in 1 .. Len(path) :
            path[k].grants # {} /\ x \in path[k].grants \X P(path)[k]
  BY CollectedAlongPaths DEF TeamUserPermissions, Previewed
<1>3. \A path \in PermissionPaths : \A k \in 1 .. Len(path) : \A w :
         w \in R(path)[k] <=> path[1].name = e.name /\ w \in P(path)[k]
  BY PreviewReaches
<1> HIDE DEF R, P
<1>4. ASSUME NEW x PROVE x \in UserPermissions(e.from) => x \in TeamUserPermissions(e.to, e.name)
  <2> SUFFICES ASSUME x \in UserPermissions(e.from) PROVE x \in TeamUserPermissions(e.to, e.name)
    OBVIOUS
  <2>1. PICK path \in PermissionPaths : \E k \in 1 .. Len(path) :
           path[k].grants # {} /\ x \in path[k].grants \X R(path)[k]
    BY <1>1
  <2>2. PICK k \in 1 .. Len(path) : path[k].grants # {} /\ x \in path[k].grants \X R(path)[k]
    BY <2>1
  <2>3. path[1].name = e.name /\ x \in path[k].grants \X P(path)[k]
    BY <1>3, <2>2
  <2> QED
    BY <1>2, <2>2, <2>3
<1>5. ASSUME NEW x PROVE x \in TeamUserPermissions(e.to, e.name) => x \in UserPermissions(e.from)
  <2> SUFFICES ASSUME x \in TeamUserPermissions(e.to, e.name) PROVE x \in UserPermissions(e.from)
    OBVIOUS
  <2>1. PICK path \in named : \E k \in 1 .. Len(path) :
           path[k].grants # {} /\ x \in path[k].grants \X P(path)[k]
    BY <1>2
  <2>2. PICK k \in 1 .. Len(path) : path[k].grants # {} /\ x \in path[k].grants \X P(path)[k]
    BY <2>1
  <2>3. x \in path[k].grants \X R(path)[k]
    BY <1>3, <2>2
  <2> QED
    BY <1>1, <2>2, <2>3
<1> QED
  BY <1>4, <1>5

-----------------------------------------------------------------------------
(* How the services of an account are found: authorized, or as a component  *)
(* of a project that is.                                                     *)
LEMMA ServicesOfAnAccount ==
  ASSUME Prototyped, NEW a, In(a, "brokerAccount"), NEW s \in AccountServices(a)
  PROVE  /\ In(s, "service")
         /\ \/ \E f \in Unrestricted : f.name = "authorized" /\ f.from = a /\ f.to = s
            \/ \E g \in Unrestricted : \E f \in Unrestricted :
                  /\ g.name = "authorized" /\ g.from = a /\ In(g.to, "project")
                  /\ f.name = "component" /\ f.from = g.to /\ f.to = s
<1> DEFINE among == {e \in Unrestricted : CollectionOf[e.to] \in {"service", "project"}}
           F == Down(a, among, 2)
<1>1. F \subseteq among /\ among \subseteq Unrestricted
  BY DownGrows
<1>2. \A f \in F : f.from = a \/ \E g \in F : f.from = g.to
  BY FoundFromFound
<1>3. PICK f \in F : f.to = s /\ In(f.to, "service")
  BY DEF AccountServices
<1>4. \A e \in F : CollectionOf[e.to] \in {"service", "project"}
  BY <1>1
<1>5. \A e \in F : e \in Unrestricted /\ Leads(CollectionOf[e.from], e.name, CollectionOf[e.to])
  BY <1>1, EdgesLead
<1> HIDE DEF F, among
<1>6. \A e \in F : CollectionOf[e.from] = "brokerAccount" => e.from = a /\ e.name = "authorized"
  BY <1>2, <1>4, <1>5 DEF Leads
<1>7. \A e \in F : In(e.to, "project") => CollectionOf[e.from] = "brokerAccount"
  BY <1>5 DEF Leads, In
<1>8. CASE CollectionOf[f.from] = "brokerAccount"
  BY <1>3, <1>5, <1>6, <1>8
<1>9. CASE CollectionOf[f.from] # "brokerAccount"
  <2>1. CollectionOf[f.from] = "project" /\ f.name = "component"
    BY <1>3, <1>5, <1>9 DEF Leads, In
  <2>2. PICK g \in F : f.from = g.to
    BY <1>2, <2>1 DEF In
  <2>3. In(g.to, "project")
    BY <2>1, <2>2 DEF In
  <2>4. g.from = a /\ g.name = "authorized"
    BY <1>6, <1>7, <2>3
  <2> QED
    BY <1>3, <1>5, <2>1, <2>2, <2>3, <2>4
<1> QED
  BY <1>8, <1>9

(* Where the edges below a team are found. *)
LEMMA DepthsBelowTeams ==
  ASSUME Prototyped, NEW t, In(t, "team"), NEW o \in Unrestricted, o.from = t, o.name = "owns"
  PROVE  /\ In(o.to, "brokerAccount")
         /\ o \in ByDepth(t, Unrestricted)[1]
         /\ \A f \in Unrestricted : f.from = o.to =>
               /\ f \in ByDepth(t, Unrestricted)[2]
               /\ \A g \in Unrestricted : g.from = f.to /\ In(f.to, "project") =>
                     g \in ByDepth(t, Unrestricted)[3]
<1> DEFINE D(k) == Down(t, Unrestricted, k)
<1>1. \A e \in Unrestricted : Leads(CollectionOf[e.from], e.name, CollectionOf[e.to])
  BY EdgesLead
<1>2. In(o.to, "brokerAccount")
  BY <1>1 DEF Leads, In
<1>0. /\ \A f : f \in D(0) <=> f \in Unrestricted /\ f.from = t
      /\ \A k \in Nat : \A f :
            f \in D(k + 1) <=>
               \/ f \in D(k)
               \/ f \in Unrestricted /\ \E g \in D(k) : f.from = g.to
  BY DownStepByStep
<1>3. \A f : f \in D(0) <=> f \in Unrestricted /\ f.from = t
  BY <1>0
<1>4. /\ \A f : f \in D(1) <=> f \in D(0) \/ (f \in Unrestricted /\ \E g \in D(0) : f.from = g.to)
      /\ \A f : f \in D(2) <=> f \in D(1) \/ (f \in Unrestricted /\ \E g \in D(1) : f.from = g.to)
  <2>1. 0 \in Nat /\ 1 \in Nat /\ 0 + 1 = 1 /\ 1 + 1 = 2
    OBVIOUS
  <2> HIDE DEF D
  <2>3. /\ \A f : f \in D(0 + 1) <=> f \in D(0) \/ (f \in Unrestricted /\ \E g \in D(0) : f.from = g.to)
        /\ \A f : f \in D(1 + 1) <=> f \in D(1) \/ (f \in Unrestricted /\ \E g \in D(1) : f.from = g.to)
    BY <1>0, <2>1
  <2> QED
    BY <2>1, <2>3
<1>5. /\ \A e : e \in ByDepth(t, Unrestricted)[1] <=> e \in D(0)
      /\ \A e : e \in ByDepth(t, Unrestricted)[2] <=> e \in D(1) /\ e \notin D(0)
      /\ \A e : e \in ByDepth(t, Unrestricted)[3] <=> e \in D(2) /\ e \notin D(1)
  <2>1. /\ 1 \in 1 .. 5 /\ 2 \in 1 .. 5 /\ 3 \in 1 .. 5 /\ 1 - 1 = 0 /\ 2 - 1 = 1 /\ 2 - 2 = 0
        /\ 3 - 1 = 2 /\ 3 - 2 = 1 /\ 2 # 1 /\ 3 # 1
    OBVIOUS
  <2> QED
    BY <2>1, ByDepthIs
<1> HIDE DEF D
<1>6. ASSUME NEW f \in Unrestricted, f.from = o.to PROVE f \in D(1) /\ f \notin D(0)
  BY <1>2, <1>3, <1>4, <1>6 DEF In
<1>7. ASSUME NEW f \in Unrestricted, f.from = o.to, NEW g \in Unrestricted, g.from = f.to,
             In(f.to, "project")
      PROVE  g \in D(2) /\ g \notin D(1)
  <2>1. g \in D(2)
    BY <1>4, <1>6, <1>7
  <2>2. g \notin D(0)
    BY <1>3, <1>7 DEF In
  <2>3. \A h \in D(0) : CollectionOf[h.to] # "project"
    BY <1>1, <1>3 DEF Leads, In
  <2> QED
    BY <1>4, <1>7, <2>1, <2>2, <2>3 DEF In
<1> QED
  BY <1>2, <1>3, <1>5, <1>6, <1>7

LEMMA PreviewedAlongPaths ==
  ASSUME NEW t, NEW role, NEW x
  PROVE  x \in TeamUserPermissions(t, role) <=>
            \E path \in {p \in PermissionPaths : p[1].name = role} : \E k \in 1 .. Len(path) :
               path[k].grants # {} /\ x \in path[k].grants \X Reached(path, t, Previewed(t, role))[k]
BY CollectedAlongPaths DEF TeamUserPermissions, Previewed

(* A lead developer may update every service of an account of the team. *)
LEMMA LeadDevelopersUpdate ==
  ASSUME Prototyped, NEW t, In(t, "team"), NEW o \in edges, o.from = t, o.name = "owns",
         NEW s \in AccountServices(o.to)
  PROVE  <<"update", s>> \in TeamUserPermissions(t, "lead-developer")
<1> DEFINE role == "lead-developer"
           at == ByDepth(t, Unrestricted)
           pr == Previewed(t, role)
           made == [from |-> t, name |-> role, to |-> t]
           named == {path \in PermissionPaths : path[1].name = role}
           R(path) == Reached(path, t, pr)
<1>1. \A x : x \in TeamUserPermissions(t, role) <=>
         \E path \in named : \E k \in 1 .. Len(path) :
            path[k].grants # {} /\ x \in path[k].grants \X R(path)[k]
  BY PreviewedAlongPaths
<1>2. pr[1] = {made} /\ pr[2] = at[1] /\ pr[3] = at[2] /\ pr[4] = at[3]
  <2>1. \A k \in 1 .. 4 : pr[k + 1] = at[k]
    BY PreviewIs
  <2>2. 1 + 1 = 2 /\ 2 + 1 = 3 /\ 3 + 1 = 4 /\ 1 \in 1 .. 4 /\ 2 \in 1 .. 4 /\ 3 \in 1 .. 4
    OBVIOUS
  <2> HIDE DEF pr, at
  <2>3. pr[1 + 1] = at[1] /\ pr[2 + 1] = at[2] /\ pr[3 + 1] = at[3]
    BY <2>1, <2>2
  <2>4. pr[1] = {made}
    BY PreviewIs DEF pr
  <2> QED
    BY <2>2, <2>3, <2>4
<1>3. made.from = t /\ made.name = role /\ made.to = t
  OBVIOUS
<1>4. o \in Unrestricted
  BY EdgesLead
<1>5. /\ In(o.to, "brokerAccount") /\ o \in at[1]
      /\ \A f \in Unrestricted : f.from = o.to =>
            /\ f \in at[2]
            /\ \A g \in Unrestricted : g.from = f.to /\ In(f.to, "project") => g \in at[3]
  BY <1>4, DepthsBelowTeams
<1>6. /\ In(s, "service")
      /\ \/ \E f \in Unrestricted : f.name = "authorized" /\ f.from = o.to /\ f.to = s
         \/ \E g \in Unrestricted : \E f \in Unrestricted :
               /\ g.name = "authorized" /\ g.from = o.to /\ In(g.to, "project")
               /\ f.name = "component" /\ f.from = g.to /\ f.to = s
  BY <1>5, ServicesOfAnAccount
<1>7. \A name, to, grants : /\ Via(name, to, grants).name = name /\ Via(name, to, grants).to = to
                            /\ Via(name, to, grants).grants = grants
  BY DEF Via
<1>8. \A path : Len(path) \in Nat =>
         /\ \A w : w \in R(path)[0] <=> w = t
         /\ \A k \in 1 .. Len(path) : \A w :
               w \in R(path)[k] <=> \E e \in pr[k] : /\ e.name = path[k].name /\ In(e.to, path[k].to)
                                                     /\ e.from \in R(path)[k - 1] /\ e.to = w
  BY ReachedStepByStep
<1> HIDE DEF at, pr, made, R
<1>9. ASSUME NEW path, Len(path) \in {4, 5},
             path[1].name = role, path[1].to = "team",
             path[2].name = "owns", path[2].to = "brokerAccount",
             path[3].name = "authorized"
      PROVE  /\ o.to \in R(path)[2]
             /\ \A f \in Unrestricted :
                   /\ f.name = "authorized" /\ f.from = o.to /\ In(f.to, path[3].to) => f.to \in R(path)[3]
  <2>1. /\ \A w : w \in R(path)[0] <=> w = t
        /\ \A w : w \in R(path)[1] <=> \E e \in pr[1] : /\ e.name = path[1].name /\ In(e.to, path[1].to)
                                                        /\ e.from \in R(path)[0] /\ e.to = w
        /\ \A w : w \in R(path)[2] <=> \E e \in pr[2] : /\ e.name = path[2].name /\ In(e.to, path[2].to)
                                                        /\ e.from \in R(path)[1] /\ e.to = w
        /\ \A w : w \in R(path)[3] <=> \E e \in pr[3] : /\ e.name = path[3].name /\ In(e.to, path[3].to)
                                                        /\ e.from \in R(path)[2] /\ e.to = w
    <3>1. /\ 1 \in 1 .. Len(path) /\ 2 \in 1 .. Len(path) /\ 3 \in 1 .. Len(path)
          /\ 1 - 1 = 0 /\ 2 - 1 = 1 /\ 3 - 1 = 2 /\ Len(path) \in Nat
      BY <1>9
    <3> QED
      BY <1>8, <3>1
  <2>2. t \in R(path)[1]
    BY <1>2, <1>3, <1>9, <2>1
  <2>3. o.to \in R(path)[2]
    BY <1>2, <1>5, <1>9, <2>1, <2>2
  <2> QED
    BY <1>2, <1>5, <1>9, <2>1, <2>3
<1>10. CASE \E f \in Unrestricted : f.name = "authorized" /\ f.from = o.to /\ f.to = s
  <2> DEFINE path == <<Via(role, "team", Nothing), Via("owns", "brokerAccount", Nothing),
                       Via("authorized", "service", {"sudo", "update"}),
                       Via("instance", "serviceInstance", {"update"})>>
  <2>1. path \in PermissionPaths
    BY DEF PermissionPaths, DeveloperPaths
  <2>2. /\ Len(path) = 4 /\ path[1].name = role /\ path[1].to = "team"
        /\ path[2].name = "owns" /\ path[2].to = "brokerAccount"
        /\ path[3].name = "authorized" /\ path[3].to = "service" /\ path[3].grants = {"sudo", "update"}
    BY <1>7
  <2> HIDE DEF path
  <2>3. s \in R(path)[3]
    BY <1>6, <1>9, <1>10, <2>2
  <2>4. path \in named /\ 3 \in 1 .. Len(path) /\ path[3].grants # {}
        /\ <<"update", s>> \in path[3].grants \X R(path)[3]
    BY <2>1, <2>2, <2>3
  <2> QED
    BY <1>1, <2>4
<1>11. CASE \E g \in Unrestricted : \E f \in Unrestricted :
               /\ g.name = "authorized" /\ g.from = o.to /\ In(g.to, "project")
               /\ f.name = "component" /\ f.from = g.to /\ f.to = s
  <2> DEFINE path == <<Via(role, "team", {"update"}), Via("owns", "brokerAccount", {"sudo"}),
                       Via("authorized", "project", {"update"}),
                       Via("component", "service", {"sudo", "update"}),
                       Via("instance", "serviceInstance", {"update"})>>
  <2>1. path \in PermissionPaths
    BY DEF PermissionPaths, DeveloperPaths
  <2>2. /\ Len(path) = 5 /\ path[1].name = role /\ path[1].to = "team"
        /\ path[2].name = "owns" /\ path[2].to = "brokerAccount"
        /\ path[3].name = "authorized" /\ path[3].to = "project"
        /\ path[4].name = "component" /\ path[4].to = "service" /\ path[4].grants = {"sudo", "update"}
    BY <1>7
  <2> HIDE DEF path
  <2>3. PICK g \in Unrestricted : \E f \in Unrestricted :
               /\ g.name = "authorized" /\ g.from = o.to /\ In(g.to, "project")
               /\ f.name = "component" /\ f.from = g.to /\ f.to = s
    BY <1>11
  <2>4. PICK f \in Unrestricted :
               /\ g.name = "authorized" /\ g.from = o.to /\ In(g.to, "project")
               /\ f.name = "component" /\ f.from = g.to /\ f.to = s
    BY <2>3
  <2>5. g.to \in R(path)[3]
    BY <1>9, <2>2, <2>4
  <2>6. f \in pr[4]
    BY <1>2, <1>5, <2>4
  <2>7. \A w : w \in R(path)[4] <=> \E e \in pr[4] : /\ e.name = path[4].name /\ In(e.to, path[4].to)
                                                     /\ e.from \in R(path)[3] /\ e.to = w
    <3>1. 4 \in 1 .. Len(path) /\ 4 - 1 = 3 /\ Len(path) \in Nat
      BY <2>2
    <3> QED
      BY <1>8, <3>1
  <2>8. s \in R(path)[4]
    BY <1>6, <2>2, <2>4, <2>5, <2>6, <2>7
  <2>9. path \in named /\ 4 \in 1 .. Len(path) /\ path[4].grants # {}
        /\ <<"update", s>> \in path[4].grants \X R(path)[4]
    BY <2>1, <2>2, <2>8
  <2> QED
    BY <1>1, <2>9
<1> QED
  BY <1>6, <1>10, <1>11

LEMMA PreviewIsTrue ==
  ASSUME Prototyped
  PROVE  RolePreviewIsTrue
<1> SUFFICES ASSUME NEW e \in edges, In(e.from, "user")
             PROVE  /\ {f \in edges : f.from = e.from} = {e} =>
                          UserPermissions(e.from) = TeamUserPermissions(e.to, e.name)
                    /\ \A a \in Vertices : [from |-> e.to, name |-> "owns", to |-> a] \in edges =>
                          {"update"} \X AccountServices(a)
                             \subseteq TeamUserPermissions(e.to, "lead-developer")
  BY DEF RolePreviewIsTrue
<1>1. In(e.to, "team")
  <2>1. e \in Unrestricted
    BY EdgesLead DEF In
  <2>2. Leads(CollectionOf[e.from], e.name, CollectionOf[e.to])
    BY <2>1, EdgesLead
  <2> QED
    BY <2>2 DEF Leads, In
<1>2. ASSUME NEW a \in Vertices, [from |-> e.to, name |-> "owns", to |-> a] \in edges,
             NEW s \in AccountServices(a)
      PROVE  <<"update", s>> \in TeamUserPermissions(e.to, "lead-developer")
  <2>1. PICK o \in edges : o.from = e.to /\ o.name = "owns" /\ o.to = a
    BY <1>2
  <2> QED
    BY <1>1, <2>1, LeadDevelopersUpdate
<1>3. ASSUME NEW a \in Vertices, [from |-> e.to, name |-> "owns", to |-> a] \in edges
      PROVE  {"update"} \X AccountServices(a) \subseteq TeamUserPermissions(e.to, "lead-developer")
  <2> SUFFICES ASSUME NEW s \in AccountServices(a)
               PROVE  <<"update", s>> \in TeamUserPermissions(e.to, "lead-developer")
    OBVIOUS
  <2> QED
    BY <1>2, <1>3
<1> QED
  BY <1>3, PreviewIsWhatUsersHave

-----------------------------------------------------------------------------
(* The graph has edges with prototypes only. *)
LEMMA GraphStaysPrototyped == GraphSpec => []Prototyped
<1> DEFINE Inv == edges \subseteq PossibleEdges
<1>1. GraphInit => Inv
  BY DEF GraphInit
<1>2. Inv /\ [GraphNext]_edges => Inv'
  BY DEF GraphNext, AddEdge, DeleteEdge
<1>3. Inv => Prototyped
  BY EdgesArePrototyped DEF Prototyped
<1> QED
  BY <1>1, <1>2, <1>3, PTL DEF GraphSpec

(* Users have the permissions that the paths of the configuration give them *)
(* and no other, all of them where no edge is reached in two numbers of      *)
(* steps; and see what they are permitted (getUserPermissions() and          *)
(* getUserConnectedVertex() of graph-mongo.repository.ts).                   *)
THEOREM UsersHaveWhatPathsGive == GraphSpec => []PermissionsFollowPaths
BY GraphStaysPrototyped, PathsAreFollowed, PTL

(* What a team is told a role gives is what a user of that role has, and a  *)
(* lead developer may update every service an account of the team may open  *)
(* intentions for (getTeamUserPermissions(), getAccountServices()).          *)
THEOREM PreviewsAreTrue == GraphSpec => []RolePreviewIsTrue
BY GraphStaysPrototyped, PreviewIsTrue, PTL

(* A request to synchronise ends at the vertices below that have the queue, *)
(* and never in an error (resolveQueueTargets()).                            *)
THEOREM RequestsFindTheirTargets == GraphSpec => []RefreshFindsTargets
BY GraphStaysPrototyped, TargetsAreFound, PTL

=============================================================================
