-------------------------- MODULE IntentionPromise --------------------------
(***************************************************************************)
(* What the Broker promises of one intention, with no request, copy or job *)
(* in sight: it is open once and closed once, its actions only move        *)
(* forward, and a successful close means the work is in the graph.         *)
(***************************************************************************)
EXTENDS Naturals

CONSTANTS
    Action,     \* the actions of the intention
    Build       \* those that build a named package

VARIABLES
    status,     \* "absent", "open" or "closed"
    outcome,    \* of the transaction
    life,       \* lifecycle of each action
    passed,     \* the actions that ended with success
    registered, \* how often each package is among the artifacts of its action
    graph       \* the graph was updated from the intention

vars == <<status, outcome, life, passed, registered, graph>>

Rank(l) == CASE l = "initialized" -> 0 [] l = "started" -> 1 [] l = "ended" -> 2

\* Actions only move forward, and artifacts are kept and named once.
Forward ==
    \A a \in Action :
       /\ Rank(life[a]) <= Rank(life'[a])
       /\ registered[a] <= registered'[a] /\ registered'[a] <= 1

\* What holds of an intention that is closed.
Settled(o, l, ok, reg, g) ==
    /\ o # "none"
    /\ \A a \in Action : l[a] # "started"
    /\ o = "success" => g /\ \A b \in Build \intersect ok : reg[b] = 1

Init ==
    /\ status = "absent"
    /\ outcome = "none"
    /\ life = [a \in Action |-> "initialized"]
    /\ passed = {}
    /\ registered = [a \in Action |-> 0]
    /\ graph = FALSE

Open ==
    /\ status = "absent"
    /\ \/ status' = "open" /\ outcome' = "none"
       \/ status' = "closed" /\ outcome' = "rejected"
    /\ UNCHANGED <<life, passed, registered, graph>>

\* One write of the intention's document.
Write ==
    /\ status = "open"
    /\ Forward
    /\ graph' = graph
    /\ \/ status' = "open"
       \/ status' = "closed" /\ Settled(outcome', life', passed', registered', graph)

\* The graph is updated while the intention is open.
Sync ==
    /\ status = "open"
    /\ graph' = TRUE
    /\ UNCHANGED <<status, outcome, life, passed, registered>>

Next == Open \/ Write \/ Sync

Spec == Init /\ [][Next]_vars

=============================================================================
