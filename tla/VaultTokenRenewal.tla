---------------------------- MODULE VaultTokenRenewal ----------------------------
(***************************************************************************)
(* The Broker's own Vault token (token/token.service.ts).  Every node keeps *)
(* a renewal deadline in memory.  A cron job on every node looks the token *)
(* up when the node has no deadline or its deadline has passed; a leader   *)
(* job, which BullMQ gives to one node a minute, renews it.  Calls to Vault *)
(* are answered later, in any order, or fail.  Time is in minutes.         *)
(***************************************************************************)
EXTENDS Integers, FiniteSets

CONSTANTS
    Nodes,            \* the processes that run the application
    Ttl,              \* creation_ttl of the token
    StartAges,        \* how old the token may be when the application starts
    Latency,          \* an answer comes within so many minutes
    MaxTime,          \* bound of the clock
    MaxFaults,        \* restarts, failed calls and ticks that are skipped
    NoDeadline        \* renewAt is undefined

ASSUME TtlIsPositive == Ttl \in Nat \ {0}
ASSUME StartAgesAreTimes == StartAges \subseteq 0..MaxTime
ASSUME LatencyInNat == Latency \in Nat
ASSUME RenewalBounds == MaxTime \in Nat /\ MaxFaults \in Nat
ASSUME NoDeadlineIsNoTime == NoDeadline \notin Int
ASSUME LeaderIsNoNode == "leader" \notin Nodes

VARIABLES
    now,              \* the clock
    renewed,          \* last_renewal_time, or creation_time, as Vault has it
    renewAt,          \* the deadline each node has computed
    calls,            \* calls that are under way or whose answer is
    due,              \* the jobs of this minute that have not run yet
    renewFaults       \* what went wrong so far

renewalVars == <<now, renewed, renewAt, calls, due, renewFaults>>

Unserved == -1

Call == [node : Nodes, kind : {"lookup", "renew"}, sent : Nat, answer : Nat \cup {Unserved}]

Leader == "leader"

WholeTtl == Ttl

(* Math.round(creation_ttl * TOKEN_RENEW_RATIO) with the ratio 0.75. *)
RenewAfter == (3 * Ttl + 2) \div 4

DeadlineFromAnswer(base) == now + RenewAfter

(* The deadline computed from a lookup that reported base. *)
Deadline(base) == base + RenewAfter

Alive == now < renewed + Ttl

Passed(n) == renewAt[n] # NoDeadline /\ now >= renewAt[n]

RenewalTypeOK ==
    /\ now \in 0..MaxTime
    /\ renewed \in 0..MaxTime
    /\ renewAt \in [Nodes -> Nat \cup {NoDeadline}]
    /\ calls \subseteq Call
    /\ due \subseteq Nodes \cup {Leader}
    /\ renewFaults \in 0..MaxFaults

RenewalInit ==
    /\ now \in StartAges
    /\ renewed = 0
    /\ renewAt = [n \in Nodes |-> NoDeadline]
    /\ calls = {}
    /\ due = Nodes \cup {Leader}
    /\ renewFaults = 0

Send(n, kind) ==
    calls' = calls \cup {[node |-> n, kind |-> kind, sent |-> now, answer |-> Unserved]}

(* The cron job of a node. *)
LookupSelf(n) ==
    /\ n \in due
    /\ due' = due \ {n}
    /\ IF renewAt[n] = NoDeadline \/ Passed(n) THEN Send(n, "lookup") ELSE UNCHANGED calls
    /\ UNCHANGED <<now, renewed, renewAt, renewFaults>>

(* The leader job, on whichever node BullMQ gives it to. *)
HandleTokenRenewal(n) ==
    /\ Leader \in due
    /\ due' = due \ {Leader}
    /\ \/ renewAt[n] = NoDeadline /\ Send(n, "lookup")
       \/ Passed(n) /\ Send(n, "renew")
       \/ renewAt[n] # NoDeadline /\ ~Passed(n) /\ UNCHANGED calls
    /\ UNCHANGED <<now, renewed, renewAt, renewFaults>>

(* Vault serves a call: a renewal moves the expiry, either answer carries  *)
(* what Vault knew at that moment.                                         *)
Serve(c) ==
    /\ c.answer = Unserved
    /\ Alive
    /\ renewed' = IF c.kind = "renew" THEN now ELSE renewed
    /\ calls' = (calls \ {c}) \cup {[c EXCEPT !.answer = renewed']}
    /\ UNCHANGED <<now, renewAt, due, renewFaults>>

(* The answer reaches the node, which after a renewal looks up again if its *)
(* deadline has passed.                                                    *)
TakeLookup(c) ==
    /\ c.kind = "lookup" /\ c.answer # Unserved
    /\ renewAt' = [renewAt EXCEPT ![c.node] = Deadline(c.answer)]
    /\ calls' = calls \ {c}
    /\ UNCHANGED <<now, renewed, due, renewFaults>>

TakeRenewal(c) ==
    /\ c.kind = "renew" /\ c.answer # Unserved
    /\ calls' = (calls \ {c}) \cup
                  (IF renewAt[c.node] = NoDeadline \/ Passed(c.node)
                     THEN {[node |-> c.node, kind |-> "lookup", sent |-> now,
                            answer |-> Unserved]}
                     ELSE {})
    /\ UNCHANGED <<now, renewed, renewAt, due, renewFaults>>

Fault == renewFaults < MaxFaults /\ renewFaults' = renewFaults + 1

(* A call fails, before or after Vault served it, and is only logged. *)
LoseCall(c) ==
    /\ Fault
    /\ calls' = calls \ {c}
    /\ UNCHANGED <<now, renewed, renewAt, due>>

(* A dead token makes every call fail. *)
Refuse(c) ==
    /\ c.answer = Unserved /\ ~Alive
    /\ calls' = calls \ {c}
    /\ UNCHANGED <<now, renewed, renewAt, due, renewFaults>>

(* A job does not run in its minute. *)
MissTick(j) ==
    /\ Fault
    /\ due' = due \ {j}
    /\ UNCHANGED <<now, renewed, renewAt, calls>>

Restart(n) ==
    /\ Fault
    /\ renewAt' = [renewAt EXCEPT ![n] = NoDeadline]
    /\ calls' = {c \in calls : c.node # n}
    /\ UNCHANGED <<now, renewed, due>>

(* The next minute: the jobs of this one have run and no call is overdue. *)
Minute ==
    /\ due = {} /\ now < MaxTime
    /\ \A c \in calls : now - c.sent < Latency
    /\ now' = now + 1
    /\ due' = Nodes \cup {Leader}
    /\ UNCHANGED <<renewed, renewAt, calls, renewFaults>>

RenewalNext ==
    \/ Minute
    \/ \E n \in Nodes : LookupSelf(n) \/ HandleTokenRenewal(n) \/ Restart(n)
    \/ \E c \in calls : Serve(c) \/ TakeLookup(c) \/ TakeRenewal(c) \/ LoseCall(c) \/ Refuse(c)
    \/ \E j \in due : MissTick(j)

RenewalSpec == RenewalInit /\ [][RenewalNext]_renewalVars

-----------------------------------------------------------------------------
(* No node waits longer with the renewal than three quarters of the        *)
(* lifetime after the last renewal, although lookups are answered late, out *)
(* of order, and by a Vault that has meanwhile renewed for another node.   *)
DeadlineNeverLate ==
    \A n \in Nodes : renewAt[n] # NoDeadline => renewAt[n] <= renewed + RenewAfter

(* The token never expires: the quarter of its lifetime that is left when  *)
(* the deadline passes outlasts the failures, the answers and the minutes  *)
(* between two runs of the leader job, on whichever node it runs.          *)
TokenStaysAlive == Alive

=============================================================================
