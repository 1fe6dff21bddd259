----------------------------- MODULE BrokerJwt -----------------------------
(***************************************************************************)
(* The life of broker account tokens: generated or renewed by requests,    *)
(* superseded and expired by the jwt-lifecycle leader job, revoked by a    *)
(* team (account.service.ts), over the registry and the block list of the  *)
(* system repository (the allow list is the operators').                   *)
(*                                                                         *)
(* Blocking a token is two writes, deleting an expired one two as well;    *)
(* the job and the revocation work on lists they read earlier.             *)
(***************************************************************************)
EXTENDS Naturals, FiniteSets

CONSTANTS
    Jti,        \* the ids of the tokens that may be generated
    Account,    \* broker accounts
    Request,    \* requests that generate, renew or revoke
    Worker,     \* runs of the jwt-lifecycle leader job
    Ttl,        \* lifetimes requests ask for, in minutes
    Grace,      \* JWT_GENERATE_BLOCK_GRACE_PERIOD, in minutes
    MaxTime,    \* the last minute of the clock
    MaxCrashes, \* how many processes may die
    None        \* no token, no account

ASSUME NumbersAreNatural ==
    Ttl \subseteq Nat /\ Grace \in Nat /\ MaxTime \in Nat /\ MaxCrashes \in Nat
ASSUME NoneIsNeither == None \notin Jti /\ None \notin Account
ASSUME RequestsAreNotJobs == Request \cap Worker = {}

VARIABLES
    now,        \* the wall clock
    accounts,   \* the accounts there are
    issued,     \* the tokens that were ever handed out
    claims,     \* of a token: account, expiry, creation, place in the registry
    rows,       \* the tokens with a row in the registry
    flagged,    \* those whose row says blocked: true
    block,      \* the tokens with a row in the block list
    proc,       \* the local state of every request and job run
    crashes     \* processes that have died

vars == <<now, accounts, issued, claims, rows, flagged, block, proc, crashes>>

Proc == Request \union Worker

Claims == [account : Account \union {None}, exp : Nat, created : Nat, order : Nat]

NoClaims == [account |-> None, exp |-> 0, created |-> 0, order |-> 0]

Idle == [pc |-> "idle", account |-> None, via |-> None, at |-> 0, rotation |-> FALSE,
         todo |-> {}, seen |-> {}, open |-> {}, current |-> None]

PC == {"idle", "renew", "generate", "blocking", "flag", "expire", "unblock", "group"}

ProcState ==
    [pc : PC, account : Account \union {None}, via : Jti \union {None},
     at : Nat, rotation : BOOLEAN, todo : SUBSET Jti,
     seen : SUBSET Jti, open : SUBSET Jti, current : Jti \union {None}]

Goto(p, state) == proc' = [proc EXCEPT ![p] = state]

RegistryUntouched ==
    UNCHANGED <<now, accounts, issued, claims, rows, flagged, block, crashes>>

-----------------------------------------------------------------------------
(* jwt.strategy.ts: a token is accepted until it expires or is blocked.    *)

Usable(j) == j \in issued /\ now < claims[j].exp /\ j \notin block

(* Generating: the time is read and the account looked up; the row is       *)
(* inserted some awaits later.                                             *)
BeginGenerate(p, a) ==
    /\ a \in accounts
    /\ Goto(p, [Idle EXCEPT !.pc = "generate", !.account = a, !.at = now])
    /\ RegistryUntouched

\* renewToken(): the guard accepts the token the request came with...
BeginRenew(p, j) ==
    /\ Usable(j)
    /\ Goto(p, [Idle EXCEPT !.pc = "renew", !.via = j])
    /\ RegistryUntouched

\* ... and its row must not be blocked, its account must be there.
CheckRenewal(p) ==
    /\ proc[p].pc = "renew"
    /\ LET j == proc[p].via IN
       IF j \in rows \ flagged /\ claims[j].account \in accounts
       THEN Goto(p, [proc[p] EXCEPT !.pc = "generate", !.at = now,
                                          !.account = claims[j].account])
       ELSE Goto(p, Idle)
    /\ RegistryUntouched

Fresh(j) == j \notin issued

\* addJwtToRegister(); only then is the token handed out.
RegisterJwt(p, j, ttl) ==
    /\ proc[p].pc = "generate"
    /\ Fresh(j)
    /\ claims' = [claims EXCEPT ![j] =
                    [account |-> proc[p].account, exp |-> proc[p].at + ttl,
                     created |-> now, order |-> Cardinality(issued) + 1]]
    /\ issued' = issued \union {j}
    /\ rows' = rows \union {j}
    /\ Goto(p, Idle)
    /\ UNCHANGED <<now, accounts, flagged, block, crashes>>

-----------------------------------------------------------------------------
(* blockJwtByJti(): a row in the block list, then the flag in the registry. *)

\* MUTANT: the revocation relies on the flag alone.
NotBlocked(j) == block

Blocked(j) == block \union {j}

BlockRow(p, j) ==
    /\ proc[p].pc = "blocking"
    /\ j \in proc[p].todo
    /\ block' = Blocked(j)
    /\ Goto(p, [proc[p] EXCEPT !.pc = "flag", !.todo = @ \ {j}, !.current = j])
    /\ UNCHANGED <<now, accounts, issued, claims, rows, flagged, crashes>>

\* MUTANT: the flag is set whether or not the row is still there.
FlagAnyway(j) == flagged \union {j}

Flagged(j) == IF j \in rows THEN flagged \union {j} ELSE flagged

FlagRow(p) ==
    /\ proc[p].pc = "flag"
    /\ flagged' = Flagged(proc[p].current)
    /\ Goto(p, [proc[p] EXCEPT !.pc = "blocking", !.current = None])
    /\ UNCHANGED <<now, accounts, issued, claims, rows, block, crashes>>

\* A revocation is over when its list is empty; the job turns to the next account.
BlockingDone(p) ==
    /\ proc[p].pc = "blocking"
    /\ proc[p].todo = {}
    /\ Goto(p, IF p \in Request THEN Idle
               ELSE [proc[p] EXCEPT !.pc = "group", !.rotation = FALSE])
    /\ RegistryUntouched

RowsOf(a) == {j \in rows : claims[j].account = a}

\* revokeAccountToken(): the rows are read once, those not flagged are blocked.
BeginRevoke(p, a) ==
    /\ Goto(p, [Idle EXCEPT !.pc = "blocking", !.todo = RowsOf(a) \ flagged])
    /\ RegistryUntouched

-----------------------------------------------------------------------------
(* runJwtLifecycle().                                                      *)

\* MUTANT: rows are deleted when they will expire within the grace period.
ExpiredEarly(t) == {j \in rows : claims[j].exp <= t + Grace}

Expired(t) == {j \in rows : claims[j].exp < t}

BeginLifecycle(w) ==
    /\ Goto(w, [Idle EXCEPT !.pc = "expire", !.at = now, !.todo = Expired(now)])
    /\ RegistryUntouched

\* deleteRegistryJwt(): the registry row, ...
DeleteRow(w, j) ==
    /\ proc[w].pc = "expire"
    /\ j \in proc[w].todo
    /\ rows' = rows \ {j}
    /\ flagged' = flagged \ {j}
    /\ Goto(w, [proc[w] EXCEPT !.pc = "unblock", !.todo = @ \ {j}, !.current = j])
    /\ UNCHANGED <<now, accounts, issued, claims, block, crashes>>

\* ... then the rows of the block list.
DeleteBlock(w) ==
    /\ proc[w].pc = "unblock"
    /\ block' = block \ {proc[w].current}
    /\ Goto(w, [proc[w] EXCEPT !.pc = "expire", !.current = None])
    /\ UNCHANGED <<now, accounts, issued, claims, rows, flagged, crashes>>

\* groupRegistryByAccountId(): one read of every row, in the order of insertion.
GroupRegistry(w) ==
    /\ proc[w].pc = "expire"
    /\ proc[w].todo = {}
    /\ Goto(w, [proc[w] EXCEPT !.pc = "group", !.seen = rows, !.open = rows \ flagged])
    /\ RegistryUntouched

Newer(j, group) ==
    {k \in group : claims[k].account = claims[j].account /\ claims[k].order > claims[j].order}

\* MUTANT: the token before the newest is not given its grace period.
SupersededAtOnce(j, group, t) == Newer(j, group) # {}

\* MUTANT: off by one, the third newest token is not looked at.
SupersededByThree(j, group, t) ==
    \/ Cardinality(Newer(j, group)) >= 3
    \/ \E k \in group : Newer(j, group) = {k} /\ claims[k].created + Grace < t

\* Two newer rows, or one, that has been there for more than the grace period.
Superseded(j, group, t) ==
    \/ Cardinality(Newer(j, group)) >= 2
    \/ \E k \in group : Newer(j, group) = {k} /\ claims[k].created + Grace < t

\* The tokens of one account to block, as far as the rows read are concerned.
TakeAccount(w, a) ==
    /\ proc[w].pc = "group"
    /\ LET mine == {j \in proc[w].seen : claims[j].account = a}
           open == mine \intersect proc[w].open
       IN /\ mine # {}
          /\ Goto(w, [proc[w] EXCEPT
                !.pc = "blocking", !.seen = @ \ mine, !.open = @ \ mine,
                !.rotation = a \in accounts,
                !.todo = IF a \in accounts
                         THEN {j \in open : Superseded(j, mine, proc[w].at)}
                         ELSE open])
    /\ RegistryUntouched

LifecycleDone(w) ==
    /\ proc[w].pc = "group"
    /\ proc[w].seen = {}
    /\ Goto(w, Idle)
    /\ RegistryUntouched

-----------------------------------------------------------------------------
Tick ==
    /\ now < MaxTime
    /\ now' = now + 1
    /\ UNCHANGED <<accounts, issued, claims, rows, flagged, block, proc, crashes>>

\* A broker account is deleted from the graph: its rows stay.
DeleteAccount(a) ==
    /\ accounts' = accounts \ {a}
    /\ UNCHANGED <<now, issued, claims, rows, flagged, block, proc, crashes>>

Crash(p) ==
    /\ proc[p].pc # "idle"
    /\ crashes < MaxCrashes
    /\ crashes' = crashes + 1
    /\ Goto(p, Idle)
    /\ UNCHANGED <<now, accounts, issued, claims, rows, flagged, block>>

BeginRequest(p) ==
    /\ p \in Request
    /\ proc[p].pc = "idle"
    /\ \/ \E a \in Account : BeginGenerate(p, a) \/ BeginRevoke(p, a)
       \/ \E j \in Jti : BeginRenew(p, j)

BeginJob(w) ==
    /\ w \in Worker
    /\ proc[w].pc = "idle"
    /\ BeginLifecycle(w)

Continue(p) ==
    \/ CheckRenewal(p)
    \/ \E j \in Jti : BlockRow(p, j) \/ DeleteRow(p, j)
    \/ \E j \in Jti, ttl \in Ttl : RegisterJwt(p, j, ttl)
    \/ FlagRow(p) \/ BlockingDone(p) \/ DeleteBlock(p) \/ GroupRegistry(p)
    \/ \E a \in Account : TakeAccount(p, a)
    \/ LifecycleDone(p)

Step(p) == BeginRequest(p) \/ BeginJob(p) \/ Continue(p) \/ Crash(p)

Init ==
    /\ now = 0
    /\ accounts = Account
    /\ issued = {}
    /\ claims = [j \in Jti |-> NoClaims]
    /\ rows = {}
    /\ flagged = {}
    /\ block = {}
    /\ proc = [p \in Proc |-> Idle]
    /\ crashes = 0

Next == Tick \/ (\E a \in Account : DeleteAccount(a)) \/ \E p \in Proc : Step(p)

Spec == Init /\ [][Next]_vars

(* The job runs every minute, and goes on unless it dies.                   *)
Fairness == \A w \in Worker : WF_vars(BeginJob(w)) /\ WF_vars(Continue(w))

FairSpec == Spec /\ Fairness

-----------------------------------------------------------------------------
(* Properties.                                                             *)

(* Rows, lists and the locals of requests and job keep their shape.         *)
TypeOK ==
    /\ now \in 0 .. MaxTime
    /\ accounts \in SUBSET Account
    /\ issued \in SUBSET Jti
    /\ claims \in [Jti -> Claims]
    /\ rows \in SUBSET issued
    /\ flagged \in SUBSET rows
    /\ block \in SUBSET issued
    /\ proc \in [Proc -> ProcState]
    /\ crashes \in 0 .. MaxCrashes

(* A token that is refused once is refused ever after: neither the job that *)
(* cleans the block list nor a second revocation brings it back             *)
(* ("This action cannot be undone", dev_account_token.md).                 *)
RefusedForGood ==
    [][\A j \in Jti : j \in issued /\ ~Usable(j) => ~Usable(j)']_vars

(* A row that says blocked is in the block list the guard reads, whatever   *)
(* died between the two writes ("JWT should by in block list anyway",       *)
(* account.service.ts).                                                    *)
FlaggedIsBlocked == \A j \in flagged : j \in block

(* The job takes a token from a living account only when two newer ones     *)
(* were registered, or one has been there for the grace period: a client    *)
(* always has the time to pick up its new token, however old the list the   *)
(* job works on.                                                           *)
RotationIsFair ==
    [][\A w \in Worker, j \in Jti :
          /\ j \in block' \ block
          /\ proc[w].rotation /\ proc'[w].current = j
          => \/ Cardinality(Newer(j, issued)) >= 2
             \/ \E k \in Newer(j, issued) : claims[k].created + Grace < now]_vars

(* When no more tokens are generated, the job leaves every account with at  *)
(* most two ("Only two tokens are ever active at the same time").           *)
TwoTokensRemain ==
    <>[](\A a \in Account : Cardinality({j \in Jti : Usable(j) /\ claims[j].account = a}) <= 2)

(* dev_account_token.md: "The previous token continues working for one hour *)
(* (if not already expired)", unless two newer ones replace it.            *)
Hour == 60

PreviousTokenLastsAnHour ==
    [][\A w \in Worker, j \in Jti :
          /\ j \in block' \ block
          /\ proc[w].rotation /\ proc'[w].current = j
          => \/ Cardinality(Newer(j, issued)) >= 2
             \/ \E k \in Newer(j, issued) : claims[k].created + Hour <= now]_vars

=============================================================================
