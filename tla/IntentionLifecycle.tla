------------------------- MODULE IntentionLifecycle -------------------------
(***************************************************************************)
(* One intention of the Broker API, from open to removal, under concurrent *)
(* HTTP requests and the expiry leader job (intention.service.ts, its      *)
(* controller, the action guard, and the Mongo repository).                *)
(*                                                                         *)
(* Every request, and every run of the job, works on its own in-memory     *)
(* copy of the stored document.  The ORM knows which top level fields of   *)
(* that copy were changed since they were loaded, and a flush writes those *)
(* and no other: the whole "actions" array, the outcome of the             *)
(* transaction, the closed flag.  An action below is the code between two  *)
(* awaits, or a write that the code does not wait for.                     *)
(***************************************************************************)
EXTENDS Naturals

CONSTANTS
    Action,         \* the actions of the intention
    Build,          \* those of kind package-build, with a package name
    Install,        \* those of kind package-installation
    Provisionable,  \* those whose "provision" list allows token/self
    Request,        \* HTTP requests being served at the same time
    Worker,         \* runs of the intention-expiry leader job
    Token,          \* Vault tokens that may be issued for the intention
    ClientOutcome,  \* the outcomes clients send with action/end and close
    Transient,      \* the event of the intention is transient
    MaxCrashes      \* how many processes may die

ASSUME ActionKinds ==
    /\ Build \subseteq Action
    /\ Install \subseteq Action
    /\ Provisionable \subseteq Action
ASSUME ClientOutcomes == ClientOutcome \subseteq {"success", "failure", "unknown"}
ASSUME RequestsAreNotJobs == Request \cap Worker = {}
ASSUME MaxCrashesInNat == MaxCrashes \in Nat
ASSUME TransientInBoolean == Transient \in BOOLEAN

VARIABLES
    present,    \* "absent", "stored" or "removed": the document in MongoDB
    doc,        \* its content (the last one, once removed)
    age,        \* "live", "expired" (expiry < now) or "aged" (retention over)
    tokens,     \* what became of each Vault token
    accessors,  \* the token accessors recorded for the intention
    synced,     \* the graph was updated from the intention
    proc,       \* the local state of every request and job run
    crashes     \* processes that have died

vars == <<present, doc, age, tokens, accessors, synced, proc, crashes>>

Proc == Request \union Worker

Lifecycle == {"initialized", "started", "ended"}
Verdict == {"none", "success", "failure", "unknown", "rejected"}
ActionState == [lifecycle : Lifecycle, outcome : Verdict,
                artifacts : Nat, patched : BOOLEAN, linked : BOOLEAN]
Doc == [actions : [Action -> ActionState], outcome : Verdict, closed : BOOLEAN]

-----------------------------------------------------------------------------
(* The document and the ORM's unit of work.                                *)

NewAction(rejected) ==
    [lifecycle |-> "initialized", outcome |-> IF rejected THEN "rejected" ELSE "none",
     artifacts |-> 0, patched |-> FALSE, linked |-> FALSE]

\* The document open() stores: closed and rejected at once when an action
\* violates a rule.
NewDoc(violating) ==
    [actions |-> [a \in Action |-> NewAction(a \in violating)],
     outcome |-> IF violating = {} THEN "none" ELSE "rejected",
     closed |-> violating # {}]

Field == {"actions", "outcome", "closed"}

\* What a flush of the fields "dirty" of copy leaves in "into".
Merge(copy, dirty, into) ==
    [actions |-> IF "actions" \in dirty THEN copy.actions ELSE into.actions,
     outcome |-> IF "outcome" \in dirty THEN copy.outcome ELSE into.outcome,
     closed  |-> IF "closed" \in dirty THEN copy.closed ELSE into.closed]

\* MUTANT: the query lost its closed condition.
FindableEvenClosed == present = "stored"

\* The filter closed: { $ne: true } of every query by token, and of the sweep.
Findable == present = "stored" /\ ~doc.closed

-----------------------------------------------------------------------------
(* What a process is doing.                                                *)

Idle == [pc |-> "idle", action |-> {}, outcome |-> "none",
         copy |-> NewDoc({}), dirty |-> {}, todo |-> {}, builds |-> {}]

PC == {"idle", "flush", "register", "patch", "patchError", "issue", "record",
       "revoke", "revoking", "builds", "sync", "close"}

ProcState == [pc : PC, action : SUBSET Action, outcome : Verdict,
              copy : Doc, dirty : SUBSET Field,
              todo : SUBSET Token, builds : SUBSET Action]

\* Process p goes on at pc with the values of the record "with".
Goto(p, state) == proc' = [proc EXCEPT ![p] = state]

Loaded(pc) == [Idle EXCEPT !.pc = pc, !.copy = doc]

\* The state with new values for the actions of its copy.
WithActions(state, actions) ==
    [state EXCEPT !.copy.actions = actions,
                  !.dirty = @ \union IF actions = state.copy.actions THEN {} ELSE {"actions"}]

WithAction(state, a, value) ==
    WithActions(state, [state.copy.actions EXCEPT ![a] = value])

StoreUntouched == UNCHANGED <<present, doc, age, tokens, accessors, synced, crashes>>

\* MUTANT: the document is replaced by the copy, stale fields included.
WriteWholeDocument(p) == doc' = IF present = "stored" THEN proc[p].copy ELSE doc

Write(p) ==
    IF present = "stored" THEN doc' = Merge(proc[p].copy, proc[p].dirty, doc)
                          ELSE doc' = doc

-----------------------------------------------------------------------------
(* Opening, time, retention.                                               *)

\* open(): rule violations reject the intention, which is stored all the same.
Open ==
    /\ present = "absent"
    /\ \E violating \in SUBSET Action :
         /\ doc' = NewDoc(violating)
         /\ age' = IF violating = {} THEN "live" ELSE "expired"
    /\ present' = "stored"
    /\ UNCHANGED <<tokens, accessors, synced, proc, crashes>>

\* The wall clock passes the expiry, then the retention period.
TimePasses ==
    /\ present = "stored"
    /\ \/ age = "live" /\ age' = "expired"
       \/ age = "expired" /\ age' = "aged"
    /\ UNCHANGED <<present, doc, tokens, accessors, synced, proc, crashes>>

\* cleanupTransient().  (cleanupRejected() matches event.outcome, a field no
\* event has: it never removes a document.)
CleanupTransient ==
    /\ present = "stored" /\ Transient /\ doc.closed /\ age = "aged"
    /\ present' = "removed"
    /\ UNCHANGED <<doc, age, tokens, accessors, synced, proc, crashes>>

-----------------------------------------------------------------------------
(* action/start, action/end: the guard loads the intention, the service    *)
(* checks and changes that copy, and answers while the flush is under way. *)

\* MUTANT: an ended action may be started again.
MayStartAgain(lifecycle) == lifecycle # "started"

MayStart(lifecycle) == lifecycle \notin {"started", "ended"}

MayEnd(lifecycle) == lifecycle # "ended"

StartAction(p, a) ==
    /\ Findable
    /\ MayStart(doc.actions[a].lifecycle)
    /\ Goto(p, WithAction(Loaded("flush"), a,
                          [doc.actions[a] EXCEPT !.lifecycle = "started"]))
    /\ StoreUntouched

Ended(action, outcome) == [action EXCEPT !.lifecycle = "ended", !.outcome = outcome]

EndAction(p, a, outcome) ==
    /\ Findable
    /\ MayEnd(doc.actions[a].lifecycle)
    /\ Goto(p, WithAction(Loaded("flush"), a, Ended(doc.actions[a], outcome)))
    /\ StoreUntouched

\* The write of a request that has been answered, or has failed, reaches MongoDB.
FlushAnswered(p) ==
    /\ proc[p].pc = "flush"
    /\ Write(p)
    /\ Goto(p, Idle)
    /\ UNCHANGED <<present, age, tokens, accessors, synced, crashes>>

-----------------------------------------------------------------------------
(* action/artifact: the checks are made on the guard's copy, the artifact  *)
(* is pushed on a copy loaded again.                                       *)

WithArtifact(action) == [action EXCEPT !.artifacts = @ + 1]

RegisterArtifact(p, a) ==
    /\ Findable
    /\ doc.actions[a].lifecycle = "started"
    /\ doc.actions[a].artifacts = 0
    /\ Goto(p, [Idle EXCEPT !.pc = "register", !.action = {a}])
    /\ StoreUntouched

AddArtifact(p) ==
    /\ proc[p].pc = "register"
    /\ \E a \in proc[p].action :
         IF Findable
         THEN Goto(p, WithAction(Loaded("flush"), a, WithArtifact(doc.actions[a])))
         ELSE Goto(p, Idle)
    /\ StoreUntouched

-----------------------------------------------------------------------------
(* Closing: what close(), a rejected patch and the expiry job share.       *)

Ending(actions, outcome) ==
    [a \in Action |-> IF actions[a].lifecycle = "started"
                      THEN Ended(actions[a], outcome) ELSE actions[a]]

\* The loop that ends the started actions of the copy; its flushes are not awaited.
Finalizing(state, outcome) ==
    WithActions([state EXCEPT !.pc = "revoke", !.outcome = outcome],
                Ending(state.copy.actions, outcome))

Close(p, outcome) ==
    /\ Findable
    /\ Goto(p, Finalizing(Loaded("revoke"), outcome))
    /\ StoreUntouched

\* handleIntentionExpiry() on an intention findExpiredIntentions() returned.
SweepExpired(w) ==
    /\ age # "live"
    /\ Close(w, "unknown")

\* A flush of the copy while the finalizer is on its way: one that ended an
\* action, or one the graph update makes on the same unit of work.
FlushUnderway(p) ==
    /\ proc[p].pc \in {"revoke", "revoking", "builds", "sync"}
    /\ proc[p].dirty # {}
    /\ Write(p)
    /\ Goto(p, [proc[p] EXCEPT !.dirty = {}])
    /\ UNCHANGED <<present, age, tokens, accessors, synced, crashes>>

\* MUTANT: the accessors are looked up under another id.
NoAccessors == {}

RecordedAccessors == accessors

ReadAccessors(p) ==
    /\ proc[p].pc = "revoke"
    /\ Goto(p, [proc[p] EXCEPT !.pc = "revoking", !.todo = RecordedAccessors])
    /\ StoreUntouched

\* Vault's answer is not looked at: a failed revocation is only logged.
RevokeToken(p, t) ==
    /\ proc[p].pc = "revoking"
    /\ t \in proc[p].todo
    /\ \E fate \in {"revoked", "tried"} :
         tokens' = [tokens EXCEPT ![t] = IF @ = "revoked" THEN @ ELSE fate]
    /\ Goto(p, [proc[p] EXCEPT !.todo = @ \ {t}])
    /\ UNCHANGED <<present, doc, age, accessors, synced, crashes>>

\* MUTANT: the outcome is not written to the transaction.
NotSettled(state) == state

\* The transaction of the copy gets the outcome.
Settled(state) ==
    [state EXCEPT !.copy.outcome = state.outcome,
                  !.dirty = @ \union IF state.copy.outcome = state.outcome
                                     THEN {} ELSE {"outcome"}]

SuccessfulBuilds(copy) == {b \in Build : copy.actions[b].outcome = "success"}

\* removeVaultTokenAccessors() deletes every record there is by now.
DropAccessors(p) ==
    /\ proc[p].pc = "revoking"
    /\ proc[p].todo = {}
    /\ accessors' = {}
    /\ IF proc[p].outcome = "success"
       THEN Goto(p, [proc[p] EXCEPT !.pc = "builds",
                                    !.builds = SuccessfulBuilds(proc[p].copy)])
       ELSE Goto(p, Settled([proc[p] EXCEPT !.pc = "close"]))
    /\ UNCHANGED <<present, doc, age, tokens, synced, crashes>>

\* A successful build is registered as an artifact.  A name already there, or
\* an intention that is no longer found, throws: the intention stays as it is.
RegisterBuild(p, b) ==
    /\ proc[p].pc = "builds"
    /\ b \in proc[p].builds
    /\ IF proc[p].copy.actions[b].artifacts = 0 /\ Findable
       THEN LET fresh == Merge(proc[p].copy, proc[p].dirty, doc) IN
            Goto(p, WithAction([proc[p] EXCEPT !.copy = fresh, !.builds = @ \ {b}],
                               b, WithArtifact(fresh.actions[b])))
       ELSE Goto(p, [proc[p] EXCEPT !.pc = "flush"])
    /\ StoreUntouched

BuildsRegistered(p) ==
    /\ proc[p].pc = "builds"
    /\ proc[p].builds = {}
    /\ Goto(p, Settled([proc[p] EXCEPT !.pc = "sync"]))
    /\ StoreUntouched

SyncGraph(p) ==
    /\ proc[p].pc = "sync"
    /\ \/ synced' = TRUE /\ Goto(p, [proc[p] EXCEPT !.pc = "close"])
       \/ synced' = synced /\ Goto(p, Idle)    \* it threw
    /\ UNCHANGED <<present, doc, age, tokens, accessors, crashes>>

\* MUTANT: closeIntention() does not set the flag.
NotMarkedClosed(state) == state

MarkedClosed(state) ==
    [state EXCEPT !.copy.closed = TRUE, !.dirty = @ \union {"closed"}]

\* The ids of services that were unknown when the intention was opened.
Linked(actions) == [a \in Action |-> [actions[a] EXCEPT !.linked = TRUE]]

CloseIntention(p) ==
    /\ proc[p].pc = "close"
    /\ \E actions \in {proc[p].copy.actions, Linked(proc[p].copy.actions)} :
         LET final == MarkedClosed(WithActions(proc[p], actions))
         IN doc' = IF present = "stored"
                   THEN Merge(final.copy, final.dirty, doc) ELSE doc
    /\ Goto(p, Idle)
    /\ UNCHANGED <<present, age, tokens, accessors, synced, crashes>>

-----------------------------------------------------------------------------
(* action/patch.                                                           *)

Patch(p, a) ==
    /\ Findable
    /\ doc.actions[a].lifecycle = "started"
    /\ Goto(p, WithAction(Loaded("patch"), a, [doc.actions[a] EXCEPT !.patched = TRUE]))
    /\ StoreUntouched

PatchAccepted(p) ==
    /\ proc[p].pc = "patch"
    /\ Write(p)
    /\ Goto(p, Idle)
    /\ UNCHANGED <<present, age, tokens, accessors, synced, crashes>>

\* MUTANT: the reason is passed where the outcome belongs.
PatchReason == "Patch failed"

PatchOutcome == "rejected"

\* The patched actions are validated again; a violation finalizes the intention.
PatchRejected(p) ==
    /\ proc[p].pc = "patch"
    /\ \E violating \in SUBSET Action \ {{}} :
         LET judged == [a \in Action |->
                          IF a \in violating
                          THEN [proc[p].copy.actions[a] EXCEPT !.outcome = "rejected"]
                          ELSE proc[p].copy.actions[a]]
         IN Goto(p, Finalizing(WithActions(proc[p], judged), PatchOutcome))
    /\ StoreUntouched

\* A patch of an action that is not started, or of the wrong shape, throws...
PatchInvalid(p, a) ==
    /\ Findable
    /\ Goto(p, [Idle EXCEPT !.pc = "patchError", !.action = {a}])
    /\ StoreUntouched

\* ... and the controller closes the intention, if it is still open.
PatchFailed(p) ==
    /\ proc[p].pc = "patchError"
    /\ IF Findable
       THEN Goto(p, Finalizing(Loaded("revoke"), "failure"))
       ELSE Goto(p, Idle)
    /\ StoreUntouched

-----------------------------------------------------------------------------
(* provision/token/self: the guard loads the intention; Vault issues the   *)
(* token after several awaits; its accessor is recorded later still.       *)

Provision(p, a) ==
    /\ Findable
    /\ Goto(p, [Idle EXCEPT !.pc = "issue", !.action = {a}])
    /\ StoreUntouched

\* Vault refuses, or is out of reach.
IssueFails(p) ==
    /\ proc[p].pc = "issue"
    /\ Goto(p, Idle)
    /\ StoreUntouched

IssueToken(p, t) ==
    /\ proc[p].pc = "issue"
    /\ tokens[t] = "unissued"
    /\ tokens' = [tokens EXCEPT ![t] = "issued"]
    /\ Goto(p, [Idle EXCEPT !.pc = "record", !.todo = {t}])
    /\ UNCHANGED <<present, doc, age, accessors, synced, crashes>>

RecordAccessor(p) ==
    /\ proc[p].pc = "record"
    /\ \/ /\ accessors' = accessors \union proc[p].todo
          /\ tokens' = [t \in Token |->
                          IF t \in proc[p].todo THEN "recorded" ELSE tokens[t]]
       \/ UNCHANGED <<accessors, tokens>>    \* the insert failed: only logged
    /\ Goto(p, Idle)
    /\ UNCHANGED <<present, doc, age, synced, crashes>>

-----------------------------------------------------------------------------
\* The replica serving p dies: what p had not written is lost.
Crash(p) ==
    /\ proc[p].pc # "idle"
    /\ crashes < MaxCrashes
    /\ crashes' = crashes + 1
    /\ Goto(p, Idle)
    /\ UNCHANGED <<present, doc, age, tokens, accessors, synced>>

BeginRequest(p) ==
    /\ p \in Request
    /\ proc[p].pc = "idle"
    /\ \/ \E a \in Action :
            \/ StartAction(p, a)
            \/ \E outcome \in ClientOutcome : EndAction(p, a, outcome)
       \/ \E a \in Build : RegisterArtifact(p, a)
       \/ \E a \in Build \union Install : Patch(p, a) \/ PatchInvalid(p, a)
       \/ \E a \in Provisionable : Provision(p, a)
       \/ \E outcome \in ClientOutcome : Close(p, outcome)

BeginSweep(p) ==
    /\ p \in Worker
    /\ proc[p].pc = "idle"
    /\ SweepExpired(p)

\* What a process that has begun does next.
Continue(p) ==
    \/ FlushAnswered(p) \/ AddArtifact(p)
    \/ FlushUnderway(p) \/ ReadAccessors(p) \/ DropAccessors(p)
    \/ \E t \in Token : RevokeToken(p, t) \/ IssueToken(p, t)
    \/ \E b \in Build : RegisterBuild(p, b)
    \/ BuildsRegistered(p) \/ SyncGraph(p) \/ CloseIntention(p)
    \/ PatchAccepted(p) \/ PatchRejected(p) \/ PatchFailed(p)
    \/ IssueFails(p) \/ RecordAccessor(p)

Step(p) == BeginRequest(p) \/ BeginSweep(p) \/ Continue(p) \/ Crash(p)

Environment == Open \/ TimePasses \/ CleanupTransient

Init ==
    /\ present = "absent"
    /\ doc = NewDoc({})
    /\ age = "live"
    /\ tokens = [t \in Token |-> "unissued"]
    /\ accessors = {}
    /\ synced = FALSE
    /\ proc = [p \in Proc |-> Idle]
    /\ crashes = 0

Next == Environment \/ \E p \in Proc : Step(p)

Spec == Init /\ [][Next]_vars

(* The leader scheduler starts the expiry job every minute, and every await *)
(* of a process that has not died comes back.                               *)
Fairness ==
    /\ \A w \in Worker : WF_vars(BeginSweep(w))
    /\ \A p \in Proc : WF_vars(Continue(p))

FairSpec == Spec /\ Fairness

(* The same program when no two processes overlap: what each handler does  *)
(* when nothing else runs, retries after a crash included.                 *)
Alone(p) == \A q \in Proc \ {p} : proc[q].pc = "idle"

SerialNext == Environment \/ \E p \in Proc : Alone(p) /\ Step(p)

SerialSpec == Init /\ [][SerialNext]_vars

-----------------------------------------------------------------------------
(* Properties.                                                             *)

TokenFate == {"unissued", "issued", "recorded", "tried", "revoked"}

(* The document, the ORM copies and the locals of every process stay in the *)
(* shape the entity classes declare.                                       *)
TypeOK ==
    /\ present \in {"absent", "stored", "removed"}
    /\ doc \in Doc
    /\ age \in {"live", "expired", "aged"}
    /\ tokens \in [Token -> TokenFate]
    /\ accessors \in SUBSET Token
    /\ synced \in BOOLEAN
    /\ proc \in [Proc -> ProcState]
    /\ crashes \in 0 .. MaxCrashes

(* No request that still holds a copy of the open intention can reopen it:  *)
(* a late flush of start, end, artifact or patch leaves "closed" alone.     *)
ClosedIsPermanent == [][doc.closed => doc'.closed]_vars

(* Once the intention is closed and the requests that were already inside   *)
(* are done, nothing gets in: the tokens of the intention and its actions   *)
(* open no door, and neither document, Vault tokens nor graph change.       *)
Drained == \A p \in Proc : proc[p].pc = "idle"

FrozenOnceDrained ==
    [][doc.closed /\ Drained => UNCHANGED <<doc, tokens, accessors, synced, proc>>]_vars

(* However client, patch and expiry job race to close it, and whoever dies  *)
(* on the way, a closed intention has the outcome of its transaction.       *)
ClosedHasOutcome == doc.closed => doc.outcome # "none"

(* With no overlap, an accessor that was recorded is neither forgotten nor  *)
(* left untried when the intention closes (revokeIntentionVaultTokens).     *)
TokensTriedByClose ==
    \A t \in Token : tokens[t] = "recorded" => t \in accessors /\ ~doc.closed

(* dev_intention_lifecycle.md: "All started actions will automatically be   *)
(* ended upon closing the intention."  Looked at when all is quiet again.   *)
StartedActionsEndedByClose ==
    doc.closed /\ Drained => \A a \in Action : doc.actions[a].lifecycle # "started"

(* handleIntentionExpiry(): an intention past its expiry is closed, even if  *)
(* nobody closes it and the job dies a number of times doing so.            *)
ExpiredIsClosed == present = "stored" /\ age # "live" ~> doc.closed

(* With no overlap the intention keeps the promise of IntentionPromise.     *)
Promise == INSTANCE IntentionPromise WITH
    status <- IF present = "absent" THEN "absent"
              ELSE IF doc.closed THEN "closed" ELSE "open",
    outcome <- doc.outcome,
    life <- [a \in Action |-> doc.actions[a].lifecycle],
    passed <- {a \in Action : doc.actions[a].outcome = "success"},
    registered <- [a \in Action |-> doc.actions[a].artifacts],
    graph <- synced

PromiseKept == Promise!Spec

=============================================================================
