-------------------------------- MODULE SyncQueues --------------------------------
(***************************************************************************)
(* The queues that copy secrets to GitHub repositories and to OpenShift     *)
(* projects (collection-sync.service.ts, github-sync.service.ts,            *)
(* kubernetes-sync.service.ts): a request fans out to its targets, each is  *)
(* queued with a debounce and a de-duplication id, and a worker copies the  *)
(* target's parts one by one, each read from Vault and then written.  The   *)
(* parts of a repository are the services whose source it is, those of a    *)
(* project its secret mappings.  A worker that loses the lock of its job    *)
(* goes on beside the one that takes the job over.  The status              *)
(* of a target is kept in its own document, which whoever has read it       *)
(* writes back whole and does not wait for.                                 *)
(***************************************************************************)
EXTENDS Integers, Functions

CONSTANTS
    Repositories, OpenshiftProjects,   \* the targets of the two queues
    Parts,                \* what is copied to a target
    Refreshes,            \* requests for a refresh
    Workers,              \* the jobs that all processes together work on at once
    MaxChanges,           \* bound of the changes of secrets
    MaxSwitches,          \* bound of the targets switched off and on
    MaxSyncFaults         \* bound of deaths, lost locks and failed calls

ASSUME ChangesInNat == MaxChanges \in Nat /\ MaxSwitches \in Nat /\ MaxSyncFaults \in Nat
ASSUME TwoQueues == /\ Repositories \cap OpenshiftProjects = {}
                    /\ "none" \notin Repositories \cup OpenshiftProjects

Targets == Repositories \cup OpenshiftProjects

VARIABLES
    secrets,              \* version of the secrets in Vault
    copied,               \* the version that arrived, by target and part
    document,             \* the targets' documents
    queued,               \* a target's job that no worker has taken
    refresh,              \* the targets a request has yet to queue, as it read them
    worker,               \* the jobs being worked on
    writes,               \* whole documents on their way to the database
    switches, syncFaults, \* counters
    overrun               \* history: the parts last written by a worker that another had overtaken

syncQueueVars == <<secrets, copied, document, queued, refresh, worker, writes, switches, syncFaults,
                   overrun>>

Version == 0..MaxChanges

(* A document: the switch enableSyncSecrets and, for syncAt, the version    *)
(* that the job which set it had started from.                              *)
Document == [enabled : BOOLEAN, syncAt : Version]

(* A job: what is left to do, the document as it was read, the secret held  *)
(* between Vault and the target, whether its lock is lost, and (history)    *)
(* the version it began at and whether another worker has begun since.      *)
Resting == [target |-> "none", todo |-> {}, read |-> [enabled |-> FALSE, syncAt |-> 0],
            held |-> {}, lost |-> FALSE, began |-> 0, late |-> FALSE]

SyncQueueTypeOK ==
    /\ secrets \in Version /\ switches \in 0..MaxSwitches /\ syncFaults \in 0..MaxSyncFaults
    /\ copied \in [Targets -> [Parts -> Version]] /\ overrun \in [Targets -> SUBSET Parts]
    /\ document \in [Targets -> Document]
    /\ queued \in [Targets -> {"none", "delayed", "waiting"}]
    /\ refresh \in [Refreshes -> [begun : BOOLEAN, todo : UNION {[ts -> Document] : ts \in SUBSET Targets}]]
    /\ \A w \in Workers : \/ worker[w] = Resting
                          \/ worker[w] \in [target : Targets, todo : SUBSET Parts, read : Document,
                                            held : SUBSET [part : Parts, version : Version],
                                            lost : BOOLEAN, began : Version, late : BOOLEAN]
    /\ writes \subseteq [target : Targets, document : Document]

(* Nothing is queued; how many requests and faults are still to come is     *)
(* left open.                                                               *)
SyncQueueInit ==
    /\ secrets = 0 /\ switches = 0 /\ syncFaults \in 0..MaxSyncFaults
    /\ copied = [t \in Targets |-> [p \in Parts |-> 0]] /\ overrun = [t \in Targets |-> {}]
    /\ document = [t \in Targets |-> [enabled |-> TRUE, syncAt |-> 0]]
    /\ queued = [t \in Targets |-> "none"]
    /\ refresh \in [Refreshes -> [begun : BOOLEAN, todo : {<<>>}]]
    /\ worker = [w \in Workers |-> Resting]
    /\ writes = {}

Faulty == syncFaults < MaxSyncFaults /\ syncFaults' = syncFaults + 1

-----------------------------------------------------------------------------
(* The world around: somebody changes the secrets, or the switch of a       *)
(* target.                                                                  *)
ChangeSecrets ==
    /\ secrets < MaxChanges /\ secrets' = secrets + 1
    /\ UNCHANGED <<copied, document, queued, refresh, worker, writes, switches, syncFaults, overrun>>

Switch(t) ==
    /\ switches < MaxSwitches /\ switches' = switches + 1
    /\ document' = [document EXCEPT ![t].enabled = ~@]
    /\ UNCHANGED <<secrets, copied, queued, refresh, worker, writes, syncFaults, overrun>>

-----------------------------------------------------------------------------
(* Only the rule of the OpenShift projects has a requiredEnabledProperty.    *)
IsQueueTargetEnabled(t) == t \in OpenshiftProjects => document[t].enabled

(* refresh(): the targets of a request to one of the queues, read once;     *)
(* those not enabled are skipped by what was read.                          *)
BeginRefresh(r) ==
    /\ ~refresh[r].begun
    /\ \E reached \in ((SUBSET Repositories) \cup (SUBSET OpenshiftProjects)) \ {{}} :
          refresh' = [refresh EXCEPT ![r] =
              [begun |-> TRUE,
               todo |-> Restrict(document, {t \in reached : IsQueueTargetEnabled(t)})]]
    /\ UNCHANGED <<secrets, copied, document, queued, worker, writes, switches, syncFaults, overrun>>

AnyJob(t, u) == TRUE

(* The de-duplication id is made of the queue and the target. *)
SameJob(t, u) == t = u

BeingWorkedOn(t) == \E w \in Workers : SameJob(worker[w].target, t) /\ ~worker[w].lost

(* queue.add() with replace: a delayed job of the same id is replaced, next *)
(* to one that waits the new one is dropped.  While a job of that id is     *)
(* being worked on, BullMQ drops it or not, by its version.                 *)
Enqueued(t) ==
    LET same == {u \in Targets : SameJob(u, t) /\ queued[u] # "none"}
        added == [u \in Targets |-> IF u = t THEN "delayed"
                                    ELSE IF u \in same THEN "none" ELSE queued[u]]
    IN  \/ /\ \A u \in same : queued[u] = "delayed"
           /\ queued' = added
        \/ /\ \/ \E u \in same : queued[u] = "waiting"
              \/ BeingWorkedOn(t)
           /\ UNCHANGED queued

(* updateSyncStatus(): the document as it was read, with one field set. *)
WriteBack(t, doc) == writes' = writes \cup {[target |-> t, document |-> doc]}

(* queueTarget(): the job, then the status. *)
QueueTarget(r) ==
    /\ \E t \in DOMAIN refresh[r].todo :
          /\ Enqueued(t)
          /\ WriteBack(t, refresh[r].todo[t])
          /\ refresh' = [refresh EXCEPT ![r].todo = Restrict(@, DOMAIN @ \ {t})]
    /\ UNCHANGED <<secrets, copied, document, worker, switches, syncFaults, overrun>>

(* A request that fails or whose process dies leaves the rest unqueued. *)
RefreshDies(r) ==
    /\ refresh[r].todo # <<>> /\ Faulty
    /\ refresh' = [refresh EXCEPT ![r].todo = <<>>]
    /\ UNCHANGED <<secrets, copied, document, queued, worker, writes, switches, overrun>>

Land(x) ==
    /\ writes' = writes \ {x}
    /\ document' = [document EXCEPT ![x.target] = x.document]
    /\ UNCHANGED <<secrets, copied, queued, refresh, worker, switches, syncFaults, overrun>>

-----------------------------------------------------------------------------
Debounced(t) ==
    /\ queued[t] = "delayed"
    /\ queued' = [queued EXCEPT ![t] = "waiting"]
    /\ UNCHANGED <<secrets, copied, document, refresh, worker, writes, switches, syncFaults, overrun>>

(* The job of a repository that is switched off by now does nothing; that   *)
(* of a project does not look.                                              *)
MayCopy(t) == t \in Repositories => document[t].enabled

Begun(t) == [target |-> t, todo |-> Parts, read |-> document[t], held |-> {}, lost |-> FALSE,
             began |-> secrets, late |-> FALSE]

Overtaken(x, t) == IF worker[x].target = t THEN [worker[x] EXCEPT !.late = TRUE] ELSE worker[x]

TakeJob(w) ==
    /\ worker[w] = Resting
    /\ \E t \in Targets :
          /\ queued[t] = "waiting"
          /\ queued' = [queued EXCEPT ![t] = "none"]
          /\ worker' = IF MayCopy(t)
                         THEN [x \in Workers |-> IF x = w THEN Begun(t) ELSE Overtaken(x, t)]
                         ELSE worker
    /\ UNCHANGED <<secrets, copied, document, refresh, writes, switches, syncFaults, overrun>>

Job(w) == worker[w].target
WithSyncAt(w) == [worker[w].read EXCEPT !.syncAt = worker[w].began]

(* getKv(): the secrets of a service, or of a mapping, as they are now. *)
ReadSecret(w, p) ==
    /\ p \in worker[w].todo /\ worker[w].held = {}
    /\ worker' = [worker EXCEPT ![w].held = {[part |-> p, version |-> secrets]}]
    /\ UNCHANGED <<secrets, copied, document, queued, refresh, writes, switches, syncFaults, overrun>>

Arrives(w, h) ==
    /\ copied' = [copied EXCEPT ![Job(w)][h.part] = h.version]
    /\ overrun' = [overrun EXCEPT ![Job(w)] =
                     IF worker[w].late THEN @ \cup {h.part} ELSE @ \ {h.part}]

GoOn(w, p) == [worker[w] EXCEPT !.todo = @ \ {p}, !.held = {}]

(* syncSecrets() of a repository sets the status after each service. *)
CopyService(w, h) ==
    /\ Job(w) \in Repositories /\ h \in worker[w].held
    /\ Arrives(w, h)
    /\ WriteBack(Job(w), WithSyncAt(w))
    /\ worker' = [worker EXCEPT ![w] = [GoOn(w, h.part) EXCEPT !.read = WithSyncAt(w)]]
    /\ UNCHANGED <<secrets, document, queued, refresh, switches, syncFaults>>

(* applySecretToKubernetes() *)
CopyMapping(w, h) ==
    /\ Job(w) \in OpenshiftProjects /\ h \in worker[w].held
    /\ Arrives(w, h)
    /\ worker' = [worker EXCEPT ![w] = GoOn(w, h.part)]
    /\ UNCHANGED <<secrets, document, queued, refresh, writes, switches, syncFaults>>

(* A service that fails is reported and the next one follows; a mapping     *)
(* that fails is the end of the job.                                        *)
AfterFailure(w, p) ==
    IF Job(w) \in Repositories THEN GoOn(w, p) ELSE Resting

(* The call fails, or what was written arrives and its answer does not. *)
CopyFails(w, p) ==
    /\ p \in worker[w].todo /\ \A h \in worker[w].held : h.part = p
    /\ Faulty
    /\ worker' = [worker EXCEPT ![w] = AfterFailure(w, p)]
    /\ \/ \E h \in worker[w].held : Arrives(w, h)
       \/ UNCHANGED <<copied, overrun>>
    /\ UNCHANGED <<secrets, document, queued, refresh, writes, switches>>

EndJob(w) ==
    /\ worker[w] # Resting /\ worker[w].todo = {}
    /\ worker' = [worker EXCEPT ![w] = Resting]
    /\ IF Job(w) \in OpenshiftProjects
         THEN WriteBack(Job(w), WithSyncAt(w)) ELSE UNCHANGED writes
    /\ UNCHANGED <<secrets, copied, document, queued, refresh, switches, syncFaults, overrun>>

(* A stalled job waits again, or is given up the second time. *)
Retried(w) ==
    IF worker[w].lost THEN UNCHANGED queued
    ELSE \/ queued' = [queued EXCEPT ![Job(w)] = "waiting"]
         \/ UNCHANGED queued

(* The worker did not renew its lock in time; it does not know, and goes on. *)
Stall(w) ==
    /\ worker[w] # Resting /\ ~worker[w].lost /\ Faulty
    /\ worker' = [worker EXCEPT ![w].lost = TRUE]
    /\ Retried(w)
    /\ UNCHANGED <<secrets, copied, document, refresh, writes, switches, overrun>>

WorkerDies(w) ==
    /\ worker[w] # Resting /\ Faulty
    /\ worker' = [worker EXCEPT ![w] = Resting]
    /\ Retried(w)
    /\ UNCHANGED <<secrets, copied, document, refresh, writes, switches, overrun>>

WorkerStep(w) ==
    \/ TakeJob(w) \/ EndJob(w)
    \/ \E p \in Parts : ReadSecret(w, p)
    \/ \E h \in worker[w].held : CopyService(w, h) \/ CopyMapping(w, h)

SyncQueueNext ==
    \/ ChangeSecrets
    \/ \E t \in Targets : Switch(t) \/ Debounced(t)
    \/ \E r \in Refreshes : BeginRefresh(r) \/ QueueTarget(r) \/ RefreshDies(r)
    \/ \E x \in writes : Land(x)
    \/ \E w \in Workers : \/ TakeJob(w) \/ EndJob(w) \/ Stall(w) \/ WorkerDies(w)
                          \/ \E p \in Parts : ReadSecret(w, p) \/ CopyFails(w, p)
                          \/ \E h \in worker[w].held : CopyService(w, h) \/ CopyMapping(w, h)

(* Timers fire and workers go on. *)
SyncQueueFairness ==
    /\ \A t \in Targets : WF_syncQueueVars(Debounced(t))
    /\ \A w \in Workers : WF_syncQueueVars(WorkerStep(w))

SyncQueueSpec == SyncQueueInit /\ [][SyncQueueNext]_syncQueueVars /\ SyncQueueFairness

-----------------------------------------------------------------------------
(* The syncAt of an OpenShift project means that every mapping has been     *)
(* copied since the job that set it began: a job that fails halfway sets    *)
(* none, and whichever copy of the document is written back last, and       *)
(* whichever worker ends last, no mapping is older - but for those last     *)
(* written by a worker that went on after another had begun.                *)
SyncAtMeansSynced ==
    \A t \in OpenshiftProjects : \A p \in Parts \ overrun[t] :
        copied[t][p] >= document[t].syncAt

(* Once nothing fails any more, a target with a job in the queue gets the   *)
(* secrets as they are now or newer, whatever other targets are queued - a  *)
(* project even if it is switched off meanwhile, a repository unless it is. *)
QueuedIsSynced ==
    \A t \in Targets : \A v \in Version \ {0} :
        (syncFaults = MaxSyncFaults /\ queued[t] # "none" /\ secrets = v)
            ~> (\/ t \in Repositories /\ ~document[t].enabled
                \/ \A p \in Parts \ overrun[t] : copied[t][p] >= v)

=============================================================================
