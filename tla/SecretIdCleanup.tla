------------------------------ MODULE SecretIdCleanup ------------------------------
(***************************************************************************)
(* Provisioning a secret id for a service with exclusiveSecretIds           *)
(* (provision.service.ts, bull.service.ts): before it asks Vault for a new  *)
(* secret id a request lists those of the role, looks each up and schedules *)
(* its destruction for half an hour later.  Requests overlap, calls fail,   *)
(* and a job that throws is completed all the same.  One role.              *)
(***************************************************************************)
EXTENDS Integers, FiniteSets

CONSTANTS
    Provisions,          \* requests for a secret id
    Foreign,             \* secret ids of the role that the Broker did not generate
    MaxVaultFaults       \* bound of the failed calls

ASSUME ForeignAreNotGenerated == Foreign \subseteq {id \in Int : id <= 0}
ASSUME VaultFaultsInNat == MaxVaultFaults \in Nat
ASSUME ProvisionsAreFinite == IsFiniteSet(Provisions)

VARIABLES
    secretIds,           \* those Vault accepts; generated ones are numbered
    generated,           \* how many the Broker has generated
    provision,           \* the requests
    destroyQueue,        \* jobs of the queue VAULT_SECRET_IDS
    jobIds,              \* the job ids Redis knows
    vaultFaults,         \* failed calls
    barren               \* requests that scheduled and then did not get a new id

secretVars == <<secretIds, generated, provision, destroyQueue, jobIds, vaultFaults, barren>>

Waiting == [step |-> "none", todo |-> {}]

SecretTypeOK ==
    /\ generated \in 0..Cardinality(Provisions)
    /\ secretIds \subseteq (1..generated) \cup Foreign
    /\ provision \in [Provisions -> [step : {"none", "list", "lookup", "create", "done"},
                                     todo : SUBSET (1..generated \cup Foreign)]]
    /\ \A j \in destroyQueue : j.accessor \in jobIds /\ j.after \subseteq Provisions
    /\ jobIds \subseteq (1..generated) \cup Foreign
    /\ vaultFaults \in 0..MaxVaultFaults
    /\ barren \subseteq Provisions

SecretInit ==
    /\ secretIds = Foreign
    /\ generated = 0
    /\ provision = [r \in Provisions |-> Waiting]
    /\ destroyQueue = {} /\ jobIds = {}
    /\ vaultFaults = 0 /\ barren = {}

Underway == {r \in Provisions : provision[r].step \notin {"none", "done"}}

VaultFails == vaultFaults < MaxVaultFaults /\ vaultFaults' = vaultFaults + 1

CreateFirst(step) ==
    CASE step = "none" -> "create" [] step = "create" -> "list" [] OTHER -> "done"

(* The old ids are scheduled before the new one is asked for. *)
NextStep(step) ==
    CASE step = "none" -> "list" [] step = "create" -> "done" [] OTHER -> "create"

BeginProvision(r) ==
    /\ provision[r].step = "none"
    /\ provision' = [provision EXCEPT ![r].step = NextStep("none")]
    /\ UNCHANGED <<secretIds, generated, destroyQueue, jobIds, vaultFaults, barren>>

(* A list that fails or is empty is the end of the cleanup, not of the request. *)
ListSecretIds(r) ==
    /\ provision[r].step = "list"
    /\ \/ /\ secretIds # {}
          /\ provision' = [provision EXCEPT ![r] = [step |-> "lookup", todo |-> secretIds]]
          /\ UNCHANGED vaultFaults
       \/ /\ secretIds = {} /\ UNCHANGED vaultFaults
          /\ provision' = [provision EXCEPT ![r].step = NextStep("list")]
       \/ /\ VaultFails
          /\ provision' = [provision EXCEPT ![r].step = NextStep("list")]
    /\ UNCHANGED <<secretIds, generated, destroyQueue, jobIds, barren>>

(* metadata.action is generate-secret-id *)
IsGenerated(id) == id \notin Foreign

EnqueueUnnamed(id) ==
    /\ destroyQueue' = destroyQueue \cup {[accessor |-> id, after |-> Underway]}
    /\ UNCHANGED jobIds

(* queue.add() with a job id that Redis knows does nothing.  A job is       *)
(* delayed for half an hour, which the requests under way do not last.      *)
Enqueue(id) ==
    IF id \in jobIds THEN UNCHANGED <<destroyQueue, jobIds>>
    ELSE /\ destroyQueue' = destroyQueue \cup {[accessor |-> id, after |-> Underway]}
         /\ jobIds' = jobIds \cup {id}

(* The ids are looked up one after the other; a lookup fails also when the  *)
(* id was destroyed meanwhile.                                              *)
LookupSecretId(r) ==
    /\ provision[r].step = "lookup"
    /\ \E id \in provision[r].todo :
          /\ provision' = [provision EXCEPT
                ![r].todo = @ \ {id},
                ![r].step = IF @ = "lookup" /\ provision[r].todo = {id}
                              THEN NextStep("lookup") ELSE @]
          /\ \/ /\ id \in secretIds /\ IsGenerated(id)
                /\ Enqueue(id) /\ UNCHANGED vaultFaults
             \/ /\ ~(id \in secretIds /\ IsGenerated(id))
                /\ UNCHANGED <<destroyQueue, jobIds, vaultFaults>>
             \/ VaultFails /\ UNCHANGED <<destroyQueue, jobIds>>
    /\ UNCHANGED <<secretIds, generated, barren>>

(* tokenService.provisionSecretId() *)
CreateSecretId(r) ==
    /\ provision[r].step = "create"
    /\ \/ /\ generated' = generated + 1
          /\ secretIds' = secretIds \cup {generated'}
          /\ provision' = [provision EXCEPT ![r].step = NextStep("create")]
          /\ UNCHANGED <<vaultFaults, barren>>
       \/ /\ VaultFails
          /\ barren' = barren \cup {r}
          /\ provision' = [provision EXCEPT ![r].step = "done"]
          /\ UNCHANGED <<secretIds, generated>>
    /\ UNCHANGED <<destroyQueue, jobIds>>

KeptOnComplete(id) == jobIds

(* removeOnComplete *)
RemovedOnComplete(id) == jobIds \ {id}

(* The worker: whether Vault destroyed the secret id or not, the job is     *)
(* completed.                                                               *)
RunDestroyJob(j) ==
    /\ j.after \cap Underway = {}
    /\ destroyQueue' = destroyQueue \ {j}
    /\ jobIds' = RemovedOnComplete(j.accessor)
    /\ \/ secretIds' = secretIds \ {j.accessor} /\ UNCHANGED vaultFaults
       \/ VaultFails /\ UNCHANGED secretIds
    /\ UNCHANGED <<generated, provision, barren>>

ProvisionStep(r) == ListSecretIds(r) \/ LookupSecretId(r) \/ CreateSecretId(r)

SecretNext ==
    \/ \E r \in Provisions : BeginProvision(r) \/ ProvisionStep(r)
    \/ \E j \in destroyQueue : RunDestroyJob(j)

(* Vault answers or the call fails, and the worker takes a due job. *)
SecretFairness ==
    /\ \A r \in Provisions : WF_secretVars(ProvisionStep(r))
    /\ WF_secretVars(\E j \in destroyQueue : RunDestroyJob(j))

SecretSpec == SecretInit /\ [][SecretNext]_secretVars /\ SecretFairness

-----------------------------------------------------------------------------
(* The secret id handed out last stays valid, however the requests overlap, *)
(* unless a request was not given one after it had scheduled the others;    *)
(* and one the Broker did not generate is never destroyed.                  *)
NewestSurvives ==
    /\ generated > 0 /\ barren = {} => generated \in secretIds
    /\ Foreign \subseteq secretIds

(* Once Vault works again, a request destroys every older secret id in the  *)
(* end, those whose destruction failed before included.  (When there are as  *)
(* many as requests, no request is left that could replace the last one.)    *)
SupersededIsDestroyed ==
    \A id \in 1..(Cardinality(Provisions) - 1) :
        (vaultFaults = MaxVaultFaults /\ id \in secretIds /\ \E r \in Provisions : provision[r].step = "list")
            ~> id \notin secretIds

=============================================================================
