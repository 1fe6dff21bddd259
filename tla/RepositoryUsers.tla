------------------------------ MODULE RepositoryUsers ------------------------------
(***************************************************************************)
(* The collaborators of a GitHub repository (github-sync.service.ts,        *)
(* syncUsers): the job lists them once, asks the graph role by role who     *)
(* should be one, adds or changes those that differ, and removes everybody  *)
(* it has not met.  The graph changes between two of its lookups and calls  *)
(* to GitHub fail.  One repository.                                         *)
(***************************************************************************)
EXTENDS Integers, Sequences

CONSTANTS
    People,                \* users of the graph, by their GitHub name
    EdgeToRoles,           \* the user collection's edgeToRoles: [edges, role]
    Holdings,              \* sets of edges by which a user may reach the repository
    OldRoles,              \* roles a collaborator may have to begin with
    MaxGrants,             \* bound of changes of the graph
    MaxGithubFaults        \* bound of failed calls

ASSUME UsersBounds ==
    Len(EdgeToRoles) \in Nat /\ MaxGrants \in Nat /\ MaxGithubFaults \in Nat

VARIABLES
    holds,                 \* the edges by which each user reaches the repository
    aliased,               \* users with exactly one alias
    collaborators,         \* what GitHub knows: a role, or "none"
    userSync,              \* the job's locals
    grants, githubFaults,
    moved, refused         \* since the job began: users regranted, calls that failed

usersVars == <<holds, aliased, collaborators, userSync, grants, githubFaults, moved, refused>>

Roles == {EdgeToRoles[i].role : i \in 1..Len(EdgeToRoles)} \cup OldRoles \cup {"none"}

UsersTypeOK ==
    /\ holds \in [People -> Holdings] /\ aliased \subseteq People
    /\ collaborators \in [People -> Roles]
    /\ userSync \in [step : {"none", "list", "query", "add", "remove", "done"},
                     entry : 1..(Len(EdgeToRoles) + 1), todo : SUBSET People,
                     touched : SUBSET People, listed : [People -> Roles]]
    /\ grants \in 0..MaxGrants /\ githubFaults \in 0..MaxGithubFaults
    /\ moved \subseteq People /\ refused \subseteq People

UsersInit ==
    /\ holds \in [People -> Holdings] /\ aliased \in SUBSET People
    /\ collaborators \in [People -> OldRoles \cup {"none"}]
    /\ userSync = [step |-> "none", entry |-> 1, todo |-> {}, touched |-> {},
                   listed |-> [u \in People |-> "none"]]
    /\ grants = 0 /\ githubFaults = 0 /\ moved = {} /\ refused = {}

GithubFails(u) ==
    /\ githubFaults < MaxGithubFaults /\ githubFaults' = githubFaults + 1
    /\ refused' = refused \cup {u}

(* Teams and accounts change while the job runs. *)
Regrant(u) ==
    /\ userSync.step \notin {"none", "done"}
    /\ grants < MaxGrants /\ grants' = grants + 1
    /\ \E held \in Holdings \ {holds[u]} : holds' = [holds EXCEPT ![u] = held]
    /\ moved' = moved \cup {u}
    /\ UNCHANGED <<aliased, collaborators, userSync, githubFaults, refused>>

BeginUserSync ==
    /\ userSync.step = "none"
    /\ userSync' = [userSync EXCEPT !.step = "list"]
    /\ UNCHANGED <<holds, aliased, collaborators, grants, githubFaults, moved, refused>>

(* A list that fails is the end of the job, and nothing was changed. *)
ListCollaborators ==
    /\ userSync.step = "list"
    /\ \/ /\ userSync' = [userSync EXCEPT !.step = "query", !.listed = collaborators]
          /\ UNCHANGED githubFaults
       \/ /\ githubFaults < MaxGithubFaults /\ githubFaults' = githubFaults + 1
          /\ userSync' = [userSync EXCEPT !.step = "none"]
    /\ UNCHANGED <<holds, aliased, collaborators, grants, moved, refused>>

Listed == {u \in People : userSync.listed[u] # "none"}

Everybody(u) == TRUE

(* A user met in an earlier entry has the higher role. *)
NotTouched(u) == u \notin userSync.touched

(* The users of an entry, or, after the last, those to remove. *)
QueryRole ==
    /\ userSync.step = "query"
    /\ LET i == userSync.entry IN
       IF i <= Len(EdgeToRoles)
         THEN LET found == {u \in aliased : /\ holds[u] \cap EdgeToRoles[i].edges # {}
                                            /\ NotTouched(u)}
              IN  userSync' = [userSync EXCEPT !.step = "add", !.todo = found]
         ELSE userSync' = [userSync EXCEPT !.step = "remove", !.todo = Listed \ userSync.touched]
    /\ UNCHANGED <<holds, aliased, collaborators, grants, githubFaults, moved, refused>>

(* addRepoCollaborator() *)
PutCollaborator(u, role) ==
    \/ /\ collaborators' = [collaborators EXCEPT ![u] = role]
       /\ UNCHANGED <<githubFaults, refused>>
    \/ GithubFails(u) /\ UNCHANGED collaborators

(* removeRepoCollaborator() *)
DropCollaborator(u) ==
    \/ /\ collaborators' = [collaborators EXCEPT ![u] = "none"]
       /\ UNCHANGED <<githubFaults, refused>>
    \/ GithubFails(u) /\ UNCHANGED collaborators

(* A user counts as met before the call, whether or not it succeeds. *)
AddCollaborators ==
    /\ userSync.step = "add"
    /\ LET role == EdgeToRoles[userSync.entry].role IN
       \/ \E u \in userSync.todo :
             /\ userSync' = [userSync EXCEPT !.todo = @ \ {u}, !.touched = @ \cup {u}]
             /\ \/ userSync.listed[u] # role /\ PutCollaborator(u, role)
                \/ userSync.listed[u] = role /\ UNCHANGED <<collaborators, githubFaults, refused>>
       \/ /\ userSync.todo = {}
          /\ userSync' = [userSync EXCEPT !.step = "query", !.entry = @ + 1]
          /\ UNCHANGED <<collaborators, githubFaults, refused>>
    /\ UNCHANGED <<holds, aliased, grants, moved>>

(* At the end syncAt is set, whatever failed. *)
RemoveCollaborators ==
    /\ userSync.step = "remove"
    /\ \/ \E u \in userSync.todo :
             /\ userSync' = [userSync EXCEPT !.todo = @ \ {u}]
             /\ DropCollaborator(u)
       \/ /\ userSync.todo = {}
          /\ userSync' = [userSync EXCEPT !.step = "done"]
          /\ UNCHANGED <<collaborators, githubFaults, refused>>
    /\ UNCHANGED <<holds, aliased, grants, moved>>

UsersNext ==
    \/ \E u \in People : Regrant(u)
    \/ BeginUserSync \/ ListCollaborators \/ QueryRole \/ AddCollaborators \/ RemoveCollaborators

UsersSpec == UsersInit /\ [][UsersNext]_usersVars

-----------------------------------------------------------------------------
(* The role of the highest entry one of the user's edges is in. *)
RoleFor(u) ==
    LET entries == {i \in 1..Len(EdgeToRoles) : holds[u] \cap EdgeToRoles[i].edges # {}}
    IN  IF u \notin aliased \/ entries = {} THEN "none"
        ELSE EdgeToRoles[CHOOSE i \in entries : \A j \in entries : i <= j].role

(* When the job is done, everybody whose place in the graph has not changed *)
(* under it has the highest role the graph gives, or nothing; one whose     *)
(* call was refused is as before: not removed and given no other role.      *)
SyncedUsersMatch ==
    userSync.step = "done" =>
        \A u \in People \ moved :
            collaborators[u] = IF u \in refused THEN userSync.listed[u] ELSE RoleFor(u)

=============================================================================
