------------------------------- MODULE Hetzner -------------------------------
(***************************************************************************)
(* The Hetzner provider, src/internal/provider/hetzner: Provision,         *)
(* Deprovision and CleanupOrphaned, the resources they make in the cloud,  *)
(* the identifiers the process remembers and the state file it keeps for   *)
(* the time after a crash.  One operation runs at a time; each API call,   *)
(* each wait and each access to the file is an action, and the process may *)
(* crash or the operation's context be cancelled between any two of them.  *)
(*                                                                         *)
(* A Provision makes at most one resource of each kind, so a resource is   *)
(* identified by its kind and the number of its session; 0 is no resource. *)
(***************************************************************************)
EXTENDS Naturals

CONSTANTS
    MaxSessions,   \* bound on the calls of Provision
    MaxFaults      \* bound on failed calls, lost answers, cancellations,
                   \* failed file accesses and crashes together

ASSUME HetznerAssumption == MaxSessions \in Nat /\ MaxFaults \in Nat

Kind    == {"firewall", "sshKey", "server"}
Session == 1..MaxSessions
Ids     == [Kind -> 0..MaxSessions]
NoIds   == [k \in Kind |-> 0]

VARIABLES
    (* the process; lost in a crash *)
    id,         \* firewallID, sshKeyID, serverID
    session,    \* sessions begun; the latest gives the labels their session
    op,         \* the operation that runs or ran last
    pc, at,     \* where it is, and the kind of resource it is busy with
    todo,       \* kinds still to be deleted or listed
    failed,     \* an error will be returned
    result,     \* what the last operation returned
    ctxDone,    \* the operation's context is cancelled
    (* outside the process *)
    cloud,      \* the sessions whose resource of a kind exists
    file,       \* the state file: none, whole, or torn by an interrupted write
    fileIds,    \* what a whole state file holds
    (* history and bounds *)
    faults,
    target,     \* identifiers known when the operation began to delete
    excuse,     \* a create was not answered, or a delete failed of itself
    unsaved     \* this session's state could not be saved at some step

process == <<id, op, pc, at, todo, failed, result, ctxDone>>
world   == <<cloud, file, fileIds>>
history == <<target, excuse, unsaved>>
vars    == <<process, session, world, faults, history>>

Init ==
    /\ id = NoIds /\ session = 0
    /\ op = "none" /\ pc = "idle" /\ at = "firewall" /\ todo = {}
    /\ failed = FALSE /\ result = "none" /\ ctxDone = FALSE
    /\ cloud = [k \in Kind |-> {}]
    /\ file = "none" /\ fileIds = NoIds
    /\ faults = 0 /\ target = NoIds /\ excuse = FALSE /\ unsaved = FALSE

Fault   == faults < MaxFaults /\ faults' = faults + 1
NoFault == UNCHANGED faults

-----------------------------------------------------------------------------
(* The calls *)

\* An operation begins with a context of its own.
Begin(name) ==
    /\ pc = "idle"
    /\ op' = name
    /\ result' = "none"
    /\ failed' = FALSE
    /\ ctxDone' = FALSE
    /\ excuse' = FALSE
    /\ unsaved' = FALSE

Return(r) ==
    /\ pc' = "idle"
    /\ result' = r

Provision ==
    /\ Begin("Provision")
    /\ session < MaxSessions
    /\ session' = session + 1
    /\ pc' = "create" /\ at' = "firewall"
    /\ target' = NoIds
    /\ UNCHANGED <<id, todo, world, faults>>

HasProvisionedResources(ids) == ids # NoIds

\* Deprovision is called, and begins to delete what ids names.
Delete(ids) ==
    /\ pc' = "delete"
    /\ todo' = Kind
    /\ target' = ids

Deprovision ==
    /\ pc = "idle"
    /\ IF HasProvisionedResources(id)
       THEN Begin("Deprovision") /\ Delete(id)
       ELSE /\ op' = "Deprovision" /\ result' = "not provisioned"
            /\ target' = NoIds
            /\ UNCHANGED <<pc, todo, failed, ctxDone, excuse, unsaved>>
    /\ UNCHANGED <<id, at, session, world, faults>>

\* Mutant: without a state file there is nothing to clean up.
CleanupOrphaned_FileOnly ==
    /\ pc = "idle"
    /\ \/ /\ file = "whole"
          /\ id' = fileIds
          /\ Begin("CleanupOrphaned") /\ Delete(fileIds)
       \/ /\ file # "whole"
          /\ op' = "CleanupOrphaned"
          /\ result' = IF file = "none" THEN "ok" ELSE "error"
          /\ target' = NoIds
          /\ UNCHANGED <<id, pc, todo, failed, ctxDone, excuse, unsaved>>
    /\ UNCHANGED <<at, session, world, faults>>

\* CleanupOrphaned reads the state file first.  A file that cannot be read or
\* parsed is an error; a file that is found (it always names a firewall) is
\* all it looks at; without a file it looks for the labels.
CleanupOrphaned ==
    /\ pc = "idle"
    /\ \/ /\ IF file = "torn" THEN NoFault ELSE Fault
          /\ op' = "CleanupOrphaned" /\ result' = "error"
          /\ target' = NoIds
          /\ UNCHANGED <<id, pc, todo, failed, ctxDone, excuse, unsaved>>
       \/ /\ file = "whole"
          /\ id' = fileIds
          /\ Begin("CleanupOrphaned") /\ Delete(fileIds)
          /\ NoFault
       \/ /\ file = "none"
          /\ Begin("CleanupOrphaned")
          /\ pc' = "list" /\ todo' = Kind /\ target' = NoIds
          /\ id' = id
          /\ NoFault
    /\ UNCHANGED <<at, session, world>>

-----------------------------------------------------------------------------
(* Provision *)

\* Mutant: a step that failed is taken to have made nothing.
UndoOf_EarlierOnly(k) ==
    CASE k = "firewall" -> {"firewall"}
      [] k = "sshKey"   -> {"firewall"}
      [] k = "server"   -> {"firewall", "sshKey"}

\* The kinds whose identifiers are deleted when the step for kind k fails.
UndoOf(k) ==
    CASE k = "firewall" -> {"firewall"}
      [] k = "sshKey"   -> {"firewall", "sshKey"}
      [] k = "server"   -> Kind

Undo(k) ==
    /\ pc' = "delete"
    /\ todo' = UndoOf(k)
    /\ failed' = TRUE
    /\ target' = id'

\* Mutant: the identifier in the answer is dropped.
CreateAnswered_NoId ==
    /\ pc = "create"
    /\ ~ctxDone
    /\ cloud' = [cloud EXCEPT ![at] = @ \cup {session}]
    /\ pc' = IF at = "sshKey" THEN "save" ELSE "wait"
    /\ UNCHANGED <<id, op, at, todo, failed, result, ctxDone, session, file, fileIds,
                   faults, history>>

\* A request is answered: the resource exists and its identifier is known.
CreateAnswered ==
    /\ pc = "create"
    /\ ~ctxDone
    /\ cloud' = [cloud EXCEPT ![at] = @ \cup {session}]
    /\ id' = [id EXCEPT ![at] = session]
    /\ pc' = IF at = "sshKey" THEN "save" ELSE "wait"
    /\ NoFault
    /\ UNCHANGED <<op, at, todo, failed, result, ctxDone, session, file, fileIds,
                   history>>

\* A request, or a look-up before it, fails and makes nothing; with a
\* cancelled context it always does.
CreateRefused ==
    /\ pc = "create"
    /\ IF ctxDone THEN NoFault ELSE Fault
    /\ id' = id
    /\ Undo(at)
    /\ UNCHANGED <<op, at, result, ctxDone, session, world, excuse, unsaved>>

\* The resource is made and the answer is lost.
CreateUnanswered ==
    /\ pc = "create"
    /\ ~ctxDone
    /\ Fault
    /\ cloud' = [cloud EXCEPT ![at] = @ \cup {session}]
    /\ id' = id
    /\ Undo(at)
    /\ excuse' = TRUE
    /\ UNCHANGED <<op, at, result, ctxDone, session, file, fileIds, unsaved>>

\* Mutant: the state is saved only at the end.
WaitDone_NoSave ==
    /\ pc = "wait"
    /\ ~ctxDone
    /\ pc' = IF at = "server" THEN "wait for WireGuard" ELSE "create"
    /\ at' = IF at = "server" THEN "server" ELSE "sshKey"
    /\ NoFault
    /\ UNCHANGED <<id, op, todo, failed, result, ctxDone, session, world, history>>

\* Waiting for the action, and for a server to run and to have an address.
WaitDone ==
    /\ pc = "wait"
    /\ ~ctxDone
    /\ pc' = "save"
    /\ NoFault
    /\ UNCHANGED <<id, op, at, todo, failed, result, ctxDone, session, world, history>>

WaitFails ==
    /\ pc = "wait"
    /\ IF ctxDone THEN NoFault ELSE Fault
    /\ id' = id
    /\ Undo(at)
    /\ UNCHANGED <<op, at, result, ctxDone, session, world, excuse, unsaved>>

\* After a save, with or without success, the next kind is made; after the
\* last, Provision waits for WireGuard.
AfterSave ==
    IF pc = "save final"
    THEN Return("ok") /\ at' = at
    ELSE /\ pc' = IF at = "server" THEN "wait for WireGuard" ELSE "create"
         /\ at' = IF at = "firewall" THEN "sshKey" ELSE "server"
         /\ result' = result

saveState ==
    /\ pc \in {"save", "save final"}
    /\ file' = "whole"
    /\ fileIds' = id
    /\ AfterSave
    /\ NoFault
    /\ UNCHANGED <<id, op, todo, failed, ctxDone, session, cloud, history>>

\* WriteFile fails before or after it has truncated the file; the error is
\* printed and forgotten.
SaveFails ==
    /\ pc \in {"save", "save final"}
    /\ Fault
    /\ file' \in {file, "torn"}
    /\ unsaved' = TRUE
    /\ AfterSave
    /\ UNCHANGED <<id, op, todo, failed, ctxDone, session, cloud, fileIds, target,
                   excuse>>

WireGuardReady ==
    /\ pc = "wait for WireGuard"
    /\ ~ctxDone
    /\ pc' = "save final"
    /\ NoFault
    /\ UNCHANGED <<id, op, at, todo, failed, result, ctxDone, session, world, history>>

WireGuardFails ==
    /\ pc = "wait for WireGuard"
    /\ IF ctxDone THEN NoFault ELSE Fault
    /\ id' = id
    /\ Undo("server")
    /\ UNCHANGED <<op, at, result, ctxDone, session, world, excuse, unsaved>>

-----------------------------------------------------------------------------
(* Deleting: the server first, then the key, then the firewall *)

First(kinds) == IF "server" \in kinds THEN "server"
                ELSE IF "sshKey" \in kinds THEN "sshKey" ELSE "firewall"

\* Done with kind k: the next one, or the state file.
NextDelete(k) ==
    /\ todo' = todo \ {k}
    /\ pc' = IF todo' = {} THEN "clear" ELSE "delete"

\* A server made with a firewall keeps it from being deleted.
InUse(k, i) == k = "firewall" /\ i \in cloud["server"]

\* There is nothing to delete, it is gone already, or it is deleted now.
DeleteDone(k) ==
    /\ pc = "delete" /\ k = First(todo)
    /\ id[k] # 0 => ~ctxDone /\ ~InUse(k, id[k])
    /\ cloud' = [cloud EXCEPT ![k] = @ \ {id[k]}]
    /\ id' = [id EXCEPT ![k] = 0]
    /\ NextDelete(k)
    /\ NoFault
    /\ UNCHANGED <<op, at, failed, result, ctxDone, session, file, fileIds, history>>

\* Mutant: the error of a delete is not collected.
DeleteFails_Ignored(k) ==
    /\ pc = "delete" /\ k = First(todo)
    /\ id[k] # 0
    /\ IF ctxDone \/ InUse(k, id[k]) THEN NoFault ELSE Fault
    /\ excuse' = (excuse \/ ctxDone \/ ~InUse(k, id[k]))
    /\ NextDelete(k)
    /\ UNCHANGED <<id, op, at, failed, result, ctxDone, session, world, target, unsaved>>

\* Mutant: the identifier is forgotten although the delete failed.
DeleteFails_Forgets(k) ==
    /\ pc = "delete" /\ k = First(todo)
    /\ id[k] # 0
    /\ IF ctxDone \/ InUse(k, id[k]) THEN NoFault ELSE Fault
    /\ id' = [id EXCEPT ![k] = 0]
    /\ failed' = TRUE
    /\ excuse' = (excuse \/ ctxDone \/ ~InUse(k, id[k]))
    /\ NextDelete(k)
    /\ UNCHANGED <<op, at, result, ctxDone, session, world, target, unsaved>>

\* The call fails; a delete whose answer is lost has had its effect.
DeleteFails(k) ==
    /\ pc = "delete" /\ k = First(todo)
    /\ id[k] # 0
    /\ IF ctxDone \/ InUse(k, id[k])
       THEN NoFault /\ cloud' = cloud
       ELSE Fault /\ cloud' \in {cloud, [cloud EXCEPT ![k] = @ \ {id[k]}]}
    /\ failed' = TRUE
    /\ excuse' = (excuse \/ ctxDone \/ ~InUse(k, id[k]))
    /\ NextDelete(k)
    /\ UNCHANGED <<id, op, at, result, ctxDone, session, file, fileIds, target,
                   unsaved>>

\* Mutant: the state file is emptied, not removed.
clearState_Emptied ==
    /\ pc = "clear"
    /\ file' = "whole"
    /\ fileIds' = NoIds
    /\ Return(IF failed THEN "error" ELSE "ok")
    /\ NoFault
    /\ UNCHANGED <<id, op, at, todo, failed, ctxDone, session, cloud, history>>

clearState ==
    /\ pc = "clear"
    /\ file' = "none"
    /\ fileIds' = NoIds
    /\ Return(IF failed THEN "error" ELSE "ok")
    /\ NoFault
    /\ UNCHANGED <<id, op, at, todo, failed, ctxDone, session, cloud, history>>

ClearFails ==
    /\ pc = "clear"
    /\ Fault
    /\ Return("error")
    /\ UNCHANGED <<id, op, at, todo, failed, ctxDone, session, world, history>>

-----------------------------------------------------------------------------
(* findResourcesByLabel: servers, firewalls, keys; the first of each *)

NextToList == IF "server" \in todo THEN "server"
              ELSE IF "firewall" \in todo THEN "firewall" ELSE "sshKey"

Listed(k) ==
    /\ pc = "list" /\ k = NextToList
    /\ ~ctxDone
    /\ IF cloud[k] = {} THEN id' = id
       ELSE \E s \in cloud[k] : id' = [id EXCEPT ![k] = s]
    /\ IF todo # {k} THEN /\ todo' = todo \ {k}
                          /\ UNCHANGED <<pc, result, target>>
       ELSE IF HasProvisionedResources(id')
            THEN Delete(id') /\ result' = result
            ELSE Return("ok") /\ todo' = {} /\ target' = target
    /\ NoFault
    /\ UNCHANGED <<op, at, failed, ctxDone, session, world, excuse, unsaved>>

ListFails ==
    /\ pc = "list"
    /\ IF ctxDone THEN NoFault ELSE Fault
    /\ Return("error")
    /\ todo' = {}
    /\ UNCHANGED <<id, op, at, failed, ctxDone, session, world, history>>

-----------------------------------------------------------------------------
(* Cancellation and crashes *)

CancelContext ==
    /\ pc # "idle"
    /\ ~ctxDone
    /\ Fault
    /\ ctxDone' = TRUE
    /\ UNCHANGED <<id, op, pc, at, todo, failed, result, session, world, history>>

\* The process dies and starts again with a new Provider.  A crash inside
\* WriteFile leaves a truncated file.
Crash ==
    /\ Fault
    /\ file' \in {file} \cup (IF pc \in {"save", "save final"} THEN {"torn"} ELSE {})
    /\ id' = NoIds
    /\ op' = "none" /\ pc' = "idle" /\ at' = "firewall" /\ todo' = {}
    /\ failed' = FALSE /\ result' = "none" /\ ctxDone' = FALSE
    /\ target' = NoIds /\ excuse' = FALSE /\ unsaved' = FALSE
    /\ UNCHANGED <<session, cloud, fileIds>>

-----------------------------------------------------------------------------
Step ==
    \/ CreateAnswered \/ CreateRefused \/ CreateUnanswered
    \/ WaitDone \/ WaitFails
    \/ saveState \/ SaveFails
    \/ WireGuardReady \/ WireGuardFails
    \/ \E k \in Kind : DeleteDone(k) \/ DeleteFails(k) \/ Listed(k)
    \/ clearState \/ ClearFails \/ ListFails

Next ==
    \/ Provision \/ Deprovision \/ CleanupOrphaned
    \/ Step
    \/ CancelContext \/ Crash

Spec == Init /\ [][Next]_vars

\* An operation that has begun goes on, and CleanupOrphaned is called again
\* and again.
FairSpec == Spec /\ WF_vars(Step) /\ SF_vars(CleanupOrphaned)

-----------------------------------------------------------------------------
TypeOK ==
    /\ id \in Ids /\ session \in 0..MaxSessions
    /\ op \in {"none", "Provision", "Deprovision", "CleanupOrphaned"}
    /\ pc \in {"idle", "create", "wait", "save", "wait for WireGuard",
               "save final", "delete", "clear", "list"}
    /\ at \in Kind /\ todo \subseteq Kind
    /\ failed \in BOOLEAN /\ ctxDone \in BOOLEAN
    /\ result \in {"none", "ok", "error", "not provisioned"}
    /\ cloud \in [Kind -> SUBSET Session]
    /\ file \in {"none", "whole", "torn"} /\ fileIds \in Ids
    /\ file = "whole" => fileIds["firewall"] # 0
    /\ faults \in 0..MaxFaults
    /\ target \in Ids /\ excuse \in BOOLEAN /\ unsaved \in BOOLEAN

Returned(name, r) == pc = "idle" /\ op = name /\ result = r

NothingOf(s)  == \A k \in Kind : s \notin cloud[k]
NoResources   == \A k \in Kind : cloud[k] = {}

\* A Provision that succeeds has the server, the key and the firewall of this
\* session, remembers them and, unless a save failed, has them on disk, also
\* if the identifiers of an earlier session were still in memory.
ProvisionedIsComplete ==
    Returned("Provision", "ok") =>
        \A k \in Kind : /\ session \in cloud[k]
                        /\ id[k] = session
                        /\ ~unsaved => file = "whole" /\ fileIds[k] = session

\* "It should clean up all resources": a Deprovision or a cleanup that
\* reports success has deleted every resource it knew of when it began, and
\* remembers none of them in memory or on disk.
DeprovisionedIsGone ==
    Returned("Deprovision", "ok") \/ Returned("CleanupOrphaned", "ok") =>
        /\ \A k \in Kind : target[k] \notin cloud[k]
        /\ id = NoIds
        /\ file = "none"

\* A crash loses at most the resource that is being made: while a Provision
\* whose saves succeed goes on, the file names every resource of this session
\* made by the steps before this one.
CrashLosesAtMostOne ==
    pc \in {"create", "wait", "save", "wait for WireGuard", "save final"} /\ ~unsaved =>
        \A k \in Kind :
            session \in cloud[k] /\ (k # at \/ pc \in {"wait for WireGuard", "save final"})
                => file = "whole" /\ fileIds[k] = session

\* A Provision that fails leaves nothing of its session behind, unless the
\* answer to a create was lost or a delete failed in its turn (a firewall that
\* its own server keeps in use is no such failure).
FailedProvisionLeavesNothing ==
    Returned("Provision", "error") /\ ~excuse => NothingOf(session)

\* If CleanupOrphaned is called again and again, nothing stays in the cloud,
\* whatever the crashes, lost answers and cancellations before, unless the
\* state file was torn for good.
EventuallyClean == <>[](file # "torn") => <>[]NoResources

-----------------------------------------------------------------------------
(* The provider keeps the promises of the interface. *)

phase ==
    CASE pc = "idle" -> "idle"
      [] pc \in {"create", "wait", "save", "wait for WireGuard", "save final"} -> "making"
      [] pc \in {"delete", "clear"} ->
            IF op = "Provision" THEN "undoing" ELSE "deleting"
      [] pc = "list" -> "searching"

Contract == INSTANCE Provider WITH Counted <- Kind, known <- id

\* Every step is one that the interface allows: only a Provision makes
\* resources, each of its own session and each once; only what an operation
\* set out to delete is deleted, and nothing that exists is forgotten by it;
\* success means that all is there, or that all is gone.
ImplementsProvider == Contract!Spec

=============================================================================
