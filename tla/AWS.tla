--------------------------------- MODULE AWS ---------------------------------
(***************************************************************************)
(* The AWS provider, src/internal/provider/aws: Provision, Deprovision and *)
(* CleanupOrphaned over the seven resources of a session, some of which    *)
(* live inside others.  One operation runs at a time; each API call that   *)
(* changes something, each wait and each access to the state file is an    *)
(* action, and between any two of them the process may crash or the        *)
(* context be cancelled.                                                   *)
(*                                                                         *)
(* A resource is identified by its kind and the number of its session, 0   *)
(* being the empty identifier.  The provider works in one region; a state  *)
(* file of another region, which LoadExistingState passes over, counts as  *)
(* none.                                                                   *)
(***************************************************************************)
EXTENDS Naturals, Sequences

CONSTANTS
    MaxSessions,   \* bound on the calls of Provision
    MaxFaults      \* bound on failed calls, lost answers, cancellations,
                   \* failed file accesses and crashes together

ASSUME AWSAssumption == MaxSessions \in Nat /\ MaxFaults \in Nat

Networking == {"vpc", "internetGateway", "subnet", "routeTable", "securityGroup"}
Kind    == Networking \cup {"keyPair", "instance"}
Session == 1..MaxSessions
Ids     == [Kind -> 0..MaxSessions]
NoIds   == [k \in Kind |-> 0]

VARIABLES
    (* the process; lost in a crash *)
    id,         \* vpcID, internetGatewayID, ..., keyPairName, instanceID
    session,    \* sessions begun
    op,         \* the operation that runs or ran last
    pc, at,     \* where it is, and the kind of resource it is busy with
    todo,       \* kinds still to be deleted
    failed,     \* an error will be returned
    result,     \* what the last operation returned
    ctxDone,    \* the operation's context is cancelled
    (* outside the process *)
    cloud,      \* the sessions whose resource of a kind exists
    attached,   \* the sessions whose gateway is attached to their VPC
    file,       \* none, whole, or torn by an interrupted write
    fileIds,    \* what a whole state file holds
    (* history and bounds *)
    faults,
    target,     \* identifiers known when the operation began to delete
    complete,   \* target then named all of one session, ready for use
    excuse,     \* a create was not answered, or a delete failed of itself
    unsaved     \* this session's state could not be saved at some step

process == <<id, op, pc, at, todo, failed, result, ctxDone>>
world   == <<cloud, attached, file, fileIds>>
history == <<target, complete, excuse, unsaved>>
vars    == <<process, session, world, faults, history>>

Init ==
    /\ id = NoIds /\ session = 0
    /\ op = "none" /\ pc = "idle" /\ at = "vpc" /\ todo = {}
    /\ failed = FALSE /\ result = "none" /\ ctxDone = FALSE
    /\ cloud = [k \in Kind |-> {}] /\ attached = {}
    /\ file = "none" /\ fileIds = NoIds
    /\ faults = 0 /\ target = NoIds /\ complete = FALSE
    /\ excuse = FALSE /\ unsaved = FALSE

Fault   == faults < MaxFaults /\ faults' = faults + 1
NoFault == UNCHANGED faults

-----------------------------------------------------------------------------
(* The calls *)

Begin(name) ==
    /\ pc = "idle"
    /\ op' = name /\ result' = "none" /\ failed' = FALSE /\ ctxDone' = FALSE
    /\ excuse' = FALSE /\ unsaved' = FALSE

Return(r) == pc' = "idle" /\ result' = r

\* An operation that returns at once.
Refuse(name, r) ==
    /\ pc = "idle"
    /\ op' = name /\ result' = r
    /\ failed' = FALSE /\ ctxDone' = FALSE
    /\ target' = NoIds /\ complete' = FALSE /\ excuse' = FALSE /\ unsaved' = FALSE
    /\ UNCHANGED <<id, pc, todo>>

Provision ==
    /\ Begin("Provision")
    /\ session < MaxSessions
    /\ session' = session + 1
    /\ pc' = "create" /\ at' = "vpc"
    /\ target' = NoIds /\ complete' = FALSE
    /\ UNCHANGED <<id, todo, world, faults>>

\* Mutant: only the instance counts.
HasProvisionedResources_InstanceOnly(ids) == ids["instance"] # 0

\* The instance and the VPC stand for all of it.
HasProvisionedResources(ids) == ids["instance"] # 0 \/ ids["vpc"] # 0

IsComplete(ids) ==
    \E s \in Session : /\ \A k \in Kind : ids[k] = s /\ s \in cloud[k]
                       /\ s \in attached

\* Mutant: the subnet goes before the instance that is in it.
DeleteOrder_SubnetFirst ==
    [instance |-> 2, keyPair |-> 3, securityGroup |-> 4, routeTable |-> 5,
     subnet |-> 1, internetGateway |-> 6, vpc |-> 7]

\* The turn of each kind when they are deleted.
DeleteOrder ==
    [instance |-> 1, keyPair |-> 2, securityGroup |-> 3, routeTable |-> 4,
     subnet |-> 5, internetGateway |-> 6, vpc |-> 7]

\* Start to delete the kinds in ks that ids names.
Delete(ks, ids) ==
    /\ pc' = "delete"
    /\ todo' = ks
    /\ target' = ids
    /\ complete' = IsComplete(ids)

Deprovision ==
    /\ \/ HasProvisionedResources(id) /\ Begin("Deprovision") /\ Delete(Kind, id) /\ id' = id
       \/ ~HasProvisionedResources(id) /\ Refuse("Deprovision", "not provisioned")
    /\ UNCHANGED <<at, session, world, faults>>

\* CleanupOrphaned reads the state file first.  A file that cannot be read or
\* parsed is an error; a file of this region, which always names a VPC, is
\* all it looks at; without one it looks for the tags.
CleanupOrphaned ==
    /\ \/ /\ IF file = "torn" THEN NoFault ELSE Fault
          /\ Refuse("CleanupOrphaned", "error")
       \/ /\ file = "whole"
          /\ id' = fileIds
          /\ Begin("CleanupOrphaned") /\ Delete(Kind, fileIds)
          /\ NoFault
       \/ /\ file = "none"
          /\ Begin("CleanupOrphaned")
          /\ pc' = "list"
          /\ target' = NoIds /\ complete' = FALSE
          /\ UNCHANGED <<id, todo>>
          /\ NoFault
    /\ UNCHANGED <<at, session, world>>

-----------------------------------------------------------------------------
(* Provision *)

\* What is made after kind k.
After(k) == CASE k = "vpc"             -> "internetGateway"
              [] k = "internetGateway" -> "subnet"
              [] k = "subnet"          -> "routeTable"
              [] k = "routeTable"      -> "securityGroup"
              [] k = "securityGroup"   -> "keyPair"
              [] k = "keyPair"         -> "instance"
              [] k = "instance"        -> "instance"

\* Mutant: a failed launch leaves the key pair.
UndoOf_NoKeyPair(k) == Networking

\* What is deleted when making kind k fails.
UndoOf(k) == IF k \in Networking THEN Networking ELSE Networking \cup {"keyPair"}

Undo(ks) ==
    /\ Delete(ks, id')
    /\ failed' = TRUE
    /\ at' = "vpc"
    /\ UNCHANGED <<op, result, ctxDone, session, unsaved>>

\* Mutant: the identifier of the instance is dropped.
CreateAnswered_NoInstance ==
    /\ pc = "create" /\ ~ctxDone
    /\ cloud' = [cloud EXCEPT ![at] = @ \cup {session}]
    /\ id' = [id EXCEPT ![at] = IF at = "instance" THEN @ ELSE session]
    /\ CASE at \in Networking -> pc' = "configure" /\ at' = at
         [] at = "keyPair"    -> pc' = "create" /\ at' = After(at)
         [] at = "instance"   -> pc' = "save" /\ at' = at
    /\ NoFault
    /\ UNCHANGED <<op, todo, failed, result, ctxDone, session, attached, file, fileIds,
                   history>>

\* A request is answered: the resource exists and its identifier is known.
CreateAnswered ==
    /\ pc = "create" /\ ~ctxDone
    /\ cloud' = [cloud EXCEPT ![at] = @ \cup {session}]
    /\ id' = [id EXCEPT ![at] = session]
    /\ CASE at \in Networking -> pc' = "configure" /\ at' = at
         [] at = "keyPair"    -> pc' = "create" /\ at' = After(at)
         [] at = "instance"   -> pc' = "save" /\ at' = at
    /\ NoFault
    /\ UNCHANGED <<op, todo, failed, result, ctxDone, session, attached, file, fileIds,
                   history>>

\* A request, or a look-up before it, fails and makes nothing.
CreateRefused ==
    /\ pc = "create"
    /\ IF ctxDone THEN NoFault ELSE Fault
    /\ id' = id
    /\ Undo(UndoOf(at))
    /\ UNCHANGED <<world, excuse>>

\* The resource is made and the answer is lost.
CreateUnanswered ==
    /\ pc = "create" /\ ~ctxDone
    /\ Fault
    /\ cloud' = [cloud EXCEPT ![at] = @ \cup {session}]
    /\ id' = id
    /\ Undo(UndoOf(at))
    /\ excuse' = TRUE
    /\ UNCHANGED <<attached, file, fileIds>>

\* Waiting for the new resource and setting it up: the gateway is attached,
\* the others get their attributes, routes and rules.
Configured ==
    /\ pc = "configure" /\ ~ctxDone
    /\ attached' = IF at = "internetGateway" THEN attached \cup {session} ELSE attached
    /\ IF at = "securityGroup" THEN pc' = "save" /\ at' = at
                               ELSE pc' = "create" /\ at' = After(at)
    /\ NoFault
    /\ UNCHANGED <<id, op, todo, failed, result, ctxDone, session, cloud, file, fileIds,
                   history>>

\* One of these calls fails; an attachment whose answer is lost is made.
ConfigureFails ==
    /\ pc = "configure"
    /\ \/ ctxDone /\ NoFault /\ attached' = attached
       \/ ~ctxDone /\ Fault /\ attached' = attached
       \/ ~ctxDone /\ Fault /\ at = "internetGateway" /\ attached' = attached \cup {session}
    /\ id' = id
    /\ Undo(UndoOf(at))
    /\ UNCHANGED <<cloud, file, fileIds, excuse>>

\* saveState comes after the networking, after the launch and at the end,
\* and Provision goes on whether it succeeds or not.
AfterSave ==
    CASE pc = "save final" -> Return("ok") /\ at' = "vpc"
      [] pc = "save" /\ at = "securityGroup" ->
            pc' = "create" /\ at' = After(at) /\ result' = result
      [] pc = "save" /\ at = "instance" ->
            pc' = "wait" /\ at' = at /\ result' = result

saveState ==
    /\ pc \in {"save", "save final"}
    /\ file' = "whole"
    /\ fileIds' = id
    /\ AfterSave
    /\ NoFault
    /\ UNCHANGED <<id, op, todo, failed, ctxDone, session, cloud, attached, history>>

SaveFails ==
    /\ pc \in {"save", "save final"}
    /\ Fault
    /\ file' \in {file, "torn"}
    /\ unsaved' = TRUE
    /\ AfterSave
    /\ UNCHANGED <<id, op, todo, failed, ctxDone, session, cloud, attached, fileIds,
                   target, complete, excuse>>

\* The instance runs, has an address and WireGuard's key is on its console.
Ready ==
    /\ pc = "wait" /\ ~ctxDone
    /\ pc' = "save final"
    /\ NoFault
    /\ UNCHANGED <<id, op, at, todo, failed, result, ctxDone, session, world, history>>

NotReady ==
    /\ pc = "wait"
    /\ IF ctxDone THEN NoFault ELSE Fault
    /\ id' = id
    /\ Undo(Kind)
    /\ UNCHANGED <<world, excuse>>

-----------------------------------------------------------------------------
(* terminateInstance, deleteKeyPair and deleteNetworking *)

\* The turn is kind k's.
Deleting(k) ==
    /\ pc \in {"delete", "detached"}
    /\ k \in todo /\ \A j \in todo : DeleteOrder[k] <= DeleteOrder[j]

NextDelete(k) ==
    /\ todo' = todo \ {k}
    /\ pc' = IF todo' = {} THEN "clear" ELSE "delete"

\* What keeps resource i of kind k from being deleted.
InUse(k, i) ==
    CASE k \in {"securityGroup", "subnet"} -> i \in cloud["instance"]
      [] k = "internetGateway" -> i \in attached
      [] k = "vpc" -> \/ i \in attached
                      \/ \E d \in {"subnet", "routeTable", "securityGroup", "instance"} :
                            i \in cloud[d]
      [] OTHER -> FALSE

\* Deleting what is gone is an error, except for a key pair, which is not
\* looked for, and for an instance, which stays listed as terminated a while.
Deletable(k, i) ==
    /\ i \in cloud[k] \/ k \in {"keyPair", "instance"}
    /\ ~InUse(k, i)

\* A gateway is detached first, unless there is no VPC any more.
MustDetach(k) == pc = "delete" /\ k = "internetGateway" /\ id["vpc"] # 0

CanDetach(i) == i \in attached /\ id["vpc"] = i /\ i \notin cloud["instance"]

\* deleteInternetGateway detaches the gateway from the VPC.
Detach ==
    /\ Deleting("internetGateway") /\ MustDetach("internetGateway")
    /\ id["internetGateway"] # 0
    /\ ~ctxDone /\ CanDetach(id["internetGateway"])
    /\ attached' = attached \ {id["internetGateway"]}
    /\ pc' = "detached"
    /\ NoFault
    /\ UNCHANGED <<id, op, at, todo, failed, result, ctxDone, session, cloud, file,
                   fileIds, history>>

\* There is nothing to delete, or it is deleted.
DeleteDone(k) ==
    /\ Deleting(k)
    /\ id[k] # 0 => ~ctxDone /\ ~MustDetach(k) /\ Deletable(k, id[k])
    /\ cloud' = [cloud EXCEPT ![k] = @ \ {id[k]}]
    /\ id' = [id EXCEPT ![k] = 0]
    /\ NextDelete(k)
    /\ NoFault
    /\ UNCHANGED <<op, at, failed, result, ctxDone, session, attached, file, fileIds,
                   history>>

\* Whether the next call for kind k could succeed.
CouldDelete(k) ==
    /\ ~ctxDone
    /\ IF MustDetach(k) THEN CanDetach(id[k]) ELSE Deletable(k, id[k])

\* Mutant: the error of a delete is not collected.
DeleteFails_Ignored(k) ==
    /\ Deleting(k) /\ id[k] # 0
    /\ IF CouldDelete(k) THEN Fault ELSE NoFault
    /\ excuse' = (excuse \/ ctxDone \/ CouldDelete(k))
    /\ NextDelete(k)
    /\ UNCHANGED <<id, op, at, failed, result, ctxDone, session, world, target,
                   complete, unsaved>>

\* The call fails, because it must or by a fault; a call whose answer is lost
\* has had its effect.  An instance already gone may be an error as well.
DeleteFails(k) ==
    /\ Deleting(k) /\ id[k] # 0
    /\ \/ /\ ~CouldDelete(k) \/ (k = "instance" /\ id[k] \notin cloud[k])
          /\ NoFault
          /\ UNCHANGED <<cloud, attached>>
       \/ /\ CouldDelete(k)
          /\ Fault
          /\ UNCHANGED <<cloud, attached>>
       \/ /\ CouldDelete(k) /\ ~MustDetach(k)
          /\ Fault
          /\ cloud' = [cloud EXCEPT ![k] = @ \ {id[k]}]
          /\ attached' = attached
       \/ /\ CouldDelete(k) /\ MustDetach(k)
          /\ Fault
          /\ attached' = attached \ {id[k]}
          /\ cloud' = cloud
    /\ failed' = TRUE
    /\ excuse' = (excuse \/ ctxDone \/ CouldDelete(k))
    /\ NextDelete(k)
    /\ UNCHANGED <<id, op, at, result, ctxDone, session, file, fileIds, target,
                   complete, unsaved>>

\* Mutant: the state file is emptied, not removed.
clearState_Emptied ==
    /\ pc = "clear"
    /\ file' = "whole"
    /\ fileIds' = NoIds
    /\ Return(IF failed THEN "error" ELSE "ok")
    /\ NoFault
    /\ UNCHANGED <<id, op, at, todo, failed, ctxDone, session, cloud, attached, history>>

clearState ==
    /\ pc = "clear"
    /\ file' = "none"
    /\ fileIds' = NoIds
    /\ Return(IF failed THEN "error" ELSE "ok")
    /\ NoFault
    /\ UNCHANGED <<id, op, at, todo, failed, ctxDone, session, cloud, attached, history>>

ClearFails ==
    /\ pc = "clear"
    /\ Fault
    /\ Return("error")
    /\ UNCHANGED <<id, op, at, todo, failed, ctxDone, session, world, history>>

-----------------------------------------------------------------------------
(* findResourcesByTag *)

\* Mutant: instances are not looked for.
ListOrder_NoInstance == <<"vpc", "internetGateway", "subnet", "routeTable",
                          "securityGroup", "keyPair">>

ListOrder == <<"vpc", "internetGateway", "subnet", "routeTable", "securityGroup",
               "instance", "keyPair">>

\* What the provider knows after it has listed the first n kinds; of several
\* resources of a kind it takes one.
Found(n) ==
    UNION {{[k \in Kind |-> IF k \in DOMAIN pick THEN pick[k] ELSE id[k]] :
              pick \in {p \in [known -> Session] : \A k \in known : p[k] \in cloud[k]}} :
           known \in {{ListOrder[i] : i \in {j \in 1..n : cloud[ListOrder[j]] # {}}}}}

Listed ==
    /\ pc = "list" /\ ~ctxDone
    /\ id' \in Found(Len(ListOrder))
    /\ \/ /\ HasProvisionedResources(id')
          /\ Delete(Kind, id')
          /\ result' = result
       \/ /\ ~HasProvisionedResources(id')
          /\ Return("ok")
          /\ UNCHANGED <<todo, target, complete>>
    /\ NoFault
    /\ UNCHANGED <<op, at, failed, ctxDone, session, world, excuse, unsaved>>

ListFails ==
    /\ pc = "list"
    /\ IF ctxDone THEN NoFault ELSE Fault
    /\ \E n \in 1..Len(ListOrder) : id' \in Found(n - 1)
    /\ Return("error")
    /\ UNCHANGED <<op, at, todo, failed, ctxDone, session, world, history>>

-----------------------------------------------------------------------------
(* Cancellation and crashes *)

CancelContext ==
    /\ pc # "idle"
    /\ ~ctxDone
    /\ Fault
    /\ ctxDone' = TRUE
    /\ UNCHANGED <<id, op, pc, at, todo, failed, result, session, world, history>>

\* The process dies and starts again with a new Provider for the same region.
\* A crash inside WriteFile leaves a truncated file.
Crash ==
    /\ Fault
    /\ file' \in {file} \cup (IF pc \in {"save", "save final"} THEN {"torn"} ELSE {})
    /\ id' = NoIds
    /\ op' = "none" /\ pc' = "idle" /\ at' = "vpc" /\ todo' = {}
    /\ failed' = FALSE /\ result' = "none" /\ ctxDone' = FALSE
    /\ target' = NoIds /\ complete' = FALSE /\ excuse' = FALSE /\ unsaved' = FALSE
    /\ UNCHANGED <<session, cloud, attached, fileIds>>

-----------------------------------------------------------------------------
Step ==
    \/ CreateAnswered \/ CreateRefused \/ CreateUnanswered
    \/ Configured \/ ConfigureFails
    \/ saveState \/ SaveFails
    \/ Ready \/ NotReady
    \/ Detach
    \/ \E k \in Kind : DeleteDone(k) \/ DeleteFails(k)
    \/ clearState \/ ClearFails
    \/ Listed \/ ListFails

Next ==
    \/ Provision \/ Deprovision \/ CleanupOrphaned
    \/ Step
    \/ CancelContext \/ Crash

Spec == Init /\ [][Next]_vars

\* An operation that has begun goes on, and CleanupOrphaned is called again
\* and again.
FairSpec == Spec /\ WF_vars(Step) /\ SF_vars(CleanupOrphaned)

-----------------------------------------------------------------------------
TypeOK ==
    /\ id \in Ids /\ session \in 0..MaxSessions
    /\ op \in {"none", "Provision", "Deprovision", "CleanupOrphaned"}
    /\ pc \in {"idle", "create", "configure", "save", "wait", "save final",
               "delete", "detached", "clear", "list"}
    /\ at \in Kind /\ todo \subseteq Kind
    /\ failed \in BOOLEAN /\ ctxDone \in BOOLEAN
    /\ result \in {"none", "ok", "error", "not provisioned"}
    /\ cloud \in [Kind -> SUBSET Session] /\ attached \subseteq Session
    /\ file \in {"none", "whole", "torn"} /\ fileIds \in Ids
    /\ file = "whole" => fileIds["vpc"] # 0
    /\ faults \in 0..MaxFaults
    /\ target \in Ids /\ complete \in BOOLEAN
    /\ excuse \in BOOLEAN /\ unsaved \in BOOLEAN

Returned(name, r) == pc = "idle" /\ op = name /\ result = r

NoResources == \A k \in Kind : cloud[k] = {}

\* A Provision that succeeds has all seven resources of this session, with
\* the gateway attached, remembers them and, unless a save failed, has them on
\* disk, also if identifiers of an earlier session were still in memory.
ProvisionedIsComplete ==
    Returned("Provision", "ok") =>
        /\ session \in attached
        /\ \A k \in Kind : /\ session \in cloud[k]
                           /\ id[k] = session
                           /\ ~unsaved => file = "whole" /\ fileIds[k] = session

\* "It should clean up all resources": a Deprovision that reports success has
\* deleted every resource it knew of when it began, and remembers none of
\* them in memory or on disk.
DeprovisionedIsGone ==
    Returned("Deprovision", "ok") =>
        /\ \A k \in Kind : target[k] \notin cloud[k]
        /\ id = NoIds
        /\ file = "none"

\* The order of deletion respects what lives in what: all that a successful
\* Provision has made can be deleted in one go, and it only fails if a call
\* does of itself.
CompleteIsRemovable ==
    pc = "idle" /\ op \in {"Deprovision", "CleanupOrphaned"} /\ complete /\ ~excuse =>
        /\ ~failed
        /\ \A k \in Kind : target[k] \notin cloud[k]

\* A Provision that fails leaves nothing of its session behind but, at worst,
\* an unattached gateway, unless the answer to a create was lost or a delete
\* failed in its turn.
FailedProvisionLeavesOnlyGateway ==
    Returned("Provision", "error") /\ ~excuse =>
        /\ session \notin attached
        /\ \A k \in Kind \ {"internetGateway"} : session \notin cloud[k]

\* If CleanupOrphaned is called again and again, no instance runs on for ever,
\* whatever the crashes, lost answers and cancellations before and although
\* other resources may stay, unless the state file was torn for good.
InstancesEnd == <>[](file # "torn") => <>[](cloud["instance"] = {})

\* Nothing at all stays: CleanupOrphaned "finds and cleans up any orphaned
\* resources that may have been left behind due to a crash".
EventuallyClean == <>[](file # "torn") => <>[]NoResources

-----------------------------------------------------------------------------
(* The provider keeps the promises of the interface. *)

phase ==
    CASE pc = "idle" -> "idle"
      [] pc \in {"create", "configure", "save", "wait", "save final"} -> "making"
      [] pc \in {"delete", "detached", "clear"} ->
            IF op = "Provision" THEN "undoing" ELSE "deleting"
      [] pc = "list" -> "searching"

Contract == INSTANCE Provider WITH Counted <- {"instance", "vpc"}, known <- id

\* Every step is one that the interface allows: only a Provision makes
\* resources, each of its own session and each once; only what an operation
\* set out to delete is deleted, and nothing that exists is forgotten by it;
\* success means that all is there, or that all is gone.
ImplementsProvider == Contract!Spec

=============================================================================
