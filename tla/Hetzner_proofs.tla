--------------------------- MODULE Hetzner_proofs ---------------------------
(***************************************************************************)
(* The safety properties of the Hetzner provider, for any number of        *)
(* sessions and faults.                                                    *)
(***************************************************************************)
EXTENDS Hetzner, TLAPS

\* Only sessions that have begun have resources.
CloudIsPast == \A k \in Kind : \A s \in cloud[k] : s <= session

Working == {"create", "wait", "save", "wait for WireGuard", "save final"}

\* The kinds made before kind k, and those this Provision has made.
Before(k) == CASE k = "firewall" -> {}
               [] k = "sshKey"   -> {"firewall"}
               [] k = "server"   -> {"firewall", "sshKey"}

Made == CASE pc = "create"           -> Before(at)
          [] pc \in {"wait", "save"} -> UndoOf(at)
          [] OTHER                   -> Kind

\* While Provision makes resources it knows those it has made, and no other
\* resource of its session exists.
Making ==
    pc \in Working =>
        /\ op = "Provision" /\ session \in Session
        /\ \A k \in Kind : k \in Made => id[k] = session /\ session \in cloud[k]
        /\ \A k \in Kind : session \in cloud[k] => k \in Made

\* Unless a save failed, the file knows what the earlier steps have made.
Saved == IF pc \in {"create", "wait", "save"} THEN Before(at) ELSE Kind

Saving ==
    pc \in Working /\ ~unsaved =>
        \A k \in Kind : k \in Saved => file = "whole" /\ fileIds[k] = session

\* What an operation that deletes has and has not done yet.
Deleting ==
    /\ pc \in {"delete", "clear"} => op # "none" /\ (op = "Provision" => failed)
    /\ pc = "clear" => todo = {}
    /\ pc \in {"delete", "clear"} /\ op # "Provision" /\ ~failed =>
          \A k \in Kind : IF k \in todo THEN id[k] = target[k]
                          ELSE id[k] = 0 /\ target[k] \notin cloud[k]

\* A rollback has still to delete what exists of its session.
Undoing ==
    pc \in {"delete", "clear"} /\ op = "Provision" /\ ~excuse =>
        \A k \in Kind : session \in cloud[k] => k \in todo /\ id[k] = session

Listing == pc = "list" => op = "CleanupOrphaned" /\ target = NoIds /\ file = "none"

PC == {"idle", "create", "wait", "save", "wait for WireGuard", "save final",
       "delete", "clear", "list"}

\* TypeOK but for the Boolean variables, which depend on nothing else.
Types ==
    /\ id \in Ids /\ session \in 0..MaxSessions
    /\ op \in {"none", "Provision", "Deprovision", "CleanupOrphaned"}
    /\ pc \in PC
    /\ at \in Kind /\ todo \subseteq Kind
    /\ result \in {"none", "ok", "error", "not provisioned"}
    /\ cloud \in [Kind -> SUBSET Session]
    /\ file \in {"none", "whole", "torn"} /\ fileIds \in Ids
    /\ file = "whole" => fileIds["firewall"] # 0
    /\ faults \in 0..MaxFaults
    /\ target \in Ids

Booleans ==
    /\ failed \in BOOLEAN /\ ctxDone \in BOOLEAN
    /\ excuse \in BOOLEAN /\ unsaved \in BOOLEAN

IInv ==
    /\ Types
    /\ CloudIsPast
    /\ Making
    /\ Saving
    /\ Deleting
    /\ Undoing
    /\ Listing
    /\ ProvisionedIsComplete
    /\ DeprovisionedIsGone
    /\ FailedProvisionLeavesNothing

LEMMA Kinds ==
    /\ "firewall" \in Kind /\ "sshKey" \in Kind /\ "server" \in Kind
    /\ \A k \in Kind : k = "firewall" \/ k = "sshKey" \/ k = "server"
    /\ \A k \in Kind : Before(k) \subseteq Kind /\ UndoOf(k) = Before(k) \cup {k}
    /\ Before("firewall") = {} /\ Before("sshKey") = {"firewall"}
    /\ Before("server") = {"firewall", "sshKey"}
    /\ UndoOf("server") = Kind
  BY DEF Kind, Before, UndoOf

LEMMA EmptyIds == NoIds \in Ids /\ \A k \in Kind : NoIds[k] = 0
  BY HetznerAssumption DEF HetznerAssumption, NoIds, Ids

\* Faults stay below their bound.
LEMMA FaultsBounded ==
    ASSUME Types, Fault \/ NoFault
    PROVE  faults' \in 0..MaxFaults
<1>1. faults \in 0..MaxFaults
  BY DEF Types
<1>2. faults' = faults \/ (faults < MaxFaults /\ faults' = faults + 1)
  BY DEF Fault, NoFault
<1> QED
  BY <1>1, <1>2, HetznerAssumption DEF HetznerAssumption

LEMMA InitIInv == Init => IInv
<1> SUFFICES ASSUME Init PROVE IInv
  OBVIOUS
<1> USE HetznerAssumption, EmptyIds, Kinds DEF HetznerAssumption, Init
<1>1. Types
  BY DEF Types, PC
<1>2. CloudIsPast /\ Making /\ Saving /\ Deleting /\ Undoing /\ Listing
  BY DEF CloudIsPast, Making, Saving, Deleting, Undoing, Listing, Working
<1>3. ProvisionedIsComplete /\ DeprovisionedIsGone /\ FailedProvisionLeavesNothing
  BY DEF ProvisionedIsComplete, DeprovisionedIsGone, FailedProvisionLeavesNothing,
         Returned
<1> QED
  BY <1>1, <1>2, <1>3 DEF IInv

\* Provision begins: nothing of the new session exists yet.
LEMMA ProvisionStep ==
    ASSUME IInv, Provision
    PROVE  IInv'
<1> USE HetznerAssumption, EmptyIds, Kinds DEF HetznerAssumption, IInv
<1>1. /\ pc' = "create" /\ at' = "firewall" /\ op' = "Provision" /\ result' = "none"
      /\ session < MaxSessions /\ session' = session + 1 /\ target' = NoIds
      /\ UNCHANGED <<id, todo, cloud, file, fileIds, faults>>
  BY DEF Provision, Begin, world
<1>a. session \in Nat /\ session' \in Session /\ session' \in 0..MaxSessions
  <2>1. session \in 0..MaxSessions
    BY DEF Types
  <2> QED
    BY <1>1, <2>1 DEF Session
<1>2. Types'
  BY <1>1, <1>a DEF Types, PC
<1>b. \A k \in Kind : cloud[k] \subseteq Session
  BY DEF Types
<1>3. CloudIsPast'
  BY <1>1, <1>a, <1>b DEF CloudIsPast, Session
<1>4. \A k \in Kind : session' \notin cloud'[k]
  BY <1>1, <1>a, <1>b DEF CloudIsPast, Session
<1>5. Making' /\ Saving'
  <2>1. Made' = {} /\ Saved' = {}
    BY <1>1 DEF Made, Saved
  <2> QED
    BY <1>1, <1>a, <1>4, <2>1 DEF Making, Saving
<1>6. Deleting' /\ Undoing' /\ Listing'
  BY <1>1 DEF Deleting, Undoing, Listing
<1>7. ProvisionedIsComplete' /\ DeprovisionedIsGone' /\ FailedProvisionLeavesNothing'
  BY <1>1 DEF ProvisionedIsComplete, DeprovisionedIsGone,
              FailedProvisionLeavesNothing, Returned
<1> QED
  BY <1>2, <1>3, <1>5, <1>6, <1>7

\* An operation begins to delete, or to list, or returns at once.
LEMMA CleanStep ==
    ASSUME IInv, Deprovision \/ CleanupOrphaned
    PROVE  IInv'
<1> USE HetznerAssumption, EmptyIds, Kinds DEF HetznerAssumption, IInv
<1>1. /\ pc = "idle" /\ op' \in {"Deprovision", "CleanupOrphaned"}
      /\ UNCHANGED <<at, session, cloud, file, fileIds>>
  BY DEF Deprovision, CleanupOrphaned, Begin, world
<1>2. \/ /\ pc' = "idle" /\ result' \in {"error", "not provisioned"}
         /\ target' = NoIds /\ id' = id /\ todo' = todo
      \/ /\ pc' = "delete" /\ result' = "none" /\ ~failed' /\ todo' = Kind
         /\ target' = id' /\ id' \in {id, fileIds}
      \/ /\ pc' = "list" /\ op' = "CleanupOrphaned" /\ file = "none" /\ result' = "none"
         /\ target' = NoIds /\ todo' = Kind /\ id' = id
  <2>1. CASE Deprovision
    BY <2>1 DEF Deprovision, Begin, Delete
  <2>2. CASE CleanupOrphaned
    BY <2>2 DEF CleanupOrphaned, Begin, Delete
  <2> QED
    BY <2>1, <2>2
<1>3. faults' \in 0..MaxFaults
  BY FaultsBounded DEF Deprovision, CleanupOrphaned, NoFault
<1>4. Types'
  BY <1>1, <1>2, <1>3 DEF Types, PC
<1>5. CloudIsPast' /\ Making' /\ Saving' /\ Undoing'
  BY <1>1, <1>2 DEF CloudIsPast, Making, Saving, Undoing, Working
<1>6. Deleting' /\ Listing'
  BY <1>1, <1>2 DEF Deleting, Listing
<1>7. ProvisionedIsComplete' /\ DeprovisionedIsGone' /\ FailedProvisionLeavesNothing'
  BY <1>1, <1>2 DEF ProvisionedIsComplete, DeprovisionedIsGone,
                    FailedProvisionLeavesNothing, Returned
<1> QED
  BY <1>4, <1>5, <1>6, <1>7

\* A request is answered: one more resource exists and is known.
LEMMA MakeStep ==
    ASSUME IInv, CreateAnswered
    PROVE  IInv'
<1> USE HetznerAssumption, EmptyIds, Kinds DEF HetznerAssumption, IInv
<1>1. /\ pc = "create" /\ pc' \in {"save", "wait"}
      /\ cloud' = [cloud EXCEPT ![at] = @ \cup {session}]
      /\ id' = [id EXCEPT ![at] = session]
      /\ UNCHANGED <<op, at, todo, result, session, file, fileIds, faults, target, unsaved>>
  BY DEF CreateAnswered, NoFault, history
<1>2. /\ at \in Kind /\ session \in Session /\ session \in 0..MaxSessions
      /\ cloud \in [Kind -> SUBSET Session] /\ id \in Ids
  BY <1>1 DEF Making, Working, Types
<1>3. /\ id'[at] = session /\ session \in cloud'[at]
      /\ \A k \in Kind : k # at => id'[k] = id[k] /\ cloud'[k] = cloud[k]
      /\ cloud'[at] = cloud[at] \cup {session}
  BY <1>1, <1>2 DEF Ids
<1>4. Types'
  <2>1. cloud' \in [Kind -> SUBSET Session]
    BY <1>1, <1>2
  <2>2. id' \in Ids
    BY <1>1, <1>2 DEF Ids
  <2> QED
    BY <1>1, <2>1, <2>2 DEF Types, PC
<1>5. CloudIsPast'
  <2>1. session <= session
    BY <1>2
  <2> QED
    BY <1>1, <1>2, <1>3, <2>1 DEF CloudIsPast
<1>6. Made = Before(at) /\ Made' = Before(at) \cup {at} /\ Saved' = Saved
  BY <1>1, <1>2 DEF Made, Saved
<1>7. Making'
  BY <1>1, <1>2, <1>3, <1>6 DEF Making, Working
<1>8. Saving'
  BY <1>1, <1>6 DEF Saving, Working
<1>9. Deleting' /\ Undoing' /\ Listing'
  BY <1>1 DEF Deleting, Undoing, Listing
<1>10. ProvisionedIsComplete' /\ DeprovisionedIsGone' /\ FailedProvisionLeavesNothing'
  BY <1>1 DEF ProvisionedIsComplete, DeprovisionedIsGone,
              FailedProvisionLeavesNothing, Returned
<1> QED
  BY <1>4, <1>5, <1>7, <1>8, <1>9, <1>10

\* A step of Provision fails: the rollback has all that was made before it.
LEMMA UndoStep ==
    ASSUME IInv, CreateRefused \/ CreateUnanswered \/ WaitFails \/ WireGuardFails
    PROVE  IInv'
<1> USE HetznerAssumption, EmptyIds, Kinds DEF HetznerAssumption, IInv
<1>1. /\ pc \in {"create", "wait", "wait for WireGuard"} /\ pc' = "delete" /\ failed'
      /\ id' = id /\ target' = id
      /\ UNCHANGED <<op, at, result, session, file, fileIds>>
  BY DEF CreateRefused, CreateUnanswered, WaitFails, WireGuardFails, Undo, world
<1>2. at \in Kind /\ op = "Provision" /\ session \in Session
  BY <1>1 DEF Making, Working, Types
<1>3. todo' \subseteq Kind /\ Made \subseteq todo'
  <2>1. UndoOf(at) = Before(at) \cup {at} /\ Before(at) \subseteq Kind
    BY <1>2
  <2>2. \/ pc = "create" /\ todo' = UndoOf(at)
        \/ pc = "wait" /\ todo' = UndoOf(at)
        \/ pc = "wait for WireGuard" /\ todo' = Kind
    BY DEF CreateRefused, CreateUnanswered, WaitFails, WireGuardFails, Undo
  <2>3. CASE pc = "create"
    BY <1>2, <2>1, <2>2, <2>3 DEF Made
  <2>4. CASE pc = "wait"
    BY <1>2, <2>1, <2>2, <2>4 DEF Made
  <2>5. CASE pc = "wait for WireGuard"
    BY <2>2, <2>5 DEF Made
  <2> QED
    BY <1>1, <2>3, <2>4, <2>5
<1>4. \/ cloud' = cloud /\ excuse' = excuse
      \/ cloud' = [cloud EXCEPT ![at] = @ \cup {session}] /\ excuse'
  BY DEF CreateRefused, CreateUnanswered, WaitFails, WireGuardFails, world
<1>5. faults' \in 0..MaxFaults
  BY FaultsBounded DEF CreateRefused, CreateUnanswered, WaitFails, WireGuardFails
<1>a. session <= session
  BY <1>2 DEF Session
<1>b. cloud \in [Kind -> SUBSET Session]
  BY DEF Types
<1>c. cloud' \in [Kind -> SUBSET Session]
  BY <1>2, <1>4, <1>b
<1>6. Types'
  BY <1>1, <1>2, <1>3, <1>5, <1>c DEF Types, PC
<1>7. CloudIsPast'
  <2> SUFFICES ASSUME NEW k \in Kind, NEW s \in cloud'[k] PROVE s <= session
    BY <1>1 DEF CloudIsPast
  <2>1. s \in cloud[k] \/ s = session
    BY <1>2, <1>4, <1>b
  <2> QED
    BY <1>a, <2>1 DEF CloudIsPast
<1>8. Making' /\ Saving' /\ Listing'
  BY <1>1 DEF Making, Saving, Listing, Working
<1>9. Deleting'
  BY <1>1, <1>2 DEF Deleting
<1>10. Undoing'
  BY <1>1, <1>3, <1>4 DEF Undoing, Making, Working
<1>11. ProvisionedIsComplete' /\ DeprovisionedIsGone' /\ FailedProvisionLeavesNothing'
  BY <1>1 DEF ProvisionedIsComplete, DeprovisionedIsGone,
              FailedProvisionLeavesNothing, Returned
<1> QED
  BY <1>6, <1>7, <1>8, <1>9, <1>10, <1>11

\* Waiting ends well.
LEMMA WaitStep ==
    ASSUME IInv, WaitDone \/ WireGuardReady
    PROVE  IInv'
<1> USE HetznerAssumption, EmptyIds, Kinds DEF HetznerAssumption, IInv
<1>1. /\ \/ pc = "wait" /\ pc' = "save"
         \/ pc = "wait for WireGuard" /\ pc' = "save final"
      /\ UNCHANGED <<id, op, at, todo, failed, result, session, cloud, file, fileIds,
                     faults, target, excuse, unsaved>>
  BY DEF WaitDone, WireGuardReady, NoFault, world, history
<1>2. Types'
  BY <1>1 DEF Types, PC
<1>3. Made' = Made /\ Saved' = Saved
  BY <1>1 DEF Made, Saved
<1>4. CloudIsPast' /\ Making' /\ Saving'
  BY <1>1, <1>3 DEF CloudIsPast, Making, Saving, Working
<1>5. Deleting' /\ Undoing' /\ Listing'
  BY <1>1 DEF Deleting, Undoing, Listing
<1>6. ProvisionedIsComplete' /\ DeprovisionedIsGone' /\ FailedProvisionLeavesNothing'
  BY <1>1 DEF ProvisionedIsComplete, DeprovisionedIsGone,
              FailedProvisionLeavesNothing, Returned
<1> QED
  BY <1>2, <1>4, <1>5, <1>6

\* A save, with or without success; after the last Provision returns.
LEMMA SaveStep ==
    ASSUME IInv, saveState \/ SaveFails
    PROVE  IInv'
<1> USE HetznerAssumption, EmptyIds, Kinds DEF HetznerAssumption, IInv
<1>1. /\ pc \in {"save", "save final"} /\ AfterSave
      /\ UNCHANGED <<id, op, todo, failed, session, cloud, target, excuse>>
  BY DEF saveState, SaveFails, history
<1>2. \/ file' = "whole" /\ fileIds' = id /\ unsaved' = unsaved
      \/ file' \in {file, "torn"} /\ fileIds' = fileIds /\ unsaved'
  BY DEF saveState, SaveFails, history
<1>a. at \in Kind /\ op = "Provision" /\ session \in Session
  BY <1>1 DEF Making, Working, Types
<1>3. at \in Kind /\ op = "Provision" /\ session \in Session /\ session # 0
  BY <1>a DEF Session
<1>4. /\ "firewall" \in Made
      /\ \/ /\ pc' \in {"create", "wait for WireGuard"} /\ result' = result
            /\ Made' = Made /\ Saved' = Made
         \/ /\ pc' = "idle" /\ result' = "ok" /\ Made = Kind
      /\ at' \in Kind
  <2>1. CASE pc = "save final"
    BY <1>1, <1>3, <2>1 DEF AfterSave, Return, Made
  <2>2. CASE pc = "save" /\ at = "firewall"
    BY <1>1, <2>2 DEF AfterSave, Made, Saved
  <2>3. CASE pc = "save" /\ at = "sshKey"
    BY <1>1, <2>3 DEF AfterSave, Made, Saved
  <2>4. CASE pc = "save" /\ at = "server"
    BY <1>1, <2>4 DEF AfterSave, Made, Saved
  <2> QED
    BY <1>1, <1>3, <2>1, <2>2, <2>3, <2>4
<1>5. \A k \in Kind : k \in Made => id[k] = session /\ session \in cloud[k]
  BY <1>1 DEF Making, Working
<1>6. faults' \in 0..MaxFaults
  BY FaultsBounded DEF saveState, SaveFails
<1>7. Types'
  BY <1>1, <1>2, <1>3, <1>4, <1>5, <1>6 DEF Types, PC
<1>8. CloudIsPast' /\ Making'
  BY <1>1, <1>3, <1>4 DEF CloudIsPast, Making, Working
<1>9. Saving'
  BY <1>1, <1>2, <1>4, <1>5 DEF Saving, Working
<1>10. Deleting' /\ Undoing' /\ Listing'
  BY <1>4 DEF Deleting, Undoing, Listing
<1>11. ProvisionedIsComplete'
  BY <1>1, <1>2, <1>4, <1>5 DEF ProvisionedIsComplete, Returned
<1>12. DeprovisionedIsGone' /\ FailedProvisionLeavesNothing'
  BY <1>1, <1>3, <1>4 DEF DeprovisionedIsGone, FailedProvisionLeavesNothing, Returned
<1> QED
  BY <1>7, <1>8, <1>9, <1>10, <1>11, <1>12

\* What DeleteDone and DeleteFails share.
LEMMA NextDeleteFacts ==
    ASSUME Types, NEW k \in Kind, k = First(todo), pc = "delete", NextDelete(k)
    PROVE  /\ todo' = todo \ {k} /\ todo' \subseteq Kind
           /\ pc' \in {"delete", "clear"} /\ (pc' = "clear" => todo' = {})
           /\ k = "firewall" => "server" \notin todo
  BY Kinds DEF Types, NextDelete, First

\* Kind k is deleted, or nothing of it was known.
LEMMA DeleteDoneStep ==
    ASSUME IInv, NEW k \in Kind, DeleteDone(k)
    PROVE  IInv'
<1> USE HetznerAssumption, EmptyIds, Kinds DEF HetznerAssumption, IInv
<1>1. /\ pc = "delete"
      /\ cloud' = [cloud EXCEPT ![k] = @ \ {id[k]}]
      /\ id' = [id EXCEPT ![k] = 0]
      /\ UNCHANGED <<op, at, failed, result, session, file, fileIds, faults, target,
                     excuse, unsaved>>
  BY DEF DeleteDone, NoFault, history
<1>2. /\ todo' = todo \ {k} /\ todo' \subseteq Kind
      /\ pc' \in {"delete", "clear"} /\ (pc' = "clear" => todo' = {})
  BY NextDeleteFacts DEF DeleteDone
<1>3. cloud \in [Kind -> SUBSET Session] /\ id \in Ids /\ target \in Ids
  BY DEF Types
<1>4. /\ id'[k] = 0 /\ cloud'[k] = cloud[k] \ {id[k]}
      /\ \A j \in Kind : j # k => id'[j] = id[j] /\ cloud'[j] = cloud[j]
      /\ \A j \in Kind : cloud'[j] \subseteq cloud[j]
  BY <1>1, <1>3 DEF Ids
<1>5. Types'
  <2>1. cloud' \in [Kind -> SUBSET Session]
    BY <1>1, <1>3
  <2>2. id' \in Ids
    BY <1>1, <1>3 DEF Ids
  <2> QED
    BY <1>1, <1>2, <2>1, <2>2 DEF Types, PC
<1>6. CloudIsPast'
  BY <1>1, <1>4 DEF CloudIsPast
<1>7. Making' /\ Saving' /\ Listing'
  BY <1>2 DEF Making, Saving, Listing, Working
<1>8. Deleting'
  <2> SUFFICES ASSUME op # "Provision", ~failed, NEW j \in Kind
               PROVE  IF j \in todo' THEN id'[j] = target[j]
                      ELSE id'[j] = 0 /\ target[j] \notin cloud'[j]
    BY <1>1, <1>2 DEF Deleting
  <2>1. IF j \in todo THEN id[j] = target[j]
        ELSE id[j] = 0 /\ target[j] \notin cloud[j]
    BY <1>1 DEF Deleting
  <2>2. CASE j = k
    BY <1>2, <1>4, <2>1, <2>2
  <2>3. CASE j # k
    BY <1>2, <1>4, <2>1, <2>3
  <2> QED
    BY <2>2, <2>3
<1>9. Undoing'
  BY <1>1, <1>2, <1>4 DEF Undoing
<1>10. ProvisionedIsComplete' /\ DeprovisionedIsGone' /\ FailedProvisionLeavesNothing'
  BY <1>2 DEF ProvisionedIsComplete, DeprovisionedIsGone,
              FailedProvisionLeavesNothing, Returned
<1> QED
  BY <1>5, <1>6, <1>7, <1>8, <1>9, <1>10

\* A delete fails.  In a rollback without an excuse it is that of a firewall
\* some server keeps in use, and then not of this session's.
LEMMA DeleteFailsStep ==
    ASSUME IInv, NEW k \in Kind, DeleteFails(k)
    PROVE  IInv'
<1> USE HetznerAssumption, EmptyIds, Kinds DEF HetznerAssumption, IInv
<1>1. /\ pc = "delete" /\ failed'
      /\ UNCHANGED <<id, op, at, result, session, file, fileIds, target>>
  BY DEF DeleteFails
<1>2. /\ todo' = todo \ {k} /\ todo' \subseteq Kind
      /\ pc' \in {"delete", "clear"} /\ (pc' = "clear" => todo' = {})
      /\ k = "firewall" => "server" \notin todo
  BY NextDeleteFacts DEF DeleteFails
<1>3. cloud \in [Kind -> SUBSET Session]
  BY DEF Types
<1>4. \/ cloud' = cloud
      \/ cloud' = [cloud EXCEPT ![k] = @ \ {id[k]}]
  BY DEF DeleteFails
<1>5. cloud' \in [Kind -> SUBSET Session] /\ \A j \in Kind : cloud'[j] \subseteq cloud[j]
  BY <1>3, <1>4
<1>6. faults' \in 0..MaxFaults
  BY FaultsBounded DEF DeleteFails
<1>7. Types'
  BY <1>1, <1>2, <1>5, <1>6 DEF Types, PC
<1>8. CloudIsPast'
  BY <1>1, <1>5 DEF CloudIsPast
<1>9. Making' /\ Saving' /\ Listing'
  BY <1>2 DEF Making, Saving, Listing, Working
<1>10. Deleting'
  BY <1>1, <1>2 DEF Deleting
<1>11. Undoing'
  <2> SUFFICES ASSUME op = "Provision", ~excuse', NEW j \in Kind, session \in cloud'[j]
               PROVE  j \in todo' /\ id[j] = session
    BY <1>1, <1>2 DEF Undoing
  <2>1. ~excuse /\ InUse(k, id[k])
    BY DEF DeleteFails
  <2>2. j \in todo /\ id[j] = session
    BY <1>1, <1>5, <2>1 DEF Undoing
  <2>3. "server" \notin todo /\ id[k] \in cloud["server"] /\ k = "firewall"
    BY <1>2, <2>1 DEF InUse
  <2>4. session \notin cloud["server"]
    BY <1>1, <2>1, <2>3 DEF Undoing
  <2> QED
    BY <1>2, <2>2, <2>3, <2>4
<1>12. ProvisionedIsComplete' /\ DeprovisionedIsGone' /\ FailedProvisionLeavesNothing'
  BY <1>2 DEF ProvisionedIsComplete, DeprovisionedIsGone,
              FailedProvisionLeavesNothing, Returned
<1> QED
  BY <1>7, <1>8, <1>9, <1>10, <1>11, <1>12

\* The operation returns when all deletes have been tried.
LEMMA ClearStep ==
    ASSUME IInv, clearState \/ ClearFails
    PROVE  IInv'
<1> USE HetznerAssumption, EmptyIds, Kinds DEF HetznerAssumption, IInv
<1>1. /\ pc = "clear" /\ pc' = "idle" /\ todo = {}
      /\ UNCHANGED <<id, op, at, todo, failed, session, cloud, target, excuse, unsaved>>
  BY DEF clearState, ClearFails, Return, world, history, Deleting
<1>2. \/ /\ file' = "none" /\ fileIds' = NoIds
         /\ result' = IF failed THEN "error" ELSE "ok"
      \/ file' = file /\ fileIds' = fileIds /\ result' = "error"
  BY DEF clearState, ClearFails, Return, world
<1>3. faults' \in 0..MaxFaults
  BY FaultsBounded DEF clearState, ClearFails
<1>4. Types'
  BY <1>1, <1>2, <1>3 DEF Types, PC
<1>5. CloudIsPast' /\ Making' /\ Saving' /\ Deleting' /\ Undoing' /\ Listing'
  BY <1>1 DEF CloudIsPast, Making, Saving, Deleting, Undoing, Listing, Working
<1>6. ProvisionedIsComplete'
  BY <1>1, <1>2 DEF ProvisionedIsComplete, Returned, Deleting
<1>7. DeprovisionedIsGone'
  <2> SUFFICES ASSUME op # "Provision", result' = "ok"
               PROVE  /\ \A k \in Kind : target[k] \notin cloud[k]
                      /\ id = NoIds /\ file' = "none"
    BY <1>1 DEF DeprovisionedIsGone, Returned
  <2>1. ~failed /\ file' = "none"
    BY <1>2
  <2>2. \A k \in Kind : id[k] = 0 /\ target[k] \notin cloud[k]
    BY <1>1, <2>1 DEF Deleting
  <2>3. id = NoIds
    BY <2>2 DEF Types, Ids, NoIds
  <2> QED
    BY <2>1, <2>2, <2>3
<1>8. FailedProvisionLeavesNothing'
  BY <1>1 DEF FailedProvisionLeavesNothing, Returned, NothingOf, Undoing
<1> QED
  BY <1>4, <1>5, <1>6, <1>7, <1>8

\* A listing goes on, finds something to delete, finds nothing, or fails.
LEMMA ListStep ==
    ASSUME IInv, ListFails \/ \E k \in Kind : Listed(k)
    PROVE  IInv'
<1> USE HetznerAssumption, EmptyIds, Kinds DEF HetznerAssumption, IInv
<1>1. /\ pc = "list" /\ op = "CleanupOrphaned" /\ target = NoIds /\ file = "none"
      /\ UNCHANGED <<op, at, session, cloud, file, fileIds>>
  BY DEF ListFails, Listed, world, Listing
<1>2. \/ /\ pc' = "list" /\ target' = target /\ result' = result /\ todo' \subseteq todo
      \/ /\ pc' = "delete" /\ target' = id' /\ todo' = Kind /\ result' = result
         /\ failed' = failed
      \/ /\ pc' = "idle" /\ target' = target /\ todo' = {}
         /\ result' = "error" \/ (result' = "ok" /\ id' = NoIds)
  <2>1. CASE ListFails
    BY <2>1 DEF ListFails, Return, history
  <2>2. ASSUME NEW k \in Kind, Listed(k), todo # {k}
        PROVE  pc' = "list" /\ target' = target /\ result' = result /\ todo' \subseteq todo
    BY <1>1, <2>2 DEF Listed
  <2>3. ASSUME NEW k \in Kind, Listed(k), todo = {k}, id' # NoIds
        PROVE  /\ pc' = "delete" /\ target' = id' /\ todo' = Kind /\ result' = result
               /\ failed' = failed
    BY <2>3 DEF Listed, Delete, HasProvisionedResources
  <2>4. ASSUME NEW k \in Kind, Listed(k), todo = {k}, id' = NoIds
        PROVE  /\ pc' = "idle" /\ target' = target /\ todo' = {}
               /\ result' = "ok"
    BY <2>4 DEF Listed, Return, HasProvisionedResources
  <2> QED
    BY <2>1, <2>2, <2>3, <2>4
<1>3. id' \in Ids
  <2>1. id \in Ids /\ cloud \in [Kind -> SUBSET Session]
    BY DEF Types
  <2>2. CASE ListFails
    BY <2>1, <2>2 DEF ListFails
  <2>3. ASSUME NEW k \in Kind, Listed(k)
        PROVE  id' \in Ids
    <3>1. CASE id' = id
      BY <2>1, <3>1
    <3>2. CASE \E s \in cloud[k] : id' = [id EXCEPT ![k] = s]
      <4>1. PICK s \in cloud[k] : id' = [id EXCEPT ![k] = s]
        BY <3>2
      <4>2. s \in 0..MaxSessions
        BY <2>1 DEF Session
      <4> QED
        BY <2>1, <4>1, <4>2 DEF Ids
    <3> QED
      BY <2>3, <3>1, <3>2 DEF Listed
  <2> QED
    BY <2>2, <2>3
<1>4. faults' \in 0..MaxFaults
  BY FaultsBounded DEF ListFails, Listed
<1>5. Types'
  BY <1>1, <1>2, <1>3, <1>4 DEF Types, PC
<1>6. CloudIsPast' /\ Making' /\ Saving' /\ Undoing' /\ Listing'
  BY <1>1, <1>2 DEF CloudIsPast, Making, Saving, Undoing, Listing, Working
<1>7. Deleting'
  BY <1>1, <1>2 DEF Deleting
<1>8. ProvisionedIsComplete' /\ FailedProvisionLeavesNothing'
  BY <1>1 DEF ProvisionedIsComplete, FailedProvisionLeavesNothing, Returned
<1>9. DeprovisionedIsGone'
  <2>1. \A k \in Kind : cloud[k] \subseteq Session
    BY DEF Types
  <2>2. 0 \notin Session
    BY DEF Session
  <2>3. \A k \in Kind : NoIds[k] \notin cloud[k]
    BY <2>1, <2>2
  <2> QED
    BY <1>1, <1>2, <2>3 DEF DeprovisionedIsGone, Returned
<1> QED
  BY <1>5, <1>6, <1>7, <1>8, <1>9

\* A cancellation changes nothing that the invariant speaks of.
LEMMA CancelStep ==
    ASSUME IInv, CancelContext
    PROVE  IInv'
<1> USE DEF IInv
<1>1. UNCHANGED <<id, op, pc, at, todo, failed, result, session, cloud, file, fileIds,
                  target, excuse, unsaved>>
  BY DEF CancelContext, world, history
<1>2. faults' \in 0..MaxFaults
  BY FaultsBounded DEF CancelContext
<1>3. Types'
  BY <1>1, <1>2 DEF Types
<1>4. CloudIsPast' /\ Making' /\ Saving' /\ Deleting' /\ Undoing' /\ Listing'
  BY <1>1 DEF CloudIsPast, Making, Made, Saving, Saved, Deleting, Undoing, Listing
<1>5. ProvisionedIsComplete' /\ DeprovisionedIsGone' /\ FailedProvisionLeavesNothing'
  BY <1>1 DEF ProvisionedIsComplete, DeprovisionedIsGone,
              FailedProvisionLeavesNothing, Returned, NothingOf
<1> QED
  BY <1>3, <1>4, <1>5

\* After a crash only the cloud and the file are left.
LEMMA CrashStep ==
    ASSUME IInv, Crash
    PROVE  IInv'
<1> USE HetznerAssumption, EmptyIds, Kinds DEF HetznerAssumption, IInv
<1>1. /\ pc' = "idle" /\ op' = "none" /\ at' = "firewall" /\ todo' = {}
      /\ id' = NoIds /\ target' = NoIds /\ result' = "none"
      /\ file' \in {file, "torn"}
      /\ UNCHANGED <<session, cloud, fileIds>>
  BY DEF Crash
<1>2. faults' \in 0..MaxFaults
  BY FaultsBounded DEF Crash
<1>3. Types'
  BY <1>1, <1>2 DEF Types, PC
<1>4. CloudIsPast' /\ Making' /\ Saving' /\ Deleting' /\ Undoing' /\ Listing'
  BY <1>1 DEF CloudIsPast, Making, Saving, Deleting, Undoing, Listing, Working
<1>5. ProvisionedIsComplete' /\ DeprovisionedIsGone' /\ FailedProvisionLeavesNothing'
  BY <1>1 DEF ProvisionedIsComplete, DeprovisionedIsGone,
              FailedProvisionLeavesNothing, Returned
<1> QED
  BY <1>3, <1>4, <1>5

LEMMA NextIInv == IInv /\ [Next]_vars => IInv'
<1> SUFFICES ASSUME IInv, [Next]_vars PROVE IInv'
  OBVIOUS
<1>1. CASE Provision
  BY <1>1, ProvisionStep
<1>2. CASE Deprovision \/ CleanupOrphaned
  BY <1>2, CleanStep
<1>3. CASE Step
  <2>1. CASE CreateAnswered
    BY <2>1, MakeStep
  <2>2. CASE CreateRefused \/ CreateUnanswered \/ WaitFails \/ WireGuardFails
    BY <2>2, UndoStep
  <2>3. CASE WaitDone \/ WireGuardReady
    BY <2>3, WaitStep
  <2>4. CASE saveState \/ SaveFails
    BY <2>4, SaveStep
  <2>5. CASE \E k \in Kind : DeleteDone(k)
    BY <2>5, DeleteDoneStep
  <2>6. CASE \E k \in Kind : DeleteFails(k)
    BY <2>6, DeleteFailsStep
  <2>7. CASE clearState \/ ClearFails
    BY <2>7, ClearStep
  <2>8. CASE ListFails \/ \E k \in Kind : Listed(k)
    BY <2>8, ListStep
  <2> QED
    BY <1>3, <2>1, <2>2, <2>3, <2>4, <2>5, <2>6, <2>7, <2>8 DEF Step
<1>4. CASE CancelContext
  BY <1>4, CancelStep
<1>5. CASE Crash
  BY <1>5, CrashStep
<1>6. CASE UNCHANGED vars
  <2>1. UNCHANGED <<id, op, pc, at, todo, failed, result, session, cloud, file, fileIds,
                    faults, target, excuse, unsaved>>
    BY <1>6 DEF vars, process, world, history
  <2>2. Types'
    BY <2>1 DEF IInv, Types
  <2>3. CloudIsPast' /\ Making' /\ Saving' /\ Deleting' /\ Undoing' /\ Listing'
    BY <2>1 DEF IInv, CloudIsPast, Making, Made, Saving, Saved, Deleting, Undoing,
                Listing
  <2>4. /\ ProvisionedIsComplete' /\ DeprovisionedIsGone'
        /\ FailedProvisionLeavesNothing'
    BY <2>1 DEF IInv, ProvisionedIsComplete, DeprovisionedIsGone,
                FailedProvisionLeavesNothing, Returned, NothingOf
  <2> QED
    BY <2>2, <2>3, <2>4 DEF IInv
<1> QED
  BY <1>1, <1>2, <1>3, <1>4, <1>5, <1>6 DEF Next

LEMMA AlwaysIInv == Spec => []IInv
  BY InitIInv, NextIInv, PTL DEF Spec

-----------------------------------------------------------------------------
\* The Boolean variables stay Boolean whatever the rest of the state is.
LEMMA NextBooleans == Booleans /\ [Next]_vars => Booleans'
<1> SUFFICES ASSUME Booleans, [Next]_vars PROVE Booleans'
  OBVIOUS
<1> USE DEF Booleans
<1>1. ASSUME NEW name, Begin(name) PROVE Booleans'
  BY <1>1 DEF Begin
<1>2. CASE Provision \/ Deprovision \/ CleanupOrphaned
  BY <1>1, <1>2, Zenon DEF Provision, Deprovision, CleanupOrphaned
<1>3. CASE Step
  <2>1. CASE CreateAnswered \/ CreateRefused \/ CreateUnanswered
    BY <2>1, Zenon DEF CreateAnswered, CreateRefused, CreateUnanswered, Undo, history
  <2>2. CASE WaitDone \/ WaitFails \/ WireGuardReady \/ WireGuardFails
    BY <2>2, Zenon DEF WaitDone, WaitFails, WireGuardReady, WireGuardFails, Undo, history
  <2>3. CASE saveState \/ SaveFails
    BY <2>3, Zenon DEF saveState, SaveFails, history
  <2>4. CASE \E k \in Kind : DeleteDone(k) \/ DeleteFails(k) \/ Listed(k)
    BY <2>4, Zenon DEF DeleteDone, DeleteFails, Listed, history
  <2>5. CASE clearState \/ ClearFails \/ ListFails
    BY <2>5, Zenon DEF clearState, ClearFails, ListFails, history
  <2> QED
    BY <1>3, <2>1, <2>2, <2>3, <2>4, <2>5, Zenon DEF Step
<1>4. CASE CancelContext \/ Crash
  BY <1>4, Zenon DEF CancelContext, Crash, history
<1>5. CASE UNCHANGED vars
  BY <1>5, Zenon DEF vars, process, history
<1> QED
  BY <1>2, <1>3, <1>4, <1>5, Zenon DEF Next

\* Every variable keeps its type: in particular a state file that is whole
\* names a firewall, so a start-up that finds one has something to delete.
THEOREM TypeCorrect == Spec => []TypeOK
<1>1. Init => Booleans
  BY DEF Init, Booleans
<1>2. Spec => []Booleans
  BY <1>1, NextBooleans, PTL DEF Spec
<1>3. IInv /\ Booleans => TypeOK
  BY Zenon DEF IInv, Types, Booleans, TypeOK, PC
<1> QED
  BY <1>2, <1>3, AlwaysIInv, PTL

-----------------------------------------------------------------------------
\* Whatever the interruptions before, a Provision that returns without an
\* error has made, remembers and (unless told otherwise) has on disk all
\* three resources of its session.
THEOREM ProvisionCompletes == Spec => []ProvisionedIsComplete
<1>1. IInv => ProvisionedIsComplete
  BY DEF IInv
<1> QED
  BY <1>1, AlwaysIInv, PTL

\* Deprovision and CleanupOrphaned return without an error only when all they
\* knew of is gone.
THEOREM DeprovisionCompletes == Spec => []DeprovisionedIsGone
<1>1. IInv => DeprovisionedIsGone
  BY DEF IInv
<1> QED
  BY <1>1, AlwaysIInv, PTL

\* The rollback of a failed Provision is complete unless a create was not
\* answered or one of its own deletes failed.
THEOREM RollbackCompletes == Spec => []FailedProvisionLeavesNothing
<1>1. IInv => FailedProvisionLeavesNothing
  BY DEF IInv
<1> QED
  BY <1>1, AlwaysIInv, PTL

\* The state file is never more than one resource behind the cloud.
THEOREM FileKeepsUp == Spec => []CrashLosesAtMostOne
<1>1. IInv => CrashLosesAtMostOne
  <2> SUFFICES ASSUME IInv, pc \in Working, ~unsaved, NEW k \in Kind, session \in cloud[k],
                      k # at \/ pc \in {"wait for WireGuard", "save final"}
               PROVE  file = "whole" /\ fileIds[k] = session
    BY DEF CrashLosesAtMostOne, Working
  <2>1. k \in Made
    BY DEF IInv, Making
  <2>2. k \in Saved
    <3>1. at \in Kind
      BY DEF IInv, Types
    <3>2. CASE pc = "create"
      BY <2>1, <3>2 DEF Made, Saved
    <3>3. CASE pc \in {"wait", "save"}
      <4>1. k \in Before(at) \cup {at}
        BY <2>1, <3>1, <3>3, Kinds DEF Made
      <4>2. k # at
        BY <3>3
      <4> QED
        BY <3>3, <4>1, <4>2 DEF Saved
    <3>4. CASE pc \notin {"create", "wait", "save"}
      BY <3>4 DEF Saved
    <3> QED
      BY <3>2, <3>3, <3>4
  <2> QED
    BY <2>2 DEF IInv, Saving
<1> QED
  BY <1>1, AlwaysIInv, PTL

-----------------------------------------------------------------------------
(* The provider keeps the promises of the interface (Provider).  What that *)
(* needs beyond IInv:                                                      *)

\* The names in memory and on disk are of sessions that have begun.
NamesArePast == \A k \in Kind : id[k] \in 0..session /\ fileIds[k] \in 0..session

\* What is to be deleted and exists is known, and an operation that deletes
\* knows nothing else.
Remembering ==
    /\ Contract!StillKnown
    /\ pc \in Working \cup {"list"} => target = NoIds
    /\ pc \in {"delete", "clear"} => \A k \in Kind : id[k] \in {0, target[k]}

\* A search knows something of each kind that it has seen.
Looking == pc = "list" => \A k \in Kind \ todo : cloud[k] = {} \/ id[k] # 0

\* Success can be believed, and a deletion that may succeed has something to
\* delete.
Succeeding ==
    /\ Contract!SuccessIsTrue
    /\ pc \in {"delete", "clear"} /\ op # "Provision" => Contract!Counts(target)

RInv == NamesArePast /\ Remembering /\ Succeeding /\ Looking

LEMMA SomethingIsNamed ==
    ASSUME NEW ids \in Ids
    PROVE  HasProvisionedResources(ids) <=> Contract!Counts(ids)
BY DEF HasProvisionedResources, Contract!Counts, NoIds, Ids

\* What the facts above need of the types.
LEMMA Shapes ==
    ASSUME IInv
    PROVE  /\ session \in 0..MaxSessions /\ id \in Ids /\ fileIds \in Ids /\ target \in Ids
           /\ cloud \in [Kind -> SUBSET Session] /\ todo \subseteq Kind
           /\ \A k \in Kind : 0 \notin cloud[k]
           /\ \A k \in Kind : cloud[k] \subseteq 1..session
           /\ NoIds = Contract!Nothing
<1>1. /\ session \in 0..MaxSessions /\ id \in Ids /\ fileIds \in Ids /\ target \in Ids
      /\ cloud \in [Kind -> SUBSET Session] /\ todo \subseteq Kind
  BY DEF IInv, Types
<1>2. \A k \in Kind : \A s \in cloud[k] : s \in 1..MaxSessions /\ s <= session
  BY <1>1 DEF IInv, CloudIsPast, Session
<1>3. \A k \in Kind : \A s \in cloud[k] : s # 0 /\ s \in 1..session
  BY <1>1, <1>2, HetznerAssumption DEF HetznerAssumption
<1>. QED BY <1>1, <1>3 DEF NoIds, Contract!Nothing

LEMMA InitKeeps == Init => RInv /\ Contract!Init
<1>. SUFFICES ASSUME Init PROVE RInv /\ Contract!Init
  OBVIOUS
<1>. USE EmptyIds DEF Init
<1>1. RInv
  BY DEF RInv, NamesArePast, Remembering, Succeeding, Looking, Working,
         Contract!StillKnown, Contract!SuccessIsTrue
<1>2. Contract!Init
  BY DEF Contract!Init, Contract!Nothing, NoIds, phase
<1>. QED BY <1>1, <1>2

LEMMA ProvisionKeeps ==
    ASSUME IInv, IInv', RInv, Provision
    PROVE  RInv' /\ Contract!Next
<1>. USE DEF RInv
<1>1. /\ pc = "idle" /\ pc' = "create" /\ result' = "none" /\ target' = NoIds
      /\ session < MaxSessions /\ session' = session + 1
      /\ UNCHANGED <<id, cloud, fileIds>>
  BY DEF Provision, Begin, world
<1>2. session \in Nat
  BY Shapes
<1>3. NamesArePast'
  BY <1>1, <1>2 DEF NamesArePast
<1>4. Remembering' /\ Looking'
  BY <1>1, EmptyIds, Shapes DEF Remembering, Looking, Working, Contract!StillKnown
<1>5. phase = "idle" /\ phase' = "making"
  BY <1>1 DEF phase
<1>6. Contract!Provision
  BY <1>1, <1>5, Shapes DEF Contract!Provision, Contract!Begin
<1>7. Succeeding'
  BY <1>1, <1>5 DEF Succeeding, Contract!SuccessIsTrue
<1>. QED BY <1>3, <1>4, <1>6, <1>7 DEF Contract!Next

\* An operation begins to delete, or to search, or returns at once.
LEMMA CleanKeeps ==
    ASSUME IInv, IInv', RInv, Deprovision \/ CleanupOrphaned
    PROVE  RInv' /\ Contract!Next
<1>. USE DEF RInv
<1>1. pc = "idle" /\ UNCHANGED <<session, cloud, fileIds>>
  BY DEF Deprovision, CleanupOrphaned, Begin, world
<1>2. \/ /\ pc' = "idle" /\ target' = NoIds /\ id' = id
         /\ \/ result' = "error"
            \/ result' = "not provisioned" /\ ~HasProvisionedResources(id)
      \/ /\ pc' = "delete" /\ op' # "Provision" /\ result' = "none" /\ target' = id'
         /\ \/ id' = id /\ HasProvisionedResources(id)
            \/ id' = fileIds /\ file = "whole"
      \/ /\ pc' = "list" /\ result' = "none" /\ target' = NoIds /\ id' = id /\ todo' = Kind
  <2>1. CASE Deprovision
    BY <2>1 DEF Deprovision, Begin, Delete
  <2>2. CASE CleanupOrphaned
    BY <2>2 DEF CleanupOrphaned, Begin, Delete
  <2>. QED BY <2>1, <2>2
<1>3. NamesArePast'
  BY <1>1, <1>2 DEF NamesArePast
<1>4. Remembering' /\ Looking'
  BY <1>1, <1>2, EmptyIds, Shapes DEF Remembering, Looking, Working, Contract!StillKnown
<1>5. phase = "idle"
  BY <1>1 DEF phase
<1>6. CASE pc' = "idle"
  <2>1. phase' = "idle"
    BY <1>6 DEF phase
  <2>2. Contract!NotProvisioned \/ Contract!CannotBegin
    BY <1>1, <1>2, <1>5, <1>6, <2>1, SomethingIsNamed, Shapes
       DEF Contract!NotProvisioned, Contract!CannotBegin, Contract!Return
  <2>3. Succeeding'
    BY <1>2, <1>6 DEF Succeeding, Contract!SuccessIsTrue
  <2>. QED BY <1>3, <1>4, <2>2, <2>3 DEF Contract!Next
<1>7. CASE pc' = "delete"
  <2>1. phase' = "deleting"
    BY <1>2, <1>7 DEF phase
  <2>2. CASE id' = id /\ HasProvisionedResources(id)
    <3>1. Contract!Counts(id)
      BY <2>2, SomethingIsNamed, Shapes
    <3>2. Contract!Deprovision
      BY <1>1, <1>2, <1>5, <1>7, <2>1, <2>2, <3>1
         DEF Contract!Deprovision, Contract!Begin
    <3>3. Succeeding'
      BY <1>2, <1>7, <2>1, <2>2, <3>1 DEF Succeeding, Contract!SuccessIsTrue
    <3>. QED BY <1>3, <1>4, <3>2, <3>3 DEF Contract!Next
  <2>3. CASE id' = fileIds /\ file = "whole"
    <3>1. fileIds["firewall"] # 0
      BY <2>3 DEF IInv, Types
    <3>2. id' \in [Kind -> 0..session]
      BY <2>3, Shapes DEF NamesArePast, Ids
    <3>3. Contract!Counts(id')
      BY <2>3, <3>1, Kinds DEF Contract!Counts
    <3>4. Contract!Recall
      BY <1>1, <1>2, <1>5, <1>7, <2>1, <3>2, <3>3 DEF Contract!Recall, Contract!Begin
    <3>5. Succeeding'
      BY <1>2, <1>7, <2>1, <3>3 DEF Succeeding, Contract!SuccessIsTrue
    <3>. QED BY <1>3, <1>4, <3>4, <3>5 DEF Contract!Next
  <2>. QED BY <1>2, <1>7, <2>2, <2>3
<1>8. CASE pc' = "list"
  <2>1. phase' = "searching"
    BY <1>8 DEF phase
  <2>2. Contract!Search
    BY <1>1, <1>2, <1>5, <1>8, <2>1, Shapes DEF Contract!Search, Contract!Begin
  <2>3. Succeeding'
    BY <1>8, <2>1 DEF Succeeding, Contract!SuccessIsTrue
  <2>. QED BY <1>3, <1>4, <2>2, <2>3 DEF Contract!Next
<1>. QED BY <1>2, <1>6, <1>7, <1>8

\* A request is answered: a resource that did not exist exists and is known.
LEMMA MakeKeeps ==
    ASSUME IInv, IInv', RInv, CreateAnswered
    PROVE  RInv' /\ Contract!Next
<1>. USE DEF RInv
<1>1. /\ pc = "create" /\ pc' \in {"save", "wait"}
      /\ cloud' = [cloud EXCEPT ![at] = @ \cup {session}]
      /\ id' = [id EXCEPT ![at] = session]
      /\ UNCHANGED <<result, session, fileIds, target>>
  BY DEF CreateAnswered, history
<1>2. at \in Kind /\ session \notin cloud[at]
  <2>1. at \in Kind
    BY DEF IInv, Types
  <2>2. at \notin Made
    BY <1>1, <2>1, Kinds DEF Made, Before
  <2>. QED BY <1>1, <2>1, <2>2 DEF IInv, Making, Working
<1>3. NamesArePast'
  BY <1>1, Shapes DEF NamesArePast, Ids
<1>4. Remembering' /\ Looking'
  <2>1. target = NoIds /\ target' = NoIds
    BY <1>1 DEF Remembering, Working
  <2>2. \A k \in Kind : 0 \notin cloud'[k]
    <3>1. cloud' \in [Kind -> SUBSET Session]
      BY DEF IInv, Types
    <3>2. 0 \notin Session
      BY DEF Session
    <3>. QED BY <3>1, <3>2
  <2>. QED BY <1>1, <2>1, <2>2, EmptyIds
           DEF Remembering, Looking, Working, Contract!StillKnown
<1>5. phase = "making" /\ phase' = "making"
  BY <1>1 DEF phase
<1>6. Contract!Make(at)
  BY <1>1, <1>2, <1>5 DEF Contract!Make, Contract!Made
<1>7. Succeeding'
  BY <1>1, <1>5 DEF Succeeding, Contract!SuccessIsTrue
<1>. QED BY <1>2, <1>3, <1>4, <1>6, <1>7 DEF Contract!Next

\* A step of Provision fails, whether or not it has made its resource.
LEMMA UndoKeeps ==
    ASSUME IInv, IInv', RInv, CreateRefused \/ CreateUnanswered \/ WaitFails \/ WireGuardFails
    PROVE  RInv' /\ Contract!Next
<1>. USE DEF RInv
<1>1. /\ pc \in Working /\ pc' = "delete" /\ op' = op /\ id' = id /\ target' = id
      /\ UNCHANGED <<result, session, fileIds>>
  BY DEF CreateRefused, CreateUnanswered, WaitFails, WireGuardFails, Undo, Working, world
<1>2. op = "Provision"
  BY <1>1 DEF IInv, Making
<1>3. NamesArePast'
  BY <1>1 DEF NamesArePast
<1>4. Remembering' /\ Looking'
  BY <1>1 DEF Remembering, Looking, Working, Contract!StillKnown
<1>5. phase = "making" /\ phase' = "undoing"
  BY <1>1, <1>2 DEF phase, Working
<1>6. cloud' = cloud \/ \E k \in Kind : session \notin cloud[k] /\ cloud' = Contract!Made(k)
  <2>1. CASE CreateUnanswered
    <3>1. at \in Kind
      BY DEF IInv, Types
    <3>2. pc = "create" /\ cloud' = [cloud EXCEPT ![at] = @ \cup {session}]
      BY <2>1 DEF CreateUnanswered
    <3>3. at \notin Made
      BY <3>1, <3>2, Kinds DEF Made, Before
    <3>4. session \notin cloud[at]
      BY <3>1, <3>2, <3>3 DEF IInv, Making, Working
    <3>. QED BY <3>1, <3>2, <3>4 DEF Contract!Made
  <2>2. CASE CreateRefused \/ WaitFails \/ WireGuardFails
    BY <2>2 DEF CreateRefused, WaitFails, WireGuardFails, world
  <2>. QED BY <2>1, <2>2
<1>7. Contract!GiveUp
  BY <1>1, <1>5, <1>6 DEF Contract!GiveUp
<1>8. Succeeding'
  BY <1>1, <1>2, <1>5 DEF Succeeding, Contract!SuccessIsTrue
<1>. QED BY <1>3, <1>4, <1>7, <1>8 DEF Contract!Next

\* Waiting and saving are nothing to the caller, until Provision returns.
LEMMA WorkKeeps ==
    ASSUME IInv, IInv', RInv, WaitDone \/ WireGuardReady \/ saveState \/ SaveFails
    PROVE  RInv' /\ [Contract!Next]_(Contract!vars)
<1>. USE DEF RInv
<1>1. /\ pc \in Working /\ fileIds' \in {id, fileIds}
      /\ UNCHANGED <<id, session, cloud, target>>
      /\ \/ pc' \in Working /\ result' = result
         \/ pc = "save final" /\ pc' = "idle" /\ result' = "ok"
  BY DEF WaitDone, WireGuardReady, saveState, SaveFails, AfterSave, Return, Working,
         world, history
<1>2. NamesArePast'
  BY <1>1 DEF NamesArePast
<1>3. Remembering' /\ Looking'
  BY <1>1 DEF Remembering, Looking, Working, Contract!StillKnown
<1>4. phase = "making"
  BY <1>1 DEF phase, Working
<1>5. CASE pc' \in Working /\ result' = result
  <2>1. phase' = "making"
    BY <1>5 DEF phase, Working
  <2>2. Succeeding'
    BY <1>5, <2>1 DEF Succeeding, Contract!SuccessIsTrue, Working
  <2>. QED BY <1>1, <1>2, <1>3, <1>4, <1>5, <2>1, <2>2 DEF Contract!vars
<1>6. CASE pc = "save final" /\ pc' = "idle" /\ result' = "ok"
  <2>1. phase' = "idle"
    BY <1>6 DEF phase
  <2>2. \A k \in Kind : session \in cloud[k] /\ id[k] = session
    BY <1>6 DEF IInv, Making, Made, Working
  <2>3. Contract!Succeed
    BY <1>1, <1>4, <1>6, <2>1, <2>2 DEF Contract!Succeed, Contract!Return
  <2>4. Succeeding'
    BY <1>1, <1>6, <2>2 DEF Succeeding, Contract!SuccessIsTrue
  <2>. QED BY <1>2, <1>3, <2>3, <2>4 DEF Contract!Next
<1>. QED BY <1>1, <1>5, <1>6

\* A delete succeeds, and its resource is forgotten, or it fails.
LEMMA DeleteKeeps ==
    ASSUME IInv, IInv', RInv, NEW k \in Kind, DeleteDone(k) \/ DeleteFails(k)
    PROVE  RInv' /\ [Contract!Next]_(Contract!vars)
<1>. USE DEF RInv
<1>1. /\ pc = "delete" /\ pc' \in {"delete", "clear"}
      /\ UNCHANGED <<op, result, session, fileIds, target>>
  BY DEF DeleteDone, DeleteFails, NextDelete, history
<1>2. /\ cloud' \in {cloud, [cloud EXCEPT ![k] = @ \ {id[k]}]}
      /\ \/ id' = id /\ id[k] # 0
         \/ /\ id' = [id EXCEPT ![k] = 0]
            /\ cloud' = [cloud EXCEPT ![k] = @ \ {id[k]}]
  BY DEF DeleteDone, DeleteFails
<1>3. id[k] \in {0, target[k]} /\ (target[k] \in cloud[k] => id[k] = target[k])
  BY <1>1 DEF Remembering, Contract!StillKnown
<1>4. /\ \A j \in Kind : j # k => id'[j] = id[j] /\ cloud'[j] = cloud[j]
      /\ id'[k] \in {0, id[k]} /\ cloud'[k] \subseteq cloud[k]
      /\ id'[k] = 0 => target[k] \notin cloud'[k]
  BY <1>2, <1>3, Shapes DEF Ids
<1>5. NamesArePast'
  <2>1. \A j \in Kind : id'[j] \in {0, id[j]}
    BY <1>4
  <2>. QED BY <1>1, <2>1, Shapes DEF NamesArePast
<1>6. Remembering' /\ Looking'
  <2>1. Contract!StillKnown'
    BY <1>1, <1>3, <1>4 DEF Remembering, Contract!StillKnown
  <2>2. \A j \in Kind : id'[j] \in {0, target'[j]}
    BY <1>1, <1>3, <1>4 DEF Remembering
  <2>. QED BY <1>1, <2>1, <2>2 DEF Remembering, Looking, Working
<1>7. phase \in {"undoing", "deleting"} /\ phase' = phase
  BY <1>1 DEF phase
<1>8. Contract!Delete(k) \/ UNCHANGED Contract!vars
  <2>1. cloud' \in {cloud, [cloud EXCEPT ![k] = @ \ {target[k]}]}
    BY <1>2, <1>3, Shapes
  <2>2. id' = id \/ (target[k] \notin cloud'[k] /\ id' = [id EXCEPT ![k] = 0])
    BY <1>2, <1>4, Shapes DEF Ids
  <2>. QED BY <1>1, <1>7, <2>1, <2>2 DEF Contract!Delete
<1>9. Succeeding'
  <2>1. pc' \in {"delete", "clear"} /\ pc \in {"delete", "clear"} /\ pc' # "idle"
    BY <1>1
  <2>. QED BY <1>1, <1>7, <2>1 DEF Succeeding, Contract!SuccessIsTrue, Contract!Counts
<1>. QED BY <1>5, <1>6, <1>8, <1>9 DEF Contract!Next

\* A deletion returns.
LEMMA ClearKeeps ==
    ASSUME IInv, IInv', RInv, clearState \/ ClearFails
    PROVE  RInv' /\ Contract!Next
<1>. USE DEF RInv
<1>1. /\ pc = "clear" /\ pc' = "idle"
      /\ result' = "error" \/ (result' = "ok" /\ ~failed)
      /\ fileIds' \in {fileIds, NoIds}
      /\ UNCHANGED <<id, session, cloud, target>>
  BY DEF clearState, ClearFails, Return, world, history
<1>2. NamesArePast'
  BY <1>1, EmptyIds, Shapes DEF NamesArePast
<1>3. Remembering' /\ Looking'
  BY <1>1 DEF Remembering, Looking, Working, Contract!StillKnown
<1>4. phase \in {"undoing", "deleting"} /\ phase' = "idle"
  BY <1>1 DEF phase
<1>5. CASE result' = "error"
  <2>1. Succeeding'
    BY <1>1, <1>5 DEF Succeeding, Contract!SuccessIsTrue
  <2>. QED BY <1>1, <1>2, <1>3, <1>4, <1>5, <2>1
           DEF Contract!Finish, Contract!Return, Contract!Next
<1>6. CASE result' = "ok" /\ ~failed
  <2>1. op # "Provision" /\ todo = {}
    BY <1>1, <1>6 DEF IInv, Deleting
  <2>2. \A k \in Kind : id[k] = 0 /\ target[k] \notin cloud[k]
    BY <1>1, <1>6, <2>1 DEF IInv, Deleting
  <2>3. id = Contract!Nothing
    BY <2>2, Shapes DEF Ids, Contract!Nothing
  <2>4. phase = "deleting"
    BY <1>1, <2>1 DEF phase
  <2>5. Contract!Counts(target)
    BY <1>1, <2>1 DEF Succeeding
  <2>6. Succeeding'
    BY <1>1, <2>2, <2>3, <2>5 DEF Succeeding, Contract!SuccessIsTrue, Contract!Counts
  <2>. QED BY <1>1, <1>2, <1>3, <1>4, <1>6, <2>2, <2>3, <2>4, <2>6
           DEF Contract!Finish, Contract!Return, Contract!Next
<1>. QED BY <1>1, <1>5, <1>6

\* The search goes on, ends with what it has found, or ends without.
LEMMA ListKeeps ==
    ASSUME IInv, IInv', RInv, ListFails \/ \E k \in Kind : Listed(k)
    PROVE  RInv' /\ Contract!Next
<1>. USE DEF RInv
<1>1. pc = "list" /\ target = NoIds /\ UNCHANGED <<session, cloud, fileIds>>
  BY DEF ListFails, Listed, world, Remembering
<1>2. phase = "searching"
  BY <1>1 DEF phase
<1>3. CASE ListFails
  <2>1. pc' = "idle" /\ result' = "error" /\ UNCHANGED <<id, target>>
    BY <1>3 DEF ListFails, Return, history
  <2>2. RInv'
    BY <1>1, <2>1 DEF NamesArePast, Remembering, Succeeding, Looking, Working,
                      Contract!StillKnown, Contract!SuccessIsTrue
  <2>3. id' \in [Kind -> 0..session]
    BY <2>1, Shapes DEF NamesArePast, Ids
  <2>4. phase' = "idle"
    BY <2>1 DEF phase
  <2>5. Contract!Find
    BY <1>1, <1>2, <2>1, <2>3, <2>4 DEF Contract!Find, Contract!Return
  <2>. QED BY <2>2, <2>5 DEF Contract!Next
<1>4. ASSUME NEW k \in Kind, Listed(k)
      PROVE  RInv' /\ Contract!Next
  <2>1. \/ id' = id /\ cloud[k] = {}
        \/ \E s \in cloud[k] : id' = [id EXCEPT ![k] = s]
    BY <1>4 DEF Listed
  <2>2. /\ \A j \in Kind : j # k => id'[j] = id[j]
        /\ \/ id'[k] = id[k] /\ cloud[k] = {}
           \/ id'[k] \in cloud[k]
    BY <2>1, Shapes DEF Ids
  <2>3. id' \in Ids
    BY DEF IInv, Types
  <2>4. \A j \in Kind : id'[j] \in 0..session
    BY <2>2, Shapes DEF NamesArePast
  <2>5. id' \in [Kind -> 0..session]
    BY <2>3, <2>4 DEF Ids
  <2>6. \A j \in Kind : id'[j] = id[j] \/ id'[j] \in cloud[j]
    BY <2>2
  <2>7. NamesArePast'
    BY <1>1, <2>4 DEF NamesArePast
  <2>8. \A j \in Kind : j = k \/ j \notin todo => cloud[j] = {} \/ id'[j] # 0
    BY <1>1, <2>2, Shapes DEF Looking
  <2>9. CASE todo # {k}
    <3>1. todo' = todo \ {k} /\ UNCHANGED <<pc, result, target>>
      BY <1>4, <2>9 DEF Listed
    <3>2. Looking'
      BY <1>1, <2>8, <3>1 DEF Looking
    <3>3. Remembering'
      BY <1>1, <3>1, EmptyIds, Shapes DEF Remembering, Working, Contract!StillKnown
    <3>4. phase' = "searching"
      BY <1>1, <3>1 DEF phase
    <3>5. Contract!Find
      BY <1>1, <1>2, <2>5, <2>6, <3>1, <3>4 DEF Contract!Find
    <3>6. Succeeding'
      BY <1>1, <3>1, <3>4 DEF Succeeding, Contract!SuccessIsTrue
    <3>. QED BY <2>7, <3>2, <3>3, <3>5, <3>6 DEF Contract!Next
  <2>10. CASE todo = {k} /\ HasProvisionedResources(id')
    <3>1. pc' = "delete" /\ target' = id' /\ UNCHANGED <<op, result>>
      BY <1>4, <2>10 DEF Listed, Delete
    <3>2. Remembering' /\ Looking'
      BY <1>1, <3>1 DEF Remembering, Looking, Working, Contract!StillKnown
    <3>3. phase' = "deleting"
      BY <1>1, <3>1 DEF phase, IInv, Listing
    <3>4. Contract!Counts(id')
      BY <2>3, <2>10, SomethingIsNamed
    <3>5. Contract!Find
      BY <1>1, <1>2, <2>5, <2>6, <3>1, <3>3, <3>4 DEF Contract!Find
    <3>6. Succeeding'
      BY <3>1, <3>3, <3>4 DEF Succeeding, Contract!SuccessIsTrue
    <3>. QED BY <2>7, <3>2, <3>5, <3>6 DEF Contract!Next
  <2>11. CASE todo = {k} /\ ~HasProvisionedResources(id')
    <3>1. pc' = "idle" /\ result' = "ok" /\ target' = target
      BY <1>4, <2>11 DEF Listed, Return
    <3>2. Remembering' /\ Looking'
      BY <1>1, <3>1, EmptyIds, Shapes DEF Remembering, Looking, Working, Contract!StillKnown
    <3>3. phase' = "idle"
      BY <3>1 DEF phase
    <3>4. ~Contract!Counts(id')
      BY <2>3, <2>11, SomethingIsNamed
    <3>5. \A j \in Kind : cloud[j] = {}
      BY <2>8, <2>11, <3>4 DEF Contract!Counts
    <3>6. Contract!Find
      BY <1>1, <1>2, <2>5, <2>6, <3>1, <3>3, <3>4, <3>5 DEF Contract!Find, Contract!Return
    <3>7. Succeeding'
      BY <1>1, <3>1, <3>4, <3>5, Shapes DEF Succeeding, Contract!SuccessIsTrue
    <3>. QED BY <2>7, <3>2, <3>6, <3>7 DEF Contract!Next
  <2>. QED BY <2>9, <2>10, <2>11
<1>. QED BY <1>3, <1>4

\* A cancelled context is nothing to the interface, a crash is.
LEMMA RestKeeps ==
    ASSUME IInv, IInv', RInv, CancelContext \/ Crash \/ UNCHANGED vars
    PROVE  RInv' /\ [Contract!Next]_(Contract!vars)
<1>. USE DEF RInv
<1>1. CASE Crash
  <2>1. /\ pc' = "idle" /\ result' = "none" /\ id' = NoIds /\ target' = NoIds
        /\ UNCHANGED <<session, cloud, fileIds>>
    BY <1>1 DEF Crash
  <2>2. NamesArePast'
    BY <2>1, EmptyIds, Shapes DEF NamesArePast
  <2>3. Remembering' /\ Looking'
    BY <2>1, EmptyIds, Shapes DEF Remembering, Looking, Working, Contract!StillKnown
  <2>4. phase' = "idle"
    BY <2>1 DEF phase
  <2>5. Contract!Crash
    BY <2>1, <2>4, Shapes DEF Contract!Crash, Contract!Return
  <2>6. Succeeding'
    BY <2>1 DEF Succeeding, Contract!SuccessIsTrue
  <2>. QED BY <2>2, <2>3, <2>5, <2>6 DEF Contract!Next
<1>2. CASE CancelContext \/ UNCHANGED vars
  <2>1. UNCHANGED <<pc, op, id, todo, result, target, session, cloud, fileIds>>
    BY <1>2 DEF CancelContext, vars, process, world, history
  <2>2. RInv'
    <3>1. NamesArePast' /\ Remembering' /\ Looking'
      BY <2>1 DEF NamesArePast, Remembering, Looking, Contract!StillKnown
    <3>2. phase' = phase
      BY <2>1 DEF phase
    <3>3. Succeeding'
      BY <2>1, <3>2 DEF Succeeding, Contract!SuccessIsTrue, Contract!Counts
    <3>. QED BY <3>1, <3>3
  <2>3. UNCHANGED Contract!vars
    BY <2>1 DEF Contract!vars, phase
  <2>. QED BY <2>2, <2>3
<1>. QED BY <1>1, <1>2

LEMMA NextKeeps ==
    IInv /\ IInv' /\ RInv /\ [Next]_vars => RInv' /\ [Contract!Next]_(Contract!vars)
<1>. SUFFICES ASSUME IInv, IInv', RInv, [Next]_vars
              PROVE  RInv' /\ [Contract!Next]_(Contract!vars)
  OBVIOUS
<1>1. CASE Provision
  BY <1>1, ProvisionKeeps
<1>2. CASE Deprovision \/ CleanupOrphaned
  BY <1>2, CleanKeeps
<1>3. CASE Step
  <2>1. CASE CreateAnswered
    BY <2>1, MakeKeeps
  <2>2. CASE CreateRefused \/ CreateUnanswered \/ WaitFails \/ WireGuardFails
    BY <2>2, UndoKeeps
  <2>3. CASE WaitDone \/ WireGuardReady \/ saveState \/ SaveFails
    BY <2>3, WorkKeeps
  <2>4. CASE \E k \in Kind : DeleteDone(k) \/ DeleteFails(k)
    BY <2>4, DeleteKeeps
  <2>5. CASE clearState \/ ClearFails
    BY <2>5, ClearKeeps
  <2>6. CASE ListFails \/ \E k \in Kind : Listed(k)
    BY <2>6, ListKeeps
  <2>. QED BY <1>3, <2>1, <2>2, <2>3, <2>4, <2>5, <2>6 DEF Step
<1>4. CASE CancelContext \/ Crash \/ UNCHANGED vars
  BY <1>4, RestKeeps
<1>. QED BY <1>1, <1>2, <1>3, <1>4 DEF Next

LEMMA AlwaysRInv == Spec => []RInv
<1>1. Init => RInv
  BY InitKeeps
<1>2. IInv /\ IInv' /\ RInv /\ [Next]_vars => RInv'
  BY NextKeeps
<1>. QED BY <1>1, <1>2, AlwaysIInv, PTL DEF Spec

\* The Hetzner provider implements the interface: every step is one that
\* Provider allows, or changes nothing that it speaks of.
THEOREM KeepsContract == Spec => ImplementsProvider
<1>1. Init => Contract!Init
  BY InitKeeps
<1>2. IInv /\ IInv' /\ RInv /\ [Next]_vars => [Contract!Next]_(Contract!vars)
  BY NextKeeps
<1>. QED BY <1>1, <1>2, AlwaysIInv, AlwaysRInv, PTL
         DEF Spec, Contract!Spec, ImplementsProvider

\* A Deprovision, a cleanup or a rollback forgets nothing that exists: whatever
\* it set out to delete and has not is still known, also once it has returned.
THEOREM NothingForgotten == Spec => []Contract!StillKnown
<1>1. RInv => Contract!StillKnown
  BY DEF RInv, Remembering
<1>. QED BY <1>1, AlwaysRInv, PTL

\* Success can be believed: of Provision, that the whole session is there and
\* known; of Deprovision and CleanupOrphaned, that what they set out to delete
\* is gone, or that they found nothing and nothing that counts exists.
THEOREM SuccessIsBelieved == Spec => []Contract!SuccessIsTrue
<1>1. RInv => Contract!SuccessIsTrue
  BY DEF RInv, Succeeding
<1>. QED BY <1>1, AlwaysRInv, PTL

=============================================================================
