----------------------------- MODULE AWS_proofs -----------------------------
(***************************************************************************)
(* The safety properties of the AWS provider, for any number of sessions   *)
(* and faults.                                                             *)
(***************************************************************************)
EXTENDS AWS, TLAPS

Operation == {"none", "Provision", "Deprovision", "CleanupOrphaned"}
Place     == {"idle", "create", "configure", "save", "wait", "save final",
              "delete", "detached", "clear", "list"}
Working   == {"create", "configure", "save", "wait", "save final"}
Removing  == {"delete", "detached", "clear"}

\* TypeOK but for the Boolean variables, which depend on nothing else.
Types ==
    /\ id \in Ids /\ session \in 0..MaxSessions
    /\ op \in Operation /\ pc \in Place
    /\ at \in Kind /\ todo \subseteq Kind
    /\ result \in {"none", "ok", "error", "not provisioned"}
    /\ cloud \in [Kind -> SUBSET Session] /\ attached \subseteq Session
    /\ file \in {"none", "whole", "torn"} /\ fileIds \in Ids
    /\ file = "whole" => fileIds["vpc"] # 0
    /\ faults \in 0..MaxFaults
    /\ target \in Ids

Booleans ==
    /\ failed \in BOOLEAN /\ ctxDone \in BOOLEAN /\ complete \in BOOLEAN
    /\ excuse \in BOOLEAN /\ unsaved \in BOOLEAN

\* Only sessions that have begun have resources.
CloudIsPast ==
    /\ \A k \in Kind : \A s \in cloud[k] : s <= session
    /\ \A s \in attached : s <= session

\* The order in which Provision makes the resources.
Stage == [vpc |-> 1, internetGateway |-> 2, subnet |-> 3, routeTable |-> 4,
          securityGroup |-> 5, keyPair |-> 6, instance |-> 7]

Before(k) == {j \in Kind : Stage[j] < Stage[k]}

\* What the Provision that runs has made, and whether it has attached the
\* gateway.
Made == IF pc = "create" THEN Before(at)
        ELSE IF pc \in {"configure", "save"} THEN Before(at) \cup {at} ELSE Kind

HasAttached == IF pc \in {"create", "configure"} THEN Stage[at] > 2 ELSE TRUE

\* While Provision makes resources it knows those it has made, and no other
\* resource of its session exists.
Making ==
    pc \in Working =>
        /\ op = "Provision" /\ session \in Session
        /\ pc = "configure" => at \in Networking
        /\ pc = "save" => at \in {"securityGroup", "instance"}
        /\ \A k \in Made : id[k] = session /\ session \in cloud[k]
        /\ \A k \in Kind : session \in cloud[k] => k \in Made
        /\ session \in attached <=> HasAttached

\* What an operation that deletes has and has not done yet.
Progress ==
    /\ pc \in Removing => op # "none" /\ (op = "Provision" => failed)
    /\ pc = "clear" => todo = {}
    /\ pc = "detached" => /\ "internetGateway" \in todo
                          /\ \A j \in todo : DeleteOrder[j] >= 6
    /\ pc \in Removing /\ op # "Provision" /\ ~failed =>
          \A k \in Kind : IF k \in todo THEN id[k] = target[k]
                          ELSE id[k] = 0 /\ target[k] \notin cloud[k]

\* A rollback has still to delete what exists of its session, but for a
\* gateway that was not attached.
Undoing ==
    pc \in Removing /\ op = "Provision" /\ ~excuse =>
        /\ \A k \in Kind \ {"internetGateway"} :
              session \in cloud[k] => k \in todo /\ id[k] = session
        /\ session \in attached =>
              /\ "internetGateway" \in todo /\ pc # "detached"
              /\ id["internetGateway"] = session /\ id["vpc"] = session

\* The deletion of a complete session has not failed, has still all to delete
\* that it has not deleted, and goes in the order of DeleteOrder.
Emptying ==
    pc \in Removing /\ op # "Provision" /\ complete /\ ~excuse =>
        /\ ~failed
        /\ \A j \in Kind, k \in todo : DeleteOrder[k] <= DeleteOrder[j] => j \in todo
        /\ \E s \in Session :
              /\ \A k \in todo : id[k] = s /\ s \in cloud[k]
              /\ \A k \in Kind \ todo : s \notin cloud[k]
              /\ s \in attached <=> "internetGateway" \in todo /\ pc # "detached"

Listing == pc = "list" => op = "CleanupOrphaned" /\ ~failed /\ ~complete

IInv ==
    /\ Types
    /\ CloudIsPast
    /\ Making
    /\ Progress
    /\ Undoing
    /\ Emptying
    /\ Listing
    /\ ProvisionedIsComplete
    /\ DeprovisionedIsGone
    /\ CompleteIsRemovable
    /\ FailedProvisionLeavesOnlyGateway

-----------------------------------------------------------------------------
LEMMA Kinds ==
    /\ "vpc" \in Kind /\ "internetGateway" \in Kind /\ "subnet" \in Kind
    /\ "routeTable" \in Kind /\ "securityGroup" \in Kind /\ "keyPair" \in Kind
    /\ "instance" \in Kind
    /\ \A k \in Kind : k \in {"vpc", "internetGateway", "subnet", "routeTable",
                              "securityGroup", "keyPair", "instance"}
    /\ Networking \subseteq Kind
BY DEF Kind, Networking

LEMMA Stages ==
    /\ Stage["vpc"] = 1 /\ Stage["internetGateway"] = 2 /\ Stage["subnet"] = 3
    /\ Stage["routeTable"] = 4 /\ Stage["securityGroup"] = 5
    /\ Stage["keyPair"] = 6 /\ Stage["instance"] = 7
BY DEF Stage

LEMMA Turns ==
    /\ DeleteOrder["instance"] = 1 /\ DeleteOrder["keyPair"] = 2
    /\ DeleteOrder["securityGroup"] = 3 /\ DeleteOrder["routeTable"] = 4
    /\ DeleteOrder["subnet"] = 5 /\ DeleteOrder["internetGateway"] = 6
    /\ DeleteOrder["vpc"] = 7
BY DEF DeleteOrder

\* What is made before each kind, and with it.
LEMMA Befores ==
    /\ \A k \in Kind : Before(k) \subseteq Kind /\ k \notin Before(k)
    /\ \A k \in Kind : k # "instance" => /\ After(k) \in Kind
                                         /\ Before(After(k)) = Before(k) \cup {k}
                                         /\ Stage[After(k)] = Stage[k] + 1
    /\ Before("instance") \cup {"instance"} = Kind /\ Before("vpc") = {}
    /\ \A k \in Networking : Before(k) \cup {k} \subseteq Networking
    /\ \A k \in Kind : Before(k) \subseteq UndoOf(k) /\ UndoOf(k) \subseteq Kind
    /\ \A k \in Kind : k # "vpc" => "vpc" \in Before(k)
<1>. USE Kinds, Stages
<1>1. \A k \in Kind : k # "instance" => After(k) \in Kind /\ Stage[After(k)] = Stage[k] + 1
  BY DEF After
<1>2. \A j \in Kind, k \in Kind : Stage[j] \in 1..7 /\ (Stage[j] = Stage[k] => j = k)
  BY DEF Kind, Networking
<1>3. \A k \in Kind : k # "instance" => Before(After(k)) = Before(k) \cup {k}
  BY <1>1, <1>2 DEF Before
<1>4. Before("instance") \cup {"instance"} = Kind /\ Before("vpc") = {}
  BY <1>2 DEF Before
<1>5. \A k \in Networking : Before(k) \cup {k} \subseteq Networking
  BY DEF Before, Networking, Kind
<1>6. \A k \in Kind : Before(k) \subseteq UndoOf(k) /\ UndoOf(k) \subseteq Kind
  BY DEF Before, UndoOf, Networking, Kind
<1>7. \A k \in Kind : k # "vpc" => "vpc" \in Before(k)
  BY DEF Before
<1>. QED BY <1>1, <1>3, <1>4, <1>5, <1>6, <1>7 DEF Before

LEMMA EmptyIds == NoIds \in Ids /\ \A k \in Kind : NoIds[k] = 0
BY AWSAssumption DEF NoIds, Ids

LEMMA FaultsBounded == ASSUME Types, Fault \/ NoFault PROVE faults' \in 0..MaxFaults
<1>1. faults \in 0..MaxFaults
  BY DEF Types
<1>2. faults' = faults \/ (faults < MaxFaults /\ faults' = faults + 1)
  BY DEF Fault, NoFault
<1>. QED BY <1>1, <1>2, AWSAssumption

\* The properties speak of operations that have returned.
LEMMA NotReturned ==
    ASSUME pc' # "idle" \/ op' = "none"
    PROVE  /\ ProvisionedIsComplete' /\ DeprovisionedIsGone' /\ CompleteIsRemovable'
           /\ FailedProvisionLeavesOnlyGateway'
BY DEF ProvisionedIsComplete, DeprovisionedIsGone, CompleteIsRemovable,
       FailedProvisionLeavesOnlyGateway, Returned

LEMMA InitIInv == Init => IInv
<1>. SUFFICES ASSUME Init PROVE IInv
  OBVIOUS
<1>. USE AWSAssumption, EmptyIds, Kinds DEF Init
<1>1. Types
  <2>1. session \in 0..MaxSessions /\ faults \in 0..MaxFaults
    OBVIOUS
  <2>2. cloud \in [Kind -> SUBSET Session] /\ attached \subseteq Session
    OBVIOUS
  <2>. QED BY <2>1, <2>2 DEF Types, Operation, Place
<1>2. CloudIsPast /\ Making /\ Progress /\ Undoing /\ Emptying /\ Listing
  BY DEF CloudIsPast, Making, Progress, Undoing, Emptying, Listing, Working, Removing
<1>3. /\ ProvisionedIsComplete /\ DeprovisionedIsGone /\ CompleteIsRemovable
      /\ FailedProvisionLeavesOnlyGateway
  BY DEF ProvisionedIsComplete, DeprovisionedIsGone, CompleteIsRemovable,
         FailedProvisionLeavesOnlyGateway, Returned
<1>. QED BY <1>1, <1>2, <1>3 DEF IInv

-----------------------------------------------------------------------------
\* Provision begins: nothing of the new session exists yet.
LEMMA ProvisionStep == ASSUME IInv, Provision PROVE IInv'
<1>. USE DEF IInv
<1>1. /\ pc' = "create" /\ at' = "vpc" /\ op' = "Provision" /\ result' = "none"
      /\ session < MaxSessions /\ session' = session + 1 /\ target' = NoIds
      /\ UNCHANGED <<id, todo, cloud, attached, file, fileIds, faults>>
  BY DEF Provision, Begin, world
<1>2. session' \in Session /\ session' \in 0..MaxSessions /\ session \in Nat
  <2>1. session \in 0..MaxSessions
    BY DEF Types
  <2>. QED BY <1>1, <2>1, AWSAssumption DEF Session
<1>3. \A k \in Kind : cloud[k] \subseteq Session /\ attached \subseteq Session
  BY DEF Types
<1>4. Types'
  BY <1>1, <1>2, EmptyIds, Kinds DEF Types, Operation, Place
<1>5. CloudIsPast'
  <2>1. \A s \in Session : s <= session => s <= session'
    BY <1>1, <1>2 DEF Session
  <2>. QED BY <1>1, <1>3, <2>1, Kinds DEF CloudIsPast
<1>6. (\A k \in Kind : session' \notin cloud[k]) /\ session' \notin attached
  BY <1>1, <1>2, <1>3 DEF CloudIsPast, Session
<1>7. Making'
  <2>1. Made' = {} /\ ~HasAttached'
    BY <1>1, Befores, Stages DEF Made, HasAttached
  <2>. QED BY <1>1, <1>2, <1>6, <2>1 DEF Making
<1>8. Progress' /\ Undoing' /\ Emptying' /\ Listing'
  BY <1>1 DEF Progress, Undoing, Emptying, Listing, Removing
<1>. QED BY <1>1, <1>4, <1>5, <1>7, <1>8, NotReturned

\* An operation begins to delete, or to list, or returns at once.
LEMMA CleanStep == ASSUME IInv, Deprovision \/ CleanupOrphaned PROVE IInv'
<1>. USE DEF IInv
<1>1. /\ op' \in {"Deprovision", "CleanupOrphaned"}
      /\ UNCHANGED <<at, session, cloud, attached, file, fileIds>>
  BY DEF Deprovision, CleanupOrphaned, Begin, Refuse, world
<1>2. \/ /\ pc' = "idle" /\ result' \in {"error", "not provisioned"} /\ ~complete'
         /\ target' = NoIds /\ id' = id /\ todo' = todo
      \/ /\ pc' = "delete" /\ result' = "none" /\ ~failed' /\ todo' = Kind
         /\ target' = id' /\ id' \in {id, fileIds} /\ complete' = IsComplete(id')
      \/ /\ pc' = "list" /\ op' = "CleanupOrphaned" /\ result' = "none" /\ ~complete'
         /\ ~failed' /\ target' = NoIds /\ todo' = todo /\ id' = id
  <2>1. CASE Deprovision
    BY <2>1 DEF Deprovision, Begin, Delete, Refuse
  <2>2. CASE CleanupOrphaned
    BY <2>2 DEF CleanupOrphaned, Begin, Delete, Refuse
  <2>. QED BY <2>1, <2>2
<1>3. faults' \in 0..MaxFaults
  BY FaultsBounded DEF Deprovision, CleanupOrphaned, NoFault
<1>4. Types'
  BY <1>1, <1>2, <1>3, EmptyIds DEF Types, Operation, Place
<1>5. CloudIsPast' /\ Making' /\ Undoing' /\ Listing'
  BY <1>1, <1>2 DEF CloudIsPast, Making, Undoing, Listing, Working
<1>6. Progress'
  BY <1>1, <1>2 DEF Progress, Removing
<1>7. Emptying'
  <2>. SUFFICES ASSUME pc' = "delete", complete'
                PROVE  /\ ~failed' /\ todo' = Kind
                       /\ \E s \in Session : /\ \A k \in Kind : id'[k] = s /\ s \in cloud'[k]
                                             /\ s \in attached'
    BY <1>2, Kinds DEF Emptying, Removing
  <2>1. IsComplete(id')
    BY <1>2
  <2>. QED BY <1>1, <1>2, <2>1 DEF IsComplete
<1>8. /\ ProvisionedIsComplete' /\ DeprovisionedIsGone' /\ CompleteIsRemovable'
      /\ FailedProvisionLeavesOnlyGateway'
  BY <1>1, <1>2 DEF ProvisionedIsComplete, DeprovisionedIsGone, CompleteIsRemovable,
                    FailedProvisionLeavesOnlyGateway, Returned
<1>. QED BY <1>4, <1>5, <1>6, <1>7, <1>8

\* A request is answered: one more resource exists and is known.
LEMMA MakeStep == ASSUME IInv, CreateAnswered PROVE IInv'
<1>. USE DEF IInv
<1>1. /\ pc = "create"
      /\ cloud' = [cloud EXCEPT ![at] = @ \cup {session}]
      /\ id' = [id EXCEPT ![at] = session]
      /\ UNCHANGED <<op, todo, result, session, attached, file, fileIds, faults, target>>
  BY DEF CreateAnswered, NoFault, history
<1>2. /\ at \in Kind /\ session \in Session /\ op = "Provision"
      /\ cloud \in [Kind -> SUBSET Session] /\ id \in Ids
      /\ session \in 0..MaxSessions
  BY <1>1 DEF Making, Working, Types
<1>3. /\ id'[at] = session /\ cloud'[at] = cloud[at] \cup {session}
      /\ \A k \in Kind : k # at => id'[k] = id[k] /\ cloud'[k] = cloud[k]
  BY <1>1, <1>2 DEF Ids
<1>4. \/ at \in Networking /\ pc' = "configure" /\ at' = at
      \/ at = "keyPair" /\ pc' = "create" /\ at' = "instance"
      \/ at = "instance" /\ pc' = "save" /\ at' = at
  <2>1. CASE at \in Networking
    BY <1>1, <2>1 DEF CreateAnswered, Networking
  <2>2. CASE at = "keyPair"
    BY <1>1, <2>2 DEF CreateAnswered, Networking, After
  <2>3. CASE at = "instance"
    BY <1>1, <2>3 DEF CreateAnswered, Networking
  <2>. QED BY <1>2, <2>1, <2>2, <2>3 DEF Kind
<1>5. Types'
  <2>1. cloud' \in [Kind -> SUBSET Session] /\ id' \in Ids
    BY <1>1, <1>2 DEF Ids
  <2>2. at' \in Kind /\ pc' \in Place
    BY <1>2, <1>4, Kinds DEF Place
  <2>. QED BY <1>1, <2>1, <2>2 DEF Types
<1>6. CloudIsPast'
  <2>1. session <= session
    BY <1>2
  <2>. QED BY <1>1, <1>2, <1>3, <2>1 DEF CloudIsPast
<1>7. Making'
  <2>1. Made = Before(at) /\ Made' = Before(at) \cup {at} /\ Before(at) \subseteq Kind
    <3>1. Before("instance") = Before("keyPair") \cup {"keyPair"}
      BY Befores, Kinds DEF After
    <3>. QED BY <1>1, <1>2, <1>4, <3>1, Befores DEF Made
  <2>2. HasAttached' <=> HasAttached
    BY <1>1, <1>4, Stages DEF HasAttached
  <2>3. \A k \in Made' : id'[k] = session /\ session \in cloud'[k]
    BY <1>1, <1>2, <1>3, <2>1 DEF Making, Working
  <2>4. \A k \in Kind : session \in cloud'[k] => k \in Made'
    BY <1>1, <1>2, <1>3, <2>1 DEF Making, Working
  <2>5. session \in attached <=> HasAttached
    BY <1>1 DEF Making, Working
  <2>. QED BY <1>1, <1>2, <1>4, <2>2, <2>3, <2>4, <2>5 DEF Making
<1>8. Progress' /\ Undoing' /\ Emptying' /\ Listing'
  BY <1>4 DEF Progress, Undoing, Emptying, Listing, Removing
<1>. QED BY <1>4, <1>5, <1>6, <1>7, <1>8, NotReturned

\* A resource is set up; the gateway is attached.
LEMMA ConfigureStep == ASSUME IInv, Configured PROVE IInv'
<1>. USE DEF IInv
<1>1. /\ pc = "configure"
      /\ attached' = IF at = "internetGateway" THEN attached \cup {session} ELSE attached
      /\ \/ at = "securityGroup" /\ pc' = "save" /\ at' = at
         \/ at # "securityGroup" /\ pc' = "create" /\ at' = After(at)
      /\ UNCHANGED <<id, op, todo, result, session, cloud, file, fileIds, faults, target>>
  BY DEF Configured, NoFault, history
<1>2. /\ at \in Networking /\ at \in Kind /\ at # "instance" /\ session \in Session
      /\ op = "Provision"
  <2>1. at \in Networking /\ session \in Session /\ op = "Provision"
    BY <1>1 DEF Making, Working
  <2>. QED BY <2>1, Kinds DEF Networking
<1>3. Types'
  <2>1. at' \in Kind
    BY <1>1, <1>2, Befores
  <2>2. pc' \in Place
    BY <1>1 DEF Place
  <2>3. attached' \subseteq Session
    BY <1>1, <1>2 DEF Types
  <2>. QED BY <1>1, <2>1, <2>2, <2>3 DEF Types
<1>4. CloudIsPast'
  <2>1. session <= session
    BY <1>2 DEF Session
  <2>. QED BY <1>1, <2>1 DEF CloudIsPast
<1>5. Making'
  <2>1. Made' = Made
    BY <1>1, <1>2, Befores DEF Made
  <2>2. session \in attached' <=> HasAttached'
    <3>1. session \in attached <=> Stage[at] > 2
      BY <1>1 DEF Making, HasAttached, Working
    <3>2. CASE at = "vpc"
      BY <1>1, <3>1, <3>2, Stages DEF HasAttached, After
    <3>3. CASE at = "internetGateway"
      BY <1>1, <3>3, Stages DEF HasAttached, After
    <3>4. CASE at \in {"subnet", "routeTable"}
      BY <1>1, <3>1, <3>4, Stages DEF HasAttached, After
    <3>5. CASE at = "securityGroup"
      BY <1>1, <3>1, <3>5, Stages DEF HasAttached
    <3>. QED BY <1>2, <3>2, <3>3, <3>4, <3>5 DEF Networking
  <2>. QED BY <1>1, <2>1, <2>2 DEF Making, Working
<1>6. Progress' /\ Undoing' /\ Emptying' /\ Listing'
  BY <1>1 DEF Progress, Undoing, Emptying, Listing, Removing
<1>. QED BY <1>1, <1>3, <1>4, <1>5, <1>6, NotReturned

\* Provision gives up: what it has made is among what it will delete.
LEMMA UndoStep ==
    ASSUME IInv, CreateRefused \/ CreateUnanswered \/ ConfigureFails \/ NotReady
    PROVE  IInv'
<1>. USE DEF IInv
<1>1. /\ pc \in {"create", "configure", "wait"}
      /\ pc' = "delete" /\ failed' = TRUE /\ at' = "vpc" /\ target' = id /\ id' = id
      /\ UNCHANGED <<op, result, session, file, fileIds>>
  BY DEF CreateRefused, CreateUnanswered, ConfigureFails, NotReady, Undo, Delete, world
<1>2. op = "Provision" /\ session \in Session /\ at \in Kind
  BY <1>1 DEF Making, Types, Working
<1>3. todo' \subseteq Kind /\ Made \subseteq todo'
  <2>1. CASE pc = "create"
    <3>1. todo' = UndoOf(at)
      BY <2>1 DEF CreateRefused, CreateUnanswered, ConfigureFails, NotReady, Undo, Delete
    <3>. QED BY <1>2, <2>1, <3>1, Befores DEF Made
  <2>2. CASE pc = "configure"
    <3>1. todo' = UndoOf(at) /\ at \in Networking
      BY <2>2 DEF CreateRefused, CreateUnanswered, ConfigureFails, NotReady, Undo, Delete,
                  Making, Working
    <3>2. UndoOf(at) = Networking
      BY <3>1 DEF UndoOf
    <3>. QED BY <2>2, <3>1, <3>2, Befores, Kinds DEF Made
  <2>3. CASE pc = "wait"
    <3>1. todo' = Kind
      BY <2>3 DEF CreateRefused, CreateUnanswered, ConfigureFails, NotReady, Undo, Delete
    <3>. QED BY <2>3, <3>1 DEF Made
  <2>. QED BY <1>1, <2>1, <2>2, <2>3
<1>4. \/ cloud' = cloud
      \/ cloud' = [cloud EXCEPT ![at] = @ \cup {session}] /\ excuse'
  BY DEF CreateRefused, CreateUnanswered, ConfigureFails, NotReady, world
<1>5. \/ attached' = attached
      \/ attached' = attached \cup {session} /\ pc = "configure" /\ at = "internetGateway"
  BY DEF CreateRefused, CreateUnanswered, ConfigureFails, NotReady, world
<1>6. Types'
  <2>1. faults' \in 0..MaxFaults
    BY FaultsBounded DEF CreateRefused, CreateUnanswered, ConfigureFails, NotReady
  <2>2. cloud' \in [Kind -> SUBSET Session] /\ attached' \subseteq Session
    BY <1>2, <1>4, <1>5 DEF Types
  <2>. QED BY <1>1, <1>3, <2>1, <2>2, Kinds DEF Types, Place
<1>7. CloudIsPast'
  <2>1. session <= session
    BY <1>2 DEF Session
  <2>2. \A k \in Kind : cloud'[k] \subseteq cloud[k] \cup {session}
    BY <1>2, <1>4 DEF Types
  <2>3. attached' \subseteq attached \cup {session}
    BY <1>5
  <2>. QED BY <1>1, <2>1, <2>2, <2>3 DEF CloudIsPast
<1>8. Undoing'
  <2>. SUFFICES ASSUME ~excuse'
                PROVE  /\ \A k \in Kind : session \in cloud[k] => k \in todo' /\ id[k] = session
                       /\ session \in attached' =>
                             /\ "internetGateway" \in todo' /\ id["internetGateway"] = session
                             /\ id["vpc"] = session
    BY <1>1, <1>4 DEF Undoing
  <2>1. \A k \in Made : k \in todo' /\ id[k] = session
    BY <1>1, <1>3 DEF Making, Working
  <2>2. \A k \in Kind : session \in cloud[k] => k \in Made
    BY <1>1 DEF Making, Working
  <2>3. ASSUME session \in attached' PROVE "internetGateway" \in Made /\ "vpc" \in Made
    <3>1. CASE session \in attached
      <4>1. HasAttached
        BY <1>1, <3>1 DEF Making, Working
      <4>2. CASE pc = "wait"
        BY <4>2, Kinds DEF Made
      <4>3. CASE pc \in {"create", "configure"}
        <5>1. at \in {"subnet", "routeTable", "securityGroup", "keyPair", "instance"}
          BY <1>2, <4>1, <4>3, Kinds, Stages DEF HasAttached
        <5>. QED BY <4>3, <5>1, Kinds, Stages DEF Made, Before
      <4>. QED BY <1>1, <4>2, <4>3
    <3>2. CASE session \notin attached
      BY <1>5, <2>3, <3>2, Kinds, Stages DEF Made, Before
    <3>. QED BY <3>1, <3>2
  <2>. QED BY <2>1, <2>2, <2>3
<1>9. Making' /\ Progress' /\ Emptying' /\ Listing'
  BY <1>1, <1>2 DEF Making, Progress, Emptying, Listing, Working
<1>. QED BY <1>1, <1>6, <1>7, <1>8, <1>9, NotReturned

\* The server is ready.
LEMMA ReadyStep == ASSUME IInv, Ready PROVE IInv'
<1>. USE DEF IInv
<1>1. /\ pc = "wait" /\ pc' = "save final"
      /\ UNCHANGED <<id, op, at, todo, result, session, cloud, attached, file, fileIds,
                     faults, target>>
  BY DEF Ready, NoFault, world, history
<1>2. Types' /\ CloudIsPast'
  BY <1>1 DEF Types, CloudIsPast, Place
<1>3. Making'
  BY <1>1 DEF Making, Made, HasAttached, Working
<1>4. Progress' /\ Undoing' /\ Emptying' /\ Listing'
  BY <1>1 DEF Progress, Undoing, Emptying, Listing, Removing
<1>. QED BY <1>1, <1>2, <1>3, <1>4, NotReturned

\* The state is saved or not, and Provision goes on or returns.
LEMMA SaveStep == ASSUME IInv, saveState \/ SaveFails PROVE IInv'
<1>. USE DEF IInv
<1>1. /\ pc \in {"save", "save final"}
      /\ UNCHANGED <<id, op, todo, failed, session, cloud, attached, target>>
  BY DEF saveState, SaveFails, history
<1>2. /\ op = "Provision" /\ session \in Session
      /\ pc = "save" => at \in {"securityGroup", "instance"}
      /\ \A k \in Made : id[k] = session /\ session \in cloud[k]
      /\ session \in attached
  BY <1>1 DEF Making, HasAttached, Working
<1>3. \/ file' = "whole" /\ fileIds' = id
      \/ file' \in {file, "torn"} /\ fileIds' = fileIds /\ unsaved'
  BY DEF saveState, SaveFails
<1>4. \/ /\ pc = "save final" /\ pc' = "idle" /\ result' = "ok" /\ at' = "vpc"
      \/ /\ pc = "save" /\ at = "securityGroup"
         /\ pc' = "create" /\ at' = "keyPair" /\ result' = result
      \/ /\ pc = "save" /\ at = "instance"
         /\ pc' = "wait" /\ at' = at /\ result' = result
  <2>. AfterSave
    BY DEF saveState, SaveFails
  <2>1. CASE pc = "save final"
    BY <2>1 DEF AfterSave, Return
  <2>2. CASE pc = "save" /\ at = "securityGroup"
    BY <2>2 DEF AfterSave, After
  <2>3. CASE pc = "save" /\ at = "instance"
    BY <2>3 DEF AfterSave
  <2>. QED BY <1>1, <1>2, <2>1, <2>2, <2>3
<1>5. Types'
  <2>1. faults' \in 0..MaxFaults
    BY FaultsBounded DEF saveState, SaveFails
  <2>2. "vpc" \in Made
    BY <1>1, <1>2, Befores, Kinds DEF Made
  <2>3. id["vpc"] # 0
    BY <1>2, <2>2 DEF Session
  <2>4. /\ file' \in {"none", "whole", "torn"} /\ fileIds' \in Ids
        /\ file' = "whole" => fileIds'["vpc"] # 0
    BY <1>3, <2>3 DEF Types
  <2>5. at' \in Kind /\ pc' \in Place /\ result' \in {"none", "ok", "error", "not provisioned"}
    BY <1>4, Kinds DEF Types, Place
  <2>. QED BY <1>1, <2>1, <2>4, <2>5 DEF Types
<1>6. CloudIsPast' /\ Progress' /\ Undoing' /\ Emptying' /\ Listing'
  BY <1>1, <1>4 DEF CloudIsPast, Progress, Undoing, Emptying, Listing, Removing
<1>7. Making'
  <2>1. CASE pc' = "idle"
    BY <2>1 DEF Making, Working
  <2>2. CASE pc' = "create"
    <3>1. Before("keyPair") = Before("securityGroup") \cup {"securityGroup"}
      BY Befores, Kinds DEF After
    <3>2. Made' = Made /\ HasAttached'
      BY <1>4, <2>2, <3>1, Stages DEF Made, HasAttached
    <3>. QED BY <1>1, <1>2, <2>2, <3>2 DEF Making, Working
  <2>3. CASE pc' = "wait"
    <3>1. Made' = Made /\ HasAttached'
      BY <1>4, <2>3, Befores DEF Made, HasAttached
    <3>. QED BY <1>1, <1>2, <2>3, <3>1 DEF Making, Working
  <2>. QED BY <1>4, <2>1, <2>2, <2>3
<1>8. /\ ProvisionedIsComplete' /\ DeprovisionedIsGone' /\ CompleteIsRemovable'
      /\ FailedProvisionLeavesOnlyGateway'
  <2>1. CASE pc' # "idle"
    BY <2>1, NotReturned
  <2>2. CASE pc' = "idle"
    <3>1. pc = "save final" /\ result' = "ok" /\ op' = "Provision"
      BY <1>1, <1>2, <1>4, <2>2
    <3>2. Made = Kind
      BY <3>1 DEF Made
    <3>3. ProvisionedIsComplete'
      BY <1>1, <1>2, <1>3, <3>2 DEF ProvisionedIsComplete
    <3>. QED BY <3>1, <3>3 DEF DeprovisionedIsGone, CompleteIsRemovable,
                               FailedProvisionLeavesOnlyGateway, Returned
  <2>. QED BY <2>1, <2>2
<1>. QED BY <1>5, <1>6, <1>7, <1>8

-----------------------------------------------------------------------------
\* The turn is that of the first kind left.
LEMMA FirstOfRest ==
    ASSUME NEW k \in Kind, Deleting(k), todo \subseteq Kind
    PROVE  \A j \in Kind : DeleteOrder[j] < DeleteOrder[k] => j \notin todo
<1>1. \A j \in Kind : DeleteOrder[j] \in 1..7
  BY Turns, Kinds
<1>. QED BY <1>1 DEF Deleting

\* A call is bound to succeed, short of a fault, if all that could be in the
\* way of resource s of kind k would still be there to delete.
LEMMA CanGo ==
    ASSUME NEW k \in Kind, Deleting(k), todo \subseteq Kind, ~ctxDone,
           NEW s \in Session, id[k] = s,
           \A d \in Kind \ {"internetGateway"} : s \in cloud[d] => d \in todo,
           s \in attached => /\ "internetGateway" \in todo /\ pc # "detached"
                             /\ id["vpc"] = s,
           k # "internetGateway" => s \in cloud[k],
           k = "internetGateway" => s \in attached \/ (pc = "detached" /\ s \in cloud[k])
    PROVE  CouldDelete(k)
<1>1. /\ k # "instance" => "instance" \notin todo
      /\ k = "vpc" => /\ "subnet" \notin todo /\ "routeTable" \notin todo
                      /\ "securityGroup" \notin todo /\ "instance" \notin todo
                      /\ "internetGateway" \notin todo
  BY FirstOfRest, Turns, Kinds
<1>2. s # 0
  BY DEF Session
<1>3. CASE k = "internetGateway" /\ s \in attached
  <2>1. MustDetach(k) /\ CanDetach(s)
    BY <1>1, <1>2, <1>3, Kinds DEF MustDetach, CanDetach, Deleting
  <2>. QED BY <2>1 DEF CouldDelete
<1>4. CASE ~(k = "internetGateway" /\ s \in attached)
  <2>1. ~MustDetach(k) /\ s \in cloud[k]
    BY <1>4 DEF MustDetach
  <2>2. ~InUse(k, s)
    <3>1. CASE k \in {"securityGroup", "subnet"}
      BY <1>1, <3>1, Kinds DEF InUse
    <3>2. CASE k = "internetGateway"
      BY <1>4, <3>2 DEF InUse
    <3>3. CASE k = "vpc"
      BY <1>1, <3>3, Kinds DEF InUse
    <3>4. CASE k \in {"routeTable", "keyPair", "instance"}
      BY <3>4 DEF InUse
    <3>. QED BY <3>1, <3>2, <3>3, <3>4, Kinds
  <2>. QED BY <2>1, <2>2 DEF CouldDelete, Deletable
<1>. QED BY <1>3, <1>4

\* The gateway is detached and has still to be deleted.
LEMMA DetachStep == ASSUME IInv, Detach PROVE IInv'
<1>. USE DEF IInv
<1>1. /\ pc = "delete" /\ pc' = "detached" /\ "internetGateway" \in todo
      /\ todo \subseteq Kind
      /\ attached' = attached \ {id["internetGateway"]}
      /\ UNCHANGED <<id, op, at, todo, failed, result, session, cloud, file, fileIds,
                     faults, history>>
  BY DEF Detach, Deleting, MustDetach, NoFault, Types
<1>2. \A j \in todo : DeleteOrder[j] >= 6
  BY <1>1, Turns DEF Detach, Deleting
<1>3. Types' /\ CloudIsPast' /\ Making' /\ Listing'
  BY <1>1 DEF Types, CloudIsPast, Making, Listing, Place, Working, history
<1>4. Progress'
  BY <1>1, <1>2 DEF Progress, Removing, history
<1>5. Undoing'
  BY <1>1 DEF Undoing, Removing, history
<1>6. Emptying'
  <2>. SUFFICES ASSUME op # "Provision", complete, ~excuse
                PROVE  Emptying'
    BY <1>1 DEF Emptying, history
  <2>1. /\ ~failed
        /\ \A j \in Kind, k \in todo : DeleteOrder[k] <= DeleteOrder[j] => j \in todo
    BY <1>1 DEF Emptying, Removing
  <2>2. PICK s \in Session :
          /\ \A k \in todo : id[k] = s /\ s \in cloud[k]
          /\ \A k \in Kind \ todo : s \notin cloud[k]
    BY <1>1 DEF Emptying, Removing
  <2>3. s \notin attached'
    BY <1>1, <2>2
  <2>. QED BY <1>1, <2>1, <2>2, <2>3 DEF Emptying, Removing, history
<1>. QED BY <1>1, <1>3, <1>4, <1>5, <1>6, NotReturned

\* The resource of a kind is gone.
LEMMA DeleteDoneStep == ASSUME IInv, NEW k \in Kind, DeleteDone(k) PROVE IInv'
<1>. USE DEF IInv
<1>1. /\ pc \in Removing /\ k \in todo /\ todo \subseteq Kind
      /\ todo' = todo \ {k}
      /\ pc' = IF todo' = {} THEN "clear" ELSE "delete"
      /\ cloud' = [cloud EXCEPT ![k] = @ \ {id[k]}]
      /\ id' = [id EXCEPT ![k] = 0]
      /\ Deleting(k)
      /\ UNCHANGED <<op, at, failed, result, session, attached, file, fileIds, faults,
                     target, complete, excuse>>
  BY DEF DeleteDone, Deleting, NextDelete, NoFault, history, Removing, Types
<1>2. /\ id'[k] = 0 /\ cloud'[k] = cloud[k] \ {id[k]}
      /\ \A j \in Kind : j # k => id'[j] = id[j] /\ cloud'[j] = cloud[j]
  BY <1>1 DEF Types, Ids
<1>3. pc' \in {"clear", "delete"} /\ (pc' = "clear" => todo' = {})
  BY <1>1
\* The gateway's turn ends without a call to detach it only if it has been
\* detached or there is nothing to detach it from.
<1>4. k = "internetGateway" /\ id[k] # 0 => pc = "detached" \/ id["vpc"] = 0
  BY DEF DeleteDone, Deleting, MustDetach
<1>5. \A j \in Kind : DeleteOrder[j] < DeleteOrder[k] => j \notin todo
  BY <1>1, FirstOfRest
<1>6. Types'
  <2>1. cloud' \in [Kind -> SUBSET Session]
    BY <1>1 DEF Types
  <2>2. 0 \in 0..MaxSessions
    BY AWSAssumption
  <2>3. id' \in Ids
    BY <1>1, <2>2 DEF Types, Ids
  <2>. QED BY <1>1, <1>3, <2>1, <2>3 DEF Types, Place
<1>7. CloudIsPast'
  BY <1>1, <1>2 DEF CloudIsPast
<1>8. Progress'
  <2>1. /\ op # "none" /\ (op = "Provision" => failed)
        /\ op # "Provision" /\ ~failed =>
              \A j \in Kind : IF j \in todo THEN id[j] = target[j]
                              ELSE id[j] = 0 /\ target[j] \notin cloud[j]
    BY <1>1 DEF Progress
  <2>. QED BY <1>1, <1>2, <1>3, <2>1 DEF Progress
<1>9. Undoing'
  <2>. SUFFICES ASSUME op = "Provision", ~excuse
                PROVE  /\ \A j \in Kind \ {"internetGateway"} :
                            session \in cloud'[j] => j \in todo' /\ id'[j] = session
                       /\ session \in attached =>
                            /\ "internetGateway" \in todo'
                            /\ id'["internetGateway"] = session /\ id'["vpc"] = session
    BY <1>1, <1>3 DEF Undoing
  <2>1. /\ \A j \in Kind \ {"internetGateway"} :
              session \in cloud[j] => j \in todo /\ id[j] = session
        /\ session \in attached =>
              /\ "internetGateway" \in todo /\ pc # "detached"
              /\ id["internetGateway"] = session /\ id["vpc"] = session
    BY <1>1 DEF Undoing
  <2>2. ASSUME session \in attached PROVE k # "internetGateway" /\ k # "vpc"
    <3>1. session # 0
      <4>1. session \in Session
        BY <2>2 DEF Types
      <4>. QED BY <4>1 DEF Session
    <3>2. k # "internetGateway"
      BY <1>4, <2>1, <2>2, <3>1
    <3>3. k # "vpc"
      BY <1>5, <2>1, <2>2, Turns, Kinds
    <3>. QED BY <3>2, <3>3
  <2>. QED BY <1>1, <1>2, <2>1, <2>2, Kinds
<1>10. Emptying'
  <2>. SUFFICES ASSUME op # "Provision", complete, ~excuse
                PROVE  Emptying'
    BY <1>1 DEF Emptying
  <2>1. /\ ~failed
        /\ \A j \in Kind, i \in todo : DeleteOrder[i] <= DeleteOrder[j] => j \in todo
    BY <1>1 DEF Emptying
  <2>2. PICK s \in Session :
          /\ \A j \in todo : id[j] = s /\ s \in cloud[j]
          /\ \A j \in Kind \ todo : s \notin cloud[j]
          /\ s \in attached <=> "internetGateway" \in todo /\ pc # "detached"
    BY <1>1 DEF Emptying
  <2>3. \A j \in Kind, i \in todo' : DeleteOrder[i] <= DeleteOrder[j] => j \in todo'
    <3>. SUFFICES ASSUME NEW i \in todo', DeleteOrder[i] <= DeleteOrder[k] PROVE FALSE
      BY <1>1, <2>1
    <3>1. i \in Kind /\ i # k /\ i \in todo /\ DeleteOrder[k] <= DeleteOrder[i]
      BY <1>1 DEF Deleting
    <3>. QED BY <3>1, Turns, Kinds
  <2>4. /\ \A j \in todo' : id'[j] = s /\ s \in cloud'[j]
        /\ \A j \in Kind \ todo' : s \notin cloud'[j]
    BY <1>1, <1>2, <2>2
  <2>5. s \in attached <=> "internetGateway" \in todo'
    <3>1. CASE k = "internetGateway"
      <4>1. "vpc" \in todo
        BY <1>1, <2>1, <3>1, Turns, Kinds
      <4>2. pc = "detached"
        BY <1>1, <1>4, <2>2, <3>1, <4>1 DEF Session
      <4>. QED BY <1>1, <2>2, <3>1, <4>2
    <3>2. CASE k # "internetGateway"
      <4>1. pc # "detached"
        <5>. SUFFICES ASSUME pc = "detached" PROVE FALSE
          OBVIOUS
        <5>1. "internetGateway" \in todo /\ DeleteOrder[k] >= 6
          BY <1>1 DEF Progress
        <5>2. k = "vpc"
          BY <3>2, <5>1, Turns, Kinds
        <5>. QED BY <1>5, <5>1, <5>2, Turns, Kinds
      <4>. QED BY <1>1, <2>2, <3>2, <4>1
    <3>. QED BY <3>1, <3>2
  <2>. QED BY <1>1, <1>3, <2>1, <2>3, <2>4, <2>5 DEF Emptying
<1>11. Making' /\ Listing'
  BY <1>3 DEF Making, Listing, Working
<1>. QED BY <1>3, <1>6, <1>7, <1>8, <1>9, <1>10, <1>11, NotReturned

\* A call to delete fails: if neither a fault nor the context is to blame, the
\* resource was not bound to be there and free of others.
LEMMA DeleteFailsStep == ASSUME IInv, NEW k \in Kind, DeleteFails(k) PROVE IInv'
<1>. USE DEF IInv
<1>1. /\ pc \in Removing /\ k \in todo /\ todo \subseteq Kind /\ id[k] # 0
      /\ todo' = todo \ {k}
      /\ pc' = IF todo' = {} THEN "clear" ELSE "delete"
      /\ failed' = TRUE
      /\ Deleting(k)
      /\ UNCHANGED <<id, op, at, result, session, file, fileIds, target, complete>>
  BY DEF DeleteFails, Deleting, NextDelete, Removing, Types
<1>2. \/ UNCHANGED <<cloud, attached>>
      \/ cloud' = [cloud EXCEPT ![k] = @ \ {id[k]}] /\ attached' = attached /\ CouldDelete(k)
      \/ attached' = attached \ {id[k]} /\ cloud' = cloud /\ CouldDelete(k)
  BY DEF DeleteFails
<1>3. ~excuse' => ~excuse /\ ~ctxDone /\ ~CouldDelete(k)
  BY DEF DeleteFails
<1>4. pc' \in {"clear", "delete"} /\ (pc' = "clear" => todo' = {})
  BY <1>1
<1>5. Types'
  <2>1. cloud' \in [Kind -> SUBSET Session] /\ attached' \subseteq Session
    BY <1>2 DEF Types
  <2>2. faults' \in 0..MaxFaults
    BY FaultsBounded DEF DeleteFails
  <2>. QED BY <1>1, <1>4, <2>1, <2>2 DEF Types, Place
<1>6. CloudIsPast'
  <2>1. attached' \subseteq attached /\ \A j \in Kind : cloud'[j] \subseteq cloud[j]
    BY <1>2 DEF Types
  <2>. QED BY <1>1, <2>1 DEF CloudIsPast
<1>7. Progress'
  BY <1>1, <1>4 DEF Progress
<1>8. Undoing'
  <2>. SUFFICES ASSUME op = "Provision", ~excuse, ~ctxDone, ~CouldDelete(k),
                       UNCHANGED <<cloud, attached>>
                PROVE  /\ \A j \in Kind \ {"internetGateway"} : session \in cloud[j] =>
                              j \in todo /\ j # k /\ id[j] = session
                       /\ session \in attached =>
                            /\ "internetGateway" \in todo /\ "internetGateway" # k
                            /\ id["internetGateway"] = session /\ id["vpc"] = session
    BY <1>1, <1>2, <1>3, <1>4 DEF Undoing
  <2>1. /\ \A j \in Kind \ {"internetGateway"} :
              session \in cloud[j] => j \in todo /\ id[j] = session
        /\ session \in attached =>
              /\ "internetGateway" \in todo /\ pc # "detached"
              /\ id["internetGateway"] = session /\ id["vpc"] = session
    BY <1>1 DEF Undoing
  <2>2. ASSUME k # "internetGateway", session \in cloud[k] PROVE FALSE
    <3>1. session \in Session /\ id[k] = session
      BY <2>1, <2>2 DEF Types
    <3>. QED BY <1>1, <2>1, <2>2, <3>1, CanGo
  <2>3. ASSUME k = "internetGateway", session \in attached PROVE FALSE
    <3>1. session \in Session /\ id[k] = session
      BY <2>1, <2>3 DEF Types
    <3>. QED BY <1>1, <2>1, <2>3, <3>1, CanGo
  <2>. QED BY <2>1, <2>2, <2>3
<1>9. Emptying'
  <2>. SUFFICES ASSUME op # "Provision", complete, ~excuse, ~ctxDone, ~CouldDelete(k)
                PROVE  FALSE
    BY <1>1, <1>3 DEF Emptying
  <2>1. \A j \in Kind, i \in todo : DeleteOrder[i] <= DeleteOrder[j] => j \in todo
    BY <1>1 DEF Emptying
  <2>2. PICK s \in Session :
          /\ \A j \in todo : id[j] = s /\ s \in cloud[j]
          /\ \A j \in Kind \ todo : s \notin cloud[j]
          /\ s \in attached <=> "internetGateway" \in todo /\ pc # "detached"
    BY <1>1 DEF Emptying
  <2>3. ASSUME "internetGateway" \in todo PROVE id["vpc"] = s
    <3>1. "vpc" \in todo
      BY <2>1, <2>3, Turns, Kinds
    <3>. QED BY <2>2, <3>1
  <2>4. pc = "detached" \/ pc # "detached"
    OBVIOUS
  <2>. QED BY <1>1, <2>2, <2>3, <2>4, CanGo
<1>10. Making' /\ Listing'
  BY <1>4 DEF Making, Listing, Working
<1>. QED BY <1>4, <1>5, <1>6, <1>7, <1>8, <1>9, <1>10, NotReturned

\* The deletion is over and returns.
LEMMA ClearStep == ASSUME IInv, clearState \/ ClearFails PROVE IInv'
<1>. USE DEF IInv
<1>1. /\ pc = "clear" /\ pc' = "idle" /\ todo = {}
      /\ UNCHANGED <<id, op, at, todo, failed, session, cloud, attached, history>>
  BY DEF clearState, ClearFails, Return, world, Progress
<1>2. \/ file' = "none" /\ fileIds' = NoIds /\ result' = IF failed THEN "error" ELSE "ok"
      \/ file' = file /\ fileIds' = fileIds /\ result' = "error"
  BY DEF clearState, ClearFails, Return, world
<1>3. Types'
  <2>1. faults' \in 0..MaxFaults
    BY FaultsBounded DEF clearState, ClearFails
  <2>. QED BY <1>1, <1>2, <2>1, EmptyIds DEF Types, Place, history
<1>4. CloudIsPast' /\ Making' /\ Progress' /\ Undoing' /\ Emptying' /\ Listing'
  BY <1>1 DEF CloudIsPast, Making, Progress, Undoing, Emptying, Listing, Working, Removing
<1>5. ProvisionedIsComplete'
  BY <1>1, <1>2 DEF ProvisionedIsComplete, Returned, Progress, Removing
<1>6. DeprovisionedIsGone'
  <2>. SUFFICES ASSUME op = "Deprovision", result' = "ok"
                PROVE  /\ \A k \in Kind : target[k] \notin cloud[k]
                       /\ id = NoIds /\ file' = "none"
    BY <1>1 DEF DeprovisionedIsGone, Returned, history
  <2>1. ~failed /\ file' = "none"
    BY <1>2
  <2>2. \A k \in Kind : id[k] = 0 /\ target[k] \notin cloud[k]
    BY <1>1, <2>1 DEF Progress, Removing
  <2>3. id = NoIds
    BY <2>2 DEF Types, Ids, NoIds
  <2>. QED BY <2>1, <2>2, <2>3
<1>7. CompleteIsRemovable'
  BY <1>1 DEF CompleteIsRemovable, Progress, Emptying, Removing, history
<1>8. FailedProvisionLeavesOnlyGateway'
  BY <1>1 DEF FailedProvisionLeavesOnlyGateway, Returned, Undoing, Removing, history
<1>. QED BY <1>3, <1>4, <1>5, <1>6, <1>7, <1>8

\* The tags give identifiers of sessions.
LEMMA FoundIds == ASSUME Types, NEW n, NEW ids \in Found(n) PROVE ids \in Ids
<1>. DEFINE Taken(pick)  == [k \in Kind |-> IF k \in DOMAIN pick THEN pick[k] ELSE id[k]]
            Picks(known) == {p \in [known -> Session] : \A k \in known : p[k] \in cloud[k]}
            Known        == {{ListOrder[i] : i \in {j \in 1..n : cloud[ListOrder[j]] # {}}}}
<1>1. ids \in UNION {{Taken(pick) : pick \in Picks(known)} : known \in Known}
  BY DEF Found
<1>2. \A known \in Known : \A pick \in Picks(known) : Taken(pick) \in Ids
  <2>1. Session \subseteq 0..MaxSessions
    BY DEF Session
  <2>. QED BY <2>1 DEF Types, Ids
<1>. HIDE DEF Taken, Picks, Known
<1>. QED BY <1>1, <1>2

\* The tags are read: nothing is left of them, or the deletion begins.
LEMMA ListStep == ASSUME IInv, Listed \/ ListFails PROVE IInv'
<1>. USE DEF IInv
<1>1. /\ pc = "list" /\ op = "CleanupOrphaned" /\ ~failed /\ ~complete
      /\ UNCHANGED <<op, at, failed, session, cloud, attached, file, fileIds>>
  BY DEF Listed, ListFails, Listing, world
<1>2. id' \in Ids
  BY FoundIds DEF Listed, ListFails
<1>3. \/ /\ pc' = "delete" /\ todo' = Kind /\ target' = id' /\ result' = result
         /\ complete' = IsComplete(id')
      \/ /\ pc' = "idle" /\ result' \in {"ok", "error"}
         /\ UNCHANGED <<todo, target, complete>>
  BY DEF Listed, ListFails, Delete, Return, history
<1>4. Types'
  <2>1. faults' \in 0..MaxFaults
    BY FaultsBounded DEF Listed, ListFails
  <2>. QED BY <1>1, <1>2, <1>3, <2>1 DEF Types, Place
<1>5. CloudIsPast' /\ Making' /\ Undoing' /\ Listing' /\ Progress'
  BY <1>1, <1>3 DEF CloudIsPast, Making, Undoing, Listing, Progress, Working, Removing
<1>6. Emptying'
  <2>. SUFFICES ASSUME pc' = "delete", complete'
                PROVE  /\ ~failed' /\ todo' = Kind
                       /\ \E s \in Session : /\ \A k \in Kind : id'[k] = s /\ s \in cloud'[k]
                                             /\ s \in attached'
    BY <1>3, Kinds DEF Emptying, Removing
  <2>1. IsComplete(id')
    BY <1>3
  <2>. QED BY <1>1, <1>3, <2>1 DEF IsComplete
<1>7. /\ ProvisionedIsComplete' /\ DeprovisionedIsGone' /\ CompleteIsRemovable'
      /\ FailedProvisionLeavesOnlyGateway'
  <2>1. CASE pc' = "delete"
    BY <2>1, NotReturned
  <2>2. CASE pc' = "idle"
    BY <1>1, <1>3, <2>2 DEF ProvisionedIsComplete, DeprovisionedIsGone, CompleteIsRemovable,
                            FailedProvisionLeavesOnlyGateway, Returned
  <2>. QED BY <1>3, <2>1, <2>2
<1>. QED BY <1>4, <1>5, <1>6, <1>7

\* A cancelled context, and nothing else, changes no part of the invariant.
LEMMA QuietStep ==
    ASSUME IInv,
           UNCHANGED <<id, op, pc, at, todo, failed, result, session, world, history>>,
           faults' \in 0..MaxFaults
    PROVE  IInv'
<1>. USE DEF IInv, world, history
<1>1. Types' /\ CloudIsPast'
  BY DEF Types, CloudIsPast
<1>2. Made' = Made /\ HasAttached' = HasAttached
  BY DEF Made, HasAttached
<1>3. Making'
  BY <1>2 DEF Making
<1>4. Progress' /\ Undoing' /\ Emptying' /\ Listing'
  BY DEF Progress, Undoing, Emptying, Listing
<1>5. /\ ProvisionedIsComplete' /\ DeprovisionedIsGone' /\ CompleteIsRemovable'
      /\ FailedProvisionLeavesOnlyGateway'
  BY DEF ProvisionedIsComplete, DeprovisionedIsGone, CompleteIsRemovable,
         FailedProvisionLeavesOnlyGateway, Returned
<1>. QED BY <1>1, <1>3, <1>4, <1>5

\* After a crash nothing is known of what was going on.
LEMMA CrashStep == ASSUME IInv, Crash PROVE IInv'
<1>. USE DEF IInv
<1>1. /\ pc' = "idle" /\ op' = "none"
      /\ UNCHANGED <<session, cloud, attached, fileIds>>
  BY DEF Crash
<1>2. Types'
  <2>1. faults' \in 0..MaxFaults
    BY FaultsBounded DEF Crash
  <2>2. file' \in {file, "torn"}
    BY DEF Crash
  <2>3. id' = NoIds /\ at' = "vpc" /\ todo' = {} /\ result' = "none" /\ target' = NoIds
    BY DEF Crash
  <2>. QED BY <1>1, <2>1, <2>2, <2>3, EmptyIds, Kinds DEF Types, Operation, Place
<1>3. CloudIsPast' /\ Making' /\ Progress' /\ Undoing' /\ Emptying' /\ Listing'
  BY <1>1 DEF CloudIsPast, Making, Progress, Undoing, Emptying, Listing, Working, Removing
<1>. QED BY <1>1, <1>2, <1>3, NotReturned

-----------------------------------------------------------------------------
LEMMA NextIInv == IInv /\ [Next]_vars => IInv'
<1>. SUFFICES ASSUME IInv, [Next]_vars PROVE IInv'
  OBVIOUS
<1>1. CASE Provision
  BY <1>1, ProvisionStep
<1>2. CASE Deprovision \/ CleanupOrphaned
  BY <1>2, CleanStep
<1>3. CASE Step
  <2>1. CASE CreateAnswered
    BY <2>1, MakeStep
  <2>2. CASE CreateRefused \/ CreateUnanswered \/ ConfigureFails \/ NotReady
    BY <2>2, UndoStep
  <2>3. CASE Configured
    BY <2>3, ConfigureStep
  <2>4. CASE saveState \/ SaveFails
    BY <2>4, SaveStep
  <2>5. CASE Ready
    BY <2>5, ReadyStep
  <2>6. CASE Detach
    BY <2>6, DetachStep
  <2>7. CASE \E k \in Kind : DeleteDone(k) \/ DeleteFails(k)
    BY <2>7, DeleteDoneStep, DeleteFailsStep
  <2>8. CASE clearState \/ ClearFails
    BY <2>8, ClearStep
  <2>9. CASE Listed \/ ListFails
    BY <2>9, ListStep
  <2>. QED BY <1>3, <2>1, <2>2, <2>3, <2>4, <2>5, <2>6, <2>7, <2>8, <2>9 DEF Step
<1>4. CASE CancelContext
  <2>1. faults' \in 0..MaxFaults
    BY <1>4, FaultsBounded DEF CancelContext, IInv
  <2>. QED BY <1>4, <2>1, QuietStep DEF CancelContext
<1>5. CASE Crash
  BY <1>5, CrashStep
<1>6. CASE UNCHANGED vars
  <2>1. faults' \in 0..MaxFaults
    BY <1>6 DEF IInv, Types, vars
  <2>. QED BY <1>6, <2>1, QuietStep DEF vars, process
<1>. QED BY <1>1, <1>2, <1>3, <1>4, <1>5, <1>6 DEF Next

LEMMA AlwaysIInv == Spec => []IInv
BY InitIInv, NextIInv, PTL DEF Spec

LEMMA CompleteOrNot == ASSUME NEW ids PROVE IsComplete(ids) \in BOOLEAN
BY Zenon DEF IsComplete

LEMMA NextBooleans == Booleans /\ [Next]_vars => Booleans'
<1>. SUFFICES ASSUME Booleans, [Next]_vars PROVE Booleans'
  OBVIOUS
<1>. USE DEF Booleans
<1>1. CASE Provision \/ Deprovision \/ CleanupOrphaned
  BY <1>1, CompleteOrNot, Zenon
     DEF Provision, Deprovision, CleanupOrphaned, Begin, Refuse, Delete
<1>2. CASE Step
  <2>1. CASE CreateRefused \/ CreateUnanswered \/ ConfigureFails \/ NotReady
    BY <2>1, CompleteOrNot, Zenon
       DEF CreateRefused, CreateUnanswered, ConfigureFails, NotReady, Undo, Delete
  <2>2. CASE CreateAnswered \/ Configured \/ Ready \/ Detach
    BY <2>2, Zenon DEF CreateAnswered, Configured, Ready, Detach, history
  <2>3. CASE saveState \/ SaveFails
    BY <2>3, Zenon DEF saveState, SaveFails, history
  <2>4. CASE \E k \in Kind : DeleteDone(k) \/ DeleteFails(k)
    BY <2>4, Zenon DEF DeleteDone, DeleteFails, history
  <2>5. CASE clearState \/ ClearFails
    BY <2>5, Zenon DEF clearState, ClearFails, history
  <2>6. CASE Listed \/ ListFails
    BY <2>6, CompleteOrNot, Zenon DEF Listed, ListFails, Delete, history
  <2>. QED BY <1>2, <2>1, <2>2, <2>3, <2>4, <2>5, <2>6, Zenon DEF Step
<1>3. CASE CancelContext \/ Crash
  BY <1>3, Zenon DEF CancelContext, Crash, history
<1>4. CASE UNCHANGED vars
  BY <1>4, Zenon DEF vars, process, history
<1>. QED BY <1>1, <1>2, <1>3, <1>4, Zenon DEF Next

\* Every variable keeps its type.
THEOREM TypeCorrect == Spec => []TypeOK
<1>1. Init => Booleans
  BY DEF Init, Booleans
<1>2. Spec => []Booleans
  BY <1>1, NextBooleans, PTL DEF Spec
<1>3. IInv /\ Booleans => TypeOK
  BY DEF IInv, Booleans, Types, TypeOK, Operation, Place
<1>. QED BY <1>2, <1>3, AlwaysIInv, PTL

\* A Provision that succeeds has, knows and, unless a save failed, has saved
\* all that it is to make.
THEOREM ProvisionCompletes == Spec => []ProvisionedIsComplete
<1>1. IInv => ProvisionedIsComplete
  BY DEF IInv
<1>. QED BY <1>1, AlwaysIInv, PTL

\* A Deprovision that reports success has deleted all it knew of.
THEOREM DeprovisionCompletes == Spec => []DeprovisionedIsGone
<1>1. IInv => DeprovisionedIsGone
  BY DEF IInv
<1>. QED BY <1>1, AlwaysIInv, PTL

\* The order of deletion lets all of a complete session go.
THEOREM CompleteRemovable == Spec => []CompleteIsRemovable
<1>1. IInv => CompleteIsRemovable
  BY DEF IInv
<1>. QED BY <1>1, AlwaysIInv, PTL

\* A Provision that fails leaves at most a gateway that is not attached.
THEOREM RollbackCompletes == Spec => []FailedProvisionLeavesOnlyGateway
<1>1. IInv => FailedProvisionLeavesOnlyGateway
  BY DEF IInv
<1>. QED BY <1>1, AlwaysIInv, PTL

-----------------------------------------------------------------------------
(* The provider keeps the promises of the interface (Provider).  What that *)
(* needs beyond IInv:                                                      *)

\* The names in memory and on disk are of sessions that have begun.
NamesArePast == \A k \in Kind : id[k] \in 0..session /\ fileIds[k] \in 0..session

\* What is to be deleted and exists is known, and an operation that deletes
\* knows nothing else.
Remembering ==
    /\ Contract!StillKnown
    /\ pc \in Working \cup {"list"} => target = NoIds
    /\ pc \in Removing => \A k \in Kind : id[k] \in {0, target[k]}

\* Success can be believed, and a deletion that may succeed has something to
\* delete.
Succeeding ==
    /\ Contract!SuccessIsTrue
    /\ pc \in Removing /\ op # "Provision" => Contract!Counts(target)

RInv == NamesArePast /\ Remembering /\ Succeeding

\* What the facts above need of the types.
LEMMA Shapes ==
    ASSUME IInv
    PROVE  /\ session \in 0..MaxSessions /\ id \in Ids /\ fileIds \in Ids /\ target \in Ids
           /\ cloud \in [Kind -> SUBSET Session] /\ todo \subseteq Kind
           /\ \A k \in Kind : 0 \notin cloud[k]
           /\ \A k \in Kind : cloud[k] \subseteq 1..session
           /\ NoIds = Contract!Nothing
<1>1. /\ session \in 0..MaxSessions /\ id \in Ids /\ fileIds \in Ids /\ target \in Ids
      /\ cloud \in [Kind -> SUBSET Session] /\ todo \subseteq Kind
  BY DEF IInv, Types
<1>2. \A k \in Kind : \A s \in cloud[k] : s \in 1..MaxSessions /\ s <= session
  BY <1>1 DEF IInv, CloudIsPast, Session
<1>3. \A k \in Kind : \A s \in cloud[k] : s # 0 /\ s \in 1..session
  BY <1>1, <1>2, AWSAssumption
<1>. QED BY <1>1, <1>3 DEF NoIds, Contract!Nothing

LEMMA SomethingIsNamed ==
    ASSUME NEW ids \in Ids
    PROVE  HasProvisionedResources(ids) <=> Contract!Counts(ids)
BY DEF HasProvisionedResources, Contract!Counts

LEMMA InitKeeps == Init => RInv /\ Contract!Init
<1>. SUFFICES ASSUME Init PROVE RInv /\ Contract!Init
  OBVIOUS
<1>. USE EmptyIds DEF Init
<1>1. RInv
  BY DEF RInv, NamesArePast, Remembering, Succeeding, Working, Removing,
         Contract!StillKnown, Contract!SuccessIsTrue
<1>2. Contract!Init
  BY DEF Contract!Init, Contract!Nothing, NoIds, phase
<1>. QED BY <1>1, <1>2

LEMMA ProvisionKeeps ==
    ASSUME IInv, IInv', RInv, Provision
    PROVE  RInv' /\ Contract!Next
<1>. USE DEF RInv
<1>1. /\ pc = "idle" /\ pc' = "create" /\ result' = "none" /\ target' = NoIds
      /\ session < MaxSessions /\ session' = session + 1
      /\ UNCHANGED <<id, cloud, fileIds>>
  BY DEF Provision, Begin, world
<1>2. session \in Nat
  BY Shapes
<1>3. NamesArePast'
  BY <1>1, <1>2 DEF NamesArePast
<1>4. Remembering'
  BY <1>1, EmptyIds, Shapes DEF Remembering, Working, Removing, Contract!StillKnown
<1>5. phase = "idle" /\ phase' = "making"
  BY <1>1 DEF phase
<1>6. Contract!Provision
  BY <1>1, <1>5, Shapes DEF Contract!Provision, Contract!Begin
<1>7. Succeeding'
  BY <1>1, <1>5 DEF Succeeding, Contract!SuccessIsTrue, Removing
<1>. QED BY <1>3, <1>4, <1>6, <1>7 DEF Contract!Next

\* An operation begins to delete, or to search, or returns at once.
LEMMA CleanKeeps ==
    ASSUME IInv, IInv', RInv, Deprovision \/ CleanupOrphaned
    PROVE  RInv' /\ Contract!Next
<1>. USE DEF RInv
<1>1. pc = "idle" /\ UNCHANGED <<session, cloud, fileIds>>
  BY DEF Deprovision, CleanupOrphaned, Begin, Refuse, world
<1>2. \/ /\ pc' = "idle" /\ target' = NoIds /\ id' = id
         /\ \/ result' = "error"
            \/ result' = "not provisioned" /\ ~HasProvisionedResources(id)
      \/ /\ pc' = "delete" /\ op' # "Provision" /\ result' = "none" /\ target' = id'
         /\ \/ id' = id /\ HasProvisionedResources(id)
            \/ id' = fileIds /\ file = "whole"
      \/ /\ pc' = "list" /\ result' = "none" /\ target' = NoIds /\ id' = id
  <2>1. CASE Deprovision
    BY <2>1 DEF Deprovision, Begin, Refuse, Delete
  <2>2. CASE CleanupOrphaned
    BY <2>2 DEF CleanupOrphaned, Begin, Refuse, Delete
  <2>. QED BY <2>1, <2>2
<1>3. NamesArePast'
  BY <1>1, <1>2 DEF NamesArePast
<1>4. Remembering'
  BY <1>1, <1>2, EmptyIds, Shapes DEF Remembering, Working, Removing, Contract!StillKnown
<1>5. phase = "idle"
  BY <1>1 DEF phase
<1>6. CASE pc' = "idle"
  <2>1. phase' = "idle"
    BY <1>6 DEF phase
  <2>2. Contract!NotProvisioned \/ Contract!CannotBegin
    BY <1>1, <1>2, <1>5, <1>6, <2>1, SomethingIsNamed, Shapes
       DEF Contract!NotProvisioned, Contract!CannotBegin, Contract!Return
  <2>3. Succeeding'
    BY <1>2, <1>6 DEF Succeeding, Contract!SuccessIsTrue, Removing
  <2>. QED BY <1>3, <1>4, <2>2, <2>3 DEF Contract!Next
<1>7. CASE pc' = "delete"
  <2>1. phase' = "deleting"
    BY <1>2, <1>7 DEF phase
  <2>2. CASE id' = id /\ HasProvisionedResources(id)
    <3>1. Contract!Counts(id)
      BY <2>2, SomethingIsNamed, Shapes
    <3>2. Contract!Deprovision
      BY <1>1, <1>2, <1>5, <1>7, <2>1, <2>2, <3>1
         DEF Contract!Deprovision, Contract!Begin
    <3>3. Succeeding'
      BY <1>2, <1>7, <2>1, <2>2, <3>1 DEF Succeeding, Contract!SuccessIsTrue
    <3>. QED BY <1>3, <1>4, <3>2, <3>3 DEF Contract!Next
  <2>3. CASE id' = fileIds /\ file = "whole"
    <3>1. fileIds["vpc"] # 0
      BY <2>3 DEF IInv, Types
    <3>2. id' \in [Kind -> 0..session]
      BY <2>3, Shapes DEF NamesArePast, Ids
    <3>3. Contract!Counts(id')
      BY <2>3, <3>1 DEF Contract!Counts
    <3>4. Contract!Recall
      BY <1>1, <1>2, <1>5, <1>7, <2>1, <3>2, <3>3 DEF Contract!Recall, Contract!Begin
    <3>5. Succeeding'
      BY <1>2, <1>7, <2>1, <3>3 DEF Succeeding, Contract!SuccessIsTrue
    <3>. QED BY <1>3, <1>4, <3>4, <3>5 DEF Contract!Next
  <2>. QED BY <1>2, <1>7, <2>2, <2>3
<1>8. CASE pc' = "list"
  <2>1. phase' = "searching"
    BY <1>8 DEF phase
  <2>2. Contract!Search
    BY <1>1, <1>2, <1>5, <1>8, <2>1, Shapes DEF Contract!Search, Contract!Begin
  <2>3. Succeeding'
    BY <1>8, <2>1 DEF Succeeding, Contract!SuccessIsTrue, Removing
  <2>. QED BY <1>3, <1>4, <2>2, <2>3 DEF Contract!Next
<1>. QED BY <1>2, <1>6, <1>7, <1>8

\* What is about to be made does not exist.
LEMMA NotYetMade ==
    ASSUME IInv, pc = "create"
    PROVE  at \in Kind /\ session \notin cloud[at]
<1>1. at \in Kind
  BY DEF IInv, Types
<1>2. at \notin Made
  BY <1>1, Befores DEF Made
<1>. QED BY <1>1, <1>2 DEF IInv, Making, Working

\* A request is answered: a resource that did not exist exists and is known.
LEMMA MakeKeeps ==
    ASSUME IInv, IInv', RInv, CreateAnswered
    PROVE  RInv' /\ Contract!Next
<1>. USE DEF RInv
<1>1. /\ pc = "create" /\ pc' \in {"configure", "create", "save"}
      /\ cloud' = [cloud EXCEPT ![at] = @ \cup {session}]
      /\ id' = [id EXCEPT ![at] = session]
      /\ UNCHANGED <<result, session, fileIds, target>>
  <2>1. at \in Networking \/ at = "keyPair" \/ at = "instance"
    BY DEF IInv, Types, Kind
  <2>2. "keyPair" \notin Networking /\ "instance" \notin Networking
    BY DEF Networking
  <2>. QED BY <2>1, <2>2 DEF CreateAnswered, history
<1>2. at \in Kind /\ session \notin cloud[at]
  BY <1>1, NotYetMade
<1>3. NamesArePast'
  BY <1>1, Shapes DEF NamesArePast, Ids
<1>4. Remembering'
  <2>1. target = NoIds /\ target' = NoIds
    BY <1>1 DEF Remembering, Working
  <2>2. \A k \in Kind : 0 \notin cloud'[k]
    <3>1. cloud' \in [Kind -> SUBSET Session]
      BY DEF IInv, Types
    <3>2. 0 \notin Session
      BY DEF Session
    <3>. QED BY <3>1, <3>2
  <2>. QED BY <1>1, <2>1, <2>2, EmptyIds
           DEF Remembering, Working, Removing, Contract!StillKnown
<1>5. phase = "making" /\ phase' = "making"
  BY <1>1 DEF phase
<1>6. Contract!Make(at)
  BY <1>1, <1>2, <1>5 DEF Contract!Make, Contract!Made
<1>7. Succeeding'
  BY <1>1, <1>5 DEF Succeeding, Contract!SuccessIsTrue, Removing
<1>. QED BY <1>2, <1>3, <1>4, <1>6, <1>7 DEF Contract!Next

\* A step of Provision fails, whether or not it has made its resource.
LEMMA UndoKeeps ==
    ASSUME IInv, IInv', RInv, CreateRefused \/ CreateUnanswered \/ ConfigureFails \/ NotReady
    PROVE  RInv' /\ Contract!Next
<1>. USE DEF RInv
<1>1. /\ pc \in Working /\ pc' = "delete" /\ op' = op /\ id' = id /\ target' = id
      /\ UNCHANGED <<result, session, fileIds>>
  BY DEF CreateRefused, CreateUnanswered, ConfigureFails, NotReady, Undo, Delete, Working,
         world
<1>2. op = "Provision"
  BY <1>1 DEF IInv, Making
<1>3. NamesArePast'
  BY <1>1 DEF NamesArePast
<1>4. Remembering'
  BY <1>1 DEF Remembering, Working, Contract!StillKnown
<1>5. phase = "making" /\ phase' = "undoing"
  BY <1>1, <1>2 DEF phase, Working
<1>6. cloud' = cloud \/ \E k \in Kind : session \notin cloud[k] /\ cloud' = Contract!Made(k)
  <2>1. CASE CreateUnanswered
    <3>1. pc = "create" /\ cloud' = [cloud EXCEPT ![at] = @ \cup {session}]
      BY <2>1 DEF CreateUnanswered
    <3>. QED BY <3>1, NotYetMade DEF Contract!Made
  <2>2. CASE CreateRefused \/ ConfigureFails \/ NotReady
    BY <2>2 DEF CreateRefused, ConfigureFails, NotReady, world
  <2>. QED BY <2>1, <2>2
<1>7. Contract!GiveUp
  BY <1>1, <1>5, <1>6 DEF Contract!GiveUp
<1>8. Succeeding'
  BY <1>1, <1>2, <1>5 DEF Succeeding, Contract!SuccessIsTrue
<1>. QED BY <1>3, <1>4, <1>7, <1>8 DEF Contract!Next

\* Setting up, waiting and saving are nothing to the caller, until Provision
\* returns.
LEMMA WorkKeeps ==
    ASSUME IInv, IInv', RInv, Configured \/ Ready \/ saveState \/ SaveFails
    PROVE  RInv' /\ [Contract!Next]_(Contract!vars)
<1>. USE DEF RInv
<1>1. /\ pc \in Working /\ fileIds' \in {id, fileIds}
      /\ UNCHANGED <<id, session, cloud, target>>
      /\ \/ pc' \in Working /\ result' = result
         \/ pc = "save final" /\ pc' = "idle" /\ result' = "ok"
  <2>1. CASE Configured
    BY <2>1 DEF Configured, Working, history
  <2>2. CASE Ready
    BY <2>2 DEF Ready, Working, world, history
  <2>3. CASE saveState \/ SaveFails
    <3>1. /\ pc \in Working /\ fileIds' \in {id, fileIds}
          /\ UNCHANGED <<id, session, cloud, target>>
          /\ AfterSave /\ pc \in {"save", "save final"}
      BY <2>3 DEF saveState, SaveFails, Working, history
    <3>2. pc = "save" => at \in {"securityGroup", "instance"}
      BY <3>1 DEF IInv, Making
    <3>3. CASE pc = "save final"
      BY <3>1, <3>3 DEF AfterSave, Return
    <3>4. CASE pc = "save" /\ at = "securityGroup"
      BY <3>1, <3>4 DEF AfterSave, Working
    <3>5. CASE pc = "save" /\ at = "instance"
      BY <3>1, <3>5 DEF AfterSave, Working
    <3>. QED BY <3>1, <3>2, <3>3, <3>4, <3>5
  <2>. QED BY <2>1, <2>2, <2>3
<1>2. NamesArePast'
  BY <1>1 DEF NamesArePast
<1>3. Remembering'
  BY <1>1 DEF Remembering, Working, Removing, Contract!StillKnown
<1>4. phase = "making"
  BY <1>1 DEF phase, Working
<1>5. CASE pc' \in Working /\ result' = result
  <2>1. phase' = "making"
    BY <1>5 DEF phase, Working
  <2>2. Succeeding'
    BY <1>5, <2>1 DEF Succeeding, Contract!SuccessIsTrue, Working, Removing
  <2>. QED BY <1>1, <1>2, <1>3, <1>4, <1>5, <2>1, <2>2 DEF Contract!vars
<1>6. CASE pc = "save final" /\ pc' = "idle" /\ result' = "ok"
  <2>1. phase' = "idle"
    BY <1>6 DEF phase
  <2>2. \A k \in Kind : session \in cloud[k] /\ id[k] = session
    BY <1>6 DEF IInv, Making, Made, Working
  <2>3. Contract!Succeed
    BY <1>1, <1>4, <1>6, <2>1, <2>2 DEF Contract!Succeed, Contract!Return
  <2>4. Succeeding'
    BY <1>1, <1>6, <2>2 DEF Succeeding, Contract!SuccessIsTrue, Removing
  <2>. QED BY <1>2, <1>3, <2>3, <2>4 DEF Contract!Next
<1>. QED BY <1>1, <1>5, <1>6

\* A delete succeeds, and its resource is forgotten, or it fails.
LEMMA DeleteKeeps ==
    ASSUME IInv, IInv', RInv, NEW k \in Kind, DeleteDone(k) \/ DeleteFails(k)
    PROVE  RInv' /\ [Contract!Next]_(Contract!vars)
<1>. USE DEF RInv
<1>1. /\ pc \in {"delete", "detached"} /\ pc' \in {"delete", "clear"}
      /\ UNCHANGED <<op, result, session, fileIds, target>>
  BY DEF DeleteDone, DeleteFails, Deleting, NextDelete, history
<1>2. /\ cloud' \in {cloud, [cloud EXCEPT ![k] = @ \ {id[k]}]}
      /\ \/ id' = id /\ id[k] # 0
         \/ /\ id' = [id EXCEPT ![k] = 0]
            /\ cloud' = [cloud EXCEPT ![k] = @ \ {id[k]}]
  BY DEF DeleteDone, DeleteFails
<1>3. id[k] \in {0, target[k]} /\ (target[k] \in cloud[k] => id[k] = target[k])
  BY <1>1 DEF Remembering, Removing, Contract!StillKnown
<1>4. /\ \A j \in Kind : j # k => id'[j] = id[j] /\ cloud'[j] = cloud[j]
      /\ id'[k] \in {0, id[k]} /\ cloud'[k] \subseteq cloud[k]
      /\ id'[k] = 0 => target[k] \notin cloud'[k]
  BY <1>2, <1>3, Shapes DEF Ids
<1>5. NamesArePast'
  <2>1. \A j \in Kind : id'[j] \in {0, id[j]}
    BY <1>4
  <2>. QED BY <1>1, <2>1, Shapes DEF NamesArePast
<1>6. Remembering'
  <2>1. Contract!StillKnown'
    BY <1>1, <1>3, <1>4 DEF Remembering, Contract!StillKnown
  <2>2. \A j \in Kind : id'[j] \in {0, target'[j]}
    BY <1>1, <1>3, <1>4 DEF Remembering, Removing
  <2>. QED BY <1>1, <2>1, <2>2 DEF Remembering, Working
<1>7. phase \in {"undoing", "deleting"} /\ phase' = phase
  BY <1>1 DEF phase
<1>8. Contract!Delete(k)
  <2>1. cloud' \in {cloud, [cloud EXCEPT ![k] = @ \ {target[k]}]}
    BY <1>2, <1>3, Shapes
  <2>2. id' = id \/ (target[k] \notin cloud'[k] /\ id' = [id EXCEPT ![k] = 0])
    BY <1>2, <1>4, Shapes DEF Ids
  <2>. QED BY <1>1, <1>7, <2>1, <2>2 DEF Contract!Delete
<1>9. Succeeding'
  <2>1. pc' \in Removing /\ pc \in Removing /\ pc' # "idle"
    BY <1>1 DEF Removing
  <2>. QED BY <1>1, <1>7, <2>1 DEF Succeeding, Contract!SuccessIsTrue, Contract!Counts
<1>. QED BY <1>5, <1>6, <1>8, <1>9 DEF Contract!Next

\* Detaching a gateway is nothing to the interface.
LEMMA DetachKeeps ==
    ASSUME IInv, IInv', RInv, Detach
    PROVE  RInv' /\ UNCHANGED Contract!vars
<1>. USE DEF RInv
<1>1. /\ pc \in {"delete", "detached"} /\ pc' = "detached"
      /\ UNCHANGED <<id, op, result, session, cloud, fileIds, target>>
  BY DEF Detach, Deleting, history
<1>2. NamesArePast' /\ Remembering'
  BY <1>1 DEF NamesArePast, Remembering, Working, Removing, Contract!StillKnown
<1>3. phase' = phase
  BY <1>1 DEF phase
<1>4. Succeeding'
  BY <1>1, <1>3 DEF Succeeding, Contract!SuccessIsTrue, Contract!Counts, Removing
<1>. QED BY <1>1, <1>2, <1>3, <1>4 DEF Contract!vars

\* A deletion returns.
LEMMA ClearKeeps ==
    ASSUME IInv, IInv', RInv, clearState \/ ClearFails
    PROVE  RInv' /\ Contract!Next
<1>. USE DEF RInv
<1>1. /\ pc = "clear" /\ pc' = "idle"
      /\ result' = "error" \/ (result' = "ok" /\ ~failed)
      /\ fileIds' \in {fileIds, NoIds}
      /\ UNCHANGED <<id, session, cloud, target>>
  BY DEF clearState, ClearFails, Return, world, history
<1>2. NamesArePast'
  BY <1>1, EmptyIds, Shapes DEF NamesArePast
<1>3. Remembering'
  BY <1>1 DEF Remembering, Working, Removing, Contract!StillKnown
<1>4. phase \in {"undoing", "deleting"} /\ phase' = "idle"
  BY <1>1 DEF phase
<1>5. CASE result' = "error"
  <2>1. Succeeding'
    BY <1>1, <1>5 DEF Succeeding, Contract!SuccessIsTrue, Removing
  <2>. QED BY <1>1, <1>2, <1>3, <1>4, <1>5, <2>1
           DEF Contract!Finish, Contract!Return, Contract!Next
<1>6. CASE result' = "ok" /\ ~failed
  <2>1. op # "Provision" /\ todo = {}
    BY <1>1, <1>6 DEF IInv, Progress, Removing
  <2>2. \A k \in Kind : id[k] = 0 /\ target[k] \notin cloud[k]
    BY <1>1, <1>6, <2>1 DEF IInv, Progress, Removing
  <2>3. id = Contract!Nothing
    BY <2>2, Shapes DEF Ids, Contract!Nothing
  <2>4. phase = "deleting"
    BY <1>1, <2>1 DEF phase
  <2>5. Contract!Counts(target)
    BY <1>1, <2>1 DEF Succeeding, Removing
  <2>6. Succeeding'
    BY <1>1, <2>2, <2>3, <2>5 DEF Succeeding, Contract!SuccessIsTrue, Contract!Counts, Removing
  <2>. QED BY <1>1, <1>2, <1>3, <1>4, <1>6, <2>2, <2>3, <2>4, <2>6
           DEF Contract!Finish, Contract!Return, Contract!Next
<1>. QED BY <1>1, <1>5, <1>6

\* A search takes, of each kind it has listed, a resource that exists, and
\* keeps what it knew of the others.
LEMMA FoundExists ==
    ASSUME Types, NEW n \in 0..7, NEW ids \in Found(n)
    PROVE  /\ \A k \in Kind : ids[k] = id[k] \/ ids[k] \in cloud[k]
           /\ \A j \in 1..n : cloud[ListOrder[j]] # {} =>
                 ids[ListOrder[j]] \in cloud[ListOrder[j]]
<1>. DEFINE Taken(pick)  == [k \in Kind |-> IF k \in DOMAIN pick THEN pick[k] ELSE id[k]]
            Picks(known) == {p \in [known -> Session] : \A k \in known : p[k] \in cloud[k]}
            Known        == {ListOrder[i] : i \in {j \in 1..n : cloud[ListOrder[j]] # {}}}
<1>1. ids \in UNION {{Taken(pick) : pick \in Picks(known)} : known \in {Known}}
  BY DEF Found
<1>2. PICK pick \in Picks(Known) : ids = Taken(pick)
  <2>. HIDE DEF Taken, Picks, Known
  <2>. QED BY <1>1
<1>3. DOMAIN pick = Known /\ \A k \in Known : pick[k] \in cloud[k]
  BY <1>2
<1>4. \A k \in Kind : ids[k] = IF k \in Known THEN pick[k] ELSE id[k]
  BY <1>2, <1>3
<1>5. \A j \in 1..n : ListOrder[j] \in Kind
  BY Kinds DEF ListOrder
<1>6. \A j \in 1..n : cloud[ListOrder[j]] # {} => ListOrder[j] \in Known
  OBVIOUS
<1>. HIDE DEF Taken, Picks, Known
<1>. QED BY <1>3, <1>4, <1>5, <1>6

\* The search ends with what it has found, or without.
LEMMA ListKeeps ==
    ASSUME IInv, IInv', RInv, Listed \/ ListFails
    PROVE  RInv' /\ Contract!Next
<1>. USE DEF RInv
<1>1. pc = "list" /\ target = NoIds /\ UNCHANGED <<op, session, cloud, fileIds>>
  BY DEF ListFails, Listed, world, Remembering
<1>2. phase = "searching"
  BY <1>1 DEF phase
<1>3. Types /\ Len(ListOrder) = 7
  BY DEF IInv, ListOrder
<1>4. PICK n \in 0..7 : id' \in Found(n) /\ (Listed => n = 7)
  <2>1. CASE Listed
    BY <1>3, <2>1 DEF Listed
  <2>2. CASE ~Listed
    <3>1. \E n \in 1..7 : id' \in Found(n - 1)
      BY <1>3, <2>2 DEF ListFails
    <3>. QED BY <2>2, <3>1
  <2>. QED BY <2>1, <2>2
<1>5. \A k \in Kind : id'[k] = id[k] \/ id'[k] \in cloud[k]
  BY <1>3, <1>4, FoundExists
<1>6. \A k \in Kind : id'[k] \in 0..session
  BY <1>5, Shapes DEF NamesArePast
<1>7. id' \in [Kind -> 0..session]
  <2>1. id' \in Ids
    BY DEF IInv, Types
  <2>. QED BY <1>6, <2>1 DEF Ids
<1>8. NamesArePast'
  BY <1>1, <1>6 DEF NamesArePast
<1>9. CASE ListFails
  <2>1. pc' = "idle" /\ result' = "error" /\ target' = target
    BY <1>9 DEF ListFails, Return, history
  <2>2. Remembering'
    BY <1>1, <2>1, EmptyIds, Shapes
       DEF Remembering, Working, Removing, Contract!StillKnown
  <2>3. phase' = "idle"
    BY <2>1 DEF phase
  <2>4. Contract!Find
    BY <1>1, <1>2, <1>5, <1>7, <2>1, <2>3 DEF Contract!Find, Contract!Return
  <2>5. Succeeding'
    BY <2>1 DEF Succeeding, Contract!SuccessIsTrue, Removing
  <2>. QED BY <1>8, <2>2, <2>4, <2>5 DEF Contract!Next
<1>10. CASE Listed /\ HasProvisionedResources(id')
  <2>1. pc' = "delete" /\ target' = id' /\ result' = result
    BY <1>10 DEF Listed, Delete
  <2>2. Remembering'
    BY <1>1, <2>1 DEF Remembering, Working, Removing, Contract!StillKnown
  <2>3. phase' = "deleting"
    BY <1>1, <2>1 DEF phase, IInv, Listing
  <2>4. Contract!Counts(id')
    BY <1>10 DEF HasProvisionedResources, Contract!Counts
  <2>5. Contract!Find
    BY <1>1, <1>2, <1>5, <1>7, <2>1, <2>3, <2>4 DEF Contract!Find
  <2>6. Succeeding'
    BY <2>1, <2>3, <2>4 DEF Succeeding, Contract!SuccessIsTrue
  <2>. QED BY <1>8, <2>2, <2>5, <2>6 DEF Contract!Next
<1>11. CASE Listed /\ ~HasProvisionedResources(id')
  <2>1. pc' = "idle" /\ result' = "ok" /\ target' = target
    BY <1>11 DEF Listed, Return
  <2>2. Remembering'
    BY <1>1, <2>1, EmptyIds, Shapes
       DEF Remembering, Working, Removing, Contract!StillKnown
  <2>3. phase' = "idle"
    BY <2>1 DEF phase
  <2>4. ~Contract!Counts(id') /\ id'["instance"] = 0 /\ id'["vpc"] = 0
    BY <1>11 DEF HasProvisionedResources, Contract!Counts
  <2>5. cloud["instance"] = {} /\ cloud["vpc"] = {}
    <3>1. \A j \in 1..7 : cloud[ListOrder[j]] # {} =>
             id'[ListOrder[j]] \in cloud[ListOrder[j]]
      BY <1>3, <1>4, <1>11, FoundExists
    <3>2. ListOrder[1] = "vpc" /\ ListOrder[6] = "instance"
      BY DEF ListOrder
    <3>3. 1 \in 1..7 /\ 6 \in 1..7
      OBVIOUS
    <3>. QED BY <2>4, <3>1, <3>2, <3>3, Kinds, Shapes
  <2>6. Contract!Find
    BY <1>1, <1>2, <1>5, <1>7, <2>1, <2>3, <2>4, <2>5 DEF Contract!Find, Contract!Return
  <2>7. Succeeding'
    BY <1>1, <2>1, <2>4, <2>5, Shapes DEF Succeeding, Contract!SuccessIsTrue, Removing
  <2>. QED BY <1>8, <2>2, <2>6, <2>7 DEF Contract!Next
<1>. QED BY <1>9, <1>10, <1>11

\* A cancelled context is nothing to the interface, a crash is.
LEMMA RestKeeps ==
    ASSUME IInv, IInv', RInv, CancelContext \/ Crash \/ UNCHANGED vars
    PROVE  RInv' /\ [Contract!Next]_(Contract!vars)
<1>. USE DEF RInv
<1>1. CASE Crash
  <2>1. /\ pc' = "idle" /\ result' = "none" /\ id' = NoIds /\ target' = NoIds
        /\ UNCHANGED <<session, cloud, fileIds>>
    BY <1>1 DEF Crash
  <2>2. NamesArePast'
    BY <2>1, EmptyIds, Shapes DEF NamesArePast
  <2>3. Remembering'
    BY <2>1, EmptyIds, Shapes DEF Remembering, Working, Removing, Contract!StillKnown
  <2>4. phase' = "idle"
    BY <2>1 DEF phase
  <2>5. Contract!Crash
    BY <2>1, <2>4, Shapes DEF Contract!Crash, Contract!Return
  <2>6. Succeeding'
    BY <2>1 DEF Succeeding, Contract!SuccessIsTrue, Removing
  <2>. QED BY <2>2, <2>3, <2>5, <2>6 DEF Contract!Next
<1>2. CASE CancelContext \/ UNCHANGED vars
  <2>1. UNCHANGED <<pc, op, id, todo, result, target, session, cloud, fileIds>>
    BY <1>2 DEF CancelContext, vars, process, world, history
  <2>2. RInv'
    <3>1. NamesArePast' /\ Remembering'
      BY <2>1 DEF NamesArePast, Remembering, Contract!StillKnown
    <3>2. phase' = phase
      BY <2>1 DEF phase
    <3>3. Succeeding'
      BY <2>1, <3>2 DEF Succeeding, Contract!SuccessIsTrue, Contract!Counts
    <3>. QED BY <3>1, <3>3
  <2>3. UNCHANGED Contract!vars
    BY <2>1 DEF Contract!vars, phase
  <2>. QED BY <2>2, <2>3
<1>. QED BY <1>1, <1>2

LEMMA NextKeeps ==
    IInv /\ IInv' /\ RInv /\ [Next]_vars => RInv' /\ [Contract!Next]_(Contract!vars)
<1>. SUFFICES ASSUME IInv, IInv', RInv, [Next]_vars
              PROVE  RInv' /\ [Contract!Next]_(Contract!vars)
  OBVIOUS
<1>1. CASE Provision
  BY <1>1, ProvisionKeeps
<1>2. CASE Deprovision \/ CleanupOrphaned
  BY <1>2, CleanKeeps
<1>3. CASE Step
  <2>1. CASE CreateAnswered
    BY <2>1, MakeKeeps
  <2>2. CASE CreateRefused \/ CreateUnanswered \/ ConfigureFails \/ NotReady
    BY <2>2, UndoKeeps
  <2>3. CASE Configured \/ Ready \/ saveState \/ SaveFails
    BY <2>3, WorkKeeps
  <2>4. CASE Detach
    BY <2>4, DetachKeeps
  <2>5. CASE \E k \in Kind : DeleteDone(k) \/ DeleteFails(k)
    BY <2>5, DeleteKeeps
  <2>6. CASE clearState \/ ClearFails
    BY <2>6, ClearKeeps
  <2>7. CASE Listed \/ ListFails
    BY <2>7, ListKeeps
  <2>. QED BY <1>3, <2>1, <2>2, <2>3, <2>4, <2>5, <2>6, <2>7 DEF Step
<1>4. CASE CancelContext \/ Crash \/ UNCHANGED vars
  BY <1>4, RestKeeps
<1>. QED BY <1>1, <1>2, <1>3, <1>4 DEF Next

LEMMA AlwaysRInv == Spec => []RInv
<1>1. Init => RInv
  BY InitKeeps
<1>2. IInv /\ IInv' /\ RInv /\ [Next]_vars => RInv'
  BY NextKeeps
<1>. QED BY <1>1, <1>2, AlwaysIInv, PTL DEF Spec

\* The AWS provider implements the interface: every step is one that Provider
\* allows, or changes nothing that it speaks of.
THEOREM KeepsContract == Spec => ImplementsProvider
<1>1. Init => Contract!Init
  BY InitKeeps
<1>2. IInv /\ IInv' /\ RInv /\ [Next]_vars => [Contract!Next]_(Contract!vars)
  BY NextKeeps
<1>. QED BY <1>1, <1>2, AlwaysIInv, AlwaysRInv, PTL
         DEF Spec, Contract!Spec, ImplementsProvider

\* A Deprovision, a cleanup or a rollback forgets nothing that exists: whatever
\* it set out to delete and has not is still known, also once it has returned.
\* (That alone does not let Deprovision run again: it counts the instance and
\* the VPC only.)
THEOREM NothingForgotten == Spec => []Contract!StillKnown
<1>1. RInv => Contract!StillKnown
  BY DEF RInv, Remembering
<1>. QED BY <1>1, AlwaysRInv, PTL

\* Success can be believed: of Provision, that the whole session is there and
\* known; of Deprovision and CleanupOrphaned, that what they set out to delete
\* is gone, or that they found nothing and nothing that counts exists.
THEOREM SuccessIsBelieved == Spec => []Contract!SuccessIsTrue
<1>1. RInv => Contract!SuccessIsTrue
  BY DEF RInv, Succeeding
<1>. QED BY <1>1, AlwaysRInv, PTL

=============================================================================
