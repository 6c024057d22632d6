------------------------------ MODULE Provider ------------------------------
(***************************************************************************)
(* What the interface of src/internal/provider/provider.go promises about  *)
(* Provision and Deprovision, and the providers about CleanupOrphaned,     *)
(* whatever the cloud: without the order of its calls, the state file,     *)
(* contexts, or what lives in what.  The process may crash at any moment.  *)
(*                                                                         *)
(* A resource is its kind and the number of the session that made it.      *)
(***************************************************************************)
EXTENDS Naturals

CONSTANTS
    Kind,         \* the kinds of resource that a session has one of each of
    Counted,      \* the kinds by which a provider sees that it has resources
    MaxSessions

VARIABLES
    phase,     \* what the provider is doing
    session,   \* calls of Provision so far
    known,     \* the resource of each kind that the process knows, 0 for none
    target,    \* what the operation set out to delete
    cloud,     \* the sessions whose resource of a kind exists
    result     \* what the last operation returned

vars == <<phase, session, known, target, cloud, result>>

Nothing       == [k \in Kind |-> 0]
Counts(names) == \E k \in Counted : names[k] # 0

Init ==
    /\ phase = "idle" /\ result = "none"
    /\ session = 0
    /\ known = Nothing /\ target = Nothing
    /\ cloud = [k \in Kind |-> {}]

Begin(p)  == phase = "idle" /\ phase' = p /\ result' = "none"
Return(r) == phase' = "idle" /\ result' = r

-----------------------------------------------------------------------------
Provision ==
    /\ Begin("making")
    /\ session < MaxSessions
    /\ session' = session + 1
    /\ target' = Nothing
    /\ UNCHANGED <<known, cloud>>

Made(k) == [cloud EXCEPT ![k] = @ \cup {session}]

\* The session's resource of kind k is made, once, and known.
Make(k) ==
    /\ phase = "making"
    /\ session \notin cloud[k]
    /\ cloud' = Made(k)
    /\ known' = [known EXCEPT ![k] = session]
    /\ UNCHANGED <<phase, session, target, result>>

\* Provision succeeds only with all that it is to make.
Succeed ==
    /\ phase = "making"
    /\ \A k \in Kind : session \in cloud[k] /\ known[k] = session
    /\ Return("ok")
    /\ UNCHANGED <<session, known, target, cloud>>

\* It begins to undo what it knows of.  The resource whose making failed may
\* exist all the same.
GiveUp ==
    /\ phase = "making"
    /\ \/ cloud' = cloud
       \/ \E k \in Kind : session \notin cloud[k] /\ cloud' = Made(k)
    /\ phase' = "undoing"
    /\ target' = known
    /\ UNCHANGED <<session, known, result>>

-----------------------------------------------------------------------------
\* Deprovision sets out to delete all that the process knows.
Deprovision ==
    /\ Counts(known)
    /\ Begin("deleting")
    /\ target' = known
    /\ UNCHANGED <<session, known, cloud>>

NotProvisioned ==
    /\ phase = "idle"
    /\ ~Counts(known)
    /\ Return("not provisioned")
    /\ target' = Nothing
    /\ UNCHANGED <<session, known, cloud>>

\* CleanupOrphaned knows again what an earlier process has noted, ...
Recall ==
    /\ Begin("deleting")
    /\ known' \in [Kind -> 0..session]
    /\ Counts(known')
    /\ target' = known'
    /\ UNCHANGED <<session, cloud>>

\* ... or looks for it in the cloud, ...
Search ==
    /\ Begin("searching")
    /\ target' = Nothing
    /\ UNCHANGED <<session, known, cloud>>

\* ... or cannot even begin.
CannotBegin ==
    /\ phase = "idle"
    /\ Return("error")
    /\ target' = Nothing
    /\ UNCHANGED <<session, known, cloud>>

\* What is found is there; a search that comes to its end without finding
\* anything that counts means that nothing that counts exists.
Find ==
    /\ phase = "searching"
    /\ known' \in [Kind -> 0..session]
    /\ \A k \in Kind : known'[k] = known[k] \/ known'[k] \in cloud[k]
    /\ \/ UNCHANGED <<phase, target, result>>
       \/ Counts(known') /\ phase' = "deleting" /\ target' = known' /\ result' = result
       \/ ~Counts(known') /\ (\A k \in Counted : cloud[k] = {})
             /\ Return("ok") /\ target' = target
       \/ Return("error") /\ target' = target
    /\ UNCHANGED <<session, cloud>>

\* Only what the operation set out to delete is deleted, and none of it is
\* forgotten while it exists.
Delete(k) ==
    /\ phase \in {"undoing", "deleting"}
    /\ cloud' \in {cloud, [cloud EXCEPT ![k] = @ \ {target[k]}]}
    /\ \/ known' = known
       \/ target[k] \notin cloud'[k] /\ known' = [known EXCEPT ![k] = 0]
    /\ UNCHANGED <<phase, session, target, result>>

\* A rollback ends with the error that began it.  A deletion succeeds only if
\* all that it set out to delete is gone and nothing is known any more.
Finish ==
    /\ \/ phase \in {"undoing", "deleting"} /\ Return("error")
       \/ /\ phase = "deleting" /\ Return("ok")
          /\ known = Nothing
          /\ \A k \in Kind : target[k] \notin cloud[k]
    /\ UNCHANGED <<session, known, target, cloud>>

Crash ==
    /\ Return("none")
    /\ known' = Nothing /\ target' = Nothing
    /\ UNCHANGED <<session, cloud>>

-----------------------------------------------------------------------------
Next ==
    \/ Provision \/ Succeed \/ GiveUp
    \/ Deprovision \/ NotProvisioned
    \/ Recall \/ Search \/ CannotBegin \/ Find
    \/ \E k \in Kind : Make(k) \/ Delete(k)
    \/ Finish \/ Crash

Spec == Init /\ [][Next]_vars

\* A deletion forgets nothing that exists: what it set out to delete and what
\* exists still is known still, also after it has returned an error.
StillKnown == \A k \in Kind : target[k] \in cloud[k] => known[k] = target[k]

\* Success can be believed: the session has all its resources and they are
\* known, or all that the operation set out to delete is gone, or it found
\* nothing and nothing that counts exists.
SuccessIsTrue ==
    phase = "idle" /\ result = "ok" =>
        \/ \A k \in Kind : session \in cloud[k] /\ known[k] = session
        \/ /\ Counts(target) /\ known = Nothing
           /\ \A k \in Kind : target[k] \notin cloud[k]
        \/ /\ target = Nothing /\ ~Counts(known)
           /\ \A k \in Counted : cloud[k] = {}

=============================================================================
