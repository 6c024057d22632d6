---------------------------- MODULE Credentials ----------------------------
(***************************************************************************)
(* The credential stores of src/internal/credentials, one of which the     *)
(* build chooses: an encrypted file (fallback.go), the macOS keychain      *)
(* (keychain_darwin.go) and the Windows credential manager                 *)
(* (wincred_windows.go).  A client is a program, or a goroutine, with a    *)
(* Manager of its own; nothing serialises the clients.                     *)
(*                                                                         *)
(* A key stands for the salt it is derived from: the machine is the same.  *)
(***************************************************************************)
EXTENDS Integers

CONSTANTS
    Client,
    Value,       \* credentials that can be saved
    MaxFaults    \* bound on failing calls and on clients that end

ASSUME CredentialsAssumption == Value \subseteq Nat \ {0} /\ MaxFaults \in Nat

Provider == {"aws", "hetzner"}
Backend  == {"file", "keychain", "wincred"}

None  == 0                          \* no credentials
Creds == [Provider -> Value \cup {None}]
NoCreds == [p \in Provider |-> None]

\* What the file can hold: the credentials sealed with a key, or nothing that
\* any key opens, after a truncation or after two writes over each other.
Sealed(k, c) == [key |-> k, creds |-> c]
Empty == Sealed(-1, NoCreds)
Torn  == Sealed(-2, NoCreds)

VARIABLES
    (* outside the programs *)
    backend,
    salt,      \* what the salt file holds: none or one, 0 is an empty salt
    store,     \* what credentials.enc holds: none or one
    items,     \* the entries of the keychain or of the credential manager
    (* the clients *)
    pc, key,
    op,        \* the provider and the value of the call in progress
    hand,      \* the store that the call has loaded
    (* history and bounds *)
    salts,     \* salts made so far
    resalted,  \* a salt was made while there was one, or was being made
    done,      \* what the last completed call for a provider stored
    stale,     \* providers with a call completed since the client's load
    spoiled,   \* providers whose entry a failed or overlapping call may have spoilt
    faults

outside == <<salt, store, items>>
history == <<salts, resalted, done, stale, spoiled>>
vars    == <<backend, outside, pc, key, op, hand, history, faults>>

NoOp == [p |-> "aws", v |-> None]

Init ==
    /\ backend \in Backend
    /\ salt = {} /\ store = {} /\ items = NoCreds
    /\ pc = [c \in Client |-> "off"] /\ key = [c \in Client |-> {}]
    /\ op = [c \in Client |-> NoOp] /\ hand = [c \in Client |-> NoCreds]
    /\ salts = 0 /\ resalted = FALSE
    /\ done = NoCreds /\ stale = [c \in Client |-> {}] /\ spoiled = {}
    /\ faults = 0

Goto(c, place) == pc' = [pc EXCEPT ![c] = place]

Fault ==
    /\ faults < MaxFaults
    /\ faults' = faults + 1

-----------------------------------------------------------------------------
(* NewManager *)

MakingSalt(c) == pc[c] \in {"newSalt", "saltTruncated"}

\* The keychain and the credential manager need nothing.
NewManager(c) ==
    /\ pc[c] = "off" /\ backend # "file"
    /\ Goto(c, "idle")
    /\ UNCHANGED <<backend, outside, key, op, hand, history, faults>>

\* Mutant: the key is derived only from a new salt.
ReadSalt_NoKey(c) ==
    /\ pc[c] = "off" /\ backend = "file"
    /\ salt # {}
    /\ resalted' = (resalted \/ \E d \in Client : MakingSalt(d))
    /\ Goto(c, "idle")
    /\ UNCHANGED <<backend, outside, key, op, hand, salts, done, stale, spoiled, faults>>

\* newFallbackManager, deriveKey: whatever can be read is the salt.
ReadSalt(c) ==
    /\ pc[c] = "off" /\ backend = "file"
    /\ salt # {}
    /\ key' = [key EXCEPT ![c] = salt]
    /\ resalted' = (resalted \/ \E d \in Client : MakingSalt(d))
    /\ Goto(c, "idle")
    /\ UNCHANGED <<backend, outside, op, hand, salts, done, stale, spoiled, faults>>

\* A salt that is not there, or that cannot be read, is made.
NoSalt(c) ==
    /\ pc[c] = "off" /\ backend = "file"
    /\ IF salt = {} THEN UNCHANGED faults ELSE Fault
    /\ resalted' = (resalted \/ salt # {} \/ \E d \in Client : MakingSalt(d))
    /\ salts' = salts + 1
    /\ key' = [key EXCEPT ![c] = {salts'}]
    /\ Goto(c, "newSalt")
    /\ UNCHANGED <<backend, outside, op, hand, done, stale, spoiled>>

\* os.WriteFile truncates and then writes.
TruncateSalt(c) ==
    /\ pc[c] = "newSalt"
    /\ salt' = {0}
    /\ Goto(c, "saltTruncated")
    /\ UNCHANGED <<backend, store, items, key, op, hand, history, faults>>

WriteSalt(c) ==
    /\ pc[c] = "saltTruncated"
    /\ salt' = key[c]
    /\ Goto(c, "idle")
    /\ UNCHANGED <<backend, store, items, key, op, hand, history, faults>>

\* Mutant: a key is used although its salt was not stored.
SaltFails_Ignored(c) ==
    /\ MakingSalt(c)
    /\ Fault
    /\ Goto(c, "idle")
    /\ UNCHANGED <<backend, outside, key, op, hand, history>>

\* Without a stored salt there is no manager.
SaltFails(c) ==
    /\ MakingSalt(c)
    /\ Fault
    /\ key' = [key EXCEPT ![c] = {}]
    /\ Goto(c, "off")
    /\ UNCHANGED <<backend, outside, op, hand, history>>

-----------------------------------------------------------------------------
(* Calls *)

InWrite(c) == pc[c] \in {"loaded", "truncated"}

\* The call of c returns.
Returns(c) ==
    /\ op' = [op EXCEPT ![c] = NoOp] /\ hand' = [hand EXCEPT ![c] = NoCreds]
    /\ Goto(c, "idle")

\* It has stored v for p.
Completes(c, p, v) ==
    /\ done' = [done EXCEPT ![p] = v]
    /\ stale' = [d \in Client |-> IF d # c /\ InWrite(d) THEN stale[d] \cup {p} ELSE {}]
    /\ Returns(c)

-----------------------------------------------------------------------------
(* The encrypted file *)

\* decrypt: what the key of c opens.
Opened(c) == {s \in store : {s.key} = key[c]}

\* A store that is not there is empty; one that does not open is an error.
loadStore(c) == IF store = {} THEN {NoCreds} ELSE {s.creds : s \in Opened(c)}

\* Mutant: a call starts from a new store, not from the loaded one.
Begin_NewStore(c, p, v) ==
    /\ pc[c] = "idle" /\ backend = "file"
    /\ loadStore(c) # {}
    /\ hand' = [hand EXCEPT ![c] = [NoCreds EXCEPT ![p] = v]]
    /\ op' = [op EXCEPT ![c] = [p |-> p, v |-> v]]
    /\ stale' = [stale EXCEPT ![c] = {}]
    /\ Goto(c, "loaded")
    /\ UNCHANGED <<backend, outside, key, salts, resalted, done, spoiled, faults>>

\* Save... with a value and Delete... with None load the whole store; when
\* that fails nothing is written.
Begin(c, p, v) ==
    /\ pc[c] = "idle" /\ backend = "file"
    /\ \E s \in loadStore(c) : hand' = [hand EXCEPT ![c] = [s EXCEPT ![p] = v]]
    /\ op' = [op EXCEPT ![c] = [p |-> p, v |-> v]]
    /\ stale' = [stale EXCEPT ![c] = {}]
    /\ Goto(c, "loaded")
    /\ UNCHANGED <<backend, outside, key, salts, resalted, done, spoiled, faults>>

\* saveStore, with os.WriteFile.
Truncate(c) ==
    /\ pc[c] = "loaded"
    /\ store' = {Empty}
    /\ Goto(c, "truncated")
    /\ UNCHANGED <<backend, salt, items, key, op, hand, history, faults>>

\* Bytes that another client wrote after the truncation may stay behind those
\* of this one.
Write(c) ==
    /\ pc[c] = "truncated"
    /\ \E k \in key[c] :
          \/ store' = {Sealed(k, hand[c])}
          \/ store # {Empty} /\ store' = {Torn}
    /\ spoiled' = IF store' = {Torn} THEN Provider
                  ELSE (spoiled \cup stale[c]) \ {op[c].p}
    /\ Completes(c, op[c].p, op[c].v)
    /\ UNCHANGED <<backend, salt, items, key, salts, resalted, faults>>

\* The file cannot be opened, or is written in part: the call is an error.
WriteFails(c) ==
    /\ Fault
    /\ \/ pc[c] = "loaded" /\ UNCHANGED <<store, spoiled>>
       \/ pc[c] = "truncated" /\ store' \in {store, {Torn}} /\ spoiled' = Provider
    /\ Returns(c)
    /\ UNCHANGED <<backend, salt, items, key, salts, resalted, done, stale>>

-----------------------------------------------------------------------------
(* The keychain and the credential manager *)

\* The keychain's saveItem deletes the old item first, and ignores an error.
DeleteOld(c, p, v) ==
    /\ pc[c] = "idle" /\ backend = "keychain" /\ v # None
    /\ \/ items' = [items EXCEPT ![p] = None] /\ UNCHANGED faults
       \/ Fault /\ UNCHANGED items
    /\ op' = [op EXCEPT ![c] = [p |-> p, v |-> v]]
    /\ Goto(c, "deleted")
    /\ UNCHANGED <<backend, salt, store, key, hand, history>>

\* AddItem refuses an item that exists.
AddItem(c) ==
    /\ pc[c] = "deleted" /\ items[op[c].p] = None
    /\ items' = [items EXCEPT ![op[c].p] = op[c].v]
    /\ spoiled' = spoiled \ {op[c].p}
    /\ Completes(c, op[c].p, op[c].v)
    /\ UNCHANGED <<backend, salt, store, key, salts, resalted, faults>>

AddFails(c) ==
    /\ pc[c] = "deleted"
    /\ IF items[op[c].p] = None THEN Fault /\ spoiled' = spoiled \cup {op[c].p}
       ELSE UNCHANGED <<spoiled, faults>>
    /\ Returns(c)
    /\ UNCHANGED <<backend, outside, key, salts, resalted, done, stale>>

\* The other calls set an entry in one step; one that fails changes nothing.
SetItem(c, p, v) ==
    /\ pc[c] = "idle"
    /\ backend = "wincred" \/ (backend = "keychain" /\ v = None)
    /\ items' = [items EXCEPT ![p] = v]
    /\ spoiled' = spoiled \ {p}
    /\ Completes(c, p, v)
    /\ UNCHANGED <<backend, salt, store, key, salts, resalted, faults>>

\* The credential manager's deleteItem takes every error of the lookup for a
\* missing entry, and reports that it was deleted.
DeleteUnseen(c, p) ==
    /\ pc[c] = "idle" /\ backend = "wincred"
    /\ Fault
    /\ spoiled' = spoiled \cup {p}
    /\ Completes(c, p, None)
    /\ UNCHANGED <<backend, outside, key, salts, resalted>>

-----------------------------------------------------------------------------
\* LoadAWS, LoadHetzner: the credentials that c is given, no element when the
\* call is an error.  HasCredentials tells whether they are there.
LoadCredentials(c, p) ==
    IF backend = "file" THEN {s[p] : s \in loadStore(c)} ELSE {items[p]}

HasCredentials(c, p) == \E v \in LoadCredentials(c, p) : v # None

\* What a client that ends leaves half done.
LeavesSpoilt(c) ==
    CASE pc[c] = "truncated" -> Provider
      [] pc[c] = "deleted"   -> {op[c].p}
      [] OTHER               -> {}

\* A client ends, at any moment, and may start again.
End(c) ==
    /\ pc[c] # "off"
    /\ Fault
    /\ spoiled' = spoiled \cup LeavesSpoilt(c)
    /\ key' = [key EXCEPT ![c] = {}]
    /\ op' = [op EXCEPT ![c] = NoOp] /\ hand' = [hand EXCEPT ![c] = NoCreds]
    /\ stale' = [stale EXCEPT ![c] = {}]
    /\ Goto(c, "off")
    /\ UNCHANGED <<backend, outside, salts, resalted, done>>

Call(c) == \E p \in Provider : \E v \in Value \cup {None} :
    Begin(c, p, v) \/ DeleteOld(c, p, v) \/ SetItem(c, p, v)

Next == \E c \in Client :
    \/ NewManager(c) \/ ReadSalt(c) \/ NoSalt(c)
    \/ TruncateSalt(c) \/ WriteSalt(c) \/ SaltFails(c)
    \/ Call(c)
    \/ Truncate(c) \/ Write(c) \/ WriteFails(c)
    \/ AddItem(c) \/ AddFails(c) \/ (\E p \in Provider : DeleteUnseen(c, p))
    \/ End(c)

Spec == Init /\ [][Next]_vars

-----------------------------------------------------------------------------
Places == {"off", "newSalt", "saltTruncated", "idle", "loaded", "truncated", "deleted"}
Keys   == 0..salts

TypeOK ==
    /\ backend \in Backend
    /\ salt \in {{}} \cup {{k} : k \in Keys}
    /\ \A s \in store : s \in [key : {-1, -2} \cup Keys, creds : Creds]
    /\ items \in Creds /\ done \in Creds
    /\ \A c \in Client :
          /\ pc[c] \in Places /\ hand[c] \in Creds /\ stale[c] \subseteq Provider
          /\ op[c] \in [p : Provider, v : Value \cup {None}]
          /\ key[c] \in {{}} \cup {{k} : k \in Keys}
          /\ (pc[c] = "idle" \/ InWrite(c)) /\ backend = "file" => key[c] # {}
    /\ spoiled \subseteq Provider /\ resalted \in BOOLEAN
    /\ faults \in 0..MaxFaults

\* The key of every client that has a manager, and the key that sealed the
\* store, are those of the salt a next start will read, also after failures and
\* crashes while the salt was written: credentials stay readable as long as no
\* start finds an unreadable salt and no two first starts overlap.
KeysAgree ==
    backend = "file" /\ ~resalted =>
        /\ \A c \in Client : (pc[c] = "idle" \/ InWrite(c)) => key[c] = salt
        /\ \A s \in store : s.key >= 0 => {s.key} = salt

\* Every manager gives the credentials that the last completed call stored, or
\* none once they are deleted, whatever failed and crashed in between, but for
\* those that a failed or overlapping call has spoilt: of both providers when
\* the file was cut short, else of a provider with a call that the overlapping
\* one did not see.
LoadsWhatWasStored ==
    ~resalted /\ (\A c \in Client : pc[c] \notin {"truncated", "deleted"}) =>
        \A c \in Client : pc[c] = "idle" =>
            \A p \in Provider \ spoiled :
                /\ LoadCredentials(c, p) = {done[p]}
                /\ HasCredentials(c, p) <=> done[p] # None

=============================================================================
