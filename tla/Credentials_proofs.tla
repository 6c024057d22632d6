-------------------------- MODULE Credentials_proofs --------------------------
(***************************************************************************)
(* The stores keep what they were given, for any clients, values and       *)
(* number of faults.                                                       *)
(***************************************************************************)
EXTENDS Credentials, TLAPS

KeySet == {{}} \cup {{k} : k \in Keys}
Stored == [key : {-1, -2} \cup Keys, creds : Creds]

\* TypeOK but for the Boolean variable, with the shape of the functions.
Types ==
    /\ backend \in Backend /\ salts \in Nat
    /\ salt \in KeySet
    /\ store = {} \/ \E s \in Stored : store = {s}
    /\ items \in Creds /\ done \in Creds
    /\ pc \in [Client -> Places] /\ key \in [Client -> KeySet]
    /\ op \in [Client -> [p : Provider, v : Value \cup {None}]]
    /\ hand \in [Client -> Creds] /\ stale \in [Client -> SUBSET Provider]
    /\ spoiled \subseteq Provider
    /\ faults \in 0..MaxFaults

Booleans == resalted \in BOOLEAN

\* Where a client can be depends on the store, and a client of the file that
\* has begun has a key.
PlaceFits ==
    \A c \in Client :
        /\ MakingSalt(c) \/ InWrite(c) => backend = "file"
        /\ pc[c] = "deleted" => backend = "keychain"
        /\ backend = "file" /\ pc[c] # "off" => key[c] # {}

\* While the only salt is being made nobody else is there to use another.
FirstSalt ==
    ~resalted => \A c \in Client : MakingSalt(c) =>
        /\ \A d \in Client \ {c} : pc[d] = "off"
        /\ \A s \in store : s.key < 0

\* What the file holds, or is about to hold, is what the completed calls have
\* stored, but for what is spoilt or what the loaded copy has missed.
FileHolds ==
    backend = "file" =>
        /\ store = {} => done = NoCreds
        /\ \A s \in store :
              IF s.key >= 0 THEN \A p \in Provider \ spoiled : s.creds[p] = done[p]
              ELSE spoiled = Provider \/ \E c \in Client : pc[c] = "truncated"
        /\ \A c \in Client : InWrite(c) =>
              /\ hand[c][op[c].p] = op[c].v
              /\ \A p \in Provider \ ({op[c].p} \cup stale[c] \cup spoiled) :
                    hand[c][p] = done[p]

\* An entry is what the completed calls have stored, unless it is spoilt or
\* deleted for the moment.
ItemsHold ==
    backend # "file" =>
        \A p \in Provider \ spoiled :
            items[p] # None \/ (\A c \in Client : pc[c] = "deleted" => op[c].p # p) =>
                items[p] = done[p]

IInv ==
    /\ Types
    /\ PlaceFits
    /\ FirstSalt
    /\ KeysAgree
    /\ FileHolds
    /\ ItemsHold

-----------------------------------------------------------------------------
LEMMA Moved ==
    ASSUME Types, NEW c \in Client, NEW place \in Places, Goto(c, place)
    PROVE  /\ pc' \in [Client -> Places] /\ pc'[c] = place
           /\ \A d \in Client : d # c => pc'[d] = pc[d]
BY DEF Types, Goto

LEMMA KeysGrow ==
    ASSUME Types, salts' \in {salts, salts + 1}
    PROVE  /\ salts' \in Nat /\ Keys \subseteq Keys' /\ KeySet \subseteq KeySet'
           /\ Stored \subseteq Stored' /\ salts' \in Keys' /\ 0 \in Keys'
<1>1. salts' \in Nat /\ Keys \subseteq Keys' /\ salts' \in Keys' /\ 0 \in Keys'
  BY DEF Types, Keys
<1>2. Creds' = Creds
  BY DEF Creds
<1>. QED BY <1>1, <1>2 DEF KeySet, Stored

LEMMA OneKey == ASSUME Types PROVE \A c \in Client : key[c] = {} \/ \E k \in Keys : key[c] = {k}
BY DEF Types, KeySet

LEMMA FaultsBounded == ASSUME Types, Fault \/ UNCHANGED faults PROVE faults' \in 0..MaxFaults
<1>1. faults \in 0..MaxFaults
  BY DEF Types
<1>2. faults' = faults \/ (faults < MaxFaults /\ faults' = faults + 1)
  BY DEF Fault
<1>. QED BY <1>1, <1>2, CredentialsAssumption

LEMMA InitIInv == Init => IInv
<1>. SUFFICES ASSUME Init PROVE IInv
  OBVIOUS
<1>. USE DEF Init
<1>1. NoCreds \in Creds /\ NoOp \in [p : Provider, v : Value \cup {None}]
  BY DEF NoCreds, NoOp, Creds, Provider
<1>2. Types
  <2>1. faults \in 0..MaxFaults /\ salts \in Nat
    BY CredentialsAssumption
  <2>. QED BY <1>1, <2>1 DEF Types, KeySet, Places
<1>3. \A c \in Client : pc[c] = "off"
  OBVIOUS
<1>4. PlaceFits /\ FirstSalt /\ KeysAgree /\ FileHolds /\ ItemsHold
  BY <1>3 DEF PlaceFits, FirstSalt, KeysAgree, FileHolds, ItemsHold, MakingSalt, InWrite
<1>. QED BY <1>2, <1>4 DEF IInv

-----------------------------------------------------------------------------
\* A client that starts: neither a store nor a call in progress is touched.
LEMMA StartKeeps ==
    ASSUME IInv, NEW c \in Client,
           UNCHANGED <<backend, store, items, op, hand, done, stale, spoiled>>,
           pc[c] \in {"off", "newSalt", "saltTruncated"},
           pc'[c] \in {"off", "newSalt", "saltTruncated", "idle"},
           \A d \in Client : d # c => pc'[d] = pc[d]
    PROVE  FileHolds' /\ ItemsHold'
<1>1. \A d \in Client : /\ InWrite(d)' <=> InWrite(d)
                        /\ pc'[d] = "truncated" <=> pc[d] = "truncated"
                        /\ pc'[d] = "deleted" <=> pc[d] = "deleted"
  BY DEF InWrite
<1>2. FileHolds'
  BY <1>1 DEF IInv, FileHolds
<1>3. ItemsHold'
  BY <1>1 DEF IInv, ItemsHold
<1>. QED BY <1>2, <1>3

LEMMA ManagerStep == ASSUME IInv, NEW c \in Client, NewManager(c) PROVE IInv'
<1>. USE DEF IInv
<1>1. /\ pc[c] = "off" /\ backend # "file"
      /\ UNCHANGED <<backend, outside, key, op, hand, history, faults>>
      /\ Goto(c, "idle")
  BY DEF NewManager
<1>2. /\ pc' \in [Client -> Places] /\ pc'[c] = "idle"
      /\ \A d \in Client : d # c => pc'[d] = pc[d]
  BY <1>1, Moved DEF Places
<1>3. Types'
  BY <1>1, <1>2 DEF Types, outside, history, KeySet, Keys, Stored
<1>4. PlaceFits' /\ FirstSalt' /\ KeysAgree'
  BY <1>1, <1>2 DEF PlaceFits, FirstSalt, KeysAgree, MakingSalt, InWrite, outside, history
<1>5. FileHolds' /\ ItemsHold'
  BY <1>1, <1>2, StartKeeps DEF outside, history
<1>. QED BY <1>3, <1>4, <1>5

LEMMA ReadSaltStep == ASSUME IInv, NEW c \in Client, ReadSalt(c) PROVE IInv'
<1>. USE DEF IInv
<1>1. /\ pc[c] = "off" /\ backend = "file" /\ salt # {}
      /\ key' = [key EXCEPT ![c] = salt]
      /\ ~resalted' => ~resalted /\ \A d \in Client : ~MakingSalt(d)
      /\ UNCHANGED <<backend, outside, op, hand, salts, done, stale, spoiled, faults>>
      /\ Goto(c, "idle")
  BY DEF ReadSalt
<1>2. /\ pc' \in [Client -> Places] /\ pc'[c] = "idle"
      /\ \A d \in Client : d # c => pc'[d] = pc[d]
  BY <1>1, Moved DEF Places
<1>3. /\ key' \in [Client -> KeySet] /\ key'[c] = salt
      /\ \A d \in Client : d # c => key'[d] = key[d]
  BY <1>1 DEF Types
<1>4. Types'
  BY <1>1, <1>2, <1>3 DEF Types, outside, KeySet, Keys, Stored
<1>5. PlaceFits'
  BY <1>1, <1>2, <1>3 DEF PlaceFits, MakingSalt, InWrite
<1>6. FirstSalt'
  BY <1>1, <1>2 DEF FirstSalt, MakingSalt
<1>7. KeysAgree'
  BY <1>1, <1>2, <1>3 DEF KeysAgree, InWrite, outside
<1>8. FileHolds' /\ ItemsHold'
  BY <1>1, <1>2, StartKeeps DEF outside
<1>. QED BY <1>4, <1>5, <1>6, <1>7, <1>8

\* Where there is no salt, no client has a key and no store is sealed.
LEMMA NoSaltStep == ASSUME IInv, NEW c \in Client, NoSalt(c) PROVE IInv'
<1>. USE DEF IInv
<1>1. /\ pc[c] = "off" /\ backend = "file"
      /\ ~resalted' => ~resalted /\ salt = {} /\ \A d \in Client : ~MakingSalt(d)
      /\ salts' = salts + 1
      /\ key' = [key EXCEPT ![c] = {salts'}]
      /\ UNCHANGED <<backend, outside, op, hand, done, stale, spoiled>>
      /\ Goto(c, "newSalt")
  BY DEF NoSalt
<1>2. /\ pc' \in [Client -> Places] /\ pc'[c] = "newSalt"
      /\ \A d \in Client : d # c => pc'[d] = pc[d]
  BY <1>1, Moved DEF Places
<1>3. /\ salts' \in Nat /\ KeySet \subseteq KeySet' /\ Stored \subseteq Stored'
      /\ {salts'} \in KeySet'
  <2>1. KeySet' = {{}} \cup {{k} : k \in Keys'}
    BY DEF KeySet
  <2>. QED BY <1>1, <2>1, KeysGrow
<1>4. /\ key' \in [Client -> KeySet'] /\ key'[c] = {salts'}
      /\ \A d \in Client : d # c => key'[d] = key[d]
  BY <1>1, <1>3 DEF Types
<1>5. Types'
  <2>1. faults' \in 0..MaxFaults
    BY FaultsBounded DEF NoSalt
  <2>2. salt' \in KeySet' /\ (store' = {} \/ \E s \in Stored' : store' = {s})
    BY <1>1, <1>3 DEF Types, outside
  <2>. QED BY <1>1, <1>2, <1>3, <1>4, <2>1, <2>2 DEF Types, outside
<1>6. PlaceFits'
  BY <1>1, <1>2, <1>4 DEF PlaceFits, MakingSalt, InWrite
<1>7. ASSUME ~resalted'
      PROVE  (\A d \in Client : pc[d] = "off") /\ (\A s \in store : s.key < 0)
  <2>1. ~resalted /\ salt = {} /\ \A d \in Client : ~MakingSalt(d)
    BY <1>1, <1>7
  <2>2. \A d \in Client : pc[d] # "idle" /\ ~InWrite(d)
    BY <1>1, <2>1 DEF KeysAgree, PlaceFits, InWrite
  <2>3. \A d \in Client : pc[d] = "off"
    BY <1>1, <2>1, <2>2 DEF Types, Places, PlaceFits, MakingSalt, InWrite
  <2>4. \A s \in store : ~(s.key >= 0)
    BY <1>1, <2>1 DEF KeysAgree
  <2>5. \A s \in store : s.key \in Int
    BY DEF Types, Stored, Keys
  <2>. QED BY <2>3, <2>4, <2>5
<1>8. FirstSalt' /\ KeysAgree'
  <2>. SUFFICES ASSUME ~resalted' PROVE FirstSalt' /\ KeysAgree'
    BY DEF FirstSalt, KeysAgree
  <2>1. \A d \in Client : d # c => pc'[d] = "off"
    BY <1>2, <1>7
  <2>2. \A s \in store' : s.key < 0 /\ ~(s.key >= 0)
    <3>1. \A s \in store : s.key < 0 /\ s.key \in Int
      BY <1>7 DEF Types, Stored, Keys
    <3>. QED BY <1>1, <3>1 DEF outside
  <2>. QED BY <1>2, <2>1, <2>2 DEF FirstSalt, KeysAgree, MakingSalt, InWrite
<1>9. FileHolds' /\ ItemsHold'
  BY <1>1, <1>2, StartKeeps DEF outside
<1>. QED BY <1>5, <1>6, <1>8, <1>9

\* The salt is being written: nobody else is there to have read it.
LEMMA SaltStep ==
    ASSUME IInv, NEW c \in Client, TruncateSalt(c) \/ WriteSalt(c) PROVE IInv'
<1>. USE DEF IInv
<1>1. /\ MakingSalt(c) /\ backend = "file"
      /\ UNCHANGED <<backend, store, items, key, op, hand, history, faults>>
      /\ \/ salt' = {0} /\ Goto(c, "saltTruncated")
         \/ salt' = key[c] /\ Goto(c, "idle")
  BY DEF TruncateSalt, WriteSalt, MakingSalt, PlaceFits
<1>2. /\ pc' \in [Client -> Places] /\ pc'[c] \in {"saltTruncated", "idle"}
      /\ pc'[c] = "idle" => salt' = key[c]
      /\ \A d \in Client : d # c => pc'[d] = pc[d]
  BY <1>1, Moved DEF Places
<1>3. Types'
  <2>1. {0} \in KeySet
    BY KeysGrow DEF Types, KeySet, Keys
  <2>2. key[c] \in KeySet
    BY DEF Types
  <2>3. salt' \in KeySet
    BY <1>1, <2>1, <2>2
  <2>. QED BY <1>1, <1>2, <2>3 DEF Types, history, KeySet, Keys, Stored
<1>4. PlaceFits'
  BY <1>1, <1>2 DEF PlaceFits, MakingSalt, InWrite
<1>5. FirstSalt'
  BY <1>1, <1>2 DEF FirstSalt, MakingSalt, history
<1>6. KeysAgree'
  <2>. SUFFICES ASSUME ~resalted PROVE KeysAgree'
    BY <1>1 DEF KeysAgree, history
  <2>1. /\ \A d \in Client : d # c => pc'[d] = "off"
        /\ \A s \in store : s.key < 0 /\ s.key \in Int
    BY <1>1, <1>2 DEF FirstSalt, Types, Stored, Keys
  <2>2. \A s \in store' : ~(s.key >= 0)
    BY <1>1, <2>1
  <2>. QED BY <1>1, <1>2, <2>1, <2>2 DEF KeysAgree, InWrite
<1>7. FileHolds' /\ ItemsHold'
  BY <1>1, <1>2, StartKeeps DEF history, MakingSalt
<1>. QED BY <1>3, <1>4, <1>5, <1>6, <1>7

LEMMA SaltFailsStep == ASSUME IInv, NEW c \in Client, SaltFails(c) PROVE IInv'
<1>. USE DEF IInv
<1>1. /\ MakingSalt(c)
      /\ key' = [key EXCEPT ![c] = {}]
      /\ UNCHANGED <<backend, outside, op, hand, history>>
      /\ Goto(c, "off")
  BY DEF SaltFails
<1>2. /\ pc' \in [Client -> Places] /\ pc'[c] = "off"
      /\ \A d \in Client : d # c => pc'[d] = pc[d]
  BY <1>1, Moved DEF Places
<1>3. /\ key' \in [Client -> KeySet]
      /\ \A d \in Client : d # c => key'[d] = key[d]
  BY <1>1 DEF Types, KeySet
<1>4. Types'
  <2>1. faults' \in 0..MaxFaults
    BY FaultsBounded DEF SaltFails
  <2>. QED BY <1>1, <1>2, <1>3, <2>1 DEF Types, outside, history, KeySet, Keys, Stored
<1>5. PlaceFits' /\ FirstSalt' /\ KeysAgree'
  BY <1>1, <1>2, <1>3 DEF PlaceFits, FirstSalt, KeysAgree, MakingSalt, InWrite, outside,
                          history
<1>6. FileHolds' /\ ItemsHold'
  BY <1>1, <1>2, StartKeeps DEF outside, history, MakingSalt
<1>. QED BY <1>4, <1>5, <1>6

-----------------------------------------------------------------------------
\* A call is in progress at c while no salt is made, before and after.
LEMMA CallKeeps ==
    ASSUME IInv, NEW c \in Client,
           UNCHANGED <<backend, salt, key, resalted>>,
           pc[c] \in {"idle", "loaded", "truncated", "deleted"},
           pc'[c] \in {"idle", "loaded", "truncated", "deleted"},
           pc'[c] \in {"loaded", "truncated"} => backend = "file",
           pc'[c] = "deleted" => backend = "keychain",
           \A d \in Client : d # c => pc'[d] = pc[d],
           \A s \in store' : s.key >= 0 => {s.key} = key[c] \/ s \in store
    PROVE  PlaceFits' /\ FirstSalt' /\ KeysAgree'
<1>. USE DEF IInv
<1>1. PlaceFits'
  BY DEF PlaceFits, MakingSalt, InWrite
<1>2. FirstSalt'
  BY DEF FirstSalt, MakingSalt
<1>3. KeysAgree'
  <2>. SUFFICES ASSUME backend = "file", ~resalted PROVE KeysAgree'
    BY DEF KeysAgree
  <2>1. pc[c] = "idle" \/ InWrite(c)
    BY DEF PlaceFits, InWrite
  <2>2. \A d \in Client : pc'[d] = "idle" \/ InWrite(d)' => key[d] = salt
    BY <2>1 DEF KeysAgree, InWrite
  <2>. QED BY <2>1, <2>2 DEF KeysAgree
<1>. QED BY <1>1, <1>2, <1>3

\* What loadStore gives is what the completed calls have stored, unless spoilt.
LEMMA Loaded ==
    ASSUME IInv, backend = "file", NEW c \in Client, NEW l \in loadStore(c)
    PROVE  l \in Creds /\ \A p \in Provider \ spoiled : l[p] = done[p]
<1>. USE DEF IInv
<1>1. CASE store = {}
  <2>1. l = NoCreds /\ done = NoCreds
    BY <1>1 DEF loadStore, FileHolds
  <2>. QED BY <2>1 DEF NoCreds, Creds
<1>2. CASE store # {}
  <2>1. PICK s \in store : {s.key} = key[c] /\ l = s.creds
    BY <1>2 DEF loadStore, Opened
  <2>2. s \in Stored
    BY DEF Types
  <2>3. s.key >= 0
    <3>1. PICK k \in Keys : key[c] = {k}
      BY <2>1, OneKey
    <3>2. k >= 0
      BY DEF Types, Keys
    <3>. QED BY <2>1, <3>1, <3>2
  <2>. QED BY <2>1, <2>2, <2>3 DEF FileHolds, Stored
<1>. QED BY <1>1, <1>2

LEMMA BeginStep ==
    ASSUME IInv, NEW c \in Client, NEW p \in Provider, NEW v \in Value \cup {None},
           Begin(c, p, v)
    PROVE  IInv'
<1>. USE DEF IInv
<1>1. /\ pc[c] = "idle" /\ backend = "file"
      /\ op' = [op EXCEPT ![c] = [p |-> p, v |-> v]]
      /\ stale' = [stale EXCEPT ![c] = {}]
      /\ UNCHANGED <<backend, outside, key, salts, resalted, done, spoiled, faults>>
      /\ Goto(c, "loaded")
  BY DEF Begin
<1>2. PICK l \in loadStore(c) : hand' = [hand EXCEPT ![c] = [l EXCEPT ![p] = v]]
  BY DEF Begin
<1>3. l \in Creds /\ \A q \in Provider \ spoiled : l[q] = done[q]
  BY <1>1, Loaded
<1>4. /\ pc' \in [Client -> Places] /\ pc'[c] = "loaded"
      /\ \A d \in Client : d # c => pc'[d] = pc[d]
  BY <1>1, Moved DEF Places
<1>5. /\ op' \in [Client -> [p : Provider, v : Value \cup {None}]]
      /\ op'[c].p = p /\ op'[c].v = v
      /\ \A d \in Client : d # c => op'[d] = op[d]
  BY <1>1 DEF Types
<1>6. /\ hand' \in [Client -> Creds]
      /\ hand'[c][p] = v /\ \A q \in Provider : q # p => hand'[c][q] = l[q]
      /\ \A d \in Client : d # c => hand'[d] = hand[d]
  <2>1. [l EXCEPT ![p] = v] \in Creds
    BY <1>3 DEF Creds
  <2>. QED BY <1>2, <1>3, <2>1 DEF Types, Creds
<1>7. /\ stale' \in [Client -> SUBSET Provider]
      /\ \A d \in Client : d # c => stale'[d] = stale[d]
  BY <1>1 DEF Types
<1>8. Types'
  BY <1>1, <1>4, <1>5, <1>6, <1>7 DEF Types, outside, KeySet, Keys, Stored
<1>9. PlaceFits' /\ FirstSalt' /\ KeysAgree'
  BY <1>1, <1>4, CallKeeps DEF outside
<1>10. FileHolds'
  <2>1. \A d \in Client : pc[d] = "truncated" => pc'[d] = "truncated"
    BY <1>1, <1>4
  <2>2. \A d \in Client : d # c => (InWrite(d)' <=> InWrite(d))
    BY <1>4 DEF InWrite
  <2>3. \A d \in Client : InWrite(d)' =>
          /\ hand'[d][op'[d].p] = op'[d].v
          /\ \A q \in Provider \ ({op'[d].p} \cup stale'[d] \cup spoiled) :
                hand'[d][q] = done[q]
    <3>. SUFFICES ASSUME NEW d \in Client, InWrite(d)'
                  PROVE  /\ hand'[d][op'[d].p] = op'[d].v
                         /\ \A q \in Provider \ ({op'[d].p} \cup stale'[d] \cup spoiled) :
                               hand'[d][q] = done[q]
      OBVIOUS
    <3>1. CASE d = c
      BY <1>3, <1>5, <1>6, <3>1
    <3>2. CASE d # c
      BY <1>1, <1>5, <1>6, <1>7, <2>2, <3>2 DEF FileHolds
    <3>. QED BY <3>1, <3>2
  <2>. QED BY <1>1, <2>1, <2>3 DEF FileHolds, outside
<1>11. ItemsHold'
  BY <1>1 DEF ItemsHold
<1>. QED BY <1>8, <1>9, <1>10, <1>11

LEMMA TruncateStep == ASSUME IInv, NEW c \in Client, Truncate(c) PROVE IInv'
<1>. USE DEF IInv
<1>1. /\ pc[c] = "loaded" /\ backend = "file" /\ store' = {Empty}
      /\ UNCHANGED <<backend, salt, items, key, op, hand, history, faults>>
      /\ Goto(c, "truncated")
  BY DEF Truncate, PlaceFits, InWrite
<1>2. /\ pc' \in [Client -> Places] /\ pc'[c] = "truncated"
      /\ \A d \in Client : d # c => pc'[d] = pc[d]
  BY <1>1, Moved DEF Places
<1>3. Empty \in Stored /\ Empty.key = -1
  BY DEF Empty, Sealed, Stored, NoCreds, Creds
<1>4. Types'
  BY <1>1, <1>2, <1>3 DEF Types, history, KeySet, Keys, Stored
<1>5. PlaceFits' /\ FirstSalt' /\ KeysAgree'
  <2>1. \A s \in store' : ~(s.key >= 0)
    BY <1>1, <1>3
  <2>. QED BY <1>1, <1>2, <2>1, CallKeeps DEF history
<1>6. FileHolds'
  <2>1. \A s \in store' : ~(s.key >= 0)
    BY <1>1, <1>3
  <2>2. \A d \in Client : InWrite(d)' <=> InWrite(d)
    BY <1>1, <1>2 DEF InWrite
  <2>. QED BY <1>1, <1>2, <2>1, <2>2 DEF FileHolds, history
<1>7. ItemsHold'
  BY <1>1 DEF ItemsHold
<1>. QED BY <1>4, <1>5, <1>6, <1>7

\* The call of c ends, with or without effect.
LEMMA CallReturns ==
    ASSUME Types, NEW c \in Client, Returns(c)
    PROVE  /\ op' \in [Client -> [p : Provider, v : Value \cup {None}]]
           /\ hand' \in [Client -> Creds] /\ pc' \in [Client -> Places]
           /\ pc'[c] = "idle"
           /\ \A d \in Client : d # c => /\ op'[d] = op[d] /\ hand'[d] = hand[d]
                                         /\ pc'[d] = pc[d]
<1>1. NoCreds \in Creds /\ NoOp \in [p : Provider, v : Value \cup {None}]
  BY DEF NoCreds, NoOp, Creds, Provider
<1>. QED BY <1>1, Moved DEF Returns, Types, Places

LEMMA CallCompletes ==
    ASSUME Types, NEW c \in Client, NEW p \in Provider, NEW v \in Value \cup {None},
           Completes(c, p, v)
    PROVE  /\ Returns(c)
           /\ done' \in Creds /\ done'[p] = v
           /\ \A q \in Provider : q # p => done'[q] = done[q]
           /\ stale' \in [Client -> SUBSET Provider]
           /\ \A d \in Client : d # c /\ InWrite(d) => stale'[d] = stale[d] \cup {p}
BY DEF Completes, Types, Creds

\* The file is written: the whole of it is what the call holds, with the
\* changes it has missed counted as spoilt.
LEMMA WriteStep == ASSUME IInv, NEW c \in Client, Write(c) PROVE IInv'
<1>. USE DEF IInv
<1>1. /\ pc[c] = "truncated" /\ InWrite(c) /\ backend = "file"
      /\ op[c].p \in Provider /\ op[c].v \in Value \cup {None}
      /\ Completes(c, op[c].p, op[c].v)
      /\ UNCHANGED <<backend, salt, items, key, salts, resalted, faults>>
  BY DEF Write, PlaceFits, InWrite, Types
<1>2. PICK k \in key[c] : store' \in {{Sealed(k, hand[c])}, {Torn}}
  BY DEF Write
<1>3. spoiled' = IF store' = {Torn} THEN Provider
                 ELSE (spoiled \cup stale[c]) \ {op[c].p}
  BY DEF Write
<1>4. k \in Keys /\ key[c] = {k} /\ k >= 0
  <2>1. k \in Keys /\ key[c] = {k}
    BY <1>2, OneKey
  <2>. QED BY <2>1 DEF Types, Keys
<1>5. /\ Sealed(k, hand[c]) \in Stored /\ Sealed(k, hand[c]).key = k
      /\ Sealed(k, hand[c]).creds = hand[c]
      /\ Torn \in Stored /\ Torn.key = -2
  BY <1>4 DEF Sealed, Stored, Torn, NoCreds, Creds, Types
<1>6. /\ op' \in [Client -> [p : Provider, v : Value \cup {None}]]
      /\ hand' \in [Client -> Creds] /\ pc' \in [Client -> Places]
      /\ pc'[c] = "idle"
      /\ \A d \in Client : d # c => /\ op'[d] = op[d] /\ hand'[d] = hand[d]
                                    /\ pc'[d] = pc[d]
  BY <1>1, CallCompletes, CallReturns
<1>7. /\ done' \in Creds /\ done'[op[c].p] = op[c].v
      /\ \A q \in Provider : q # op[c].p => done'[q] = done[q]
      /\ stale' \in [Client -> SUBSET Provider]
      /\ \A d \in Client : d # c /\ InWrite(d) => stale'[d] = stale[d] \cup {op[c].p}
  BY <1>1, CallCompletes
<1>8. Types'
  <2>1. spoiled' \subseteq Provider
    BY <1>3 DEF Types
  <2>2. \E s \in Stored : store' = {s}
    BY <1>2, <1>5
  <2>. QED BY <1>1, <1>6, <1>7, <2>1, <2>2 DEF Types, KeySet, Keys, Stored
<1>9. PlaceFits' /\ FirstSalt' /\ KeysAgree'
  <2>1. \A s \in store' : s.key >= 0 => {s.key} = key[c]
    BY <1>2, <1>4, <1>5
  <2>. QED BY <1>1, <1>6, <2>1, CallKeeps
<1>10. FileHolds'
  <2>1. store' # {}
    BY <1>2
  <2>2. \A q \in Provider \ spoiled' : hand[c][q] = done'[q]
    <3>1. /\ hand[c][op[c].p] = op[c].v
          /\ \A q \in Provider \ ({op[c].p} \cup stale[c] \cup spoiled) :
                hand[c][q] = done[q]
      BY <1>1 DEF FileHolds
    <3>. QED BY <1>3, <1>7, <3>1
  <2>3. \A s \in store' :
          IF s.key >= 0 THEN \A q \in Provider \ spoiled' : s.creds[q] = done'[q]
          ELSE spoiled' = Provider
    <3>1. CASE store' = {Torn}
      BY <1>3, <1>5, <3>1
    <3>2. CASE store' # {Torn}
      BY <1>2, <1>4, <1>5, <2>2, <3>2
    <3>. QED BY <3>1, <3>2
  <2>4. \A d \in Client : InWrite(d)' =>
          /\ hand'[d][op'[d].p] = op'[d].v
          /\ \A q \in Provider \ ({op'[d].p} \cup stale'[d] \cup spoiled') :
                hand'[d][q] = done'[q]
    <3>. SUFFICES ASSUME NEW d \in Client, InWrite(d)'
                  PROVE  /\ hand'[d][op'[d].p] = op'[d].v
                         /\ \A q \in Provider \ ({op'[d].p} \cup stale'[d] \cup spoiled') :
                               hand'[d][q] = done'[q]
      OBVIOUS
    <3>1. d # c /\ InWrite(d)
      BY <1>6 DEF InWrite
    <3>2. /\ hand[d][op[d].p] = op[d].v
          /\ \A q \in Provider \ ({op[d].p} \cup stale[d] \cup spoiled) :
                hand[d][q] = done[q]
      BY <1>1, <3>1 DEF FileHolds
    <3>3. stale'[d] = stale[d] \cup {op[c].p}
      BY <1>7, <3>1
    <3>. QED BY <1>3, <1>6, <1>7, <3>1, <3>2, <3>3
  <2>. QED BY <2>1, <2>3, <2>4 DEF FileHolds
<1>11. ItemsHold'
  BY <1>1 DEF ItemsHold
<1>. QED BY <1>8, <1>9, <1>10, <1>11

\* A write fails: the file is as it was, or nothing of it can be relied on.
LEMMA WriteFailsStep == ASSUME IInv, NEW c \in Client, WriteFails(c) PROVE IInv'
<1>. USE DEF IInv
<1>1. /\ InWrite(c) /\ pc[c] \in {"loaded", "truncated"} /\ backend = "file" /\ Returns(c)
      /\ UNCHANGED <<backend, salt, items, key, salts, resalted, done, stale>>
      /\ \/ pc[c] = "loaded" /\ store' = store /\ spoiled' = spoiled
         \/ store' \in {store, {Torn}} /\ spoiled' = Provider
  BY DEF WriteFails, InWrite, PlaceFits
<1>2. /\ op' \in [Client -> [p : Provider, v : Value \cup {None}]]
      /\ hand' \in [Client -> Creds] /\ pc' \in [Client -> Places]
      /\ pc'[c] = "idle"
      /\ \A d \in Client : d # c => /\ op'[d] = op[d] /\ hand'[d] = hand[d]
                                    /\ pc'[d] = pc[d]
  BY <1>1, CallReturns
<1>3. Torn \in Stored /\ Torn.key = -2
  BY DEF Sealed, Stored, Torn, NoCreds, Creds
<1>4. Types'
  <2>1. faults' \in 0..MaxFaults
    BY FaultsBounded DEF WriteFails
  <2>2. spoiled' \subseteq Provider /\ (store' = {} \/ \E s \in Stored : store' = {s})
    BY <1>1, <1>3 DEF Types
  <2>. QED BY <1>1, <1>2, <2>1, <2>2 DEF Types, KeySet, Keys, Stored
<1>5. PlaceFits' /\ FirstSalt' /\ KeysAgree'
  <2>1. \A s \in store' : s.key >= 0 => s \in store
    BY <1>1, <1>3
  <2>. QED BY <1>1, <1>2, <2>1, CallKeeps
<1>6. FileHolds'
  <2>1. \A d \in Client : InWrite(d)' =>
          InWrite(d) /\ op'[d] = op[d] /\ hand'[d] = hand[d]
    BY <1>2 DEF InWrite
  <2>2. CASE spoiled' = Provider
    BY <1>1, <1>3, <2>1, <2>2 DEF FileHolds
  <2>3. CASE pc[c] = "loaded" /\ store' = store /\ spoiled' = spoiled
    <3>1. \A d \in Client : pc[d] = "truncated" => pc'[d] = "truncated"
      BY <1>2, <2>3
    <3>. QED BY <1>1, <2>1, <2>3, <3>1 DEF FileHolds
  <2>. QED BY <1>1, <2>2, <2>3
<1>7. ItemsHold'
  BY <1>1 DEF ItemsHold
<1>. QED BY <1>4, <1>5, <1>6, <1>7

-----------------------------------------------------------------------------
LEMMA DeleteOldStep ==
    ASSUME IInv, NEW c \in Client, NEW p \in Provider, NEW v \in Value \cup {None},
           DeleteOld(c, p, v)
    PROVE  IInv'
<1>. USE DEF IInv
<1>1. /\ pc[c] = "idle" /\ backend = "keychain" /\ Goto(c, "deleted")
      /\ items' \in {items, [items EXCEPT ![p] = None]}
      /\ op' = [op EXCEPT ![c] = [p |-> p, v |-> v]]
      /\ UNCHANGED <<backend, salt, store, key, hand, history>>
  BY DEF DeleteOld
<1>2. /\ pc' \in [Client -> Places] /\ pc'[c] = "deleted"
      /\ \A d \in Client : d # c => pc'[d] = pc[d]
  BY <1>1, Moved DEF Places
<1>3. /\ op' \in [Client -> [p : Provider, v : Value \cup {None}]]
      /\ op'[c].p = p /\ \A d \in Client : d # c => op'[d] = op[d]
  BY <1>1 DEF Types
<1>4. items' \in Creds /\ \A q \in Provider : q # p => items'[q] = items[q]
  BY <1>1 DEF Types, Creds
<1>5. Types'
  <2>1. faults' \in 0..MaxFaults
    BY FaultsBounded DEF DeleteOld
  <2>. QED BY <1>1, <1>2, <1>3, <1>4, <2>1 DEF Types, history, KeySet, Keys, Stored
<1>6. PlaceFits' /\ FirstSalt' /\ KeysAgree'
  BY <1>1, <1>2, CallKeeps DEF history
<1>7. FileHolds'
  BY <1>1 DEF FileHolds
<1>8. ItemsHold'
  <2>. SUFFICES ASSUME NEW q \in Provider \ spoiled,
                       items'[q] # None
                          \/ \A d \in Client : pc'[d] = "deleted" => op'[d].p # q
                PROVE  items'[q] = done[q]
    BY <1>1 DEF ItemsHold, history
  <2>1. CASE q # p
    <3>1. items[q] # None \/ \A d \in Client : pc[d] = "deleted" => op[d].p # q
      BY <1>1, <1>2, <1>3, <1>4, <2>1
    <3>. QED BY <1>1, <1>4, <2>1, <3>1 DEF ItemsHold
  <2>2. CASE q = p
    <3>1. items'[p] # None
      BY <1>2, <1>3, <2>2
    <3>2. items' = items
      BY <1>1, <3>1 DEF Types, Creds
    <3>. QED BY <1>1, <2>2, <3>1, <3>2 DEF ItemsHold
  <2>. QED BY <2>1, <2>2
<1>. QED BY <1>5, <1>6, <1>7, <1>8

\* An entry is set, and whoever is about to add it will find it there.
LEMMA EntrySet ==
    ASSUME IInv, NEW c \in Client, NEW p \in Provider, NEW v \in Value \cup {None},
           backend # "file", pc[c] \in {"idle", "deleted"},
           Completes(c, p, v),
           \/ items' = [items EXCEPT ![p] = v] /\ spoiled' = spoiled \ {p}
           \/ items' = items /\ spoiled' = spoiled \cup {p},
           UNCHANGED <<backend, salt, store, key, salts, resalted>>,
           faults' \in 0..MaxFaults,
           pc[c] = "deleted" => op[c].p = p
    PROVE  IInv'
<1>. USE DEF IInv
<1>1. /\ op' \in [Client -> [p : Provider, v : Value \cup {None}]]
      /\ hand' \in [Client -> Creds] /\ pc' \in [Client -> Places]
      /\ pc'[c] = "idle"
      /\ \A d \in Client : d # c => /\ op'[d] = op[d] /\ hand'[d] = hand[d]
                                    /\ pc'[d] = pc[d]
  BY CallCompletes, CallReturns
<1>2. /\ done' \in Creds /\ done'[p] = v
      /\ \A q \in Provider : q # p => done'[q] = done[q]
      /\ stale' \in [Client -> SUBSET Provider]
  BY CallCompletes
<1>3. /\ items' \in Creds /\ spoiled' \subseteq Provider
      /\ \A q \in Provider : q # p => items'[q] = items[q] /\ (q \in spoiled' <=> q \in spoiled)
      /\ p \notin spoiled' => items'[p] = v
  BY DEF Types, Creds
<1>4. Types'
  BY <1>1, <1>2, <1>3 DEF Types, KeySet, Keys, Stored
<1>5. PlaceFits' /\ FirstSalt' /\ KeysAgree'
  BY <1>1, CallKeeps
<1>6. FileHolds'
  BY DEF FileHolds
<1>7. ItemsHold'
  <2>. SUFFICES ASSUME NEW q \in Provider \ spoiled', q # p,
                       items[q] # None
                          \/ \A d \in Client : pc'[d] = "deleted" => op'[d].p # q
                PROVE  items[q] = done[q]
    BY <1>2, <1>3 DEF ItemsHold
  <2>1. items[q] # None \/ \A d \in Client : pc[d] = "deleted" => op[d].p # q
    BY <1>1
  <2>. QED BY <1>3, <2>1 DEF ItemsHold
<1>. QED BY <1>4, <1>5, <1>6, <1>7

LEMMA AddItemStep == ASSUME IInv, NEW c \in Client, AddItem(c) PROVE IInv'
<1>1. /\ pc[c] = "deleted" /\ backend = "keychain"
      /\ op[c].p \in Provider /\ op[c].v \in Value \cup {None}
  BY DEF AddItem, IInv, Types, PlaceFits
<1>2. faults' \in 0..MaxFaults
  BY FaultsBounded DEF AddItem, IInv
<1>. QED BY <1>1, <1>2, EntrySet DEF AddItem

LEMMA SetItemStep ==
    ASSUME IInv, NEW c \in Client, NEW p \in Provider, NEW v \in Value \cup {None},
           SetItem(c, p, v)
    PROVE  IInv'
<1>1. faults' \in 0..MaxFaults
  BY FaultsBounded DEF SetItem, IInv
<1>. QED BY <1>1, EntrySet DEF SetItem

LEMMA DeleteUnseenStep ==
    ASSUME IInv, NEW c \in Client, NEW p \in Provider, DeleteUnseen(c, p) PROVE IInv'
<1>1. faults' \in 0..MaxFaults
  BY FaultsBounded DEF DeleteUnseen, IInv
<1>. QED BY <1>1, EntrySet DEF DeleteUnseen, outside

\* An item that is refused is there, and one that fails is spoilt.
LEMMA AddFailsStep == ASSUME IInv, NEW c \in Client, AddFails(c) PROVE IInv'
<1>. USE DEF IInv
<1>1. /\ pc[c] = "deleted" /\ backend = "keychain" /\ Returns(c)
      /\ op[c].p \in Provider
      /\ IF items[op[c].p] = None THEN spoiled' = spoiled \cup {op[c].p}
         ELSE spoiled' = spoiled
      /\ UNCHANGED <<backend, outside, key, salts, resalted, done, stale>>
  BY DEF AddFails, Types, PlaceFits
<1>2. /\ op' \in [Client -> [p : Provider, v : Value \cup {None}]]
      /\ hand' \in [Client -> Creds] /\ pc' \in [Client -> Places]
      /\ pc'[c] = "idle"
      /\ \A d \in Client : d # c => /\ op'[d] = op[d] /\ hand'[d] = hand[d]
                                    /\ pc'[d] = pc[d]
  BY <1>1, CallReturns
<1>3. Types'
  <2>1. faults' \in 0..MaxFaults
    BY FaultsBounded DEF AddFails
  <2>2. spoiled' \subseteq Provider
    BY <1>1 DEF Types
  <2>. QED BY <1>1, <1>2, <2>1, <2>2 DEF Types, outside, KeySet, Keys, Stored
<1>4. PlaceFits' /\ FirstSalt' /\ KeysAgree'
  BY <1>1, <1>2, CallKeeps DEF outside
<1>5. FileHolds'
  BY <1>1 DEF FileHolds
<1>6. ItemsHold'
  <2>. SUFFICES ASSUME NEW q \in Provider \ spoiled',
                       items[q] # None
                          \/ \A d \in Client : pc'[d] = "deleted" => op'[d].p # q
                PROVE  items[q] = done[q]
    BY <1>1 DEF ItemsHold, outside
  <2>1. q \notin spoiled /\ (op[c].p = q => items[q] # None)
    BY <1>1
  <2>2. items[q] # None \/ \A d \in Client : pc[d] = "deleted" => op[d].p # q
    BY <1>2, <2>1
  <2>. QED BY <1>1, <2>1, <2>2 DEF ItemsHold
<1>. QED BY <1>3, <1>4, <1>5, <1>6

-----------------------------------------------------------------------------
\* A client that ends in the middle of a call spoils what it was changing.
LEMMA EndStep == ASSUME IInv, NEW c \in Client, End(c) PROVE IInv'
<1>. USE DEF IInv
<1>1. /\ pc[c] # "off" /\ Goto(c, "off")
      /\ spoiled' = spoiled \cup LeavesSpoilt(c)
      /\ key' = [key EXCEPT ![c] = {}]
      /\ op' = [op EXCEPT ![c] = NoOp] /\ hand' = [hand EXCEPT ![c] = NoCreds]
      /\ stale' = [stale EXCEPT ![c] = {}]
      /\ UNCHANGED <<backend, outside, salts, resalted, done>>
  BY DEF End
<1>2. /\ pc[c] = "truncated" => LeavesSpoilt(c) = Provider
      /\ pc[c] = "deleted" => LeavesSpoilt(c) = {op[c].p}
      /\ LeavesSpoilt(c) \subseteq Provider
  BY DEF LeavesSpoilt, Types
<1>3. /\ pc' \in [Client -> Places] /\ pc'[c] = "off"
      /\ \A d \in Client : d # c => pc'[d] = pc[d]
  BY <1>1, Moved DEF Places
<1>4. NoCreds \in Creds /\ NoOp \in [p : Provider, v : Value \cup {None}] /\ {} \in KeySet
  BY DEF NoCreds, NoOp, Creds, Provider, KeySet
<1>5. /\ key' \in [Client -> KeySet] /\ stale' \in [Client -> SUBSET Provider]
      /\ op' \in [Client -> [p : Provider, v : Value \cup {None}]]
      /\ hand' \in [Client -> Creds]
      /\ \A d \in Client : d # c => /\ key'[d] = key[d] /\ stale'[d] = stale[d]
                                    /\ op'[d] = op[d] /\ hand'[d] = hand[d]
  BY <1>1, <1>4 DEF Types
<1>6. Types'
  <2>1. faults' \in 0..MaxFaults
    BY FaultsBounded DEF End
  <2>2. spoiled' \subseteq Provider
    BY <1>1, <1>2 DEF Types
  <2>. QED BY <1>1, <1>3, <1>5, <2>1, <2>2 DEF Types, outside, KeySet, Keys, Stored
<1>7. PlaceFits' /\ FirstSalt' /\ KeysAgree'
  BY <1>1, <1>3, <1>5 DEF PlaceFits, FirstSalt, KeysAgree, MakingSalt, InWrite, outside
<1>8. FileHolds'
  <2>1. \A d \in Client : InWrite(d)' => d # c /\ InWrite(d)
    BY <1>3 DEF InWrite
  <2>2. spoiled' = Provider \/ \A d \in Client : pc[d] = "truncated" => pc'[d] = "truncated"
    BY <1>1, <1>2, <1>3 DEF Types
  <2>3. spoiled \subseteq spoiled'
    BY <1>1
  <2>4. \A d \in Client : InWrite(d)' /\ backend = "file" =>
          /\ hand'[d][op'[d].p] = op'[d].v
          /\ \A p \in Provider \ ({op'[d].p} \cup stale'[d] \cup spoiled') :
                hand'[d][p] = done[p]
    BY <1>5, <2>1, <2>3 DEF FileHolds
  <2>5. \A s \in store : backend = "file" =>
          IF s.key >= 0 THEN \A p \in Provider \ spoiled' : s.creds[p] = done[p]
          ELSE spoiled' = Provider \/ \E d \in Client : pc'[d] = "truncated"
    <3>1. spoiled = Provider => spoiled' = Provider
      BY <2>3, <1>6 DEF Types
    <3>. QED BY <2>2, <2>3, <3>1 DEF FileHolds
  <2>. QED BY <1>1, <2>4, <2>5 DEF FileHolds, outside
<1>9. ItemsHold'
  <2>. SUFFICES ASSUME backend # "file", NEW q \in Provider \ spoiled',
                       items[q] # None
                          \/ \A d \in Client : pc'[d] = "deleted" => op'[d].p # q
                PROVE  items[q] = done[q]
    BY <1>1 DEF ItemsHold, outside
  <2>1. q \notin spoiled /\ (pc[c] = "deleted" => op[c].p # q)
    BY <1>1, <1>2
  <2>2. items[q] # None \/ \A d \in Client : pc[d] = "deleted" => op[d].p # q
    BY <1>3, <1>5, <2>1
  <2>. QED BY <2>1, <2>2 DEF ItemsHold
<1>. QED BY <1>6, <1>7, <1>8, <1>9

-----------------------------------------------------------------------------
LEMMA NextIInv == IInv /\ [Next]_vars => IInv'
<1>. SUFFICES ASSUME IInv, [Next]_vars PROVE IInv'
  OBVIOUS
<1>1. ASSUME NEW c \in Client, NewManager(c) \/ ReadSalt(c) \/ NoSalt(c)
      PROVE  IInv'
  BY <1>1, ManagerStep, ReadSaltStep, NoSaltStep
<1>2. ASSUME NEW c \in Client, TruncateSalt(c) \/ WriteSalt(c) \/ SaltFails(c)
      PROVE  IInv'
  BY <1>2, SaltStep, SaltFailsStep
<1>3. ASSUME NEW c \in Client, Call(c) PROVE IInv'
  BY <1>3, BeginStep, DeleteOldStep, SetItemStep DEF Call
<1>4. ASSUME NEW c \in Client, Truncate(c) \/ Write(c) \/ WriteFails(c)
      PROVE  IInv'
  BY <1>4, TruncateStep, WriteStep, WriteFailsStep
<1>5. ASSUME NEW c \in Client,
             AddItem(c) \/ AddFails(c) \/ \E p \in Provider : DeleteUnseen(c, p)
      PROVE  IInv'
  BY <1>5, AddItemStep, AddFailsStep, DeleteUnseenStep
<1>6. ASSUME NEW c \in Client, End(c) PROVE IInv'
  BY <1>6, EndStep
<1>7. CASE UNCHANGED vars
  <2>. USE <1>7 DEF IInv, vars, outside, history
  <2>1. Types'
    BY DEF Types, KeySet, Keys, Stored
  <2>2. PlaceFits' /\ FirstSalt' /\ KeysAgree'
    BY DEF PlaceFits, FirstSalt, KeysAgree, MakingSalt, InWrite
  <2>3. FileHolds' /\ ItemsHold'
    BY DEF FileHolds, ItemsHold, InWrite
  <2>. QED BY <2>1, <2>2, <2>3
<1>. QED BY <1>1, <1>2, <1>3, <1>4, <1>5, <1>6, <1>7 DEF Next

LEMMA AlwaysIInv == Spec => []IInv
BY InitIInv, NextIInv, PTL DEF Spec

LEMMA NextResalted == Booleans /\ [Next]_vars => Booleans'
<1>. SUFFICES ASSUME resalted \in BOOLEAN, [Next]_vars PROVE resalted' \in BOOLEAN
  BY DEF Booleans
<1>1. ASSUME NEW c \in Client, ReadSalt(c) \/ NoSalt(c) PROVE resalted' \in BOOLEAN
  BY <1>1, Zenon DEF ReadSalt, NoSalt
<1>2. ASSUME UNCHANGED resalted PROVE resalted' \in BOOLEAN
  BY <1>2
<1>3. ASSUME NEW c \in Client,
             \/ NewManager(c) \/ TruncateSalt(c) \/ WriteSalt(c) \/ SaltFails(c)
             \/ Call(c) \/ Truncate(c) \/ Write(c) \/ WriteFails(c)
             \/ AddItem(c) \/ AddFails(c) \/ (\E p \in Provider : DeleteUnseen(c, p))
             \/ End(c)
      PROVE  UNCHANGED resalted
  BY <1>3 DEF NewManager, TruncateSalt, WriteSalt, SaltFails, Call, Begin, DeleteOld,
              SetItem, Truncate, Write, WriteFails, AddItem, AddFails, DeleteUnseen, End,
              history
<1>4. UNCHANGED vars => UNCHANGED resalted
  BY DEF vars, history
<1>. QED BY <1>1, <1>2, <1>3, <1>4, Zenon DEF Next

\* Every variable keeps its type.
THEOREM TypeCorrect == Spec => []TypeOK
<1>1. Init => Booleans
  BY DEF Init, Booleans
<1>2. Spec => []Booleans
  BY <1>1, NextResalted, PTL DEF Spec
<1>3. IInv => \A s \in store : s \in [key : {-1, -2} \cup Keys, creds : Creds]
  BY DEF IInv, Types, Stored
<1>4. IInv => \A c \in Client : (pc[c] = "idle" \/ InWrite(c)) /\ backend = "file" =>
                                   key[c] # {}
  BY DEF IInv, PlaceFits, InWrite
<1>5. IInv /\ Booleans => TypeOK
  BY <1>3, <1>4, Zenon DEF Booleans, IInv, Types, TypeOK, KeySet
<1>. QED BY <1>2, <1>5, AlwaysIInv, PTL

\* Keys agree: as long as no start finds a salt it cannot read and no two make
\* one at a time, what is stored stays readable.
THEOREM StaysReadable == Spec => []KeysAgree
<1>1. IInv => KeysAgree
  BY DEF IInv
<1>. QED BY <1>1, AlwaysIInv, PTL

\* Every store gives back what the last completed call has stored, but for
\* what a call that failed or overlapped has spoilt.
THEOREM StoresKeep == Spec => []LoadsWhatWasStored
<1>1. ASSUME IInv PROVE LoadsWhatWasStored
  <2>. SUFFICES ASSUME ~resalted, \A d \in Client : pc[d] \notin {"truncated", "deleted"},
                       NEW c \in Client, pc[c] = "idle", NEW p \in Provider \ spoiled
                PROVE  LoadCredentials(c, p) = {done[p]}
    BY DEF LoadsWhatWasStored, HasCredentials
  <2>. USE <1>1 DEF IInv
  <2>1. CASE backend = "file"
    <3>1. \A l \in loadStore(c) : l[p] = done[p]
      BY <2>1, Loaded
    <3>2. loadStore(c) # {}
      <4>1. CASE store = {}
        BY <4>1 DEF loadStore
      <4>2. ASSUME NEW s \in store PROVE s \in Opened(c)
        <5>1. s.key >= 0
          BY <2>1, <4>2 DEF FileHolds
        <5>2. key[c] = salt /\ {s.key} = salt
          BY <2>1, <4>2, <5>1 DEF KeysAgree
        <5>. QED BY <5>2 DEF Opened
      <4>. QED BY <4>1, <4>2 DEF loadStore
    <3>. QED BY <2>1, <3>1, <3>2 DEF LoadCredentials
  <2>2. CASE backend # "file"
    <3>1. items[p] = done[p]
      BY <2>2 DEF ItemsHold
    <3>. QED BY <2>2, <3>1 DEF LoadCredentials
  <2>. QED BY <2>1, <2>2
<1>. QED BY <1>1, AlwaysIInv, PTL

=============================================================================
