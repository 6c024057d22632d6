-------------------------- MODULE Settings_proofs --------------------------
(***************************************************************************)
(* The invariants of the settings window, for any number of faults and of  *)
(* scheduled functions, with the program's mutex and with a reentrant one. *)
(***************************************************************************)
EXTENDS Settings, TLAPS

\* Where the thread is while it saves.
SavingAt == {"onSettingsSaved", "truncate", "write"}

\* A save leaves room for the Hide that ends it.
Queued ==
    /\ queue \in Seq({"Show", "Hide"})
    /\ Len(queue) <= MaxQueued + 1
    /\ ui \in SavingAt => Len(queue) <= MaxQueued

\* At every moment: a save that has not failed has brought memory and disk
\* together, and one that is being written counts as failed until it is done.
Stored ==
    /\ ~saveFailed => appConfig = Load(file)
    /\ ui \in {"truncate", "write"} => saveFailed

\* Once there is a window, the configuration names its provider as the window
\* does: making the window has selected AWS, and a Save or a selection names one
\* of the list.
Named ==
    /\ window # "none" => current.provider \in Provider
    /\ ui = "loadConfigToForm" => window # "none"

\* While the window is shown, also during a save and before its Hide, the lists
\* are those of the provider that the form shows.
Fits ==
    window = "shown" =>
        /\ form.provider = current.provider
        /\ offered = form.provider
        /\ form.region \in Region[form.provider]

\* The file holds at most one configuration.
OneFile == file = {} \/ \E c \in Config : file = {c}

Types ==
    /\ mutex \in Mutexes /\ locked \in BOOLEAN
    /\ current \in Config /\ form \in Config
    /\ form.provider \in Provider
    /\ window \in {"none", "hidden", "shown"} /\ offered \in Provider
    /\ ui \in {"free", "createWindow", "loadConfigToForm"} \cup SavingAt
    /\ appConfig \in Config /\ OneFile
    /\ saveFailed \in BOOLEAN /\ faults \in 0..MaxFaults

IInv == Types /\ Queued /\ Stored /\ Named /\ Fits

-----------------------------------------------------------------------------
LEMMA RegionsOf ==
    /\ Region["AWS"] = {"us-east-1", "eu-west-1"}
    /\ Region["Hetzner"] = {"nbg1", "fsn1"}
    /\ \A p \in Provider : /\ DefaultRegion[p] \in Region[p]
                           /\ ListsFor(p) = p
    /\ \A p : ListsFor(p) \in Provider
BY DEF Region, DefaultRegion, Provider, ListsFor

LEMMA Configs ==
    ASSUME NEW c \in Config
    PROVE  /\ \A p \in Provider : [c EXCEPT !.provider = p] \in Config
           /\ \A p \in Provider : \A r \in Region[p] : [c EXCEPT !.region = r] \in Config
           /\ \A m \in Minutes : [c EXCEPT !.idle = m] \in Config
BY DEF Config

LEMMA LoadTypes ==
    /\ Load({}) = DefaultConfig /\ DefaultConfig \in Config
    /\ ByHand \in Config /\ NewForm \in Config /\ NewForm.provider \in Provider
    /\ \A c : Load({c}) = c
<1>1. "us-east-1" \in Region["AWS"] /\ "fsn1" \in Region["Hetzner"]
  BY RegionsOf
<1>2. DefaultConfig \in Config /\ ByHand \in Config /\ NewForm \in Config
  BY <1>1 DEF DefaultConfig, ByHand, NewForm, Config, Provider, Minutes
<1>. QED BY <1>2 DEF Load, NewForm, Provider

\* What the program has loaded is a configuration.
LEMMA LoadedIsConfig == ASSUME OneFile PROVE Load(file) \in Config
BY LoadTypes DEF OneFile

\* The form that Show fills is that of its configuration.
LEMMA FilledFits ==
    ASSUME NEW f \in Config, NEW c \in Config, f.provider \in Provider
    PROVE  /\ Filled(f, c) \in Config /\ Filled(f, c).provider \in Provider
           /\ c.provider \in Provider =>
                /\ Filled(f, c).provider = c.provider
                /\ Filled(f, c).region \in Region[c.provider]
<1>. DEFINE lists == ListsFor(c.provider)
            region == IF c.region \in Region[lists] THEN c.region
                      ELSE DefaultRegion[lists]
            provider == IF c.provider \in Provider THEN c.provider ELSE f.provider
<1>1. Filled(f, c) = [provider |-> provider, region |-> region, idle |-> c.idle]
  BY DEF Filled
<1>2. lists \in Provider /\ region \in Region[lists]
  BY RegionsOf
<1>3. region \in UNION {Region[p] : p \in Provider}
  BY <1>2
<1>4. provider \in Provider /\ c.idle \in Minutes
  BY DEF Config
<1>5. c.provider \in Provider => lists = c.provider
  BY RegionsOf
<1>. HIDE DEF lists, region, provider
<1>6. Filled(f, c) \in Config
  BY <1>1, <1>3, <1>4 DEF Config
<1>7. Filled(f, c).provider = provider /\ Filled(f, c).region = region
  BY <1>1
<1>. QED BY <1>2, <1>4, <1>5, <1>6, <1>7 DEF provider

LEMMA FaultCounts ==
    ASSUME Types, faults < MaxFaults PROVE faults + 1 \in 0..MaxFaults
BY SettingsAssumption DEF Types

\* The queue after a click, after the thread has taken from it, after a save.
LEMMA QueueSteps ==
    ASSUME Queued
    PROVE  /\ \A f \in {"Show", "Hide"} : Schedule(f) => Queued'
           /\ \A f : Take(f) /\ ui' \notin SavingAt => Queued'
           /\ ui \in SavingAt /\ EndSave => Queued'
<1>. USE SettingsAssumption DEF Queued, SavingAt
<1>1. \A f \in {"Show", "Hide"} :
         /\ Append(queue, f) \in Seq({"Show", "Hide"})
         /\ Len(Append(queue, f)) = Len(queue) + 1
  OBVIOUS
<1>2. Len(queue) \in Nat
  OBVIOUS
<1>3. queue # <<>> => /\ Tail(queue) \in Seq({"Show", "Hide"})
                      /\ Len(Tail(queue)) = Len(queue) - 1
  OBVIOUS
<1>4. ASSUME NEW f \in {"Show", "Hide"}, Schedule(f) PROVE Queued'
  BY <1>1, <1>2, <1>4 DEF Schedule
<1>5. ASSUME NEW f, Take(f), ui' \notin SavingAt PROVE Queued'
  BY <1>2, <1>3, <1>5 DEF Take
<1>6. ASSUME ui \in SavingAt, EndSave PROVE Queued'
  BY <1>1, <1>2, <1>6 DEF EndSave
<1>. QED BY <1>4, <1>5, <1>6

-----------------------------------------------------------------------------
LEMMA InitIInv == Init => IInv
<1>. SUFFICES ASSUME Init PROVE IInv
  OBVIOUS
<1>. USE DEF Init
<1>1. OneFile
  BY LoadTypes DEF OneFile
<1>2. Types
  <2>1. /\ current \in Config /\ appConfig \in Config
        /\ form \in Config /\ form.provider \in Provider
    BY <1>1, LoadTypes, LoadedIsConfig
  <2>2. faults \in 0..MaxFaults
    BY SettingsAssumption
  <2>. QED BY <1>1, <2>1, <2>2 DEF Types, Provider
<1>3. Queued
  BY SettingsAssumption DEF Queued, SavingAt
<1>4. Stored /\ Named /\ Fits
  BY DEF Stored, Named, Fits
<1>. QED BY <1>2, <1>3, <1>4 DEF IInv

\* What the thread takes from the queue: Show with its steps, and Hide.
LEMMA ShowKeeps == ASSUME IInv, Show PROVE IInv'
<1>. USE DEF IInv, Show, memory, widgets, disk
<1>1. Queued'
  BY QueueSteps DEF SavingAt
<1>2. Types'
  BY DEF Types, OneFile
<1>. QED BY <1>1, <1>2 DEF Take, Stored, Named, Fits

LEMMA ShowingKeeps == ASSUME IInv, Showing PROVE IInv'
<1>. USE DEF IInv, disk
<1>1. CASE createWindow
  <2>. USE <1>1 DEF createWindow
  <2>1. current' \in Config /\ current'.provider \in Provider
    BY Configs DEF Types, Config, Provider
  <2>2. Types'
    BY <2>1, LoadTypes DEF Types, OneFile, Provider
  <2>. QED BY <2>1, <2>2 DEF Queued, SavingAt, Stored, Named, Fits
<1>2. CASE loadConfigToForm
  <2>. USE <1>2 DEF loadConfigToForm
  <2>1. /\ form' \in Config
        /\ form'.provider = current.provider
        /\ form'.region \in Region[current.provider]
        /\ current.provider \in Provider
    BY FilledFits DEF Types, Named
  <2>2. Types'
    BY <2>1, RegionsOf DEF Types, OneFile
  <2>3. Fits'
    BY <2>1, RegionsOf DEF Fits
  <2>. QED BY <2>1, <2>2, <2>3 DEF Queued, SavingAt, Stored, Named
<1>. QED BY <1>1, <1>2 DEF Showing

LEMMA HideKeeps == ASSUME IInv, Hide PROVE IInv'
<1>. USE DEF IInv, Hide, disk
<1>1. Queued'
  BY QueueSteps DEF Take, SavingAt
<1>2. Types'
  BY DEF Types, OneFile
<1>. QED BY <1>1, <1>2 DEF Stored, Named, Fits

LEMMA UserKeeps == ASSUME IInv, User PROVE IInv'
<1>. USE DEF IInv, disk
<1>1. CASE ClickSettings
  BY <1>1, QueueSteps DEF ClickSettings, Types, OneFile, Stored, Named, Fits, memory, widgets
<1>2. ASSUME NEW p \in Provider, onProviderChanged(p) PROVE IInv'
  <2>. USE <1>2 DEF onProviderChanged
  <2>1. /\ current' \in Config /\ current'.provider = p
        /\ form' \in Config /\ form'.provider = p /\ form'.region = DefaultRegion[p]
    <3>1. [form EXCEPT !.provider = p] \in Config
      BY Configs DEF Types
    <3>2. form' = [[form EXCEPT !.provider = p] EXCEPT !.region = DefaultRegion[p]]
      BY DEF Types, Config
    <3>3. \A f \in Config : [f EXCEPT !.region = DefaultRegion[p]] \in Config
      BY Configs, RegionsOf
    <3>4. form' \in Config
      BY <3>1, <3>2, <3>3
    <3>. QED BY <3>4, Configs DEF Types, Config
  <2>2. Types'
    BY <2>1 DEF Types, OneFile
  <2>3. Stored' /\ Named' /\ Fits'
    BY <2>1, RegionsOf DEF Stored, Named, Fits
  <2>. QED BY <2>2, <2>3 DEF Queued
<1>3. ASSUME NEW p \in Provider, NEW r \in Region[p], EditRegion(r) PROVE IInv'
  <2>. USE <1>3 DEF EditRegion, Edit
  <2>1. form' \in Config /\ form'.provider = form.provider /\ form'.region = r
    BY Configs DEF Types, Config
  <2>2. Types'
    BY <2>1 DEF Types, OneFile
  <2>3. Stored' /\ Named' /\ Fits'
    BY <2>1 DEF Stored, Named, Fits
  <2>. QED BY <2>2, <2>3 DEF Queued
<1>4. ASSUME NEW m \in Minutes, EditIdle(m) PROVE IInv'
  <2>. USE <1>4 DEF EditIdle, Edit
  <2>1. /\ form' \in Config /\ form'.provider = form.provider
        /\ form'.region = form.region
    BY Configs DEF Types, Config
  <2>2. Types'
    BY <2>1 DEF Types, OneFile
  <2>3. Stored' /\ Named' /\ Fits'
    BY <2>1 DEF Stored, Named, Fits
  <2>. QED BY <2>2, <2>3 DEF Queued
<1>5. CASE onSaveClicked
  <2>. USE <1>5 DEF onSaveClicked, widgets
  <2>1. Types'
    BY DEF Types, OneFile, SavingAt
  <2>2. Queued'
    <3>1. Len(queue) \in Nat
      BY DEF Queued
    <3>. QED BY <3>1, SettingsAssumption DEF Queued
  <2>3. Stored' /\ Named' /\ Fits'
    BY DEF Stored, Named, Fits, Types
  <2>. QED BY <2>1, <2>2, <2>3
<1>6. CASE Close
  BY <1>6 DEF Close, Types, OneFile, Queued, Stored, Named, Fits, Editing
<1>7. CASE onCancelClicked
  BY <1>7, QueueSteps
  DEF onCancelClicked, Types, OneFile, Stored, Named, Fits, memory, widgets
<1>. QED BY <1>1, <1>2, <1>3, <1>4, <1>5, <1>6, <1>7 DEF User

\* A save: the form stays as it is until the Hide that ends it is taken.
LEMMA SavingKeeps == ASSUME IInv, Saving PROVE IInv'
<1>. USE DEF IInv, memory, widgets
<1>1. CASE onSettingsSaved
  <2>. USE <1>1 DEF onSettingsSaved
  <2>1. Queued' /\ ui' \in {"truncate", "free"}
    BY QueueSteps DEF Queued, SavingAt, EndSave
  <2>2. Types'
    BY <2>1 DEF Types, OneFile, SavingAt
  <2>. QED BY <2>1, <2>2 DEF Stored, Named, Fits
<1>2. CASE Truncate
  BY <1>2 DEF Truncate, Types, OneFile, Queued, SavingAt, Stored, Named, Fits
<1>3. CASE Write
  <2>. USE <1>3 DEF Write
  <2>1. OneFile' /\ Load(file') = appConfig'
    BY LoadTypes DEF OneFile, Types
  <2>2. Queued' /\ ui' = "free"
    BY QueueSteps DEF SavingAt, EndSave
  <2>3. Types'
    BY <2>1, <2>2 DEF Types
  <2>. QED BY <2>1, <2>2, <2>3 DEF Stored, Named, Fits
<1>4. CASE WriteFails
  <2>. USE <1>4 DEF WriteFails
  <2>1. Queued' /\ ui' = "free"
    BY QueueSteps DEF SavingAt, EndSave
  <2>2. Types'
    BY <2>1, FaultCounts DEF Types, OneFile
  <2>. QED BY <2>1, <2>2 DEF Stored, Named, Fits
<1>. QED BY <1>1, <1>2, <1>3, <1>4 DEF Saving

LEMMA RestartKeeps == ASSUME IInv, Restart PROVE IInv'
<1>. USE DEF IInv, Restart
<1>1. OneFile' /\ Load(file) \in Config
  BY LoadedIsConfig DEF Types, OneFile
<1>2. Types'
  BY <1>1, FaultCounts, LoadTypes DEF Types, Provider
<1>3. Queued'
  BY SettingsAssumption DEF Queued, SavingAt
<1>. QED BY <1>2, <1>3 DEF Stored, Named, Fits

LEMMA NextIInv == IInv /\ [Next]_vars => IInv'
<1>. SUFFICES ASSUME IInv, [Next]_vars PROVE IInv'
  OBVIOUS
<1>1. CASE UNCHANGED vars
  BY <1>1 DEF vars, memory, widgets, disk, IInv, Types, OneFile, Queued, Stored, Named, Fits
<1>. QED BY <1>1, ShowKeeps, ShowingKeeps, HideKeeps, UserKeeps, SavingKeeps,
            RestartKeeps DEF Next

LEMMA AlwaysIInv == Spec => []IInv
BY InitIInv, NextIInv, PTL DEF Spec

-----------------------------------------------------------------------------
\* Every configuration in the window, in memory and in the file is one that the
\* program can handle, and the queue stays within its bound.
THEOREM TypeCorrect == Spec => []TypeOK
<1>1. IInv => TypeOK BY DEF IInv, Types, OneFile, Queued, SavingAt, TypeOK
<1>. QED BY <1>1, AlwaysIInv, PTL

\* The program and its next start use the same configuration, after any number
\* of failed and interrupted saves, unless the user was told (main.go,
\* config.go).
THEOREM SavedIsUsed == Spec => []MemoryIsDisk
<1>1. IInv => MemoryIsDisk BY DEF IInv, Stored, MemoryIsDisk
<1>. QED BY <1>1, AlwaysIInv, PTL

\* The form shows the provider of the window's configuration and one of its
\* regions after any sequence of shows, selections, cancellations and saves, and
\* whatever file was loaded (settings.go).
THEOREM FormFitsProvider == Spec => []ShownFitsProvider
<1>1. IInv => ShownFitsProvider BY DEF IInv, Fits, Editing, ShownFitsProvider
<1>. QED BY <1>1, AlwaysIInv, PTL
=============================================================================
