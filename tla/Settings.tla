------------------------------ MODULE Settings ------------------------------
(***************************************************************************)
(* The settings window, src/internal/ui/settings.go, with what main.go     *)
(* does with a saved configuration and the file of src/internal/config.    *)
(* Everything runs on the toolkit's thread, one function after the other:  *)
(* those scheduled with fyne.Do, in their order, and between them the      *)
(* handlers of the widgets.  A list calls its handler also when the        *)
(* program selects an entry (Fyne 2.7.2, as in go.mod), and ignores        *)
(* entries that it does not offer.                                         *)
(*                                                                         *)
(* The window's mutex is a sync.Mutex, "plain": a thread that locks it     *)
(* twice waits for itself.  "reentrant" is what a repair would need, a     *)
(* mutex that handlers run by Show may take again, together with a first   *)
(* selection (line 212) made when the widgets that the handler sets are    *)
(* there.  With "plain" no Show gets as far as a form.                     *)
(*                                                                         *)
(* A region stands for the region and the instance type, which are handled *)
(* alike.  The credentials are left out: the window asks for those of the  *)
(* selected provider, and nothing else here depends on them.               *)
(***************************************************************************)
EXTENDS Naturals, Sequences

CONSTANTS
    Mutexes,     \* the kinds of mutex considered
    MaxQueued,   \* the user schedules no more than this many functions at once
    MaxFaults    \* bound on failed and interrupted writes and on restarts

ASSUME SettingsAssumption ==
    /\ Mutexes \subseteq {"plain", "reentrant"}
    /\ MaxQueued \in Nat /\ MaxFaults \in Nat

\* The providers as the window spells them; the file may say "aws", "hetzner".
Provider == {"AWS", "Hetzner"}
Region   == [AWS |-> {"us-east-1", "eu-west-1"}, Hetzner |-> {"nbg1", "fsn1"}]

DefaultRegion == [AWS |-> "us-east-1", Hetzner |-> "nbg1"]

\* The idle timeout in minutes: 0 when it is off, the default, too much.
Minutes == {0, 30, 1441}

Config == [provider : Provider \cup {"aws", "hetzner"},
           region   : UNION {Region[p] : p \in Provider},
           idle     : Minutes]

VARIABLES
    (* the process *)
    mutex,      \* the kind of SettingsWindow.mu
    locked,     \* it is held over several steps
    current,    \* SettingsWindow.currentConfig
    window,     \* the window: "none", "hidden" or "shown"
    form,       \* the contents of its widgets
    offered,    \* the provider whose regions the list offers
    ui,         \* where the toolkit's thread is
    queue,      \* the functions scheduled with fyne.Do
    appConfig,
    (* outside the process *)
    file,       \* the configuration a start can read in the file: none or one
    (* history and bounds *)
    saveFailed, \* the last save was not completed
    faults

widgets == <<window, form, offered>>
memory  == <<widgets, current, appConfig>>
disk    == <<file, saveFailed, faults>>
vars    == <<mutex, locked, memory, ui, queue, disk>>

-----------------------------------------------------------------------------
(* src/internal/config *)

DefaultConfig == [provider |-> "aws", region |-> "us-east-1", idle |-> 0]

\* A configuration that was written by hand.
ByHand == [provider |-> "hetzner", region |-> "fsn1", idle |-> 30]

\* Load gives the defaults without a file; main takes them also when the file
\* cannot be parsed.
Load(f) == IF f = {} THEN DefaultConfig ELSE CHOOSE c \in f : TRUE

\* Regions and types are never empty; providers are compared in lower case.
Validate(c) ==
    /\ c.provider \in Provider \cup {"aws", "hetzner"}
    /\ c.idle \in 0..1440

-----------------------------------------------------------------------------
(* The form *)

\* The lists of every provider that is not spelled "AWS" are Hetzner's.
ListsFor(provider) == IF provider = "AWS" THEN "AWS" ELSE "Hetzner"

\* Mutant: nothing is selected.
NewForm_NothingSelected == [provider |-> "", region |-> "", idle |-> 0]

\* createWindow and the create...Section methods.
NewForm == [provider |-> "AWS", region |-> "us-east-1", idle |-> 0]

\* The form f after loadConfigToForm has filled it from c: a list keeps its
\* selection when it does not offer the new one.
Filled(f, c) ==
    LET lists == ListsFor(c.provider)
    IN  [provider |-> IF c.provider \in Provider THEN c.provider ELSE f.provider,
         region   |-> IF c.region \in Region[lists] THEN c.region
                      ELSE DefaultRegion[lists],
         idle     |-> c.idle]

-----------------------------------------------------------------------------
Init ==
    /\ mutex \in Mutexes /\ locked = FALSE
    /\ file \in {{}, {ByHand}}
    /\ appConfig = Load(file)
    /\ current = Load(file)
    /\ window = "none" /\ form = NewForm /\ offered = "AWS"
    /\ ui = "free" /\ queue = <<>>
    /\ saveFailed = FALSE /\ faults = 0

\* The thread can lock the mutex, in a function that may run within another.
CanLock == ~locked \/ mutex = "reentrant"

\* fyne.Do, called by the user's clicks.
Schedule(function) ==
    /\ Len(queue) < MaxQueued
    /\ queue' = Append(queue, function)

\* The thread is free and takes the function next.
Take(function) ==
    /\ ui = "free" /\ queue # <<>>
    /\ Head(queue) = function
    /\ queue' = Tail(queue)

\* The Settings item of the tray calls Show.
ClickSettings ==
    /\ Schedule("Show")
    /\ UNCHANGED <<mutex, locked, memory, ui, disk>>

\* Show holds the mutex until the window is shown.
Show ==
    /\ Take("Show")
    /\ CanLock
    /\ locked' = TRUE
    /\ ui' = IF window = "none" THEN "createWindow" ELSE "loadConfigToForm"
    /\ UNCHANGED <<mutex, memory, disk>>

\* The provider list is made with AWS selected: onProviderChanged runs, and
\* currentConfig has AWS whatever it had.
createWindow ==
    /\ ui = "createWindow"
    /\ CanLock
    /\ current' = [current EXCEPT !.provider = "AWS"]
    /\ form' = NewForm /\ offered' = "AWS" /\ window' = "hidden"
    /\ ui' = "loadConfigToForm"
    /\ UNCHANGED <<mutex, locked, appConfig, queue, disk>>

\* Selecting the provider, if the list offers it, runs onProviderChanged, which
\* leaves currentConfig as it is.  Then the window is shown.
loadConfigToForm ==
    /\ ui = "loadConfigToForm"
    /\ current.provider \in Provider => CanLock
    /\ form' = Filled(form, current)
    /\ offered' = ListsFor(current.provider)
    /\ window' = "shown"
    /\ locked' = FALSE
    /\ ui' = "free"
    /\ UNCHANGED <<mutex, current, appConfig, queue, disk>>

\* A scheduled Hide.
Hide ==
    /\ Take("Hide")
    /\ CanLock
    /\ window' = IF window = "none" THEN "none" ELSE "hidden"
    /\ UNCHANGED <<mutex, locked, form, offered, current, appConfig, ui, disk>>

Editing == ui = "free" /\ window = "shown"

\* The user fills a widget in.
Edit(f) ==
    /\ Editing
    /\ form' = f
    /\ UNCHANGED <<mutex, locked, current, window, offered, appConfig, ui, queue, disk>>

EditRegion(r) == r \in Region[offered] /\ Edit([form EXCEPT !.region = r])
EditIdle(m)   == Edit([form EXCEPT !.idle = m])

\* Mutant: the lists keep the other provider's entries.
onProviderChanged_KeepsLists(p) ==
    /\ Editing /\ CanLock
    /\ current' = [current EXCEPT !.provider = p]
    /\ form' = [form EXCEPT !.provider = p]
    /\ UNCHANGED <<mutex, locked, window, offered, appConfig, ui, queue, disk>>

\* The user selects a provider: currentConfig has it at once, and the lists
\* and their selections are those of the new provider.
onProviderChanged(p) ==
    /\ Editing /\ CanLock
    /\ current' = [current EXCEPT !.provider = p]
    /\ form' = [form EXCEPT !.provider = p,
                            !.region = DefaultRegion[p]]
    /\ offered' = p
    /\ UNCHANGED <<mutex, locked, window, appConfig, ui, queue, disk>>

\* The close button.
Close ==
    /\ Editing /\ CanLock
    /\ window' = "hidden"
    /\ UNCHANGED <<mutex, locked, current, form, offered, appConfig, ui, queue, disk>>

\* Cancel leaves everything as it is and calls Hide.
onCancelClicked ==
    /\ Editing
    /\ Schedule("Hide")
    /\ UNCHANGED <<mutex, locked, memory, ui, disk>>

\* Save takes the form over, once the credentials are filled in.
onSaveClicked ==
    /\ Editing /\ CanLock
    /\ Len(queue) < MaxQueued
    /\ current' = form
    /\ ui' = "onSettingsSaved"
    /\ UNCHANGED <<mutex, locked, widgets, appConfig, queue, disk>>

\* Last, onSaveClicked calls Hide.
EndSave ==
    /\ ui' = "free"
    /\ queue' = Append(queue, "Hide")

\* main keeps the configuration without the credentials, then saves it: one
\* that is not valid is not written, and the tray shows an error.
onSettingsSaved ==
    /\ ui = "onSettingsSaved"
    /\ appConfig' = current
    /\ saveFailed' = TRUE
    /\ IF Validate(appConfig') THEN ui' = "truncate" /\ UNCHANGED queue ELSE EndSave
    /\ UNCHANGED <<mutex, locked, widgets, current, file, faults>>

\* os.WriteFile truncates the file and then writes it.
Truncate ==
    /\ ui = "truncate"
    /\ file' = {}
    /\ ui' = "write"
    /\ UNCHANGED <<mutex, locked, memory, queue, saveFailed, faults>>

Write ==
    /\ ui = "write"
    /\ file' = {appConfig}
    /\ saveFailed' = FALSE
    /\ EndSave
    /\ UNCHANGED <<mutex, locked, memory, faults>>

\* Mutant: nobody is told.
WriteFails_NotTold ==
    /\ ui \in {"truncate", "write"}
    /\ faults < MaxFaults
    /\ faults' = faults + 1
    /\ saveFailed' = FALSE
    /\ EndSave
    /\ UNCHANGED <<mutex, locked, memory, file>>

\* Neither step succeeds: the tray shows an error and the window is hidden.
WriteFails ==
    /\ ui \in {"truncate", "write"}
    /\ faults < MaxFaults
    /\ faults' = faults + 1
    /\ EndSave
    /\ UNCHANGED <<mutex, locked, memory, file, saveFailed>>

\* The program is ended, at any moment, and started again.
Restart ==
    /\ faults < MaxFaults
    /\ faults' = faults + 1
    /\ appConfig' = Load(file)
    /\ current' = Load(file)
    /\ window' = "none" /\ form' = NewForm /\ offered' = "AWS"
    /\ ui' = "free" /\ queue' = <<>> /\ locked' = FALSE
    /\ saveFailed' = FALSE
    /\ UNCHANGED <<mutex, file>>

-----------------------------------------------------------------------------
Showing == createWindow \/ loadConfigToForm

Saving == onSettingsSaved \/ Truncate \/ Write \/ WriteFails

User ==
    \/ ClickSettings
    \/ \E p \in Provider : onProviderChanged(p)
    \/ \E p \in Provider : \E r \in Region[p] : EditRegion(r)
    \/ \E m \in Minutes : EditIdle(m)
    \/ onSaveClicked
    \/ onCancelClicked
    \/ Close

Next == Show \/ Showing \/ Hide \/ Saving \/ User \/ Restart

Spec == Init /\ [][Next]_vars

\* The thread goes on with what it has begun, and takes what is scheduled
\* between the user's events.
FairSpec == Spec /\ WF_vars(Showing) /\ WF_vars(Saving) /\ SF_vars(Show \/ Hide)

-----------------------------------------------------------------------------
TypeOK ==
    /\ mutex \in Mutexes /\ locked \in BOOLEAN
    /\ current \in Config /\ form \in Config
    /\ form.provider \in Provider
    /\ window \in {"none", "hidden", "shown"} /\ offered \in Provider
    /\ ui \in {"free", "createWindow", "loadConfigToForm",
               "onSettingsSaved", "truncate", "write"}
    /\ queue \in Seq({"Show", "Hide"}) /\ Len(queue) <= MaxQueued + 1
    /\ appConfig \in Config /\ file \subseteq Config
    /\ saveFailed \in BOOLEAN /\ faults \in 0..MaxFaults

\* Between two functions of the thread, the running program and its next start
\* use the same configuration, whatever crashes and failures came before,
\* unless the last save failed and the user has been told.
MemoryIsDisk == ui = "free" /\ ~saveFailed => appConfig = Load(file)

\* The form never shows, for the user to edit or save, a provider that is not
\* currentConfig's or a region of another provider: not with a file that
\* spells providers its own way or is not AWS's, and not after a provider was
\* selected and cancelled, a save that failed, or a Show and a Hide in any order.
ShownFitsProvider ==
    Editing =>
        /\ form.provider = current.provider
        /\ form.region \in Region[form.provider]

\* A Show is under way or scheduled.
ShowAsked ==
    \/ ui \in {"createWindow", "loadConfigToForm"}
    \/ \E i \in DOMAIN queue : queue[i] = "Show"

\* A click on Settings opens the window: Show schedules its work "to avoid
\* potential deadlocks with system tray menu callbacks".  Only a restart
\* forgets a click.
ShowOpens == ShowAsked ~> window = "shown" \/ ~ShowAsked

=============================================================================
