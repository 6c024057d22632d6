# Verification of My Own VPN

My Own VPN is a tray application that rents a cloud server for one VPN session,
connects to it with WireGuard and destroys it afterwards. This directory holds
TLA+ models of its components, TLC configurations that check them on small
instances, and TLAPS proofs. Paths below are relative to `src/`.

## 1. The system

### Components and what makes each of them correct

| Component | Source | State | Operations |
|---|---|---|---|
| Lifecycle controller | `internal/app/controller.go`, `state.go` | state, session clock, error text, cancel function, all under one `RWMutex` | `Connect`, `Disconnect`, `Cancel`, and the goroutines `doConnect`, `doDisconnect`, `cleanup` |
| Wiring and tray | `cmd/my-own-vpn/main.go`, `internal/ui/systray.go` | status line, enabled menu items | click handlers, `onControllerStateChange`, `UpdateStatus`, `SetConnecting`, `SetDisconnecting`, `SetError` |
| Idle monitor | `internal/app/idle.go` | enabled, last bytes, last activity, warning shown, stop channel | `Start`, `Stop`, `UpdateActivity`, `ResetActivity`, the goroutine `monitorLoop` |
| Hetzner provider | `internal/provider/hetzner` | identifiers of firewall, SSH key and server; state file; the cloud | `Provision`, `Deprovision`, `CleanupOrphaned` |
| AWS provider | `internal/provider/aws` | identifiers of VPC, gateway, subnet, route table, security group, key pair and instance; state file; the cloud | the same |
| WireGuard client | `internal/wireguard/client*.go` | connected, configuration file, the tunnel | `Connect`, `Disconnect`, status |
| WireGuard text and keys | `internal/wireguard/config.go`, `keys.go`, `parser.go` | none | formatting, parsing, key arithmetic |
| Credential stores | `internal/credentials` | key chain, or encrypted file and salt | save, load, delete |
| Settings and configuration | `internal/ui/settings*.go`, `internal/config` | form, configuration in memory and on disk | show, save, provider changed |
| Cost, console, icons, notifications | `internal/cost`, `internal/ui/console*.go`, `assets.go`, `internal/app/notify.go` | see PROJECT.json | see PROJECT.json |

- **Controller**: one goroutine drives the session at any time, a passing state
  is always being worked on, `Cancel` reaches the session it was meant for,
  no transition the workers ask for is refused, nothing of one session shows
  in the next.
- **Tray**: it shows the state the controller is in and enables the step that
  is possible; every click is answered.
- **Idle monitor**: an enabled monitor is watched by a loop; one warning per
  idle period, one timeout per `Start`; loops end.
- **Providers**: success means the whole set of resources exists, is remembered
  and is on disk; a deprovisioning that succeeds leaves nothing; whatever
  fails, nothing that costs money stays for ever.
- **WireGuard client**: the tunnel, the flag and the file agree, also after a
  failure or a restart.
- **Credential stores**: a store or a delete loses no other credential, and a
  failure leaves the old or the new one.
- **Settings**: the window does not deadlock, and form, memory and file agree.

### How they interact

In this version the click handlers of the tray call `Connect` and `Disconnect`
of the controller in goroutines of their own; every transition starts another
goroutine that tells the tray. The provisioning steps of the controller are
stubs (timers): the providers, the WireGuard client and the idle monitor are
complete and tested but not called by it yet. They are therefore modelled on
their own, with every caller their interface allows.

### What is hard

Goroutines started after an unlock; state read again after an unlock; callbacks
that run out of order; a timer and a cancellation that are ready together; loops
whose channel is replaced under them; several cloud calls of which each can
fail, be cut off by a cancellation or lose its answer, in two processes' lives
with a crash in between, and a state file that is written in place. The list,
each item at its line and with the properties that cover it, is `hazards` in
`PROJECT.json`.

## 2. The modules

| Module | Models | State against code | Actions against code |
|---|---|---|---|
| `Lifecycle` | the abstract promise of the controller | `phase`, `session`, `stopped` | `Raise`, `Stop`, `Succeed`, `Fail`, `Lower`, `Clean` |
| `Provider` | the abstract promise of `provider/provider.go`, whatever the cloud | `known` (identifiers), `target` (what an operation set out to delete), `cloud`, `phase` | `Provision`, `Make`, `Succeed`, `GiveUp`, `Deprovision`, `Recall`, `Search`, `Find`, `Delete`, `Finish`, `Crash` |
| `Controller` | `controller.go` | the fields by name; contexts are numbered by their session, 0 is nil | one action per section under the lock and per outcome of a `select`; a caller or worker that is between two of them is at a named place (`call`, `pc`) |
| `VpnApp` | `Controller` wired to the tray | `clicked` (handlers), `pending` (callback goroutines), the menu | `ClickConnect`, `OnConnect`, `ShowRefusal`, `RunCallback`, ... each joins a controller action to what the wiring adds to it |
| `IdleMonitor` | `idle.go` | the fields by name; loops and channels are numbered by the `Start` that made them; time in ticks of 30 s | `Start`, `Stop`, `UpdateActivity`, `ResetActivity`, and the loop's tick, stop and callback |
| `Hetzner` | `provider/hetzner` | `id`, `file`, `fileIds` of the provider; `cloud` | one action per API call, wait, access to the state file, plus cancellation and crash |
| `AWS` | `provider/aws` | the same and `attached` (gateways) | the same, `Configured` for the calls that set a new resource up, and `Detach` |
| `WireGuard` | `client_darwin.go`, `client_windows.go`, and `writeConfigFile` | `connected`, `session` (key pair and server), `call` (the command in progress); the file and the tunnel outside | write, up and down, each of which works, fails or is killed; crash and restart of the machine |
| `Credentials` | `fallback.go`, `keychain_darwin.go`, `wincred_windows.go` | per client: its manager's `key`, the call in progress and the store it has loaded; outside: `salt`, `store`, `items` | one action per access to a file or to the key chain; a client may end between any two |
| `Settings` | `ui/settings.go`, the callback of `main.go`, `config.go` | `current`, `form`, `offered`, the mutex (`mutex`, `locked`) and the scheduled functions (`queue`) of the window, `appConfig` of `main`, the file | one action per handler and scheduled function; `Show` is cut where a handler runs within it, `Save` where it calls `main` and where the file is truncated and written |
| `Controller_proofs`, `VpnApp_proofs`, `IdleMonitor_proofs`, `Hetzner_proofs`, `AWS_proofs`, `WireGuard_proofs`, `Credentials_proofs`, `Settings_proofs` | theorems about the module they extend | | |
| `MC...` | instances for TLC | | |

Details that a reader of the code may look for:

- `Controller`: `setState` runs under the lock of its caller, so it is part of
  the caller's action, with the fields it resets. `Connect` and `Disconnect`
  are two actions each (accepted or refused up to the unlock) followed by what
  they do after it: read `c.state` for the error, or start the goroutine. A
  `select` over a timer and `ctx.Done()` is two actions, both enabled when both
  are ready.
- `VpnApp`: `Connect` in `main` passes the background context and nothing calls
  `Cancel`, so sessions are not cancelled there.
- `IdleMonitor`: `checkIdle` decides under the lock and calls back after it;
  the loop is busy meanwhile and its ticker holds one tick. `Stop` closes the
  channel only of an enabled monitor.
- Providers: a resource is its kind and the number of its session. A call that
  fails either did nothing or took effect and lost its answer. A cancelled
  context makes every later call fail, also the rollback's, because the code
  passes the same context on. A crash forgets the process and keeps the cloud
  and the file; a crash during a write leaves a torn file, which the code
  refuses to parse.
- `Provider` leaves out the order of the calls, the state file, contexts and what
  lives in what. A provider's `phase` is read off `pc` and `op`, `known` is its
  `id`; what it names by looking at `cloud` and `target` is the same in both.
  `Counted` is by what a provider sees that it has resources: each of Hetzner's
  kinds, the instance and the VPC of AWS.
- `AWS`: what lives in what (`InUse`, `Deletable`, `CanDetach`) is EC2's, not the
  repository's, and marked external. Waiting for termination is part of
  deleting an instance. A file of another region counts as no file, which is
  how `LoadExistingState` treats it.
- `AWS`: the fixed order of `deleteNetworking` and of the calls around it is a
  turn per kind (`DeleteOrder`); what is still to delete is a set.
- `VpnApp`: saving the settings can fail, and `main` then shows an error in the
  tray whatever the controller is doing (`SettingsSaveFails`); `errorShown`
  remembers that an error was shown that no callback belongs to.
- `WireGuard`: `wg-quick` and `wireguard.exe` are external: `up` needs the file
  and no tunnel of that name, `down` on macOS needs the file and the tunnel, and
  a command that reports an error may have done its work. `orphaned`, `halfDown`
  and `littered` remember that this has happened; the properties name them.
- `Credentials`: the key that seals the file stands for the salt it was derived
  from, since the machine does not change. Two overlapping writes of the file
  may leave a mixture that no key opens. `spoiled`, `stale` and `resalted` are the
  history that the properties exclude: what a failed or overlapping call may
  have lost, and a second salt made over a first.
- `Settings`: everything runs on the toolkit's thread: the functions scheduled
  with `fyne.Do` in the order of the queue, `Show` and `Hide`, and between them
  the handlers of the widgets. `SetSelected` calls the list's handler, as in Fyne
  2.7.2, which `go.mod` names. The handler's lock is a guard (`CanLock`): `Show`
  holds the mutex from its first step to its last, and `createWindow` and
  `loadConfigToForm` need it again for the handler that they run. With the mutex
  of the program (`"plain"`) `createWindow` is therefore never enabled after a
  `Show`, no form is ever shown, and the first click stops the thread: that is the
  program as it is, and the run `settings_open`.
- `Settings`: `"reentrant"` is an assumption about a repair and not the program: a
  mutex that the handlers run by `Show` may take again, and a first selection at
  line 212 that is made when the widgets its handler sets are there (they are
  nil at that line). Everything else is the code unchanged: the handler of the
  first selection still overwrites `currentConfig.Provider` with AWS (line 321),
  so that a repaired window would show AWS for a file that says `hetzner`. A
  different repair, one that keeps the handler from running for instance, may
  behave otherwise.

Definitions named `X_...` directly above a definition `X` are mutated forms of it,
used only to see that each property notices the mistake.

## 3. The runs

| Run | Module, cfg | Shows |
|---|---|---|
| `controller` | `MCController` | two callers, cancellations, two sessions: the invariants of the controller, `NoTransitionRefused`, `ComesToRest`, and that it implements `Lifecycle` with its fairness |
| `vpnapp` | `MCVpnApp` | `TrayFollows`, `EveryClickAnswered` |
| `idle` | `MCIdleMonitor` | `EnabledIsWatched`, `OneTimeoutPerStart`, `WarnedOncePerIdlePeriod`, `IdleIsEnded`, `StoppedLoopsEnd` |
| `hetzner` | `MCHetzner` | `ProvisionedIsComplete`, `DeprovisionedIsGone`, `CrashLosesAtMostOne`, `FailedProvisionLeavesNothing`, `EventuallyClean`, and that it implements `Provider` |
| `aws` | `MCAWS` | `ProvisionedIsComplete`, `DeprovisionedIsGone`, `CompleteIsRemovable`, `FailedProvisionLeavesOnlyGateway`, `InstancesEnd` (no instance runs on for ever), and that it implements `Provider` |
| `wireguard` | `MCWireGuard` | `TunnelFollows`, `FileFollows` |
| `credentials` | `MCCredentials` | `KeysAgree`, `LoadsWhatWasStored` over each of the three stores |
| `settings` | `MCSettings` | `MemoryIsDisk`, `ShownFitsProvider`, with the program's mutex and with a reentrant one |
| `resting_tray` | violated | with nothing under way the tray can show Error over a VPN that is up |
| `earlier_loops` | violated | a loop that timed out never ends |
| `aws_orphans` | violated | an AWS gateway (or key pair, ...) without instance and VPC is never cleaned up |
| `settings_open` | violated | the first click on Settings stops the user interface for ever |

Every module's run also checks its type invariant.

### Bounds

- `controller`: two callers, two worker slots, two sessions. A second caller
  is what races with the first, a second worker would be the second driver
  that `OneDriver` forbids (one slot could not show it), and a second session
  is what leftovers of the first would disturb. The proofs remove the bounds.
  Deadlock is not checked: with all sessions used the controller rests.
- `vpnapp`: one worker, since `OneDriver` holds; at most three callbacks late
  (`MaxPending`), which is enough for two to be swapped across a transition.
  Deadlock is not checked for the same reason.
- `idle`: a timeout of two ticks with a warning after one, so that each comes
  in a tick of its own; three Starts, so that a loop can be two Starts old;
  two readings of the counters.
- `hetzner`: two sessions, so that one meets what another left in memory, on
  disk or in the cloud, and three faults.
- `aws`: two sessions and two faults, so that the handling of one fault fails by
  another; cancellation is one fault and fails every call after it.
  `aws_orphans` needs one of each.
- `wireguard`: two sessions, so that one can meet the file or the tunnel of
  another, and four faults: a crash that leaves a tunnel, a failure over it and
  two more in the repair.
- `credentials`: two clients, one value beside none, and two faults. One client
  races with, or reads what is left by, another; with three or more the
  proofs take over. Deadlock is not checked: a store that no key opens refuses every
  call for ever.
- `settings`: two faults, so that a save that failed can be followed by a start
  that finds a torn file or by another failure. At most two functions are
  scheduled by clicks (`MaxQueued`), and a third by a save, so that a `Show` can be
  queued before or after a `Hide`. Deadlock is not checked: with the program's
  mutex the thread stops. Regions stand for instance types too; the idle timeout
  is off, valid, or above what the file accepts.

### Fairness

Goroutines that can run do (weak fairness of callers, workers, handlers,
callbacks and operations). `monitorLoop`'s `select` chooses at random among what
is ready, so a branch that is ready again and again is taken (strong fairness).
Time passes. The user is never assumed to click, nor a context to be cancelled.
In `Settings` the thread goes on with a `Show` or a save that it has begun, and a
function that is scheduled is taken when the thread is free again and again
(strong fairness: other handlers may come in between). For the providers it is
*assumed* that somebody calls `CleanupOrphaned` again and again; nothing in the program
does so yet, and without it nothing is promised about orphans. The liveness
properties of the providers also exclude a state file that stays torn for ever,
because `CleanupOrphaned` then refuses to work: a weakness of the code, listed
as a hazard.

### Findings

Four, each shown by a violated run and quoted in `PROJECT.json`:

- `resting_tray`: callbacks of transitions are not ordered, and errors of a
  refused click or of a failed save replace the status for good.
- `earlier_loops`: a monitor loop that timed out never ends.
- `aws_orphans`, the one that costs most: `HasProvisionedResources` looks at the
  instance and the VPC only, so anything else that survives alone is found by
  its tag and left.
- `settings_open`: `Show` holds the mutex that the handler of the list it fills
  wants; the thread waits for itself.

Weaknesses that the models show without a run of their own, because no text of
the repository promises otherwise or because another property already states
the exception:

- `Connect` and `Disconnect` read the state for the text of a refusal after the
  unlock; the text can name a state in which the call is allowed.
- A Hetzner cleanup that finds an old state file can report success over a
  newer server that only its label names; the next cleanup finds it.
- A failed save of the settings over a running VPN leaves Connect as the only
  enabled item, which is refused, so that no click leads to the transition that
  would repair the menu.
- Past the lock of `settings_open`, the first `Show` replaces the provider that was
  loaded by AWS, and a provider that was selected and cancelled is still there at
  the next `Show`. The form is consistent (`ShownFitsProvider`), but it is not that
  of the configuration in use.
- A truncated credentials file, and a torn state file of a provider, are
  refused at every later call, and nothing repairs them.

### What the invariants excuse

Several hazards are things the code does, and no text of the repository says
otherwise. The invariants name them and hold for the rest; they do not catch the
hazard itself. The `note` of each hazard in `PROJECT.json` says which it is.

- `MemoryIsDisk` excuses a save that failed and was reported, and takes the
  defaults for the configuration when a crash has torn the file: it catches a
  failure that passes for a success, not the loss of the file.
- `KeysAgree` excuses an unreadable salt, overlapping first starts and a salt that
  is read while it is written (`resalted`). What is left is a fault or a crash
  while the first salt is written.
- `LoadsWhatWasStored` excuses what a failed or overlapping call has spoilt
  (`spoiled`, `stale`): it bounds the damage to those entries, until a later call
  for the provider completes.
- `TunnelFollows` excuses a tunnel left by a crash or a killed command
  (`orphaned`) while the client is not connected; a connected client has its own
  tunnel, or none after a failed Disconnect (`halfDown`). `FileFollows` excuses a
  file left behind (`littered`).
- `FailedProvisionLeavesNothing` and `FailedProvisionLeavesOnlyGateway` excuse lost
  answers and failed deletes, also those of a rollback whose context was
  cancelled; `EventuallyClean` is what covers these. It assumes that a state file
  does not stay torn for ever.
- `TrayFollows` speaks of callbacks in order and no error shown; `RestingTrayIsRight`
  is what covers the rest.

## 4. What is proved

`Controller_proofs` proves for any sets of callers and workers and any number of
sessions (assumption: `MaxSessions \in Nat`): `TypeCorrect`, `SingleDriver`,
`CancelIsCurrent`, `ClockIsCurrent`, `FailureHasCause`, `NothingRefused` and
`RefinesLifecycle` (the safety part of the refinement). `FailureHasCause` is about
a session by itself; the run checks it as the guard of `Fail` in `Lifecycle`.

All rest on one inductive invariant `IInv`: types, `OneDriver`,
`ContextsCurrent`, `CancelReachesSession`, `ClockAndErrorCurrent` and
`FailsOnlyIfCancelled`. None of them is inductive alone. That a worker's
transition is accepted needs `OneDriver` (it finds the state it expects); that
`OneDriver` survives a new session needs that no goroutine is left when the
state is at rest; that a session fails only if it was cancelled needs
`ContextsCurrent` (the worker was given this session's context), which in turn
needs that the caller which is about to start it made that context last. There
is one lemma per group of actions, and in each one step per conjunct.
`NothingRefused` and `RefinesLifecycle` then follow from `IInv` step by step.

`IdleMonitor_proofs` proves for any timeout, warning time, counter readings and
number of starts (`IdleAssumption`): `TypeCorrect`, `AlwaysWatched`,
`TimeoutOnce` and `WarnedOnce`. The three invariants and the types are inductive
together with one fact, `ClosedWereMade`: only channels of starts that have
happened are closed, so the channel of the next `Start` is open.

`Hetzner_proofs` proves for any number of sessions and faults
(`HetznerAssumption`): `TypeCorrect`, `ProvisionCompletes`,
`DeprovisionCompletes`, `RollbackCompletes` and `FileKeepsUp`. The properties
speak of an operation that has returned, so the invariant has to say what is
true at every step inside it:

- `CloudIsPast`: the cloud has only resources of sessions that have begun, so
  a new session starts with none of its own.
- `Making`: a `Provision` knows what its earlier steps have made, and nothing
  else of its session exists. This gives `ProvisionCompletes`, and tells the
  rollback what to delete.
- `Saving`: what the earlier steps have made is on disk. With `Making` this is
  `FileKeepsUp`.
- `Deleting`: what is no longer to be deleted is forgotten and gone, what is
  still to be deleted is remembered, unless an error is going to be returned.
  This gives `DeprovisionCompletes`.
- `Undoing`: unless an answer was lost or a delete failed, all that exists of a
  failed session is still to be deleted. That no excuse is needed for a firewall
  that its server keeps in use rests on the order of deletion: the server is
  deleted before.
- `Listing`: labels are looked for only without a state file.

`AWS_proofs` proves for any number of sessions and faults (`AWSAssumption`):
`TypeCorrect`, `ProvisionCompletes`, `DeprovisionCompletes`,
`CompleteRemovable` and `RollbackCompletes`. `CloudIsPast` and `Making` are as for
Hetzner, with one fact more: the gateway is attached from its own step on. What
is different is that seven kinds live in one another:

- `Progress`: a deletion that has met no error has forgotten and deleted what it
  has passed and still knows the rest.
- `Undoing`: without an excuse, what exists of a failed session is still to be
  deleted, but for a gateway that was not attached.
- `Emptying`: the deletion of a complete session has not failed, and what is
  left of the session is exactly what is still to be deleted, an end piece of
  `DeleteOrder`.

The lemma `CanGo` is the heart of it: a call is bound to succeed, short of a
fault, if everything that could be in the way of its resource would be in the
set that is still to be deleted; but the turn belongs to the first of that set,
so nothing is in the way. Under `Undoing` and `Emptying` a delete can therefore
only fail with an excuse.

Both providers are also proved to implement `Provider` (`KeepsContract`), for any
number of sessions and faults: every step of theirs is one that the abstract
provider allows, or leaves it as it is. The argument is the same in both modules.
On top of the invariant above it needs `RInv`:

- `NamesArePast`: an identifier, in memory or in a whole state file, names a
  session that has begun. So a recalled name is one that `Recall` may take, and
  `Make` never makes what is there.
- `Remembering`: what an operation set out to delete and what exists still is
  still known. A provider forgets an identifier only after a delete that was
  answered, and then the resource is gone. Rollbacks, searches and crashes begin
  with a target of their own.
- `Succeeding`: while a success is the last result, it is true.
- `Looking` (Hetzner): labels are looked for in the order of the kinds, so that
  what has been passed without a find does not exist. For AWS the search is one
  step and the lemma `FoundExists` takes its place.

The lemma `Shapes` gathers what these need of the types, and `SomethingIsNamed`
says that `HasProvisionedResources` is the abstract `Counts`. From there each
group of actions has one lemma (`ProvisionKeeps`, `MakeKeeps`, `UndoKeeps`,
`DeleteKeeps`, `ClearKeeps`, `ListKeeps`, ...) that gives both the next `RInv` and
the abstract step. Two promises of the interface are theorems of their own:
`NothingForgotten` (an operation that has failed, or has rolled back, has
forgotten nothing that exists; a later Deprovision still needs that something
of `Counted` is among it) and `SuccessIsBelieved` (a success stays true until the
next operation). `Provider` leaves open whether everything is found again; for
AWS `aws_orphans` shows that it is not.

`WireGuard_proofs` proves for any sessions and faults (`WireGuardAssumption`):
`TypeCorrect`, `TunnelIsKept` and `FileIsKept`. The
properties speak of the time between calls; the invariant says what holds
during one (`InCall`, `TunnelOfSession`, `NoTunnelLeft`, `FileOfSession`).

`Credentials_proofs` proves for any clients, values and faults
(`CredentialsAssumption`): `TypeCorrect`, `StaysReadable` and `StoresKeep`. Beside
`KeysAgree` itself the invariant has:

- `PlaceFits`: where a client can be depends on the store, and a client of the
  file has a key.
- `FirstSalt`: while the first salt is made every other client is off, so that the
  salt can change under nobody.
- `FileHolds`: the file, and the copy that a call has loaded and changed, agree
  with what the completed calls have stored, but for what is spoilt and, in the
  copy, for what was stored since it was loaded (`stale`). That a `Write` keeps it
  is the point of counting `stale` as spoilt in the same step.
- `ItemsHold`: the same of the key chain, but for an item that is deleted for the
  moment.

`Settings_proofs` proves for any number of faults and of scheduled functions and
for both kinds of mutex (`SettingsAssumption`): `TypeCorrect`, `SavedIsUsed` and
`FormFitsProvider`. `Stored` follows a save through its steps. `Named` says that
once there is a window its configuration spells the provider as the list does,
because making the list has selected AWS; without it `loadConfigToForm` could
leave the old selection. `Fits` says that the lists offered are those of the
provider that the form shows, also between a save and its `Hide`, when the user
can still edit. `Queued` leaves room for that `Hide`.

`VpnApp_proofs` proves for any callers, workers, sessions and late callbacks:
`AppTypeCorrect`, `AppRefinesController`, `AppIsLifecycle`, `TrayIsTold` and
`ErrorIsRefusal`. Every step of the
application is a step of the controller or leaves it alone, so the controller's
`IInv` carries over; on top of it `MenuFits` (the enabled items follow from the
status), `HandlersOnly` (a call belongs to a click) and `Told` (the last
callback to run shows the state the controller is in). With that the program
implements `Lifecycle` as the controller does. `ErrorIsRefusal` adds `EInv`: no step
of the program cancels a context, so by `FailsOnlyIfCancelled` no session fails,
no callback carries an error, and whatever error the tray shows is that of a
refused call or a failed save. It is a theorem only; no run checks it.

The Boolean variables of the larger modules are left out of `Types`; that they
stay Boolean is a lemma of its own (`NextBooleans`).

Only model-checked: liveness (`ComesToRest`, `EveryClickAnswered`,
`IdleIsEnded`, `StoppedLoopsEnd`, `EventuallyClean`, `InstancesEnd`,
and the fairness part of `ImplementsLifecycle`), which is out of the
prover's reach. Every invariant of every passing run is proved.

## 5. What is not modelled

- `GetStatus`, `ListRegions`, `ValidateCredentials`, `EstimateCost`: they change no
  state. A failure of the random source in `generateSessionID` ends `Provision`
  before its first effect.
- Text of configurations, user data and console output; key arithmetic.
- Pagination of the clouds' listings, and eventual consistency of the clouds
  beyond the lost answer.
- Quit, the console item, icons and notifications: input and output of the
  desktop.
- Cost tracking and pricing: three fields under one lock and tables in floating
  point, which TLA+ has no numbers for.
- The parser of what `wg` prints, the validation of credentials against the
  cloud's API and the host's name: stateless, and their inputs are text from
  outside.
- Which widgets the settings window shows, and its credential fields.
- A provider whose region changes: a file of another region is passed over and
  later overwritten. No code hands a region from the settings to a provider
  yet.

## 6. Plan

Done: every component with state of its own has a module, and every invariant
that a run checks has a proof.

What would come next, as the code grows:

1. `Provider` composed with `Controller`, once `doConnect` and `doDisconnect` call a
   provider and the WireGuard client instead of their timers. Only then can it be
   said that a session in Error has left nothing behind. That `Hetzner` and `AWS`
   implement `Provider` is proved, so that the composition need not look into them.
2. `IdleMonitor` composed with `Controller`, once a timeout ends a session.
3. The region of a state file, once the settings reach a provider.
