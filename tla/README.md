# RKNnoVPN: specification, model checking and proofs

TLA+ modules for the daemon of RKNnoVPN (`src/daemon`, Go) and the parts of the
shell module it calls, TLC configurations that check them on small instances,
and TLAPS proofs of what matters most. Every definition is translated from the
source; `PROJECT.json` names the lines.

## 1. The system

The Android app talks, through `daemonctl` under `su` and a Unix socket with
JSON-RPC, to one root process, `daemon`. The daemon starts and watches
`sing-box` (with an `xray` side process for some protocols) and lays firewall
and routing rules with shell scripts. On disk are `profile.json` (what the user
wants), `config.json` (its projection), `run/runtime_state.json` (the observable
state, never read back), `run/install_state.json`, `reset.lock`, an active
marker, a manual flag and pid files.

| Component | State | Operations | Talks to | Hard about it |
|---|---|---|---|---|
| Runtime actor `runtimev2/orchestrator.go` | desired, applied, health, active operation, last result, opSeq | Start, Stop, Restart, Reset, HandleNetworkChange, RunOperation, RefreshHealth, RefreshActiveProgress, ApplyDesiredState | calls the backend on one goroutine per operation; calls the status observer | requests, goroutines and refreshes interleave; panics; values captured before an operation used after it |
| Status observer `state_store.go` | `runtime_state.json` | write (tmp + rename) | called by the actor outside its mutex | order of writes; failing writes |
| Root backend `runtime/root` | epoch, desiredRunning | Start, Stop, Reset, Restart, reload | core manager, netstack, reset controller, monitor, rescue | a step fails in the middle; a recovery that outlives the start it belongs to |
| Reset controller `resetcontroller` | `reset.lock`, active marker, manual flag | Run, DecideStaleRecovery, FailIfResetInProgress | core, netstack, scripts | crash between entering and leaving reset mode |
| Rescue `rescue` | attempts, cooldown, last attempt | Attempt, Reset, Rollback | core manager, through the actor | three strategies behind a gate that earlier steps change |
| Health monitor `health` | last result, failures, goroutine | Start, Stop, RunOnce, tick | core state, rescue | acts on a snapshot of the core's state |
| Core manager `core` | state, processes, pid files, marker, memory of the last runtime | Start, Stop, HotSwap, SetConfig, SetState, ResetState | processes, netstack | failure in the middle of a call; rollback of a hot swap; children that survive a crash |
| Netstack `netstack` | the rules of the kernel | Apply, Verify, Cleanup | scripts | a script that failed may have done its work |
| Configuration apply `apply`, `runtime_apply.go` | `d.cfg`, `config.json`, `profile.json` | mutate, persist, commit, reload, SIGHUP | actor, backend | check-then-act on the idle test; half applied changes |
| Profile, subscription `profile`, `subscription`, `control` | the document, import batches, previews | import, edit, apply, refresh, preview, commit | configuration apply | three ways to match and name nodes; work done on a document read seconds ago |
| Renderer, app routing `config`, `core/scripts.go`, scripts | none: functions of the configuration and of the installed packages | render, build the environment | sing-box, kernel | three functions that must agree on names and order; sources that lag |
| Updater `updater` | update directory, backup, install state | check, download, install, hand over | actor, core, scripts | crash in the middle of an install |
| Network watcher `watcher` | inotifyd, reader, channels | Start, Stop, loop | actor | a stop while the callback works |
| Daemon lifecycle `cmd/daemon` | signal channel | boot, SIGHUP, shutdown | everything | shutdown goes past the actor |
| IPC server `ipc` | connections, places, requests | accept, serve, time out, Stop | handlers | handlers outlive their requests |
| Diagnostics, audit, certificates | none | reports | | read only |
| Android app, daemonctl | view state | polling; one request | daemon | external |

What must hold of each, and where it is said:

| Component | Correct when | Properties |
|---|---|---|
| Runtime actor | one operation at a time; a generation names one operation; a late refresh harms nothing; a failure is never HEALTHY; every operation ends | `ImplementsSlot`, `OneOperationAtATime`, `GenerationIdentifiesOperation`, `LateRefreshIsHarmless`, `FailureIsNotHealthy`, `SuccessAppliesDesiredProfile` |
| Status observer | every result gets to the disk at some time | `ResultReachesFile` |
| Root backend, reset | a success leaves no rules without a core; a failed start leaves no core; no core comes up under `reset.lock`; a clean report means that nothing is left | `SuccessLeavesNoBlackhole`, `FailedStartStopsCore`, `NoStartUnderResetLock`, `ResetLeavesNothing` |
| Rescue, monitor | a rescue acts for the latest wish only and never orphans a process | `RescueRespectsIntent`, `OnlyWantedStarts`, `StartNeverOrphans` |
| Core manager, netstack | a call leaves what its callers rely on, whichever step fails; memory and pid files tell what runs | `CallContract`, `RunningIsWhatRuns`, `PidFileFindsIt` |
| Configuration apply | an answer tells what is stored; a crash leaves old or new; the runtime follows | `AnswerIsTrue`, `CrashKeepsOldOrNew`, `RuntimeFollowsConfig` |
| Profile, subscription | documents stay sound; a refresh keeps to its provider and settles; imports never mix | `DocumentSound`, `RefreshKeepsOthers`, `RefreshSettles`, `NoMixedBatch` |
| Renderer, app routing | sing-box accepts the result; no proxy loop; apps and names go where the user put them | `SingBoxAccepts`, `StartUsesActiveNode`, `NoProxyLoop`, `DirectAppsGoDirect`, `AppUsesItsNodes`, `DnsAgreesWithRoute` |
| Updater | the record tells of no more than there is; a failed module step leaves the binaries; a daemon stays; every install ends | `RecordIsTrue`, `FailedInstallKeepsBinaries`, `SomebodyStays`, `InstallEnds` |
| Watcher, lifecycle | a stopped reader ends; SIGTERM ends the daemon; no core is left | `StoppedReaderEnds`, `TermEndsDaemon`, `ExitLeavesNoCore` |
| IPC server | an answer is the one of its request; Stop returns | `AnswerIsOfTheRequest`, `StopEnds` |

`PROJECT.json` lists the hazards, each at its line, with the properties that
cover it or the reason why none does.

## 2. The modules

```
OperationSlot  <== implemented by ==  Orchestrator  <--  StatusFile  <--  OrchestratorProofs

RootRuntime  <--  Rescue  <--  RuntimeProofs      (<-- : extended by)
   ^
   +== instantiated by CoreManager  <--  CoreManagerProofs
                          |              (every call is one step of RootRuntime)
                       Netstack

Selection <-- ProfileDocument <-- ProfileStore <--+
Selection <-- Renderer <-- TrafficPath <----------+-- DocumentProofs
              AppRouting <----+

ConfigApply <-- ConfigApplyProofs
UpdateInstall <-- UpdateInstallProofs
Lifecycle <-- LifecycleProofs        IpcServer <-- IpcServerProofs
```

Each `MC...` module gives constants values for TLC and defines nothing else.
A definition whose comment begins with "Mutant:" is a plausible mistake in the
definition after it. No specification uses it; it is there to show that the
property it belongs to can be violated.

### OperationSlot

The abstract promise of the actor to its callers: one slot, accepted only when
free, with the next generation; the operation in the slot is the one that ends,
with a verdict, and does end.

### Orchestrator (`internal/runtimev2/orchestrator.go`)

One action is one critical section of `Orchestrator.mu`, or one call of the
backend between two of them. `op[s]` is the goroutine of operation `s` with the
values that it captured, so the model sees what the code does with a value that
was read before an unlock.

| TLA+ | Go |
|---|---|
| `desired`, `applied`, `health`, `active`, `last`, `opSeq` | the fields of `Orchestrator` |
| `Submit` with `Start`, `Stop`, `Restart`, `Reset`, `HandleNetworkChange`, `RunOperation` | `beginOperationLocked` and the `configure` of the entry point |
| `RunStart` ... `RunNetworkChange` | the closures given to `runSubmittedOperation` |
| `RunFn`, `ReadAfterFn` | the closure of `RunOperation`, and its critical section after `fn` |
| `GateRefresh`, `GateCached` | the readiness gate of a hot swap, which calls the actor back |
| `Panic`, `Finish` | the deferred function: recover, store, release |
| `RefreshHealth`, `StoreRefreshedHealth`, `ReleaseRefresh` | `RefreshHealth` under `healthRefreshMu` |
| `RefreshActiveProgress`, `ApplyDesiredState` | the functions of these names |

Time is the number of accepted operations: a check that began after operation
`s` carries a stamp above `s`, which is all that the comparison of `CheckedAt`
with `StartedAt` can tell. A health is one of three levels, a code and a stamp.
The table from codes to phases is the code's own.

### StatusFile (`state_store.go`, `cmd/daemon/runtime_v2.go`)

Composes the actor with its observer. Each critical section that publishes
captures a status (`opNote`, `refreshNote`, `clientNote`); writing it to `disk`
is a later step of the same goroutine, in any order with the others. A write
happens, or with `WritesFail` does not; the rename leaves nothing in between.
A status is captured whole under the mutex, so that each is one moment of the
actor goes without saying; what may come of their order is that an older one
stays on disk, which `ResultReachesFile` allows for.

### RootRuntime (`internal/runtime/root`, `internal/resetcontroller`, `internal/core`)

What the operation that owns the slot does to the device, step by step, with
every error path: the epoch and the desired flag, the check of `reset.lock`,
the subsystems, the core, the rules, the readiness gate and the RESET that ends
a failure. `act` is that one operation: that there is at most one is what
`OneOperationAtATime` shows of the actor.

| TLA+ | Go |
|---|---|
| `core`, `rules`, `stray` | `CoreManager.state` and `cmd`; what the scripts installed; a process that outlived its manager |
| `files` | `run/reset.lock` (absent, younger than ten minutes, older), the active marker, the manual flag |
| `epoch`, `wanted` | `runtimeOpEpoch`, `runtimeDesiredRunning` |
| `Recover`, `Begin`, `CheckCore`, `CheckLock`, `Halt`, `Kill`, `Spawn`, `Swap`, `Reconcile`, `Reapply`, `Watch`, `Gate`, `Mark` | the steps of `Backend.Start`, `Stop`, `Restart`, `HandleNetworkChange` and of the reload |
| `EnterReset` ... `LeaveReset` | the steps of `Controller.Run` |
| `StartCore`, `StopCore`, `SwapCore` and their failures | what the calls of `CoreManager` leave behind |
| `SampleReload`, `SubmitReload`, `ReloadBusy` | `runtime_apply.go`: `WasRunning`, then the operation or a busy error |
| `AutostartCheck` ... | `maybeAutostart` |
| `CrashDuring`, `AppRepair`, `Boot` | the daemon is killed during a step, and the two ways it comes back |

A call of the core manager holds `m.mu` from beginning to end, so nobody sees
its middle except a crash, which leaves any part of its effects (`HalfRules`,
`HalfFiles`).

### Rescue (`internal/rescue`, `internal/health/monitor.go`, `rescue_callbacks.go`)

Adds to RootRuntime what runs beside the operations: the tick of the health
monitor, which reads the state of the core, checks, and then writes a state;
`onDegraded`, which captures the epoch, passes `canRunRuntimeRecovery` and
submits an operation; `onRestored`; and the rescue itself with its three
strategies, the gate that is asked again before each step, the cooldown, the
verdict and the rollback. `TickJoined` is the wait of `HealthMonitor.Stop`, five
seconds at most: with `SlowChecks` a check may outlast it.

### CoreManager, Netstack (`internal/core/manager.go`, `xray_sidecar.go`, `internal/netstack`)

RootRuntime takes every call of the core manager for one step. CoreManager takes
the calls apart: `at` is the next step, `call` what it is for. A call holds
`m.mu` to its end, so calls do not overlap; each step may fail, a child may die
at any moment, and the daemon may be killed at every step and come back. A start
or a swap may therefore end well with a child that is already dead, as no step
after the waits looks at it again. `MarkSelectorActive` asks nothing, and its
caller is outside of the actor: it may wait for `m.mu` behind a `Stop` and write
the memory of a runtime that is gone. `blurred` remembers that it did, or that it
wrote another configuration than the one that runs, until a call sets the memory
anew. `HotSwap` does not ask for the state either and may find a stopped core.
`Netstack` is what `Apply`, `Verify` and `Cleanup` may
leave of the two kinds of rules when a script fails, with or without having done
its work.

| TLA+ | Go |
|---|---|
| `state`, `proc`, `config`, `running` | `m.state`, `m.cmd` and the sidecar, `m.config`, `m.runningConfig` with `m.runningProfile` |
| `stray`, `pid`, `rendered`, `rules`, `files` | processes left behind, pid files, `singbox.json` and the Xray file, the kernel, marker and flag |
| `StartSteps`, `SpawnSteps`, `StopSteps`, `SwapSteps` | `Start` with its two clean-ups, `Stop`, `HotSwap` with its restoration |
| `SetConfig`, `SetState`, `MarkSelectorActive`, `ResetState` | the setters |

`CallContract` instantiates RootRuntime with what it sees of the state before a
call (`View`), and says that the end of a call is the step that RootRuntime has
for that outcome.

### ProfileDocument, ProfileStore (`internal/profile`, `internal/subscription`, `internal/control`)

`ProfileDocument` has the document as a value and the operators on it:
`Refused`, `Normalize`, the keys by which nodes are matched, making ids unique,
the merge of imported and of subscribed nodes, activation and removal. It says
what the caller's own document holds after a merge that writes to the shared
array. `ProfileStore` has the requests: `ProfileApply`, `ImportNodes`,
`ChooseNode`, `NodeUpsert`, `NodeRemove`, `PatchSettings`, chunked imports
(`AddChunk`, `CommitBatch`, `BatchExpires`), refreshes (`StartFetch`, `Refresh`,
`FetchFails`: the document is read before the download) and previews
(`PutPreview`, `CommitPreview`, `PreviewGone`).

`Selection` has the loop that keeps some elements of a slice, which the document
and the renderer share: `SelectSeq` would say it with an operator for its test,
of which the provers know nothing.

### ConfigApply (`internal/apply`, `cmd/daemon/runtime_apply.go`, `active_node_selector.go`)

The way of a change into two files, the daemon, the core manager and the
runtime. `act[r]` is the goroutine of a request; `Receive` reads the committed
configuration, `CheckIdle`, `OpenTmp`, `WriteTmp`, `RenameTmp` are the two
saves, which share the name of their temporary file with those of other
requests (`handle` says what an open file is called by now), then `Plan`,
`EnsureIdle`, `CommitConfig`, `PublishConfig`, `SyncDesiredState`, `SelectNode`,
`MarkSelector` and `RunReload`. `Sighup` loads the files anew; `Crash` cuts any
step, also between truncating and writing; `Boot` loads what is there.
`core` is sing-box and the rules of the kernel. `ReloadDone` has what the reload
does to a runtime that was stopped after it was planned: a full restart starts
it, and so does a hot swap (`Swapped`), with rules only if the plan applies them;
the gate after it may find that there are none and have all removed. What a
clean-up that fails leaves in the kernel is RootRuntime's and is not repeated
here: a stop, a RESET and a failure end without rules (`Stopped`).

### UpdateInstall (`internal/updater`, `cmd/daemon/update_control_wiring.go`, `service.sh`)

`Download` with its four files and their verification; the install transaction,
one action per step that touches the disk, the app or a process; three daemons:
the host of the transaction, the one it forks and the one it forks when that
does not answer. `Reboot` cuts any step and runs the repair of the boot.
`CancelContext` is the end of the request that asked for the install; it may come
before the first step of the transaction.

### AppRouting, Renderer, TrafficPath (`internal/core/scripts.go`, `internal/config`, `iptables.sh`, `dns.sh`)

`AppRouting` goes from the packages of a configuration to UIDs (three sources,
one of which may lag), to the environment of the scripts and to the chains that
mark connections and redirect names; the list of system apps is empty when both
commands fail that give it (`SystemReadings`). `Renderer` goes from a
configuration to the outbounds, groups and selectors, the ordered rules for connections and the
ordered rules for names. Both are operators only. `TrafficPath` composes them:
`Start` renders and builds the rules, `Reapply` builds the kernel's rules anew
after a change of the network, `Install` installs an app in between, `Stop`
takes both away (`PathSpec`). `Path(p, dest)` is where a connection of an app
ends up, through both, and `Asked(name)` where the server that answers a name
sends its question (its detour). The tag of a node is what `profileOutboundTag`
makes of its id (`NodeTag`): the words left of it (`SlugOf`, a constant, because
of the conversion only what it makes equal matters), or its place in the list
when there are none. A configuration without usable nodes has a node of its own,
of any kind (`own`, `ownKind`).

### Lifecycle (`cmd/daemon/lifecycle.go`, `daemon_app.go`, `watcher/network.go`)

Signal loop, shutdown, the network watcher and the operations that start and
stop it. A reader goroutine holds the channel it will close, and asks the fields
of the watcher again for each line, as the code does without the mutex:
`StartWatcher`, `StopWatcher`, `Born`, `ScanLine`, `Callback`, `ScanEnds`,
`WaitOver`. A SIGHUP keeps the loop busy until `ReloadConfig`, and what arrives
meanwhile waits in the channel. The shutdown (`ShutHalts` ... `ShutExits`) goes
past the actor. An operation is reduced to the subsystems and the core: what else it does is
RootRuntime's. That `Server.Stop` returns (`ShutServer`) is `StopEnds` of
IpcServer.

### IpcServer (`internal/ipc/server.go`)

`conn[c]` is the connection of a client with the goroutine its request waits
for, `handler[i]` such a goroutine, `tokens` the places that are taken.
`TimeOut` answers in place of a handler; the handler goes on and may return
whenever it likes, or never. `StopListening` and `StopReturns` are Server.Stop.

## 3. The runs

| Run | Instance | Shows |
|---|---|---|
| `orchestrator` | 2 operations of eight kinds (the other three complete like `profile-apply`), 2 profiles, one code per class | one operation at a time, generations, late refreshes, what each end leaves, and that the actor implements OperationSlot, whose fairness says that every operation ends |
| `status_file` | 2 operations, working writes, fairness | every result is on disk at some time |
| `root_runtime` | 2 epochs for each life of the daemon, all reload plans, autostart, any number of crashes | what success, failure and reset promise of the device; the lock |
| `rescue` | 2 epochs, threshold 2, limits of 1 to 3 attempts, hot swaps | a rescue acts only for the latest wish, beside a monitor, a RESET and a boot; no start orphans a process; nothing unwanted starts |
| `core_manager` | 2 configurations, 3 nodes of which one needs Xray, any number of calls, failures and crashes | each call leaves what RootRuntime says; memory and pid files tell what runs |
| `profile_store` | 3 nodes, 2 providers, one download, batch or preview under way, one change during a download | documents stay sound, refreshes keep to their provider and settle, chunks of two imports never mix |
| `config_apply` | 2 requests and SIGHUP, 4 changes (one per kind of plan), 2 mutations, 1 fault | a mutation that meets no other answers truly and survives a crash whole; the runtime ends up with what was committed |
| `update_install` | 2 releases, 2 faults, 3 requests, any number of reboots | the record is true, a failed module step leaves the binaries, a daemon stays, every install ends |
| `update_cancel` | the same without faults | the disagreement of section 5 that has a run |
| `lifecycle` | 2 readers | a stopped reader ends, SIGTERM ends the daemon, a core is left only where a start overlaps the shutdown |
| `ipc_server` | 3 clients, 2 places, 4 handlers | an answer is the one of its request; Stop returns though handlers do not |
| `traffic_path` | three families of about 9,300 configurations, 4 packages, 9 destinations | what is rendered is accepted, no proxy loop, apps and names go where the user put them |

The bounds, and why they are enough:

- `MaxOps = 2`: what one operation does to another needs two of them, and a
  stale goroutine, refresh or status of the first meets the second. A third one
  would begin in a state that the second can also begin in, up to generations.
- `MaxEpoch = 2`: an overtaken rescue needs the epoch that it captured and one
  later. Rescues, reloads, network changes and crashes take no epoch, and a
  crash starts again at 0: histories are not bounded in length.
- `Threshold = 2` has a failure below the threshold, one that reaches it and
  one beyond. `MaxAttempts = 3`, the default, reaches all three strategies; the
  limit may be any up to that at each reading, as a configuration may be
  committed in between, so the rollback is reached too. `rescue` takes checks
  that end within the five seconds of Stop (`SlowChecks = FALSE`); what slower
  ones do is in section 5, and the proofs cover both.
- Two profiles tell the desired one from the one captured. Codes are read only
  to look up a stage, so one per class is enough.
- CoreManager has no counter: two configurations tell the old from the new, and
  three nodes have each change between plain and Xray. The configurations, and
  the nodes without Xray, are only compared with each other and are symmetric.
  Writing the marker and a pid file succeeds.
- ProfileStore: `MaxNodes = 3` has a node of each of two providers and one of
  the user, or two whose ids collide with a third. `MaxPending = 1` because a
  download, a batch and a preview touch each other only through the document,
  and `Change` lets one change of the document happen under a download.
- ConfigApply: two requests are what it takes to overlap, and each change is of
  another plan (selector switch, hot swap with rules, save without reload, full
  restart). The constraint `OverlapWithoutFaults` stops following two overlapping
  mutations once a fault occurs; every property leaves overlaps out anyway.
  Requests are symmetric.
- UpdateInstall: two faults have a step fail and its repair fail. Three requests
  have a download, an install of it, and another of either kind in between.
- Lifecycle: the reader of a stopped watcher and the one of the next start; a
  third start waits for a free reader, which the wait of Stop makes the rule.
- IpcServer: three clients for two places have one refused; four handlers have
  two that outlived their requests beside two that are waited for.
- TrafficPath: `ByNodes` has up to three nodes of every kind and group,
  `ByRules` every combination of modes, app rules, lists and custom
  destinations on a quiet device, `McAppConfigs` app settings with sources that
  fail or lag, the list of system apps among them. Of the ids of nodes two leave
  one slug and one leaves none. A configuration stays the same through a behaviour. Of the two
  apps that the daemon knows to keep direct one is there and one is installed
  later.

The deadlock check is off where a system may really stop: the actor after
`MaxOps` operations, ConfigApply after its mutations, a daemon that exited
(`lifecycle`), a server that was stopped.

Fairness. `Orchestrator` assumes weak fairness of each operation's goroutine and
of the goroutine that refreshes: each call they make of a script, process or
probe has a timeout. `StatusFile` assumes strong fairness of an operation,
because reporting a step takes it away from its work for a moment, finitely
often in the code. `UpdateInstall` assumes that the transaction and the exit of
a daemon go on: every command has a time limit. `Lifecycle` assumes that
readers, operations and the signal loop run, and that a reader whose inotifyd is
dead reaches the end of its output (strong, as lines may still be in the pipe,
finitely many). `IpcServer` assumes that goroutines of connections run, and that
a client that may send for ever does not (strong fairness of `ReadEnds`; the
read deadline ends one that is silent). Nothing is assumed of users, handlers,
processes that die, crashes or reboots.

## 4. The proofs

Eight modules are checked by TLAPS to the last leaf, for all values of the
constants that satisfy the assumptions named in the modules. Every safety
property of a run is a theorem but for what the end of this section lists
(`RefreshSettles`, and one case of `SingBoxAccepts`); the type invariants are proved too and therefore in no run.

The assumptions say no more than the code does: counts are natural or positive,
kinds and plans are the ones the code has, the model's "none" is no node
(`CoreManagerAssumption`), `hup` is no request (`RequestsAssumption`), a
configuration has its four parts (`FirstAssumption`), a change names one of
them, and one that goes through the profile cannot name what only `config.json`
holds (`ChangesAssumption`). `Clients` and `Releases` are finite. What clients
import and feeds bring are sequences of node records (`ProfileStoreAssumption`).
In a configuration the ids of nodes differ, as `Normalize` leaves them (the tags
made of them need not); a rule
for everybody or for anywhere names no package and no destination, and the lists
of private and of loopback addresses hold no names; the name of a group leaves
some words or none for its tags (`TrafficPathAssumption`).

None of the properties is inductive: each speaks of the moment at which an
operation ends, of an answer, or of two calls far apart. The invariants below
say the same for every step in between.

**The actor and its observer** (`OrchestratorProofs`). That only the operation of
`o.active` is unfinished needs `IInv`: which goroutines exist (`IdsInOrder`),
that the active operation is the newest (`ActiveRuns`), that the readiness gate
wakes only its own operation (`GateOwned`), what a completion holds while it
waits for the mutex (`CompletionFits`), that a captured profile is still desired
(`ProfileKept`), and who can be at a gate (`GatesInFn`). From `IInv` follow the
safety properties of the run `orchestrator`, and the theorem `Refinement`:
initial states and steps of the actor are those of OperationSlot.
`ObserverKeepsActor` shows that the composition with the observer takes only
steps of the actor, so that `IInv` and what follows from it hold of it.

**The runtime** (`RuntimeProofs`), in layers.
`LockInv`: `NoStartUnderResetLock` relates a check of `reset.lock` to a spawn
many steps later. Nobody sets the lock in between (`LockHeldOff`), for which one
must know which kind of operation can be at which step (`KindAtStep`) and that
the epochs keep their bound (`EpochLeft`). It is stated for any superset of
kinds and steps and so holds of the composition with rescues too.
`DownInv` adds what the core and the subsystems look like at every step: a
stopped core is forgotten and unwatched, the lock outside of a RESET stands for
a stopped core, and an operation that carries an error goes on to a RESET or has
its core stopped (`FailureLeavesCoreDown`).
`SettledInv` adds what is known of the rules: a core that is not stopped has a
tracked process, except between a lost hot swap and the RESET that answers it
(`CoreTracked`), an operation comes to a RESET of its own only with an error to
report (`FailureKnown`), and a RESET without an error in its report has removed
everything once its script is through (`CleanAtStep`). `SuccessIsNoBlackhole` and `ResetIsComplete` are its last
conjuncts. These two layers are about RootRuntime alone; with rescues a core may
be degraded without a process (section 5).
`IntentInv` is about the composition with monitor and rescue: who is still
wanted at which step (`WantedAtStep`), that a rescue keeps to its own steps
(`RescueAtStep`) and the core to the state of a rescue only while that rescue is
wanted and of the current epoch (`RescueState`), and that a late tick may
overwrite the state of a stopped core but not bring its process back
(`StoppedIsGone`). It gives
`RescueActsForTheUser`, `StartsAreWanted` and `StartsOrphanNobody` for any
threshold, any limit of attempts and any epochs, also for checks that outlast
the wait of `HealthMonitor.Stop` (`SlowChecks`), which no run explores.

**The core manager** (`CoreManagerProofs`). `SetupInv` says for each step of a
call how far it has brought the children, the pid files, the rendered files and
the memory of the last runtime (`CallFits`, `PidKnown`, `FileKept`, `Settled`,
`CoreFits`, `XrayFits`); `PidFileKnows` and `MemoryIsTrue` are what it says
between calls. It says which children a call has started and tracks, never that
they live. `SeenInv` says, at each step, how the state differs from the one
in which the call began, as RootRuntime sees it (`StartSees`, `StopSees`,
`SwapSees`). `CallsKeepContract` is the step half of a refinement: whichever
step of a call fails, the call as a whole is one step that RootRuntime has. With
it what is proved in `RuntimeProofs` of calls taken for one step stands on the
calls as the code makes them.

**The mutation of the configuration** (`ConfigApplyProofs`). The three
properties speak of a mutation that met no other. `ApplyInv` therefore follows
the actor that began last: nobody else is under way or holds a file open
(`Alone`), how far it has brought the two files (`FilesSoFar`), what it will
answer (`RequestSoFar`), how far `d.cfg` and the core manager know of it
(`MemorySoFar`), and that the plan it made is enough for what runs
(`RuntimeSoFar`), also while the user starts or stops the runtime beside it;
`Down` says that a stopped runtime has no rules. It gives `AnswersAreTrue`, `CrashesKeepOldOrNew` and `RuntimesFollow` for any
requests, changes, mutations and faults.

**The update** (`UpdateInstallProofs`). `InstallInv` says at each step of the
transaction where the old binaries are (in place, in the backup, in place again:
`WayBack`), which files of the new release are staged (`StagedSoFar`), which
daemon was forked (`Forked`), what the update directory holds (`Artifacts`), and
what the record has to say by then (`RecordSoFar`). It gives `RecordTells`,
`FailureKeepsBinaries` and `SomebodyIsThere` for any releases and any number of
faults, requests and reboots.

**The document and its traffic** (`DocumentProofs`), from what clients send to
where a connection goes.
`DocumentSound` holds whatever clients send and feeds bring: `Apply` stores only
what `Refused` lets pass, and `Normalize` repairs the active node and counts
anew. That proof leaves the merges opaque, which is the point: soundness does not
depend on them. `BatchesStayApart` needs `BatchInv`: a batch that has not expired
has no old chunk.
`RefreshLeavesOthersAlone` needs `StoreInv`, because a refresh, an edit and a
preview start from documents that were stored before: the document and the copy
that a download holds are normalised, so that normalising the result changes no
node a second time, and what a preview keeps is a feed. On top of it,
`MergesKeepOthers`: a feed is merged node by node, and each of its nodes changes
nodes of its own provider only, whichever of the ways to match them (id, key,
name, stale node) it takes; `ReorderKeepsOthers`: moving the nodes of a provider
to where the feed has them leaves the others in their order.
The six theorems about traffic need `PathInv`: what runs was rendered from the
configuration, which can be rendered, and the kernel's rules from the same configuration and from one
reading of packages, all of which are still installed. `RouteInSteps` and
`NamesInSteps` cut the two lists of rules at the same places, and
`PickedFromRule` and `GivenFromRule` say what a rule means to what comes after
it, so that `NamesGoTheWayOfConnections` compares the two functions of the
renderer rule by rule, and follows the server that answers to where its question
leaves. `KnownIsTaken` says which of several lagging sources
BuildScriptEnv takes, which is what `DirectAppsStayDirect` rests on; a system app
is kept direct only by a reading that had the list of system apps.
`ProfilesFacts` and `SelectorOfAll` follow the active node through the three
filters of the renderer to the default of the selector (`ActiveNodeIsUsed`).
`SingBoxIsSatisfied` compares the four functions of the renderer that name tags:
`OutboundsAre` says what outbounds there are, `PlansFacts` that the plans, which
two of them make from different lists of nodes, have each group once with the
tags of its nodes, and `OutboundsOnce` that no tag is there twice, because the
tags of nodes, of groups and the fixed ones begin with different words. Its
condition is that the names of groups leave different bases, none of which looks
like the choice by latency of another (`GroupsDiffer`), and that the ids of nodes
leave different slugs (`NodesDiffer`). The code has no such conditions, and
section 5 says what happens without them. `AppsReachTheirNodes`
follows an app through the rules to the selector of its group
(`PickedFromGroups`) and from there to the nodes, directly or through the choice
by latency (`GroupLeaves`); that no other outbound has a tag on that way is
`OutboundsOnce` again.

The merges, the selections, the rules and the plans of groups are loops, and
what they compute is shown by induction over the length of a sequence. A theorem
that takes the property as an operator is out of the provers' reach; one that
takes it as a set of numbers is not. `BoundedInduction` is that theorem, proved
from the least counterexample (`LeastNat`, by `WFMin` of the library). Each loop
is then taken apart by a lemma of its own, which says that the loop is a sequence
of states of which each is one step after the one before (`MergeInSteps`,
`ThoseInSteps`, `PlansInSteps`, `BestInSteps`, `FlattenInSteps`). `StoreInv` and
`PathInv` hold on the instances of the runs `profile_store` and `traffic_path`.

**Exit and watcher** (`LifecycleProofs`). `LInv` says which reader holds
inotifyd (`OneInotifyd`) and where the core can be up once the shutdown is past
a step (`CoreStaysDown`): after the shutdown stopped the core only an operation
that was there, or one submitted since, can start it, and `late` has seen both.

**The server** (`IpcServerProofs`). `IInv` has the types, that the counter of
places is the number of connections being handled (`PlacesAreCounted`, for
which `Clients` must be finite), that a waiting connection has a goroutine, and
`AnswerIsOfTheRequest`.

**Only model-checked, and why.**

- `RefreshSettles` (ProfileStore): that a second refresh from the same feed
  changes nothing. It compares two merges of a whole feed, the second one over
  what the first has made, with matches by id, key and name that may cross; an
  induction would have to follow both side by side. TLC checks it for every
  document and feed of the bounds in section 3.
- `SingBoxAccepts` (TrafficPath) where the bases of groups do not differ. It does
  not hold for every value of the constants then: three groups whose names leave
  one base, or a group named like another one with `-auto`, share a tag (section
  5). The run has groups of which two share a base, which is what the code
  provides for: the second gets a number.
- Liveness: `ResultReachesFile`, `InstallEnds`, `StopEnds`, `StoppedReaderEnds`,
  `TermEndsDaemon`, and of `ImplementsSlot` the fairness (its safety half is
  `Refinement`).

## 5. Where the code and its words disagree

One has a run, `update_cancel`: an install is only accepted by its request, but
runs under the context of that request, which `processRequest` cancels when the
handler has returned. It ends as cancelled before it starts or at its next step
that looks, with nothing done, with the runtime stopped, or with the module
replaced and the app not. The contract calls the
method asynchronous and gives it ten minutes.

The others were met while modelling. The models have them, and the properties
above are stated so that they are true beside them:

| Where | What is said | What happens |
|---|---|---|
| `rescue/rescue.go:279` | strategy 3 is "full teardown + cold start" | the teardown stops the core and removes the active marker, and the gate before the start asks for both: the start is never reached, and with the default three attempts neither is the rollback |
| `health/monitor.go:341` | three strategies follow each other | a failed strategy leaves the state degraded, and the monitor calls for a rescue only when it read another state |
| `core/manager.go:816` | degraded means that the process is alive | a swap that loses the process sets degraded; after a rescue nobody RESETs, and a start then has nothing to do |
| `health/monitor.go:323` | running means that sing-box listens | a check that outlasts the five seconds of Stop writes running over a stopped core |
| `runtime/root/reload.go:159` | "previous runtime restored" | the restored runtime has no health monitor and no network watcher |
| `cmd/daemon/runtime_apply.go:65` | saving with a stopped runtime does not start it | a stop between `WasRunning` and the reload goes unnoticed: a full restart and a hot swap both start sing-box again; when the plan of a hot swap applies no rules there are none, and if the gate takes a health that was read before, the operation ends well all the same |
| `core/manager.go:355` | `MarkSelectorActive` records the node that runs | it runs outside of the actor and asks nothing: behind a stop it leaves the memory of a runtime that is gone |
| `core/manager.go:594` | a started core listens | nobody looks at a child again after the waits: one that dies while the rules are applied leaves a start that succeeded |
| `control/profile_handlers.go:378` | a refresh replaces the nodes of its provider | it stores a document made from the one it read before the download: what the user added meanwhile is lost |
| `control/profile_handlers.go:478` | an edit that changes only a name is saved | the merge writes to the array of the document that it is then compared with: no change is seen |
| `cmd/daemon/active_node_selector.go:30` | `runtimeApplied` | after a change that was saved without a reload the selector switch compares with the committed configuration, not with the one that runs, and reports it as applied |
| `apply/transaction.go:67` | a mutation starts only when idle | two mutations that were both let in interleave: the two files, `d.cfg` and the runtime may each come from another one |
| `cmd/daemon/lifecycle.go:42` | the shutdown leaves no core | it asks the actor nothing: a start that overlaps it leaves one |
| `watcher/network.go:112` | Stop may be called at any time | a Stop before the new reader has evaluated its `defer` makes it close a nil channel, and the daemon panics |
| `ipc/server.go`, Stop | the daemon removes its socket | after a handover the path may be the one of its successor |
| `config/renderer.go:1997` | rules and outbounds name the same groups | a group whose nodes are all left out of the rendering is named by a rule and not rendered; three groups that leave one base, or one named as another with `-auto`, share a tag |
| `config/renderer.go:1420` | every node has a tag of its own | ids that differ only in case, or in characters other than letters, digits, `-` and `_`, leave one slug: two outbounds share a tag, and sing-box refuses the configuration |
| `config/renderer.go:106` | remote-dns asks through the proxy | with an Xray sidecar it asks directly, whatever the name |
| `config/renderer.go:139` | names go the way of connections | a rule for names does not know who asks: an app with a group, or a picked one, connects through the nodes, but what a list sends elsewhere it asks for directly, or is answered empty |
| `config/renderer.go:1740` | a destination in both custom lists | its connections are proxied, its name is answered empty |
| `core/scripts.go:665` | built-in apps go direct | one installed later is proxied until the rules are built again, and longer while the first source that knows every app asked for lags; a system app is proxied if both commands fail that list the system apps (`core/scripts.go:848`) |

## 6. What is left out of the models

- **Values.** Steps, messages, step reports, logs and the canonical status
  do not change what happens. The watchdog of the actor only logs.
- **What checks look at.** Probes and egress checks are network input; the
  models choose among the results that the code can report. A check of the
  monitor passes only with a live process and rules.
- **Other backends.** Only the root backend is registered.
- **More than one waiting reload, API status call or `onDegraded`** in Rescue. A
  second one would do what the first one can do in another order.
- **Fields.** Protocols, transports, TLS and inbounds of the rendering; links and
  most fields of a node; validation of single values. They are computed field
  by field and no state depends on them.
- **The migration of old configurations**, the query for a release and the
  comparison of versions.
- **The kernel beyond marks and redirections.** The tables and policy routes of
  `routing.sh`, and the IPv6 twins of the chains, which repeat the IPv4 ones.
- **The debounce of the watcher** is a choice to call or not to call.
- **Input and output**: IPC framing, fetching and parsing of subscriptions,
  reports (diagnostics, audit, certificates), `daemonctl`, the user interface.

## 7. Plan

Done: the actor, its observer and its abstract specification; the root backend,
reset and rescue; core manager and netstack against RootRuntime; the
configuration transaction; the profile; the updater; renderer and app routing;
lifecycle, watcher and IPC server; proofs of every safety property of the runs
but one, those about the loops of the merge and of the renderer included.

Left, in order of weight for the user's device:

1. `RefreshSettles`: from `MergeInSteps`, that a node that a merge has just
   stored is found again by its id or its key, and is left as it is.
2. `SingBoxIsSatisfied` for two groups that share a base, as far as the code
   provides for them.
3. The theorems of `RuntimeProofs` that are about RootRuntime alone, weakened to
   what is true beside a rescue (`SuccessLeavesNoBlackhole` up to a degraded core).
4. The parts of the health monitor that the tick stands for (classification of
   health against a reference definition).
5. The polling client of the app against the IPC server.
