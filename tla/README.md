# A TLA+ model of agents-sandbox

`agboxd` is a local daemon that creates, runs and deletes sandboxes (a primary
Docker container, optional companion containers, a network) on behalf of
clients that talk gRPC to it. It answers requests at once and does the work in
goroutines; what it has promised is written to a bbolt file first, and after a
crash it is rebuilt from that file and from what Docker reports. These modules
model that core (who may change a sandbox, in which order, what is durable, and
what a restart makes of it) and what surrounds it: the Docker and nftables calls
below it, the daemon process around it, the request that comes in, and the
commands that wait at the other end.

## The system

| Component | State | Operations | Hard part |
|---|---|---|---|
| Control service (`internal/control/service*.go`) | `Service.boxes`, one `sandboxRecord` per sandbox, under `Service.mu` | Create, Resume, Stop, Delete, DeleteSandboxes; five `complete…` goroutines | goroutines of one sandbox interleave: the lock is released around every Docker call and the result is applied without looking at what happened meanwhile |
| Event and id store (`event_store.go`, `id_registry.go`) | bbolt buckets: reserved ids, configs, events by sequence, deletion times | one transaction per call | memory and store must tell the same history, a failing or missing transaction included |
| Restore (`restorePersistedSandboxes`) | rebuilds the records | one iteration per stored sandbox, one per exec | interrupted operations have no goroutine any more; the daemon may die again while restoring |
| Periodic scans (`cleanupLoop`) | – | idle stop, removal of old stopped sandboxes, purge of old deleted ones | the purge commits in the store before it takes the lock |
| Execs | `record.execs`, `Service.execs`, exec configs and events | CreateExec, CancelExec, `completeExec` | cancellation, the command's end and a restart all write the terminal event; commands outlive stops |
| Docker event watcher (`docker_event_watcher.go`) | two timers per container, the subscription | reconcile on a ticker, on die events and on reconnect | the timers see samples, not the container |
| Docker backend (`docker_runtime*.go`) | networks, containers, per-sandbox runtime state | create, resume, stop, delete as sequences of Docker calls | each call may fail, and be cancelled when it had its effect; what is done must be undone or remembered |
| Companions (`docker_runtime.go`, `docker_runtime_health.go`) | start goroutines, a status channel, a cancel function | create, start, wait for health, report, run hooks; `CancelAndWait` | they run beside the primary's creation and may meet a stop or a delete anywhere |
| Host isolation (`docker_runtime_nftables*.go`) | rules in chains the whole host shares | apply, remove | read and write are separate netlink calls; rules vanish with a flush or a reboot; applying again must not duplicate |
| Create request (`yaml_config.go`, `service_validation.go`, `service_clone.go`, `resource_limits.go`, `docker_runtime_materialize.go`, `docker_runtime_copy.go`) | the stored and the kept spec | merge, expand, validate, clone; later materialize, build, copy | validated on one host, carried out on another: the files may have changed; copying is a pipe between a walk and a client that may each break |
| Event subscription and waits | position in the log, events sent and not received | `SubscribeSandboxEvents`; the waits of the Go and Python SDKs, of `agbox sandbox` and of a session's clean-up | request, baseline, subscription and rereading are separate calls; the sandbox changes, is purged or the daemon restarts between them |
| `agbox agent`, `sandbox exec`, `exec cancel` (`cmd/agbox`) | one process: its signals, its docker child, the sandbox it owes a deletion | create, wait, attach, clean up; run and wait | signals at any time, between any two calls; the exit code must tell what happened |
| `agboxd` start-up and shutdown (`cmd/agboxd`, `internal/platform`) | host lock, store, socket | acquire, open, restore, listen, serve, drain, release | several processes; `flock` locks an inode, not a path; leftovers of a dead process |

Components interact through `Service.mu` (handlers, goroutines, scans, watcher),
through the store (every event is written there before the record shows it) and
through Docker (the goroutines and the watcher see each other's effects only by
inspecting containers). Clients see the daemon through unary calls and one kind
of stream, which replays the log from a sequence and then follows it.

What makes each part correct: one gapless history per sandbox that memory, store
and every stream agree on; no accepted request without somebody to finish it;
no container outside its isolation rules and none left after its deletion; one
acting daemon per store; a running container that is what was asked for; a
command that leaves nothing behind without saying so. The hazards that threaten
these are listed, at their lines, in `PROJECT.json`.

## Modules

* `SandboxLifecycle` – records, store, goroutines, scans, the watcher's effect,
  crash and restore. An action is one critical section of `Service.mu`, one
  Docker call, or one store transaction made without the lock.
* `EventLog` – the abstract promise: one gapless, append-only history per id,
  forgotten as a whole and only after the deletion is in it, ids never reused.
* `Execs` – extends `SandboxLifecycle` with the commands run in sandboxes. Each
  lifecycle step is a step of `Execs` and says there what it does to execs.
* `CrashloopWatcher` – the timed decision rules of the watcher for one sandbox.
* `EventStream` – extends `SandboxLifecycle` with the calls that wait for a
  sandbox over an event stream.
* `HostIsolation` – the nftables rules and the steps that apply and remove them.
* `RuntimeBackend` – extends `HostIsolation` with the Docker backend, one Docker
  call at a time, and the companions' goroutines.
* `AgentSession` – one `agbox agent` process, from its first check to its exit.
* `ExecCommand` – extends `AgentSession` with the commands that run or cancel an
  exec and the exec a pairing session runs.
* `DaemonStartup` – `agboxd` processes from `main` to exit.
* `Capabilities`, `CreateSpec`, `AgentArguments` – the pure functions a create
  request goes through: builtin tools, the daemon's merge, validation and
  translation, the agent command's flags and types.
* `CopyArchive` – the copy of one source into a container through a pipe.
* `CreateRequest` – composes the last four: a request from client to container.
* `MC…` – the values and bounds for TLC, one per composed module.
* `SandboxLifecycle_proofs` (types, log, records, marks, the refinement of
  `EventLog`), `Execs_proofs`, `DaemonStartup_proofs`, `ExecCommand_proofs` (with
  `AgentSession`), `RuntimeBackend_proofs`, `EventStream_proofs`,
  `CrashloopWatcher_proofs`, `CreateRequest_proofs` (with `CopyArchive` and the
  functions) – the theorems.

`RuntimeBackend` and `SandboxLifecycle` describe the same service at two depths:
the first knows every Docker call and only the coarse state of the service, the
second every state of the service and only the outcome of the backend's calls.
`SandboxLifecycle` allows each outcome of the primary that `RuntimeBackend`
produces (done, failed before or after the container exists, container gone).

### How SandboxLifecycle corresponds to the code

`daemon` is the process (down, restoring, serving). `boxes`, `state`,
`runtimeState`, `events`, `nextSequence`, `deletedAtRecorded` are fields of the
service and of its records; `sandboxIDs`, `configs`, `bucket`, `deletedAt` the
buckets of the bbolt file; `container` what Docker knows of the primary.
`goroutine` holds the goroutines alive with the point they have reached:
`start` (before the first lock), `backend` (before the Docker call), `starting`
(between `docker create` and `docker start`), `finish` (back, before the second
lock).

* Each handler (`CreateSandbox`, `ResumeSandbox`, `StopSandbox`,
  `DeleteSandbox`, `DeleteSandboxes`) is one action with the handler's guards,
  appends and the `go` statement. Requests the code refuses change nothing and
  are left out.
* Each goroutine is a `…Start`, a `Backend…` and a `…Finish` action.
  `Settle` is the pattern they share: append the events, then set the state;
  if an append fails, keep what was appended and leave the state alone.
* `idleScanAndStop`, `cleanupStoppedSandboxes`, `Cleanup` and `DropPurged` (the
  two halves of `cleanupExpiredEvents`), `applyPrimaryFailed` and
  `ReportCompanionFailed` are the background loops. TTLs and windows are not
  timed here: a scan may find any eligible sandbox expired.
* `Crash` empties memory. `CrashInCreateSandbox`, `CrashInDeleteFinish`,
  `CrashBeforeReady` and `RestoreAborts` are crashes between two transactions of
  one critical section. `Restore` is one iteration of
  `restorePersistedSandboxes`; several at once need no model because the daemon
  serves nobody meanwhile.
* With `StoreMayFail`, any transaction may return an error, and the undo steps
  of the code may fail as well.

Abstracted: events carry their sequence, type and sandbox state; reasons, error
codes and times are dropped. Companions are reduced to one status per sandbox.
Sequences count the events of this module; exec events, which the code numbers
in the same log, carry no sandbox state and live in `Execs`.

### How Execs corresponds to the code

`execs` is `record.execs`, `owner` is `Service.execs`, `lastRun` the event that
last set `lastTerminalRunFinishedAt`, `execRun` the `completeExec` goroutine of
each exec, `execLog` the exec events of the sandbox's log. `BackendExec` is
`RunExec` up to `docker exec`, which starts a container that is not running.
The restore takes one step per exec, so that a crash may fall between two.
`ExecsCleanup`, `ExecsDropPurged`, `IdleScan`, `ExecsCrash` and `ExecsServe`
are the lifecycle steps with their effect on execs added.

### How CrashloopWatcher corresponds to the code

`Evaluate` is `evaluateContainer`. `reconcileAll` and `handleEvent` are the two
callers, with the inspect errors and the early exits that skip companions.
`Connect`, `StreamEnds` and `BackoffElapses` are the loop of `run`. Stop,
resume and restart appear by their effect on the sandbox state and on the
timers. `since`, `readySince` and `stableAt` are history: they record when the
container really changed, which the watcher does not know. One unit of time is
the tick of 15 seconds. What `docker inspect` reports is the code's reading of
it: running, paused, not running, or not there.

### How EventStream corresponds to the code

`client` holds each waiting call: where it stands, the sequence its baseline
gave, the state of its stream, the daemon's position in it and the events on
their way. `Call` is the accepted request, `Baseline` the `GetSandbox` after it
(the SDKs' create uses the handle of its response), `Subscribe` the part of
`SubscribeSandboxEvents` before its loop and `Poll` one tick of the loop.
`ReceiveSDK` and `Reread` are the SDKs' way to take an event (read the state
again), `ReceiveCLI` that of the command and the session (judge the state in
the event). `GivesUpAt` collects the states at which each wait gives up, one
definition per classifier of the code. A crash breaks the streams and no caller
subscribes again. The current-snapshot option of the subscription has no caller
in the repository and is left out; the commands' waits for an exec are in
`ExecCommand`.

### How HostIsolation and RuntimeBackend correspond to the code

A rule is its bridge, its subnet and its tail (what follows the match of the
bridge: local addresses, translated ones, input); this is
what `matchesIsolationRule` compares. A chain is a bag, since a rule inserted
twice is there twice. `ReadDockerUser`, `ReadInput` and `FlushInserts` are
`applyHostIsolation`, `SelectRulesInput`, `SelectRules` and `FlushDeletes` are
`removeHostIsolation`: `batch` holds what a goroutine has queued on its
connection, and a flush is one transaction that fails as a whole when a chain or
a rule it names is gone. On a host without an INPUT chain the code makes
AGBOX-INPUT.

`proc` holds the goroutines of a sandbox, each with its call, the point it has
reached and the errors so far; `Slots` bounds how many there are at once.
`Request` looks at the state alone, as the handlers do, and nothing keeps the
goroutines of one sandbox apart: a sandbox stays READY while it is being stopped,
so a second stop (of a client, or the idle scan's, which the state admits in the
same way) runs beside the first and may settle after a later resume. `Enter` is
the look at the state before the backend is called, `PrimaryFails` the watcher's
FAILED with its own call of `StopSandbox` (the call "halt"), the call "exec" the
part of `RunExec` that starts the primary when it is down. `Ensure` makes one step
of the inspection and the start, since only the start has an effect and starting
a running container has none. `starts`, `hook` and `cancelled` are the companions'
goroutines and their cancellation; `runtime` is `runtimeState`, `containers` and
`networks` are Docker's. `Restore`,
`RestoreAborts` and `Serve` are what a start does to the backend (inspect, apply
the rules of READY sandboxes again); `FlushRuleSet` and `Reboot` are the host.
`fresh`, `lost`, `kept`, `leaky`, `raced`, `woken` and `gone` are history: which
goroutines read the rules after the last loss, why a property may have an
exception (`raced`: a resume read the chains while another one of the sandbox was
between reading and flushing; `woken`: the containers that were started while
their sandbox was being stopped or after it was), and which deletions claimed to
have removed everything.

### How AgentSession and ExecCommand correspond to the code

`at` is the point in `runAgentSession` or in the command. The daemon is the
`history` of states of the sandbox and `cursor` the position of the session's
stream in it; SandboxLifecycle and EventStream say which histories there are.
`pending` holds signals delivered and not taken: the code takes one in
`CheckSignals`, in the `select` of the wait and while the child runs, and
nowhere else, so a signal that comes between two of these waits in the channel.
`Interrupted`, `Terminated` and `Killed` are the phases of forwarding SIGINT,
forwarding SIGTERM with its grace period, and killing the child. Before the
handler is installed, and in `exec cancel`, a signal ends the process. `said` is
what the command told the user about the sandbox it leaves. In `ExecCommand`,
`ExecBaseline`, `PeekSignal`, `ExecSubscribe`, `ExecEvent` and `ExecGet` are the
steps of the wait for an exec, `ExecSignal` the first signal, which cancels the
exec and overrides the exit code.

### How DaemonStartup corresponds to the code

Each process goes through `run`, `acquireHostLock`, `openBoltDB`, `NewService`,
`RestoreSandboxes`, `RemoveSocket`, `Listen`, `Serve`, and back through
`GracefulStop`, `Drained`, `CloseStore` and `release`, the deferred calls in
their order; any of them may fail and then only those deferred so far run. Lock
file and socket are per runtime directory, the store is one per user.
`LoseFiles` removes the lock file or the socket under a running process, as a
cleaner of temporary files does.

### How CreateRequest and its parts correspond to the code

Paths are pairs of a base and a rest, so that expansion of `~`, the check for
absolute paths and the comparison of targets have something to do; limits,
durations and protocols are texts that parse or do not. `CreateSpec` holds the
daemon's functions under their names: `mergeCreateSpecs`, `expandPaths`,
`validateCreateSpec`, `cloneCreateSpec`, `ensureUniqueMountTargets`,
`buildPortBindings`, `primaryEnv`, `companionContainerHealthWaitUpperBound`.
`CreateRequest` calls them in the code's order: `CreateSandbox` in the handler,
`Materialize`, `CreatePrimary`, the copies and `StartPrimary` later in the
goroutine, with `HostChanges` possible in between. `AgentSends` builds the
request from flags as `resolveAgentSessionArgs` and `buildAgentCreateSpec` do. The
workspace it copies is what `validateWorkspacePath` returns, a path without its
symlink: on one of the three hosts the directory the command is started in is one,
which leads to `LinkTarget`. Links further up a path are not modelled.

A map laid over another (`Over`) is what the code does with a loop of
assignments. The mounts of a plan are a function keyed by where they come from (a
tool, a position in the request, the exec log), since neither Docker nor the check
for unique targets cares about their order. `ChecksTake` is the sum
`companionContainerHealthWaitUpperBound` computes and `Wrapped` its value as a
signed 64-bit duration.

In `CopyArchive` a tree is its entries in the order of the walk, each with the last
entry below it. The walk (`Skip`, `WriteEntry`, `WalkEnds`) and the Docker client
(`ClientEnds`, `ClientBreaks`) are the two ends of the pipe. `Wanted` is the
reference definition the archive is compared with: what is below the source and
neither excluded nor in an ignored directory with a link out of the source.

## Runs

| Run | Bounds | What it shows |
|---|---|---|
| `lifecycle_reliable` | 1 sandbox with a companion, 2 goroutines, requests while the log is shorter than 8, fairness | state shown = state recorded; no abandoned PENDING or DELETING; a usable sandbox has its runtime state; accepted work ends |
| `lifecycle_deleted_final` | 1 sandbox, 2 goroutines | expected to fail, see below |
| `store_fails` | 1 sandbox with a companion, 1 exec, 2 goroutines, failing store | memory and store hold the same gapless history; marks only after deletion; exec records agree with the log; implements `EventLog` |
| `execs_reliable` | 1 sandbox, 2 execs, fairness | every exec ends once, no RUNNING exec without a goroutine, an exec whose container stays down ends |
| `watcher` | primary and companion, Guard 1, Window 2, 7 ticks, 4 changes | a healthy container is not failed for old trouble; one that stays down is reported |
| `event_stream` | 1 sandbox, 1 call of any kind, fairness | issued sequences are not refused, no event is missed, success is not replayed history, calls end |
| `backend` | 2 sandboxes, one with a companion, 2 goroutines each, 3 calls and 1 mishap, or 2 calls and 2 mishaps | a running container has its rules; a deletion leaves no container, network or rule |
| `backend_overlap` | 1 sandbox with a companion, 2 goroutines, 5 calls and 2 mishaps | no rule twice; a stopped sandbox is down; no goroutine of the backend waits for ever; whatever calls overlap |
| `backend_hooks` | the two sandboxes, 1 call, no mishap, fairness | expected to fail, see below |
| `commands` | 5 kinds of command, 5 states of the sandbox, 2 signals of each kind, 1 fault, 2 other events, fairness | no sandbox left without a word, none kept that was never usable, no child left; the exit code tells what happened; an exec's end is noticed; SIGTERM ends a session |
| `startup` | 2 processes, 1 or 2 runtime directories, 4 launches, 2 requests, 3 mishaps, fairness | one daemon acts at a time; a serving daemon is found at its socket, which a dead one never blocks; requests are answered before the store is closed, and it is closed before the lock is free; a shutdown ends |
| `create_request` | pairs of wishes as YAML and spec, 7 sets of flags for every agent type, 3 hosts, 1 change, trees of 4 entries, fairness | what runs is what was asked; what was accepted can be built unless the host changed; no mount target or host port is given twice; the health wait outlasts the checks; an archive holds what it should in order; a copy ends, and is whole or reported |

Two goroutines are enough for a late goroutine to meet another request's; a log
of 8 events holds a create, a stop, a resume and a delete. `MaxLog` and
`MaxExecLog` only stop new requests, never what is under way. One sandbox is
enough as long as no action couples two; those that do (`DeleteSandboxes` and the
scans start a goroutine for every sandbox they collect) are left to the theorem
`TransientHasWorkerCorrect`, which holds for any number (`GoAllStarts`). Two execs meet
each other through the idle scan and the purge only; the goroutine is what
stops or deletes the sandbox under them. The watcher's clock leaves room for a
stable run, an exit and a full window after it, with an inspection missed. One
waiting call is enough since calls only read the daemon's state; what disturbs
it are the other clients' requests, which the daemon's own steps make.

In `backend` three calls create one sandbox, and stop or delete it, while the
other one of the host is created on the same chains; two mishaps are a crash and
the failure of what the restart does about it, or two failures in one clean-up.
`backend_overlap` needs five calls for the longest story there is (create, two
stops, and two resumes, the second admitted because the late stop has settled) and
a mishap in it that empties the chains; without its two exceptions `StoppedIsDown`
fails after two calls and an exec, and `NoDuplicateRules` after those five. Two
goroutines are enough, because a goroutine that has returned makes room for the
next call; the theorems hold for any number. In the commands, two
signals of each kind reach every second-signal rule, and five states hold a
creation, a stop and a resume or a failure, and a deletion. Four launches let
either process be replaced while the other competes; three mishaps let lock file
and socket be lost and a process die in one behaviour. A create request combines
two wishes because the merge joins two halves and the conflicts are between two
mounts, ports, companions or variables; four entries hold a directory, something
in it, and something beside it. `RetryLimit` and `DurationLimit` stand for 2^32
retries and 2^63 nanoseconds at a smaller width.

Each module has a type invariant; that of `SandboxLifecycle` is checked and proved,
`ExecsTypeOK`, `StreamTypeOK`, `CreateTypeOK` and the watcher's `TypeOK` are proved,
and the others (`BackendTypeOK`, `CommandTypeOK`, `StartupTypeOK`) hold in the same
runs when added to their configurations.

Sandboxes, goroutines and execs are interchangeable, and so are the `Slots` of
the backend (nothing is chosen by its slot), hence the symmetry sets of the safety
runs; the runs with a liveness property use none.

**Fairness.** Weak fairness of each goroutine's steps: the Go scheduler runs
what can run, and Docker answers each call, with success or with an error.
Requests, scans, crashes, restarts and what Docker does by itself are never
forced in these runs. A command is only assumed to end when its container does not run. Of a
waiting call it is assumed that the client goes on and that the ticker of its
open stream fires; no timeout is relied upon. A command takes the steps it can
take without a fault, its timers fire, and a killed child dies; users, the child,
the exec and other callers need not do anything. A daemon process takes its next
step; no client has to hang up, and `ShutdownEnds` says so. A copy goes on while
the walk or the client can; Docker is never obliged to fail. `backend_hooks`
assumes that the daemon as a whole goes on, restarts included. `backend` and
`backend_overlap` have safety only; `CallsGoOn` says there that a call always has a next step, its own
or that of a companion's goroutine it waits for.

Deadlock is checked in all runs but the three of the backend, `commands` and
`startup`, where the bounds are spent or the processes are over in the end.

### Disagreements found

Two runs are expected to fail; each is a place where the code and its
documentation differ, recorded under `findings` in `PROJECT.json`:

* `lifecycle_deleted_final`: a create that comes back after the deletion
  overwrites DELETED.
* `backend_hooks`: the hooks of a companion that is healthy before the primary
  runs are skipped for good, without an event.

**Seen without a run.** The first five have a definition in their module that
reproduces them when it is added to a configuration:

* a deletion interrupted by a restart is published before, and whether or not,
  its containers are removed (`DeletedHasNoContainer`);
* an exec restarts a stopped sandbox's container (`StoppedUntilResumed`);
* a timer from before a stop fails a resumed sandbox (`ReadyHasWindow`);
* unseen restarts make short runs look stable (`ShortRunsKeepWindow`);
* `agbox sandbox delete` waits on when the deletion has failed
  (`ErrorStateEndsWait`).
* With a failing store, `DeleteSandboxes` may leave sandboxes DELETING without a
  goroutine and an exec's id may be free again while its history remains
  (`TransientHasWorker` and `ExecEndsOnce` are therefore claimed for a working
  store only); failed commands do not move the idle time; the watcher's
  reconnect backoff is reset before every subscription, whether or not it
  succeeds, so that it never grows.
* Backend: `deleteRuntimeArtifacts` removes the rules although the removal of a
  container failed (the exception `kept` of `RunningIsolated`). Errors of a
  failed creation's clean-up are dropped and the runtime state with them, so a
  later delete removes nothing. A start applies rules again only for a READY
  sandbox whose primary exists, and an error there ends the start (`lost`). A
  resume overlapping a delete may put rules back (`leaky`). A stop that is late
  records STOPPED over a sandbox that was resumed meanwhile, with its containers
  running, and an exec that was accepted before the stop, or that runs beside it,
  starts the primary again (`woken`: `StoppedIsDown` without its last conjunct is
  violated by a create, a stop and an exec). Two resumes that overlap after such a
  stop may each find the rules missing and insert them, although
  `docker_runtime_nftables.go:52` calls the operation idempotent (`raced`). After a crash before
  the companions exist, a resume fails because they must. Hooks under way are
  lost in a restart. A failed listing of the chains duplicates rules in
  AGBOX-INPUT (`listFailed`). `companion_container_guide.md:5` says that a healthy
  companion emits COMPANION_CONTAINER_READY; the code emits it on start.
* Commands: a SIGINT taken only after `docker exec` was started waits for a child
  that never got it (contrary to the comment at `agent_session.go:208`);
  long-running sessions ignore signals after READY; a second signal to
  `sandbox exec` is ignored; a lost response of CreateSandbox leaves a sandbox
  nobody announces; `exec cancel` reports an error when only its response is lost.
* Start-up: a graceful stop waits for streams without a bound and a second
  SIGTERM does not help; goroutines may still run when the store is closed; a
  `cleanup_ttl` of zero or less silently becomes 360 hours; a signal before
  `Serve` makes the exit code 1.
* Create request: the merge removes duplicates within one half as well, which the
  comment in `yaml_config.go` on appending does not say; a copy target below a
  builtin tool's mount is not checked; a socket is accepted as a copy's source
  and refused later; targets that conflict with a tool's or with the exec log's
  are found after the request was accepted, and the trailing slash of
  `execLogContainerDir` defeats the comparison; `retries + 1` wraps at 2^32 and
  makes the wait zero, and so many retries that the sum of the checks passes 2^63
  nanoseconds (400 million of 30 seconds) make it negative; slow probes may outlast
  the wait; a failed walk closes the
  pipe as if the archive were complete, so that Docker may accept a truncated
  one (the error is reported afterwards, see `CopiedWhole`).

## Theorems

Every theorem holds for any sets of sandboxes, goroutines, execs, processes,
companions and any bounds. The assumptions are the ones TLC evaluates too:
`CompanionsAssumption`, `StoreAssumption`, `CallsAssumption`, `SessionAssumption`,
`StartupAssumption`, `BackendAssumption`, `TimesAssumption`, and those of the create
request named below. They say which constants are natural numbers, Booleans or
subsets of each other and that markers such as `"none"` are no process; nothing
about sizes, but that the watcher's tick, guard and window are not zero. An
invariant is proved with the strengthening that makes it inductive, which TLC
checked first on the run's instance.

**`SandboxLifecycle_proofs`** – with or without store failures.

* `TypeCorrect`, `LogDurableCorrect`. The history in memory is the one in the
  store and is numbered 1, 2, 3, … `LogDurable` is not inductive: a create starts
  a new bucket and must know that the old one is empty. `LogInv` adds
  `IDsReserved`: what has a config, a bucket or a record has a reserved id, and an
  id without a config has no history in memory. The proof goes by shape: every
  action either leaves the log alone, appends stamped events to one record or to
  several (`AppendsOne`, `AppendsSome`), forgets purged histories, loses memory,
  or restores. What `LoadEvents` and `MaxSequence` return for a contiguous bucket
  is proved in lemmas about the cardinality of initial segments.
* `StateFollowsLogCorrect`, `TransientHasWorkerCorrect`,
  `UsableHasRuntimeStateCorrect` follow from `RecordInvariant`. `RecordInv` adds
  to types and log that goroutines run only while the daemon serves (`GoServing`)
  and that a resume or a stop which comes back from the backend without error
  left a runtime state (`BackFromBackend`): `completeSandboxResume` and
  `completeSandboxStop` use after the lock what they read before it. The three
  properties are proved together, because the restart re-creates workers from the
  states it recovers from the log.
* `MarkedOnlyAfterDeletedCorrect`, by `MarkInv`: the mark `deletedAt`, in a record
  or in the store, rests on a `SANDBOX_DELETED` event that is in the store, and no
  other event carries the state DELETED (`DeletedOnRecord`).
* `ImplementsEventLogCorrect`: `Spec` implements `EventLog`. Every step is shown
  to append to one history, to none, to several, to forget one that was marked or
  to stutter, under the mapping that reads the history out of the store.

**`Execs_proofs`**

* `ExecsImplementLifecycle`: `ExecsSpec => Spec`, so all of the above holds with
  execs beside it. `ExecsTypeCorrect`.
* `ExecsFollowLogCorrect`, from `FreshInv` (an id not yet reserved has no exec, no
  event, no last run; what a purge is about to drop stays reserved) and
  `FollowInv`, which says of every record already during the restore what
  `ExecsFollowLog` says of a serving daemon.
* `ExecEndsOnceCorrect`, `RunningHasWorkerCorrect`, from `ReliableInv`: as long as
  the store works, an exec id belongs to one sandbox in memory and in the store
  (`OneSandboxPerExec`), and an exec that is RUNNING is one `requireExecLocked`
  finds and whose goroutine runs (`RunningIsOwned`). Without these a second
  sandbox could take the id, and CancelExec would end the wrong history.

**`EventStream_proofs`** – any calls, on any sandboxes, at one time.

* `StreamImplementsLifecycle`: `StreamSpec => Spec`. `StreamTypeCorrect`.
* `AnchorAcceptedCorrect`, `NoLostWakeupCorrect`, `SuccessIsFreshCorrect`, from
  `StreamInv`. Its part for the daemon (`DaemonInv`) adds to the life cycle's
  invariants that memory holds a gapless log also of a sandbox that has left the
  store while a stream still points at it (`MemoryLog`), that what is being
  dropped has left the store (`PurgedIsGone`), and that a restart would not find a
  READY sandbox STOPPED, whichever writes failed (`ReadyIsNotStopped`): without
  the last a stop could take an old STOPPED for its own after a restart. Its part
  for a call speaks of the sandbox's `History`, in the store or in memory: the
  call's sequences lie in it and its inbox is the part after what it has handled
  (`Anchored`); before the target state is entered neither the record nor the log
  is in it (`Fresh`); and at some position at or after what the call has handled
  the log carried a state that lets it wait (`Watched`, only as long as the store
  works). One lemma shows that a history only grows as long as the sandbox can be
  found (`HistoryGrows`) and another where a new state comes from
  (`StateEntered`), so that every step of the daemon keeps what holds of every
  call; then each step of a call is taken by itself. TLC checked `StreamInv` with
  and without store failures and with two goroutines and a companion.

**`CrashloopWatcher_proofs`** – any companions, tick, guard and window, in no
proportion to each other.

* `DownIsReportedCorrect` and the action property `HealthyNotFailedCorrect`, from
  `WatcherInv`. Neither property is inductive: the timers hold samples, so what
  they say about the container has to be tied to the last whole inspection. A
  window open on a container that is down began at most a tick after it went down,
  and if it is over a failure was recorded (`DownTimers`); a window still open on a
  container that is up is being measured against the guard (`UpTimers`); it was
  opened after the last long run (`StableFirst`). A change of the container, a
  resume or a restart starts these over (`StartsOver`), and a tick of the clock
  ends a long run only when the guard has closed the window
  (`LongRunHasNoWindow`): there the two ticks beside the guard are used up. That
  inspections are at most a tick apart (`InspectedLately`) is the assumption on the
  ticker in the guard of `ClockTick`. TLC checked `WatcherInv` with ticks of two
  units.

**`DaemonStartup_proofs`**

* `OneDaemonActsCorrect`, `ServingIsReachableCorrect`, `ShutdownInOrderCorrect`,
  from `StartupInv`: types with the inode numbers, which grow only with a mishap
  (`Types`); who may hold the lock of which inode (`Locks`); the holder of the
  store is the one process between opening and closing it (`Stores`); whose socket
  an address leads to at each point (`Sockets`); requests only while serving or
  draining (`Streams`). The lock alone does not give `OneDaemonActs`, since its
  file may be deleted and created anew: the store's own lock does.

**`ExecCommand_proofs`** – the sessions of `AgentSession` and the exec commands.

* `NoSilentOrphanCorrect`, `NoChildLeftCorrect`, `ExitCodeTellsCorrect`, from
  `CommandInv`: which points a mode can be at (`Kinds`, `Routes`), what child and
  sandbox it has there (`Children`, `Sandboxes`), what it owes when it leaves
  (`Leaving`), what the signals delivered so far imply for the exit code
  (`Signals`) and what an exit code says about the exec (`Results`).

**`RuntimeBackend_proofs`** – any number of sandboxes with any companions, each
Docker and netlink call a step of its own, each of them able to fail.

* `StoppedIsDownCorrect`, `NothingLeftCorrect`, `NoDuplicateRulesCorrect`,
  `RunningIsolatedCorrect`, from `BackendInv`. Nothing is assumed about which calls
  of a sandbox run at once, so the invariant has no table of the pairs that may. It
  says of every goroutine by itself (`Fine`) what its call says about the service
  that made it (`Role`), what it has removed or stopped already and that no start
  of a companion is left to bring it back (`Work`, `Settled`), what its nftables
  batch holds between reading the chains and the flush (`Queues`), and how far the
  rules it puts in place are (`Cover`); of every sandbox what holds when no call is
  under way (`Ground`); and of two goroutines only what the state the service keeps
  does exclude (`Apart`): a creation meets nobody but a deletion that has not
  begun, and a start of the daemon nobody at all; that no two are between reading
  and flushing, and that no resume is putting rules back once a removal has
  selected them, holds as long as the sandbox is not marked `raced` or `leaky`.
  A stop must leave its containers down although an exec or a resume runs beside
  it: hence `DownOrWoken`, container by container. One lemma says which changes by
  a goroutine, a companion or another sandbox keep what holds of the goroutines
  that did not move (the `Mild…` lemmas), another that a sandbox nothing was done
  to keeps its part (`Frame`); what is left for each action is the goroutine that
  moves. TLC checked `BackendInv` with the bounds of `backend`, and with
  one sandbox, three goroutines, five calls and a mishap.

**`CreateRequest_proofs`** – any requests, flags, hosts, source trees and widths.

The assumptions are what the messages and the file system guarantee:
`RequestsAssumption` (the requests and flags have the types of `service.proto`; a
port or a duration may still be out of range, a path anything, a list any length),
`CwdAssumption`, `LinkAssumption`, `WidthAssumption` (retries and durations have some width),
`TreesAssumption` (`last` describes a tree: what lies below an entry ends where the
entry ends, a file has nothing below it) and `LiteralsAssumption`, that five
literals of the model are strings, which is so in TLA+ but unknown to the provers.

* `CreateInvariant`, from which the others follow. `CreateInv` says at each point of
  a creation what the daemon holds: before the validation nothing, afterwards the
  merged and expanded request, which passed the validation on some host, on the
  present one unless it has changed (`SpecInv`); mounts with distinct targets that
  contain those of the record, and a container built from both (`PlanInv`); how far
  the copies are and where the creation failed (`FailureInv`); and for the copy
  `ArchiveInv` and `WholeInv`.
* `RunsWhatWasAskedCorrect`. The lemmas follow each field through
  `yamlConfigToCreateSpec`, `mergeCreateSpecs`, `expandPaths`, `cloneCreateSpec` and
  the translation for Docker: what either half lists is still there (`Takes`), what
  both set is as in the later one (`Prefers`), and `agbox agent` sends a request the
  daemon takes as typed (`AgentTyped`).
* `AcceptedIsBuildableCorrect`. The targets of builtin tools are distinct and none
  is the exec log's, so after the validation only the reasons that the property
  lists are left (`SharedTargets`); each of them is one that `validateCreateSpec`
  does not look for.
* `NothingIsSharedCorrect`, `WaitOutlastsChecksCorrect`, `CreateTypeCorrect`.
* `ArchiveFaithfulCorrect`, `CopiedWholeCorrect`. Neither property is inductive:
  the walk must not have skipped anything wanted (`Complete`), must not be inside
  a directory it passed over (`NotInside`), and must have come to the end of the
  tree when it ends without error (`WalkEnded`). The lemmas on trees show that
  skipping a directory skips exactly what it excludes. No induction on trees is
  needed since an entry knows the last one below it.

An attempt at `ArchiveFaithful` found that the first version of the walk was not
what it seemed: two arms of a `CASE` overlapped (an excluded link that leaves the
source), which TLC decides by their order, as the code does, and TLA+ leaves open.
The walk's verdict is now a nested `IF`, in the order of the code.

Checked by TLC only: the liveness properties, and `CallsGoOn`, which is about
`ENABLED`. Both are out of the prover's reach. Every other property of a passing
run is a theorem.

## Not modelled, and the plan

Left out, with the reason:

* the fields of a handle besides its state (`StateChangedAt`, `ErrorCode`, …):
  texts and times no other step reads; Ping, Get and List, which change nothing;
* the conversions and option setters of the SDKs, the formatting, listing and
  usage texts of the CLI, labels, logging, audit names: no state;
* image pulls (one outcome with the creation of the network), file contents, the
  macOS key chain: a call that succeeds or fails;
* the expressions of an nftables rule beyond what the matcher compares, and the
  stub for other systems;
* names of companions after sanitising are assumed distinct;
* generated code.

What could come next: the order in which several copies of one sandbox overwrite
each other, the companions' own create requests, and the refinement of the coarse
backend in `SandboxLifecycle` by `RuntimeBackend`, which today is an argument of
this text only.
