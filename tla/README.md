# GoShip: a TLA+ verification project

GoShip gives every *project* a virtual machine (KVM through libvirt) and runs
*apps* inside it, as containers or as plain processes. This directory holds
TLA+ models of its parts that have interesting state, the TLC configurations
that check them on small instances, and TLAPS proofs of the properties that
matter most. Paths such as `internal/init/process.go` are relative to `src/`.

`PROJECT.json` lists the components, the runs, the faulty variants that show
that each property can fail, the hazards of the code, the theorems, and for
every definition the lines it models.

## The system

```
 goship (CLI) --HTTP--> goship server ----libvirt----> domain, disk (one VM per project)
      |                  |  handlers                        |
      |                  |  state store -> state.json       | virtio-serial: one JSON line
      +--- same store ---+  route table -> HTTP proxy       | per command and per answer
      |                  |  runtime (VMs in memory) --------+
      +------------------+--- VMCommunicator -------> goship-init
                                                        |  listener: one command at a time
                                                        |  executor -> Docker | process manager
                                                        |  file transfers (update, upload, image)
```

| Component | State | Operations | How it interacts | What is hard | What makes it correct |
|---|---|---|---|---|---|
| process manager (`internal/init/process.go`) | table of `managedProcess` objects, one mutex, one monitor goroutine per process | Deploy, Stop, Remove, GetStatus, Close; monitors restart with backoff | called by the listener, closed by the shutdown; shares objects with monitors and the kernel | stops that wait with the mutex held, restarts scheduled before a stop, a channel closed outside the mutex, shutdown while a command runs | no app twice, nothing untracked, an answered stop is effective, bounded restarts, no deadlock |
| goship-init loop (`init.go`, `comm.go`) | context, device | read a line, handle, answer; Shutdown | everything in the guest | shutdown overlaps a command | nothing left behind, every command answered |
| executor and Docker (`executor.go`, `docker.go`) | the daemon's containers and images | Deploy, Stop, Remove in two modes | process manager, Docker daemon | calls fail between one another; two modes of one name | a name is never blocked; OK means what was asked for |
| file transfers (`init.go`, `runtime.go`, CLI) | one transfer of each kind, a temporary file, the installed file and its backup | begin, data, finish | over the serial channel, several clients | commands and answers have no identifier; crashes between renames | only whole files are installed; the agent's binary survives |
| serial channel (host and guest `comm.go`, QEMU) | connections, lines under way | connect, SendCommand, Listen | every client and the agent | timeouts leave answers and half lines behind | (through the transfers) |
| project handlers, state store, runtime, VM manager | projects, instances, `state.json`; VMs by *name* | create, delete, stop, start, restart, reconcile at start | store, runtime and libvirt each lock a method, never a request | handlers overlap; saves fail or tear; VMs are slow; crashes | names unique, confirmed means durable, deleted means gone, records agree with libvirt |
| app handlers, route table | apps (shared pointers), routes | create, deploy, update, stop, delete, change domains, rebuild at start | store, runtime, proxy | routes are written one by one from values read earlier | routes lead where they should and nowhere else |
| node handlers, node agent, reconciler | nodes in the store; on each host the runtime's memory and its VMs | register, heartbeat, desired state, drain, remove; a tick of beat, pull, reconcile | HTTP between server and agents; the agent has a runtime of its own | ticks against handlers, requests that read and write in two steps, lost calls, restarts of the agent | one node per host, the agent never harms a VM it has, what is desired runs again and again |
| environment variables, vault | values that may be encrypted, a master key file | set, delete, list; key created on first use | store, app deployments | two first uses of the vault; where the merge is done | a secret can be read as long as it is there; an app gets the value it should |
| command line | a store of its own on the same file, unless a server answers | project, app, env, compose and deploy commands as lists of calls | `state.json`, libvirt, the server's API | two processes rewrite one file from memories of different age; commands are interrupted | what a command said is true until something newer says otherwise |
| compose, manifest and size parsers | none | pure functions | read by `deploy` and `compose up` | precedence over five sources, overflow of sizes | each variable has the value of its strongest source |
| domain XML, cloud-init, guest provisioning, capabilities; registry; proxy lookup; mock runtime | none that steps could disagree about | text, I/O, a lookup | | | not modelled |

## Modules

| Module | Models | Used by |
|---|---|---|
| `AppSupervision` | the abstract promise of a process supervisor | `ProcessManager` implements it, `Executor` contains it |
| `ProcessManager` | `process.go` with the listener, the shutdown, the monitors and the kernel | `MCProcessManager`, `ProcessManager_proofs` |
| `ProcessManager_proofs`, `Executor_proofs`, `ProjectLifecycle_proofs`, `AppRoutes_proofs`, `Transfers_proofs`, `Nodes_proofs`, `Commands_proofs`, `Definitions_proofs` | the theorems about the module they are named for | |
| `Executor` | handlers, executor and Docker manager, one daemon call per step | `MCExecutor`, `Executor_proofs` |
| `ProjectLifecycle` | project handlers, store and file, runtime, VM manager, libvirt, server start | `MCProjectLifecycle`, `ProjectLifecycle_proofs` |
| `AppRoutes` | app handlers, domain changes, route table, rebuilding | `MCAppRoutes`, `AppRoutes_proofs` |
| `Installation` | the abstract promise about an installed file | `Transfers` implements it |
| `Transfers` | clients, serial port and guest side of file transfers | `MCTransfers`, `Transfers_proofs` |
| `Nodes` | node handlers, agents and reconcilers | `MCNodes`, `Nodes_proofs` |
| `Commands` | the command line in processes of its own and through the server, resizing, vault and environment | `MCCommands`, `Commands_proofs` |
| `Definitions` | compose file, env files, manifest and sizes, as functions | `MCCommands`, `Definitions_proofs` |

The `MC...` modules only add symmetry sets, views and bounds for TLC. Where one
run looks at a component under several bounds, the module has a variable `scope`
that is chosen at the start from a constant set and never changes: how many
handlers or processes, which operations, which faults. A property that needs
the bounds of one scope names them (`OneByOne`, `Calm`, `Apart`). In every module, a definition named for what it gets wrong (`AnyContent`,
`NeverTaken`, ...) is a faulty variant of its successor: replacing the
successor by it must violate a property.

### ProcessManager

*State and code.* `processes` is `m.processes`; `entry` the `managedProcess`
objects (a heap, since monitors keep objects that the table has dropped); `os`
the kernel's processes; `mon` the `monitorProcess` goroutines by the process
they were started with; `mu` the mutex, for those who hold it while they wait;
`req` the command of the listener; `shut` the progress of `Init.Shutdown`.

*Actions.* `StopBegin`, `StopTimeout` (SIGKILL after ten seconds), `StopEnd`,
`RemoveEnd`, `DeployRefused` (before the mutex is taken), `DeployStart`,
`DeployFail` are `Deploy`, `Stop`, `Remove` and `stopProcess`; `StatusBegin`, `StatusOf`, `StatusEnd` are `GetStatus`, which
writes states under a read lock; `WaitReturns`, `Monitor...`, `Wake...` are the
monitor's wait, its first critical section and the one after its sleep;
`Close...` and `ProgramExits` are the shutdown.

*Abstractions.* A monitor's critical section never waits and is one step.
`cmd.Wait` and closing `done` are one step, as nothing can be observed between
them. Identifiers of processes are not reused while any object or monitor
remembers them. Log files are left out except that opening one may fail. A
deployment is received only while an object is free (the bound on the heap).
The listener's read error, which also ends `Run`, leads to the same `Cancel`.

### Executor

The listener's command `req` walks through the calls to the daemon, any of
which may be refused; `container` is the container named after the app,
`images` what has been pulled. The process manager is `AppSupervision`, which
`ProcessManager` is shown to implement, so everything proved about the
interface holds here. Between calls containers exit, the daemon's restart
policy brings them back, processes end and return. `AgentRestarts` is a
shutdown and a new start in one step. Status and logs are left out.

### ProjectLifecycle

A handler is a sequence of steps named for the call each one makes: `GetProject`,
`GetInstance`, `CreateInstance`, `SetInstance`, ... Store and runtime lock their
own methods only, so steps of handlers interleave. `proj` and `inst` are the
keys of the store's maps, `pstate` and `istate` the objects behind its pointers
(a handler writes an object before it calls the store); `SetDomains` is the
update by which a creation records its domains. `file` is `state.json`, `rt` the runtime's map, `dom` and `img` libvirt's domains and the
disk images, both found by the project's *name*. A creation may fail before or
after it made the VM's directory (`RemoveDir` takes it away, or fails to), a
deletion with the domain stopped and still defined (`DestroyFails`). `created` and `deleted` record
what clients were told, `scope` the faults of the behaviour.

*Abstractions.* A project has one instance, named like the project (identifiers
are fresh UUIDs). `LoadInstance` is merged with the call that follows. The
saves of `serverReconcileState` count as one. Domain states other than running,
stopping, off and none are left out, as is the data race of marshalling an
object while a handler writes it; update (resize) is in `Commands`. A handler's waits end with
its request's context, whose deadline is the fault `guest`.

### AppRoutes

`apps` maps to objects, since `GetApp` hands out pointers and `handleAppUpdate`
writes through them before `SetApp`. `routes` is the route table; a handler
writes or deletes one route per step (`SetRoute`, `DeleteRoute`) from the set it
computed when its loop began (`Register`, `Remove`). `VMReady` gives a VM an
address when it boots. `ServerRestarts` is `RebuildRoutes`.

*Abstractions.* Saves succeed (`ProjectLifecycle` has failing ones).
`GetProject` is merged with the arrival of the request; the writes of an update
and its `SetApp` are one step. Of apps that share a route any may win a rebuild:
the order of Go's map iteration. Whether an app was deployed since its last
change is kept in the object (`phase`), for the properties only.

### Transfers

Clients connect (`Connect`), write a line and wait for a line (`SendCommand`,
`Answered`), or give up (`GivesUp`), possibly having written half a line. The
port serves one connection at a time and forwards what a client wrote even if
it left (`Forward`, `NextConnection`); answers that nobody reads are lost or
kept for the next client (`LoseAnswer`, or not). The guest takes one command at
a time: `Garbled`, `Begin`, `Data`, `FinishRefused`, `Finish`, and for the
agent's own binary `FinishUpdate`, `RemoveBackup`, `KeepCurrent`,
`InstallUpdate`, between which it may die (`Crash`, `Start`).

*Promise.* `Installation` knows a file that is installed and one that is on
offer; a file is replaced in one step, by the whole of the offer, and never
goes. `Transfers` implements it (`ReplacedAtOnce`): what is installed is the
file in its place or, between the renames of `FinishUpdate`, its backup
(`Current`), and the offer is what the transfer in progress announced
(`OnOffer`).

*Abstractions.* A file is a sequence of pieces and a checksum is known by the
file it was computed from; a piece may be replaced after the checksum was
computed. The three kinds of transfer keep separate state in the guest, so one
behaviour has transfers of one kind; binaries of apps and images take the same
steps. A file longer than any client's is just too long. A client may have one
command outstanding. At most one system call that a finish depends on fails:
`init.go:609` drops the error of the rename that puts the old binary back, and
with two failures in a row the binary is lost.

### Nodes

`nodes`, `host`, `status` are the store's nodes, `req` the handlers' requests
about them; the handler of a registration reads the list in `RegisterList` and
writes in `RegisterSet`, a drain in `DrainGet` and `DrainSet`, a heartbeat in
`BeatGet` and `BeatSet`. `agent` is what each agent is about to do, `rt` the
keys of its runtime's instances, `vm` the VMs of its host: `Pull` reads the
desired state and the instances, `CreateInstance` and `DeployApp` are the loops
of `Reconcile`. A creation that started its VM (`StartVM`) waits for it in the
middle of the tick; `waitReady` ends when the VM answers (`Ready`) or the agent
is told to stop (`AgentStops`, `NotReady`), and in no other case: the agent gives
it no deadline (`commands/agent.go:99`, `runtime.go:268`). A `Mishap` (a lost
call, a failing creation or deployment, an agent that is told to stop or dies, a
VM that powers off, an app that ends) happens at most `Mishaps` times. `raced`
records nodes that changed while another request had read the registry.

*Abstractions.* Endpoints, labels, times, saves that fail are left out; a project
has one app. A registration draws the next identifier, as any fresh one would do.
`goship agent` is started with the name of its host as `--node-id`, which
`GetNode` accepts for a node's identifier.

### Commands

A command is a list of calls (`Create`, `Stop`, `Deploy`, ...), each call a step
on a memory: the process's own, loaded from the file when it began (`Begin`,
after `detectServer` found no server or with `--direct`), or the server's. A
save (`Saves`) writes the whole memory to `file`; objects are changed in place
before that (`Alters`). `vm` is the domain of the project's name with its CPUs,
disk and the environment each app runs with; `key` is the file `master.key`.
`told` is what commands told their users and nothing changed since, `fresh` the
memories that are not behind the file: both are for `ConfirmedKept` only.

*Abstractions.* One project (recreated under new identifiers), one variable,
whose value stands for the definition of an app; saves succeed; a request of
the server's API is the same list of calls where the code's is, and a list of
its own where not (`StopAPI`, `ComposeUpAPI`, ...). A failing call ends a command
unless the code ignores its error (`Tolerant`): a creation by `goship deploy`
ignores those of its last two saves (`deploy.go:105`). Files a command reads are
the business of `Definitions`. Domains, `--dry-run`, output left out.

### Definitions

What `goship deploy` makes of its files: `LoadEnvFile`, `loadSecretsFile`,
`substituteVars`, `resolveServiceEnv`, `parsePorts`, `ParseSizeMB` (with the
overflow of its multiplication, for integers up to `MaxInt`), `parseResources`, the order of
`ParseBytes`'s checks, `Resolve` of a manifest with its overlay, and
`runDeploy` that puts them together with the project. `ResolvedAsSpecified` compares
it with a reference: `Strongest(Sources(...))`, the value of the first layer, from
the strongest to the weakest, that gives a name one. It is evaluated in the
first state of `commands`, where `MaxInt` is that of 16 bits.

## Runs

Every fault named below happens at any step where the code can meet it.

| Run | Instance | What it shows |
|---|---|---|
| `supervisor_safety` | 2 apps, 2 objects, 3 processes, all policies, 1 restart | `LiveIsTracked`, `OneProcessPerApp`, `AnsweredStopIsEffective`, `NothingLeftBehind`, `DoneClosedOnce`, `DownMeansDead`, `RestartBudget`; `KeepsSupervision` (it implements `AppSupervision`) |
| `supervisor_liveness` | 1 app with policy always, 2 objects, 2 processes | commands are answered, a lost process is handled, a shutdown completes |
| `executor_safety` | 2 apps, 2 processes, 2 images, Docker there or not | `NameFreeAtCreate`, `DeployedIsRequested`, `CommandsReachTheirMode` |
| `executor_stop` | as above | violation: see below |
| `project_lifecycle` | 2 names; three creations, one request at a time, restarts while idle; or two on one name, one request at a time, with failing and torn saves, failing VMs, slow guests, crashes (and on two names without the slow guests); or two on one name, two requests at a time, crashes | `OneByOneStaysLoadable`, `DeletedStaysDeleted`, `ConfirmedIsDurable`, `DeletedMeansDestroyed`, `RunningKeepsDisk`, `RecordsMatchVMs` |
| `project_orphan` | two requests at a time on one name, no faults | violation: see below |
| `routes` | one request at a time on 2 projects, 2 hostnames that may be shared, 1 domain, 2 addresses; or 2 requests at a time on 1 app with 2 hostnames and 1 domain, or 2 domains and two kinds of requests | `RoutesHaveOwners`, `DeployedIsRouted` |
| `routes_stopped` | 1 project, 1 app, one request at a time (deploy, stop, change of domains), no faults | violation: see below |
| `transfers_safety` | 2 clients, files of 2 pieces, 2 connections, 1 line each way in the device, timeouts, disk errors, crashes, rewritten files | `BinarySurvives`, `ReportedIsInstalled`; `ReplacedAtOnce` (it implements `Installation`) |
| `nodes` | 1 host, 1 project, 2 clients, 2 registrations, 1 mishap | `RegistrySound`, `KnownKeepsDisk`; liveness: `WantedRuns` |
| `commands` | three commands in a row about projects; three about environment and apps, 2 apps, 2 values, or two with a manifest and past the server; two at a time of both kinds, interrupted, with a server that stops and starts; a manifest beside `env set`; two at a time and a third; every way nine layers of files may give a variable | `ConfirmedKept`, `SecretsReadable`, `DeliversEnv`, `ResizedOff`, `ResolvedAtStart` |
| `env_inherited` | 1 app, three commands in a row | violation: see below |

Every run of a module with a type invariant checks `TypeOK` as well.

*Why these bounds.* Two apps are enough for any confusion between names, and
two objects with three processes for an old object with a monitor asleep, its
successor and one more: an app needs at most one tracked and one dropped
object at a time. A budget of one restart has both sides of the comparison.
Two handlers are what every race in the handlers needs: each race found is
between one that read and one that wrote. Three identifiers over two names let
a name be reused after a deletion. Two clients and a line under way in each
direction give answers that are off by more than one, since the connections
hold commands of their own. One host with a mishap has an agent that is
restarted between a creation and the next tick; a second host would only share
the registry, which two clients already do. Three commands are a first that sets
something up, one that goes wrong and one that shows it. The theorems remove
the bounds of the modules they are about.

*Views and symmetry.* Names, identifiers, objects and goroutines are only
compared for equality, so permuting them is sound. The views hide what an
unreachable object still contains, what became of an app in its VM where no
property of the scope asks, a temporary file without a transfer (it is
truncated before use), `installed` once a client left early, and a memory that
no process reads (`Alive`); no guard and no property looks there. The liveness of `nodes`
uses neither, that of the supervisor only the view (two states it unites have
the same continuations); `ResizedOff`, the action property of `commands`, looks at
what the view keeps.

*Deadlock* is checked except where the system really may stop:
`ProjectLifecycle.cfg` (half a file, or one with an orphaned instance, cannot be
loaded, so the server cannot start), `TransfersSafety.cfg` (an agent whose
binary is not in its place cannot be started, and its channel fills up), and
`Commands.cfg` and `EnvInherited.cfg` (the commands of a scope come to an end).

*What holds only under the assumption of a run.* `DeletedMeansDestroyed`,
`RunningKeepsDisk` and `RecordsMatchVMs` hold for one request at a time; a
deletion that overlaps a creation finds no instance and leaves the VM behind,
and a creation that fails removes the directory of a VM of the same name that
another request made. `RoutesHaveOwners` holds for one request at a time: a
deployment that overlaps a stop or a deletion registers its routes afterwards.
`DeployedIsRouted` is about deployments, updates and domain changes of one
project whose VM keeps its address, with hostnames that apps do not share
(`Apart`): two creations of one app are both answered 201, a stop that overlaps
a deployment removes its routes, and apps with one hostname remove each other's
route. It promises the port only where ports do not change: a deployment that
read the port (`app_handlers.go:470`) before an update changed it may write the
route after a second deployment wrote the one with the new port. `ReportedIsInstalled` speaks of
behaviours in which no client left before its answer: otherwise a later client
may take the late answer of an earlier one for its own. `RegistrySound` and
`SecretsReadable` except what overlapping requests did; `ConfirmedKept` says of
what a command confirmed that it stays until a process saves the file from a
memory that is older than another's last save: the code looks for a server to
make that rare, and locks nothing. `DeliversEnv` is about deployments by the
command line itself; `env_inherited` shows the others. `ResizedOff` excepts
overlapping commands.

## Fairness

The process manager and the nodes have liveness properties. `Fairness` of
`ProcessManager` assumes that a goroutine that can run does run (Go's
scheduler), that timers fire (the ten seconds of `stopProcess`, the backoff),
that the kernel ends a process that got SIGKILL, and that the mutex is not
handed past a waiter for ever (`sync.Mutex`, on which `RWMutex` builds for
writers, hands over to a waiter that starved for a millisecond): hence strong
fairness for steps that take it and weak fairness for the others. Nothing is assumed about processes (they may
ignore SIGTERM and never end), clients, or signals to the agent.

`Spec` of `Nodes` assumes weak fairness of each agent's tick: its ticker fires
again and again, and each call it makes in a tick returns. Its HTTP client gives
up after ten seconds (`agent.go:34`), a command to a VM after thirty
(`comm.go:47`), and libvirt and the tools that make a disk are taken to answer.
The one call without a bound is no part of it: `Ready`, the end of the wait for a
VM, is an action of its own without fairness, for a VM may never become ready,
and then the agent sends no beat and deploys nothing any more, for any project,
until it is stopped. `WantedRuns` therefore has two premises besides the app
being desired: no wait goes on for ever (`[]<>(agent[h].pc # "await")`), and from
some time on the agent is not told to stop and has not lost the VM, which no tick
repairs (`<>[]Wanted(h, p)`). TLC finds the property false without either. That
it holds although calls are lost and creations and deployments fail rests on
mishaps being bounded, as is every fault in a finite behaviour of the model.

## Proofs

Each `..._proofs` module proves its theorems for any values of the constants,
from the assumptions that the module itself names and TLC evaluates in every
run. None of the properties is inductive by itself. Every module with state
therefore ends with `IInv`, an inductive invariant in named parts, one per idea; it was checked
by TLC on the module's run first, and then proved: `Init => IInv`,
`IInv /\ [Next]_vars => IInv'` with a lemma or a step per action, and
`IInv => P` for each property `P`. The theorem `Invariant` of each module is
`Spec => []IInv`, and `TypeCorrect` is `Spec => []TypeOK`.

| Module | Theorem | States |
|---|---|---|
| `ProcessManager_proofs` | `LiveIsAlwaysTracked` | `LiveIsTracked` |
| | `NeverTwice` | `OneProcessPerApp` |
| | `StopIsEffective` | `AnsweredStopIsEffective` |
| | `CloseIsComplete` | `NothingLeftBehind` |
| | `NoDoubleClose` | `DoneClosedOnce` |
| | `StatusIsHonest` | `DownMeansDead` |
| | `BudgetIsKept` | `RestartBudget` |
| | `ImplementsSupervision` | `KeepsSupervision` (the refinement of `AppSupervision`) |
| `Executor_proofs` | `NeverBlocked` | `NameFreeAtCreate` |
| | `DeploysWhatWasAsked` | `DeployedIsRequested` |
| | `StopsAndRemovalsReach` | `CommandsReachTheirMode` |
| `ProjectLifecycle_proofs` | `DeletedStays` | `DeletedStaysDeleted` |
| | `ConfirmedStays` | `ConfirmedIsDurable` |
| | `StaysLoadable` | `OneByOneStaysLoadable` |
| | `DeletedVMsAreGone` | `DeletedMeansDestroyed` |
| | `VMsKeepTheirDisks` | `RunningKeepsDisk` |
| | `RecordsMatch` | `RecordsMatchVMs` |
| `AppRoutes_proofs` | `RoutesLeadToOwners` | `RoutesHaveOwners` |
| | `DeployedStaysRouted` | `DeployedIsRouted` |
| `Transfers_proofs` | `ImplementsInstallation` | `ReplacedAtOnce` (the refinement of `Installation`) |
| | `WholeFiles` | `InstalledIsWhole`: only whole, announced files are installed |
| | `NeverWithoutBinary` | `BinarySurvives` |
| | `DoneMeansInstalled` | `ReportedIsInstalled` |
| `Nodes_proofs` | `OnlyRacesDisturb` | `RegistrySound` |
| | `KnownVMsKeepTheirDisks` | `KnownKeepsDisk` |
| | `OnlyBeatsUndoDrains` | `DrainHolds` (an action property): a drain is undone by a heartbeat of the node's own host and by nothing else |
| `Commands_proofs` | `KeptConfirmed` | `ConfirmedKept` |
| | `ReadableSecrets` | `SecretsReadable` |
| | `EnvDelivered` | `DeliversEnv` |
| | `Resizes` | `ResizedOff` (an action property) |
| `Definitions_proofs` | `StrongestSourceWins` | each app's environment is `Strongest(Sources(...))` |
| | `CPUsCapped` | no app gets more CPUs than its project has |
| | `SizesWrap` | an accepted size is the one written exactly when that many megabytes fit |

*ProcessManager* (`None` is no app, object or process; the policies are the
three; the budget is a natural number). That no app runs twice rests on who
owns what. `MutexHeld`: the mutex is held exactly where the code waits with it.
`MonitorsOwnObjects`: an object has at most one monitor; while that waits, the
channel is open and the object's command is the monitor's process.
`ProcessesAreWaitedFor`: every process has a waiting monitor, and a live one
belongs to a tracked object. `TrackedObjects`: an open channel has a monitor
that will close it, and only a closed one allows a state other than running.
`ListenerProgress` and `ShutdownProgress`: what a command or the shutdown has
established when it goes on, above all that the objects it is done with are
stopping and closed, which is what keeps a sleeping monitor from restarting
them. The refinement maps every action to one of `AppSupervision` or to a
stutter, using `IInv` before the step.

*Executor* (no assumptions of its own). A command's promise at its answer is
what its earlier calls established and nothing undid since. `ModeOfStep` says
which command can be at which call, `ContainerOfStep` that the name stays free
between listing and creation and that what is started is what was created,
`OrderOfStep` what Docker's answer means while the process manager is asked,
and that neither the daemon's restart policy nor a monitor brings back what an
answered stop ended.

*ProjectLifecycle* (`None` is no project and no name; handlers are finitely many;
scopes have the shape of scopes). The invariant has layers, proved one upon the other.
`Base` holds whatever happens: a creation under way has an identifier nobody
else has (`OwnProject`), what was deleted is neither in memory nor in the file
(`NotBack`), and while saves work the file has the projects of the memory,
among them those being created (`Saved`). It is enough for `DeletedStays` and
`ConfirmedStays`, under every interleaving. `Alone` and `Bound` speak of one
request at a time: instances are bound in memory, too, and a project that comes
or goes has none yet, or none any more; `StaysLoadable` follows, for every
fault at every step. `Undisturbed` speaks of one request at a time without
failures: every domain is that of a project and has its disk (`Owned`), projects
nobody is at are `Settled`, and the one being served is as far as `PhaseOf` its
request says. A restart in between finds a file that says what memory said.

*AppRoutes* (app names are hostnames; `None` is no hostname, address, port or
object; handlers are finitely many; scopes have the shape of scopes). `Base`
holds however requests overlap (`BaseInvariant`): each request is at a step of
its kind (`Requests`), and what the tables, the handlers and their lists name
is an app that was made (`Reached`), so that no step reads a field of what is
none. The second part speaks of one request at a time, and rests on there being
only one (`Alone`), which the count of busy handlers gives. `NoStray` is the
heart: a route that nobody asks for is `Doomed`, that is, the request in hand
still has to remove it, under the hostname that was when it changes a hostname,
under the domains that were and for the apps it has not come to when it changes
domains. It needs that what a handler holds is what the table holds (`Current`,
`Distinct`), that an app or a project goes only when its routes have gone
(`Departing`), and that a route that is set is one its app asks for
(`Registering`). An app that changes in its VM only, or whose VM boots with
another address, keeps hostname and flag (`Rephased`); a server that restarts
writes routes of apps that ask for them only. The third part speaks of any
number of requests that keep routes up (`Apart`). `RoutedOrOwed`: a deployed
app has its route, or some request `Owes` it one: it is setting routes and has
not come to this one, or it changed the app's hostname or the project's domains
and will set them all. A debt is of the app and the domains as they are, not as
they were when the request came, and each handler reads them only after its
last removal: hence whoever removes a route sets it again, and whoever reads
first and writes late is followed by one who owes. `Working` says that handlers
hold the apps of the table and touch routes of the app they are at, and `Named`
that those are no other app's.

*Transfers* (`Chunks`, `Waiting` and `Lines` are positive; kinds and faults are
the code's; `None` is no client and not the first binary). That only whole files are installed is
`SumMatches` at the renames and that nothing happens to the temporary file
between the comparison and the rename (`GuestAtWork`). `BinaryOfStep` says where
the binary is between the renames. `DoneMeansInstalled` needs the whole of the
protocol: as long as no client has left, at most one line is under way
(`OneLine`), it is the command the first connection waits for or the answer to
it, the connections behind it have written a begin at most (`Patient`), and
the transfer in progress is that client's own or was lost (`OwnTransfer`).
`ImplementsInstallation` takes each step in turn: a begin is an offer, a refusal
or a crash withdraws one, the rename that installs takes it (`TakesOffer`: by
`GuestAtWork` the file it installs is the whole of the one announced), and the
steps of the swap leave `Current` alone since the backup is the binary that was
(`SwapPromise`, from `BinaryOfStep`); clients and the port change neither.

*Nodes* (`None` is no node, host or project; the number of mishaps is natural).
`StillThere` and `NewNodes` say what a handler may rely on between reading and
writing: the node it read is registered or was `raced`, and the one it is about
to add is its own, with every node of that name added since it looked. For
`DrainHolds`: a registration never writes a node that is in the registry
(`NewNodes`), and the node of a heartbeat bears the name of the agent's host
(`OwnBeats`, an invariant upon `IInv`), for a node that has a name keeps it. No
run names `DrainHolds` and `InstalledIsWhole`; TLC found both true on the
instances of `nodes` and `transfers_safety` before they were proved.

*Commands* (`None` is no app, value or key; `Server` is no client, "torn" no
key and "none" no value; scopes start in one of the two worlds). A command is a
list of calls that grows while it runs, so what is proved of it has to say which
lists there can be: `Programmed`, what a command has left is the rest of a
program (`IsRest`: which call may follow which, and which may not be the last).
It is shown of every program once and kept by every call, since each drops the
first call or puts a program's calls before the others. The calls are then of
three kinds, and one lemma each suffices for what they do to the memories: those
that only look, those that save the file (`Saves`), those that alter an object
in place (`Alters`). `Honest` is what `ConfirmedKept` rests on: what was
confirmed is in the file and in every memory that is not behind it, but for what
its owner has altered and is still going to save or to fail with (`Pending`,
hence `Altering` calls are followed by `Saving` ones only). `Sealed` says that
every value in the file, in a memory or in a command's hands is in the clear or
under the key that `master.key` holds, and that one process at most is writing
it unless first uses `raced`. `Merging`: from decryption to deployment the value
in a command's hands is that of its own memory's project, which `DeliversEnv`
needs as the file may have changed since. `Machine`: without a domain there is
no disk, and a command that resizes alone has seen that the VM is off and
nothing has started it since; with it every step is a `Grows` step, which is
`ResizedOff`.

*Definitions* (the largest integer is a natural number). There is no state and
no induction: the theorems speak of one deployment of any files, any manifest
and any project, and take what `LoadEnvFile`, `loadSecretsFile` and
`substituteVars` return as it is. Their hypotheses are that the deployment
succeeds, that the records have the fields that are read, that numbers parsed as
integers are integers, and, for `CPUsCapped`, that the project has a CPU.
`StrongestSourceWins` is a chain of five merges, each with its lemma
(`LoadedManifest`, `ResolvedManifest`, `ParsedService`, `ProjectWithManifest`,
`DeployedApp`), and the fact that merges one upon the other, in whatever order
they are made, take a name from the first of the eight maps that has it
(`Layered`). `SizesWrap` says when the multiplication of gigabytes is harmless
(`size/parse.go:34-42` does not look): beyond that the size is another number.

*Only model-checked.* Liveness: the answers and restarts of
`supervisor_liveness` and `WantedRuns` rest on fairness, whose meaning involves
ENABLED, which the prover does not handle; that a wait ends is a premise of
`WantedRuns`, not something shown. `ResolvedAtStart`: it holds of the
layers that its run lists, and what the functions over the lines of a file
(`LoadEnvFile`, `substituteVars`) compute for every input needs an induction over
data that the installed provers cannot instantiate; TLC evaluates them on every
combination of layers. What is built upon them is proved
(`StrongestSourceWins`).

## Disagreements met

Shown by a run:

- `executor_stop`: with Docker in the VM, stopping a process-mode app is
  answered OK and stops nothing: Docker's Stop reports no error for a container
  that does not exist (`executor.go:62`, `docker.go:215`; `docs/concepts.md:77`).
- `project_orphan`: `DeleteProject` removes the key *project id* from a map
  keyed by *instance id* (`local.go:257`); a deletion that overlaps the end of
  the creation leaves a file that `load` refuses.
- `routes_stopped`: the routes of a stopped app come back with the next change
  of its project's domains, which registers every available app
  (`project_handlers.go:572`; `docs/concepts.md:111`).
- `env_inherited`: "Project-level env vars inherited by all apps"
  (`README.md:91`, `README.md:143`), but a deployment through the server sends
  the app's definition as it is (`app_handlers.go:152`); only the command line
  without a server merges (`env.go:303`), and compose commands save the merged
  value in the definition, where later changes never reach it.

Read while modelling, without a run of their own:

- As a change of domains does, an update of a stopped app's hostname and the
  start of the server register its routes again (`app_handlers.go:495`,
  `server.go:137`).
- The agent "sends heartbeats and reconciles desired state at the configured
  interval" (`agent.go:40`), but a tick that creates a VM waits for it without a
  deadline (`commands/agent.go:99`, `runtime.go:268`): a VM that never becomes
  ready ends beats and deployments until the agent is stopped.
- Without a server, `compose up` and `deploy` save the project's variables,
  secrets decrypted, with each app's definition (`compose.go:153`,
  `deploy.go:269`): what `env set --secret` encrypts "at rest" (`env.go:54`) is
  then in `state.json` in plain text. `SecretsReadable` is about the project's
  own values.
- "A draining node will not receive new workloads" (`docs/cli-reference.md:737`,
  `docs/concepts.md:162`): no code reads the status, and the next heartbeat sets
  it back to online (`node_handlers.go:124`).
- The agent deploys every desired app on every tick, where the comment speaks
  of missing apps (`reconciler.go:17,58`); it creates what its own memory lacks,
  so that after a restart it fails to create VMs that exist and removes their
  directories (`manager.go:183`).
- An update of a project changes its CPUs in the server's memory before it
  refuses the disk (`project_handlers.go:382`).
- "Always restart" gives up after five restarts, and the backoff is capped at
  30 seconds where the documentation says 60 (`process.go:26,345`, `docs/concepts.md:87`).
- Errors inside the stream of an image pull are discarded (`docker.go:109`).
- A save that fails after a creation is logged and the creation confirmed
  (`project_handlers.go:90`).
- Instances recorded as stopped are skipped by the reconciliation at start
  (`server.go:190`): a VM whose start timed out stays "stopped".
- "Atomic swap" (`init.go:589`): between the two renames there is no binary
  under the name that OpenRC starts; `BinarySurvives` says that the backup is
  there. A failed install leaves `goship-init.new` behind.
- `push-image` and `update-init` of the API announce an empty checksum, which
  the guest refuses; the latter also uploads into an app's directory instead of
  replacing the agent (`upload_handlers.go:61,117`).

## Not modelled, and why

Formatting, validation of names (it rejects a request before any state
changes), logs; libvirt, Docker, QEMU and the guest beyond what the callers
see; registry and proxy lookup (no state that steps could disagree about);
domain XML, cloud-init, guest provisioning and capabilities (text and external
tools); the commands `image` and `vm` (the same), domain and node commands
without a server (a load, a change and a save of the file, as the others in
`Commands`); YAML itself, and of a compose file its commands, volumes, labels,
build arguments and GPU requests; a request whose answer is lost between client
and server; the mock runtime.

## Plan

Done so far, in order of importance: supervision in the guest (with proofs),
the executor above it, the life of projects, apps and routes, transfers, nodes
and agents, the command line with the shared file and the vault, the functions
behind `deploy`.

Proved: supervision and that it implements `AppSupervision`, the executor, the
life of projects, apps and routes, transfers and that they implement
`Installation`, nodes, the command line with the vault, and of the functions
behind `deploy` what needs no induction.

Open:

1. Liveness of a deployment (a client that waits is answered or gives up), which
   would need fairness of the port and of the guest in `Transfers`.
2. The functions over the lines of a file, by an induction that another prover
   would have to check.
3. An abstract promise of the shared file (`Commands`) in the manner of
   `Installation`.
