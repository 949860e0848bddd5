# Verification of the Graylog collector sidecar

TLA+ models of the sidecar's own logic, TLC configurations that check them on
small instances, and TLAPS proofs. Paths below are relative to the repository;
`PROJECT.json` maps every definition to the lines it stands for.

## 1. The system

The sidecar runs on a host next to log collectors (filebeat, winlogbeat, NXLog)
and does what a Graylog server tells it to: which collectors to run, with which
configuration. It is one process with these parts.

| Part | Code | State | Operations | Status |
|---|---|---|---|---|
| Exec runner | `daemon/exec_runner.go`, `daemon/exec_helper.go`, `daemon/exec_helper_windows.go` | flags `isRunning`, `isSupervised`; `restartCount`, `startTime`, `cmd`, `terminate`, the backend's status | `Restart`, `Shutdown`, `SetBackend`; goroutines: signal processor, supervisor, and a monitor and a waiter per launch | modelled |
| Control loop | `services/periodicals.go` | last registration, last list and its Etag, `configChecksums` | register, fetch the list, update stores and runners, fetch configurations | modelled |
| Server API client | `api/graylog.go`, `api/rest/rest.go` | none | requests; which answers are errors, empty, or unchanged | partly |
| Assignment store | `assignments/assignment.go` | key -> configuration id | `Update`, which says whether anything changed | modelled |
| Backend store | `backends/*.go` | key -> settings, template, status | `Update`, `SetBackend`, `EqualSettings`, `RenderOnChange`, `ValidateConfigurationFile` | partly |
| Runner registry | `daemon/daemon.go`, `daemon/action_handler.go` | key -> runner | `SyncWithAssignments`, `AddRunner`, `DeleteRunner`, remote start, restart, stop | modelled |
| Distributor | `daemon/distributor.go` | none | start and stop of the service, and the wait for the runners | modelled |
| Windows service runner | `daemon/svc_runner_windows.go`, `daemon/svc_helper_windows.go` | flags as above; state of the service | the same operations on a Windows service; `CleanOldServices` | modelled |
| Configuration, node id | `context/context.go`, `cfgfile/`, `helpers/helper.go`, `api/graylog.go` | the node-id file; `UserConfig`, the mark of an override | load and check at start; override, reset and fall back at run time | partly |
| Argument splitting | `helpers/argv_helper_windows.go` | none | `CommandLineToArgv` | modelled |
| Metrics, inventory, logging, service control | `common/`, `system/`, `logger/`, `services/control_handler_*.go` | none to speak of | read the operating system, format, write | not modelled: I/O |

**How they interact.** The control loop calls the API client; `UpdateRegistration`
may call straight into the runners (remote actions) before it returns. The loop
then updates the two stores, has the registry create, update and delete runners,
and restarts a runner when its configuration file changed. `Restart()` and
`Shutdown()` send on a runner's unbuffered `signals` channel, so a caller blocks
until that runner's signal processor takes the signal. The supervisor of the same
runner sends on that channel too. Signal processor, monitor and waiter meet on
`terminate`, a channel that every launch replaces. The service manager's stop goes
through the distributor to the same runners, concurrently with the loop, and neither
locks the map of runners. Registration answers may change two values of the running
configuration, and their withdrawal reads the configuration file again.

**What is hard.** (1) Four goroutines per runner share fields without a lock:
flags are checked in one and set in another, `r.terminate` and `r.cmd` are read
when a goroutine runs, not when it was created. (2) Processes exit, hang and crash
at any moment. (3) The loop keeps an Etag as a checksum for what it has fetched and
from then on depends on a server that answers 304, while requests fail, bodies get
lost, settings change and files cannot be written. (4) The retry counter is
written by two goroutines and reset by a clock. (5) A runner that is deleted, or replaced
because its service type changed, lives on with its goroutines until it has handled
what it was sent. (6) The node id must survive crashes between the creation and
the writing of its file. All places are listed, with their
lines, under `hazards` in `PROJECT.json`.

**What makes it correct.** At most one process per collector; flags and reported
status that tell the truth; a crash loop that ends after three restarts; a
shutdown that stays shut down; no caller blocked for ever (exec runner). Runners
exactly for what is assigned and listed; a checksum only for what is on disk; no
failure that takes away a collector still assigned; in the end, everywhere the
configuration the server has, or an error that says why not (control loop, stores and registry). No collector that
nothing refers to, and none left when the service's stop returns, which it always does
(registry and distributor). One id for the life of a node, and
overrides that end when they are withdrawn (configuration). Arguments that arrive as they
were quoted (argument splitting). No caller blocked
by a service that hangs, a supervised service brought back, and no service left
under a name the backend no longer has (Windows service runner).

## 2. Modules

| Module | Stands for |
|---|---|
| `Runner` | what any runner promises its callers: abstract, without goroutines or channels |
| `ExecRunner` | the exec runner with all its goroutines, on Unix and Windows; implements `Runner` |
| `Daemon` | the registry of `Runner`s, the control loop and the distributor that use it at the same time |
| `Mirror` | what the control loop promises: abstract, without Etags, kept answers or stores |
| `Periodicals` | the control loop, both stores, registry and remote actions, against a server; implements `Mirror` |
| `SvcRunner` | the Windows service runner, the clean-up of stale services, and the service manager |
| `Configuration` | loading the configuration, the node-id file, the server's overrides |
| `Argv` | the splitting of parameters into arguments on Windows |
| `MCExecRunner`, `MCDaemon`, `MCPeriodicals`, `MCSvcRunner`, `MCConfiguration`, `MCArgv` | instances for TLC, with their symmetries |
| `ExecRunnerProofs`, `ExecRunnerCalmProofs`, `DaemonProofs`, `PeriodicalsProofs`, `SvcRunnerProofs`, `ConfigurationProofs`, `ArgvProofs` | theorems |
| `FlattenProofs` | lemmas for `ArgvProofs`: sequences of sequences written one after the other |

`Daemon` EXTENDS `Runner`; `ExecRunner` is shown to implement it
(`Abstract == INSTANCE Runner WITH ...`), as `Periodicals` is `Mirror`. `Daemon` and `Periodicals` look at the same
loop from two sides: the first has runners that take their time, crash and come back, and
lets the server want anything in every round; the second has the exchange with
the server in full, and runners that do at once what they are told.

### Runner

| Model | Code |
|---|---|
| `process[r]` | the collector: down, up, or doomed, which is killed but still there |
| `calling[r][c]`, `Call`, `Take` | a caller blocked in `Restart()` or `Shutdown()`; the signal processor takes the signal and the caller goes on |
| `busy[r]` | the signal being handled |
| `supervised[r]`, `asking[r]`, `Ask`, `GiveUp` | the supervisor, when it is blocked sending a restart, and when it gives up |
| `Answers(r)` | what `Running()` may say |
| `BeginStop`, `Kill`, `EndStop`, `Launch`, `StartFails` | the stages of a stop and of a start |

### ExecRunner

A *slot* is one launch: the `exec.Cmd` and the `terminate` channel `start()`
makes and the two goroutines `run()` spawns. `current` is the slot `r.cmd` and
`r.terminate` refer to; `proc[g]` is the process. `monChan` and `waitChan` hold the
channel a goroutine got when it read `r.terminate`, which need not be its
launch's. A slot is used again when nothing refers to it (`Free`).

| Model | Code |
|---|---|
| `sp`, `handling` | where `signalProcessor`, `restart` and `stop` are, and for which signal |
| `sup` | where `startSupervisor` is: asleep, between its two checks, blocked on the channel, giving up |
| `mon[g]`, `waiter[g]` | monitor and waiter goroutines of a launch in `run` |
| `pending[c]` | the signal a caller of `Restart` or `Shutdown` is blocked on |
| `aged` | `time.Since(startTime) > 60s` |
| `tries` | history only: restarts the supervisor has decided on since an update of the backend gave it its tries anew, or a launch got a minute old |
| `Rendezvous` | one action per pair of sender and receiver that can meet on a `terminate` channel |
| `Exit`, `MinutePasses` | environment |

Atomicity. Each step touches one shared field, or several of which no other
goroutine can observe the order. `start()` is one step: `terminate`, `cmd`,
`startTime`, `isSupervised` are set in it, and the goroutine it spawns is a step of
its own. The check of `Running()` in `restart` is part of receiving the signal;
the one in `ValidateBeforeStart` is the guard of `Launch`. `KillProcess` is two
steps, SIGTERM with the wait and then SIGKILL if the flag is still set; on Windows
(`Unix = FALSE`) the process is killed at once and nothing waits for it.
The status that a late goroutine writes on a backend that was replaced meanwhile
is written on the new one, as in the code.

Scheduling. Five windows of a few instructions stand against periods of 100 ms,
1 s and 10 s. The constant `Races` says which of these races may be lost:
`spawn` (the goroutine of a launch starts late), `exit` (an exit is noticed late),
`timeout` (the process exits between `Running()` and the send in `stop`),
`look` (a signal is handled between the supervisor's two reads) and `giveUp` (a signal is handled while the supervisor gives up). With `Races = {}` all
other interleavings remain. The code excludes none of them; the runs with races
show what they cost.

Refinement. The abstract process is that of the current launch (`AbstractProcess`), the
abstract signal is `handling` with the supervisor's own restarts counted as restarts
(`AbstractBusy`), the supervisor asks while it is blocked on the channel. Every step of
the goroutines is then a step of `Runner` or none (`ImplementsRunner`), what is begun
is ended (`EndsWhatItBegins`), and `isRunning` is an answer the abstract runner may give
whenever no launch or exit is just being noticed (`AnswersTruly`). `RunnerIsImplemented` needs every
race won but `timeout`, `AnswersAreTrue` only `spawn` and `exit`: what `Daemon` shows of the registry
is shown of runners whose own races are won.

### Daemon

| Model | Code |
|---|---|
| `runner` | `Daemon.Runner`, a map without a lock |
| `assigned` | the stores after their `Update`; chosen anew in every round (`Update(listed)`) |
| `pc`, `todo` | where the loop is, and the keys its current iteration has not come to |
| `Register`, `Act`, `ListFails` | the registration with its remote actions, on the runners of the round before |
| `Keep`, `DeleteShutsDown`, `DeleteSkips`, `DeleteEnds`, `Add`, `SyncEnds` | `SyncWithAssignments`, `DeleteRunner`, `AddRunner`; a change of the service type deletes and puts another runner in its place |
| `Configure`, `RoundEnds` | `checkForUpdateAndRestart`, which may end early |
| `dist`, `unseen`, `visited`, `waiting` | `Distributor.Start` and `Stop`: iteration, shutdown of each runner, wait of at most 30 s for each |
| `MapFault` | Go's runtime ends a program that writes a map while it is iterated over |
| `Fresh(r)` | a runner object that has nothing to do stands for one yet to be created |

`Races` names what may come at a bad moment: `crash` (a collector exits unasked or cannot
be launched), `busy` (a round's sync, or the stop, meets a runner that is still handling
signals), `service` (the service is started or stopped during a round), `fatal` (the runtime detects the
unlocked map), `deadline` (the configured shutdown timeout exceeds `Stop`'s 30 s). None is
excluded by the code.
Abstractions: the answer of `Running()` is looked at in the step that uses it; an iteration over the map visits every key
there is from beginning to end, and one added meanwhile or not, as Go says; settings and
templates are `Periodicals`' subject; the deadline of a wait falls only while the
runner is not being shut down, unless `deadline` is among the races.


### Periodicals

A key is `<collector id>-<configuration id>`, as in the stores. Settings
(executable, parameters, service type, path of the file) and configuration texts
are opaque values; the Etag of an answer is its content. The server is a database
(`srvAssigned`, `srvSettings`, `srvConfig`) that an administrator changes between
any two steps.

| Model | Code |
|---|---|
| `pc`, `todo` | where the loop is; the keys `checkForUpdateAndRestart` has not come to |
| `registered`, `backends`, `backendsSum` | `lastRegResponse.Assignments`, `lastBackendResponse` and its checksum |
| `assigned`, `store`, `runner`, `checksums` | the two stores, `Daemon.Runner` with each runner's own backend, `configChecksums` |
| `file` | configuration files; they outlive the sidecar |
| `started` | what the process of a runner was last started with |
| `rejected` | the backends whose status is the error of a validation that failed; a start or stop of the process sets another status, new settings a new one |
| `Register`, `RegisterWithAction`, `RegisterHollow`, `RegistrationFails` | `UpdateRegistration` |
| `FetchBackends`, `FetchBackendsHollow`, `BackendsFail`; `UpdateWith`, `Sync`, `Stored` | `RequestBackendList`; lines 80-112, `SyncWithAssignments`, the stores' `Update` |
| `SkipKey`, `ConfigFails`, `ConfigNotModified`, `FetchConfig...`; `Deliver` | one pass of the loop in `checkForUpdateAndRestart` |
| `Verdicts` | `ValidateConfigurationFile`: what the validation of a text may come to |
| `Assign`, `ChangeSettings`, `ChangeConfig`, `Respawn`, `SidecarRestarts` | environment |

`Faults` names what may go wrong: `down` (a request fails, possible at every
request), `hollowRegistration`, `hollowList`, `hollowConfig` (an answer that carried
nothing is accepted: a 400 about a property or a success status other than 202, a
200 that cannot be decoded), `unwritable` (the file cannot be written), `unvalidated`
(the validation of a good text fails: the command cannot be started, is not on the
access list or times out).

A text whose validation fails is written and not applied, and is not looked at again, because
its checksum is kept: the collector goes on with what it has, and the next start of its process, by its supervisor
or a remote action, takes the text from the file. So the code does not promise that a good text is in force in the
end. `Converges` and `KeptIsInForce` say what it does promise: a collector runs with what the loop takes for
delivered, or was stopped on request, or the error is reported.

`Mirror` has the server, the loop's place and what has been made of it (`registered`, `runner`, `file`, `started`, `rejected`), and
neither `backends`, `backendsSum`, `assigned`, `store` nor `checksums`. `Learn`, `Follow` and `Bring` use the
server's values of that moment; `Bring` cannot be left out for a runner that is there, except by ending the round
(`EndRound`), which takes a request that fails. So `ImplementsMirror` says that the sidecar's caches
cannot be told from asking for everything each time: a checksum that is kept too long is a key taken off
`todo` without the step that `Bring` demands.

Abstractions. A runner does at once what it is told: what can go wrong inside is
`ExecRunner`'s subject. In particular what becomes of a runner that is
deleted while its process crashes or is being restarted is `Daemon`'s. The server never answers a
registration with 304, as the comment at periodicals.go:95 says; it sends an Etag
with every 200 and recognises it. One remote action
at a time comes with a registration. Different settings mean different files; in
the code they may share a path, which makes no difference because the template is
dropped and the file written again. The substitution of the path into
parameters is left out, and so is the status that `EqualSettings` copies; a start that fails
sets an error of its own, as `ExecRunner` has it.

### SvcRunner

One runner whose backend the control loop may rename at any time, because the name
is part of the service's name. The service manager keeps a state per name; a
service may end by itself, hang in a pending state, or be marked for deletion.

| Model | Code |
|---|---|
| `service`, `marked` | the service manager: installed services with their state, services deleted while not stopped |
| `sp`, `handling`, `target`, `polls` | where `signalProcessor`, `restart`, `stop`, `start` are; the handle they hold; rounds of the wait in `restart` |
| `sup`, `pending` | `startSupervisor`; callers blocked on `signals` |
| `Running(n)`, `StatusAfter` | the answers `Running()` can give, and the error it may leave in the status |
| `Unsupervise`, `StopFails`, `StopBegins`, `StopSeen`, `StopTimesOut` | `stop` and `stopService` |
| `Install`, `Open`, `Launch`, `StartFails`, `Supervise`, `Report` | `ValidateBeforeStart` and `start`, at every place it may return early |
| `Rename` | `SetBackend`, as `SyncWithAssignments` calls it |
| `ListServices`, `CleanStops`, `CleanDeletes`, `CleanCannot...` | `CleanOldServices`, one service after the other |

`restart` and `stop` look the service up by the current name each time they ask, so a
rename may fall between two of their steps; a handle stays with the service it
was opened for. That `stop` fails does not keep `restart` from going on. `isSupervised`, the
service manager and the status are each touched in a step of their own, in the code's order: a restart after a
shutdown is supervised for a moment while its status still says stopped (`report`).
Abstractions: the manager fails or answers, whatever the reason; timeouts may fall
at any time; the updates of a service's properties only leave an error in the status.

### Configuration

`node_id` is a `file:` path. Of the configuration file the model keeps the two values that can
change at run time, `update_interval` and `send_status`; all other entries are taken as
valid.

| Model | Code |
|---|---|
| `pc[p]`, `Begin`, `Create`, `Write`, `ReadId` | `LoadConfig` with `NodeId` and `idFromFile`, in the service and in `-configtest` processes; `ioutil.WriteFile` truncates first and then writes |
| `CannotCreate`, `CannotWrite`, `Ends` | errors, crashes and stops at every step |
| `nodeFile`, `issued`, `used` | the file; history: uuids drawn, ids the sidecar has run with |
| `interval`, `sendStatus`, `marked` | `UserConfig` while it runs, and `configurationOverride` |
| `Override`, `Reset`, `FallBack` | `UpdateRegistration` and what it does with an answer, a withdrawn override, a 400 that says the status is not understood |
| `Edit`, `ServerDecides` | the administrator, on the host and on the server |

An answer whose configuration is all zero values cannot be told from one that carries
none, and changes nothing (`Configured`). A registration is never answered with 304, as
periodicals.go:95 says; if it were, the configuration would be missing from
the answer.

### Argv

One action per case of the two loops in `CommandLineToArgv` and `readNextArg`, over a line that
is a sequence of letters, blanks, quotes and backslashes. A line is either arbitrary or made,
by `Quoted`, from a list of arguments by the conventions for quoting, which are stated
independently of how a line is read: quotes around, a backslash before every inner quote,
backslashes that precede a quote doubled (`Pieces`, `Run`). `appendBSBytes` is `Slashes`.

## 3. Runs

Passing runs:

| Run | Instance | States | Shows |
|---|---|---|---|
| `exec_runner_calm` | 2 slots, 1 client, `MaxTries` 2, no races, fairness | 100 000 | `OldLaunchesKilled`, `QuietIsConsistent`, `CrashLoopBounded`, `AnswersTruly`, `ShutdownStops`, `RequestServed`; `ImplementsRunner` and `EndsWhatItBegins` |
| `exec_runner_races` | 2 slots, 1 client, `MaxTries` 1, Windows, races spawn, timeout, look, giveUp | 3.4 million | `RunningHasMonitor` holds whatever else breaks |
| `periodicals` | 2 keys (1 pinned), 3 settings (1 unsupported), 2 texts, 2 changes, requests and validations fail, fairness | 250 000 | `CachedIsOnDisk`, `KeptIsInForce`, `RunnersFollowStores`, `PinnedStay`, `Converges`, `ImplementsMirror` |
| `periodicals_faults` | the same with a broken text and all faults | 917 000 | `RunnersFollowStores` |
| `svc_runner` | 2 names, 1 rename, 1 caller, 1 round of waiting, a manager that may fail, fairness | 107 000 | `StoppedIsNotSupervised`, `RequestServed`, `RestartedAfterExit`, `StaleServicesGo` |
| `daemon` | 3 runner objects, 2 keys, no races | 128 000 | `NoOrphans`, `StopLeavesNothing` |
| `daemon_races` | 1 runner object, 2 keys, all races, fairness | 28 000 | `StopReturns`, `RoundsEnd` |
| `configuration` | 1 process, 2 ids, intervals 0 to 2, fairness | 139 000 | `NodeIdKept`, `EmptyOnlyIfLost`, `DifferencesAreMarked`, `OverridesEnd` |
| `argv` | lines of up to 6 characters; lines made of up to 2 arguments of up to 3 characters | 182 000 | `CountsTheRun`, `MeansWhatWasMeant`, `WordsWithoutQuotes`, `LettersKept`, `Terminates` |

Violated, each by what the code does (`findings`):

| Run | Property, and who says so | What happens |
|---|---|---|
| `exec_runner_tries` | `ThreeTries`; exec_runner.go:163 | restarts that fail before a launch leave `startTime` old; the counter is reset every second |
| `periodicals_hollow` | `PinnedStay`; changelog 1.5.0, issue 481 | a list whose body is lost is taken for an empty one, and every collector is stopped |
| `daemon_crash` | `NoOrphans`; daemon.go:147 | a runner deleted while its process has just crashed gets no shutdown; its supervisor starts the collector again, which nothing refers to any more |

None of these needs a race of a few instructions to be lost.

**Further configurations.** These are kept to be run by hand, with the MC module of their
component. Each answers what becomes of a property when one hypothesis is given up.

| Configuration | Result | Why |
|---|---|---|
| `ExecRunnerSpawn.cfg` | `OldLaunchesKilled` violated; "it's already running", exec_runner.go:137 | `isRunning` is set by the spawned goroutine; a second restart handled before it runs launches a second process |
| `ExecRunnerExit.cfg` | `OldLaunchesKilled` violated | the confirmation of an old launch goes to the channel of its successor, whose live process is taken for exited and doubled |
| `ExecRunnerTimeout.cfg` | `RequestServed` violated; exec_runner.go:303 | the process exits between `Running()` and the send; `stop` and all callers block for ever |
| `ExecRunnerShutdown.cfg` | `SupervisorObeysShutdown` violated; exec_runner.go:149 | a supervisor's restart queued behind a shutdown is carried out after it |
| `DaemonBusy.cfg` | `NoOrphans` violated | a restart of the same round is still being handled when its runner is deleted: `Running()` says no, no shutdown is sent, and the launch follows |
| `DaemonStop.cfg` | `StopLeavesNothing` violated; distributor.go:52 | the loop goes on during `Stop` and adds or restarts a runner that has been visited |
| `DaemonService.cfg` | `StopReturns` holds (65 000 states) | two runners, which `daemon_races` does not have, without crashes |
| `DaemonDeadline.cfg` | `NoOrphans` holds (12 000 states) | the registry does not mind a stop that is cut short, or the runtime's fault: only `StopIsThorough` needs the deadline kept |
| `ExecRunnerNoticed.cfg` | `OldLaunchesKilled`, `AnswersTruly`, `ShutdownStops` hold (124 000 states) | the other three races, on Windows: the hypothesis of `NoSecondCollector` |
| `ConfigurationTest.cfg` | `NodeIdKept` violated; sidecar-example.yml.template:9 | a `-configtest` beside the first start finds no file either and replaces the id the service runs with |
| `ConfigurationEdit.cfg` | `IntervalIsPositive` violated; context.go:156 | the file read again when an override is withdrawn is not checked |

**Bounds.** Two slots are one launch and its successor, which is all that a
correct runner ever has at a time; a third lets an outlived launch be doubled again
(`ExecRunnerExit.cfg`). `MaxTries` is 3 in the code: with 1 or 2 every case of the
counter (first, further, last) occurs, and `CrashLoopIsBounded` is proved for all
values and all races. `TriesCap` stops the history variable one above the limit. One client
gives every order of a restart, a shutdown and an update against the supervisor and
the process; two clients are used where callers have to overtake each other.
In `Periodicals` two changes give a change and its reversal, or a change and a
restart, at any two points of the rounds; the rounds themselves are not bounded. Two
keys give one that fails and one that waits its turn. A broken text is one whose validation fails each
time, which is among what `unvalidated` lets happen to a good one.
In `SvcRunner` one rename gives an old and a new service; `MaxPolls` is 20 in the
code, and with 1 there is a round that waits and one that gives up.
In `Daemon` a third runner object lets a deleted runner and its successor be at work
while the other key has one; its rounds are not bounded, and its safety is proved for any numbers.
`daemon_races` has one object, which passes from key to key: its two properties are about one runner
at a time keeping a caller waiting. In `Configuration` an id is drawn once and could be drawn
again; the intervals are an invalid one, the file's and the server's. In `Argv` six characters hold
two arguments, or a quoted part with a run of two backslashes before a quote and something after it;
arguments of three characters end in one or two backslashes, or consist of quotes.

Slots, ids, runner objects, keys and values of one kind are interchangeable where a configuration declares
symmetry; runs with liveness declare none. `CHECK_DEADLOCK FALSE` appears where the system may
really stop: launches run out of slots or goroutines block for ever, which the
races make possible; the service has been stopped; the line has been read.

**Fairness.** `ExecRunner`: goroutines that can run do run, the processor even though the
supervisor's short looks come in between (strong fairness of `Processor`); a channel serves
blocked senders in the order they arrived, so a caller is not overtaken for ever
(strong fairness of `Receive`); SIGKILL ends a process. Nothing makes a client ask,
a process exit or a minute pass. `Periodicals`: the loop is an endless `for` with a
sleep (weak fairness of the loop); a request made again and again is answered some
time (strong fairness of `Register`, `FetchBackends` and the answer for each key).
Remote actions, supervisors, failures and the administrator are under no obligation.
`SvcRunner`: goroutines that can run do run, blocked senders are served in turn, and the
service manager does not refuse the clean-up for ever. No service has to start or to stop,
so callers are served and stale services handled even if one hangs for ever.
`Daemon`: runners serve blocked senders in turn and end what they begin, which is what
`ReceiveSupervisor`'s and `Receive`'s fairness and `EndsWhatItBegins` give; loop and distributor run when
they can; a range over a map ends although entries come and go (strong fairness of `Iteration`), and so
do 30 seconds, whatever the supervisor does meanwhile (strong fairness of `WaitEnds`). No collector has to exit.
`Configuration`: a running sidecar registers again and again (weak fairness of `Reset`). `Argv`: the code
is sequential.

## 4. Theorems

All are about every value of the constants.

| Theorem | Says | Argument |
|---|---|---|
| `TypeCorrect` (exec runner) | `Spec => []TypeOK` | with `LaunchedFirst`: a goroutine exists only if there was a launch, so `current`, which it copies, is a slot |
| `CrashLoopIsBounded` | `Spec => []CrashLoopBounded`: between two updates of the backend, and while no launch gets a minute old, the supervisor decides on at most `MaxTries` restarts; an update gives it as many again, a manual restart none | `CounterKeepsUp`: within the minute, `restartCount` is ahead of the restarts counted, and `TriesLeft` bounds it |
| `RunningIsMonitored` | `Spec => []RunningHasMonitor` | inductive with the types: the only step that takes a monitor off the channel clears the flag |
| `NoSecondCollector`, `AnswersAreTrue` | without the races `spawn` and `exit`: `Spec => []OldLaunchesKilled`, `[]AnswersTruly` | `Order`, below |
| `QuietTellsTheTruth` | without `spawn`, `exit`, `giveUp`: `Spec => []QuietIsConsistent` | `Order`, below |
| `RunnerIsImplemented` | without `spawn`, `exit`, `look`, `giveUp`: `Spec => ImplementsRunner` | under `Order`, every action maps to one of `Runner`, or to a stutter |
| `ShutdownIsThorough` | without `spawn` and `exit`: `Spec => ShutdownStops` | `Order` says of every stage of `stop` what has been done |
| `PeriodicalsTypeCorrect`, `RunnersFollow` | `Spec => []TypeOK`, `Spec => []RunnersFollowStores` | `LoopInv` adds `StoresAgree`: the store is the list restricted to the assigned keys, and a runner exists exactly where the store has supported settings |
| `PinnedCollectorsStay` | `NoHollow /\ Spec => PinnedStay` | `PinInv`: past the registration every pinned key is registered, and a list kept under an Etag is the list that came with it; so what `FetchBackends` stores is the server's list |
| `CachedConfigurationIsOnDisk` | `WholeAnswers /\ Spec => []CachedIsOnDisk` | `CacheInv` adds `RenderedIsOnDisk`: a runner's template is on disk from the step that sets it; a 304 for an unchanged list with unchanged assignments leaves all runners as they are |
| `KeptConfigurationIsInForce` | `WholeAnswers /\ Spec => []KeptIsInForce` | `ForceInv`: what a runner was given is what its process got, or it was stopped, or its backend is in `rejected`; with `CacheInv` this goes for every checksum that is kept |
| `CachesAreInvisible` | `WholeAnswers /\ Spec => ImplementsMirror` | each answer is a step of `Mirror`: `PinInv` for the list (`FetchBackendsMirrored`), `CacheInv` for a configuration (`NotModifiedMirrored`), below |
| `SvcTypeCorrect`, `StoppedStaysDown` | `Spec => []TypeOK`, `Spec => []StoppedIsNotSupervised` | but for the moment between turning the supervisor on and reporting the new run; `SvcInv` adds `StopIsUnsupervised`: from the moment `stop` turns the supervisor off until the service has stopped it stays off, because only the processor, which is at it, turns it on |
| `TypeCorrect` (daemon) | `Spec => []TypeOK`, whatever races | a runner object is registered only when it is fresh, so it never serves two keys |
| `OrphansNeedARace` | without `crash`, `busy`, `service`: `Spec => []NoOrphans` | `IInv`, below |
| `StopIsThorough` | without these and `deadline`: `Spec => []StopLeavesNothing` | `IInv`, below |
| `TypeCorrect` (configuration), `OverridesAreMarked`, `EmptyIsLost` | `Spec => []TypeOK`, `[]DifferencesAreMarked`, `[]EmptyOnlyIfLost` | for any number of processes; what is not marked was last set from `loaded`, and an empty file belongs to a process that is writing or to a write that is lost |
| `NodeIdIsKept` | with `Processes = {Sidecar}`: `Spec => []NodeIdKept` | a process that is creating or writing the file has found it absent, so no id has been used |
| `StaysOnTheLine`, `CountIsRight` | `AnyLine => []TypeOK`, `AnyLine => []CountsTheRun` | for lines of any length, not only those of the instance: `Shift(2)` happens only where two characters are left |
| `ArgumentsArrive` | `AnyList => []MeansWhatWasMeant` | for lists and arguments of any length: `Reached`, below |
| `NoLetterIsLost` | `AnyLine => []LettersKept` | the letters of two sequences written together are those of the one and then those of the other (`LettersOfBoth`); what is not a letter leaves none (`Silence`) |
| `WordsAreKept` | `AnyLine => []WordsWithoutQuotes` | `Splitting`: the arguments so far are the words that began before the next character, or before the word that is being read |
| `SpecIsAmongThem` | `Spec => AnyList` | whatever the bounds; and `AnyList => AnyLine` by definition |

**The calm exec runner.** The properties of a calm runner are far from inductive: each says what is true
between two signals, and handling one takes steps of four goroutines. `Order` has five parts.
`OwnChannels`: a goroutine uses the channel of its own launch, and only the current launch has a
monitor. `Stages`: the flag, monitor, waiter and processor are at matching stages, from which it follows
who can meet whom. `Launched`: a live process that was not killed has a monitor that listens or is about
to, and then flags and status are what `Launch` set. `Processing` and `Supervising`: what each stage of the
processor and of the supervisor may rely on. With it, an exit is never told to another launch's waiter, nor a
confirmation to a monitor (`RendezvousKeepsOrder`). `Order` holds whenever no process starts or exits within a
goroutine's window (`NoticedInTime`); the other races leave it alone and cost, each, only what the table says.
`ExecRunnerSpawn.cfg` and `ExecRunnerExit.cfg` show that these two cannot be admitted.

**The registry.** `NoOrphans` has to survive a deletion, in which a runner leaves the registry before it
has handled its shutdown. `Deleting` says that the loop calls nothing else meanwhile and that the other
runners are idle, `Gone` that a runner out of the registry has nothing to do but
a shutdown, `Turns` that loop and distributor do not work at the same time, `Calm` that no supervisor asks, and
`Stopping` follows the distributor from runner to runner. What the theorems admit are the races `fatal` and, for
`NoOrphans`, `deadline`. `DaemonCrash.cfg`, `DaemonBusy.cfg` and `DaemonStop.cfg` show
that neither crashes, busy runners nor a stop in the middle of a round could be admitted.

**Arguments.** `MeansWhatWasMeant` speaks of the end of a line; its proof says of every place in it what the
reader must have made of it. `Written` and `Extra` give the place in the quoted form at which each
character of an argument, and each backslash put in before it, stands (`WrittenThere`). `Inside` says that after
`j` characters and `t` of the backslashes before the next, the argument holds the first `j` without
the backslashes that precede, and that these and the `t` have been counted; so the count is even exactly when the
quote that follows is the closing one. `Reads` adds the place before the opening and after the closing quote,
and `Reached` the arguments before. That the places exist for sequences of any length is induction:
`FlattenProofs` derives what is needed (`Induction`, `SequenceInduction`) from the well-foundedness of the numbers,
as a fact about sets, and from it what `FlattenSeq` returns (`FlattenConcat`, `FlattenPlaces`).

**The caches.** A 304 may come only when the whole answer would have changed nothing. For the list this
is `PinInv`'s last conjunct: the list kept under an Etag is the one that came with it, so what is brought into the
stores is the server's list either way, even if the assignments have changed since. For a configuration it
is `CacheInv`: with the checksum of the server's text, the runner has that text as its template
and on disk, so asking for all of it would have written and restarted nothing. `StoresAgree` adds that the remote
actions, which look in the store first, reach exactly the runners there are.

`PinnedCollectorsStay`, `CachedConfigurationIsOnDisk`, `KeptConfigurationIsInForce` and `CachesAreInvisible` hold for *any* set of backends and sequence of failing requests and validations, and
their hypotheses are needed: `periodicals_hollow` shows what happens without the first;
an unwritable file breaks the others at once. So does `NodeIdIsKept`'s, by `ConfigurationTest.cfg`.
Assumptions on the constants are named in the modules and evaluated by TLC.

Only model-checked: liveness (`RequestServed`, `EndsWhatItBegins`, `Converges`,
`RestartedAfterExit`, `StaleServicesGo`, `StopReturns`, `RoundsEnd`, `OverridesEnd`, `Terminates`), which the proof
system does not reach. Every invariant and action property a passing run checks is a theorem.

## 5. Not modelled

- Server API client: how requests are made (TLS, headers, the version gates, the combined
  status), and the access list and path substitution of the backends: functions of
  their inputs, without state.
- Configuration: YAML, environment variables, host names and the entries that are only checked once at start; a node-id file of which only a part is written.
- Host metrics and inventory, logging, service control: they call the operating system, and format.
- The race detector's view of `restartCount`, `cmd`, `startTime` and the backend's settings, which are
  written and read without synchronisation: the models let a reader see the last value
  written. The registry map is the exception, because Go's runtime itself reports it (`MapFault`).
- The Windows service runner as an implementation of `Runner`: it is none. A stop that the
  service manager refuses leaves the service up at the end of a shutdown, which `EndStop` of `Runner` excludes.
- Packaging and benchmarks.

## 6. What could follow

1. `Mirror` for answers that are not whole and files that cannot be written: what the sidecar still promises
   then, and that it delivers in the end, as a liveness property of `Mirror`.
2. A weaker `Runner`, with stops that fail, which both runners implement, and the registry on top of it.
3. Access list, version gates and combined status as operators against reference definitions.
