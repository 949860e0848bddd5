------------------------------ MODULE SvcRunner ------------------------------
(***************************************************************************)
(* The runner of a collector that is a Windows service                     *)
(* (src/daemon/svc_runner_windows.go), the removal of services no backend  *)
(* uses any more (svc_helper_windows.go), and the service manager both     *)
(* work on.  The signal processor, the supervisor and the control loop run *)
(* concurrently; the loop may rename the service at any moment, because    *)
(* the name of the backend is part of the service's name.                  *)
(***************************************************************************)
EXTENDS Naturals, FiniteSets

CONSTANTS
    Names,              \* names the backend may have
    Nobody,             \* no service
    Clients,            \* goroutines that call Restart() and Shutdown()
    Updater,            \* the client that also synchronises: the control loop
    MaxPolls,           \* 20: seconds restart() waits for the service to stop
    MaxRenames,         \* bound: renames of the backend
    ManagerMayFail      \* calls to the service manager may fail

ASSUME NobodyAssumption == Nobody \notin Names
ASSUME UpdaterAssumption == Updater \in Clients
ASSUME PollsAssumption == MaxPolls \in Nat /\ MaxRenames \in Nat
ASSUME ManagerAssumption == ManagerMayFail \in BOOLEAN

VARIABLES
    service,            \* the service manager's state of each service
    marked,             \* services that go away when they stop
    name, renames,      \* r.serviceName; counts up to MaxRenames
    isSupervised,
    status,             \* backend.backendStatus.Status
    sp, handling,       \* signal processor, and the signal it handles
    target,             \* the service the processor has opened
    polls,              \* rounds of waiting in restart()
    sup,                \* supervisor
    pending,            \* the signal each client is blocked sending
    cleaning, stale     \* CleanOldServices: the service it is at, those to come

manager == <<service, marked>>
runner == <<name, renames, isSupervised, status>>
processor == <<sp, handling, target, polls>>
cleaner == <<cleaning, stale>>
vars == <<manager, runner, processor, sup, pending, cleaner>>

Init ==
    /\ service \in [Names -> {"none", "stopped", "running"}]    \* of an earlier run
    /\ marked = {}
    /\ name \in Names /\ renames = 0
    /\ isSupervised = FALSE
    /\ status = "running"           \* the zero value of Status
    /\ sp = "idle" /\ handling = "none" /\ target = Nobody /\ polls = 0
    /\ sup = "sleep"
    /\ pending = [c \in Clients |-> "none"]
    /\ cleaning = Nobody /\ stale = {}

-----------------------------------------------------------------------------
(* The service manager.  A service that hangs stays in a pending state.    *)

StartCompletes(n) ==
    /\ service[n] = "startPending"
    /\ service' = [service EXCEPT ![n] = "running"]
    /\ UNCHANGED <<marked, runner, processor, sup, pending, cleaner>>

ServiceStops(n) ==
    /\ service[n] \in {"startPending", "running", "stopPending"}
    /\ service' = [service EXCEPT ![n] = IF n \in marked THEN "none" ELSE "stopped"]
    /\ marked' = marked \ {n}
    /\ UNCHANGED <<runner, processor, sup, pending, cleaner>>

(* A stop control is accepted by a service that runs.                      *)
StopControl(n) ==
    /\ service[n] = "running"
    /\ service' = [service EXCEPT ![n] = "stopPending"]
    /\ UNCHANGED marked

HasStopped(n) == service[n] \in {"stopped", "none"}

(* The answers Running() may give: a service that hangs while it stops     *)
(* counts as running, one that is still starting does not, and neither     *)
(* does one the manager cannot be asked about.                             *)
MutantRunning(n) == {service[n] # "none"}       \* installed is running
Running(n) ==
    {service[n] \in {"running", "stopPending"}}
        \cup (IF ManagerMayFail THEN {FALSE} ELSE {})

(* A manager that cannot be asked may leave an error in the status.        *)
StatusAfter(up) == {status} \cup (IF ManagerMayFail /\ ~up THEN {"error"} ELSE {})

-----------------------------------------------------------------------------
(* The callers and the supervisor.                                         *)

Request(c, signal) ==
    /\ pending[c] = "none"
    /\ c = Updater => cleaning = Nobody /\ stale = {}
    /\ pending' = [pending EXCEPT ![c] = signal]
    /\ UNCHANGED <<manager, runner, processor, sup, cleaner>>

SeeSupervised ==
    /\ sup = "sleep" /\ isSupervised
    /\ sup' = "check"
    /\ UNCHANGED <<manager, runner, processor, pending, cleaner>>

SeeRunning ==
    /\ sup = "check" /\ TRUE \in Running(name)
    /\ sup' = "sleep"
    /\ UNCHANGED <<manager, runner, processor, pending, cleaner>>

Retry ==
    /\ sup = "check" /\ FALSE \in Running(name)
    /\ status' = "error"
    /\ sup' = "send"
    /\ UNCHANGED <<manager, name, renames, isSupervised, processor, pending, cleaner>>

-----------------------------------------------------------------------------
(* The signal processor: one signal at a time, restart() or stop().        *)

Handle(signal) ==
    /\ sp = "idle"
    /\ sp' = IF signal = "restart" THEN "check" ELSE "stop"
    /\ handling' = signal
    /\ UNCHANGED <<manager, runner, target, polls, cleaner>>

Receive(c) ==
    /\ pending[c] # "none"
    /\ Handle(pending[c])
    /\ pending' = [pending EXCEPT ![c] = "none"]
    /\ UNCHANGED sup

ReceiveSupervisor ==
    /\ sup = "send"
    /\ Handle("restart")
    /\ sup' = "sleep"
    /\ UNCHANGED pending

MutantDone ==               \* the service is not closed
    sp' = "idle" /\ handling' = "none" /\ UNCHANGED <<target, polls>>
Done == sp' = "idle" /\ handling' = "none" /\ target' = Nobody /\ polls' = 0

CheckRunning ==
    /\ sp = "check"
    /\ \E up \in Running(name) : /\ status' \in StatusAfter(up)
                                /\ sp' = IF up THEN "stop" ELSE "install"
    /\ UNCHANGED <<manager, name, renames, isSupervised, handling, target, polls,
                   sup, pending, cleaner>>

(* stop(): the processor goes on with restart() whether or not it failed.  *)
AfterStop ==
    IF handling = "shutdown" THEN Done
    ELSE sp' = "wait" /\ target' = Nobody /\ UNCHANGED <<handling, polls>>

MutantUnsupervise ==        \* the supervisor stays active
    /\ sp = "stop"
    /\ sp' = "control"
    /\ UNCHANGED <<manager, runner, handling, target, polls, sup, pending, cleaner>>

Unsupervise ==
    /\ sp = "stop"
    /\ isSupervised' = FALSE
    /\ sp' = "control"
    /\ UNCHANGED <<manager, name, renames, status, handling, target, polls, sup,
                   pending, cleaner>>

StopFails ==
    /\ sp = "control"
    /\ service[name] # "running" \/ ManagerMayFail
    /\ status' = "error"
    /\ AfterStop
    /\ UNCHANGED <<manager, name, renames, isSupervised, sup, pending, cleaner>>

StopBegins ==
    /\ sp = "control"
    /\ StopControl(name)
    /\ sp' = "stopping" /\ target' = name
    /\ UNCHANGED <<runner, handling, polls, sup, pending, cleaner>>

StopSeen ==
    /\ sp = "stopping" /\ HasStopped(target)
    /\ status' = "stopped"
    /\ AfterStop
    /\ UNCHANGED <<manager, name, renames, isSupervised, sup, pending, cleaner>>

StopTimesOut ==             \* 10 seconds, or the manager cannot be asked
    /\ sp = "stopping" /\ (~HasStopped(target) \/ ManagerMayFail)
    /\ status' = "error"
    /\ AfterStop
    /\ UNCHANGED <<manager, name, renames, isSupervised, sup, pending, cleaner>>

MutantWait ==               \* for as long as it takes
    /\ sp = "wait"
    /\ \/ /\ TRUE \in Running(name)
          /\ polls' = IF polls < MaxPolls THEN polls + 1 ELSE 0
          /\ UNCHANGED <<sp, status>>
       \/ /\ FALSE \in Running(name)
          /\ sp' = "install" /\ polls' = 0
          /\ status' \in StatusAfter(FALSE)
    /\ UNCHANGED <<manager, name, renames, isSupervised, handling, target, sup,
                   pending, cleaner>>

Wait ==
    /\ sp = "wait"
    /\ \/ /\ TRUE \in Running(name) /\ polls < MaxPolls
          /\ polls' = polls + 1
          /\ UNCHANGED <<sp, status>>
       \/ /\ FALSE \in Running(name) \/ polls = MaxPolls
          /\ sp' = "install" /\ polls' = 0
          /\ status' \in StatusAfter(FALSE)     \* asked once more
    /\ UNCHANGED <<manager, name, renames, isSupervised, handling, target, sup,
                   pending, cleaner>>

(* The access list, a missing executable or the manager prevents it, and   *)
(* so does the deletion of a service that has not stopped.                 *)
StartFails ==
    /\ sp \in {"install", "open", "launch"}
    /\ \/ sp = "install"
       \/ ManagerMayFail
       \/ sp = "open" /\ service[name] = "none"
       \/ sp = "launch" /\ (service[target] # "stopped" \/ target \in marked)
    /\ status' = "error"
    /\ Done
    /\ UNCHANGED <<manager, name, renames, isSupervised, sup, pending, cleaner>>

Install ==
    /\ sp = "install"
    /\ service' = [service EXCEPT ![name] = IF @ = "none" THEN "stopped" ELSE @]
    /\ status' \in StatusAfter(FALSE)         \* UpdateConfig may fail
    /\ sp' = "open"
    /\ UNCHANGED <<marked, name, renames, isSupervised, handling, target, polls, sup,
                   pending, cleaner>>

Open ==
    /\ sp = "open" /\ service[name] # "none"
    /\ target' = name
    /\ sp' = "launch"
    /\ UNCHANGED <<manager, runner, handling, polls, sup, pending, cleaner>>

Launch ==
    /\ sp = "launch" /\ service[target] = "stopped" /\ target \notin marked
    /\ service' = [service EXCEPT ![target] = "startPending"]
    /\ sp' = "supervise"
    /\ UNCHANGED <<marked, runner, handling, target, polls, sup, pending, cleaner>>

Supervise ==
    /\ sp = "supervise"
    /\ isSupervised' = TRUE
    /\ sp' = "report"
    /\ UNCHANGED <<manager, name, renames, status, handling, target, polls, sup,
                   pending, cleaner>>

Report ==
    /\ sp = "report"
    /\ status' = "running"
    /\ Done
    /\ UNCHANGED <<manager, name, renames, isSupervised, sup, pending, cleaner>>

-----------------------------------------------------------------------------
(* The control loop: SyncWithAssignments for one runner, that is           *)
(* SetBackend, when the backend has another name, and CleanOldServices.    *)

MaySync == pending[Updater] = "none" /\ cleaning = Nobody /\ stale = {}

Rename(n) ==
    /\ MaySync
    /\ n # name /\ renames < MaxRenames
    /\ name' = n /\ renames' = renames + 1
    /\ status' = "running"          \* the new backend has a fresh status
    /\ UNCHANGED <<manager, isSupervised, processor, sup, pending, cleaner>>

ListServices ==
    /\ MaySync
    /\ stale' = {n \in Names \ {name} : service[n] # "none"}
    /\ UNCHANGED <<manager, runner, processor, sup, pending, cleaning>>

MutantCleanStops(n) ==      \* deletes without stopping
    /\ cleaning = Nobody /\ n \in stale
    /\ cleaning' = n
    /\ UNCHANGED <<manager, runner, processor, sup, pending, stale>>

CleanStops(n) ==
    /\ cleaning = Nobody /\ n \in stale
    /\ StopControl(n)
    /\ cleaning' = n
    /\ UNCHANGED <<runner, processor, sup, pending, stale>>

(* The error is ignored, and the service deleted all the same.             *)
CleanCannotStop(n) ==
    /\ cleaning = Nobody /\ n \in stale
    /\ service[n] # "running" \/ ManagerMayFail
    /\ cleaning' = n
    /\ UNCHANGED <<manager, runner, processor, sup, pending, stale>>

(* Once it has stopped, or after 10 seconds.                               *)
CleanDeletes(n) ==
    /\ cleaning = n /\ n \in stale
    /\ service' = [service EXCEPT ![n] = IF @ = "stopped" THEN "none" ELSE @]
    /\ marked' = IF HasStopped(n) THEN marked ELSE marked \cup {n}
    /\ cleaning' = Nobody /\ stale' = stale \ {n}
    /\ UNCHANGED <<runner, processor, sup, pending>>

CleanCannotDelete(n) ==
    /\ ManagerMayFail
    /\ cleaning = n /\ n \in stale
    /\ cleaning' = Nobody /\ stale' = stale \ {n}
    /\ UNCHANGED <<manager, runner, processor, sup, pending>>

-----------------------------------------------------------------------------
Manager(n) == StartCompletes(n) \/ ServiceStops(n)

Supervisor == SeeSupervised \/ SeeRunning \/ Retry

Processor ==
    \/ CheckRunning \/ Unsupervise \/ StopFails \/ StopBegins \/ StopSeen \/ StopTimesOut
    \/ Wait \/ StartFails \/ Install \/ Open \/ Launch \/ Supervise \/ Report

Loop ==
    \/ ListServices
    \/ \E n \in Names : \/ CleanStops(n) \/ CleanCannotStop(n)
                        \/ CleanDeletes(n) \/ CleanCannotDelete(n)

Next ==
    \/ \E n \in Names : Manager(n) \/ Rename(n)
    \/ \E c \in Clients, signal \in {"restart", "shutdown"} : Request(c, signal)
    \/ \E c \in Clients : Receive(c)
    \/ ReceiveSupervisor
    \/ Supervisor \/ Processor \/ Loop

(* Goroutines that can run do run, the channel serves its senders in the   *)
(* order they arrived, and the loop comes back every round; the manager    *)
(* does not fail for ever.  No service has to start or stop.               *)
Fairness ==
    /\ WF_vars(Processor) /\ WF_vars(Supervisor) /\ SF_vars(Loop)
    /\ \A c \in Clients : SF_vars(Receive(c))
    /\ SF_vars(ReceiveSupervisor)
    /\ SF_vars(\E n \in Names : CleanStops(n))
    /\ SF_vars(\E n \in Names : CleanDeletes(n))

Spec == Init /\ [][Next]_vars
FairSpec == Spec /\ Fairness

-----------------------------------------------------------------------------
(* Properties.                                                             *)

(* Every variable has its type; in particular a service is only opened,    *)
(* and only waited for, by a processor that is at it.                      *)
TypeOK ==
    /\ service \in [Names -> {"none", "stopped", "startPending", "running",
                              "stopPending"}]
    /\ marked \subseteq Names
    /\ name \in Names /\ renames \in 0 .. MaxRenames
    /\ isSupervised \in BOOLEAN
    /\ status \in {"running", "error", "stopped"}
    /\ sp \in {"idle", "check", "stop", "control", "stopping", "wait", "install", "open",
               "launch", "supervise", "report"}
    /\ handling \in {"none", "restart", "shutdown"}
    /\ target \in IF sp \in {"stopping", "launch", "supervise", "report"} THEN Names
                  ELSE {Nobody}
    /\ polls \in IF sp = "wait" THEN 0 .. MaxPolls ELSE {0}
    /\ sup \in {"sleep", "check", "send"}
    /\ pending \in [Clients -> {"none", "restart", "shutdown"}]
    /\ cleaning \in stale \cup {Nobody} /\ stale \subseteq Names

(* What is reported as stopped is not supervised, so that a supervisor that*)
(* looks at the flag passes it by, however stops, renames and restarts     *)
(* interleave.  start() turns the supervisor on before it reports the      *)
(* service as running: in between a restart passes through both.           *)
StoppedIsNotSupervised == status = "stopped" /\ sp # "report" => ~isSupervised

(* A caller of Restart() or Shutdown() is served although services hang    *)
(* (changelog issue-14264: "Fix infinite loop in Windows service runner    *)
(* restart that could permanently block configuration updates").           *)
RequestServed == \A c \in Clients : pending[c] # "none" ~> pending[c] = "none"

(* A supervised service that has stopped is started again, or attempted to *)
(* be, unless somebody renames it or shuts it down.                        *)
RestartedAfterExit ==
    \A n \in Names :
        isSupervised /\ name = n /\ HasStopped(n) ~>
            sp \in {"install", "open", "launch"} \/ ~isSupervised \/ name # n

(* Whatever a restart does to a service under its old name while the       *)
(* backend is renamed, in the end no other service is left than the one of *)
(* the backend, except those that hang, and they go when they stop.        *)
StaleServicesGo ==
    <>[](\A n \in Names \ {name} :
            service[n] = "none" \/ (n \in marked /\ service[n] # "running"))
=============================================================================
