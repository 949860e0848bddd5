------------------------------- MODULE Daemon -------------------------------
(***************************************************************************)
(* The registry of runners, Daemon.Runner (src/daemon/daemon.go), and the  *)
(* two goroutines that use it without a lock: the control loop, which      *)
(* carries out remote actions, adds and deletes runners and restarts those *)
(* with a new configuration (action_handler.go, periodicals.go), and the   *)
(* service manager's, which starts and stops them all (distributor.go).    *)
(* The runners are abstract ones (Runner): slow, and with a will of their  *)
(* own, the supervisor.                                                    *)
(*                                                                         *)
(* What the server wants is chosen anew in every round; Periodicals has    *)
(* the exchange with the server in full.                                   *)
(***************************************************************************)
EXTENDS Runner

CONSTANTS
    Keys,           \* backends that may be assigned
    None,           \* no runner, no key
    Loop, Service,  \* the two callers
    Races           \* what may happen at a bad moment, see below

ASSUME NoneAssumption == None \notin Runners /\ None \notin Keys
ASSUME CallersAssumption == Loop # Service /\ Callers = {Loop, Service}
(* crash: a collector exits unasked or cannot be launched;                 *)
(* busy: the sync of a round, or the stop of the service, may find a       *)
(* runner still handling signals;                                          *)
(* service: the service is started or stopped during a round;              *)
(* fatal: Go's runtime detects that the registry is written in an          *)
(* iteration and ends the sidecar;                                         *)
(* deadline: the configured shutdown timeout exceeds Stop's 30 seconds.    *)
ASSUME DaemonRacesAssumption ==
    Races \subseteq {"crash", "busy", "service", "fatal", "deadline"}

VARIABLES
    assigned,   \* the stores: backends assigned and listed
    runner,     \* Daemon.Runner
    pc,         \* where the control loop is
    todo,       \* the keys its current iteration has not come to
    deleting,   \* the key DeleteRunner is shutting down
    dist,       \* what the service manager's goroutine does
    unseen,     \* keys its iteration still has to visit
    visited,    \* keys its iteration has visited
    waiting     \* the runner Stop waits for

loopVars == <<assigned, runner, pc, todo, deleting>>
distVars == <<dist, unseen, visited, waiting>>
vars == <<runnerVars, loopVars, distVars>>

Registered(r) == \E k \in Keys : runner[k] = r
Existing == {k \in Keys : runner[k] # None}

Blocked(c) == \E r \in Runners : calling[r][c] # "none"

Idle(r) == busy[r] = "none" /\ ~asking[r] /\ \A c \in Callers : calling[r][c] = "none"

BeingShutDown(r) ==
    busy[r] = "shutdown" \/ \E c \in Callers : calling[r][c] = "shutdown"

MutantFresh(r) == Idle(r) /\ process[r] = "down" /\ ~supervised[r]  \* shared

(* An object that has nothing left to do stands for one yet to be created. *)
Fresh(r) ==
    /\ Idle(r) /\ process[r] = "down" /\ ~supervised[r]
    /\ ~Registered(r) /\ r # waiting

Init ==
    /\ RunnerInit
    /\ assigned = {} /\ runner = [k \in Keys |-> None]
    /\ pc = "sleep" /\ todo = {} /\ deleting = None
    /\ dist = "starting" /\ unseen = {} /\ visited = {} /\ waiting = None

-----------------------------------------------------------------------------
(* The runners, as long as main() has not returned, nor been ended.        *)

Lives == dist \notin {"returned", "ended"}

RunnerStep(r) ==
    /\ Lives
    /\ \/ \E c \in Callers : Take(r, c)
       \/ Ask(r) \/ TakeAsked(r) \/ GiveUp(r) \/ Handles(r)
       \/ Launch(r, TRUE) \/ StartFails(r)
       \/ "crash" \in Races /\ Launch(r, FALSE)
    /\ UNCHANGED <<loopVars, distVars>>

(* Unless it crashes, a collector ends when it is stopped or killed.       *)
CollectorExits(r) ==
    /\ "crash" \in Races \/ process[r] = "doomed" \/ (busy[r] # "none" /\ ~supervised[r])
    /\ Exit(r)
    /\ UNCHANGED <<loopVars, distVars>>

-----------------------------------------------------------------------------
(* The control loop.                                                       *)

LoopRuns(at) == Lives /\ pc = at /\ ~Blocked(Loop)
MayOverlap(quiet) == "service" \in Races \/ quiet
MayFindBusy(runners) == "busy" \in Races \/ \A r \in runners : Idle(r)

Register ==
    /\ LoopRuns("sleep") /\ MayOverlap(dist = "up")
    /\ pc' = "actions"
    /\ todo' = Existing
    /\ UNCHANGED <<runnerVars, assigned, runner, deleting, distVars>>

(* Remote actions, on the runners of the round before; one per runner and  *)
(* round at most.  A start is for one that is not running.                 *)
Act(k, signal) ==
    /\ LoopRuns("actions")
    /\ k \in todo
    /\ todo' = todo \ {k}
    /\ Call(runner[k], Loop, signal)
    /\ UNCHANGED <<assigned, runner, pc, deleting, distVars>>

ListFails ==
    /\ LoopRuns("actions")
    /\ pc' = "sleep" /\ todo' = {}
    /\ UNCHANGED <<runnerVars, assigned, runner, deleting, distVars>>

Update(listed) ==
    /\ LoopRuns("actions")
    /\ MayFindBusy({runner[k] : k \in Existing})
    /\ assigned' = listed
    /\ pc' = "sync" /\ todo' = Existing
    /\ UNCHANGED <<runnerVars, runner, deleting, distVars>>

Syncing == LoopRuns("sync") /\ deleting = None

Keep(k) ==
    /\ Syncing /\ k \in todo \cap assigned
    /\ todo' = todo \ {k}
    /\ UNCHANGED <<runnerVars, assigned, runner, pc, deleting, distVars>>

(* DeleteRunner: of what is not assigned, or has another service type now. *)
DeleteShutsDown(k) ==
    /\ Syncing /\ k \in todo
    /\ TRUE \in Answers(runner[k])
    /\ Call(runner[k], Loop, "shutdown")
    /\ deleting' = k
    /\ UNCHANGED <<assigned, runner, pc, todo, distVars>>

(* A runner of the new service type takes the place, if there is such.     *)
Replacements(k) == IF k \in assigned THEN {None} \cup {r \in Runners : Fresh(r)} ELSE {None}

Remove(k) ==
    /\ \E r \in Replacements(k) : runner' = [runner EXCEPT ![k] = r]
    /\ todo' = todo \ {k}
    /\ deleting' = None
    /\ unseen' = unseen \ {k}
    /\ visited' = visited \ {k}
    /\ UNCHANGED <<runnerVars, assigned, pc, dist, waiting>>

MutantDeleteSkips(k) == Syncing /\ k \in todo /\ Remove(k)   \* whether running or not

DeleteSkips(k) ==
    /\ Syncing /\ k \in todo
    /\ FALSE \in Answers(runner[k])
    /\ Remove(k)

DeleteEnds(k) ==
    /\ LoopRuns("sync") /\ deleting = k
    /\ Remove(k)

Add(k, r) ==
    /\ Syncing /\ todo = {}
    /\ k \in assigned \ Existing
    /\ Fresh(r)
    /\ runner' = [runner EXCEPT ![k] = r]
    /\ UNCHANGED <<runnerVars, assigned, pc, todo, deleting, distVars>>

SyncEnds ==
    /\ Syncing /\ todo = {}
    /\ pc' = "configs" /\ todo' = assigned \cap Existing
    /\ UNCHANGED <<runnerVars, assigned, runner, deleting, distVars>>

(* checkForUpdateAndRestart: the configuration of k is new.                *)
Configure(k) ==
    /\ LoopRuns("configs")
    /\ k \in todo
    /\ todo' = todo \ {k}
    /\ Call(runner[k], Loop, "restart")
    /\ UNCHANGED <<assigned, runner, pc, deleting, distVars>>

RoundEnds ==
    /\ LoopRuns("configs")
    /\ pc' = "sleep" /\ todo' = {}
    /\ UNCHANGED <<runnerVars, assigned, runner, deleting, distVars>>

ControlLoop ==
    \/ Register \/ ListFails \/ SyncEnds \/ RoundEnds
    \/ \E listed \in SUBSET Keys : Update(listed)
    \/ \E k \in Keys :
          \/ \E signal \in {"restart", "shutdown"} : Act(k, signal)
          \/ Keep(k) \/ DeleteShutsDown(k) \/ DeleteSkips(k) \/ DeleteEnds(k)
          \/ Configure(k)
          \/ \E r \in Runners : Add(k, r)

-----------------------------------------------------------------------------
(* The distributor.  It iterates over the registry while the loop changes  *)
(* it: an entry deleted before its turn is not visited, one that is added  *)
(* meanwhile may be or not.                                                *)

Visits(k, phase) ==
    /\ dist = phase /\ ~Blocked(Service) /\ waiting = None
    /\ k \in Existing \ visited
    /\ visited' = visited \cup {k}
    /\ unseen' = unseen \ {k}
    /\ UNCHANGED <<dist, loopVars>>

IterationEnds(phase, next) ==
    /\ dist = phase /\ ~Blocked(Service) /\ waiting = None
    /\ unseen = {}
    /\ dist' = next
    /\ unseen' = Existing /\ visited' = {}
    /\ UNCHANGED <<runnerVars, loopVars, waiting>>

StartRunner(k) ==
    /\ Visits(k, "starting")
    /\ Call(runner[k], Service, "restart")
    /\ UNCHANGED waiting

Started == IterationEnds("starting", "up")

StopService ==
    /\ dist = "up" /\ MayOverlap(pc = "sleep" /\ ~Blocked(Loop)) /\ MayFindBusy(Runners)
    /\ dist' = "stopping"
    /\ unseen' = Existing /\ visited' = {}
    /\ UNCHANGED <<runnerVars, loopVars, waiting>>

StopRunner(k) ==
    /\ Visits(k, "stopping")
    /\ Call(runner[k], Service, "shutdown")
    /\ UNCHANGED waiting

Stopped == IterationEnds("stopping", "waiting")

WaitFor(k) ==
    /\ Visits(k, "waiting")
    /\ waiting' = runner[k]
    /\ UNCHANGED runnerVars

MutantWaitEnds ==               \* one look
    /\ waiting # None
    /\ waiting' = None
    /\ UNCHANGED <<runnerVars, loopVars, dist, unseen, visited>>

MutantWaitForever ==            \* no deadline
    /\ waiting # None /\ FALSE \in Answers(waiting)
    /\ waiting' = None
    /\ UNCHANGED <<runnerVars, loopVars, dist, unseen, visited>>

WaitEnds ==
    /\ waiting # None
    /\ \/ FALSE \in Answers(waiting)
       \/ "deadline" \in Races \/ ~BeingShutDown(waiting)       \* 30 seconds
    /\ waiting' = None
    /\ UNCHANGED <<runnerVars, loopVars, dist, unseen, visited>>

Returns == IterationEnds("waiting", "returned")

(* DeleteRunner or AddRunner writes the map while a range over it goes on. *)
MapFault ==
    /\ "fatal" \in Races
    /\ dist \in {"starting", "stopping", "waiting"} /\ ~Blocked(Service) /\ waiting = None
    /\ LoopRuns("sync")
    /\ todo # {} \/ assigned \ Existing # {}
    /\ dist' = "ended"
    /\ UNCHANGED <<runnerVars, loopVars, unseen, visited, waiting>>

Iteration == Started \/ Stopped \/ Returns

Distributor ==
    \/ Iteration \/ WaitEnds
    \/ \E k \in Keys : StartRunner(k) \/ StopRunner(k) \/ WaitFor(k)

-----------------------------------------------------------------------------
Next ==
    \/ \E r \in Runners : RunnerStep(r) \/ CollectorExits(r)
    \/ ControlLoop
    \/ StopService
    \/ Distributor
    \/ MapFault

(* The runners keep their promise: signals are taken in turn, what is      *)
(* begun is ended (EndsWhatItBegins).  The loop and the distributor run    *)
(* when they can; a range over a map ends, and so do 30 seconds.  Nothing  *)
(* makes the service stop, a supervisor ask, or a collector exit.          *)
RunnerFairness(r) ==
    /\ WF_vars(Lives /\ BeginStop(r) /\ process[r] = "up" /\ UNCHANGED <<loopVars, distVars>>)
    /\ WF_vars(Lives /\ Kill(r) /\ UNCHANGED <<loopVars, distVars>>)
    /\ WF_vars(/\ Lives
               /\ EndStop(r) \/ Launch(r, TRUE) \/ StartFails(r)
               /\ UNCHANGED <<loopVars, distVars>>)
    /\ \A c \in Callers : SF_vars(Lives /\ Take(r, c) /\ UNCHANGED <<loopVars, distVars>>)

Fairness ==
    /\ \A r \in Runners : RunnerFairness(r)
    /\ WF_vars(ControlLoop)
    /\ WF_vars(Distributor) /\ SF_vars(Iteration) /\ SF_vars(WaitEnds)

Spec == Init /\ [][Next]_vars
FairSpec == Spec /\ Fairness

-----------------------------------------------------------------------------
(* Properties.                                                             *)

(* Every variable has its type; one runner serves one key.                 *)
TypeOK ==
    /\ RunnerTypeOK
    /\ assigned \subseteq Keys
    /\ runner \in [Keys -> Runners \cup {None}]
    /\ \A j, k \in Existing : j # k => runner[j] # runner[k]
    /\ pc \in {"sleep", "actions", "sync", "configs"} /\ todo \subseteq Keys
    /\ deleting \in Keys \cup {None}
    /\ dist \in {"starting", "up", "stopping", "waiting", "returned", "ended"}
    /\ unseen \subseteq Keys /\ visited \subseteq Keys
    /\ waiting \in Runners \cup {None}

(* SyncWithAssignments, "cleanup backends that should not run anymore":    *)
(* no collector runs that is not in the registry, but one that is being    *)
(* shut down; nothing else could ever stop it.                             *)
NoOrphans ==
    \A r \in Runners : process[r] = "up" /\ ~Registered(r) => BeingShutDown(r)

(* Stop, "stop all backend runners in parallel and wait until they are     *)
(* finished": when it returns, no collector is left that was not killed.   *)
StopLeavesNothing == dist = "returned" => \A r \in Runners : process[r] # "up"

(* The service can always be stopped: however runners are busy, crash, or  *)
(* come and go meanwhile, Stop returns, unless Go's runtime is faster.     *)
StopReturns == dist = "stopping" ~> ~Lives

(* No runner keeps the control loop waiting for ever.                      *)
RoundsEnd == pc # "sleep" ~> pc = "sleep" \/ ~Lives
=============================================================================
