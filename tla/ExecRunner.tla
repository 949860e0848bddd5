----------------------------- MODULE ExecRunner -----------------------------
(***************************************************************************)
(* The runner of one collector process (src/daemon/exec_runner.go): the    *)
(* signal processor, the supervisor, and for every launch a monitor and a  *)
(* waiter goroutine that turn the exit of the process into flags.  They    *)
(* share isRunning, isSupervised, restartCount, startTime, cmd and         *)
(* terminate without a lock and meet on two unbuffered channels: signals   *)
(* and terminate, which start() replaces on every launch.                  *)
(*                                                                         *)
(* A slot stands for one launch: its exec.Cmd, its terminate channel and   *)
(* the two goroutines run() starts for it.  `current' is the slot r.cmd    *)
(* and r.terminate refer to.  A slot is reused once nothing refers to it.  *)
(***************************************************************************)
EXTENDS Naturals, FiniteSets

CONSTANTS
    Slots,      \* launches whose process or goroutines may exist at a time
    NoSlot,     \* r.cmd == nil
    Clients,    \* goroutines that call Restart() and Shutdown()
    Updater,    \* the client that also calls SetBackend(): the periodicals
    MaxTries,   \* 3: restartCount > 3 gives up
    Unix,       \* FALSE: KillProcess of exec_helper_windows.go
    Races       \* the races the scheduler may lose, see Settled below

ASSUME SlotsAssumption == NoSlot \notin Slots
ASSUME ClientsAssumption == Updater \in Clients
ASSUME MaxTriesAssumption == MaxTries \in Nat \ {0}
ASSUME UnixAssumption == Unix \in BOOLEAN
ASSUME RacesAssumption ==
    Races \subseteq {"spawn", "exit", "timeout", "look", "giveUp"}

VARIABLES
    isRunning, isSupervised,    \* the two atomic flags
    restartCount,               \* 1 .. MaxTries + 1
    aged,                       \* time.Since(startTime) > 60s
    status,                     \* backend.backendStatus.Status
    current,                    \* the slot of r.cmd and r.terminate
    proc,                       \* the process of each slot
    mon, monChan,               \* monitor of each slot and the channel it uses
    waiter, waitChan,           \* waiter of each slot and its channel and cmd
    sp, handling,               \* signal processor, and the signal it handles
    sup,                        \* supervisor
    pending,                    \* the signal each client is blocked sending
    tries                       \* history: restarts decided by the supervisor
                                \* since an update, or since a launch was a
                                \* minute old

flags == <<isRunning, isSupervised>>
counter == <<restartCount, aged, tries>>
launches == <<current, proc, mon, monChan, waiter, waitChan>>
goroutines == <<proc, mon, monChan, waiter, waitChan>>
vars == <<flags, counter, status, launches, sp, handling, sup, pending>>

TriesCap == MaxTries + 1        \* bound of the history variable

Alive(g) == proc[g] \in {"alive", "killed"}     \* Wait() blocks

(* The waiter of g is back from Wait() and sends its result.               *)
Exited(g) == waiter[g] = "waiting" /\ ~Alive(waitChan[g])

(* What still refers to slot g: a monitor or waiter of another launch that *)
(* read r.terminate late.  A waiter left blocked on a channel nobody else  *)
(* uses (after a timeout, for ever) does not keep its slot.                *)
Free(g) ==
    /\ g # current
    /\ ~Alive(g)
    /\ mon[g] = "none"
    /\ waiter[g] = "none" \/ waitChan[g] = g
    /\ \A h \in Slots \ {g} : monChan[h] # g /\ waitChan[h] # g

(***************************************************************************)
(* Scheduling.  Five windows are a few instructions wide, against the      *)
(* 100ms, 1s and 10s periods of KillProcess, the supervisor and the        *)
(* clients.  A race that is not in Races is won by the goroutine that is   *)
(* about to leave its window:                                              *)
(*   spawn    a started monitor runs before anyone reads isRunning;        *)
(*   exit     an exited process is noticed before anyone reads isRunning;  *)
(*   timeout  no process exits while stop() hands over its timeout;        *)
(*   look     no signal is handled between the supervisor's reads of       *)
(*            isSupervised and isRunning;                                  *)
(*   giveUp   no signal is handled while the supervisor is giving up.      *)
(***************************************************************************)
Settled ==
    /\ "spawn" \in Races \/ \A g \in Slots : mon[g] # "spawned"
    /\ \/ "exit" \in Races
       \/ \A g \in Slots :
             \/ mon[g] \in {"none", "spawned"}
             \/ mon[g] = "listen" /\ Alive(monChan[g])

HandingOver == sp \in {"sendTimeout", "awaitAck"}
ExitMayBeSeen == "timeout" \in Races \/ ~HandingOver
SignalMayBeHandled ==
    /\ Settled
    /\ sup = "check" => "look" \in Races
    /\ sup = "giveUp" => "giveUp" \in Races

Init ==
    /\ isRunning = FALSE /\ isSupervised = FALSE
    /\ restartCount = 1 /\ aged = TRUE /\ tries = 0
    /\ status = "running"           \* the zero value of Status
    /\ current = NoSlot
    /\ proc = [g \in Slots |-> "gone"]
    /\ mon = [g \in Slots |-> "none"]
    /\ monChan = [g \in Slots |-> g]
    /\ waiter = [g \in Slots |-> "none"]
    /\ waitChan = [g \in Slots |-> g]
    /\ sp = "idle" /\ handling = "none"
    /\ sup = "sleep"
    /\ pending = [c \in Clients |-> "none"]

-----------------------------------------------------------------------------
(* The callers: Restart() and Shutdown() block until the signal is taken.  *)

Request(c, signal) ==
    /\ pending[c] = "none"
    /\ pending' = [pending EXCEPT ![c] = signal]
    /\ UNCHANGED <<flags, counter, status, launches, sp, handling, sup>>

SetBackend ==
    /\ pending[Updater] = "none"
    /\ status' = "running"          \* the new backend has a fresh status
    /\ restartCount' = 1
    /\ tries' = 0
    /\ UNCHANGED <<flags, aged, launches, sp, handling, sup, pending>>

-----------------------------------------------------------------------------
(* The supervisor.                                                         *)

SeeSupervised ==
    /\ sup = "sleep" /\ isSupervised /\ Settled
    /\ sup' = "check"
    /\ UNCHANGED <<flags, counter, status, launches, sp, handling, pending>>

SeeRunning ==
    /\ sup = "check" /\ isRunning /\ Settled
    /\ sup' = "sleep"
    /\ UNCHANGED <<flags, counter, status, launches, sp, handling, pending>>

CountedRestarts == IF aged THEN 1 ELSE restartCount

MutantTriesLeft == CountedRestarts <= MaxTries + 1      \* off by one
TriesLeft == CountedRestarts <= MaxTries

Retry ==
    /\ sup = "check" /\ ~isRunning /\ Settled
    /\ TriesLeft
    /\ restartCount' = CountedRestarts + 1
    /\ tries' = IF tries < TriesCap THEN tries + 1 ELSE tries
    /\ sup' = "send"
    /\ UNCHANGED <<flags, aged, status, launches, sp, handling, pending>>

GiveUp ==
    /\ sup = "check" /\ ~isRunning /\ Settled
    /\ ~TriesLeft
    /\ restartCount' = CountedRestarts
    /\ status' = "error"
    /\ sup' = "giveUp"          \* reads the collector's output files
    /\ UNCHANGED <<flags, aged, tries, launches, sp, handling, pending>>

Unsupervise ==
    /\ sup = "giveUp"
    /\ isSupervised' = FALSE
    /\ sup' = "sleep"
    /\ UNCHANGED <<isRunning, counter, status, launches, sp, handling, pending>>

-----------------------------------------------------------------------------
(* The signal processor: one signal at a time, restart() or stop().        *)

Handle(signal, who) ==
    /\ sp = "idle" /\ SignalMayBeHandled
    /\ sp' = IF signal = "restart" /\ ~isRunning THEN "start" ELSE "stop"
    /\ handling' = who
    /\ UNCHANGED <<flags, counter, status, launches>>

Receive(c) ==
    /\ pending[c] # "none"
    /\ Handle(pending[c], pending[c])
    /\ pending' = [pending EXCEPT ![c] = "none"]
    /\ UNCHANGED sup

ReceiveSupervisor ==
    /\ sup = "send"
    /\ Handle("restart", "supervisor")
    /\ sup' = "sleep"
    /\ UNCHANGED pending

AfterStop == IF handling = "shutdown" THEN "idle" ELSE "start"
EndStop == sp' = AfterStop /\ handling' = IF AfterStop = "idle" THEN "none" ELSE handling

MutantStopBegins ==         \* the supervisor is left active
    /\ sp = "stop" /\ SignalMayBeHandled
    /\ IF current = NoSlot \/ proc[current] = "unstarted"
       THEN EndStop
       ELSE sp' = "grace" /\ UNCHANGED handling
    /\ UNCHANGED <<flags, counter, status, launches, sup, pending>>

(* stop() up to and including SIGTERM.  The signal makes the process exit  *)
(* or not: Exit below is possible for every process that is alive.         *)
StopBegins ==
    /\ sp = "stop" /\ SignalMayBeHandled
    /\ isSupervised' = FALSE
    /\ IF current = NoSlot \/ proc[current] = "unstarted"
       THEN EndStop
       ELSE sp' = "grace" /\ UNCHANGED handling
    /\ UNCHANGED <<isRunning, counter, status, launches, sup, pending>>

MutantGraceEnds ==          \* SIGTERM only
    /\ sp = "grace" /\ SignalMayBeHandled
    /\ sp' = "judge"
    /\ UNCHANGED <<flags, counter, status, launches, handling, sup, pending>>

(* KillProcess polls isRunning until the shutdown timeout, then SIGKILL;   *)
(* on Windows it kills at once, and does not wait.                         *)
GraceEnds ==
    /\ sp = "grace" /\ SignalMayBeHandled
    /\ sp' = "judge"
    /\ proc' = IF (isRunning \/ ~Unix) /\ proc[current] = "alive"
               THEN [proc EXCEPT ![current] = "killed"] ELSE proc
    /\ UNCHANGED <<flags, counter, status, current, mon, monChan, waiter,
                   waitChan, handling, sup, pending>>

JudgeStopped ==
    /\ sp = "judge" /\ ~isRunning /\ SignalMayBeHandled
    /\ status' = "stopped"
    /\ EndStop
    /\ UNCHANGED <<flags, counter, launches, sup, pending>>

JudgeHanging ==
    /\ sp = "judge" /\ isRunning /\ SignalMayBeHandled
    /\ sp' = "sendTimeout"
    /\ UNCHANGED <<flags, counter, status, launches, handling, sup, pending>>

(* start() returns an error: the access list or the executable's path      *)
(* refuses it, it is already running, or its arguments cannot be split.    *)
StartFails ==
    /\ sp = "start" /\ SignalMayBeHandled
    /\ status' \in {"error", status}
    /\ sp' = "idle" /\ handling' = "none"
    /\ UNCHANGED <<flags, counter, launches, sup, pending>>

Launch(g, started) ==
    /\ sp = "start" /\ SignalMayBeHandled
    /\ ~isRunning
    /\ Free(g)
    /\ current' = g
    /\ proc' = [proc EXCEPT ![g] = IF started THEN "alive" ELSE "unstarted"]
    /\ mon' = [mon EXCEPT ![g] = "spawned"]
    /\ waiter' = [waiter EXCEPT ![g] = "none"]
    /\ status' = IF started THEN "running" ELSE "error"
    /\ aged' = FALSE
    /\ tries' = CASE ~aged -> tries
                  [] aged /\ handling = "supervisor" /\ tries > 0 -> 1  \* this one
                  [] OTHER -> 0
    /\ isSupervised' = TRUE
    /\ sp' = "idle" /\ handling' = "none"
    /\ UNCHANGED <<isRunning, restartCount, monChan, waitChan, sup, pending>>

-----------------------------------------------------------------------------
(* The monitor and the waiter of a launch.  Both read r.terminate, and the *)
(* waiter r.cmd, when they run, not when they are created.                 *)

MonitorBegins(g) ==
    /\ mon[g] = "spawned"
    /\ isRunning' = TRUE
    /\ mon' = [mon EXCEPT ![g] = "listen"]
    /\ monChan' = [monChan EXCEPT ![g] = current]
    /\ waiter' = [waiter EXCEPT ![g] = "waiting"]
    /\ waitChan' = [waitChan EXCEPT ![g] = current]
    /\ UNCHANGED <<isSupervised, counter, status, current, proc, sp, handling,
                   sup, pending>>

MutantMonitorClears(g) ==   \* a clean exit is not noticed
    /\ mon[g] \in {"exitOk", "exitErr", "timeout"}
    /\ IF mon[g] = "exitOk" THEN UNCHANGED <<isRunning, status>>
       ELSE isRunning' = FALSE /\ status' = "stopped"
    /\ mon' = [mon EXCEPT ![g] = "cleared"]
    /\ UNCHANGED <<isSupervised, counter, current, proc, monChan, waiter,
                   waitChan, sp, handling, sup, pending>>

MonitorClears(g) ==
    /\ mon[g] \in {"exitOk", "exitErr", "timeout"}
    /\ status' = CASE mon[g] = "timeout" -> "error"
                   [] mon[g] = "exitErr" -> "stopped"
                   [] OTHER -> status
    /\ isRunning' = FALSE
    /\ mon' = [mon EXCEPT ![g] = "cleared"]
    /\ UNCHANGED <<isSupervised, counter, current, proc, monChan, waiter,
                   waitChan, sp, handling, sup, pending>>

MutantMonitorConfirms(g) == \* returns without confirming
    /\ mon[g] = "cleared"
    /\ mon' = [mon EXCEPT ![g] = "none"]
    /\ monChan' = [monChan EXCEPT ![g] = g]
    /\ UNCHANGED <<flags, counter, status, current, proc, waiter, waitChan, sp,
                   handling, sup, pending>>

MonitorConfirms(g) ==
    /\ mon[g] = "cleared"
    /\ mon' = [mon EXCEPT ![g] = "ack"]
    /\ monChan' = [monChan EXCEPT ![g] = current]
    /\ UNCHANGED <<flags, counter, status, current, proc, waiter, waitChan, sp,
                   handling, sup, pending>>

(* Rendezvous on a terminate channel: any sender may meet any receiver.    *)
(* The processor sends the timeout and later takes the confirmation, the   *)
(* waiter w sends the exit and later takes the confirmation, the monitor m *)
(* takes either and later sends the confirmation, which is nil.            *)
UnchangedByRendezvous ==
    UNCHANGED <<flags, counter, status, current, proc, sup, pending>>

MonitorReturns(m) == monChan' = [monChan EXCEPT ![m] = m]
WaiterReturns(w) == waitChan' = [waitChan EXCEPT ![w] = w]

TimeoutToMonitor(m) ==
    /\ sp = "sendTimeout" /\ mon[m] = "listen" /\ monChan[m] = current
    /\ sp' = "awaitAck"
    /\ mon' = [mon EXCEPT ![m] = "timeout"]
    /\ UNCHANGED <<waiter, handling, monChan, waitChan>>
    /\ UnchangedByRendezvous

TimeoutToWaiter(w) ==
    /\ sp = "sendTimeout" /\ waiter[w] = "awaitAck" /\ waitChan[w] = current
    /\ sp' = "awaitAck"
    /\ waiter' = [waiter EXCEPT ![w] = "none"] /\ WaiterReturns(w)
    /\ UNCHANGED <<mon, handling, monChan>>
    /\ UnchangedByRendezvous

ExitToMonitor(w, m, result) ==
    /\ Exited(w) /\ ExitMayBeSeen
    /\ proc[waitChan[w]] = "unstarted" => result = "exitErr"
    /\ mon[m] = "listen" /\ monChan[m] = waitChan[w]
    /\ mon' = [mon EXCEPT ![m] = result]
    /\ waiter' = [waiter EXCEPT ![w] = "awaitAck"]
    /\ UNCHANGED <<sp, handling, monChan, waitChan>>
    /\ UnchangedByRendezvous

ExitToProcessor(w) ==
    /\ Exited(w) /\ ExitMayBeSeen
    /\ sp = "awaitAck" /\ waitChan[w] = current
    /\ waiter' = [waiter EXCEPT ![w] = "awaitAck"]
    /\ EndStop
    /\ UNCHANGED <<mon, monChan, waitChan>>
    /\ UnchangedByRendezvous

ExitToWaiter(w, v) ==
    /\ Exited(w) /\ ExitMayBeSeen
    /\ waiter[v] = "awaitAck" /\ waitChan[v] = waitChan[w]
    /\ waiter' = [waiter EXCEPT ![w] = "awaitAck", ![v] = "none"]
    /\ WaiterReturns(v)
    /\ UNCHANGED <<mon, sp, handling, monChan>>
    /\ UnchangedByRendezvous

AckToProcessor(m) ==
    /\ mon[m] = "ack" /\ monChan[m] = current /\ sp = "awaitAck"
    /\ mon' = [mon EXCEPT ![m] = "none"] /\ MonitorReturns(m)
    /\ EndStop
    /\ UNCHANGED <<waiter, waitChan>>
    /\ UnchangedByRendezvous

AckToWaiter(m, w) ==
    /\ mon[m] = "ack" /\ waiter[w] = "awaitAck" /\ waitChan[w] = monChan[m]
    /\ mon' = [mon EXCEPT ![m] = "none"] /\ MonitorReturns(m)
    /\ waiter' = [waiter EXCEPT ![w] = "none"] /\ WaiterReturns(w)
    /\ UNCHANGED <<sp, handling>>
    /\ UnchangedByRendezvous

AckToMonitor(m, n) ==
    /\ mon[m] = "ack" /\ mon[n] = "listen" /\ monChan[n] = monChan[m]
    /\ mon' = [mon EXCEPT ![m] = "none", ![n] = "exitOk"] /\ MonitorReturns(m)
    /\ UNCHANGED <<waiter, sp, handling, waitChan>>
    /\ UnchangedByRendezvous

-----------------------------------------------------------------------------
(* The environment.  A process without SIGKILL may hang for ever.          *)

Exit(g) ==
    /\ Alive(g)
    /\ proc' = [proc EXCEPT ![g] = "gone"]
    /\ UNCHANGED <<flags, counter, status, current, mon, monChan, waiter,
                   waitChan, sp, handling, sup, pending>>

MinutePasses ==
    /\ ~aged /\ Settled         \* far longer than the windows
    /\ aged' = TRUE
    /\ tries' = 0
    /\ UNCHANGED <<flags, restartCount, status, launches, sp, handling, sup,
                   pending>>

-----------------------------------------------------------------------------
Supervisor == SeeSupervised \/ SeeRunning \/ Retry \/ GiveUp \/ Unsupervise

Processor ==
    \/ StopBegins \/ GraceEnds \/ JudgeStopped \/ JudgeHanging
    \/ StartFails \/ \E g \in Slots, started \in BOOLEAN : Launch(g, started)

Monitor(g) == MonitorBegins(g) \/ MonitorClears(g) \/ MonitorConfirms(g)

Rendezvous ==
    \/ \E g \in Slots : \/ TimeoutToMonitor(g) \/ TimeoutToWaiter(g)
                        \/ ExitToProcessor(g) \/ AckToProcessor(g)
    \/ \E g, h \in Slots :
          \/ \E result \in {"exitOk", "exitErr"} : ExitToMonitor(g, h, result)
          \/ ExitToWaiter(g, h) \/ AckToWaiter(g, h) \/ AckToMonitor(g, h)

Next ==
    \/ \E c \in Clients, signal \in {"restart", "shutdown"} : Request(c, signal)
    \/ SetBackend
    \/ Supervisor
    \/ \E c \in Clients : Receive(c)
    \/ ReceiveSupervisor
    \/ Processor
    \/ \E g \in Slots : Monitor(g) \/ Exit(g)
    \/ Rendezvous
    \/ MinutePasses

(* Goroutines that can run do run; the channel serves blocked senders in   *)
(* the order they arrived, so none is overtaken for ever; the supervisor's *)
(* short looks do not keep the processor waiting; SIGKILL ends a process.  *)
(* Nothing makes a client ask, a process exit or time pass.                *)
Fairness ==
    /\ WF_vars(Supervisor) /\ SF_vars(Processor) /\ WF_vars(Rendezvous)
    /\ \A g \in Slots :
          /\ WF_vars(Monitor(g))
          /\ WF_vars(proc[g] = "killed" /\ Exit(g))
    /\ \A c \in Clients : SF_vars(Receive(c))
    /\ SF_vars(ReceiveSupervisor)

Spec == Init /\ [][Next]_vars
FairSpec == Spec /\ Fairness
-----------------------------------------------------------------------------
(* Properties.                                                             *)

(* Every variable has its type.  That includes that no monitor or waiter   *)
(* ever uses r.terminate or r.cmd before start() has set them.             *)
TypeOK ==
    /\ isRunning \in BOOLEAN /\ isSupervised \in BOOLEAN
    /\ restartCount \in 1 .. MaxTries + 1
    /\ aged \in BOOLEAN /\ tries \in 0 .. TriesCap
    /\ status \in {"running", "error", "stopped"}
    /\ current \in Slots \cup {NoSlot}
    /\ proc \in [Slots -> {"gone", "unstarted", "alive", "killed"}]
    /\ mon \in [Slots -> {"none", "spawned", "listen", "exitOk", "exitErr",
                          "timeout", "cleared", "ack"}]
    /\ waiter \in [Slots -> {"none", "waiting", "awaitAck"}]
    /\ monChan \in [Slots -> Slots] /\ waitChan \in [Slots -> Slots]
    /\ sp \in {"idle", "stop", "grace", "judge", "sendTimeout", "awaitAck", "start"}
    /\ handling \in {"none", "restart", "shutdown", "supervisor"}
    /\ sup \in {"sleep", "check", "send", "giveUp"}
    /\ pending \in [Clients -> {"none", "restart", "shutdown"}]

(* A process that is still alive when the runner has moved on to another   *)
(* launch hangs in spite of SIGKILL: no launch leaves a second collector   *)
(* behind (ValidateBeforeStart: "it's already running").                   *)
OldLaunchesKilled ==
    \A g \in Slots : Alive(g) /\ g # current => proc[g] = "killed"

(* Between two signals the flags and the status that is sent to the server *)
(* tell the truth: the runner is running exactly when its process is       *)
(* alive, and then it is supervised and reported as running.               *)
QuietIsConsistent ==
    sp = "idle" /\ Settled =>
        /\ isRunning <=> (current # NoSlot /\ proc[current] = "alive")
        /\ isRunning => isSupervised /\ status = "running"

(* When the flag says running, a monitor is still going to clear it.       *)
RunningHasMonitor ==
    isRunning => \E g \in Slots : mon[g] \in {"listen", "exitOk", "exitErr", "timeout"}

(* While no launch gets a minute old, the supervisor decides on three      *)
(* restarts between two updates of the backend and on no more, although    *)
(* restarts by hand make startTime young again meanwhile and restartCount  *)
(* is counted and reset by two goroutines.  An update gives it three more. *)
CrashLoopBounded == ~aged => tries <= MaxTries

(* startSupervisor: "don't continue to restart after 3 tries", whether the *)
(* restarts reach a launch or fail before it.                              *)
ThreeTries == tries <= MaxTries

(* A handled shutdown leaves no process that was not killed, and nobody    *)
(* supervising it.                                                         *)
ShutdownStops ==
    [][handling = "shutdown" /\ sp' = "idle" =>
          /\ ~isSupervised'
          /\ current = NoSlot \/ proc[current] # "alive"]_vars

(* startSupervisor: "ignore regular shutdown".  The restart the supervisor *)
(* asked for is not carried out once a shutdown has been.                  *)
SupervisorObeysShutdown == [][ReceiveSupervisor => isSupervised]_vars

(* The goroutines and channels amount to the runner its callers rely on:   *)
(* the process is that of the current launch, and every step is one of the *)
(* abstract runner's or none.                                              *)
This == "this runner"
AbstractProcess ==
    IF current = NoSlot THEN "down"
    ELSE CASE proc[current] = "alive" -> "up"
           [] proc[current] = "killed" -> "doomed"
           [] OTHER -> "down"
AbstractBusy == IF handling = "supervisor" THEN "restart" ELSE handling

Abstract == INSTANCE Runner WITH
    Runners <- {This},
    Callers <- Clients,
    process <- [r \in {This} |-> AbstractProcess],
    busy <- [r \in {This} |-> AbstractBusy],
    supervised <- [r \in {This} |-> isSupervised],
    asking <- [r \in {This} |-> sup = "send"],
    calling <- [r \in {This} |-> pending]

ImplementsRunner == Abstract!RunnerSpec
EndsWhatItBegins == Abstract!BusyEnds

(* Whenever no exit or launch is just being noticed, Running() says what   *)
(* the abstract runner may say: the truth, but of a killed process.        *)
AnswersTruly == Settled => isRunning \in Abstract!Answers(This)

(* A caller of Restart() or Shutdown() is not blocked for ever: stop()     *)
(* deals with a process that hangs, and always returns.                    *)
RequestServed == \A c \in Clients : pending[c] # "none" ~> pending[c] = "none"
=============================================================================
