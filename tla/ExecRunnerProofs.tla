-------------------------- MODULE ExecRunnerProofs --------------------------
(* What holds of the runner of a process whatever the number of launches   *)
(* and callers, and in whatever order the goroutines run (any Races).      *)
EXTENDS ExecRunner, TLAPS

(* A goroutine of a launch exists only after start() has set r.cmd and     *)
(* r.terminate, which never become nil again.                              *)
LaunchedFirst == \A g \in Slots : mon[g] # "none" => current # NoSlot

(* The restarts the supervisor counts against the ones it has decided.     *)
CounterKeepsUp ==
    /\ tries >= 1 => restartCount >= 2
    /\ ~aged => tries < restartCount

TypeInv == TypeOK /\ LaunchedFirst

LEMMA InitTypeInv == Init => TypeInv
<1> SUFFICES ASSUME Init PROVE TypeInv
  OBVIOUS
<1> USE MaxTriesAssumption DEF MaxTriesAssumption, Init, TriesCap
<1>1. restartCount \in 1 .. MaxTries + 1 /\ tries \in 0 .. TriesCap
  OBVIOUS
<1>2. /\ proc \in [Slots -> {"gone", "unstarted", "alive", "killed"}]
      /\ mon \in [Slots -> {"none", "spawned", "listen", "exitOk", "exitErr",
                            "timeout", "cleared", "ack"}]
      /\ waiter \in [Slots -> {"none", "waiting", "awaitAck"}]
      /\ pending \in [Clients -> {"none", "restart", "shutdown"}]
  OBVIOUS
<1>3. monChan \in [Slots -> Slots] /\ waitChan \in [Slots -> Slots]
  OBVIOUS
<1>4. LaunchedFirst
  BY DEF LaunchedFirst
<1> QED BY <1>1, <1>2, <1>3, <1>4 DEF TypeInv, TypeOK

(* The callers, the supervisor and the environment leave the goroutines of *)
(* the launches alone.                                                     *)
LEMMA TypeInvOutside ==
    ASSUME TypeInv,
           \/ \E c \in Clients, signal \in {"restart", "shutdown"} : Request(c, signal)
           \/ SetBackend \/ Supervisor \/ MinutePasses
           \/ \E g \in Slots : Exit(g)
           \/ UNCHANGED vars
    PROVE  TypeInv'
<1> USE MaxTriesAssumption DEF MaxTriesAssumption, TypeInv, TypeOK, LaunchedFirst, TriesCap, vars,
        flags, counter, launches
<1>1. ASSUME NEW c \in Clients, NEW signal \in {"restart", "shutdown"},
             Request(c, signal)
      PROVE  TypeInv'
  BY <1>1 DEF Request
<1>2. CASE SetBackend
  BY <1>2 DEF SetBackend
<1>3. CASE Supervisor
  <2>1. CASE SeeSupervised
    BY <2>1 DEF SeeSupervised
  <2>4. CASE SeeRunning
    BY <2>4 DEF SeeRunning
  <2>5. CASE Unsupervise
    BY <2>5 DEF Unsupervise
  <2>2. CASE Retry
    BY <2>2 DEF Retry, CountedRestarts, TriesLeft
  <2>3. CASE GiveUp
    <3>1. CountedRestarts \in 1 .. MaxTries + 1
      BY DEF CountedRestarts
    <3> QED BY <2>3, <3>1 DEF GiveUp
  <2> QED BY <1>3, <2>1, <2>2, <2>3, <2>4, <2>5 DEF Supervisor
<1>4. CASE MinutePasses
  BY <1>4 DEF MinutePasses
<1>5. ASSUME NEW g \in Slots, Exit(g)
      PROVE  TypeInv'
  BY <1>5 DEF Exit
<1>6. CASE UNCHANGED vars
  BY <1>6
<1> QED BY <1>1, <1>2, <1>3, <1>4, <1>5, <1>6

LEMMA TypeInvProcessor ==
    ASSUME TypeInv,
           Processor \/ ReceiveSupervisor \/ \E c \in Clients : Receive(c)
    PROVE  TypeInv'
<1> USE MaxTriesAssumption DEF MaxTriesAssumption, TypeInv, TypeOK, LaunchedFirst, TriesCap,
        flags, counter, launches
<1>1. CASE ReceiveSupervisor
  BY <1>1 DEF ReceiveSupervisor, Handle
<1>2. ASSUME NEW c \in Clients, Receive(c)
      PROVE  TypeInv'
  BY <1>2 DEF Receive, Handle
<1>3. CASE StopBegins
  BY <1>3 DEF StopBegins, EndStop, AfterStop
<1>4. CASE GraceEnds
  BY <1>4 DEF GraceEnds
<1>5. CASE JudgeStopped
  BY <1>5 DEF JudgeStopped, EndStop, AfterStop
<1>6. CASE JudgeHanging
  BY <1>6 DEF JudgeHanging
<1>7. CASE StartFails
  BY <1>7 DEF StartFails
<1>8. ASSUME NEW g \in Slots, NEW started \in BOOLEAN, Launch(g, started)
      PROVE  TypeInv'
  <2>1. TypeOK'
    <3>1. tries' \in 0 .. TriesCap /\ status' \in {"running", "error", "stopped"}
      BY <1>8 DEF Launch
    <3>2. /\ proc' \in [Slots -> {"gone", "unstarted", "alive", "killed"}]
          /\ mon' \in [Slots -> {"none", "spawned", "listen", "exitOk", "exitErr",
                                 "timeout", "cleared", "ack"}]
          /\ waiter' \in [Slots -> {"none", "waiting", "awaitAck"}]
      BY <1>8 DEF Launch
    <3> QED BY <1>8, <3>1, <3>2 DEF Launch
  <2>2. LaunchedFirst'
    BY <1>8, SlotsAssumption DEF SlotsAssumption, Launch
  <2> QED BY <2>1, <2>2
<1> QED BY <1>1, <1>2, <1>3, <1>4, <1>5, <1>6, <1>7, <1>8 DEF Processor

LEMMA TypeInvLaunches ==
    ASSUME TypeInv, Rendezvous \/ \E g \in Slots : Monitor(g)
    PROVE  TypeInv'
<1> USE DEF TypeInv, TypeOK, LaunchedFirst, flags, counter
<1>1. ASSUME NEW g \in Slots, Monitor(g)
      PROVE  TypeInv'
  <2>1. CASE MonitorBegins(g)
    BY <1>1, <2>1 DEF MonitorBegins
  <2>2. CASE MonitorClears(g)
    BY <1>1, <2>2 DEF MonitorClears
  <2>3. CASE MonitorConfirms(g)
    BY <1>1, <2>3 DEF MonitorConfirms
  <2> QED BY <1>1, <2>1, <2>2, <2>3 DEF Monitor
<1>2. ASSUME NEW g \in Slots,
             \/ TimeoutToMonitor(g) \/ TimeoutToWaiter(g)
             \/ ExitToProcessor(g) \/ AckToProcessor(g)
      PROVE  TypeInv'
  BY <1>2 DEF TimeoutToMonitor, TimeoutToWaiter, ExitToProcessor, AckToProcessor,
              UnchangedByRendezvous, MonitorReturns, WaiterReturns, EndStop, AfterStop
<1>3. ASSUME NEW g \in Slots, NEW h \in Slots,
             \/ \E result \in {"exitOk", "exitErr"} : ExitToMonitor(g, h, result)
             \/ ExitToWaiter(g, h) \/ AckToWaiter(g, h) \/ AckToMonitor(g, h)
      PROVE  TypeInv'
  BY <1>3 DEF ExitToMonitor, ExitToWaiter, AckToWaiter, AckToMonitor,
              UnchangedByRendezvous, MonitorReturns, WaiterReturns
<1> QED BY <1>1, <1>2, <1>3 DEF Rendezvous

(* Every variable keeps its type; in particular stop(), the monitors and   *)
(* the waiters never use a cmd or a terminate channel that start() has not *)
(* made.                                                                   *)
THEOREM TypeCorrect == Spec => []TypeOK
<1>1. TypeInv /\ [Next]_vars => TypeInv'
  BY TypeInvOutside, TypeInvProcessor, TypeInvLaunches DEF Next
<1> QED BY InitTypeInv, <1>1, PTL DEF Spec, TypeInv

-----------------------------------------------------------------------------
LEMMA CounterKeepsUpStep ==
    ASSUME TypeOK, CounterKeepsUp, [Next]_vars
    PROVE  CounterKeepsUp'
<1> USE MaxTriesAssumption DEF MaxTriesAssumption, CounterKeepsUp, TypeOK, TriesCap
<1>1. CASE SetBackend
  BY <1>1 DEF SetBackend
<1>2. CASE Retry
  BY <1>2 DEF Retry, CountedRestarts, TriesLeft
<1>3. CASE GiveUp
  BY <1>3 DEF GiveUp, CountedRestarts, TriesLeft
<1>4. CASE MinutePasses
  BY <1>4 DEF MinutePasses
<1>5. ASSUME NEW g \in Slots, NEW started \in BOOLEAN, Launch(g, started)
      PROVE  CounterKeepsUp'
  BY <1>5 DEF Launch
<1>6. CASE UNCHANGED counter
  BY <1>6 DEF counter
<1>7. UNCHANGED counter \/ SetBackend \/ Retry \/ GiveUp \/ MinutePasses
      \/ \E g \in Slots, started \in BOOLEAN : Launch(g, started)
  BY DEF Next, vars, Request, Supervisor, SeeSupervised, SeeRunning, Unsupervise,
         Receive, ReceiveSupervisor, Handle, Processor, StopBegins, GraceEnds,
         JudgeStopped, JudgeHanging, StartFails, Monitor, MonitorBegins,
         MonitorClears, MonitorConfirms, Exit, Rendezvous, UnchangedByRendezvous,
         TimeoutToMonitor, TimeoutToWaiter, ExitToMonitor, ExitToProcessor,
         ExitToWaiter, AckToProcessor, AckToWaiter, AckToMonitor
<1> QED BY <1>1, <1>2, <1>3, <1>4, <1>5, <1>6, <1>7

(* Since the last update of the backend, and while no launch gets a minute *)
(* old, the supervisor decides on MaxTries restarts and no more: for every *)
(* MaxTries, every number of callers and every interleaving of the         *)
(* restarts they ask for with its own.                                     *)
THEOREM CrashLoopIsBounded == Spec => []CrashLoopBounded
<1>1. Init => CounterKeepsUp
  BY DEF Init, CounterKeepsUp
<1>2. TypeOK /\ CounterKeepsUp /\ [Next]_vars => CounterKeepsUp'
  BY CounterKeepsUpStep
<1>3. TypeOK /\ CounterKeepsUp => CrashLoopBounded
  BY MaxTriesAssumption DEF MaxTriesAssumption, TypeOK, CounterKeepsUp, CrashLoopBounded, TriesCap
<1> QED BY <1>1, <1>2, <1>3, TypeCorrect, PTL DEF Spec

-----------------------------------------------------------------------------
LEMMA RunningHasMonitorStep ==
    ASSUME TypeOK, RunningHasMonitor, [Next]_vars
    PROVE  RunningHasMonitor'
<1> USE DEF RunningHasMonitor, TypeOK
<1>1. CASE UNCHANGED <<isRunning, mon>>
  BY <1>1
<1>2. ASSUME NEW g \in Slots, NEW started \in BOOLEAN, Launch(g, started)
      PROVE  RunningHasMonitor'
  BY <1>2 DEF Launch
<1>3. ASSUME NEW g \in Slots, Monitor(g)
      PROVE  RunningHasMonitor'
  <2>1. CASE MonitorBegins(g)
    BY <1>3, <2>1 DEF MonitorBegins
  <2>2. CASE MonitorClears(g)
    BY <1>3, <2>2 DEF MonitorClears
  <2>3. CASE MonitorConfirms(g)
    BY <1>3, <2>3 DEF MonitorConfirms, flags
  <2> QED BY <1>3, <2>1, <2>2, <2>3 DEF Monitor
<1>4. ASSUME NEW g \in Slots, TimeoutToMonitor(g) \/ AckToProcessor(g)
      PROVE  RunningHasMonitor'
  BY <1>4 DEF TimeoutToMonitor, AckToProcessor, UnchangedByRendezvous, flags
<1>5. ASSUME NEW g \in Slots, NEW h \in Slots,
             \/ \E result \in {"exitOk", "exitErr"} : ExitToMonitor(g, h, result)
             \/ AckToWaiter(g, h) \/ AckToMonitor(g, h)
      PROVE  RunningHasMonitor'
  BY <1>5 DEF ExitToMonitor, AckToWaiter, AckToMonitor, UnchangedByRendezvous, flags
<1>6. \/ UNCHANGED <<isRunning, mon>>
      \/ \E g \in Slots, started \in BOOLEAN : Launch(g, started)
      \/ \E g \in Slots : Monitor(g) \/ TimeoutToMonitor(g) \/ AckToProcessor(g)
      \/ \E g, h \in Slots :
            \/ \E result \in {"exitOk", "exitErr"} : ExitToMonitor(g, h, result)
            \/ AckToWaiter(g, h) \/ AckToMonitor(g, h)
  BY DEF Next, vars, flags, launches, Request, SetBackend, Supervisor,
         SeeSupervised, SeeRunning, Retry, GiveUp, Unsupervise, Receive,
         ReceiveSupervisor, Handle, Processor, StopBegins, GraceEnds, JudgeStopped,
         JudgeHanging, StartFails, Exit, Rendezvous, UnchangedByRendezvous,
         TimeoutToWaiter, ExitToProcessor, ExitToWaiter, MinutePasses
<1> QED BY <1>1, <1>2, <1>3, <1>4, <1>5, <1>6

(* However the launches of a runner overlap, isRunning is never left TRUE  *)
(* with no monitor to clear it.                                            *)
THEOREM RunningIsMonitored == Spec => []RunningHasMonitor
<1>1. Init => RunningHasMonitor
  BY DEF Init, RunningHasMonitor
<1>2. TypeOK /\ RunningHasMonitor /\ [Next]_vars => RunningHasMonitor'
  BY RunningHasMonitorStep
<1> QED BY <1>1, <1>2, TypeCorrect, PTL DEF Spec
=============================================================================
