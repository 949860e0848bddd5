------------------------ MODULE ExecRunnerCalmProofs ------------------------
(***************************************************************************)
(* What holds of the runner of a process, for any number of launches and   *)
(* callers, when launches and exits are noticed in time: that nothing runs *)
(* twice, that a shutdown is thorough, what Running() and the status tell, *)
(* and that it implements the abstract runner.  The other races (timeout,  *)
(* look, giveUp) may be lost as far as a theorem does not exclude them.    *)
(*                                                                         *)
(* The argument: channels are those of their own launch, only the current  *)
(* launch has a monitor, and the stage of that monitor determines the flag *)
(* isRunning, its waiter and where the signal processor can be.            *)
(***************************************************************************)
EXTENDS ExecRunnerProofs

(* A launch that begins and an exit are noticed before isRunning is read.  *)
NoticedInTime == "spawn" \notin Races /\ "exit" \notin Races

(* The supervisor looks, and gives up, between signals.                    *)
LooksAndLeavesInTime == "look" \notin Races /\ "giveUp" \notin Races

OwnChannels ==
    \A g \in Slots :
       /\ monChan[g] = g /\ waitChan[g] = g
       /\ mon[g] # "none" => g = current

Stage(g) ==
    /\ mon[g] = "spawned" => ~isRunning /\ sp = "idle"
    /\ mon[g] = "listen" => isRunning /\ waiter[g] = "waiting"
    /\ mon[g] \in {"exitOk", "exitErr"} =>
          isRunning /\ (waiter[g] = "awaitAck" \/ sp = "awaitAck")
    /\ mon[g] = "timeout" =>
          isRunning /\ (waiter[g] = "awaitAck" \/ (waiter[g] = "waiting" /\ sp = "awaitAck"))
    /\ mon[g] \in {"cleared", "ack"} =>
          ~isRunning /\ (waiter[g] = "awaitAck" \/ sp = "awaitAck")

Stages ==
    /\ \A g \in Slots : Stage(g)
    /\ isRunning => current # NoSlot /\ mon[current] \in {"listen", "exitOk", "exitErr", "timeout"}

(* The waiters, the processes, and what a launch has set.  A confirmation  *)
(* is awaited by the waiter or by the processor, never by both.            *)
Launched(g) ==
    /\ waiter[g] = "awaitAck" =>
          mon[g] \in {"exitOk", "exitErr", "timeout", "cleared", "ack"} /\ sp # "awaitAck"
    /\ proc[g] = "alive" => mon[g] \in {"spawned", "listen"}
    /\ mon[g] \in {"spawned", "listen"} =>
          /\ proc[g] = "unstarted" \/ status = "running"
          /\ "giveUp" \notin Races /\ sp \in {"idle", "stop"} => isSupervised
          /\ proc[g] = "killed" => sp \in {"judge", "sendTimeout"}

Processing ==
    /\ sp = "idle" <=> handling = "none"
    /\ handling = "shutdown" => sp # "start"
    /\ sp = "start" => \A g \in Slots : mon[g] \notin {"spawned", "listen"}
    /\ sp \in {"grace", "judge", "sendTimeout", "awaitAck"} => current # NoSlot /\ ~isSupervised
    /\ sp \in {"judge", "sendTimeout", "awaitAck"} => proc[current] # "alive"
    /\ sp = "sendTimeout" => mon[current] # "timeout"
    /\ sp = "awaitAck" => mon[current] \in {"exitOk", "exitErr", "timeout", "cleared", "ack"}

Supervising ==
    /\ "look" \notin Races /\ sup = "check" => isSupervised
    /\ "giveUp" \notin Races /\ sup = "giveUp" => \A g \in Slots : mon[g] = "none"
    /\ {"look", "giveUp"} \cap Races = {} /\ sup = "giveUp" => isSupervised

Order == OwnChannels /\ Stages /\ (\A g \in Slots : Launched(g)) /\ Processing /\ Supervising

-----------------------------------------------------------------------------
LEMMA SettledMeans ==
    ASSUME NoticedInTime, Order, Settled
    PROVE \A g \in Slots : mon[g] = "none" \/ (mon[g] = "listen" /\ Alive(g))
PROOF BY DEF NoticedInTime, Settled, Order, OwnChannels

LEMMA SignalMeans ==
    ASSUME SignalMayBeHandled
    PROVE Settled /\ ("look" \notin Races => sup # "check") /\ ("giveUp" \notin Races => sup # "giveUp")
PROOF BY DEF SignalMayBeHandled

LEMMA InitOrder == Init => Order
PROOF BY DEF Init, Order, OwnChannels, Stages, Stage, Launched, Processing, Supervising, HandingOver

LEMMA OutsideKeepsOrder ==
    ASSUME NoticedInTime, TypeOK, Order,
           \/ \E c \in Clients, signal \in {"restart", "shutdown"} : Request(c, signal)
           \/ SetBackend \/ MinutePasses \/ UNCHANGED vars
           \/ \E g \in Slots : Exit(g)
    PROVE Order'
PROOF
<1> USE DEF TypeOK, Order, OwnChannels, Stages, Stage, Launched, Processing, Supervising,
            HandingOver, flags, launches
<1>1. CASE \E c \in Clients, signal \in {"restart", "shutdown"} : Request(c, signal)
      BY <1>1 DEF Request
<1>2. CASE SetBackend
      BY <1>2 DEF SetBackend
<1>3. CASE MinutePasses
      BY <1>3 DEF MinutePasses
<1>4. CASE UNCHANGED vars
      BY <1>4 DEF vars
<1>5. ASSUME NEW g \in Slots, Exit(g) PROVE Order'
      BY <1>5 DEF Exit, Alive
<1>6. QED
      BY <1>1, <1>2, <1>3, <1>4, <1>5

LEMMA SupervisorKeepsOrder ==
    ASSUME NoticedInTime, TypeOK, Order, Supervisor
    PROVE Order'
PROOF
<1> USE DEF TypeOK, Order, OwnChannels, Stages, Stage, Launched, Processing, Supervising,
            HandingOver, flags, launches
<1>1. CASE SeeSupervised
      BY <1>1 DEF SeeSupervised
<1>2. CASE SeeRunning \/ Retry
      BY <1>2 DEF SeeRunning, Retry
<1>3. CASE GiveUp
      BY <1>3, SettledMeans DEF GiveUp
<1>4. CASE Unsupervise
      BY <1>4 DEF Unsupervise
<1>5. QED
      BY <1>1, <1>2, <1>3, <1>4 DEF Supervisor

LEMMA ProcessorKeepsOrder ==
    ASSUME NoticedInTime, TypeOK, Order,
           Processor \/ ReceiveSupervisor \/ \E c \in Clients : Receive(c)
    PROVE Order'
PROOF
<1>0. /\ SignalMayBeHandled /\ Settled
      /\ "look" \notin Races => sup # "check"
      /\ "giveUp" \notin Races => sup # "giveUp"
      BY SignalMeans DEF Processor, ReceiveSupervisor, Receive, Handle, StopBegins, GraceEnds,
             JudgeStopped, JudgeHanging, StartFails, Launch
<1>1. \A g \in Slots : mon[g] = "none" \/ (mon[g] = "listen" /\ Alive(g))
      BY <1>0, SettledMeans
<1> USE DEF TypeOK, Order, OwnChannels, Stages, Stage, Launched, Processing, Supervising,
            HandingOver, flags, launches, counter
<1>2. CASE ReceiveSupervisor
      BY <1>0, <1>1, <1>2 DEF ReceiveSupervisor, Handle
<1>3. ASSUME NEW c \in Clients, Receive(c) PROVE Order'
      BY <1>0, <1>1, <1>3 DEF Receive, Handle
<1>4. CASE StopBegins
      BY <1>0, <1>1, <1>4 DEF StopBegins, EndStop, AfterStop, Alive
<1>5. CASE GraceEnds
      BY <1>0, <1>1, <1>5 DEF GraceEnds
<1>6. CASE JudgeStopped
      BY <1>0, <1>1, <1>6 DEF JudgeStopped, EndStop, AfterStop
<1>7. CASE JudgeHanging
      BY <1>0, <1>1, <1>7 DEF JudgeHanging
<1>8. CASE StartFails
      BY <1>0, <1>1, <1>8 DEF StartFails
<1>9. ASSUME NEW g \in Slots, NEW started \in BOOLEAN, Launch(g, started) PROVE Order'
      BY <1>0, <1>1, <1>9, SlotsAssumption DEF Launch, Free
<1>10. QED
       BY <1>2, <1>3, <1>4, <1>5, <1>6, <1>7, <1>8, <1>9 DEF Processor

LEMMA MonitorKeepsOrder ==
    ASSUME NoticedInTime, TypeOK, LaunchedFirst, Order, NEW g \in Slots, Monitor(g)
    PROVE Order'
PROOF
<1> USE DEF TypeOK, LaunchedFirst, Order, OwnChannels, Stages, Stage, Launched, Processing,
            Supervising, HandingOver, flags, counter
<1>1. CASE MonitorBegins(g)
      BY <1>1 DEF MonitorBegins
<1>2. CASE MonitorClears(g)
      BY <1>2 DEF MonitorClears
<1>3. CASE MonitorConfirms(g)
      BY <1>3 DEF MonitorConfirms
<1>4. QED
      BY <1>1, <1>2, <1>3 DEF Monitor

LEMMA RendezvousKeepsOrder ==
    ASSUME NoticedInTime, TypeOK, Order, Rendezvous
    PROVE Order'
PROOF
<1> USE DEF TypeOK, Order, OwnChannels, Stages, Stage, Launched, Processing, Supervising,
            HandingOver, flags, counter, UnchangedByRendezvous, MonitorReturns, WaiterReturns
<1>1. ASSUME NEW g \in Slots, TimeoutToMonitor(g) PROVE Order'
      BY <1>1 DEF TimeoutToMonitor
<1>2. ASSUME NEW g \in Slots, TimeoutToWaiter(g) PROVE Order'
      BY <1>2 DEF TimeoutToWaiter
<1>3. ASSUME NEW g \in Slots, ExitToProcessor(g) PROVE Order'
      BY <1>3 DEF ExitToProcessor, Exited, EndStop, AfterStop
<1>4. ASSUME NEW g \in Slots, AckToProcessor(g) PROVE Order'
      BY <1>4 DEF AckToProcessor, EndStop, AfterStop
<1>5. ASSUME NEW g \in Slots, NEW h \in Slots, NEW result \in {"exitOk", "exitErr"},
             ExitToMonitor(g, h, result)
      PROVE Order'
      BY <1>5 DEF ExitToMonitor, Exited, ExitMayBeSeen, Alive
<1>6. ASSUME NEW g \in Slots, NEW h \in Slots, ExitToWaiter(g, h) PROVE FALSE
      BY <1>6 DEF ExitToWaiter, Exited
<1>7. ASSUME NEW g \in Slots, NEW h \in Slots, AckToWaiter(g, h) PROVE Order'
      BY <1>7 DEF AckToWaiter
<1>8. ASSUME NEW g \in Slots, NEW h \in Slots, AckToMonitor(g, h) PROVE FALSE
      BY <1>8 DEF AckToMonitor
<1>9. QED
      BY <1>1, <1>2, <1>3, <1>4, <1>5, <1>6, <1>7, <1>8 DEF Rendezvous

IInv == TypeOK /\ LaunchedFirst /\ Order

LEMMA OrderHolds == ASSUME NoticedInTime PROVE Spec => []IInv
PROOF
<1>1. Init => Order
      BY InitOrder
<1>2. TypeOK /\ LaunchedFirst /\ Order /\ [Next]_vars => Order'
  <2>1. ASSUME TypeOK, LaunchedFirst, Order, [Next]_vars PROVE Order'
        BY <2>1, OutsideKeepsOrder, SupervisorKeepsOrder, ProcessorKeepsOrder,
           MonitorKeepsOrder, RendezvousKeepsOrder DEF Next
  <2>2. QED
        BY <2>1
<1>3. TypeInv /\ [Next]_vars => TypeInv'
      BY TypeInvOutside, TypeInvProcessor, TypeInvLaunches DEF Next
<1>4. QED
      BY <1>1, <1>2, <1>3, InitTypeInv, PTL DEF Spec, TypeInv, IInv

(* OldLaunchesKilled of ExecRunner: a launch that is no longer current was *)
(* killed, if its process is there at all, even when the supervisor looks  *)
(* or gives up in the middle of a signal, or an exit overtakes a stop.     *)
THEOREM NoSecondCollector == ASSUME NoticedInTime PROVE Spec => []OldLaunchesKilled
PROOF
<1>1. IInv => OldLaunchesKilled
      BY DEF IInv, TypeOK, Order, OwnChannels, Launched, OldLaunchesKilled, Alive
<1>2. QED
      BY <1>1, OrderHolds, PTL

(* QuietIsConsistent of ExecRunner: between two signals the flags and the  *)
(* status sent to the server agree with the process, unless the supervisor *)
(* gave up while a signal was handled.                                     *)
THEOREM QuietTellsTheTruth ==
    ASSUME NoticedInTime, "giveUp" \notin Races
    PROVE Spec => []QuietIsConsistent
PROOF
<1>1. ASSUME IInv, sp = "idle", Settled
      PROVE /\ isRunning <=> (current # NoSlot /\ proc[current] = "alive")
            /\ isRunning => isSupervised /\ status = "running"
  <2>1. \A g \in Slots : mon[g] = "none" \/ (mon[g] = "listen" /\ Alive(g))
        BY <1>1, SettledMeans DEF IInv
  <2>2. current # NoSlot => current \in Slots
        BY <1>1 DEF IInv, TypeOK
  <2>3. ASSUME isRunning PROVE current # NoSlot /\ proc[current] = "alive"
        BY <1>1, <2>1, <2>2, <2>3
        DEF IInv, TypeOK, Order, Stages, Launched, Alive
  <2>4. ASSUME current # NoSlot, proc[current] = "alive" PROVE isRunning
        BY <1>1, <2>1, <2>2, <2>4 DEF IInv, Order, Stages, Stage, Launched
  <2>5. isRunning => isSupervised /\ status = "running"
        BY <1>1, <2>1, <2>2 DEF IInv, Order, Stages, Launched, Alive
  <2>6. QED
        BY <1>1, <2>3, <2>4, <2>5 DEF IInv, TypeOK
<1>2. IInv => QuietIsConsistent
      BY <1>1 DEF QuietIsConsistent
<1>3. QED
      BY <1>2, OrderHolds, PTL

LEMMA AnswerMeans ==
    ASSUME NoticedInTime, IInv, Settled
    PROVE /\ isRunning => AbstractProcess # "down"
          /\ ~isRunning => AbstractProcess # "up"
PROOF
<1>1. \A g \in Slots : mon[g] = "none" \/ (mon[g] = "listen" /\ Alive(g))
      BY SettledMeans DEF IInv
<1>2. QED
      BY <1>1 DEF IInv, TypeOK, Order, Stages, Stage, Launched, Alive, AbstractProcess

(* AnswersTruly of ExecRunner: what Running() says is what the abstract    *)
(* runner may say.                                                         *)
THEOREM AnswersAreTrue == ASSUME NoticedInTime PROVE Spec => []AnswersTruly
PROOF
<1>1. IInv => AnswersTruly
      BY AnswerMeans DEF AnswersTruly, Abstract!Answers, This, IInv, TypeOK
<1>2. QED
      BY <1>1, OrderHolds, PTL

-----------------------------------------------------------------------------
(* Every step is one of the abstract runner's, or none.                    *)
Steps == [Abstract!RunnerNext]_(Abstract!runnerVars)

LEMMA AbstractStutters ==
    ASSUME UNCHANGED <<AbstractProcess, AbstractBusy, isSupervised, sup = "send", pending>>
    PROVE Steps
PROOF BY DEF Steps, Abstract!runnerVars

LEMMA OutsideRefines ==
    ASSUME NoticedInTime, IInv,
           \/ \E c \in Clients, signal \in {"restart", "shutdown"} : Request(c, signal)
           \/ SetBackend \/ MinutePasses \/ UNCHANGED vars
           \/ \E g \in Slots : Monitor(g) \/ Exit(g)
    PROVE Steps
PROOF
<1> USE DEF flags, launches, counter
<1>1. ASSUME NEW c \in Clients, NEW signal \in {"restart", "shutdown"}, Request(c, signal)
      PROVE Steps
  <2>1. Abstract!Call(This, c, signal)
        BY <1>1 DEF Request, Abstract!Call, AbstractProcess, AbstractBusy, IInv, TypeOK
  <2>2. QED
        BY <2>1 DEF Steps, Abstract!RunnerNext
<1>2. CASE SetBackend \/ MinutePasses \/ UNCHANGED vars \/ \E g \in Slots : Monitor(g)
      BY <1>2, AbstractStutters
      DEF SetBackend, MinutePasses, vars, Monitor, MonitorBegins, MonitorClears,
          MonitorConfirms, AbstractProcess, AbstractBusy
<1>3. ASSUME NEW g \in Slots, Exit(g) PROVE Steps
  <2>1. CASE g = current
    <3>1. Abstract!Exit(This)
          BY <1>3, <2>1, SlotsAssumption
          DEF Exit, Alive, Abstract!Exit, AbstractProcess, AbstractBusy, IInv, TypeOK
    <3>2. QED
          BY <3>1 DEF Steps, Abstract!RunnerNext
  <2>2. CASE g # current
        BY <1>3, <2>2, AbstractStutters
        DEF Exit, AbstractProcess, AbstractBusy, IInv, TypeOK
  <2>3. QED
        BY <2>1, <2>2
<1>4. QED
      BY <1>1, <1>2, <1>3

LEMMA SupervisorRefines ==
    ASSUME NoticedInTime, LooksAndLeavesInTime, IInv, Supervisor
    PROVE Steps
PROOF
<1> USE DEF flags, launches, counter
<1>1. CASE SeeSupervised \/ SeeRunning \/ GiveUp
      BY <1>1, AbstractStutters
      DEF SeeSupervised, SeeRunning, GiveUp, AbstractProcess, AbstractBusy
<1>2. CASE Retry
  <2>1. FALSE \in Abstract!Answers(This)
        BY <1>2, AnswerMeans DEF Retry, Abstract!Answers
  <2>2. Abstract!Ask(This)
        BY <1>2, <2>1
        DEF LooksAndLeavesInTime, Retry, Abstract!Ask, AbstractProcess, AbstractBusy, IInv,
            Order, Supervising
  <2>3. QED
        BY <2>2 DEF Steps, Abstract!RunnerNext
<1>3. CASE Unsupervise
  <2>1. AbstractProcess # "up"
        BY <1>3
        DEF LooksAndLeavesInTime, Unsupervise, IInv, TypeOK, Order, Launched, Supervising,
            AbstractProcess
  <2>2. FALSE \in Abstract!Answers(This)
        BY <2>1 DEF Abstract!Answers
  <2>3. Abstract!GiveUp(This)
        BY <1>3, <2>2
        DEF LooksAndLeavesInTime, Unsupervise, Abstract!GiveUp, AbstractProcess, AbstractBusy,
            IInv, Order, Supervising
  <2>4. QED
        BY <2>3 DEF Steps, Abstract!RunnerNext
<1>4. QED
      BY <1>1, <1>2, <1>3 DEF Supervisor

LEMMA SignalsRefine ==
    ASSUME NoticedInTime, IInv, ReceiveSupervisor \/ \E c \in Clients : Receive(c)
    PROVE Steps
PROOF
<1> USE DEF flags, launches, counter, Handle, AbstractProcess, AbstractBusy, IInv, TypeOK, Order, Processing
<1>1. CASE ReceiveSupervisor
  <2>1. Abstract!TakeAsked(This)
        BY <1>1 DEF ReceiveSupervisor, Abstract!TakeAsked
  <2>2. QED
        BY <2>1 DEF Steps, Abstract!RunnerNext
<1>2. ASSUME NEW c \in Clients, Receive(c) PROVE Steps
  <2>1. Abstract!Take(This, c)
        BY <1>2 DEF Receive, Abstract!Take
  <2>2. QED
        BY <2>1 DEF Steps, Abstract!RunnerNext
<1>3. QED
      BY <1>1, <1>2

(* A stop that ends is the end of a shutdown, or half of a restart.        *)
LEMMA StopRefines ==
    ASSUME IInv, sp \notin {"idle", "start"}, AbstractProcess # "up", EndStop,
           isSupervised' = FALSE, UNCHANGED <<AbstractProcess, sup, pending>>
    PROVE Steps
PROOF
<1>1. CASE handling = "shutdown"
  <2>1. AbstractBusy = "shutdown" /\ AbstractBusy' = "none"
        BY <1>1 DEF EndStop, AfterStop, AbstractBusy
  <2>2. Abstract!EndStop(This)
        BY <2>1 DEF Abstract!EndStop
  <2>3. QED
        BY <2>2 DEF Steps, Abstract!RunnerNext, Abstract!Handles
<1>2. CASE handling # "shutdown"
  <2>1. AbstractBusy # "none" /\ AbstractBusy' = AbstractBusy
        BY <1>2 DEF EndStop, AfterStop, AbstractBusy, IInv, Order, Processing
  <2>2. Abstract!BeginStop(This)
        BY <2>1 DEF Abstract!BeginStop
  <2>3. QED
        BY <2>2 DEF Steps, Abstract!RunnerNext, Abstract!Handles
<1>3. QED
      BY <1>1, <1>2

LEMMA StartFindsItDown ==
    ASSUME IInv, sp = "start"
    PROVE AbstractProcess # "up"
PROOF BY DEF AbstractProcess, IInv, TypeOK, Order, Processing, Launched

LEMMA ProcessorRefines ==
    ASSUME NoticedInTime, IInv, Processor
    PROVE Steps
PROOF
<1>0. Settled
      BY SignalMeans
      DEF Processor, StopBegins, GraceEnds, JudgeStopped, JudgeHanging, StartFails, Launch
<1> USE DEF flags, launches, counter
<1>1. CASE StopBegins
  <2>1. isSupervised' = FALSE /\ UNCHANGED <<AbstractProcess, sup, pending>>
        BY <1>1 DEF StopBegins, AbstractProcess
  <2>2. CASE current = NoSlot \/ proc[current] = "unstarted"
        BY <1>1, <2>1, <2>2, StopRefines DEF StopBegins, AbstractProcess
  <2>3. CASE ~(current = NoSlot \/ proc[current] = "unstarted")
    <3>1. Abstract!BeginStop(This)
          BY <1>1, <2>1, <2>3
          DEF StopBegins, Abstract!BeginStop, AbstractBusy, IInv, TypeOK, Order, Processing
    <3>2. QED
          BY <3>1 DEF Steps, Abstract!RunnerNext, Abstract!Handles
  <2>4. QED
        BY <2>2, <2>3
<1>2. CASE GraceEnds
  <2>1. CASE proc' = proc
        BY <1>2, <2>1, AbstractStutters DEF GraceEnds, AbstractProcess, AbstractBusy
  <2>2. CASE proc' # proc
    <3>1. AbstractProcess = "up" /\ AbstractProcess' = "doomed" /\ ~isSupervised
          BY <1>2, <2>2, SlotsAssumption
          DEF GraceEnds, AbstractProcess, IInv, TypeOK, Order, Processing
    <3>2. Abstract!Kill(This)
          BY <1>2, <3>1
          DEF GraceEnds, Abstract!Kill, AbstractBusy, IInv, TypeOK, Order, Processing
    <3>3. QED
          BY <3>2 DEF Steps, Abstract!RunnerNext, Abstract!Handles
  <2>3. QED
        BY <2>1, <2>2
<1>3. CASE JudgeStopped
  <2>1. AbstractProcess # "up"
        BY <1>0, <1>3, AnswerMeans DEF JudgeStopped
  <2>2. isSupervised' = FALSE
        BY <1>3 DEF JudgeStopped, IInv, TypeOK, Order, Processing
  <2>3. QED
        BY <1>3, <2>1, <2>2, StopRefines DEF JudgeStopped, AbstractProcess
<1>4. CASE JudgeHanging
      BY <1>4, AbstractStutters DEF JudgeHanging, AbstractProcess, AbstractBusy
<1>5. CASE StartFails
  <2>1. AbstractBusy = "restart" /\ AbstractBusy' = "none"
        BY <1>5 DEF StartFails, AbstractBusy, IInv, TypeOK, Order, Processing
  <2>2. Abstract!StartFails(This)
        BY <1>5, <2>1, StartFindsItDown DEF StartFails, Abstract!StartFails, AbstractProcess
  <2>3. QED
        BY <2>2 DEF Steps, Abstract!RunnerNext
<1>6. ASSUME NEW g \in Slots, NEW started \in BOOLEAN, Launch(g, started) PROVE Steps
  <2>1. AbstractProcess # "up" /\ AbstractBusy = "restart" /\ AbstractBusy' = "none"
        BY <1>0, <1>6, AnswerMeans
        DEF Launch, AbstractBusy, IInv, TypeOK, Order, Processing
  <2>2. AbstractProcess' = IF started THEN "up" ELSE "down"
        BY <1>6, SlotsAssumption DEF Launch, AbstractProcess, IInv, TypeOK
  <2>3. Abstract!Launch(This, started)
        BY <1>6, <2>1, <2>2 DEF Launch, Abstract!Launch
  <2>4. QED
        BY <2>3 DEF Steps, Abstract!RunnerNext
<1>7. QED
      BY <1>1, <1>2, <1>3, <1>4, <1>5, <1>6 DEF Processor

LEMMA RendezvousRefines ==
    ASSUME NoticedInTime, IInv, Rendezvous
    PROVE Steps
PROOF
<1> USE DEF flags, counter, UnchangedByRendezvous
<1>1. ASSUME NEW g \in Slots, TimeoutToMonitor(g) \/ TimeoutToWaiter(g) PROVE Steps
      BY <1>1, AbstractStutters
      DEF TimeoutToMonitor, TimeoutToWaiter, AbstractProcess, AbstractBusy
<1>2. ASSUME NEW g \in Slots, ExitToProcessor(g) \/ AckToProcessor(g) PROVE Steps
  <2>1. AbstractProcess # "up" /\ isSupervised' = FALSE
        BY <1>2
        DEF ExitToProcessor, AckToProcessor, AbstractProcess, IInv, TypeOK, Order, Processing
  <2>2. QED
        BY <1>2, <2>1, StopRefines DEF ExitToProcessor, AckToProcessor, AbstractProcess
<1>3. ASSUME NEW g \in Slots, NEW h \in Slots,
             \/ \E result \in {"exitOk", "exitErr"} : ExitToMonitor(g, h, result)
             \/ ExitToWaiter(g, h) \/ AckToWaiter(g, h) \/ AckToMonitor(g, h)
      PROVE Steps
      BY <1>3, AbstractStutters
      DEF ExitToMonitor, ExitToWaiter, AckToWaiter, AckToMonitor, AbstractProcess, AbstractBusy
<1>4. QED
      BY <1>1, <1>2, <1>3 DEF Rendezvous

(* ImplementsRunner of ExecRunner: the goroutines, flags and channels of   *)
(* an exec runner amount to the runner on which the control loop and the   *)
(* distributor of Daemon rely.                                             *)
THEOREM RunnerIsImplemented ==
    ASSUME NoticedInTime, LooksAndLeavesInTime
    PROVE Spec => ImplementsRunner
PROOF
<1>1. Init => Abstract!RunnerInit
      BY DEF Init, Abstract!RunnerInit, AbstractProcess, AbstractBusy
<1>2. IInv /\ [Next]_vars => Steps
  <2>1. ASSUME IInv, [Next]_vars PROVE Steps
        BY <2>1, OutsideRefines, SupervisorRefines, SignalsRefine, ProcessorRefines,
           RendezvousRefines DEF Next
  <2>2. QED
        BY <2>1
<1>3. QED
      BY <1>1, <1>2, OrderHolds, PTL DEF Spec, Steps, ImplementsRunner, Abstract!RunnerSpec

-----------------------------------------------------------------------------
(* ShutdownStops of ExecRunner: whatever the other goroutines do, when a   *)
(* shutdown has been handled the process was killed or is down, and nobody *)
(* is left to restart it.                                                  *)
THEOREM ShutdownIsThorough == ASSUME NoticedInTime PROVE Spec => ShutdownStops
PROOF
<1> DEFINE Stopped == isSupervised' = FALSE /\ (current = NoSlot \/ proc[current] # "alive")
<1>1. ASSUME IInv, Next, handling = "shutdown", sp' = "idle" PROVE Stopped
  <2>1. sp \notin {"idle", "start"}
        BY <1>1 DEF IInv, Order, Processing
  <2>2. StopBegins \/ JudgeStopped \/ \E g \in Slots : ExitToProcessor(g) \/ AckToProcessor(g)
    <3>1. sp' # sp
          BY <1>1, <2>1
    <3>2. Processor \/ Rendezvous
          BY <1>1, <2>1, <3>1
          DEF Next, Request, SetBackend, Supervisor, SeeSupervised, SeeRunning, Retry, GiveUp,
              Unsupervise, Receive, ReceiveSupervisor, Handle, Monitor, MonitorBegins,
              MonitorClears, MonitorConfirms, Exit, MinutePasses
    <3>3. QED
          BY <1>1, <2>1, <3>1, <3>2
          DEF Processor, GraceEnds, JudgeHanging, StartFails, Launch, Rendezvous,
              TimeoutToMonitor, TimeoutToWaiter, ExitToMonitor, ExitToWaiter, AckToWaiter,
              AckToMonitor
  <2>3. CASE StopBegins
        BY <1>1, <2>3 DEF StopBegins
  <2>4. CASE JudgeStopped
    <3>1. AbstractProcess # "up"
          BY <1>1, <2>4, AnswerMeans, SignalMeans DEF JudgeStopped
    <3>2. QED
          BY <1>1, <2>4, <3>1
          DEF JudgeStopped, AbstractProcess, flags, IInv, TypeOK, Order, Processing
  <2>5. ASSUME NEW g \in Slots, ExitToProcessor(g) \/ AckToProcessor(g) PROVE Stopped
        BY <1>1, <2>5
        DEF ExitToProcessor, AckToProcessor, UnchangedByRendezvous, flags, IInv, TypeOK, Order, Processing
  <2>6. QED
        BY <2>2, <2>3, <2>4, <2>5
<1>2. IInv /\ [Next]_vars => [handling = "shutdown" /\ sp' = "idle" =>
                                /\ ~isSupervised'
                                /\ current = NoSlot \/ proc[current] # "alive"]_vars
      BY <1>1
<1>3. QED
      BY <1>2, OrderHolds, PTL DEF Spec, ShutdownStops
=============================================================================
