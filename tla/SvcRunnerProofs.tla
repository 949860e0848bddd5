--------------------------- MODULE SvcRunnerProofs ---------------------------
(* What holds of the Windows service runner for any number of names and    *)
(* callers and any number of renames.                                      *)
EXTENDS SvcRunner, TLAPS

(* From the moment stop() turns the supervisor off nobody but the processor*)
(* could turn it on again, and the processor is busy with the stop.        *)
StopIsUnsupervised == sp \in {"control", "stopping"} => ~isSupervised

SvcInv == TypeOK /\ StopIsUnsupervised /\ StoppedIsNotSupervised

LEMMA SvcInvInit == Init => SvcInv
<1> SUFFICES ASSUME Init PROVE SvcInv
  OBVIOUS
<1>1. /\ service \in [Names -> {"none", "stopped", "startPending", "running",
                                "stopPending"}]
      /\ pending \in [Clients -> {"none", "restart", "shutdown"}]
  BY DEF Init
<1>2. renames \in 0 .. MaxRenames
  BY PollsAssumption DEF Init, PollsAssumption
<1> QED BY <1>1, <1>2, PollsAssumption, NobodyAssumption
        DEF PollsAssumption, NobodyAssumption, Init, SvcInv, TypeOK, StopIsUnsupervised,
            StoppedIsNotSupervised

(* The steps of the service manager, the callers, the supervisor and the   *)
(* control loop leave the processor where it is or give it a signal.       *)
LEMMA OutsidePreserves ==
    ASSUME SvcInv,
           \/ \E n \in Names : Manager(n) \/ Rename(n)
           \/ \E c \in Clients, signal \in {"restart", "shutdown"} : Request(c, signal)
           \/ \E c \in Clients : Receive(c)
           \/ ReceiveSupervisor \/ Supervisor \/ UNCHANGED vars
    PROVE  SvcInv'
<1> USE PollsAssumption
    DEF PollsAssumption, SvcInv, TypeOK, StopIsUnsupervised, StoppedIsNotSupervised,
        manager, runner, processor, cleaner
<1>1. ASSUME NEW n \in Names, Manager(n) PROVE SvcInv'
  <2>1. CASE StartCompletes(n)
    BY <2>1 DEF StartCompletes
  <2>2. CASE ServiceStops(n)
    BY <2>2 DEF ServiceStops
  <2> QED BY <1>1, <2>1, <2>2 DEF Manager
<1>2. ASSUME NEW n \in Names, Rename(n) PROVE SvcInv'
  BY <1>2 DEF Rename
<1>3. ASSUME NEW c \in Clients, NEW signal \in {"restart", "shutdown"},
             Request(c, signal)
      PROVE  SvcInv'
  BY <1>3 DEF Request
<1>4. ASSUME NEW c \in Clients, Receive(c) PROVE SvcInv'
  BY <1>4 DEF Receive, Handle
<1>5. CASE ReceiveSupervisor
  BY <1>5 DEF ReceiveSupervisor, Handle
<1>6. CASE Supervisor
  <2>1. CASE SeeSupervised
    BY <2>1 DEF SeeSupervised
  <2>2. CASE SeeRunning
    BY <2>2 DEF SeeRunning
  <2>3. CASE Retry
    BY <2>3 DEF Retry
  <2> QED BY <1>6, <2>1, <2>2, <2>3 DEF Supervisor
<1>7. CASE UNCHANGED vars
  BY <1>7 DEF vars
<1> QED BY <1>1, <1>2, <1>3, <1>4, <1>5, <1>6, <1>7

LEMMA ProcessorPreserves ==
    ASSUME SvcInv, Processor
    PROVE  SvcInv'
<1> USE PollsAssumption, NobodyAssumption
    DEF PollsAssumption, NobodyAssumption, SvcInv, TypeOK, StopIsUnsupervised,
        StoppedIsNotSupervised, manager, runner, processor, cleaner
<1>1. CASE CheckRunning
  <2>1. sp' \in {"stop", "install"} /\ status' \in {status, "error"}
    BY <1>1 DEF CheckRunning, StatusAfter
  <2> QED BY <1>1, <2>1 DEF CheckRunning
<1>2. CASE StopFails
  <2>1. CASE handling = "shutdown"
    BY <1>2, <2>1 DEF StopFails, AfterStop, Done
  <2>2. CASE handling # "shutdown"
    <3>1. /\ sp' = "wait" /\ target' = Nobody
          /\ handling' = handling /\ polls' = 0
      BY <1>2, <2>2 DEF StopFails, AfterStop
    <3>2. polls' \in 0 .. MaxPolls
      BY <3>1
    <3> QED BY <1>2, <3>1, <3>2 DEF StopFails
  <2> QED BY <2>1, <2>2
<1>3. CASE StopBegins
  BY <1>3 DEF StopBegins, StopControl
<1>11. CASE Unsupervise
  BY <1>11 DEF Unsupervise
<1>4. CASE StopSeen
  <2>1. CASE handling = "shutdown"
    BY <1>4, <2>1 DEF StopSeen, AfterStop, Done
  <2>2. CASE handling # "shutdown"
    <3>1. /\ sp' = "wait" /\ target' = Nobody
          /\ handling' = handling /\ polls' = 0
      BY <1>4, <2>2 DEF StopSeen, AfterStop
    <3>2. polls' \in 0 .. MaxPolls
      BY <3>1
    <3> QED BY <1>4, <3>1, <3>2 DEF StopSeen
  <2> QED BY <2>1, <2>2
<1>5. CASE StopTimesOut
  <2>1. CASE handling = "shutdown"
    BY <1>5, <2>1 DEF StopTimesOut, AfterStop, Done
  <2>2. CASE handling # "shutdown"
    <3>1. /\ sp' = "wait" /\ target' = Nobody
          /\ handling' = handling /\ polls' = 0
      BY <1>5, <2>2 DEF StopTimesOut, AfterStop
    <3>2. polls' \in 0 .. MaxPolls
      BY <3>1
    <3> QED BY <1>5, <3>1, <3>2 DEF StopTimesOut
  <2> QED BY <2>1, <2>2
<1>6. CASE Wait
  <2>1. /\ status' \in {status, "error"}
        /\ \/ sp' = "wait" /\ polls < MaxPolls /\ polls' = polls + 1
           \/ sp' = "install" /\ polls' = 0
    BY <1>6 DEF Wait, StatusAfter
  <2> QED BY <1>6, <2>1 DEF Wait
<1>7. CASE StartFails
  BY <1>7 DEF StartFails, Done
<1>8. CASE Install
  BY <1>8 DEF Install, StatusAfter
<1>9. CASE Open
  BY <1>9 DEF Open
<1>10. CASE Launch
  BY <1>10 DEF Launch
<1>12. CASE Supervise
  BY <1>12 DEF Supervise
<1>13. CASE Report
  BY <1>13 DEF Report, Done
<1> QED BY <1>1, <1>2, <1>3, <1>4, <1>5, <1>6, <1>7, <1>8, <1>9, <1>10, <1>11, <1>12,
           <1>13 DEF Processor

LEMMA LoopKeeps ==
    ASSUME SvcInv, Loop
    PROVE  SvcInv'
<1> USE NobodyAssumption
    DEF NobodyAssumption, SvcInv, TypeOK, StopIsUnsupervised, StoppedIsNotSupervised,
        manager, runner, processor, cleaner
<1>1. CASE ListServices
  BY <1>1 DEF ListServices, MaySync
<1>2. ASSUME NEW n \in Names, CleanStops(n) \/ CleanCannotStop(n) PROVE SvcInv'
  BY <1>2 DEF CleanStops, CleanCannotStop, StopControl
<1>3. ASSUME NEW n \in Names, CleanDeletes(n) \/ CleanCannotDelete(n) PROVE SvcInv'
  BY <1>3 DEF CleanDeletes, CleanCannotDelete
<1> QED BY <1>1, <1>2, <1>3 DEF Loop

LEMMA SvcInvStep == SvcInv /\ [Next]_vars => SvcInv'
BY OutsidePreserves, ProcessorPreserves, LoopKeeps DEF Next

(* Every variable of the service runner keeps its type.                    *)
THEOREM SvcTypeCorrect == Spec => []TypeOK
<1>1. SvcInv => TypeOK
  BY DEF SvcInv
<1> QED BY <1>1, SvcInvInit, SvcInvStep, PTL DEF Spec

(* A service that is reported as stopped is not supervised, however        *)
(* requests, renames and failures of the service manager interleave, but   *)
(* for the moment in which start() has turned the supervisor on and not    *)
(* reported the new run yet.                                               *)
THEOREM StoppedStaysDown == Spec => []StoppedIsNotSupervised
<1>1. SvcInv => StoppedIsNotSupervised
  BY DEF SvcInv
<1> QED BY <1>1, SvcInvInit, SvcInvStep, PTL DEF Spec
=============================================================================
