---------------------------- MODULE DaemonProofs ----------------------------
(***************************************************************************)
(* Theorems about Daemon: for any number of backends and runner objects.   *)
(*                                                                         *)
(* TypeOK is inductive.  NoOrphans and StopLeavesNothing rest on what is   *)
(* true of signals as long as no collector crashes, none lingers into a    *)
(* sync or a stop, and the service does not come or go during a round: no  *)
(* supervisor asks, the loop and the distributor do not call at the same   *)
(* time, and only the runner being deleted is busy in a sync.              *)
(***************************************************************************)
EXTENDS Daemon, TLAPS

(* What comes at a bad moment is a map fault, or a long timeout, at most.  *)
SignalsInTurn == Races \cap {"crash", "busy", "service"} = {}

Unregistered == {r \in Runners : ~Registered(r)}

(* What no step of the runners, the loop or the distributor undoes.        *)
Calm ==
    /\ \A r \in Runners : ~asking[r] /\ (supervised[r] => process[r] = "up")
    /\ waiting # None => dist = "waiting"

(* The two callers: at most one of them is at work.                        *)
Turns ==
    /\ pc = "sleep" => ~Blocked(Loop)
    /\ dist # "up" => pc = "sleep"
    /\ dist # "stopping" => ~Blocked(Service) \/ dist = "starting"
    /\ pc # "sleep" => todo \subseteq Existing

(* Deleting a runner.                                                      *)
Deleting ==
    /\ deleting # None =>
          /\ pc = "sync" /\ deleting \in Existing
          /\ LET r == runner[deleting]
             IN  /\ calling[r][Loop] \in {"none", "shutdown"}
                 /\ busy[r] \in {"none", "shutdown"}
                 /\ process[r] = "up" => BeingShutDown(r)
    /\ pc = "sync" => \A k \in Existing : k # deleting => Idle(runner[k])

(* Runners out of the registry are done, or about to be.                   *)
Gone(r) ==
    /\ \A c \in Callers : calling[r][c] = "none"
    /\ busy[r] \in {"none", "shutdown"}
    /\ process[r] = "up" => busy[r] = "shutdown"

(* Stopping the service.                                                   *)
Stops ==
    /\ \A r \in Runners :
          /\ busy[r] \in {"none", "shutdown"}
          /\ calling[r][Service] \in {"none", "shutdown"}
    /\ \A r \in Unregistered : process[r] # "up"
    /\ Existing \subseteq unseen \cup visited

Stopping ==
    /\ dist \in {"stopping", "waiting"} => Stops
    /\ dist \in {"stopping", "waiting"} =>
          \A k \in Existing :
             process[runner[k]] = "up" =>
                (dist = "stopping" /\ k \notin visited) \/ BeingShutDown(runner[k])
    /\ "deadline" \notin Races /\ dist = "waiting" =>
          \A k \in Existing : k \in visited =>
             runner[k] = waiting \/ process[runner[k]] # "up"
    /\ "deadline" \notin Races => StopLeavesNothing

IInv ==
    /\ TypeOK /\ Calm /\ Turns /\ Deleting /\ Stopping
    /\ \A r \in Unregistered : Gone(r)

-----------------------------------------------------------------------------
(* Every variable keeps its type, whatever races there are.                *)
LEMMA CallTypes ==
    ASSUME RunnerTypeOK, NEW r, NEW c, NEW signal \in {"none", "restart", "shutdown"},
           calling' = [calling EXCEPT ![r][c] = signal]
    PROVE calling' \in [Runners -> [Callers -> {"none", "restart", "shutdown"}]]
PROOF
<1>1. calling \in [Runners -> [Callers -> {"none", "restart", "shutdown"}]]
      BY DEF RunnerTypeOK
<1>2. CASE r \notin Runners
      BY <1>1, <1>2
<1>3. CASE r \in Runners
  <2>1. [calling[r] EXCEPT ![c] = signal] \in [Callers -> {"none", "restart", "shutdown"}]
        BY <1>1, <1>3
  <2>2. QED
        BY <1>1, <2>1
<1>4. QED
      BY <1>2, <1>3

LEMMA RunnerTypes ==
    ASSUME TypeOK, NEW r \in Runners, RunnerStep(r) \/ CollectorExits(r)
    PROVE TypeOK'
PROOF
<1>1. RunnerTypeOK /\ UNCHANGED <<loopVars, distVars>>
      BY DEF TypeOK, RunnerStep, CollectorExits
<1>2. SUFFICES RunnerTypeOK'
      BY <1>1 DEF TypeOK, loopVars, distVars, Existing
<1>3. ASSUME NEW c \in Callers, Take(r, c) PROVE RunnerTypeOK'
      BY <1>1, <1>3, CallTypes DEF Take, RunnerTypeOK
<1>4. CASE Ask(r) \/ TakeAsked(r) \/ GiveUp(r)
      BY <1>1, <1>4 DEF Ask, TakeAsked, GiveUp, RunnerTypeOK
<1>5. CASE Handles(r)
      BY <1>1, <1>5 DEF Handles, BeginStop, Kill, EndStop, RunnerTypeOK
<1>6. CASE Launch(r, TRUE) \/ Launch(r, FALSE) \/ StartFails(r)
      BY <1>1, <1>6 DEF Launch, StartFails, RunnerTypeOK
<1>7. CASE Exit(r)
      BY <1>1, <1>7 DEF Exit, RunnerTypeOK
<1>8. QED
      BY <1>3, <1>4, <1>5, <1>6, <1>7 DEF RunnerStep, CollectorExits

LEMMA RegistryTypes ==
    ASSUME TypeOK, NEW k \in Keys, NEW r \in Runners \cup {None},
           r # None => ~Registered(r), runner' = [runner EXCEPT ![k] = r]
    PROVE /\ runner' \in [Keys -> Runners \cup {None}]
          /\ \A i, j \in Existing' : i # j => runner'[i] # runner'[j]
PROOF BY NoneAssumption DEF TypeOK, Registered, Existing

LEMMA LoopTypes == TypeOK /\ ControlLoop => TypeOK'
PROOF
<1> SUFFICES ASSUME TypeOK, ControlLoop PROVE TypeOK'
    OBVIOUS
<1> USE DEF distVars, runnerVars
<1>1. CASE Register \/ ListFails \/ SyncEnds \/ RoundEnds
      BY <1>1 DEF Register, ListFails, SyncEnds, RoundEnds, TypeOK, RunnerTypeOK, Existing
<1>2. CASE \E listed \in SUBSET Keys : Update(listed)
      BY <1>2 DEF Update, TypeOK, RunnerTypeOK, Existing
<1>3. ASSUME NEW k \in Keys,
             \/ \E signal \in {"restart", "shutdown"} : Act(k, signal)
             \/ Keep(k) \/ DeleteShutsDown(k) \/ Configure(k)
      PROVE TypeOK'
  <2>1. CASE Keep(k)
        BY <2>1 DEF Keep, TypeOK, RunnerTypeOK, Existing
  <2>2. CASE ~Keep(k)
    <3>1. PICK signal \in {"restart", "shutdown"} : Call(runner[k], Loop, signal)
          BY <1>3, <2>2 DEF Act, DeleteShutsDown, Configure
    <3>2. RunnerTypeOK /\ RunnerTypeOK'
          BY <3>1, CallTypes DEF Call, TypeOK, RunnerTypeOK
    <3>3. QED
          BY <1>3, <2>2, <3>2 DEF Act, DeleteShutsDown, Configure, TypeOK, Existing
  <2>3. QED
        BY <2>1, <2>2
<1>4. ASSUME NEW k \in Keys, Remove(k) PROVE TypeOK'
  <2>1. PICK r \in Replacements(k) : runner' = [runner EXCEPT ![k] = r]
        BY <1>4 DEF Remove
  <2>2. r \in Runners \cup {None} /\ (r # None => ~Registered(r))
        BY <2>1 DEF Replacements, Fresh
  <2>3. QED
        BY <1>4, <2>1, <2>2, RegistryTypes DEF Remove, TypeOK, RunnerTypeOK
<1>5. ASSUME NEW k \in Keys, NEW r \in Runners, Add(k, r) PROVE TypeOK'
      BY <1>5, RegistryTypes DEF Add, Fresh, TypeOK, RunnerTypeOK
<1>6. QED
      BY <1>1, <1>2, <1>3, <1>4, <1>5 DEF ControlLoop, DeleteSkips, DeleteEnds

LEMMA DistributorTypes == TypeOK /\ (StopService \/ Distributor \/ MapFault) => TypeOK'
PROOF
<1> SUFFICES ASSUME TypeOK, StopService \/ Distributor \/ MapFault PROVE TypeOK'
    OBVIOUS
<1> USE DEF loopVars, runnerVars, TypeOK, RunnerTypeOK, Existing
<1>1. CASE StopService \/ MapFault
      BY <1>1 DEF StopService, MapFault
<1>2. CASE Iteration
      BY <1>2 DEF Iteration, Started, Stopped, Returns, IterationEnds
<1>3. CASE WaitEnds
      BY <1>3 DEF WaitEnds
<1>4. ASSUME NEW k \in Keys, StartRunner(k) \/ StopRunner(k) \/ WaitFor(k)
      PROVE TypeOK'
      BY <1>4 DEF StartRunner, StopRunner, WaitFor, Visits, Call
<1>5. QED
      BY <1>1, <1>2, <1>3, <1>4 DEF Distributor

(* The invariant TypeOK of Daemon, for every choice of Races.              *)
THEOREM TypeCorrect == Spec => []TypeOK
PROOF
<1>1. Init => TypeOK
      BY NoneAssumption DEF Init, RunnerInit, TypeOK, RunnerTypeOK, Existing
<1>2. TypeOK /\ [Next]_vars => TypeOK'
  <2>1. TypeOK /\ UNCHANGED vars => TypeOK'
        BY DEF TypeOK, RunnerTypeOK, Existing, vars, runnerVars, loopVars, distVars
  <2>2. QED
        BY <2>1, RunnerTypes, LoopTypes, DistributorTypes DEF Next
<1>3. QED
      BY <1>1, <1>2, PTL DEF Spec

-----------------------------------------------------------------------------
(* What a call and a step of a runner change.                              *)
LEMMA CallEffect ==
    ASSUME TypeOK, NEW r \in Runners, NEW c \in Callers, NEW signal, Call(r, c, signal)
    PROVE \A q \in Runners, d \in Callers :
             calling'[q][d] = IF q = r /\ d = c THEN signal ELSE calling[q][d]
PROOF BY DEF TypeOK, RunnerTypeOK, Call

(* No step makes a runner busy that was not asked, nor starts a process    *)
(* but for a restart, and no shutdown is forgotten before it has worked.   *)
RunnerEffect(q) ==
    /\ ~asking'[q] /\ (supervised'[q] => process'[q] = "up")
    /\ \A c \in Callers : calling'[q][c] \in {calling[q][c], "none"}
    /\ busy'[q] \in {busy[q], "none"} \/ \E c \in Callers : calling[q][c] = busy'[q]
    /\ process'[q] = "up" => process[q] = "up" \/ (busy[q] = "restart" /\ Lives)
    /\ process'[q] = "up" /\ BeingShutDown(q) => BeingShutDown(q)'

LEMMA RunnerStepEffect ==
    ASSUME SignalsInTurn, TypeOK, Calm,
           NEW r \in Runners, RunnerStep(r) \/ CollectorExits(r)
    PROVE \A q \in Runners : RunnerEffect(q)
PROOF
<1> SUFFICES ASSUME NEW q \in Runners PROVE RunnerEffect(q)
    OBVIOUS
<1> USE DEF TypeOK, RunnerTypeOK, Calm
<1>1. ASSUME NEW c \in Callers, Take(r, c) PROVE RunnerEffect(q)
  <2>1. busy[r] = "none" /\ calling[r][c] # "none" /\ busy'[r] = calling[r][c]
        BY <1>1 DEF Take
  <2>2. \A p \in Runners, d \in Callers :
           calling'[p][d] = IF p = r /\ d = c THEN "none" ELSE calling[p][d]
        BY <1>1 DEF Take
  <2>3. \A p \in Runners : p # r => busy'[p] = busy[p]
        BY <1>1 DEF Take
  <2>4. UNCHANGED <<process, supervised, asking>>
        BY <1>1 DEF Take
  <2>5. BeingShutDown(q) => BeingShutDown(q)'
        BY <2>1, <2>2, <2>3 DEF BeingShutDown
  <2>6. QED
        BY <2>1, <2>2, <2>3, <2>4, <2>5 DEF RunnerEffect
<1>2. CASE Ask(r) \/ TakeAsked(r) \/ GiveUp(r)
      BY <1>2 DEF Ask, TakeAsked, GiveUp, Answers
<1>3. CASE Handles(r)
      BY <1>3 DEF Handles, BeginStop, Kill, EndStop, RunnerEffect, BeingShutDown
<1>4. CASE (Lives /\ Launch(r, TRUE)) \/ StartFails(r)
      BY <1>4 DEF Launch, StartFails, RunnerEffect, BeingShutDown
<1>5. CASE CollectorExits(r)
      BY <1>5 DEF CollectorExits, Exit, RunnerEffect, BeingShutDown, SignalsInTurn
<1>6. QED
      BY <1>1, <1>2, <1>3, <1>4, <1>5 DEF RunnerStep, SignalsInTurn

LEMMA RunnersKeep ==
    ASSUME SignalsInTurn, IInv, NEW r \in Runners, RunnerStep(r) \/ CollectorExits(r)
    PROVE IInv'
PROOF
<1>1. UNCHANGED <<assigned, runner, pc, todo, deleting, dist, unseen, visited, waiting>>
      BY DEF RunnerStep, CollectorExits, loopVars, distVars
<1>2. TypeOK /\ TypeOK'
      BY RunnerTypes DEF IInv
<1>3. \A q \in Runners : RunnerEffect(q)
      BY RunnerStepEffect DEF IInv
<1>4. Calm'
      BY <1>1, <1>3 DEF Calm, RunnerEffect, IInv
<1>5. Turns'
      BY <1>1, <1>3, CallersAssumption DEF Turns, RunnerEffect, IInv, Blocked, Existing
<1>6. \A q \in Runners : Idle(q) => Idle(q)'
      BY <1>3 DEF Idle, RunnerEffect
<1>7. Deleting'
  <2>1. \A k \in Existing : runner[k] \in Runners
        BY <1>2 DEF TypeOK, Existing
  <2>2. ASSUME deleting # None
        PROVE LET q == runner[deleting]
              IN  /\ calling'[q][Loop] \in {"none", "shutdown"}
                  /\ busy'[q] \in {"none", "shutdown"}
                  /\ process'[q] = "up" => BeingShutDown(q)'
    <3> DEFINE q == runner[deleting]
    <3>1. q \in Runners /\ RunnerEffect(q)
          BY <1>3, <2>1, <2>2 DEF IInv, Deleting
    <3>2. /\ calling[q][Loop] \in {"none", "shutdown"}
          /\ busy[q] \in {"none", "shutdown"}
          /\ process[q] = "up" => BeingShutDown(q)
          BY <2>2 DEF IInv, Deleting
    <3>3. calling[q][Service] = "none"
          BY <2>2, <3>1, CallersAssumption DEF IInv, Deleting, Turns, Blocked
    <3>4. QED
          BY <3>1, <3>2, <3>3, CallersAssumption DEF RunnerEffect
  <2>3. QED
        BY <1>1, <1>6, <2>1, <2>2 DEF IInv, Deleting, Existing
<1>8. \A q \in Unregistered' : Gone(q)'
      BY <1>1, <1>3 DEF Unregistered, Registered, Gone, RunnerEffect, IInv, BeingShutDown
<1>9. CASE dist \in {"starting", "up"}
  <2>1. Stopping'
        BY <1>1, <1>9 DEF Stopping, StopLeavesNothing
  <2>2. QED
        BY <1>2, <1>4, <1>5, <1>7, <1>8, <2>1 DEF IInv
<1>10. CASE dist \in {"stopping", "waiting"}
  <2>1. Stops /\ \A q \in Runners : calling[q][Loop] = "none"
        BY <1>10, CallersAssumption DEF IInv, Stopping, Turns, Blocked
  <2>2. \A q \in Runners : process'[q] = "up" => process[q] = "up"
        BY <1>3, <2>1 DEF RunnerEffect, Stops
  <2>3. Stops'
        BY <1>1, <1>3, <2>1, <2>2, CallersAssumption
        DEF Stops, RunnerEffect, Unregistered, Registered, Existing
  <2>4. \A k \in Existing : runner[k] \in Runners
        BY <1>2 DEF TypeOK, Existing
  <2>5. Stopping'
        BY <1>1, <1>3, <1>10, <2>2, <2>3, <2>4
        DEF IInv, Stopping, StopLeavesNothing, RunnerEffect, Existing
  <2>6. QED
        BY <1>2, <1>4, <1>5, <1>7, <1>8, <2>5 DEF IInv
<1>11. CASE dist \in {"returned", "ended"}
  <2>1. Stopping'
        BY <1>1, <1>3, <1>11
        DEF IInv, Stopping, StopLeavesNothing, RunnerEffect, Lives
  <2>2. QED
        BY <1>2, <1>4, <1>5, <1>7, <1>8, <2>1 DEF IInv
<1>12. QED
      BY <1>2, <1>9, <1>10, <1>11 DEF TypeOK

-----------------------------------------------------------------------------
(* A step of the control loop.                                             *)
LEMMA LoopAlone ==
    ASSUME SignalsInTurn, IInv, ControlLoop
    PROVE /\ dist = "up" /\ UNCHANGED <<dist, waiting>>
          /\ \A r \in Runners, c \in Callers : calling[r][c] = "none"
          /\ UNCHANGED <<process, busy, supervised, asking>>
PROOF
<1>1. dist = "up"
      BY DEF IInv, Turns, ControlLoop, Register, MayOverlap, LoopRuns, ListFails, SyncEnds,
             RoundEnds, Update, Act, Keep, DeleteShutsDown, DeleteSkips, DeleteEnds,
             Configure, Add, Syncing, SignalsInTurn
<1>2. ~Blocked(Loop)
      BY DEF ControlLoop, Register, LoopRuns, ListFails, SyncEnds, RoundEnds, Update, Act,
             Keep, DeleteShutsDown, DeleteSkips, DeleteEnds, Configure, Add, Syncing
<1>3. ~Blocked(Service)
      BY <1>1 DEF IInv, Turns
<1>4. UNCHANGED <<process, busy, supervised, asking>> /\ UNCHANGED <<dist, waiting>>
      BY DEF ControlLoop, Register, ListFails, SyncEnds, RoundEnds, Update, Act, Keep, Call,
             DeleteShutsDown, DeleteSkips, DeleteEnds, Remove, Configure, Add,
             runnerVars, distVars
<1>5. QED
      BY <1>1, <1>2, <1>3, <1>4, CallersAssumption DEF Blocked

(* The loop calls the runner of one key.                                   *)
LEMMA LoopCalls ==
    ASSUME SignalsInTurn, IInv, NEW k \in todo, pc # "sleep",
           NEW signal \in {"restart", "shutdown"}, Call(runner[k], Loop, signal),
           \A r \in Runners, c \in Callers : calling[r][c] = "none"
    PROVE /\ k \in Existing /\ runner[k] \in Runners
          /\ \A r \in Runners, c \in Callers :
                calling'[r][c] = IF r = runner[k] /\ c = Loop THEN signal ELSE "none"
PROOF
<1>1. k \in Existing /\ runner[k] \in Runners
      BY DEF IInv, Turns, TypeOK, Existing
<1>2. QED
      BY <1>1, CallEffect, CallersAssumption DEF IInv

LEMMA LoopKeeps == ASSUME SignalsInTurn, IInv, ControlLoop PROVE IInv'
PROOF
<1>1. /\ dist = "up" /\ UNCHANGED <<dist, waiting>>
      /\ \A r \in Runners, c \in Callers : calling[r][c] = "none"
      /\ UNCHANGED <<process, busy, supervised, asking>>
      BY LoopAlone
<1>2. TypeOK /\ TypeOK'
      BY LoopTypes DEF IInv
<1>3. Calm' /\ Stopping'
      BY <1>1 DEF IInv, Calm, Stopping, StopLeavesNothing
<1>4. SUFFICES Turns' /\ Deleting' /\ \A r \in Unregistered' : Gone(r)'
      BY <1>2, <1>3 DEF IInv
<1> USE DEF Turns, Deleting, Blocked
<1>5. CASE Register \/ ListFails \/ SyncEnds \/ RoundEnds
      BY <1>1, <1>2, <1>5 DEF Register, ListFails, SyncEnds, RoundEnds, LoopRuns, Syncing,
         IInv, runnerVars, Existing, TypeOK, Unregistered, Registered, Gone
<1>6. ASSUME NEW listed \in SUBSET Keys, Update(listed)
      PROVE Turns' /\ Deleting' /\ \A r \in Unregistered' : Gone(r)'
  <2>1. \A k \in Existing : Idle(runner[k])
        BY <1>6 DEF Update, MayFindBusy, SignalsInTurn
  <2>2. UNCHANGED <<runner, calling, deleting>> /\ deleting = None
        BY <1>6 DEF Update, LoopRuns, IInv, runnerVars
  <2>3. QED
        BY <1>1, <1>2, <1>6, <2>1, <2>2
        DEF Update, IInv, Existing, Idle, Unregistered, Registered, Gone
<1>7. ASSUME NEW k \in Keys, NEW signal \in {"restart", "shutdown"},
             Act(k, signal) \/ (signal = "restart" /\ Configure(k))
      PROVE Turns' /\ Deleting' /\ \A r \in Unregistered' : Gone(r)'
  <2>1. pc # "sleep" /\ pc # "sync" /\ k \in todo /\ Call(runner[k], Loop, signal)
        BY <1>7 DEF Act, Configure, LoopRuns
  <2>2. /\ k \in Existing /\ runner[k] \in Runners
        /\ \A r \in Runners, c \in Callers :
              calling'[r][c] = IF r = runner[k] /\ c = Loop THEN signal ELSE "none"
        BY <1>1, <2>1, LoopCalls
  <2>3. UNCHANGED <<runner, pc, deleting>> /\ deleting = None /\ todo' \subseteq todo
        BY <1>7, <2>1 DEF Act, Configure, IInv
  <2>4. QED
        BY <1>1, <2>1, <2>2, <2>3, CallersAssumption
        DEF IInv, Existing, Unregistered, Registered, Gone
<1>8. ASSUME NEW k \in Keys, Keep(k)
      PROVE Turns' /\ Deleting' /\ \A r \in Unregistered' : Gone(r)'
      BY <1>1, <1>8 DEF Keep, runnerVars, IInv, Existing, Unregistered, Registered, Gone, Idle,
         Syncing
<1>9. ASSUME NEW k \in Keys, DeleteShutsDown(k)
      PROVE Turns' /\ Deleting' /\ \A r \in Unregistered' : Gone(r)'
  <2>1. pc = "sync" /\ deleting = None /\ k \in todo /\ Call(runner[k], Loop, "shutdown")
        BY <1>9 DEF DeleteShutsDown, Syncing, LoopRuns
  <2>2. /\ k \in Existing /\ runner[k] \in Runners
        /\ \A r \in Runners, c \in Callers :
              calling'[r][c] = IF r = runner[k] /\ c = Loop THEN "shutdown" ELSE "none"
        BY <1>1, <2>1, LoopCalls
  <2>3. UNCHANGED <<runner, pc, todo>> /\ deleting' = k
        BY <1>9 DEF DeleteShutsDown
  <2>4. \A j \in Existing : Idle(runner[j]) /\ runner[j] \in Runners
        BY <1>2, <2>1, NoneAssumption DEF IInv, TypeOK, Existing
  <2>5. \A j \in Existing : j # k => runner[j] # runner[k]
        BY <1>2, <2>2 DEF TypeOK
  <2>6. Turns'
        BY <1>1, <2>1, <2>2, <2>3, CallersAssumption DEF IInv, Existing
  <2>7. BeingShutDown(runner[k])' /\ busy'[runner[k]] = "none"
        BY <1>1, <2>2, <2>3, <2>4, CallersAssumption DEF BeingShutDown, Idle
  <2>8. \A j \in Existing : j # k => Idle(runner[j])'
        BY <1>1, <2>2, <2>3, <2>4, <2>5, CallersAssumption DEF Idle
  <2>9. Deleting'
        BY <2>1, <2>2, <2>3, <2>7, <2>8, CallersAssumption DEF Existing
  <2>10. \A r \in Unregistered' : Gone(r)'
        BY <1>1, <2>2, <2>3 DEF IInv, Unregistered, Registered, Gone, Existing
  <2>11. QED
        BY <2>6, <2>9, <2>10
<1>10. ASSUME NEW k \in Keys, DeleteSkips(k) \/ DeleteEnds(k)
      PROVE Turns' /\ Deleting' /\ \A r \in Unregistered' : Gone(r)'
  <2>1. pc = "sync" /\ Remove(k) /\ deleting \in {None, k}
        BY <1>10 DEF DeleteSkips, DeleteEnds, Syncing, LoopRuns
  <2>2. k \in Existing /\ runner[k] \in Runners
        BY <1>2, <1>10, NoneAssumption
        DEF DeleteSkips, DeleteEnds, Syncing, LoopRuns, IInv, TypeOK, Existing
  <2>3. PICK r \in Replacements(k) : runner' = [runner EXCEPT ![k] = r]
        BY <2>1 DEF Remove
  <2>4. r # None => r \in Runners /\ Fresh(r)
        BY <2>3 DEF Replacements
  <2>5. UNCHANGED <<pc, calling>> /\ todo' = todo \ {k} /\ deleting' = None
        BY <2>1 DEF Remove, runnerVars
  <2>6. Turns'
        BY <1>1, <1>2, <2>1, <2>3, <2>5 DEF IInv, Existing, TypeOK
  <2>7. \A j \in Existing' : j # k => j \in Existing /\ runner'[j] = runner[j]
        BY <1>2, <2>3 DEF Existing, TypeOK
  <2>8. k \in Existing' => runner'[k] = r /\ r # None
        BY <1>2, <2>2, <2>3 DEF Existing, TypeOK
  <2>9. \A j \in Existing' : Idle(runner'[j])
    <3>1. \A j \in Existing : j # k => Idle(runner[j])
          BY <2>1, NoneAssumption DEF IInv, Existing
    <3>2. QED
          BY <2>4, <2>7, <2>8, <3>1 DEF Fresh
  <2>10. \A j \in Existing' : Idle(runner[j])'
         BY <1>1, <2>5, <2>9 DEF Idle
  <2>11. Gone(runner[k])
    <3>1. CASE deleting = k
          BY <1>1, <2>2, <3>1, CallersAssumption, NoneAssumption
          DEF IInv, Gone, BeingShutDown, Existing
    <3>2. CASE DeleteSkips(k)
          BY <1>1, <1>2, <2>1, <2>2, <3>2, NoneAssumption
          DEF IInv, Gone, DeleteSkips, Syncing, Idle, Answers, Existing
    <3>3. QED
          BY <1>10, <3>1, <3>2 DEF DeleteEnds
  <2>12. \A q \in Unregistered' : q \in Unregistered \/ q = runner[k]
    <3>1. ASSUME NEW q \in Runners, NEW j \in Keys, runner[j] = q, q # runner[k]
          PROVE runner'[j] = q
          BY <1>2, <2>3, <3>1 DEF TypeOK
    <3>2. QED
          BY <3>1 DEF Unregistered, Registered
  <2>13. QED
         BY <1>1, <2>5, <2>6, <2>10, <2>11, <2>12 DEF Gone, IInv
<1>11. ASSUME NEW k \in Keys, NEW r \in Runners, Add(k, r)
      PROVE Turns' /\ Deleting' /\ \A q \in Unregistered' : Gone(q)'
  <2>1. pc = "sync" /\ deleting = None /\ k \notin Existing /\ Fresh(r)
        BY <1>11 DEF Add, Syncing, LoopRuns
  <2>2. UNCHANGED <<pc, todo, deleting, calling>> /\ runner' = [runner EXCEPT ![k] = r]
        BY <1>11 DEF Add, runnerVars
  <2>3. r # None
        BY NoneAssumption
  <2>4. Turns'
        BY <1>1, <1>2, <2>1, <2>2, <2>3 DEF IInv, Existing, TypeOK
  <2>5. Deleting'
        BY <1>1, <1>2, <2>1, <2>2 DEF IInv, Existing, Idle, Fresh, TypeOK
  <2>6. \A q \in Unregistered' : q \in Unregistered
        BY <1>2, <2>1, <2>2, NoneAssumption DEF Unregistered, Registered, Existing, TypeOK
  <2>7. QED
        BY <1>1, <2>2, <2>4, <2>5, <2>6 DEF Gone, IInv
<1>12. QED
      BY <1>5, <1>6, <1>7, <1>8, <1>9, <1>10, <1>11 DEF ControlLoop

-----------------------------------------------------------------------------
(* A step of the distributor, or the stop of the service.                  *)
LEMMA DistributorAlone ==
    ASSUME SignalsInTurn, IInv, StopService \/ Distributor
    PROVE /\ pc = "sleep" /\ deleting = None
          /\ \A r \in Runners : calling[r][Loop] = "none"
          /\ UNCHANGED <<process, busy, supervised, asking, loopVars>>
PROOF
<1>1. pc = "sleep"
      BY DEF IInv, Turns, Calm, StopService, MayOverlap, Distributor, Iteration, Started, Stopped,
             Returns, IterationEnds, WaitEnds, StartRunner, StopRunner, WaitFor, Visits,
             SignalsInTurn
<1>2. UNCHANGED <<process, busy, supervised, asking, loopVars>>
      BY DEF StopService, Distributor, Iteration, Started, Stopped, Returns, IterationEnds,
             WaitEnds, StartRunner, StopRunner, WaitFor, Visits, Call, runnerVars
<1>3. QED
      BY <1>1, <1>2 DEF IInv, Turns, Deleting, Blocked

LEMMA DistributorKeeps == ASSUME SignalsInTurn, IInv, StopService \/ Distributor PROVE IInv'
PROOF
<1>1. /\ pc = "sleep" /\ deleting = None
      /\ \A r \in Runners : calling[r][Loop] = "none"
      /\ UNCHANGED <<process, busy, supervised, asking, loopVars>>
      BY DistributorAlone
<1>2. TypeOK /\ TypeOK'
      BY DistributorTypes DEF IInv
<1>3. UNCHANGED <<assigned, runner, pc, todo, deleting>> /\ Existing' = Existing
      BY <1>1 DEF loopVars, Existing
<1>4. Deleting'
      BY <1>1, <1>3 DEF Deleting
<1>5. \A k \in Existing : runner[k] \in Runners
      BY <1>2 DEF TypeOK, Existing
<1>6. SUFFICES Calm' /\ Turns' /\ Stopping' /\ \A r \in Unregistered' : Gone(r)'
      BY <1>2, <1>4 DEF IInv
<1>7. CASE StopService
  <2>1. /\ dist = "up" /\ dist' = "stopping" /\ unseen' = Existing /\ visited' = {}
        /\ UNCHANGED <<calling, waiting>> /\ \A r \in Runners : Idle(r)
        BY <1>7 DEF StopService, MayFindBusy, runnerVars, SignalsInTurn
  <2>2. Stops'
        BY <1>1, <1>3, <2>1, CallersAssumption
        DEF IInv, Stops, Idle, Unregistered, Registered, Gone
  <2>3. QED
        BY <1>1, <1>3, <2>1, <2>2
        DEF IInv, Calm, Turns, Stopping, StopLeavesNothing, Gone, Unregistered, Registered, Blocked
<1>8. CASE Started
      BY <1>1, <1>3, <1>8
      DEF Started, IterationEnds, IInv, Calm, Turns, Stopping, StopLeavesNothing, Gone,
          Unregistered, Registered, Blocked, runnerVars
<1>9. CASE Stopped
  <2>1. /\ dist = "stopping" /\ dist' = "waiting" /\ unseen = {}
        /\ unseen' = Existing /\ visited' = {} /\ ~Blocked(Service)
        /\ UNCHANGED <<calling, waiting>>
        BY <1>9 DEF Stopped, IterationEnds, runnerVars
  <2>2. Stops'
        BY <1>1, <1>3, <2>1 DEF IInv, Stopping, Stops, Unregistered, Registered
  <2>3. \A k \in Existing : process[runner[k]] = "up" => BeingShutDown(runner[k])
        BY <2>1 DEF IInv, Stopping, Stops
  <2>4. Stopping'
        BY <1>1, <1>3, <2>1, <2>2, <2>3 DEF Stopping, StopLeavesNothing, BeingShutDown
  <2>5. QED
        BY <1>1, <1>3, <2>1, <2>4
        DEF IInv, Calm, Turns, Gone, Unregistered, Registered, Blocked
<1>10. CASE Returns
  <2>1. /\ dist = "waiting" /\ dist' = "returned" /\ unseen = {} /\ waiting = None
        /\ UNCHANGED <<calling, waiting>>
        BY <1>10 DEF Returns, IterationEnds, runnerVars
  <2>2. "deadline" \notin Races => \A k \in Existing : process[runner[k]] # "up"
        BY <2>1, <1>5, NoneAssumption DEF IInv, Stopping, Stops
  <2>3. "deadline" \notin Races => \A r \in Runners : process[r] # "up"
        BY <2>1, <2>2, NoneAssumption
        DEF IInv, Stopping, Stops, Unregistered, Registered, Existing
  <2>4. Stopping'
        BY <1>1, <2>1, <2>3 DEF Stopping, StopLeavesNothing
  <2>5. QED
        BY <1>1, <1>3, <2>1, <2>4
        DEF IInv, Calm, Turns, Gone, Unregistered, Registered, Blocked
<1>11. CASE WaitEnds
  <2>1. /\ dist = "waiting" /\ waiting # None /\ waiting' = None
        /\ UNCHANGED <<calling, dist, unseen, visited>>
        BY <1>11 DEF WaitEnds, runnerVars, IInv, Calm
  <2>2. "deadline" \in Races \/ FALSE \in Answers(waiting) \/ ~BeingShutDown(waiting)
        BY <1>11 DEF WaitEnds
  <2>3. "deadline" \notin Races => \A k \in Existing : runner[k] = waiting => process[waiting] # "up"
        BY <2>1, <2>2 DEF IInv, Stopping, Answers
  <2>4. Stops'
        BY <1>1, <1>3, <2>1 DEF IInv, Stopping, Stops, Unregistered, Registered
  <2>5. Stopping'
        BY <1>1, <1>3, <2>1, <2>3, <2>4 DEF IInv, Stopping, StopLeavesNothing, BeingShutDown
  <2>6. QED
        BY <1>1, <1>3, <2>1, <2>5
        DEF IInv, Calm, Turns, Gone, Unregistered, Registered, Blocked
<1>12. ASSUME NEW k \in Keys, WaitFor(k)
       PROVE Calm' /\ Turns' /\ Stopping' /\ \A r \in Unregistered' : Gone(r)'
  <2>1. /\ dist = "waiting" /\ waiting = None /\ waiting' = runner[k] /\ k \in Existing
        /\ visited' = visited \cup {k} /\ unseen' = unseen \ {k}
        /\ UNCHANGED <<calling, dist>>
        BY <1>12 DEF WaitFor, Visits, runnerVars
  <2>2. Stops'
        BY <1>1, <1>3, <2>1 DEF IInv, Stopping, Stops, Unregistered, Registered
  <2>3. Stopping'
        BY <1>1, <1>3, <1>5, <2>1, <2>2, NoneAssumption
        DEF IInv, Stopping, StopLeavesNothing, BeingShutDown
  <2>4. QED
        BY <1>1, <1>3, <2>1, <2>3
        DEF IInv, Calm, Turns, Gone, Unregistered, Registered, Blocked
<1>13. ASSUME NEW k \in Keys, StartRunner(k)
       PROVE Calm' /\ Turns' /\ Stopping' /\ \A r \in Unregistered' : Gone(r)'
  <2>1. /\ dist = "starting" /\ k \in Existing /\ Call(runner[k], Service, "restart")
        /\ UNCHANGED <<dist, waiting>>
        BY <1>13 DEF StartRunner, Visits
  <2>2. \A q \in Runners, d \in Callers :
           calling'[q][d] = IF q = runner[k] /\ d = Service THEN "restart" ELSE calling[q][d]
        BY <1>2, <1>5, <2>1, CallEffect, CallersAssumption
  <2>3. QED
        BY <1>1, <1>3, <2>1, <2>2, CallersAssumption
        DEF IInv, Calm, Turns, Stopping, StopLeavesNothing, Gone, Unregistered, Registered,
            Existing, Blocked
<1>14. ASSUME NEW k \in Keys, StopRunner(k)
       PROVE Calm' /\ Turns' /\ Stopping' /\ \A r \in Unregistered' : Gone(r)'
  <2>1. /\ dist = "stopping" /\ k \in Existing /\ Call(runner[k], Service, "shutdown")
        /\ visited' = visited \cup {k} /\ unseen' = unseen \ {k}
        /\ UNCHANGED <<dist, waiting>>
        BY <1>14 DEF StopRunner, Visits
  <2>2. \A q \in Runners, d \in Callers :
           calling'[q][d] = IF q = runner[k] /\ d = Service THEN "shutdown" ELSE calling[q][d]
        BY <1>2, <1>5, <2>1, CallEffect, CallersAssumption
  <2>3. Stops'
        BY <1>1, <1>3, <2>1, <2>2, CallersAssumption
        DEF IInv, Stopping, Stops, Unregistered, Registered
  <2>4. \A j \in Existing : BeingShutDown(runner[j]) => BeingShutDown(runner[j])'
        BY <1>1, <1>3, <1>5, <2>1, <2>2 DEF BeingShutDown, Call
  <2>5. BeingShutDown(runner[k])'
        BY <1>3, <1>5, <2>1, <2>2, CallersAssumption DEF BeingShutDown
  <2>6. Stopping'
        BY <1>1, <1>3, <2>1, <2>3, <2>4, <2>5 DEF IInv, Stopping, StopLeavesNothing
  <2>7. QED
        BY <1>1, <1>3, <2>1, <2>2, <2>6, CallersAssumption
        DEF IInv, Calm, Turns, Gone, Unregistered, Registered, Existing, Blocked
<1>15. QED
       BY <1>7, <1>8, <1>9, <1>10, <1>11, <1>12, <1>13, <1>14 DEF Distributor, Iteration

-----------------------------------------------------------------------------
LEMMA InvariantHolds == ASSUME SignalsInTurn PROVE Spec => []IInv
PROOF
<1>1. Init => IInv
      BY NoneAssumption, CallersAssumption
      DEF Init, RunnerInit, IInv, TypeOK, RunnerTypeOK, Existing, Calm, Turns, Blocked, Deleting,
          Stopping, StopLeavesNothing, Unregistered, Gone, Idle
<1>2. IInv /\ [Next]_vars => IInv'
  <2>1. ASSUME IInv, UNCHANGED vars PROVE IInv'
        BY <2>1
        DEF vars, runnerVars, loopVars, distVars, IInv, TypeOK, RunnerTypeOK, Existing, Calm,
            Turns, Blocked, Deleting, BeingShutDown, Stopping, Stops, StopLeavesNothing,
            Unregistered, Registered, Gone, Idle
  <2>2. IInv => ~MapFault
        BY DEF IInv, Turns, MapFault, LoopRuns
  <2>3. QED
        BY <2>1, <2>2, RunnersKeep, LoopKeeps, DistributorKeeps DEF Next
<1>3. QED
      BY <1>1, <1>2, PTL DEF Spec

(* NoOrphans of Daemon: unless collectors crash, signals linger into the   *)
(* sync, or the service comes or goes in a round, DeleteRunner forgets no  *)
(* collector that is alive and not being shut down, however long shutdown  *)
(* timeouts are.                                                           *)
THEOREM OrphansNeedARace == ASSUME SignalsInTurn PROVE Spec => []NoOrphans
PROOF
<1>1. IInv => NoOrphans
      BY DEF IInv, NoOrphans, Unregistered, Gone, BeingShutDown
<1>2. QED
      BY <1>1, InvariantHolds, PTL

(* StopLeavesNothing of Daemon: under the same conditions Stop returns     *)
(* only when every collector is down, or killed at least, if no shutdown   *)
(* timeout exceeds the 30 seconds that Stop waits.                         *)
THEOREM StopIsThorough ==
    ASSUME SignalsInTurn, "deadline" \notin Races
    PROVE Spec => []StopLeavesNothing
PROOF
<1>1. IInv => StopLeavesNothing
      BY DEF IInv, Stopping
<1>2. QED
      BY <1>1, InvariantHolds, PTL
=============================================================================
