------------------------------- MODULE Runner -------------------------------
(***************************************************************************)
(* What a runner promises to those who call it (src/daemon/runner.go):     *)
(* Restart() and Shutdown() hand over a signal and return when the runner  *)
(* takes it, not when it has been handled; Running() tells what the runner *)
(* knows of the process; a supervisor of the runner's own asks for a       *)
(* restart when the process is down.  ExecRunner implements this, with     *)
(* goroutines and channels (ImplementsRunner there); Daemon builds on it.  *)
(***************************************************************************)
EXTENDS Naturals

CONSTANTS
    Runners,    \* runner objects
    Callers     \* goroutines that call them

VARIABLES
    process,    \* of each runner: "down", "up", or "doomed", killed but there
    busy,       \* the signal each runner is handling
    supervised, \* whether its supervisor is active
    asking,     \* whether its supervisor is blocked sending a restart
    calling     \* the signal each caller is blocked sending to each runner

runnerVars == <<process, busy, supervised, asking, calling>>

RunnerInit ==
    /\ process = [r \in Runners |-> "down"]
    /\ busy = [r \in Runners |-> "none"]
    /\ supervised = [r \in Runners |-> FALSE]
    /\ asking = [r \in Runners |-> FALSE]
    /\ calling = [r \in Runners |-> [c \in Callers |-> "none"]]

(* What Running() may say: of a process that hangs in spite of SIGKILL, it *)
(* says running until the runner has given up waiting for it.              *)
Answers(r) ==
    CASE process[r] = "up" -> {TRUE}
      [] process[r] = "down" -> {FALSE}
      [] OTHER -> BOOLEAN

Call(r, c, signal) ==
    /\ calling[r][c] = "none"
    /\ calling' = [calling EXCEPT ![r][c] = signal]
    /\ UNCHANGED <<process, busy, supervised, asking>>

Take(r, c) ==
    /\ busy[r] = "none" /\ calling[r][c] # "none"
    /\ busy' = [busy EXCEPT ![r] = calling[r][c]]
    /\ calling' = [calling EXCEPT ![r][c] = "none"]
    /\ UNCHANGED <<process, supervised, asking>>

Ask(r) ==
    /\ supervised[r] /\ ~asking[r] /\ FALSE \in Answers(r)
    /\ asking' = [asking EXCEPT ![r] = TRUE]
    /\ UNCHANGED <<process, busy, supervised, calling>>

TakeAsked(r) ==
    /\ busy[r] = "none" /\ asking[r]
    /\ busy' = [busy EXCEPT ![r] = "restart"]
    /\ asking' = [asking EXCEPT ![r] = FALSE]
    /\ UNCHANGED <<process, supervised, calling>>

GiveUp(r) ==
    /\ supervised[r] /\ ~asking[r] /\ FALSE \in Answers(r)
    /\ supervised' = [supervised EXCEPT ![r] = FALSE]
    /\ UNCHANGED <<process, busy, asking, calling>>

(* A stop, on its own or as the first half of a restart.                   *)
BeginStop(r) ==
    /\ busy[r] # "none"
    /\ supervised' = [supervised EXCEPT ![r] = FALSE]
    /\ UNCHANGED <<process, busy, asking, calling>>

Kill(r) ==
    /\ busy[r] # "none" /\ ~supervised[r] /\ process[r] = "up"
    /\ process' = [process EXCEPT ![r] = "doomed"]
    /\ UNCHANGED <<busy, supervised, asking, calling>>

MutantEndStop(r) ==         \* waits for the process to be gone
    /\ busy[r] = "shutdown" /\ process[r] = "down"
    /\ busy' = [busy EXCEPT ![r] = "none"]
    /\ supervised' = [supervised EXCEPT ![r] = FALSE]
    /\ UNCHANGED <<process, asking, calling>>

EndStop(r) ==
    /\ busy[r] = "shutdown" /\ process[r] # "up"
    /\ busy' = [busy EXCEPT ![r] = "none"]
    /\ supervised' = [supervised EXCEPT ![r] = FALSE]
    /\ UNCHANGED <<process, asking, calling>>

Launch(r, started) ==
    /\ busy[r] = "restart" /\ process[r] # "up"
    /\ process' = [process EXCEPT ![r] = IF started THEN "up" ELSE "down"]
    /\ busy' = [busy EXCEPT ![r] = "none"]
    /\ supervised' = [supervised EXCEPT ![r] = TRUE]
    /\ UNCHANGED <<asking, calling>>

StartFails(r) ==
    /\ busy[r] = "restart" /\ process[r] # "up"
    /\ busy' = [busy EXCEPT ![r] = "none"]
    /\ UNCHANGED <<process, supervised, asking, calling>>

Exit(r) ==
    /\ process[r] # "down"
    /\ process' = [process EXCEPT ![r] = "down"]
    /\ UNCHANGED <<busy, supervised, asking, calling>>

Handles(r) == BeginStop(r) \/ Kill(r) \/ EndStop(r)

RunnerNext ==
    \E r \in Runners :
        \/ \E c \in Callers :
              \/ \E signal \in {"restart", "shutdown"} : Call(r, c, signal)
              \/ Take(r, c)
        \/ Ask(r) \/ TakeAsked(r) \/ GiveUp(r) \/ Handles(r)
        \/ \E started \in BOOLEAN : Launch(r, started)
        \/ StartFails(r) \/ Exit(r)

RunnerSpec == RunnerInit /\ [][RunnerNext]_runnerVars

(* Every variable has its type.                                            *)
RunnerTypeOK ==
    /\ process \in [Runners -> {"down", "up", "doomed"}]
    /\ busy \in [Runners -> {"none", "restart", "shutdown"}]
    /\ supervised \in [Runners -> BOOLEAN]
    /\ asking \in [Runners -> BOOLEAN]
    /\ calling \in [Runners -> [Callers -> {"none", "restart", "shutdown"}]]

(* What is begun is ended: no signal keeps a runner busy for ever.         *)
BusyEnds == \A r \in Runners : busy[r] # "none" ~> busy[r] = "none"
=============================================================================
