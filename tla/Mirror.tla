------------------------------- MODULE Mirror -------------------------------
(***************************************************************************)
(* What the control loop of Periodicals promises: the sidecar mirrors the  *)
(* server as if it kept no Etag, no copy of the list of backends and no    *)
(* store.  Whoever asks for the list follows the server's settings of that *)
(* moment, and whoever asks for a configuration leaves its runner with the *)
(* server's text of that moment, written to the collector's file and       *)
(* applied, unless its validation fails and an error is reported.          *)
(*                                                                         *)
(* The constants and the variables are those of Periodicals that are left. *)
(***************************************************************************)
CONSTANTS Keys, Settings, Unsupported, Broken, None, Faults

VARIABLES
    srvAssigned, srvSettings, srvConfig,    \* the server's database
    pc, todo, registered,                   \* the loop
    runner, file, started, rejected         \* what has been made of it

server == <<srvAssigned, srvSettings, srvConfig>>
made == <<runner, file, started, rejected>>
vars == <<server, pc, todo, registered, made>>

Init ==
    /\ pc = "register" /\ todo = {} /\ registered = {} /\ rejected = {}
    /\ \A k \in Keys : runner[k] = None /\ started[k] = None
    /\ \A k \in Keys, s \in Settings : file[<<k, s>>] = None

(* The database changes at any time.                                       *)
Administrate == UNCHANGED <<pc, todo, registered, made>>

(* The sidecar starts again: only the files remain.                        *)
Forget ==
    /\ pc' = "register" /\ todo' = {} /\ registered' = {} /\ rejected' = {}
    /\ runner' = [k \in Keys |-> None] /\ started' = [k \in Keys |-> None]
    /\ UNCHANGED <<server, file>>

Process(k) == <<runner[k].settings, file[<<k, runner[k].settings>>]>>
Stopped == <<None, None>>
IsUp(k) == started[k] \notin {None, Stopped}

Respawn(k) ==
    /\ IsUp(k)
    /\ started' = [started EXCEPT ![k] = Process(k)]
    /\ rejected' = rejected \ {k}
    /\ UNCHANGED <<server, pc, todo, registered, runner, file>>

(* A request that fails ends the round, if requests fail at all.           *)
EndRound ==
    /\ "down" \in Faults
    /\ pc' = "register" /\ todo' = {}
    /\ UNCHANGED <<server, registered, made>>

(* The answer to a registration: the assignments, and an action for some   *)
(* of the collectors there are.                                            *)
Learn ==
    /\ pc = "register" /\ pc' = "backends"
    /\ registered' = srvAssigned
    /\ \E acted \in SUBSET {k \in Keys : runner[k] # None}, stop \in BOOLEAN :
          /\ started' = [k \in Keys |-> IF k \notin acted THEN started[k]
                                        ELSE IF stop THEN Stopped ELSE Process(k)]
          /\ rejected' = rejected \ acted
    /\ UNCHANGED <<server, todo, runner, file>>

Wanted(k) == k \in registered /\ srvSettings[k] \notin Unsupported \cup {None}

(* A runner for each assignment, as the server has it now; one that is as  *)
(* the server has it already is left alone.                                *)
Follow ==
    /\ pc = "backends"
    /\ runner' = [k \in Keys |->
          IF ~Wanted(k) THEN None
          ELSE IF runner[k] # None /\ runner[k].settings = srvSettings[k] THEN runner[k]
          ELSE [settings |-> srvSettings[k], template |-> None]]
    /\ started' = [k \in Keys |-> IF Wanted(k) THEN started[k] ELSE None]
    /\ rejected' = {k \in rejected : Wanted(k) /\ runner[k].settings = srvSettings[k]}
    /\ todo' = registered
    /\ pc' = IF registered = {} THEN "register" ELSE "configs"
    /\ UNCHANGED <<server, registered, file>>

Turn(k) ==
    /\ pc = "configs" /\ k \in todo
    /\ todo' = todo \ {k}
    /\ pc' = IF todo = {k} THEN "register" ELSE "configs"
    /\ UNCHANGED <<server, registered>>

Reject(k) == started' = started /\ rejected' = rejected \cup {k}

Apply(k) ==
    /\ started' = [started EXCEPT ![k] = <<runner[k].settings, srvConfig[k]>>]
    /\ rejected' = rejected \ {k}

(* The configuration of k, as the server has it now, is what its runner    *)
(* has; one that differs from what it had is on disk and in force, or an   *)
(* error is reported.                                                      *)
Bring(k) ==
    /\ Turn(k)
    /\ runner[k] # None
    /\ runner' = [runner EXCEPT ![k].template = srvConfig[k]]
    /\ IF srvConfig[k] = runner[k].template THEN UNCHANGED <<file, started, rejected>>
       ELSE /\ file' = [file EXCEPT ![<<k, runner[k].settings>>] = srvConfig[k]]
            /\ \/ (srvConfig[k] \in Broken \/ "unvalidated" \in Faults) /\ Reject(k)
               \/ srvConfig[k] \notin Broken /\ Apply(k)

Skip(k) == Turn(k) /\ runner[k] = None /\ UNCHANGED made

Next ==
    \/ Administrate \/ Forget \/ EndRound \/ Learn \/ Follow
    \/ \E k \in Keys : Respawn(k) \/ Bring(k) \/ Skip(k)

Spec == Init /\ [][Next]_vars
=============================================================================
