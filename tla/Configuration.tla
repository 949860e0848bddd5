---------------------------- MODULE Configuration ----------------------------
(***************************************************************************)
(* The configuration of a sidecar: what LoadConfig takes from the YAML     *)
(* file and checks at start (src/context/context.go, src/cfgfile), the     *)
(* node id that is kept in a file of its own (src/helpers/helper.go), and  *)
(* the two values the server may override while the sidecar runs, or the   *)
(* sidecar itself gives up (src/api/graylog.go).                           *)
(*                                                                         *)
(* node_id is a "file:" path.  Of the YAML file the model keeps the two    *)
(* values that can change at run time; all other entries are valid.        *)
(***************************************************************************)
EXTENDS Naturals

CONSTANTS
    Processes,      \* the service, and commands run with -configtest
    Sidecar,        \* the service
    Ids,            \* values of RandomUuid(); no value comes twice
    Intervals,      \* values of update_interval; 0 stands for all below 1
    Absent, Empty   \* a node-id file that does not exist, or has no content

ASSUME ProcessesAssumption == Sidecar \in Processes
ASSUME IdsAssumption == Absent \notin Ids /\ Empty \notin Ids /\ Absent # Empty
ASSUME IntervalsAssumption == Intervals \subseteq Nat /\ 0 \in Intervals

Values == [interval : Intervals, sendStatus : BOOLEAN]
Answers == [interval : Intervals, sendStatus : BOOLEAN, override : BOOLEAN]

VARIABLES
    file,           \* the YAML file
    readable,       \* whether it can be read and parsed
    nodeFile,       \* the node-id file
    issued,         \* history: the uuids drawn so far
    pc,             \* where each process is in LoadConfig
    loaded,         \* ctx.UserConfig of each process: what it read
    nodeId,         \* ctx.NodeId of the sidecar
    used,           \* history: the ids the sidecar has run with
    interval, sendStatus,   \* ctx.UserConfig.UpdateInterval and .SendStatus
    marked,         \* configurationOverride
    fellBack,       \* history: send_status was given up since the last read
    lost,           \* history: a write of the node-id file came to nothing
    answer          \* what the server tells this sidecar

disk == <<file, readable, nodeFile>>
idVars == <<issued, nodeId, used, lost>>
runVars == <<interval, sendStatus, marked, fellBack>>
vars == <<disk, idVars, runVars, pc, loaded, answer>>

Init ==
    /\ file \in Values /\ readable = TRUE
    /\ nodeFile = Absent /\ issued = {} /\ used = {} /\ nodeId = Empty
    /\ pc = [p \in Processes |-> "down"]
    /\ loaded = [p \in Processes |-> file]
    /\ interval = file.interval /\ sendStatus = file.sendStatus
    /\ marked = FALSE /\ fellBack = FALSE /\ lost = FALSE
    /\ answer \in Answers

-----------------------------------------------------------------------------
(* LoadConfig.                                                             *)

(* A file that cannot be read or parsed ends the process here.             *)
Begin(p) ==
    /\ pc[p] = "down" /\ readable
    /\ loaded' = [loaded EXCEPT ![p] = file]
    /\ pc' = [pc EXCEPT ![p] = IF nodeFile = Absent THEN "create" ELSE "read"]
    /\ UNCHANGED <<disk, idVars, runVars, answer>>

MutantCreate(p) ==              \* closed without a write
    /\ pc[p] = "create"
    /\ nodeFile' = Empty
    /\ pc' = [pc EXCEPT ![p] = "read"]
    /\ UNCHANGED <<file, readable, idVars, runVars, loaded, answer>>

(* WriteFile truncates or creates the file, and then writes.               *)
Create(p) ==
    /\ pc[p] = "create"
    /\ nodeFile' = Empty
    /\ pc' = [pc EXCEPT ![p] = "write"]
    /\ UNCHANGED <<file, readable, idVars, runVars, loaded, answer>>

CannotCreate(p) ==
    /\ pc[p] = "create"
    /\ pc' = [pc EXCEPT ![p] = "read"]
    /\ UNCHANGED <<disk, idVars, runVars, loaded, answer>>

Write(p, id) ==
    /\ pc[p] = "write"
    /\ id \notin issued
    /\ issued' = issued \cup {id}
    /\ nodeFile' = id
    /\ pc' = [pc EXCEPT ![p] = "read"]
    /\ UNCHANGED <<file, readable, nodeId, used, lost, runVars, loaded, answer>>

CannotWrite(p) ==
    /\ pc[p] = "write"
    /\ lost' = TRUE
    /\ pc' = [pc EXCEPT ![p] = "read"]
    /\ UNCHANGED <<disk, issued, nodeId, used, runVars, loaded, answer>>

MutantReadId(p) ==              \* an id of its own when there is none to read
    /\ pc[p] = "read"
    /\ IF p = Sidecar /\ loaded[p].interval > 0
       THEN \E id \in IF nodeFile \in Ids THEN {nodeFile} ELSE Ids \ issued :
               /\ nodeId' = id
               /\ used' = used \cup {id}
               /\ interval' = loaded[p].interval /\ sendStatus' = loaded[p].sendStatus
               /\ marked' = FALSE /\ fellBack' = FALSE
               /\ pc' = [pc EXCEPT ![p] = "up"]
       ELSE pc' = [pc EXCEPT ![p] = "down"] /\ UNCHANGED <<nodeId, used, runVars>>
    /\ UNCHANGED <<disk, issued, lost, loaded, answer>>

MutantReadAny(p) ==             \* an empty id is none the worse
    /\ pc[p] = "read" /\ p = Sidecar
    /\ nodeId' = nodeFile /\ used' = used \cup {nodeFile}
    /\ pc' = [pc EXCEPT ![p] = "up"]
    /\ UNCHANGED <<disk, issued, lost, runVars, loaded, answer>>

(* The rest of LoadConfig: an empty id and an interval below 1 are fatal;  *)
(* a test of the configuration ends in any case.                           *)
ReadId(p) ==
    /\ pc[p] = "read"
    /\ IF p = Sidecar /\ nodeFile \in Ids /\ loaded[p].interval > 0
       THEN /\ nodeId' = nodeFile
            /\ used' = used \cup {nodeFile}
            /\ interval' = loaded[p].interval /\ sendStatus' = loaded[p].sendStatus
            /\ marked' = FALSE /\ fellBack' = FALSE
            /\ pc' = [pc EXCEPT ![p] = "up"]
       ELSE pc' = [pc EXCEPT ![p] = "down"] /\ UNCHANGED <<nodeId, used, runVars>>
    /\ UNCHANGED <<disk, issued, lost, loaded, answer>>

(* A crash, a stop, or an error on the way, reading the id included.       *)
Ends(p) ==
    /\ pc[p] # "down"
    /\ pc' = [pc EXCEPT ![p] = "down"]
    /\ lost' = (lost \/ pc[p] = "write")
    /\ UNCHANGED <<disk, issued, nodeId, used, runVars, loaded, answer>>

-----------------------------------------------------------------------------
(* The sidecar registers.                                                  *)

Runs == pc[Sidecar] = "up"

(* An answer whose configuration is the zero value carries none.           *)
Configured == answer.interval # 0 \/ answer.sendStatus

IntervalChanges == answer.override /\ answer.interval > 0 /\ answer.interval # interval
StatusChanges == answer.override /\ answer.sendStatus # sendStatus

Override ==
    /\ Runs /\ Configured
    /\ IntervalChanges \/ StatusChanges
    /\ interval' = IF IntervalChanges THEN answer.interval ELSE interval
    /\ sendStatus' = answer.sendStatus
    /\ marked' = TRUE
    /\ UNCHANGED <<disk, idVars, fellBack, pc, loaded, answer>>

MutantReset ==                  \* the mark is forgotten, whether read or not
    /\ Runs /\ Configured /\ ~answer.override /\ marked
    /\ marked' = FALSE
    /\ IF readable
       THEN /\ loaded' = [loaded EXCEPT ![Sidecar] = file]
            /\ interval' = file.interval /\ sendStatus' = file.sendStatus
            /\ fellBack' = FALSE
       ELSE UNCHANGED <<loaded, interval, sendStatus, fellBack>>
    /\ UNCHANGED <<disk, idVars, pc, answer>>

MutantResetDiffers ==           \* only an interval that differs is put back
    /\ Runs /\ Configured /\ ~answer.override /\ marked
    /\ readable /\ interval # file.interval
    /\ interval' = file.interval /\ sendStatus' = file.sendStatus
    /\ marked' = FALSE /\ fellBack' = FALSE
    /\ UNCHANGED <<disk, idVars, pc, loaded, answer>>

(* Only a file that can be read again ends an override.                    *)
Reset ==
    /\ Runs /\ Configured /\ ~answer.override /\ marked
    /\ readable
    /\ loaded' = [loaded EXCEPT ![Sidecar] = file]
    /\ interval' = file.interval /\ sendStatus' = file.sendStatus
    /\ marked' = FALSE /\ fellBack' = FALSE
    /\ UNCHANGED <<disk, idVars, pc, answer>>

(* A 400, "Unable to map property": the server does not know the status.   *)
FallBack ==
    /\ Runs /\ sendStatus
    /\ sendStatus' = FALSE
    /\ fellBack' = TRUE
    /\ UNCHANGED <<disk, idVars, interval, marked, pc, loaded, answer>>

-----------------------------------------------------------------------------
(* The administrator edits the file, and changes what the server says.     *)

Edit(values, valid) ==
    /\ file' = values /\ readable' = valid
    /\ UNCHANGED <<nodeFile, idVars, runVars, pc, loaded, answer>>

ServerDecides(values) ==
    /\ answer' = values
    /\ UNCHANGED <<disk, idVars, runVars, pc, loaded>>

Load(p) ==
    \/ Begin(p) \/ Create(p) \/ CannotCreate(p) \/ CannotWrite(p) \/ ReadId(p)
    \/ \E id \in Ids : Write(p, id)

Next ==
    \/ \E p \in Processes : Load(p) \/ Ends(p)
    \/ Override \/ Reset \/ FallBack
    \/ \E values \in Values, valid \in BOOLEAN : Edit(values, valid)
    \/ \E values \in Answers : ServerDecides(values)

(* A running sidecar registers again and again.                            *)
Fairness == WF_vars(Reset)

Spec == Init /\ [][Next]_vars
FairSpec == Spec /\ Fairness

-----------------------------------------------------------------------------
(* Properties.                                                             *)

(* Every variable has its type; a sidecar runs with an id.                 *)
TypeOK ==
    /\ file \in Values /\ readable \in BOOLEAN
    /\ nodeFile \in Ids \cup {Absent, Empty}
    /\ issued \subseteq Ids /\ used \subseteq Ids
    /\ nodeId \in Ids \cup {Empty}
    /\ pc \in [Processes -> {"down", "create", "write", "read", "up"}]
    /\ loaded \in [Processes -> Values]
    /\ interval \in Intervals /\ sendStatus \in BOOLEAN
    /\ marked \in BOOLEAN /\ fellBack \in BOOLEAN /\ lost \in BOOLEAN
    /\ answer \in Answers
    /\ Runs => nodeId \in used

(* sidecar-example.yml, "the sidecar will generate an unique ID and writes *)
(* it to the configured path": every id the sidecar has ever run with is   *)
(* the one in the file, so that it is the same node after every restart.   *)
NodeIdKept == \A id \in used : nodeFile = id

(* A node-id file without content, which makes every later start fail, is  *)
(* left only by a crash or an error in the middle of its first write.      *)
EmptyOnlyIfLost ==
    nodeFile = Empty /\ (\A p \in Processes : pc[p] # "write") => lost

(* The running values differ from those last read from the file only while *)
(* the override is marked, which is what brings them back; but for a       *)
(* send_status the server did not understand.                              *)
DifferencesAreMarked ==
    Runs /\ ~marked =>
        /\ interval = loaded[Sidecar].interval
        /\ sendStatus = (loaded[Sidecar].sendStatus /\ ~fellBack)

(* An override that is withdrawn for good, in answers that carry values,   *)
(* is undone once the file can be read, however often that failed before.  *)
Withdrawn == Runs /\ Configured /\ ~answer.override
OverridesEnd == [](Withdrawn /\ readable) ~> ~marked

(* LoadConfig, "Please set update interval > 0 seconds.": the pause        *)
(* between two rounds is never nothing.                                    *)
IntervalIsPositive == Runs => interval > 0
=============================================================================
