----------------------------- MODULE Periodicals -----------------------------
(***************************************************************************)
(* The control loop (src/services/periodicals.go) against the Graylog      *)
(* server.  One round registers, which returns the assignments, fetches    *)
(* the list of backends, brings the stores and the runners in line, and    *)
(* fetches the configuration of every assigned backend; Etags kept as      *)
(* checksums make the server answer 304 for what has not changed.          *)
(*                                                                         *)
(* A key stands for "<collector id>-<configuration id>".  The settings of  *)
(* a backend (name, executable, parameters, path of its configuration      *)
(* file) and the text of a configuration are opaque values; the Etag of an *)
(* answer is its content.                                                  *)
(***************************************************************************)
EXTENDS Naturals, FiniteSets

CONSTANTS
    Keys,           \* assignable backends
    Settings,       \* values of a backend's settings
    Unsupported,    \* those with a service type this platform has no runner for
    Templates,      \* texts of configurations
    Broken,         \* those the collector's validation command rejects
    None,           \* no settings, no configuration, no checksum: nil and ""
    Pinned,         \* keys the server goes on assigning and listing
    Faults,         \* what may go wrong, see below
    MaxChanges      \* bound: changes on the server and restarts of the sidecar

ASSUME KeysAssumption == Pinned \subseteq Keys
ASSUME MaxChangesAssumption == MaxChanges \in Nat
(* down: a request fails or is answered with an error status;              *)
(* hollow...: an answer is accepted although its body carried nothing, to  *)
(* the registration, the request for the list, or that for a configuration;*)
(* unwritable: the configuration file cannot be written;                   *)
(* unvalidated: the validation of a good configuration fails, because the  *)
(* command cannot be started, is not on the access list or times out.      *)
ASSUME FaultsAssumption ==
    Faults \subseteq {"down", "hollowRegistration", "hollowList", "hollowConfig",
                      "unwritable", "unvalidated"}

VARIABLES
    srvAssigned, srvSettings, srvConfig,    \* the server's database
    changes,                                \* counts up to MaxChanges
    pc, todo,                               \* the loop; keys left in this round
    registered,                             \* lastRegResponse.Assignments
    backends, backendsSum,                  \* lastBackendResponse and its Etag
    assigned,                               \* assignments.Store
    store,                                  \* backends.Store: settings by key
    runner,                                 \* Daemon.Runner: the backend of each
    checksums,                              \* configChecksums
    file,                                   \* the files by key and settings
    started,                                \* what each runner's process got
    rejected                                \* backends whose status is the error
                                            \* of a validation that failed

server == <<srvAssigned, srvSettings, srvConfig>>
memory == <<registered, backends, backendsSum, assigned, store, runner, checksums>>
collectors == <<file, started, rejected>>
vars == <<server, changes, pc, todo, memory, collectors>>

Configs == Templates \cup {None}
Runners == [settings : Settings \ Unsupported, template : Configs]
Lists == [Keys -> Settings \cup {None}]
Nothing == [k \in Keys |-> None]

ASSUME ValuesAssumption ==
    /\ Unsupported \subseteq Settings /\ Broken \subseteq Templates
    /\ \A values \in {Settings, Templates, Runners, Lists} : None \notin values

Fails == "down" \in Faults

Init ==
    /\ srvAssigned = Pinned
    /\ srvSettings \in Lists
    /\ \A k \in Pinned : srvSettings[k] \in Settings \ Unsupported
    /\ srvConfig \in [Keys -> Configs]
    /\ changes = 0
    /\ pc = "register" /\ todo = {}
    /\ registered = {} /\ assigned = {}
    /\ backends = Nothing /\ backendsSum = None
    /\ store = Nothing /\ runner = Nothing /\ checksums = Nothing
    /\ file = [f \in Keys \X Settings |-> None]
    /\ started = Nothing /\ rejected = {}

-----------------------------------------------------------------------------
(* The environment: an administrator at the server, and the operating      *)
(* system.                                                                 *)

RoundEnds == pc' = "register" /\ todo' = {}

Changing == changes < MaxChanges /\ changes' = changes + 1

Assign(k) ==
    /\ Changing
    /\ k \notin Pinned
    /\ srvAssigned' = (srvAssigned \ {k}) \cup ({k} \ srvAssigned)
    /\ UNCHANGED <<srvSettings, srvConfig, pc, todo, memory, collectors>>

ChangeSettings(k, s) ==
    /\ Changing
    /\ s # srvSettings[k]
    /\ k \in Pinned => s \in Settings \ Unsupported
    /\ srvSettings' = [srvSettings EXCEPT ![k] = s]
    /\ UNCHANGED <<srvAssigned, srvConfig, pc, todo, memory, collectors>>

ChangeConfig(k, t) ==
    /\ Changing
    /\ t # srvConfig[k]
    /\ srvConfig' = [srvConfig EXCEPT ![k] = t]
    /\ UNCHANGED <<srvAssigned, srvSettings, pc, todo, memory, collectors>>

(* Only the files outlive the sidecar.                                     *)
SidecarRestarts ==
    /\ Changing
    /\ RoundEnds
    /\ registered' = {} /\ assigned' = {}
    /\ backends' = Nothing /\ backendsSum' = None
    /\ store' = Nothing /\ runner' = Nothing /\ checksums' = Nothing
    /\ started' = Nothing /\ rejected' = {}
    /\ UNCHANGED <<server, file>>

OnDisk(k) == file[<<k, runner[k].settings>>]
Process(k) == <<runner[k].settings, OnDisk(k)>>
Stopped == <<None, None>>
IsUp(k) == started[k] \notin {None, Stopped}

(* The supervisor of a runner restarts a process that exited, with         *)
(* whatever is on disk.                                                    *)
Respawn(k) ==
    /\ IsUp(k)
    /\ started' = [started EXCEPT ![k] = Process(k)]
    /\ rejected' = rejected \ {k}       \* the status is that of the new process
    /\ UNCHANGED <<server, changes, pc, todo, memory, file>>

-----------------------------------------------------------------------------
(* Registration, and the remote action that may come with the answer.      *)

RegistrationFails ==
    /\ pc = "register" /\ Fails
    /\ UNCHANGED vars

(* A 400 that complains of a property, or a 202 without a body, counts as  *)
(* an answer with no assignments.                                          *)
RegisterWith(assignments) ==
    /\ pc = "register"
    /\ registered' = assignments
    /\ pc' = "backends"
    /\ UNCHANGED <<server, changes, todo, backends, backendsSum, assigned,
                   store, runner, checksums, file>>

Register == RegisterWith(srvAssigned) /\ UNCHANGED <<started, rejected>>

RegisterHollow ==
    /\ "hollowRegistration" \in Faults
    /\ RegisterWith({}) /\ UNCHANGED <<started, rejected>>

(* Actions reach the runners of backends that are in the store; one action *)
(* names a collector and thereby all its keys.                             *)
RegisterWithAction(named, action) ==
    LET acted == {k \in named : /\ store[k] # None /\ runner[k] # None
                                /\ ~(action = "start" /\ IsUp(k))}
    IN  /\ RegisterWith(srvAssigned)
        /\ started' = [k \in Keys |-> IF k \notin acted THEN started[k]
                                      ELSE IF action = "stop" THEN Stopped
                                      ELSE Process(k)]
        /\ rejected' = rejected \ acted

-----------------------------------------------------------------------------
(* The list of backends; then the stores and the runners follow.           *)

MutantForgetChecksums(modified, listIsNew) == modified   \* not when the list is new
ForgetChecksums(modified, listIsNew) == modified \/ listIsNew

MutantSupported(s) == s # None
Supported(s) == s \notin Unsupported \cup {None}

SameSettings(k, settings) == runner[k] # None /\ runner[k].settings = settings

MutantSync(k, settings) ==      \* what is not assigned any more stays
    IF ~Supported(settings) THEN runner[k]
    ELSE [settings |-> settings, template |-> None]

MutantSyncKeeps(k, settings) ==     \* new settings do not drop the template
    IF ~Supported(settings) THEN None
    ELSE IF runner[k] # None THEN [runner[k] EXCEPT !.settings = settings]
    ELSE [settings |-> settings, template |-> None]

(* SyncWithAssignments for one key: SetBackend drops the template, so that *)
(* the configuration is written again; a change of service type replaces   *)
(* the runner by one of the new type, if there is one.                     *)
Sync(k, settings) ==
    IF ~Supported(settings) THEN None
    ELSE IF SameSettings(k, settings) THEN runner[k]
    ELSE [settings |-> settings, template |-> None]

Modified == registered # assigned

Stored(list) == [k \in Keys |-> IF k \in registered THEN list[k] ELSE None]

UpdateWith(list, etag, listIsNew) ==
    /\ backends' = list /\ backendsSum' = etag
    /\ assigned' = registered
    /\ store' = Stored(list)
    /\ checksums' = IF ForgetChecksums(Modified, listIsNew) THEN Nothing ELSE checksums
    /\ runner' = [k \in Keys |-> Sync(k, Stored(list)[k])]
    /\ started' = [k \in Keys |-> IF runner'[k] = None THEN None ELSE started[k]]
    /\ rejected' = {k \in rejected : SameSettings(k, Stored(list)[k])}
    /\ todo' = registered
    /\ pc' = IF registered = {} THEN "register" ELSE "configs"

MutantBackendsFail ==           \* an error counts as an empty list
    /\ pc = "backends" /\ Fails
    /\ UpdateWith(Nothing, None, TRUE)
    /\ UNCHANGED <<server, changes, registered, file>>

BackendsFail ==
    /\ pc = "backends" /\ Fails
    /\ RoundEnds
    /\ UNCHANGED <<server, changes, memory, collectors>>

FetchBackends ==
    /\ pc = "backends"
    /\ IF srvSettings = backendsSum
       THEN UpdateWith(backends, backendsSum, FALSE)            \* 304
       ELSE UpdateWith(srvSettings, srvSettings, TRUE)
    /\ UNCHANGED <<server, changes, registered, file>>

FetchBackendsHollow ==
    /\ pc = "backends" /\ "hollowList" \in Faults
    /\ srvSettings # backendsSum
    /\ UpdateWith(Nothing, srvSettings, TRUE)
    /\ UNCHANGED <<server, changes, registered, file>>

-----------------------------------------------------------------------------
(* checkForUpdateAndRestart, one key after the other in any order.         *)

NextKey(k) ==
    /\ todo' = todo \ {k}
    /\ pc' = IF todo = {k} THEN "register" ELSE "configs"

Asked(k) == pc = "configs" /\ k \in todo /\ runner[k] # None

SkipKey(k) ==
    /\ pc = "configs" /\ k \in todo /\ runner[k] = None
    /\ NextKey(k)
    /\ UNCHANGED <<server, changes, memory, collectors>>

ConfigFails(k) ==
    /\ Asked(k) /\ Fails
    /\ RoundEnds
    /\ UNCHANGED <<server, changes, memory, collectors>>

Etag(k) == srvConfig[k]         \* a 204 has none
NotModified(k) == checksums[k] # None /\ checksums[k] = Etag(k)

ConfigNotModified(k) ==
    /\ Asked(k) /\ NotModified(k)
    /\ NextKey(k)
    /\ UNCHANGED <<server, changes, memory, collectors>>

(* What the validation of a text may come to.                              *)
Verdicts(template) ==
    IF template \in Broken THEN {FALSE}
    ELSE IF "unvalidated" \in Faults THEN BOOLEAN
    ELSE {TRUE}

(* RenderOnChange, ValidateConfigurationFile and Restart.  The checksum is *)
(* kept first: a text that is rejected, the verdict being wrong or not, is *)
(* not looked at again until the text, the list or the assignments change. *)
Deliver(k, template, written, valid) ==
    LET changed == template # runner[k].template
        path == <<k, runner[k].settings>>
        applied == changed /\ written /\ valid
    IN  /\ Asked(k) /\ ~NotModified(k)
        /\ checksums' = [checksums EXCEPT ![k] = Etag(k)]
        /\ runner' = [runner EXCEPT ![k].template = template]
        /\ file' = IF changed /\ written
                   THEN [file EXCEPT ![path] = template] ELSE file
        /\ started' = IF applied
                      THEN [started EXCEPT ![k] = <<path[2], template>>]
                      ELSE started
        /\ rejected' = IF ~changed \/ ~written THEN rejected
                       ELSE IF valid THEN rejected \ {k} ELSE rejected \cup {k}
        /\ NextKey(k)
        /\ UNCHANGED <<server, changes, registered, backends, backendsSum,
                       assigned, store>>

FetchConfig(k) ==
    \E valid \in Verdicts(srvConfig[k]) : Deliver(k, srvConfig[k], TRUE, valid)

FetchConfigHollow(k) ==
    "hollowConfig" \in Faults /\ \E valid \in Verdicts(None) : Deliver(k, None, TRUE, valid)

FetchConfigUnwritable(k) ==
    "unwritable" \in Faults /\ Deliver(k, srvConfig[k], FALSE, FALSE)

-----------------------------------------------------------------------------
Environment ==
    \/ \E k \in Keys : Assign(k) \/ Respawn(k)
    \/ \E k \in Keys, s \in Settings \cup {None} : ChangeSettings(k, s)
    \/ \E k \in Keys, t \in Configs : ChangeConfig(k, t)
    \/ SidecarRestarts

Answered(k) == SkipKey(k) \/ ConfigNotModified(k) \/ FetchConfig(k)

Loop ==
    \/ RegistrationFails \/ Register \/ RegisterHollow
    \/ \E named \in SUBSET Keys, action \in {"start", "restart", "stop"} :
          RegisterWithAction(named, action)
    \/ BackendsFail \/ FetchBackends \/ FetchBackendsHollow
    \/ \E k \in Keys : \/ Answered(k) \/ ConfigFails(k)
                       \/ FetchConfigHollow(k) \/ FetchConfigUnwritable(k)

Next == Environment \/ Loop

(* The loop sleeps and runs again; a request that is made again and again  *)
(* is answered some time.                                                  *)
Fairness ==
    /\ WF_vars(Loop)
    /\ SF_vars(Register) /\ SF_vars(FetchBackends)
    /\ \A k \in Keys : SF_vars(Answered(k))

Spec == Init /\ [][Next]_vars
FairSpec == Spec /\ Fairness

-----------------------------------------------------------------------------
(* Properties.                                                             *)

(* Every variable has its type; a runner exists only for a service type    *)
(* the platform supports.                                                  *)
TypeOK ==
    /\ srvAssigned \subseteq Keys /\ srvSettings \in Lists
    /\ srvConfig \in [Keys -> Configs]
    /\ changes \in 0 .. MaxChanges
    /\ pc \in {"register", "backends", "configs"} /\ todo \subseteq Keys
    /\ registered \subseteq Keys /\ assigned \subseteq Keys
    /\ backends \in Lists
    /\ backendsSum \in Lists \cup {None}
    /\ store \in Lists
    /\ runner \in [Keys -> Runners \cup {None}]
    /\ checksums \in [Keys -> Configs]
    /\ file \in [Keys \X Settings -> Configs]
    /\ started \in [Keys -> (Settings \X Configs) \cup {None, Stopped}]
    /\ rejected \subseteq {k \in Keys : runner[k] # None}

(* A checksum that makes the server answer 304 stands for a configuration  *)
(* this runner has been given and that is on disk under its current path:  *)
(* what is taken for delivered has been delivered.                         *)
CachedIsOnDisk ==
    \A k \in Keys : checksums[k] # None /\ runner[k] # None =>
        runner[k].template = checksums[k] /\ OnDisk(k) = checksums[k]

(* What the loop takes for delivered, and will not ask for again, is what  *)
(* the collector was last started with, or was stopped from: else an error *)
(* is reported.  So a validation that times out, a new path or a remote    *)
(* action never leaves a collector running silently on something else.     *)
KeptIsInForce ==
    \A k \in Keys : checksums[k] # None /\ runner[k] # None =>
        started[k] \in {Process(k), Stopped} \/ k \in rejected

(* A runner is there exactly for the assigned backends the server listed,  *)
(* with the settings it listed, and what is left to be asked for is        *)
(* assigned; a process is accounted for only together with its runner.     *)
RunnersFollowStores ==
    \A k \in Keys :
        /\ runner[k] # None => k \in assigned /\ runner[k].settings = store[k]
        /\ runner[k] = None => started[k] = None
        /\ k \in todo => k \in assigned

(* A collector the server goes on assigning is not taken away, whatever    *)
(* requests fail (changelog 1.5.0: "Avoid stopping collectors if a Graylog *)
(* cluster behind load balancers is partly shut down.").                   *)
PinnedStay ==
    [][UNCHANGED changes =>
          \A k \in Pinned : runner[k] # None => runner'[k] # None]_vars

(* Once the server's database stays as it is, and however many requests    *)
(* failed before, every assigned backend gets there: its runner has the    *)
(* server's settings, its file the server's configuration, and its process *)
(* was started with both, unless it was stopped on request, the server has *)
(* no configuration for it, or an error of its validation is reported.     *)
Delivered(k) ==
    /\ runner[k] = [settings |-> srvSettings[k], template |-> srvConfig[k]]
    /\ srvConfig[k] # None => OnDisk(k) = srvConfig[k]
    /\ \/ srvConfig[k] = None \/ k \in rejected
       \/ started[k] \in {Process(k), Stopped}

Converges ==
    <>[](\A k \in Keys :
            IF k \in srvAssigned /\ Supported(srvSettings[k])
            THEN Delivered(k) ELSE runner[k] = None)

-----------------------------------------------------------------------------
(* Etags, the kept list of backends and the stores cannot be told from     *)
(* asking for everything each time: with them, the sidecar does what       *)
(* Mirror does without.  In particular a 304, to the list or for a         *)
(* configuration, is only ever answered when the whole answer would have   *)
(* changed nothing.                                                        *)
Mirrored == INSTANCE Mirror

ImplementsMirror == Mirrored!Spec
=============================================================================
