-------------------------- MODULE PeriodicalsProofs --------------------------
(* What the control loop guarantees for every number of keys, settings and *)
(* configurations, and however often the server's database changes.        *)
EXTENDS Periodicals, TLAPS

(* The three stores and the runners after any number of rounds.            *)
StoresAgree ==
    \A k \in Keys :
        /\ store[k] = IF k \in assigned THEN backends[k] ELSE None
        /\ runner[k] = None <=> ~Supported(store[k])
        /\ runner[k] # None => runner[k].settings = store[k]

LoopInv == TypeOK /\ StoresAgree /\ RunnersFollowStores

LEMMA SupportedType == \A s : Supported(s) /\ s \in Settings \cup {None} =>
                                  s \in Settings \ Unsupported /\ s # None
BY DEF Supported

LEMMA SyncType ==
    ASSUME TypeOK, NEW k \in Keys, NEW s \in Settings \cup {None}
    PROVE  /\ Sync(k, s) \in Runners \cup {None}
           /\ Sync(k, s) = None <=> ~Supported(s)
           /\ Sync(k, s) # None => Sync(k, s).settings = s
<1> USE ValuesAssumption DEF ValuesAssumption
<1>1. runner[k] \in Runners \cup {None}
  BY DEF TypeOK
<1>2. CASE ~Supported(s)
  BY <1>2 DEF Sync
<1>3. CASE Supported(s)
  <2>1. s \in Settings \ Unsupported
    BY <1>3, SupportedType
  <2>2. [settings |-> s, template |-> None] \in Runners
    BY <2>1 DEF Runners, Configs
  <2>3. [settings |-> s, template |-> None] # None
    BY <2>2
  <2> QED BY <1>1, <1>3, <2>2, <2>3 DEF Sync, SameSettings
<1> QED BY <1>2, <1>3

LEMMA UpdatePreserves ==
    ASSUME LoopInv, NEW list \in Lists, NEW etag \in Lists \cup {None},
           NEW listIsNew \in BOOLEAN, UpdateWith(list, etag, listIsNew),
           UNCHANGED <<server, changes, registered, file>>
    PROVE  LoopInv'
<1> DEFINE stored == Stored(list)
<1>1. stored \in Lists
  BY DEF Lists, Stored
<1>2. \A k \in Keys : stored[k] \in Settings \cup {None}
  BY <1>1 DEF Lists
<1>3. /\ backends' = list /\ backendsSum' = etag
      /\ assigned' = registered /\ store' = stored
      /\ checksums' \in {Nothing, checksums}
      /\ runner' = [k \in Keys |-> Sync(k, stored[k])]
      /\ started' = [k \in Keys |-> IF runner'[k] = None THEN None ELSE started[k]]
      /\ rejected' = {k \in rejected : SameSettings(k, stored[k])}
      /\ todo' = registered /\ pc' \in {"register", "configs"}
  BY DEF UpdateWith
<1> HIDE DEF stored
<1>4. /\ \A k \in Keys : /\ runner'[k] \in Runners \cup {None}
                         /\ runner'[k] = None <=> ~Supported(stored[k])
                         /\ runner'[k] # None => runner'[k].settings = stored[k]
  BY <1>2, <1>3, SyncType DEF LoopInv
<1>5. TypeOK'
  <2>1. runner' \in [Keys -> Runners \cup {None}]
    BY <1>3, <1>4
  <2>2. started' \in [Keys -> (Settings \X Configs) \cup {None, Stopped}]
    BY <1>3 DEF LoopInv, TypeOK
  <2>3. checksums' \in [Keys -> Configs]
    BY <1>3 DEF LoopInv, TypeOK, Nothing, Configs
  <2>4. /\ registered' = registered /\ registered \subseteq Keys
        /\ file' = file /\ changes' = changes
        /\ srvAssigned' = srvAssigned /\ srvSettings' = srvSettings
        /\ srvConfig' = srvConfig
    BY DEF LoopInv, TypeOK, server
  <2>5. rejected' \subseteq {k \in Keys : runner'[k] # None}
    <3> SUFFICES ASSUME NEW k \in rejected, SameSettings(k, stored[k])
                 PROVE  k \in Keys /\ runner'[k] # None
      BY <1>3
    <3>1. k \in Keys /\ runner[k] \in Runners /\ runner[k].settings = stored[k]
      BY DEF LoopInv, TypeOK, SameSettings
    <3>2. Supported(stored[k])
      BY <3>1, ValuesAssumption DEF Runners, Supported, ValuesAssumption
    <3> QED BY <1>4, <3>1, <3>2
  <2> QED BY <1>1, <1>3, <2>1, <2>2, <2>3, <2>4, <2>5 DEF LoopInv, TypeOK
<1>6. StoresAgree'
  <2> SUFFICES ASSUME NEW k \in Keys
               PROVE  /\ store'[k] = IF k \in assigned' THEN backends'[k] ELSE None
                      /\ runner'[k] = None <=> ~Supported(store'[k])
                      /\ runner'[k] # None => runner'[k].settings = store'[k]
    BY DEF StoresAgree, Supported
  <2> QED BY <1>3, <1>4 DEF stored, Stored
<1>7. RunnersFollowStores'
  <2> SUFFICES ASSUME NEW k \in Keys
               PROVE  /\ runner'[k] # None =>
                           k \in assigned' /\ runner'[k].settings = store'[k]
                      /\ runner'[k] = None => started'[k] = None
                      /\ k \in todo' => k \in assigned'
    BY DEF RunnersFollowStores
  <2>1. runner'[k] # None => stored[k] # None
    BY <1>4 DEF Supported
  <2> QED BY <1>3, <1>4, <2>1 DEF stored, Stored
<1> QED BY <1>5, <1>6, <1>7 DEF LoopInv

LEMMA DeliverPreserves ==
    ASSUME LoopInv, NEW k \in Keys, NEW t \in Configs, NEW written \in BOOLEAN,
           NEW valid \in BOOLEAN, Deliver(k, t, written, valid)
    PROVE  LoopInv'
<1> USE ValuesAssumption DEF ValuesAssumption, LoopInv
<1>1. /\ runner[k] \in Runners /\ runner[k].settings \in Settings
      /\ k \in todo
  BY DEF Deliver, Asked, TypeOK, Runners
<1>2. /\ runner' = [runner EXCEPT ![k].template = t]
      /\ checksums' = [checksums EXCEPT ![k] = srvConfig[k]]
      /\ file' \in {file, [file EXCEPT ![<<k, runner[k].settings>>] = t]}
      /\ started' \in {started, [started EXCEPT ![k] = <<runner[k].settings, t>>]}
      /\ rejected' \in {rejected, rejected \ {k}, rejected \cup {k}}
      /\ todo' = todo \ {k} /\ pc' \in {"register", "configs"}
      /\ UNCHANGED <<server, changes, registered, backends, backendsSum,
                     assigned, store>>
  BY DEF Deliver, Etag, NextKey
<1>3. [runner[k] EXCEPT !.template = t] \in Runners
  BY <1>1 DEF Runners
<1>4. \A j \in Keys : /\ j # k => runner'[j] = runner[j]
                      /\ runner'[k] \in Runners
                      /\ runner'[k].settings = runner[k].settings
  BY <1>1, <1>2, <1>3 DEF TypeOK, Runners
<1>5. TypeOK'
  <2>1. runner' \in [Keys -> Runners \cup {None}]
    BY <1>2, <1>3 DEF TypeOK
  <2>2. checksums' \in [Keys -> Configs]
    BY <1>2 DEF TypeOK, server
  <2>3. file' \in [Keys \X Settings -> Configs]
    <3>1. file \in [Keys \X Settings -> Configs]
      BY DEF TypeOK
    <3>2. \A path : [file EXCEPT ![path] = t] \in [Keys \X Settings -> Configs]
      BY <3>1
    <3> QED BY <1>2, <3>1, <3>2
  <2>4. started' \in [Keys -> (Settings \X Configs) \cup {None, Stopped}]
    BY <1>1, <1>2 DEF TypeOK
  <2>5. rejected' \subseteq {j \in Keys : runner'[j] # None}
    BY <1>1, <1>2, <1>4 DEF TypeOK
  <2> QED BY <1>2, <2>1, <2>2, <2>3, <2>4, <2>5 DEF TypeOK, server
<1>6. StoresAgree'
  <2>1. \A j \in Keys : runner'[j] = None <=> runner[j] = None
    BY <1>1, <1>4
  <2> QED BY <1>1, <1>2, <1>4, <2>1 DEF StoresAgree, Supported
<1>7. RunnersFollowStores'
  <2> SUFFICES ASSUME NEW j \in Keys
               PROVE  /\ runner'[j] # None =>
                           j \in assigned' /\ runner'[j].settings = store'[j]
                      /\ runner'[j] = None => started'[j] = None
                      /\ j \in todo' => j \in assigned'
    BY DEF RunnersFollowStores
  <2>1. CASE j = k
    BY <1>1, <1>2, <1>4, <2>1 DEF RunnersFollowStores
  <2>2. CASE j # k
    BY <1>2, <1>4, <2>2 DEF RunnersFollowStores, TypeOK
  <2> QED BY <2>1, <2>2
<1> QED BY <1>5, <1>6, <1>7

LEMMA LoopInvInit == Init => LoopInv
<1> SUFFICES ASSUME Init PROVE LoopInv
  OBVIOUS
<1> USE DEF Init
<1>1. TypeOK
  <2>1. Nothing \in Lists /\ Nothing \in [Keys -> Configs]
        /\ Nothing \in [Keys -> Runners \cup {None}]
        /\ Nothing \in [Keys -> (Settings \X Configs) \cup {None, Stopped}]
    BY DEF Nothing, Lists, Configs
  <2>2. file \in [Keys \X Settings -> Configs]
    BY DEF Configs
  <2> QED BY <2>1, <2>2, KeysAssumption, MaxChangesAssumption
          DEF TypeOK, KeysAssumption, MaxChangesAssumption
<1>2. StoresAgree /\ RunnersFollowStores
  BY DEF StoresAgree, RunnersFollowStores, Supported, Nothing
<1> QED BY <1>1, <1>2 DEF LoopInv

LEMMA EnvironmentPreserves ==
    ASSUME LoopInv, Environment
    PROVE  LoopInv'
<1> USE MaxChangesAssumption
    DEF MaxChangesAssumption, LoopInv, StoresAgree, RunnersFollowStores, Supported,
        server, memory, collectors, Changing
<1>1. ASSUME NEW k \in Keys, Assign(k)
      PROVE  LoopInv'
  BY <1>1 DEF Assign, TypeOK
<1>2. ASSUME NEW k \in Keys, Respawn(k)
      PROVE  LoopInv'
  <2>1. started[k] # None /\ runner[k] # None
    BY <1>2 DEF Respawn, IsUp
  <2>2. runner[k] \in Runners /\ runner[k].settings \in Settings
    BY <2>1 DEF TypeOK, Runners
  <2>3. Process(k) \in Settings \X Configs
    BY <2>2 DEF Process, OnDisk, TypeOK
  <2>4. TypeOK'
    BY <1>2, <2>3 DEF Respawn, TypeOK
  <2>5. StoresAgree'
    BY <1>2 DEF Respawn
  <2>6. RunnersFollowStores'
    BY <1>2, <2>1 DEF Respawn, TypeOK
  <2> QED BY <2>4, <2>5, <2>6
<1>3. ASSUME NEW k \in Keys, NEW s \in Settings \cup {None}, ChangeSettings(k, s)
      PROVE  LoopInv'
  BY <1>3 DEF ChangeSettings, TypeOK, Lists
<1>4. ASSUME NEW k \in Keys, NEW t \in Configs, ChangeConfig(k, t)
      PROVE  LoopInv'
  BY <1>4 DEF ChangeConfig, TypeOK
<1>5. CASE SidecarRestarts
  <2>1. Nothing \in Lists /\ Nothing \in [Keys -> Configs]
        /\ Nothing \in [Keys -> Runners \cup {None}]
        /\ Nothing \in [Keys -> (Settings \X Configs) \cup {None, Stopped}]
    BY DEF Nothing, Lists, Configs
  <2>2. TypeOK'
    BY <1>5, <2>1 DEF SidecarRestarts, RoundEnds, TypeOK
  <2> QED BY <1>5, <2>2 DEF SidecarRestarts, RoundEnds, Nothing
<1> QED BY <1>1, <1>2, <1>3, <1>4, <1>5 DEF Environment

LEMMA RegisterPreserves ==
    ASSUME LoopInv, NEW a \in SUBSET Keys, RegisterWith(a),
           \/ UNCHANGED <<started, rejected>>
           \/ \E named \in SUBSET Keys, action \in {"start", "restart", "stop"} :
                 RegisterWithAction(named, action)
    PROVE  LoopInv'
<1> USE DEF LoopInv, server
<1>1. /\ pc' = "backends" /\ registered' = a
      /\ UNCHANGED <<server, changes, todo, backends, backendsSum, assigned,
                     store, runner, checksums, file>>
  BY DEF RegisterWith
<1>2. \A k \in Keys : runner[k] # None => Process(k) \in Settings \X Configs
  BY DEF TypeOK, Runners, Process, OnDisk
<1>3. /\ started' \in [Keys -> (Settings \X Configs) \cup {None, Stopped}]
      /\ \A k \in Keys : runner[k] = None => started'[k] = None
      /\ rejected' \subseteq rejected
  <2>1. CASE UNCHANGED <<started, rejected>>
    BY <2>1 DEF TypeOK, RunnersFollowStores
  <2>2. ASSUME NEW named \in SUBSET Keys, NEW action \in {"start", "restart", "stop"},
               RegisterWithAction(named, action)
        PROVE  /\ started' \in [Keys -> (Settings \X Configs) \cup {None, Stopped}]
               /\ \A k \in Keys : runner[k] = None => started'[k] = None
               /\ rejected' \subseteq rejected
    BY <1>2, <2>2 DEF RegisterWithAction, TypeOK, RunnersFollowStores
  <2> QED BY <2>1, <2>2
<1>4. TypeOK'
  BY <1>1, <1>3 DEF TypeOK
<1>5. StoresAgree' /\ RunnersFollowStores'
  BY <1>1, <1>3 DEF StoresAgree, RunnersFollowStores, Supported
<1> QED BY <1>4, <1>5

LEMMA LoopPreserves ==
    ASSUME LoopInv, Loop
    PROVE  LoopInv'
<1>1. CASE RegistrationFails
  BY <1>1 DEF RegistrationFails, vars, server, memory, collectors, LoopInv, TypeOK,
              StoresAgree, RunnersFollowStores, Supported
<1>2. CASE Register \/ RegisterHollow
  BY <1>2, RegisterPreserves DEF Register, RegisterHollow, LoopInv, TypeOK
<1>3. ASSUME NEW named \in SUBSET Keys, NEW action \in {"start", "restart", "stop"},
             RegisterWithAction(named, action)
      PROVE  LoopInv'
  BY <1>3, RegisterPreserves DEF RegisterWithAction, LoopInv, TypeOK
<1>4. ASSUME BackendsFail \/ \E k \in Keys :
                SkipKey(k) \/ ConfigNotModified(k) \/ ConfigFails(k)
      PROVE  LoopInv'
  BY <1>4 DEF BackendsFail, SkipKey, ConfigNotModified, ConfigFails, RoundEnds,
              NextKey, server, memory, collectors, LoopInv, TypeOK, StoresAgree,
              RunnersFollowStores, Supported
<1>5. CASE FetchBackends
  BY <1>5, UpdatePreserves DEF FetchBackends, LoopInv, TypeOK
<1>6. CASE FetchBackendsHollow
  <2>1. Nothing \in Lists
    BY DEF Nothing, Lists
  <2> QED BY <1>6, <2>1, UpdatePreserves DEF FetchBackendsHollow, LoopInv, TypeOK
<1>7. ASSUME NEW k \in Keys,
             FetchConfig(k) \/ FetchConfigHollow(k) \/ FetchConfigUnwritable(k)
      PROVE  LoopInv'
  <2>1. srvConfig[k] \in Configs /\ None \in Configs
    BY DEF LoopInv, TypeOK, Configs
  <2>2. \A t : Verdicts(t) \subseteq BOOLEAN
    BY DEF Verdicts
  <2> QED BY <1>7, <2>1, <2>2, DeliverPreserves
          DEF FetchConfig, FetchConfigHollow, FetchConfigUnwritable
<1> QED BY <1>1, <1>2, <1>3, <1>4, <1>5, <1>6, <1>7 DEF Loop, Answered

LEMMA LoopInvStep == LoopInv /\ [Next]_vars => LoopInv'
<1>1. ASSUME LoopInv, UNCHANGED vars PROVE LoopInv'
  BY <1>1 DEF vars, server, memory, collectors, LoopInv, TypeOK, StoresAgree,
              RunnersFollowStores, Supported
<1> QED BY <1>1, EnvironmentPreserves, LoopPreserves DEF Next

(* Every variable keeps its type, whatever answers the server gives.       *)
THEOREM PeriodicalsTypeCorrect == Spec => []TypeOK
<1>1. LoopInv => TypeOK
  BY DEF LoopInv
<1> QED BY <1>1, LoopInvInit, LoopInvStep, PTL DEF Spec

(* Whatever requests fail and whatever answers are hollow, runners exist   *)
(* exactly for assigned backends that were listed, with the settings that  *)
(* were listed, and no collector is left running without a runner.         *)
THEOREM RunnersFollow == Spec => []RunnersFollowStores
<1>1. LoopInv => RunnersFollowStores
  BY DEF LoopInv
<1> QED BY <1>1, LoopInvInit, LoopInvStep, PTL DEF Spec

-----------------------------------------------------------------------------
(* Pinned collectors: as long as no answer is hollow, the list that is     *)
(* brought into the stores is always the server's, because a list that is  *)
(* kept under its Etag is the list that came with it.                      *)
NoHollow == {"hollowRegistration", "hollowList"} \cap Faults = {}

PinInv ==
    /\ Pinned \subseteq srvAssigned
    /\ \A k \in Pinned : Supported(srvSettings[k])
    /\ pc = "backends" => Pinned \subseteq registered
    /\ backendsSum # None => backends = backendsSum

LEMMA PinInvInit == Init => PinInv
BY ValuesAssumption, KeysAssumption
   DEF Init, PinInv, Supported, ValuesAssumption, KeysAssumption

LEMMA FetchIsServers ==
    ASSUME LoopInv, PinInv, FetchBackends
    PROVE  \E listIsNew \in BOOLEAN : UpdateWith(srvSettings, srvSettings, listIsNew)
<1>1. srvSettings \in Lists /\ srvSettings # None
  BY ValuesAssumption DEF LoopInv, TypeOK, ValuesAssumption
<1>2. CASE srvSettings = backendsSum
  <2>1. backends = srvSettings
    BY <1>1, <1>2 DEF PinInv
  <2> QED BY <1>2, <2>1 DEF FetchBackends
<1>3. CASE srvSettings # backendsSum
  BY <1>3 DEF FetchBackends
<1> QED BY <1>2, <1>3

LEMMA PinInvStep ==
    ASSUME NoHollow, LoopInv, PinInv, [Next]_vars
    PROVE  PinInv'
<1> USE DEF PinInv, Supported, server, memory, collectors
<1>1. ASSUME NEW k \in Keys, Assign(k) PROVE PinInv'
  BY <1>1 DEF Assign
<1>2. ASSUME NEW k \in Keys, NEW s \in Settings \cup {None}, ChangeSettings(k, s)
      PROVE  PinInv'
  BY <1>2, ValuesAssumption
     DEF ChangeSettings, LoopInv, TypeOK, Lists, ValuesAssumption
<1>3. ASSUME NEW k \in Keys, (\E t \in Configs : ChangeConfig(k, t)) \/ Respawn(k)
      PROVE  PinInv'
  BY <1>3 DEF ChangeConfig, Respawn
<1>4. CASE SidecarRestarts
  BY <1>4 DEF SidecarRestarts, RoundEnds
<1>5. CASE Register \/ \E named \in SUBSET Keys, action \in {"start", "restart", "stop"} :
              RegisterWithAction(named, action)
  <2>1. RegisterWith(srvAssigned)
    BY <1>5 DEF Register, RegisterWithAction
  <2> QED BY <2>1 DEF RegisterWith
<1>6. CASE FetchBackends
  <2>1. /\ backends' = srvSettings /\ backendsSum' = srvSettings
        /\ pc' # "backends" /\ UNCHANGED server
    BY <1>6, FetchIsServers DEF UpdateWith, FetchBackends
  <2> QED BY <2>1
<1>7. ASSUME NEW k \in Keys,
             FetchConfig(k) \/ FetchConfigHollow(k) \/ FetchConfigUnwritable(k)
      PROVE  PinInv'
  BY <1>7 DEF FetchConfig, FetchConfigHollow, FetchConfigUnwritable, Deliver, NextKey
<1>8. ASSUME \/ RegistrationFails \/ BackendsFail \/ UNCHANGED vars
             \/ \E k \in Keys : SkipKey(k) \/ ConfigNotModified(k) \/ ConfigFails(k)
      PROVE  PinInv'
  BY <1>8 DEF RegistrationFails, BackendsFail, SkipKey, ConfigNotModified,
              ConfigFails, RoundEnds, NextKey, vars
<1>9. ~RegisterHollow /\ ~FetchBackendsHollow
  BY DEF NoHollow, RegisterHollow, FetchBackendsHollow
<1>10. ASSUME Loop PROVE PinInv'
  BY <1>5, <1>6, <1>7, <1>8, <1>9, <1>10 DEF Loop, Answered
<1>11. ASSUME Environment PROVE PinInv'
  BY <1>1, <1>2, <1>3, <1>4, <1>11 DEF Environment
<1> QED BY <1>8, <1>10, <1>11 DEF Next

LEMMA PinnedKept ==
    ASSUME NoHollow, LoopInv, LoopInv', PinInv, [Next]_vars, UNCHANGED changes,
           NEW k \in Pinned, runner[k] # None
    PROVE  runner'[k] # None
<1> k \in Keys
  BY KeysAssumption DEF KeysAssumption
<1>1. CASE UNCHANGED store
  BY <1>1 DEF LoopInv, StoresAgree, Supported
<1>2. CASE FetchBackends
  <2>1. PICK listIsNew \in BOOLEAN : UpdateWith(srvSettings, srvSettings, listIsNew)
    BY <1>2, FetchIsServers
  <2>2. k \in registered
    BY <1>2 DEF PinInv, FetchBackends
  <2>3. store'[k] = srvSettings[k]
    BY <2>1, <2>2 DEF UpdateWith, Stored
  <2> QED BY <2>3 DEF PinInv, LoopInv, StoresAgree, Supported
<1>3. UNCHANGED store \/ FetchBackends
  <2>1. ~SidecarRestarts
    BY DEF SidecarRestarts, Changing, LoopInv, TypeOK
  <2>2. ~RegisterHollow /\ ~FetchBackendsHollow
    BY DEF NoHollow, RegisterHollow, FetchBackendsHollow
  <2>3. ASSUME Environment PROVE UNCHANGED store
    BY <2>1, <2>3 DEF Environment, Assign, ChangeSettings, ChangeConfig, Respawn, memory
  <2>4. ASSUME Loop PROVE UNCHANGED store \/ FetchBackends
    BY <2>2, <2>4
       DEF Loop, RegistrationFails, Register, RegisterWithAction, RegisterWith,
           BackendsFail, Answered, SkipKey, ConfigNotModified, ConfigFails, FetchConfig,
           FetchConfigHollow, FetchConfigUnwritable, Deliver, memory, vars
  <2> QED BY <2>3, <2>4 DEF Next, vars, memory
<1> QED BY <1>1, <1>2, <1>3

(* Requests may fail as often as they like: a collector the server goes on *)
(* assigning and listing is never taken away, provided no registration and *)
(* no list is taken whose body carried nothing (with one, the run          *)
(* periodicals_hollow shows the collector stopped).                        *)
THEOREM PinnedCollectorsStay == NoHollow /\ Spec => PinnedStay
<1>1. NoHollow /\ LoopInv /\ LoopInv' /\ PinInv /\ [Next]_vars =>
          [UNCHANGED changes => \A k \in Pinned : runner[k] # None => runner'[k] # None]_vars
  BY PinnedKept
<1>2. LoopInv /\ [Next]_vars => LoopInv'
  BY LoopInvStep
<1>3. NoHollow /\ LoopInv /\ PinInv /\ [Next]_vars => PinInv'
  BY PinInvStep
<1>4. CASE NoHollow
  BY <1>1, <1>2, <1>3, <1>4, LoopInvInit, PinInvInit, PTL DEF Spec, PinnedStay
<1> QED BY <1>4

-----------------------------------------------------------------------------
(* Checksums: when every answer is whole and every file can be written,    *)
(* the template of a runner is on disk from the moment it is set, and a    *)
(* checksum is kept only together with it.                                 *)
WholeAnswers == Faults \subseteq {"down", "unvalidated"}

RenderedIsOnDisk ==
    \A k \in Keys : runner[k] # None /\ runner[k].template # None =>
                        OnDisk(k) = runner[k].template

CacheInv == RenderedIsOnDisk /\ CachedIsOnDisk

LEMMA CacheInvInit == Init => CacheInv
BY DEF Init, CacheInv, RenderedIsOnDisk, CachedIsOnDisk, Nothing

LEMMA UpdateKeepsCache ==
    ASSUME LoopInv, CacheInv, FetchBackends
    PROVE  CacheInv'
<1> USE DEF LoopInv
<1>1. PICK list \in Lists, etag \in Lists \cup {None}, listIsNew \in BOOLEAN :
          /\ UpdateWith(list, etag, listIsNew)
          /\ listIsNew \/ list = backends
          /\ UNCHANGED file
  BY DEF FetchBackends, TypeOK
<1> DEFINE stored == Stored(list)
<1>2. /\ runner' = [k \in Keys |-> Sync(k, stored[k])]
      /\ checksums' = IF ForgetChecksums(registered # assigned, listIsNew)
                      THEN Nothing ELSE checksums
  BY <1>1 DEF UpdateWith, Modified
<1>3. \A k \in Keys : stored[k] \in Settings \cup {None}
  BY DEF Lists, Stored
<1>4. \A k \in Keys : runner'[k] \in {None, runner[k]} \/ runner'[k].template = None
  BY <1>2 DEF Sync
<1>5. RenderedIsOnDisk'
  BY <1>1, <1>4 DEF CacheInv, RenderedIsOnDisk, OnDisk
<1>6. CachedIsOnDisk'
  <2>1. CASE checksums' = Nothing
    BY <2>1 DEF CachedIsOnDisk, Nothing
  <2>2. CASE checksums' # Nothing
    <3>1. checksums' = checksums /\ registered = assigned /\ list = backends
      BY <1>1, <1>2, <2>2 DEF ForgetChecksums, Modified
    <3>2. \A k \in Keys : stored[k] = store[k]
      BY <3>1 DEF StoresAgree, Stored
    <3>3. \A k \in Keys : runner'[k] = runner[k]
      BY <1>2, <3>2 DEF StoresAgree, Sync, SameSettings
    <3> QED BY <1>1, <3>1, <3>3 DEF CacheInv, CachedIsOnDisk, OnDisk
  <2> QED BY <2>1, <2>2
<1> QED BY <1>5, <1>6 DEF CacheInv

LEMMA FetchKeepsCache ==
    ASSUME LoopInv, CacheInv, NEW k \in Keys, FetchConfig(k)
    PROVE  CacheInv'
<1> USE DEF LoopInv
<1>9. PICK valid \in Verdicts(srvConfig[k]) : Deliver(k, srvConfig[k], TRUE, valid)
  BY DEF FetchConfig
<1> DEFINE t == srvConfig[k]
           path == <<k, runner[k].settings>>
<1>1. runner[k] # None /\ runner[k] \in Runners /\ path \in Keys \X Settings
  BY <1>9 DEF Deliver, Asked, TypeOK, Runners
<1>2. /\ runner' = [runner EXCEPT ![k].template = t]
      /\ checksums' = [checksums EXCEPT ![k] = t]
      /\ file' = IF t # runner[k].template THEN [file EXCEPT ![path] = t] ELSE file
  BY <1>9 DEF Deliver, Etag
<1>3. /\ runner'[k].template = t /\ runner'[k].settings = runner[k].settings
      /\ checksums'[k] = t
  BY <1>1, <1>2 DEF TypeOK, Runners
<1>4. t # None => file'[path] = t
  BY <1>1, <1>2 DEF TypeOK, CacheInv, RenderedIsOnDisk, OnDisk
<1>5. ASSUME NEW j \in Keys, j # k, runner[j] # None
      PROVE  /\ runner'[j] = runner[j] /\ checksums'[j] = checksums[j]
             /\ file'[<<j, runner[j].settings>>] = file[<<j, runner[j].settings>>]
  <2>1. runner[j] \in Runners /\ <<j, runner[j].settings>> \in Keys \X Settings
    BY <1>5 DEF TypeOK, Runners
  <2>2. <<j, runner[j].settings>> # path
    BY <1>5
  <2> QED BY <1>2, <1>5, <2>1, <2>2 DEF TypeOK
<1>6. \A j \in Keys : j # k => runner'[j] = runner[j]
  BY <1>2 DEF TypeOK
<1> HIDE DEF t, path
<1>7. OnDisk(k)' = file'[path]
  BY <1>3 DEF OnDisk, path
<1>8. ASSUME NEW j \in Keys, runner'[j] # None
      PROVE  /\ runner'[j].template # None => OnDisk(j)' = runner'[j].template
             /\ checksums'[j] # None => /\ runner'[j].template = checksums'[j]
                                        /\ OnDisk(j)' = checksums'[j]
  <2>1. CASE j = k
    BY <1>3, <1>4, <1>7, <2>1
  <2>2. CASE j # k
    <3>1. runner[j] # None
      BY <1>6, <1>8, <2>2
    <3> QED BY <1>5, <2>2, <3>1 DEF CacheInv, RenderedIsOnDisk, CachedIsOnDisk, OnDisk
  <2> QED BY <2>1, <2>2
<1> QED BY <1>8 DEF CacheInv, RenderedIsOnDisk, CachedIsOnDisk

LEMMA CacheInvStep ==
    ASSUME WholeAnswers, LoopInv, CacheInv, [Next]_vars
    PROVE  CacheInv'
<1> USE DEF CacheInv, RenderedIsOnDisk, CachedIsOnDisk, OnDisk
<1>1. ASSUME UNCHANGED <<runner, file>>, checksums' \in {checksums, Nothing}
      PROVE  CacheInv'
  BY <1>1 DEF Nothing
<1>2. CASE SidecarRestarts
  BY <1>2 DEF SidecarRestarts, Nothing
<1>3. ASSUME Environment, ~SidecarRestarts PROVE CacheInv'
  BY <1>1, <1>3 DEF Environment, Assign, ChangeSettings, ChangeConfig, Respawn, memory,
                    collectors
<1>4. Faults \cap {"hollowRegistration", "hollowList", "hollowConfig", "unwritable"} = {}
  BY DEF WholeAnswers
<1>5. ASSUME Loop PROVE CacheInv'
  <2>1. CASE FetchBackends
    BY <2>1, UpdateKeepsCache
  <2>2. ASSUME NEW k \in Keys, FetchConfig(k) PROVE CacheInv'
    BY <2>2, FetchKeepsCache
  <2>3. ASSUME \/ RegistrationFails \/ Register \/ BackendsFail
               \/ \E named \in SUBSET Keys, action \in {"start", "restart", "stop"} :
                     RegisterWithAction(named, action)
               \/ \E k \in Keys : SkipKey(k) \/ ConfigNotModified(k) \/ ConfigFails(k)
        PROVE  UNCHANGED <<runner, file, checksums>>
    BY <2>3 DEF RegistrationFails, Register, RegisterWithAction, RegisterWith,
                BackendsFail, SkipKey, ConfigNotModified, ConfigFails, vars, memory,
                collectors
  <2> QED BY <1>1, <1>4, <1>5, <2>1, <2>2, <2>3
          DEF Loop, Answered, RegisterHollow, FetchBackendsHollow, FetchConfigHollow,
              FetchConfigUnwritable
<1> QED BY <1>1, <1>2, <1>3, <1>5 DEF Next, vars, memory, collectors

(* When answers are whole and files can be written, whatever fails on the  *)
(* way: a checksum is only kept for a configuration that is on disk, so a  *)
(* 304 never leaves a collector without its configuration.                 *)
THEOREM CachedConfigurationIsOnDisk == WholeAnswers /\ Spec => []CachedIsOnDisk
<1>1. CacheInv => CachedIsOnDisk
  BY DEF CacheInv
<1>2. LoopInv /\ [Next]_vars => LoopInv'
  BY LoopInvStep
<1>3. WholeAnswers /\ LoopInv /\ CacheInv /\ [Next]_vars => CacheInv'
  BY CacheInvStep
<1>4. CASE WholeAnswers
  BY <1>1, <1>2, <1>3, <1>4, LoopInvInit, CacheInvInit, PTL DEF Spec
<1> QED BY <1>4

-----------------------------------------------------------------------------
(* What a runner was given is what its process was started with, unless it *)
(* was stopped on request or an error is reported.                         *)
InForce(k) == started[k] \in {Process(k), Stopped} \/ k \in rejected

ForceInv ==
    \A k \in Keys : runner[k] # None /\ runner[k].template # None => InForce(k)

LEMMA ForceInvInit == Init => ForceInv
BY DEF Init, ForceInv, Nothing

LEMMA UpdateKeepsForce ==
    ASSUME LoopInv, ForceInv, FetchBackends
    PROVE  ForceInv'
<1>1. PICK list \in Lists, etag \in Lists \cup {None}, listIsNew \in BOOLEAN :
          UpdateWith(list, etag, listIsNew)
  BY DEF FetchBackends, LoopInv, TypeOK
<1> DEFINE stored == Stored(list)
<1>2. /\ runner' = [k \in Keys |-> Sync(k, stored[k])]
      /\ started' = [k \in Keys |-> IF runner'[k] = None THEN None ELSE started[k]]
      /\ rejected' = {k \in rejected : SameSettings(k, stored[k])}
      /\ file' = file
  BY <1>1 DEF UpdateWith, FetchBackends
<1> SUFFICES ASSUME NEW k \in Keys, runner'[k] # None, runner'[k].template # None
             PROVE  InForce(k)'
  BY DEF ForceInv
<1>3. runner'[k] = Sync(k, stored[k])
  BY <1>2
<1>4. SameSettings(k, stored[k]) /\ runner'[k] = runner[k]
  BY <1>3 DEF Sync
<1>5. InForce(k)
  BY <1>4 DEF ForceInv
<1> QED BY <1>2, <1>4, <1>5 DEF InForce, Process, OnDisk, Stopped

LEMMA FetchKeepsForce ==
    ASSUME LoopInv, ForceInv, NEW k \in Keys, FetchConfig(k)
    PROVE  ForceInv'
<1> USE DEF LoopInv
<1>1. PICK valid \in Verdicts(srvConfig[k]) : Deliver(k, srvConfig[k], TRUE, valid)
  BY DEF FetchConfig
<1> DEFINE t == srvConfig[k]
           path == <<k, runner[k].settings>>
<1>2. runner[k] # None /\ runner[k] \in Runners /\ path \in Keys \X Settings
  BY <1>1 DEF Deliver, Asked, TypeOK, Runners
<1>3. /\ runner' = [runner EXCEPT ![k].template = t]
      /\ file' = IF t # runner[k].template THEN [file EXCEPT ![path] = t] ELSE file
  BY <1>1 DEF Deliver
<1>4. /\ runner'[k].template = t /\ runner'[k].settings = runner[k].settings
      /\ \A j \in Keys : j # k => runner'[j] = runner[j]
  BY <1>2, <1>3 DEF TypeOK, Runners
<1>5. CASE t = runner[k].template
  <2>1. UNCHANGED <<started, rejected, file>>
    BY <1>1, <1>5 DEF Deliver
  <2> QED BY <1>2, <1>4, <1>5, <2>1 DEF ForceInv, InForce, Process, OnDisk, Stopped
<1>6. CASE t # runner[k].template
  <2>1. /\ valid => started' = [started EXCEPT ![k] = <<runner[k].settings, t>>]
        /\ ~valid => k \in rejected'
        /\ \A j \in Keys : j # k => /\ started'[j] = started[j]
                                    /\ j \in rejected => j \in rejected'
    BY <1>1, <1>6 DEF Deliver, TypeOK
  <2>2. Process(k)' = <<runner[k].settings, t>>
    BY <1>2, <1>3, <1>4, <1>6 DEF Process, OnDisk, TypeOK
  <2>3. InForce(k)'
    BY <2>1, <2>2 DEF InForce, TypeOK
  <2>4. ASSUME NEW j \in Keys, j # k, runner'[j] # None, runner'[j].template # None
        PROVE  InForce(j)'
    <3>1. runner[j] \in Runners /\ runner'[j] = runner[j] /\ InForce(j)
      BY <1>4, <2>4 DEF TypeOK, ForceInv
    <3>2. <<j, runner[j].settings>> # path /\ <<j, runner[j].settings>> \in Keys \X Settings
      BY <2>4, <3>1 DEF Runners
    <3>3. Process(j)' = Process(j)
      BY <1>3, <3>1, <3>2 DEF Process, OnDisk, TypeOK
    <3> QED BY <2>1, <2>4, <3>1, <3>3 DEF InForce, Stopped
  <2> QED BY <2>3, <2>4 DEF ForceInv
<1> QED BY <1>5, <1>6

LEMMA ForceInvStep ==
    ASSUME WholeAnswers, LoopInv, ForceInv, [Next]_vars
    PROVE  ForceInv'
<1> USE DEF ForceInv, InForce, Process, OnDisk, Stopped
<1>1. ASSUME UNCHANGED <<runner, file, started, rejected>> PROVE ForceInv'
  BY <1>1
<1>2. CASE SidecarRestarts
  BY <1>2 DEF SidecarRestarts, Nothing
<1>3. ASSUME NEW k \in Keys, Respawn(k) PROVE ForceInv'
  <2>1. /\ UNCHANGED <<runner, file>> /\ rejected' = rejected \ {k}
        /\ started' = [started EXCEPT ![k] = Process(k)]
    BY <1>3 DEF Respawn, memory
  <2>2. started'[k] = Process(k) /\ \A j \in Keys : j # k => started'[j] = started[j]
    BY <2>1 DEF LoopInv, TypeOK
  <2> QED BY <2>1, <2>2
<1>4. ASSUME NEW named \in SUBSET Keys, NEW action \in {"start", "restart", "stop"},
             RegisterWithAction(named, action)
      PROVE  ForceInv'
  <2>1. UNCHANGED <<runner, file>>
    BY <1>4 DEF RegisterWithAction, RegisterWith
  <2>2. PICK acted \in SUBSET Keys :
            /\ started' = [k \in Keys |-> IF k \notin acted THEN started[k]
                                          ELSE IF action = "stop" THEN Stopped
                                          ELSE Process(k)]
            /\ rejected' = rejected \ acted
    BY <1>4 DEF RegisterWithAction
  <2>3. \A k \in Keys :
            \/ started'[k] = started[k] /\ (k \in rejected => k \in rejected')
            \/ started'[k] \in {Process(k), Stopped}
    BY <2>2
  <2> QED BY <2>1, <2>3
<1>5. ASSUME Environment PROVE ForceInv'
  BY <1>1, <1>2, <1>3, <1>5
     DEF Environment, Assign, ChangeSettings, ChangeConfig, memory, collectors
<1>6. Faults \cap {"hollowRegistration", "hollowList", "hollowConfig", "unwritable"} = {}
  BY DEF WholeAnswers
<1>7. ASSUME Loop PROVE ForceInv'
  <2>1. ASSUME \/ RegistrationFails \/ Register \/ BackendsFail
               \/ \E k \in Keys : SkipKey(k) \/ ConfigNotModified(k) \/ ConfigFails(k)
        PROVE  UNCHANGED <<runner, file, started, rejected>>
    BY <2>1 DEF RegistrationFails, Register, RegisterWith, BackendsFail, SkipKey,
                ConfigNotModified, ConfigFails, vars, memory, collectors
  <2> QED BY <1>1, <1>4, <1>6, <1>7, <2>1, UpdateKeepsForce, FetchKeepsForce
          DEF Loop, Answered, RegisterHollow, FetchBackendsHollow, FetchConfigHollow,
              FetchConfigUnwritable
<1> QED BY <1>1, <1>5, <1>7 DEF Next, vars, memory, collectors

(* When answers are whole and files can be written, whatever requests and  *)
(* validations fail: a configuration the loop keeps a checksum for, and so *)
(* will not look at again, is the one the collector was last started with, *)
(* or was stopped from, or an error is reported.                           *)
THEOREM KeptConfigurationIsInForce == WholeAnswers /\ Spec => []KeptIsInForce
<1>1. CacheInv /\ ForceInv => KeptIsInForce
  BY DEF CacheInv, CachedIsOnDisk, ForceInv, InForce, KeptIsInForce
<1>2. LoopInv /\ [Next]_vars => LoopInv'
  BY LoopInvStep
<1>3. WholeAnswers /\ LoopInv /\ CacheInv /\ [Next]_vars => CacheInv'
  BY CacheInvStep
<1>4. WholeAnswers /\ LoopInv /\ ForceInv /\ [Next]_vars => ForceInv'
  BY ForceInvStep
<1>5. CASE WholeAnswers
  BY <1>1, <1>2, <1>3, <1>4, <1>5, LoopInvInit, CacheInvInit, ForceInvInit, PTL DEF Spec
<1> QED BY <1>5

-----------------------------------------------------------------------------
(* The refinement: with whole answers, the loop with its Etags and stores  *)
(* takes the steps of Mirror, which has none.                              *)
MirrorStep == [Mirrored!Next]_(Mirrored!vars)

LEMMA MirrorInit == Init => Mirrored!Init
BY DEF Init, Mirrored!Init, Nothing

LEMMA EnvironmentMirrored ==
    ASSUME Environment
    PROVE  MirrorStep
<1> USE DEF server, memory, collectors
<1>1. ASSUME NEW k \in Keys,
             \/ Assign(k)
             \/ \E s \in Settings \cup {None} : ChangeSettings(k, s)
             \/ \E t \in Configs : ChangeConfig(k, t)
      PROVE  Mirrored!Administrate
  BY <1>1 DEF Assign, ChangeSettings, ChangeConfig, Mirrored!Administrate, Mirrored!made
<1>2. ASSUME NEW k \in Keys, Respawn(k)
      PROVE  Mirrored!Respawn(k)
  BY <1>2 DEF Respawn, IsUp, Stopped, Process, OnDisk, Mirrored!Respawn, Mirrored!IsUp,
              Mirrored!Stopped, Mirrored!Process, Mirrored!server
<1>3. CASE SidecarRestarts
  <2>1. Mirrored!Forget
    BY <1>3 DEF SidecarRestarts, RoundEnds, Nothing, Mirrored!Forget, Mirrored!server
  <2> QED BY <2>1 DEF MirrorStep, Mirrored!Next
<1> QED BY <1>1, <1>2, <1>3 DEF Environment, MirrorStep, Mirrored!Next

(* The runners an action can reach are those that are there.               *)
LEMMA RegisterMirrored ==
    ASSUME LoopInv, RegisterWith(srvAssigned),
           \/ UNCHANGED <<started, rejected>>
           \/ \E named \in SUBSET Keys, action \in {"start", "restart", "stop"} :
                 RegisterWithAction(named, action)
    PROVE  Mirrored!Learn
<1>1. /\ pc = "register" /\ pc' = "backends" /\ registered' = srvAssigned
      /\ UNCHANGED <<Mirrored!server, todo, runner, file>>
  BY DEF RegisterWith, server, Mirrored!server
<1>2. \E acted \in SUBSET {k \in Keys : runner[k] # None}, stop \in BOOLEAN :
          /\ started' = [k \in Keys |-> IF k \notin acted THEN started[k]
                                        ELSE IF stop THEN Stopped ELSE Process(k)]
          /\ rejected' = rejected \ acted
  <2>1. CASE UNCHANGED <<started, rejected>>
    <3>1. started' = [k \in Keys |-> IF k \notin {} THEN started[k]
                                     ELSE IF TRUE THEN Stopped ELSE Process(k)]
      BY <2>1 DEF LoopInv, TypeOK
    <3>2. {} \in SUBSET {k \in Keys : runner[k] # None} /\ TRUE \in BOOLEAN
      OBVIOUS
    <3>3. rejected' = rejected \ {}
      BY <2>1
    <3> QED BY <3>1, <3>2, <3>3
  <2>2. ASSUME NEW named \in SUBSET Keys, NEW action \in {"start", "restart", "stop"},
               RegisterWithAction(named, action)
        PROVE  \E acted \in SUBSET {k \in Keys : runner[k] # None}, stop \in BOOLEAN :
                   /\ started' = [k \in Keys |-> IF k \notin acted THEN started[k]
                                                 ELSE IF stop THEN Stopped ELSE Process(k)]
                   /\ rejected' = rejected \ acted
    <3> DEFINE acted == {k \in named : /\ store[k] # None /\ runner[k] # None
                                       /\ ~(action = "start" /\ IsUp(k))}
               stop == action = "stop"
    <3>1. acted \in SUBSET {k \in Keys : runner[k] # None} /\ stop \in BOOLEAN
      OBVIOUS
    <3>2. /\ started' = [k \in Keys |-> IF k \notin acted THEN started[k]
                                        ELSE IF stop THEN Stopped ELSE Process(k)]
          /\ rejected' = rejected \ acted
      BY <2>2 DEF RegisterWithAction
    <3> QED BY <3>1, <3>2
  <2> QED BY <2>1, <2>2
<1> QED BY <1>1, <1>2 DEF Process, OnDisk, Stopped, Mirrored!Learn, Mirrored!Process,
                          Mirrored!Stopped

(* Whether the list came or a 304: the runners become those of the         *)
(* server's settings.                                                      *)
LEMMA FetchBackendsMirrored ==
    ASSUME LoopInv, PinInv, FetchBackends
    PROVE  Mirrored!Follow
<1>1. PICK listIsNew \in BOOLEAN : UpdateWith(srvSettings, srvSettings, listIsNew)
  BY FetchIsServers
<1>2. /\ pc = "backends" /\ todo' = registered
      /\ pc' = IF registered = {} THEN "register" ELSE "configs"
      /\ UNCHANGED <<Mirrored!server, registered, file>>
  BY <1>1 DEF FetchBackends, UpdateWith, server, Mirrored!server
<1>3. \A k \in Keys : Supported(Stored(srvSettings)[k]) <=> Mirrored!Wanted(k)
  BY DEF Supported, Stored, Mirrored!Wanted
<1>4. \A k \in Keys : Mirrored!Wanted(k) => Stored(srvSettings)[k] = srvSettings[k]
  BY DEF Stored, Mirrored!Wanted
<1>5. \A k \in Keys : Sync(k, Stored(srvSettings)[k]) =
          IF ~Mirrored!Wanted(k) THEN None
          ELSE IF runner[k] # None /\ runner[k].settings = srvSettings[k] THEN runner[k]
          ELSE [settings |-> srvSettings[k], template |-> None]
  BY <1>3, <1>4 DEF Sync, SameSettings
<1>6. runner' = [k \in Keys |-> Sync(k, Stored(srvSettings)[k])]
  BY <1>1 DEF UpdateWith
<1>7. runner' = [k \in Keys |->
          IF ~Mirrored!Wanted(k) THEN None
          ELSE IF runner[k] # None /\ runner[k].settings = srvSettings[k] THEN runner[k]
          ELSE [settings |-> srvSettings[k], template |-> None]]
  BY <1>5, <1>6
<1>8. \A k \in Keys : Stored(srvSettings)[k] \in Settings \cup {None}
  BY DEF Stored, LoopInv, TypeOK, Lists
<1>9. \A k \in Keys : runner'[k] = None <=> ~Mirrored!Wanted(k)
  BY <1>3, <1>6, <1>8, SyncType DEF LoopInv
<1>10. started' = [k \in Keys |-> IF Mirrored!Wanted(k) THEN started[k] ELSE None]
  BY <1>1, <1>9 DEF UpdateWith
<1>11. rejected' = {k \in rejected :
                       Mirrored!Wanted(k) /\ runner[k].settings = srvSettings[k]}
  <2>1. rejected' = {k \in rejected : SameSettings(k, Stored(srvSettings)[k])}
    BY <1>1 DEF UpdateWith
  <2>2. ASSUME NEW k \in rejected
        PROVE  SameSettings(k, Stored(srvSettings)[k]) <=>
                   Mirrored!Wanted(k) /\ runner[k].settings = srvSettings[k]
    <3>1. k \in Keys /\ runner[k] \in Runners /\ runner[k] # None
      BY DEF LoopInv, TypeOK
    <3>2. Supported(runner[k].settings)
      BY <3>1, ValuesAssumption DEF Runners, Supported, ValuesAssumption
    <3>3. SameSettings(k, Stored(srvSettings)[k]) <=>
              runner[k].settings = Stored(srvSettings)[k]
      BY <3>1 DEF SameSettings
    <3>4. CASE Mirrored!Wanted(k)
      BY <1>4, <3>1, <3>3, <3>4
    <3>5. CASE ~Mirrored!Wanted(k)
      BY <1>3, <3>1, <3>2, <3>3, <3>5
    <3> QED BY <3>4, <3>5
  <2> QED BY <2>1, <2>2
<1> QED BY <1>2, <1>7, <1>10, <1>11 DEF Mirrored!Follow

(* A 304 for a configuration: the whole answer would have changed nothing. *)
LEMMA NotModifiedMirrored ==
    ASSUME LoopInv, CacheInv, NEW k \in Keys, ConfigNotModified(k)
    PROVE  Mirrored!Bring(k)
<1>1. /\ pc = "configs" /\ k \in todo /\ runner[k] # None
      /\ checksums[k] # None /\ checksums[k] = srvConfig[k]
      /\ NextKey(k) /\ UNCHANGED <<server, memory, collectors>>
  BY DEF ConfigNotModified, Asked, NotModified, Etag
<1>2. runner[k] \in Runners /\ runner[k].template = srvConfig[k]
  BY <1>1 DEF LoopInv, TypeOK, CacheInv, CachedIsOnDisk
<1>3. [runner[k] EXCEPT !.template = srvConfig[k]] = runner[k]
  BY <1>2 DEF Runners
<1>4. runner' = [runner EXCEPT ![k].template = srvConfig[k]]
  BY <1>1, <1>3 DEF LoopInv, TypeOK, memory
<1> QED BY <1>1, <1>2, <1>4 DEF Mirrored!Bring, Mirrored!Turn, Mirrored!server,
                                NextKey, server, memory, collectors

LEMMA FetchConfigMirrored ==
    ASSUME NEW k \in Keys, FetchConfig(k)
    PROVE  Mirrored!Bring(k)
<1>1. PICK valid \in Verdicts(srvConfig[k]) : Deliver(k, srvConfig[k], TRUE, valid)
  BY DEF FetchConfig
<1>2. /\ Mirrored!Turn(k) /\ runner[k] # None
      /\ runner' = [runner EXCEPT ![k].template = srvConfig[k]]
  BY <1>1 DEF Deliver, Asked, NextKey, server, Mirrored!Turn, Mirrored!server
<1>3. CASE srvConfig[k] = runner[k].template
  BY <1>1, <1>2, <1>3 DEF Deliver, Mirrored!Bring
<1>4. CASE srvConfig[k] # runner[k].template /\ valid = TRUE
  <2>1. srvConfig[k] \notin Broken
    BY <1>4 DEF Verdicts
  <2>2. Mirrored!Apply(k)
    BY <1>1, <1>4 DEF Deliver, Mirrored!Apply
  <2> QED BY <1>1, <1>2, <1>4, <2>1, <2>2 DEF Deliver, Mirrored!Bring
<1>5. CASE srvConfig[k] # runner[k].template /\ valid = FALSE
  <2>1. srvConfig[k] \in Broken \/ "unvalidated" \in Faults
    BY <1>5 DEF Verdicts
  <2>2. Mirrored!Reject(k)
    BY <1>1, <1>5 DEF Deliver, Mirrored!Reject
  <2> QED BY <1>1, <1>2, <1>5, <2>1, <2>2 DEF Deliver, Mirrored!Bring
<1>6. valid \in BOOLEAN
  BY DEF Verdicts
<1> QED BY <1>3, <1>4, <1>5, <1>6

LEMMA LoopMirrored ==
    ASSUME WholeAnswers, LoopInv, PinInv, CacheInv, Loop
    PROVE  MirrorStep
<1> USE DEF MirrorStep, Mirrored!Next
<1>1. CASE Register \/ \E named \in SUBSET Keys, action \in {"start", "restart", "stop"} :
              RegisterWithAction(named, action)
  BY <1>1, RegisterMirrored DEF Register, RegisterWithAction
<1>2. CASE FetchBackends
  BY <1>2, FetchBackendsMirrored
<1>3. ASSUME NEW k \in Keys, Answered(k)
      PROVE  MirrorStep
  <2>1. ASSUME SkipKey(k) PROVE Mirrored!Skip(k)
    BY <2>1 DEF SkipKey, NextKey, server, memory, collectors, Mirrored!Skip, Mirrored!Turn,
                Mirrored!server, Mirrored!made
  <2> QED BY <1>3, <2>1, NotModifiedMirrored, FetchConfigMirrored DEF Answered
<1>4. ASSUME BackendsFail \/ \E k \in Keys : ConfigFails(k)
      PROVE  Mirrored!EndRound
  BY <1>4 DEF BackendsFail, ConfigFails, Fails, RoundEnds, server, memory, collectors,
              Mirrored!EndRound, Mirrored!server, Mirrored!made
<1>5. CASE RegistrationFails
  BY <1>5 DEF RegistrationFails, vars, server, memory, collectors, Mirrored!vars,
              Mirrored!server, Mirrored!made
<1>6. Faults \cap {"hollowRegistration", "hollowList", "hollowConfig", "unwritable"} = {}
  BY DEF WholeAnswers
<1> QED BY <1>1, <1>2, <1>3, <1>4, <1>5, <1>6
        DEF Loop, RegisterHollow, FetchBackendsHollow, FetchConfigHollow,
            FetchConfigUnwritable

LEMMA StepMirrored ==
    ASSUME WholeAnswers, LoopInv, PinInv, CacheInv, [Next]_vars
    PROVE  MirrorStep
<1>1. CASE UNCHANGED vars
  BY <1>1 DEF MirrorStep, vars, server, memory, collectors, Mirrored!vars,
              Mirrored!server, Mirrored!made
<1> QED BY <1>1, EnvironmentMirrored, LoopMirrored DEF Next

(* When answers are whole and files can be written, whatever requests      *)
(* fail, and however often the sidecar restarts and the server changes:    *)
(* the checksums, the kept list and the stores cannot be told from asking  *)
(* for everything each time.                                               *)
THEOREM CachesAreInvisible == WholeAnswers /\ Spec => ImplementsMirror
<1>1. WholeAnswers => NoHollow
  BY DEF WholeAnswers, NoHollow
<1>2. LoopInv /\ [Next]_vars => LoopInv'
  BY LoopInvStep
<1>3. NoHollow /\ LoopInv /\ PinInv /\ [Next]_vars => PinInv'
  BY PinInvStep
<1>4. WholeAnswers /\ LoopInv /\ CacheInv /\ [Next]_vars => CacheInv'
  BY CacheInvStep
<1>5. WholeAnswers /\ LoopInv /\ PinInv /\ CacheInv /\ [Next]_vars => MirrorStep
  BY StepMirrored
<1>6. CASE WholeAnswers
  BY <1>1, <1>2, <1>3, <1>4, <1>5, <1>6, LoopInvInit, PinInvInit, CacheInvInit,
     MirrorInit, PTL DEF Spec, MirrorStep, ImplementsMirror, Mirrored!Spec
<1> QED BY <1>6
=============================================================================
