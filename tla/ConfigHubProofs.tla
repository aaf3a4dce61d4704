-------------------------- MODULE ConfigHubProofs --------------------------
(***************************************************************************)
(* Proofs about ConfigHub for every set of handlers, events and versions,  *)
(* with refreshes that overlap and fail: what the hub serves is one export; *)
(* and the engine and the caches of the gateway are in step with it, as    *)
(* long as none of the three things has happened that the properties name. *)
(***************************************************************************)
EXTENDS ConfigHub, TLAPS

-----------------------------------------------------------------------------
(* The inductive invariants.                                               *)

\* A refresh under way holds an export of a state the database was in; from
\* its application on, the hub is loaded.
ExportsArePast ==
    /\ db \in past
    /\ \A r \in Refreshers :
         /\ pc[r] \in {"loaded", "applying", "applied"} => snap[r] \in past
         /\ pc[r] \in {"applied", "reload", "apply", "purge"} => data # Nothing
         /\ pc[r] = "apply" => cfg[r] # Nothing
    /\ boot = "applying" => bootCfg # Nothing

HubInv == TypeOK /\ ExportsArePast /\ HubIsWhole

\* Nothing is cached before the gateway serves, nor from a hub without data.
CachesInv ==
    /\ boot # "done" \/ data = Nothing => \A k \in CacheNames : cache[k] = Nothing
    /\ CachesInStep

USE DEF Goto, source, hub, run, start, signs

\* The config section of a snapshot is a content of that section.
LEMMA SectionOf ==
  ASSUME NEW s \in Snapshot
  PROVE  /\ s # Nothing
         /\ s["config"] \in Contents("config") /\ s["config"] # Nothing
         /\ \A k \in CacheNames : s[Caches[k]] \in Versions \cup {NoModels}
BY NothingAssumption DEF Snapshot, Sections, Contents, Caches, CacheNames

\* The initial hub holds the database or nothing.
LEMMA HubInit == Init => HubInv
<1> SUFFICES ASSUME Init PROVE HubInv
  OBVIOUS
<1>1. db \in Snapshot /\ data \in {db, Nothing} /\ db \in past
  BY DEF Init
<1>2. /\ db \in Snapshot /\ edits \in 0 .. MaxEdits /\ past \subseteq Snapshot
      /\ events \in [Events -> Nat]
  BY HubAssumption DEF Init
<1>3. data \in Snapshot \cup {Nothing} /\ last \in Snapshot \cup {Nothing}
  BY <1>1 DEF Init
<1>4. /\ engine \in Contents("config") \cup {Nothing}
      /\ cache \in [CacheNames -> Versions \cup {NoModels, Nothing}]
      /\ pc \in [Refreshers -> Steps]
      /\ kind \in [Refreshers -> Events \cup {"all"}]
      /\ snap \in [Refreshers -> Snapshot \cup {Nothing}]
      /\ cfg \in [Refreshers -> Contents("config") \cup {Nothing}]
  BY DEF Init, Steps
<1>5. /\ boot \in {"building", "built", "applying", "done"}
      /\ bootCfg \in Contents("config") \cup {Nothing}
      /\ crossed \in BOOLEAN /\ narrow \in BOOLEAN /\ astray \in BOOLEAN
  BY DEF Init
<1>6. TypeOK
  BY <1>2, <1>3, <1>4, <1>5 DEF TypeOK
<1>7. ExportsArePast /\ HubIsWhole
  BY <1>1 DEF Init, ExportsArePast, HubIsWhole
<1> QED BY <1>6, <1>7 DEF HubInv

\* A refresh begins with what the database holds.
LEMMA LoadKeepsHub ==
  ASSUME HubInv, NEW r \in Refreshers, NEW k \in Events \cup {"all"}, Load(r, k),
         events' \in [Events -> Nat]
  PROVE  HubInv'
<1>1. TypeOK'
  BY DEF Load, HubInv, TypeOK, Steps
<1>2. ExportsArePast' /\ HubIsWhole'
  BY DEF Load, HubInv, TypeOK, ExportsArePast, HubIsWhole
<1> QED BY <1>1, <1>2 DEF HubInv

\* A refresh ends and forgets.
LEMMA EndKeepsHub ==
  ASSUME HubInv, NEW r \in Refreshers, End(r),
         cache' \in [CacheNames -> Versions \cup {NoModels, Nothing}],
         UNCHANGED <<source, events, hub, engine, start, signs>>
  PROVE  HubInv'
<1>1. TypeOK'
  BY DEF End, HubInv, TypeOK, Steps
<1>2. ExportsArePast' /\ HubIsWhole'
  BY DEF End, HubInv, TypeOK, ExportsArePast, HubIsWhole
<1> QED BY <1>1, <1>2 DEF HubInv

\* Every step of a refresh keeps the types, the exports and the hub whole.
LEMMA RefreshKeepsHub ==
  ASSUME HubInv, NEW r \in Refreshers, RefreshStep(r)
  PROVE  HubInv'
<1> SUFFICES TypeOK' /\ ExportsArePast' /\ HubIsWhole'
  BY DEF HubInv
<1>1. CASE SkipUnchanged(r) \/ ApplyFails(r) \/ ReloadTooEarly(r)
  <2>1. End(r) /\ UNCHANGED <<source, events, hub, engine, cache, start, signs>>
    BY <1>1 DEF SkipUnchanged, ApplyFails, ReloadTooEarly
  <2>2. HubInv'
    BY <2>1, EndKeepsHub DEF HubInv, TypeOK
  <2> QED BY <2>2 DEF HubInv
<1>2. CASE SeeChanged(r)
  BY <1>2 DEF SeeChanged, HubInv, TypeOK, ExportsArePast, HubIsWhole, Steps
<1>3. CASE ApplySnapshot(r)
  <2>1. snap[r] \in past /\ snap[r] \in Snapshot /\ snap[r] # Nothing
    BY <1>3, NothingAssumption DEF ApplySnapshot, HubInv, TypeOK, ExportsArePast
  <2>2. narrow' \in BOOLEAN
    BY <1>3 DEF ApplySnapshot, HubInv, TypeOK, Narrow
  <2>3. TypeOK'
    BY <1>3, <2>1, <2>2 DEF ApplySnapshot, HubInv, TypeOK, Steps
  <2>4. ExportsArePast' /\ HubIsWhole'
    BY <1>3, <2>1 DEF ApplySnapshot, HubInv, TypeOK, ExportsArePast, HubIsWhole
  <2> QED BY <2>3, <2>4
<1>4. CASE RememberSnapshot(r)
  <2>1. snap[r] \in Snapshot
    BY <1>4 DEF RememberSnapshot, HubInv, TypeOK, ExportsArePast
  <2>2. crossed' \in BOOLEAN
    BY <1>4 DEF RememberSnapshot, HubInv, TypeOK
  <2>3. TypeOK'
    BY <1>4, <2>1, <2>2 DEF RememberSnapshot, HubInv, TypeOK, Steps
  <2>4. ExportsArePast' /\ HubIsWhole'
    BY <1>4 DEF RememberSnapshot, HubInv, TypeOK, ExportsArePast, HubIsWhole
  <2> QED BY <2>3, <2>4
<1>5. CASE ReadConfig(r)
  <2>1. data \in Snapshot
    BY <1>5 DEF ReadConfig, HubInv, TypeOK, ExportsArePast
  <2>2. data["config"] \in Contents("config") /\ data["config"] # Nothing
    BY <2>1, SectionOf
  <2> QED BY <1>5, <2>2 DEF ReadConfig, HubInv, TypeOK, ExportsArePast, HubIsWhole,
                            Steps
<1>6. CASE ApplyGatewayConfig(r)
  <2>1. engine' \in Contents("config") \cup {Nothing} /\ astray' \in BOOLEAN
    BY <1>6 DEF ApplyGatewayConfig, Apply, HubInv, TypeOK
  <2>2. TypeOK'
    BY <1>6, <2>1 DEF ApplyGatewayConfig, HubInv, TypeOK, Steps
  <2>3. ExportsArePast' /\ HubIsWhole'
    BY <1>6 DEF ApplyGatewayConfig, HubInv, TypeOK, ExportsArePast, HubIsWhole
  <2> QED BY <2>2, <2>3
<1>7. CASE PurgeCaches(r)
  <2>1. cache' \in [CacheNames -> Versions \cup {NoModels, Nothing}]
    BY <1>7 DEF PurgeCaches, HubInv, TypeOK
  <2>2. HubInv'
    BY <1>7, <2>1, EndKeepsHub DEF PurgeCaches
  <2> QED BY <2>2 DEF HubInv
<1> QED BY <1>1, <1>2, <1>3, <1>4, <1>5, <1>6, <1>7 DEF RefreshStep

\* So does the start.
LEMMA BootKeepsHub ==
  ASSUME HubInv, Boot
  PROVE  HubInv'
<1>1. CASE GatewayBuilt
  BY <1>1 DEF GatewayBuilt, HubInv, TypeOK, ExportsArePast, HubIsWhole
<1>2. CASE BootRead /\ data # Nothing /\ data["config"] # NoModels
  <2>1. data["config"] \in Contents("config") /\ data["config"] # Nothing
    BY <1>2, SectionOf DEF HubInv, TypeOK
  <2> QED BY <1>2, <2>1 DEF BootRead, HubInv, TypeOK, ExportsArePast, HubIsWhole
<1>3. CASE BootRead /\ ~(data # Nothing /\ data["config"] # NoModels)
  BY <1>3 DEF BootRead, HubInv, TypeOK, ExportsArePast, HubIsWhole
<1>4. CASE BootApply
  <2>1. engine' \in Contents("config") \cup {Nothing} /\ astray' \in BOOLEAN
    BY <1>4 DEF BootApply, Apply, HubInv, TypeOK
  <2>2. TypeOK'
    BY <1>4, <2>1 DEF BootApply, HubInv, TypeOK
  <2>3. ExportsArePast' /\ HubIsWhole'
    BY <1>4 DEF BootApply, HubInv, TypeOK, ExportsArePast, HubIsWhole
  <2> QED BY <2>2, <2>3 DEF HubInv
<1> QED BY <1>1, <1>2, <1>3, <1>4 DEF Boot

\* Every step keeps the types, the exports and the hub whole.
LEMMA HubStep == HubInv /\ [Next]_vars => HubInv'
<1> SUFFICES ASSUME HubInv, [Next]_vars PROVE HubInv'
  OBVIOUS
<1>1. ASSUME NEW s \in Sections, NEW v \in Versions \cup {NoModels}, Edit(s, v)
      PROVE  HubInv'
  <2>1. db' \in Snapshot
    BY <1>1 DEF Edit, HubInv, TypeOK, Snapshot
  <2>2. edits' \in 0 .. MaxEdits
    BY <1>1, HubAssumption DEF Edit, HubInv, TypeOK
  <2>3. events' \in [Events -> Nat]
    BY <1>1 DEF Edit, HubInv, TypeOK
  <2> QED BY <1>1, <2>1, <2>2, <2>3 DEF Edit, HubInv, TypeOK, ExportsArePast,
                                       HubIsWhole
<1>2. ASSUME NEW h \in Handlers, NEW e \in Events, Notified(h, e)
      PROVE  HubInv'
  <2>1. events' \in [Events -> Nat]
    BY <1>2 DEF Notified, Consume, HubInv, TypeOK
  <2> QED BY <1>2, <2>1, LoadKeepsHub DEF Notified, Refreshers
<1>3. ASSUME NEW h \in Handlers, NEW e \in Events, NotifiedInVain(h, e)
      PROVE  HubInv'
  BY <1>3 DEF NotifiedInVain, Consume, HubInv, TypeOK, ExportsArePast, HubIsWhole
<1>4. CASE Tick
  BY <1>4, LoadKeepsHub DEF Tick, Refreshers, HubInv, TypeOK
<1>5. ASSUME NEW r \in Refreshers, RefreshStep(r)
      PROVE  HubInv'
  BY <1>5, RefreshKeepsHub
<1>6. ASSUME NEW k \in CacheNames, FillCache(k)
      PROVE  HubInv'
  <2>1. data \in Snapshot
    BY <1>6 DEF FillCache, HubInv, TypeOK
  <2>2. data[Caches[k]] \in Versions \cup {NoModels}
    BY <2>1, SectionOf
  <2> QED BY <1>6, <2>2 DEF FillCache, HubInv, TypeOK, ExportsArePast, HubIsWhole
<1>7. CASE Boot
  BY <1>7, BootKeepsHub
<1>8. CASE UNCHANGED vars
  BY <1>8 DEF vars, HubInv, TypeOK, ExportsArePast, HubIsWhole
<1>9. Watched \subseteq Sections
  BY HubAssumption
<1> QED BY <1>1, <1>2, <1>3, <1>4, <1>5, <1>6, <1>7, <1>8, <1>9 DEF Next

\* What a refresh holds and the hub serves are exports of the database.
THEOREM HubInductive == Spec => []HubInv
BY HubInit, HubStep, PTL DEF Spec

\* TypeOK holds for every set of handlers, kinds of events and versions.
THEOREM HubTypeCorrect == Spec => []TypeOK
<1>1. HubInv => TypeOK
  BY DEF HubInv
<1> QED BY HubInductive, <1>1, PTL

\* Whatever refreshes overlap and fail, config, policies and keys in the hub
\* are one export of a state the database was in (hub.go:73-93, 115-154).
THEOREM HubServesOneExport == Spec => []HubIsWhole
<1>1. HubInv => HubIsWhole
  BY DEF HubInv
<1> QED BY HubInductive, <1>1, PTL

-----------------------------------------------------------------------------
(* The engine and the caches.  Each section of the hub that changes is     *)
(* followed by a refresh that has yet to hand it on.                       *)

\* Refreshes that have applied a snapshot and have work left.
Late == {"applied", "reload", "apply", "purge"}

\* Nothing moves but refreshes that have nothing to hand on, or go on.
Unmoved ==
    /\ UNCHANGED <<boot, data, cache, engine>>
    /\ narrow' = narrow /\ (astray => astray')
    /\ \A r \in Refreshers : \A steps \in {Late, Late \ {"purge"}} :
           pc[r] \in steps => pc'[r] \in steps /\ kind'[r] = kind[r]

\* Then engine and caches stay in step.
LEMMA UnmovedKeeps ==
  ASSUME CachesInv, EngineInStep, Unmoved
  PROVE  CachesInv' /\ EngineInStep'
<1>1. CachesInv'
  <2>1. \A r \in Busy(Late) : r \in Busy(Late)' /\ kind'[r] = kind[r]
    BY DEF Unmoved, Busy, Late
  <2> QED BY <2>1 DEF Unmoved, CachesInv, CachesInStep, Late, PurgedBy
<1>2. EngineInStep'
  <2>1. \A r \in Busy({"applied", "reload", "apply"}) :
           r \in Busy({"applied", "reload", "apply"})' /\ kind'[r] = kind[r]
    BY DEF Unmoved, Busy, Late
  <2> QED BY <2>1 DEF Unmoved, EngineInStep, AppliesConfig
<1> QED BY <1>1, <1>2

\* A refresh that starts, or ends without having applied anything.
LEMMA OutsideIsUnmoved ==
  ASSUME HubInv, NEW r \in Refreshers,
         pc[r] \notin Late, UNCHANGED <<boot, data, cache, engine, narrow, astray>>,
         \A q \in Refreshers \ {r} : pc'[q] = pc[q] /\ kind'[q] = kind[q]
  PROVE  Unmoved
BY DEF Unmoved, Late

\* A snapshot that is applied: either this refresh has to hand a section on,
\* or the section has not changed.
LEMMA ApplyKeeps ==
  ASSUME HubInv, CachesInv, EngineInStep, NEW r \in Refreshers, ApplySnapshot(r)
  PROVE  CachesInv' /\ EngineInStep'
<1>1. /\ pc[r] = "applying" /\ pc'[r] = "applied"
      /\ \A q \in Refreshers \ {r} : pc'[q] = pc[q]
      /\ UNCHANGED <<boot, cache, engine, kind, astray>>
      /\ data' = snap[r] /\ data' # Nothing
      /\ narrow' = (narrow \/ Narrow(kind[r], snap[r]))
  <2>1. snap[r] # Nothing
    BY NothingAssumption DEF ApplySnapshot, HubInv, TypeOK, ExportsArePast
  <2> QED BY <2>1 DEF ApplySnapshot, HubInv, TypeOK
<1>2. kind[r] \in {"endpoints", "policies", "apikeys", "all"}
  BY HubAssumption DEF HubInv, TypeOK
<1>3. CASE kind[r] \in {"endpoints", "all"}
  <2>1. AppliesConfig(kind[r]) /\ PurgedBy(kind[r]) = CacheNames
    BY <1>3 DEF AppliesConfig, PurgedBy
  <2>2. \A k \in CacheNames : k \in PurgedBy(kind'[r])
    BY <1>1, <2>1
  <2>3. r \in Busy({"applied", "reload", "apply", "purge"})'
        /\ r \in Busy({"applied", "reload", "apply"})'
    BY <1>1 DEF Busy
  <2>4. CachesInStep'
    BY <2>2, <2>3 DEF CachesInStep
  <2>5. EngineInStep'
    BY <1>1, <2>1, <2>3 DEF EngineInStep
  <2> QED BY <1>1, <2>4, <2>5 DEF CachesInv
<1>4. CASE narrow'
  BY <1>1, <1>4 DEF CachesInv, CachesInStep, EngineInStep
<1>5. CASE kind[r] \in {"policies", "apikeys"} /\ ~narrow'
  <2>1. /\ ~narrow /\ data # Nothing
        /\ \A x \in Sections \ {kind[r]} : data'[x] = data[x]
    BY <1>1, <1>5 DEF Narrow
  <2>2. \A q \in Busy({"applied", "reload", "apply", "purge"}) :
            q \in Busy({"applied", "reload", "apply", "purge"})' /\ q # r
    BY <1>1 DEF Busy
  <2>3. \A q \in Busy({"applied", "reload", "apply"}) :
            q \in Busy({"applied", "reload", "apply"})'
    BY <1>1 DEF Busy
  <2>4. ASSUME NEW k \in CacheNames
        PROVE  \/ cache'[k] \in {Nothing, data'[Caches[k]]}
               \/ \E q \in Busy({"applied", "reload", "apply", "purge"})' :
                      k \in PurgedBy(kind'[q])
    <3>1. CASE k = kind[r]
      <4>1. k \in PurgedBy(kind'[r]) /\ r \in Busy({"applied", "reload", "apply", "purge"})'
        BY <1>1, <1>5, <3>1 DEF PurgedBy, Busy
      <4> QED BY <4>1
    <3>2. CASE k # kind[r]
      <4>1. Caches[k] \in Sections \ {kind[r]}
        BY <1>5, <3>2 DEF Caches, CacheNames, Sections
      <4>2. data'[Caches[k]] = data[Caches[k]]
        BY <2>1, <4>1
      <4>3. \/ cache[k] \in {Nothing, data[Caches[k]]}
            \/ \E q \in Busy({"applied", "reload", "apply", "purge"}) :
                   k \in PurgedBy(kind[q])
        BY <2>1 DEF CachesInv, CachesInStep
      <4> QED BY <1>1, <2>2, <4>2, <4>3
    <3> QED BY <3>1, <3>2
  <2>5. CachesInStep'
    BY <2>4 DEF CachesInStep
  <2>6. data'["config"] = data["config"]
    BY <1>5, <2>1 DEF Sections
  <2>7. EngineInStep'
    BY <1>1, <2>1, <2>3, <2>6 DEF EngineInStep
  <2> QED BY <1>1, <2>1, <2>5, <2>7 DEF CachesInv
<1> QED BY <1>2, <1>3, <1>4, <1>5

\* The other steps of a refresh.
LEMMA RefreshKeeps ==
  ASSUME HubInv, CachesInv, EngineInStep, NEW r \in Refreshers, RefreshStep(r)
  PROVE  CachesInv' /\ EngineInStep'
<1>1. CASE SkipUnchanged(r) \/ ApplyFails(r) \/ SeeChanged(r)
  <2>1. /\ pc[r] \notin Late
        /\ UNCHANGED <<boot, data, cache, engine, narrow, astray>>
        /\ \A q \in Refreshers \ {r} : pc'[q] = pc[q] /\ kind'[q] = kind[q]
    BY <1>1 DEF SkipUnchanged, ApplyFails, SeeChanged, End, Late, HubInv, TypeOK
  <2> QED BY <2>1, OutsideIsUnmoved, UnmovedKeeps
<1>2. CASE ApplySnapshot(r)
  BY <1>2, ApplyKeeps
<1>3. CASE RememberSnapshot(r)
  <2>1. Unmoved
    BY <1>3 DEF RememberSnapshot, Unmoved, Late, HubInv, TypeOK
  <2> QED BY <2>1, UnmovedKeeps
<1>4. CASE ReloadTooEarly(r)
  <2>1. boot = "building" /\ UNCHANGED <<boot, cache>>
    BY <1>4 DEF ReloadTooEarly
  <2>2. \A k \in CacheNames : cache'[k] = Nothing
    BY <2>1 DEF CachesInv
  <2> QED BY <2>1, <2>2 DEF CachesInv, CachesInStep, EngineInStep
<1>5. CASE ReadConfig(r)
  <2>1. /\ UNCHANGED <<boot, data, cache, engine, kind, narrow, astray>>
        /\ \A q \in Refreshers \ {r} : pc'[q] = pc[q]
        /\ pc[r] = "reload" /\ pc'[r] \in {"apply", "purge"}
        /\ \/ pc'[r] = "apply"
           \/ ~AppliesConfig(kind[r])
           \/ data["config"] = NoModels
    BY <1>5 DEF ReadConfig, HubInv, TypeOK
  <2>2. CachesInv'
    <3>1. Busy({"applied", "reload", "apply", "purge"})'
            = Busy({"applied", "reload", "apply", "purge"})
      BY <2>1 DEF Busy
    <3> QED BY <2>1, <3>1 DEF CachesInv, CachesInStep
  <2>3. EngineInStep'
    <3>1. \A q \in Busy({"applied", "reload", "apply"}) :
             AppliesConfig(kind[q]) /\ data["config"] # NoModels =>
                 q \in Busy({"applied", "reload", "apply"})'
      BY <2>1 DEF Busy
    <3> QED BY <2>1, <3>1 DEF EngineInStep
  <2> QED BY <2>2, <2>3
<1>6. CASE ApplyGatewayConfig(r)
  <2>1. /\ UNCHANGED <<boot, data, cache, kind, narrow>>
        /\ astray' = (astray \/ engine' # data["config"])
        /\ \A q \in Refreshers \ {r} : pc'[q] = pc[q]
        /\ pc[r] = "apply" /\ pc'[r] = "purge"
    BY <1>6 DEF ApplyGatewayConfig, Apply, HubInv, TypeOK
  <2>2. CachesInv'
    <3>1. Busy({"applied", "reload", "apply", "purge"})'
            = Busy({"applied", "reload", "apply", "purge"})
      BY <2>1 DEF Busy
    <3> QED BY <2>1, <3>1 DEF CachesInv, CachesInStep
  <2>3. EngineInStep'
    BY <2>1 DEF EngineInStep
  <2> QED BY <2>2, <2>3
<1>7. CASE PurgeCaches(r)
  <2>1. /\ UNCHANGED <<boot, data, engine, narrow, astray>>
        /\ \A q \in Refreshers \ {r} : pc'[q] = pc[q] /\ kind'[q] = kind[q]
        /\ pc[r] = "purge" /\ pc'[r] = "idle"
        /\ \A k \in CacheNames :
             cache'[k] = IF k \in PurgedBy(kind[r]) THEN Nothing ELSE cache[k]
    BY <1>7 DEF PurgeCaches, End, HubInv, TypeOK
  <2>2. \A q \in Busy({"applied", "reload", "apply", "purge"}) \ {r} :
            q \in Busy({"applied", "reload", "apply", "purge"})' /\ kind'[q] = kind[q]
    BY <2>1 DEF Busy
  <2>3. CachesInStep'
    BY <2>1, <2>2 DEF CachesInv, CachesInStep
  <2>4. EngineInStep'
    <3>1. \A q \in Busy({"applied", "reload", "apply"}) :
              q \in Busy({"applied", "reload", "apply"})' /\ kind'[q] = kind[q]
      BY <2>1 DEF Busy
    <3> QED BY <2>1, <3>1 DEF EngineInStep
  <2> QED BY <2>1, <2>3, <2>4 DEF CachesInv
<1> QED BY <1>1, <1>2, <1>3, <1>4, <1>5, <1>6, <1>7 DEF RefreshStep

\* The start caches nothing, and ends without a config to apply or by applying
\* one.
LEMMA BootKeeps ==
  ASSUME HubInv, CachesInv, EngineInStep, Boot
  PROVE  CachesInv' /\ EngineInStep'
<1>1. boot # "done" /\ UNCHANGED <<data, cache, pc, kind, narrow>>
  BY DEF Boot, GatewayBuilt, BootRead, BootApply
<1>2. \A k \in CacheNames : cache'[k] = Nothing
  BY <1>1 DEF CachesInv
<1>3. CachesInv'
  BY <1>2 DEF CachesInv, CachesInStep
<1>4. EngineInStep'
  <2>1. CASE GatewayBuilt
    BY <2>1 DEF GatewayBuilt, EngineInStep
  <2>2. CASE BootRead
    BY <2>2 DEF BootRead, EngineInStep
  <2>3. CASE BootApply
    BY <2>3 DEF BootApply, Apply, EngineInStep
  <2> QED BY <2>1, <2>2, <2>3 DEF Boot
<1> QED BY <1>3, <1>4

\* Every step keeps engine and caches in step.
LEMMA InStepStep ==
  HubInv /\ CachesInv /\ EngineInStep /\ [Next]_vars => CachesInv' /\ EngineInStep'
<1> SUFFICES ASSUME HubInv, CachesInv, EngineInStep, [Next]_vars
             PROVE  CachesInv' /\ EngineInStep'
  OBVIOUS
<1>1. ASSUME NEW s \in Sections, NEW v \in Versions \cup {NoModels}, Edit(s, v)
      PROVE  CachesInv' /\ EngineInStep'
  <2>1. Unmoved
    BY <1>1 DEF Edit, Unmoved
  <2> QED BY <2>1, UnmovedKeeps
<1>2. ASSUME NEW r \in Refreshers, NEW k, Load(r, k)
      PROVE  CachesInv' /\ EngineInStep'
  <2>1. /\ pc[r] \notin Late
        /\ UNCHANGED <<boot, data, cache, engine, narrow, astray>>
        /\ \A q \in Refreshers \ {r} : pc'[q] = pc[q] /\ kind'[q] = kind[q]
    BY <1>2 DEF Load, Late, HubInv, TypeOK
  <2> QED BY <2>1, OutsideIsUnmoved, UnmovedKeeps
<1>3. ASSUME NEW h \in Handlers, NEW e \in Events, NotifiedInVain(h, e)
      PROVE  CachesInv' /\ EngineInStep'
  <2>1. Unmoved
    BY <1>3 DEF NotifiedInVain, Unmoved
  <2> QED BY <2>1, UnmovedKeeps
<1>4. ASSUME NEW r \in Refreshers, RefreshStep(r)
      PROVE  CachesInv' /\ EngineInStep'
  BY <1>4, RefreshKeeps
<1>5. ASSUME NEW k \in CacheNames, FillCache(k)
      PROVE  CachesInv' /\ EngineInStep'
  <2>1. /\ UNCHANGED <<boot, data, engine, pc, kind, narrow, astray>>
        /\ boot = "done" /\ data # Nothing
        /\ \A j \in CacheNames : cache'[j] = IF j = k THEN data[Caches[k]] ELSE cache[j]
    BY <1>5 DEF FillCache, HubInv, TypeOK
  <2>2. Busy({"applied", "reload", "apply", "purge"})'
          = Busy({"applied", "reload", "apply", "purge"})
    BY <2>1 DEF Busy
  <2>3. CachesInv'
    BY <2>1, <2>2 DEF CachesInv, CachesInStep
  <2>4. EngineInStep'
    BY <2>1 DEF EngineInStep, Busy
  <2> QED BY <2>3, <2>4
<1>6. CASE Boot
  BY <1>6, BootKeeps
<1>7. CASE UNCHANGED vars
  <2>1. Unmoved
    BY <1>7 DEF vars, Unmoved
  <2> QED BY <2>1, UnmovedKeeps
<1>8. Watched \subseteq Sections
  BY HubAssumption
<1> QED BY <1>1, <1>2, <1>3, <1>4, <1>5, <1>6, <1>7, <1>8
        DEF Next, Notified, Tick, Refreshers

\* Engine and caches in step, as parts of one invariant.
THEOREM InStepInductive == Spec => [](CachesInv /\ EngineInStep)
<1>1. Init => CachesInv /\ EngineInStep
  BY DEF Init, CachesInv, CachesInStep, EngineInStep
<1> QED BY <1>1, InStepStep, HubInductive, PTL DEF Spec

\* A started gateway's engine runs what the hub serves, except while a refresh
\* has yet to apply it, until the engine refuses a config or is given one late
\* (assemble.go:192, 224) or a refresh for policies or keys brings one along
\* (assemble.go:189-200): whatever overlaps, and from an empty database on.
THEOREM EngineStaysInStep == Spec => []EngineInStep
BY InStepInductive, PTL

\* No cache of the gateway holds what the hub has replaced, except while a
\* refresh has yet to purge it, until a refresh for policies or keys changes
\* another section too (assemble.go:189-206).
THEOREM CachesStayInStep == Spec => []CachesInStep
<1>1. CachesInv => CachesInStep
  BY DEF CachesInv
<1> QED BY InStepInductive, <1>1, PTL
=============================================================================
