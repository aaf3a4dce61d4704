----------------------------- MODULE ConfigHub -----------------------------
(***************************************************************************)
(* internal/confighub/hub.go as internal/assemble wires it: the admin      *)
(* database is the source, the hub caches one snapshot of it, the gateway  *)
(* engine runs the last routing config applied to it, and the gateway      *)
(* keeps caches of what it asked the hub for.                              *)
(*                                                                         *)
(* Hub.Refresh runs in the goroutine of every admin mutation and in the    *)
(* goroutine of the periodic sync, which starts before the gateway is      *)
(* built.  Nothing serialises these runs: the mutex of the hub protects    *)
(* single assignments only.                                                *)
(***************************************************************************)
EXTENDS Naturals

CONSTANTS Handlers,      \* callbacks of the admin that may be under way at once
          Ticker,        \* the goroutine of StartPeriodicSync
          Events,        \* kinds of the admin's OnConfigChanged calls
          Versions,      \* values a section of the database may take
          Unreadable,    \* those the gateway's types do not unmarshal
          NoModels,      \* the routing config without any model
          Watched,       \* bound: the sections that are mutated and cached
          MaxEdits,      \* bound on the mutations of the database
          Nothing        \* not loaded, not cached

Sections == {"config", "policies", "apikeys"}

Refreshers == Handlers \cup {Ticker}

ASSUME HubAssumption ==
    /\ Ticker \notin Handlers
    /\ Events \subseteq {"endpoints", "policies", "apikeys", "all"}
    /\ NoModels \notin Versions \cup Unreadable
    /\ Watched \subseteq Sections
    /\ MaxEdits \in Nat

\* What section s may hold: an empty list of policies or keys is a version
\* like any other, a config without models is not (assemble tests for it).
Contents(s) == Versions \cup (IF s = "config" THEN {NoModels} ELSE {})

Snapshot == {snap \in [Sections -> Versions \cup {NoModels}] :
                \A s \in Sections : snap[s] \in Contents(s)}

Readable(s) == \A x \in Sections : s[x] \notin Unreadable

ASSUME NothingAssumption == Nothing \notin Snapshot \cup Versions \cup {NoModels}

\* The gateway's caches, by the section each is filled from.
Caches == [alias |-> "config", policies |-> "policies", apikeys |-> "apikeys"]
CacheNames == {"alias", "policies", "apikeys"}

VARIABLES
    db,       \* the admin database, as LoadGatewaySnapshot exports it
    edits,    \* how often it was changed
    past,     \* every content it has had
    events,   \* [Events -> callbacks not yet run]
    data,     \* config, policies and apiKeys of the hub, or Nothing
    last,     \* the remembered blobs, Nothing before the first
    engine,   \* the config the engine runs, Nothing for the YAML seed
    cache,    \* the gateway's caches
    pc,       \* [Refreshers -> step of Refresh]
    kind,     \* [Refreshers -> kind passed to OnReload]
    snap,     \* [Refreshers -> the snapshot loaded]
    cfg,      \* [Refreshers -> the config OnReload read from the hub]
    boot,     \* the step of assemble.New
    bootCfg,  \* the config it read from the hub
    crossed,  \* history: blobs were remembered of what is not served
    narrow,   \* history: a refresh for one section has changed another
    astray    \* history: the engine did not get the config the hub serves

source == <<db, edits, past>>
hub    == <<data, last>>
run    == <<pc, kind, snap, cfg>>
start  == <<boot, bootCfg>>
signs  == <<crossed, narrow, astray>>
vars   == <<source, events, hub, engine, cache, run, start, signs>>

Goto(r, step) == pc' = [pc EXCEPT ![r] = step]

\* The refresh of r is over, and what it had in hand forgotten.
End(r) ==
    /\ Goto(r, "idle")
    /\ kind' = [kind EXCEPT ![r] = "all"]
    /\ snap' = [snap EXCEPT ![r] = Nothing]
    /\ cfg' = [cfg EXCEPT ![r] = Nothing]

\* assemble.New: the database may be empty, and the first Refresh, which may
\* fail, is not retried there.
Init ==
    /\ db \in Snapshot
    /\ edits = 0 /\ past = {db}
    /\ events = [e \in Events |-> 0]
    /\ data \in {Nothing} \cup {s \in {db} : Readable(s)} /\ last = data
    /\ engine = Nothing
    /\ cache = [k \in CacheNames |-> Nothing]
    /\ pc = [r \in Refreshers |-> "idle"]
    /\ kind = [r \in Refreshers |-> "all"]
    /\ snap = [r \in Refreshers |-> Nothing]
    /\ cfg = [r \in Refreshers |-> Nothing]
    /\ boot = "building" /\ bootCfg = Nothing
    /\ crossed = FALSE /\ narrow = FALSE /\ astray = FALSE

-----------------------------------------------------------------------------
(* The admin side, external: a mutation commits, then calls back.          *)

KindOf(s) == IF s = "config" THEN "endpoints" ELSE s

Edit(s, v) ==
    /\ edits < MaxEdits
    /\ v \in Contents(s) \ {db[s]}
    /\ db' = [db EXCEPT ![s] = v]
    /\ edits' = edits + 1
    /\ past' = past \cup {db'}
    /\ events' = [e \in Events |-> IF e = KindOf(s) THEN events[e] + 1
                                                    ELSE events[e]]
    /\ UNCHANGED <<hub, engine, cache, run, start, signs>>

-----------------------------------------------------------------------------
(* Hub.Refresh.                                                            *)

Load(r, k) ==
    /\ pc[r] = "idle"
    /\ snap' = [snap EXCEPT ![r] = db]
    /\ kind' = [kind EXCEPT ![r] = k]
    /\ Goto(r, "loaded")
    /\ UNCHANGED <<source, hub, engine, cache, cfg, start, signs>>

Consume(e) == events[e] > 0 /\ events' = [events EXCEPT ![e] = @ - 1]

\* OnConfigChanged, once there is a gateway.
Notified(h, e) == boot # "building" /\ Consume(e) /\ Load(h, e)

\* There is no gateway yet, or the export fails and the callback drops the
\* error: the event is lost.
NotifiedInVain(h, e) ==
    /\ pc[h] = "idle" /\ Consume(e)
    /\ UNCHANGED <<source, hub, engine, cache, run, start, signs>>

\* The periodic sync, every 15 seconds.
Tick == Load(Ticker, "all") /\ UNCHANGED events

\* Mutant of SameBlobs: one blob is not compared.
SameButPolicies(a, b) ==
    \/ a = b
    \/ /\ Nothing \notin {a, b}
       /\ \A s \in Sections \ {"policies"} : a[s] = b[s]

SameBlobs(a, b) == a = b

SkipUnchanged(r) ==
    /\ pc[r] = "loaded" /\ SameBlobs(last, snap[r])
    /\ End(r)
    /\ UNCHANGED <<source, events, hub, engine, cache, start, signs>>

\* The comparison and the application are two critical sections.
SeeChanged(r) ==
    /\ pc[r] = "loaded" /\ ~SameBlobs(last, snap[r])
    /\ Goto(r, "applying")
    /\ UNCHANGED <<source, events, hub, engine, cache, kind, snap, cfg, start, signs>>

\* A blob does not unmarshal: Refresh ends with the error, which its callers
\* drop, before anything is touched.
ApplyFails(r) ==
    /\ pc[r] = "applying" /\ ~Readable(snap[r])
    /\ End(r)
    /\ UNCHANGED <<source, events, hub, engine, cache, start, signs>>

\* Does a refresh of kind k that serves s change another section than its own?
Narrow(k, s) ==
    /\ k \in {"policies", "apikeys"}
    /\ data = Nothing \/ \E x \in Sections \ {k} : data[x] # s[x]

\* Mutant of ApplySnapshot: the map of one section is never made.
ApplyUnmade(r) ==
    /\ pc[r] = "applying" /\ Readable(snap[r])
    /\ data' = [snap[r] EXCEPT !["policies"] = Nothing]
    /\ narrow' = (narrow \/ Narrow(kind[r], snap[r]))
    /\ Goto(r, "applied")
    /\ UNCHANGED <<source, events, last, engine, cache, kind, snap, cfg, start,
                   crossed, astray>>

\* Mutant of ApplySnapshot: the policies in use are kept.
ApplyButPolicies(r) ==
    /\ pc[r] = "applying" /\ Readable(snap[r])
    /\ data' = [snap[r] EXCEPT !["policies"] =
                  IF data = Nothing THEN @ ELSE data["policies"]]
    /\ narrow' = (narrow \/ Narrow(kind[r], snap[r]))
    /\ Goto(r, "applied")
    /\ UNCHANGED <<source, events, last, engine, cache, kind, snap, cfg, start,
                   crossed, astray>>

\* The three parts change together, under the mutex.
ApplySnapshot(r) ==
    /\ pc[r] = "applying" /\ Readable(snap[r])
    /\ data' = snap[r]
    /\ narrow' = (narrow \/ Narrow(kind[r], snap[r]))
    /\ Goto(r, "applied")
    /\ UNCHANGED <<source, events, last, engine, cache, kind, snap, cfg, start,
                   crossed, astray>>

\* By now another refresh may have applied its snapshot.
RememberSnapshot(r) ==
    /\ pc[r] = "applied"
    /\ last' = snap[r]
    /\ crossed' = (crossed \/ snap[r] # data)
    /\ snap' = [snap EXCEPT ![r] = Nothing]
    /\ Goto(r, "reload")
    /\ UNCHANGED <<source, events, data, engine, cache, kind, cfg, start, narrow,
                   astray>>

-----------------------------------------------------------------------------
(* OnReload: what a refresh of each kind does to the gateway.              *)

\* Mutant of AppliesConfig: routing changes are left to the caches.
AppliesNever(k) == FALSE

AppliesConfig(k) == k \in {"endpoints", "all"}

\* Mutant of PurgedBy: the alias cache is forgotten.
PurgedButAlias(k) ==
    IF k \in {"policies", "apikeys"} THEN {k} ELSE {"policies", "apikeys"}

PurgedBy(k) == IF k \in {"policies", "apikeys"} THEN {k} ELSE CacheNames

\* Without a gateway there is nothing to reload.
ReloadTooEarly(r) ==
    /\ pc[r] = "reload" /\ boot = "building"
    /\ End(r)
    /\ UNCHANGED <<source, events, hub, engine, cache, start, signs>>

\* The config is read from the hub again, not taken from this run's snapshot;
\* one without models is not applied.
ReadConfig(r) ==
    /\ pc[r] = "reload" /\ boot # "building"
    /\ IF AppliesConfig(kind[r]) /\ data["config"] # NoModels
         THEN cfg' = [cfg EXCEPT ![r] = data["config"]] /\ Goto(r, "apply")
         ELSE UNCHANGED cfg /\ Goto(r, "purge")
    /\ UNCHANGED <<source, events, hub, engine, cache, kind, snap, start, signs>>

\* The engine takes the config or refuses it; nobody looks at the error.
Apply(config) ==
    /\ engine' \in {config, engine}
    /\ astray' = (astray \/ engine' # data["config"])

ApplyGatewayConfig(r) ==
    /\ pc[r] = "apply"
    /\ Apply(cfg[r])
    /\ Goto(r, "purge")
    /\ UNCHANGED <<source, events, hub, cache, kind, snap, cfg, start, crossed, narrow>>

PurgeCaches(r) ==
    /\ pc[r] = "purge"
    /\ cache' = [k \in CacheNames |-> IF k \in PurgedBy(kind[r]) THEN Nothing
                                                                 ELSE cache[k]]
    /\ End(r)
    /\ UNCHANGED <<source, events, hub, engine, start, signs>>

\* A request misses a cache and asks the provider.
FillCache(k) ==
    /\ boot = "done" /\ cache[k] = Nothing /\ data # Nothing
    /\ cache' = [cache EXCEPT ![k] = data[Caches[k]]]
    /\ UNCHANGED <<source, events, hub, engine, run, start, signs>>

-----------------------------------------------------------------------------
(* assemble.New, after StartPeriodicSync.                                  *)

GatewayBuilt ==
    /\ boot = "building" /\ boot' = "built"
    /\ UNCHANGED <<source, events, hub, engine, cache, run, bootCfg, signs>>

\* New reads the hub as OnReload does, outside any lock.
BootRead ==
    /\ boot = "built"
    /\ IF data # Nothing /\ data["config"] # NoModels
         THEN bootCfg' = data["config"] /\ boot' = "applying"
         ELSE UNCHANGED bootCfg /\ boot' = "done"
    /\ UNCHANGED <<source, events, hub, engine, cache, run, signs>>

\* An error is logged, and the start goes on.
BootApply ==
    /\ boot = "applying" /\ boot' = "done"
    /\ Apply(bootCfg) /\ bootCfg' = Nothing
    /\ UNCHANGED <<source, events, hub, cache, run, crossed, narrow>>

Boot == GatewayBuilt \/ BootRead \/ BootApply

-----------------------------------------------------------------------------
RefreshStep(r) ==
    \/ SkipUnchanged(r)
    \/ SeeChanged(r)
    \/ ApplyFails(r)
    \/ ApplySnapshot(r)
    \/ RememberSnapshot(r)
    \/ ReloadTooEarly(r)
    \/ ReadConfig(r)
    \/ ApplyGatewayConfig(r)
    \/ PurgeCaches(r)

Next ==
    \/ \E s \in Watched, v \in Versions \cup {NoModels} : Edit(s, v)
    \/ \E h \in Handlers, e \in Events : Notified(h, e) \/ NotifiedInVain(h, e)
    \/ Tick
    \/ \E r \in Refreshers : RefreshStep(r)
    \/ \E k \in CacheNames : Caches[k] \in Watched /\ FillCache(k)
    \/ Boot

Spec == Init /\ [][Next]_vars

\* A refresh that has started goes on (it touches memory only), the ticker
\* keeps ticking with an export that succeeds again and again, and the process
\* starts.
Fairness ==
    /\ SF_vars(Tick) /\ WF_vars(Boot)
    /\ \A r \in Refreshers : WF_vars(RefreshStep(r))

FairSpec == Spec /\ Fairness

-----------------------------------------------------------------------------
(* Properties.                                                             *)

Steps == {"idle", "loaded", "applying", "applied", "reload", "apply", "purge"}

\* The variables hold what their declarations say.
TypeOK ==
    /\ db \in Snapshot
    /\ edits \in 0 .. MaxEdits
    /\ past \subseteq Snapshot
    /\ events \in [Events -> Nat]
    /\ data \in Snapshot \cup {Nothing}
    /\ last \in Snapshot \cup {Nothing}
    /\ engine \in Contents("config") \cup {Nothing}
    /\ cache \in [CacheNames -> Versions \cup {NoModels, Nothing}]
    /\ pc \in [Refreshers -> Steps]
    /\ kind \in [Refreshers -> Events \cup {"all"}]
    /\ snap \in [Refreshers -> Snapshot \cup {Nothing}]
    /\ cfg \in [Refreshers -> Contents("config") \cup {Nothing}]
    /\ boot \in {"building", "built", "applying", "done"}
    /\ bootCfg \in Contents("config") \cup {Nothing}
    /\ crossed \in BOOLEAN /\ narrow \in BOOLEAN /\ astray \in BOOLEAN

\* Whatever refreshes overlap and fail, the config, the policies and the keys
\* in the hub come from one export: at each moment, a state the database was
\* in.  (A request that asks the provider several times may see several.)
HubIsWhole == data \in past \cup {Nothing}

Busy(steps) == {r \in Refreshers : pc[r] \in steps}

\* "Admin mutations SHALL update the live Engine": the engine of a started
\* gateway runs the routing config the hub serves, unless that has no models
\* or a refresh has yet to apply it; and it stays so until the engine refuses
\* a config or is given one late, or a refresh for policies or keys brings the
\* config along, which OnReload does not look at then.
EngineInStep ==
    ~astray /\ ~narrow /\ boot = "done" /\ data # Nothing =>
        \/ data["config"] \in {engine, NoModels}
        \/ \E r \in Busy({"applied", "reload", "apply"}) : AppliesConfig(kind[r])

\* No cache of the gateway holds what the hub has replaced, unless a refresh
\* has yet to purge it (OnReload), whatever overlaps; and it stays so until a
\* refresh for policies or keys changes another section too.
CachesInStep ==
    ~narrow /\ data # Nothing =>
        \A k \in CacheNames :
            \/ cache[k] \in {Nothing, data[Caches[k]]}
            \/ \E r \in Busy({"applied", "reload", "apply", "purge"}) :
                   k \in PurgedBy(kind[r])

\* The periodic sync is "a safety net against missed config events": once the
\* database rests at what can be read the hub comes to serve it, although
\* exports fail and refreshes overlap, unless one remembers its blobs after
\* another has applied its snapshot: then "unchanged" is no longer true.
HubConverges == <>[](data = db \/ ~Readable(db)) \/ <>crossed

\* "Admin mutations in all-in-one SHALL update the live Engine ... without
\* process restart": once the database rests, the engine comes to run its
\* routing config, even if only those runs count in which the engine refuses
\* none, is given none late, and the hub remembers what it serves.
EngineFollowsAdmin ==
    \/ <>[](db["config"] \in {engine, NoModels} \/ ~Readable(db))
    \/ <>(astray \/ crossed)
=============================================================================
