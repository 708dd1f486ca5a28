------------------------------ MODULE Exporter ------------------------------
(***************************************************************************)
(* The running exporter: the probe loop of main.go with the zone           *)
(* goroutines of cycle.Runner.Run, the delegation cache they share, the    *)
(* config reloaders (the SIGHUP goroutine and any number of concurrent     *)
(* POST /-/reload handlers), the /metrics handlers, and shutdown.          *)
(*                                                                         *)
(* A delegation is abstracted to what produced it: the root server list    *)
(* and the address-override tables that its walk read.  A configuration    *)
(* is its zone list, its root server list and its override table.  Time    *)
(* is abstracted: the ticker fires, a cache entry expires and a walk fails *)
(* (an error, or the per-zone deadline) whenever the environment chooses.  *)
(*                                                                         *)
(* Auxiliary state, read by no guard: cycle (numbers the cycles), epoch    *)
(* (counts the invalidations), lastInvalidated (cycle at the last one),    *)
(* and the cycle and epoch tags inside delegations and gauges.             *)
(***************************************************************************)
EXTENDS Integers, Sequences, FiniteSets

CONSTANTS
    Zones,          \* zone names
    RootLists,      \* possible values of prober.RootServers
    DefaultRoots,   \* prober.DefaultRootServers
    NoRoots,        \* a config without root_servers
    Overrides,      \* possible address_overrides tables
    NoOverrides,    \* the empty table: every address is ip:53
    Configs,        \* the valid configurations the file may hold
    BadFile,        \* a file that config.Load rejects
    Sighup,         \* the goroutine that serves SIGHUP
    HttpReloads,    \* concurrent POST /-/reload handlers
    Scrapers,       \* concurrent GET /metrics handlers
    Nil,            \* Go's nil, and "no such entry"
    MaxCycles,      \* bound: number of probe cycles
    MaxReloads,     \* bound: number of reloads that get past config.Load; the
                    \* file is not edited after the last of them
    MayStop         \* bound: is shutdown explored

Slots == UNION {DOMAIN c.zones : c \in Configs}
Reloaders == HttpReloads \cup {Sighup}

ASSUME ConfigAssumption ==
    /\ \A c \in Configs :
          /\ c.zones \in Seq(Zones) /\ c.zones # <<>>
          /\ c.roots \in RootLists \cup {NoRoots}
          /\ c.overrides \in Overrides
    /\ DefaultRoots \in RootLists
    /\ NoOverrides \in Overrides
    /\ BadFile \notin Configs
ASSUME NilAssumption == Nil \notin Configs /\ Nil \notin {"failed", "empty", "probed"}
ASSUME ProcessAssumption == Sighup \notin HttpReloads
ASSUME BoundAssumption == MaxCycles \in Nat /\ MaxReloads \in Nat /\ MayStop \in BOOLEAN

VARIABLES
    file,               \* what the configuration file holds
    mainState,          \* "starting" | "serving" | "draining" | "exited"
    currentConfig,      \* main's atomic config pointer
    resolveAddress,     \* the override table prober.ResolveAddress applies
    rootServers,        \* prober.RootServers
    cache,              \* the delegation cache; an expired entry is no entry
    sighup,             \* is a signal waiting in the SIGHUP channel (capacity 1)
    reloadState,        \* per reloader: the next statement of applyReloadedConfig
    newCfg,             \* per reloader: the config it loaded
    ticker,             \* "none" before NewTicker, else "empty" or "full" channel
    loopState,          \* the probe loop's next step
    running,            \* is the overlap semaphore of runCycle taken
    cycleCfg,           \* the config of the cycle in flight or of the last one
    zoneState,          \* per zone goroutine: its next step in probeZone
    delegation,         \* per zone goroutine: the delegation it holds
    results,            \* per zone goroutine: what it appended to allResults
    parentGauge,        \* the per-zone gauge dnshealth_parent_delegation
    countGauges,        \* zones that have the per-zone count gauges
    registry,           \* the published cycle registry, Nil before the first
    scrape,             \* per /metrics handler: what it has gathered so far
    cycle, epoch, lastInvalidated   \* auxiliary

reloadVars == <<currentConfig, resolveAddress, rootServers, reloadState, newCfg>>
zoneVars   == <<zoneState, delegation, results>>
loopVars   == <<ticker, loopState, running, cycleCfg, cycle>>
gaugeVars  == <<parentGauge, countGauges>>
cacheVars  == <<cache, epoch, lastInvalidated>>
envVars    == <<file, sighup, mainState>>
vars == <<file, mainState, currentConfig, resolveAddress, rootServers, cache,
          sighup, reloadState, newCfg, ticker, loopState, running, cycleCfg,
          zoneState, delegation, results, parentGauge, countGauges, registry,
          scrape, cycle, epoch, lastInvalidated>>
-----------------------------------------------------------------------------
(* Data.                                                                   *)

Delegations == [roots : RootLists, tables : SUBSET Overrides,
                cycle : Nat, epoch : Nat]

\* What a zone goroutine appends: nothing because the walk failed, nothing
\* because no nameserver was found, or probe results.
Outcomes == {"failed", "empty", "probed"}

ParentGauges == [cycle : Nat, value : [Zones -> {"absent", "0", "1"}]]
CountGauges  == [cycle : Nat, zones : SUBSET Zones]
Registries   == [cycle : Nat, cfg : Configs,
                 results : [Slots -> Outcomes \cup {Nil}]]
Scrapes == [reg    : Registries \cup {Nil},
            parent : ParentGauges \cup {Nil},
            counts : CountGauges \cup {Nil}]

ASSUME NoRegistryAssumption == Nil \notin Registries

NoScrape == [reg |-> Nil, parent |-> Nil, counts |-> Nil]

\* Mutant: a config without root_servers does not restore the defaults.
BugRootsOf(c) == c.roots

RootsOf(c) == IF c.roots = NoRoots THEN DefaultRoots ELSE c.roots

ZonesOf(c) == {c.zones[i] : i \in DOMAIN c.zones}

Alive == mainState \in {"serving", "draining"}

Init ==
    /\ file \in Configs \cup {BadFile}
    /\ mainState = "starting"
    /\ currentConfig = Nil
    /\ resolveAddress = NoOverrides
    /\ rootServers = DefaultRoots
    /\ cache = [z \in Zones |-> Nil]
    /\ sighup = FALSE
    /\ reloadState = [r \in Reloaders |-> "idle"]
    /\ newCfg = [r \in Reloaders |-> Nil]
    /\ ticker = "none"
    /\ loopState = "notStarted"
    /\ running = FALSE
    /\ cycleCfg = Nil
    /\ zoneState = [i \in Slots |-> "none"]
    /\ delegation = [i \in Slots |-> Nil]
    /\ results = [i \in Slots |-> Nil]
    /\ parentGauge = [cycle |-> 0, value |-> [z \in Zones |-> "absent"]]
    /\ countGauges = [cycle |-> 0, zones |-> {}]
    /\ registry = Nil
    /\ scrape = [s \in Scrapers |-> NoScrape]
    /\ cycle = 0
    /\ epoch = 0
    /\ lastInvalidated = 0
-----------------------------------------------------------------------------
(* main: start-up and shutdown.                                            *)

StartOk ==
    /\ mainState = "starting"
    /\ file # BadFile
    /\ mainState' = "serving"
    /\ currentConfig' = file
    /\ resolveAddress' = file.overrides
    /\ rootServers' = RootsOf(file)
    /\ loopState' = "first"
    /\ UNCHANGED <<file, sighup, reloadState, newCfg, ticker, running, cycleCfg,
                   cycle, zoneVars, gaugeVars, registry, scrape, cacheVars>>

StartFails ==
    /\ mainState = "starting"
    /\ file = BadFile
    /\ mainState' = "exited"
    /\ UNCHANGED <<file, sighup, reloadVars, loopVars, zoneVars, gaugeVars,
                   registry, scrape, cacheVars>>

\* SIGTERM or SIGINT: main leaves <-ctx.Done() and calls server.Shutdown.
Terminate ==
    /\ MayStop
    /\ mainState = "serving"
    /\ mainState' = "draining"
    /\ UNCHANGED <<file, sighup, reloadVars, loopVars, zoneVars, gaugeVars,
                   registry, scrape, cacheVars>>

\* main returns, either because Shutdown drained the HTTP handlers or because
\* its five seconds are over; or ListenAndServe failed and called os.Exit.
Exit ==
    /\ MayStop
    /\ Alive
    /\ mainState' = "exited"
    /\ UNCHANGED <<file, sighup, reloadVars, loopVars, zoneVars, gaugeVars,
                   registry, scrape, cacheVars>>
-----------------------------------------------------------------------------
(* The environment: the operator, the signal channel, time.                *)

\* Reloads that got past config.Load or certainly will (bounded by MaxReloads).
ReloadsStarted ==
    epoch + Cardinality({r \in Reloaders : reloadState[r] # "idle"})
          + (IF sighup THEN 1 ELSE 0)

EditFile ==
    /\ Alive
    /\ ReloadsStarted < MaxReloads \/ sighup
    /\ \E f \in (Configs \cup {BadFile}) \ {file} : file' = f
    /\ UNCHANGED <<sighup, mainState, reloadVars, loopVars, zoneVars, gaugeVars,
                   registry, scrape, cacheVars>>

\* A signal that finds the channel full is dropped: the pending one serves both.
SendSighup ==
    /\ Alive
    /\ ~sighup
    /\ ReloadsStarted < MaxReloads
    /\ sighup' = TRUE
    /\ UNCHANGED <<file, mainState, reloadVars, loopVars, zoneVars, gaugeVars,
                   registry, scrape, cacheVars>>

\* A tick that finds the channel full is dropped.
Tick ==
    /\ Alive
    /\ ticker = "empty"
    /\ ticker' = "full"
    /\ UNCHANGED <<envVars, reloadVars, loopState, running, cycleCfg, cycle,
                   zoneVars, gaugeVars, registry, scrape, cacheVars>>
-----------------------------------------------------------------------------
(* Config reload.                                                          *)

\* Mutant: a signal that arrives while a reload is under way is skipped, as a
\* tick is while a cycle runs.
BugReceiveSighup ==
    /\ Alive
    /\ sighup
    /\ sighup' = FALSE
    /\ IF file = BadFile \/ reloadState[Sighup] # "idle"
       THEN UNCHANGED <<newCfg, reloadState>>
       ELSE /\ newCfg' = [newCfg EXCEPT ![Sighup] = file]
            /\ reloadState' = [reloadState EXCEPT ![Sighup] = "store"]
    /\ UNCHANGED <<file, mainState, currentConfig, resolveAddress, rootServers,
                   loopVars, zoneVars, gaugeVars, registry, scrape, cacheVars>>

\* The SIGHUP goroutine receives a signal and calls config.Load; when that
\* fails it goes back to the channel.
ReceiveSighup ==
    /\ Alive
    /\ sighup
    /\ reloadState[Sighup] = "idle"
    /\ sighup' = FALSE
    /\ IF file = BadFile
       THEN UNCHANGED <<newCfg, reloadState>>
       ELSE /\ newCfg' = [newCfg EXCEPT ![Sighup] = file]
            /\ reloadState' = [reloadState EXCEPT ![Sighup] = "store"]
    /\ UNCHANGED <<file, mainState, currentConfig, resolveAddress, rootServers,
                   loopVars, zoneVars, gaugeVars, registry, scrape, cacheVars>>

\* A POST /-/reload handler whose config.Load succeeds.  One that fails answers
\* 500 and changes nothing.
HttpReload(h) ==
    /\ mainState = "serving"
    /\ reloadState[h] = "idle"
    /\ file # BadFile
    /\ ReloadsStarted < MaxReloads
    /\ newCfg' = [newCfg EXCEPT ![h] = file]
    /\ reloadState' = [reloadState EXCEPT ![h] = "store"]
    /\ UNCHANGED <<envVars, currentConfig, resolveAddress, rootServers, loopVars,
                   zoneVars, gaugeVars, registry, scrape, cacheVars>>

\* The four statements of applyReloadedConfig, in its order.
StoreConfig(r) ==
    /\ Alive
    /\ reloadState[r] = "store"
    /\ currentConfig' = newCfg[r]
    /\ reloadState' = [reloadState EXCEPT ![r] = "bindResolver"]
    /\ UNCHANGED <<envVars, resolveAddress, rootServers, newCfg, loopVars,
                   zoneVars, gaugeVars, registry, scrape, cacheVars>>

BindResolver(r) ==
    /\ Alive
    /\ reloadState[r] = "bindResolver"
    /\ resolveAddress' = newCfg[r].overrides
    /\ reloadState' = [reloadState EXCEPT ![r] = "bindRoots"]
    /\ UNCHANGED <<envVars, currentConfig, rootServers, newCfg, loopVars,
                   zoneVars, gaugeVars, registry, scrape, cacheVars>>

\* Mutant: the roots are rebound only when the new config names some.
BugBindRoots(r) ==
    /\ Alive
    /\ reloadState[r] = "bindRoots"
    /\ rootServers' = IF newCfg[r].roots = NoRoots THEN rootServers
                      ELSE newCfg[r].roots
    /\ reloadState' = [reloadState EXCEPT ![r] = "invalidate"]
    /\ UNCHANGED <<envVars, currentConfig, resolveAddress, newCfg, loopVars,
                   zoneVars, gaugeVars, registry, scrape, cacheVars>>

BindRoots(r) ==
    /\ Alive
    /\ reloadState[r] = "bindRoots"
    /\ rootServers' = RootsOf(newCfg[r])
    /\ reloadState' = [reloadState EXCEPT ![r] = "invalidate"]
    /\ UNCHANGED <<envVars, currentConfig, resolveAddress, newCfg, loopVars,
                   zoneVars, gaugeVars, registry, scrape, cacheVars>>

\* Mutant: only the entries of zones the new config still has are dropped.
BugInvalidate(r) ==
    /\ Alive
    /\ reloadState[r] = "invalidate"
    /\ cache' = [z \in Zones |-> IF z \in ZonesOf(newCfg[r]) THEN Nil ELSE cache[z]]
    /\ reloadState' = [reloadState EXCEPT ![r] = "idle"]
    /\ newCfg' = [newCfg EXCEPT ![r] = Nil]
    /\ epoch' = epoch + 1
    /\ lastInvalidated' = cycle
    /\ UNCHANGED <<envVars, currentConfig, resolveAddress, rootServers, loopVars,
                   zoneVars, gaugeVars, registry, scrape>>

Invalidate(r) ==
    /\ Alive
    /\ reloadState[r] = "invalidate"
    /\ cache' = [z \in Zones |-> Nil]
    /\ reloadState' = [reloadState EXCEPT ![r] = "idle"]
    /\ newCfg' = [newCfg EXCEPT ![r] = Nil]
    /\ epoch' = epoch + 1
    /\ lastInvalidated' = cycle
    /\ UNCHANGED <<envVars, currentConfig, resolveAddress, rootServers, loopVars,
                   zoneVars, gaugeVars, registry, scrape>>

\* Mutant: the cache is invalidated before the globals are rebound.
BugApplyReloadedConfig(r) ==
    \/ /\ Alive
       /\ reloadState[r] = "store"
       /\ currentConfig' = newCfg[r]
       /\ cache' = [z \in Zones |-> Nil]
       /\ epoch' = epoch + 1
       /\ lastInvalidated' = cycle
       /\ reloadState' = [reloadState EXCEPT ![r] = "bindResolver"]
       /\ UNCHANGED <<envVars, resolveAddress, rootServers, newCfg, loopVars,
                      zoneVars, gaugeVars, registry, scrape>>
    \/ BindResolver(r)
    \/ /\ Alive
       /\ reloadState[r] = "bindRoots"
       /\ rootServers' = RootsOf(newCfg[r])
       /\ reloadState' = [reloadState EXCEPT ![r] = "idle"]
       /\ newCfg' = [newCfg EXCEPT ![r] = Nil]
       /\ UNCHANGED <<envVars, currentConfig, resolveAddress, loopVars, zoneVars,
                      gaugeVars, registry, scrape, cacheVars>>

ApplyReloadedConfig(r) ==
    StoreConfig(r) \/ BindResolver(r) \/ BindRoots(r) \/ Invalidate(r)
-----------------------------------------------------------------------------
(* The probe loop: runCycle, called at once and then for every tick.       *)

\* The loop goroutine calls runCycle, which takes the semaphore or skips.
BeginCycle ==
    /\ Alive
    /\ \/ loopState = "first"
       \/ loopState = "idle" /\ ticker = "full"
    /\ cycle < MaxCycles
    /\ running' = TRUE
    /\ loopState' = IF running THEN "idle" ELSE "load"
    /\ ticker' = IF loopState = "idle" \/ running THEN "empty" ELSE ticker
    /\ UNCHANGED <<envVars, reloadVars, cycleCfg, cycle, zoneVars, gaugeVars,
                   registry, scrape, cacheVars>>

\* Mutant: the loop keeps the config of its first cycle.
BugLoadConfig ==
    /\ Alive
    /\ loopState = "load"
    /\ cycleCfg' = IF registry = Nil THEN currentConfig ELSE registry.cfg
    /\ cycle' = cycle + 1
    /\ loopState' = "resetParent"
    /\ UNCHANGED <<envVars, reloadVars, ticker, running, zoneVars, gaugeVars,
                   registry, scrape, cacheVars>>

LoadConfig ==
    /\ Alive
    /\ loopState = "load"
    /\ cycleCfg' = currentConfig
    /\ cycle' = cycle + 1
    /\ loopState' = "resetParent"
    /\ UNCHANGED <<envVars, reloadVars, ticker, running, zoneVars, gaugeVars,
                   registry, scrape, cacheVars>>

\* Mutant: the gauge is not reset, a removed zone keeps its last value.
BugResetParentGauge ==
    /\ Alive
    /\ loopState = "resetParent"
    /\ parentGauge' = [parentGauge EXCEPT !.cycle = cycle]
    /\ loopState' = "resetCounts"
    /\ UNCHANGED <<envVars, reloadVars, ticker, running, cycleCfg, cycle,
                   zoneVars, countGauges, registry, scrape, cacheVars>>

ResetParentGauge ==
    /\ Alive
    /\ loopState = "resetParent"
    /\ parentGauge' = [cycle |-> cycle, value |-> [z \in Zones |-> "absent"]]
    /\ loopState' = "resetCounts"
    /\ UNCHANGED <<envVars, reloadVars, ticker, running, cycleCfg, cycle,
                   zoneVars, countGauges, registry, scrape, cacheVars>>

\* The other per-zone gauges are Reset, then one goroutine per zone starts.
ResetCountsAndSpawn ==
    /\ Alive
    /\ loopState = "resetCounts"
    /\ countGauges' = [cycle |-> cycle, zones |-> {}]
    /\ zoneState' = [i \in Slots |->
                        IF i \in DOMAIN cycleCfg.zones THEN "get" ELSE "none"]
    /\ loopState' = "wait"
    /\ UNCHANGED <<envVars, reloadVars, ticker, running, cycleCfg, cycle,
                   delegation, results, parentGauge, registry, scrape, cacheVars>>

\* Mutant: wg.Add runs inside the goroutine, so Wait may return early.
BugWaitAndAggregate ==
    /\ Alive
    /\ loopState = "wait"
    /\ \A i \in DOMAIN cycleCfg.zones : zoneState[i] \in {"get", "done"}
    /\ countGauges' = [countGauges EXCEPT !.zones = ZonesOf(cycleCfg)]
    /\ loopState' = "publish"
    /\ UNCHANGED <<envVars, reloadVars, ticker, running, cycleCfg, cycle,
                   zoneVars, parentGauge, registry, scrape, cacheVars>>

\* wg.Wait returns; the aggregation then sets the count gauges of every zone.
WaitAndAggregate ==
    /\ Alive
    /\ loopState = "wait"
    /\ \A i \in DOMAIN cycleCfg.zones : zoneState[i] = "done"
    /\ countGauges' = [countGauges EXCEPT !.zones = ZonesOf(cycleCfg)]
    /\ loopState' = "publish"
    /\ UNCHANGED <<envVars, reloadVars, ticker, running, cycleCfg, cycle,
                   zoneVars, parentGauge, registry, scrape, cacheVars>>

\* Mutant: the registry is labelled with the config pointer read again.
BugPublish ==
    /\ Alive
    /\ loopState = "publish"
    /\ registry' = [cycle |-> cycle, cfg |-> currentConfig, results |-> results]
    /\ loopState' = "release"
    /\ zoneState' = [i \in Slots |-> "none"]
    /\ results' = [i \in Slots |-> Nil]
    /\ UNCHANGED <<envVars, reloadVars, ticker, running, cycleCfg, cycle,
                   delegation, gaugeVars, scrape, cacheVars>>

\* runCycle stores the new registry; the locals of Run are gone.
Publish ==
    /\ Alive
    /\ loopState = "publish"
    /\ registry' = [cycle |-> cycle, cfg |-> cycleCfg, results |-> results]
    /\ loopState' = "release"
    /\ zoneState' = [i \in Slots |-> "none"]
    /\ results' = [i \in Slots |-> Nil]
    /\ UNCHANGED <<envVars, reloadVars, ticker, running, cycleCfg, cycle,
                   delegation, gaugeVars, scrape, cacheVars>>

\* The deferred release; after the first cycle the ticker is created.
Release ==
    /\ Alive
    /\ loopState = "release"
    /\ running' = FALSE
    /\ loopState' = "idle"
    /\ cycleCfg' = Nil
    /\ ticker' = IF ticker = "none" THEN "empty" ELSE ticker
    /\ UNCHANGED <<envVars, reloadVars, cycle, zoneVars, gaugeVars, registry,
                   scrape, cacheVars>>

RunCycle == \/ BeginCycle \/ LoadConfig \/ ResetParentGauge
            \/ ResetCountsAndSpawn \/ WaitAndAggregate \/ Publish \/ Release
-----------------------------------------------------------------------------
(* probeZone in the goroutine of the i-th configured zone.                 *)

ZoneOf(i) == cycleCfg.zones[i]

ZoneStep(i, from, to) ==
    /\ Alive
    /\ zoneState[i] = from
    /\ zoneState' = [zoneState EXCEPT ![i] = to]

OnlyZoneVarsChange == UNCHANGED <<envVars, reloadVars, loopVars, gaugeVars,
                                  registry, scrape, cacheVars>>

\* Get finds that the TTL of the zone's entry has run out, and counts it for no
\* entry from then on; only Get looks at the expiry.
Expire(z) ==
    /\ Alive
    /\ cache[z] # Nil
    /\ \E i \in Slots : zoneState[i] = "get" /\ ZoneOf(i) = z
    /\ cache' = [cache EXCEPT ![z] = Nil]
    /\ UNCHANGED <<envVars, reloadVars, loopVars, zoneVars, gaugeVars, registry,
                   scrape, epoch, lastInvalidated>>

CacheHit(i) ==
    /\ ZoneStep(i, "get", "delegated")
    /\ cache[ZoneOf(i)] # Nil
    /\ delegation' = [delegation EXCEPT ![i] = cache[ZoneOf(i)]]
    /\ UNCHANGED results /\ OnlyZoneVarsChange

CacheMiss(i) ==
    /\ ZoneStep(i, "get", "walk")
    /\ cache[ZoneOf(i)] = Nil
    /\ UNCHANGED <<delegation, results>> /\ OnlyZoneVarsChange

\* WalkDelegation picks RootServers[0] and queries it ...
WalkRoot(i) ==
    /\ ZoneStep(i, "walk", "referral")
    /\ delegation' = [delegation EXCEPT ![i] =
          [roots |-> rootServers, tables |-> {}, cycle |-> cycle, epoch |-> epoch]]
    /\ UNCHANGED results /\ OnlyZoneVarsChange

\* ... follows a referral to an address that ResolveAddress maps ...
WalkReferral(i) ==
    /\ ZoneStep(i, "referral", "referral")
    /\ delegation' = [delegation EXCEPT ![i].tables = @ \cup {resolveAddress}]
    /\ UNCHANGED results /\ OnlyZoneVarsChange

\* ... until a server delegates the zone, or the walk fails.
WalkDelegated(i) ==
    /\ ZoneStep(i, "referral", "set")
    /\ UNCHANGED <<delegation, results>> /\ OnlyZoneVarsChange

WalkFails(i) ==
    /\ ZoneStep(i, "referral", "undelegated")
    /\ delegation' = [delegation EXCEPT ![i] = Nil]
    /\ UNCHANGED results /\ OnlyZoneVarsChange

CacheSet(i) ==
    /\ ZoneStep(i, "set", "delegated")
    /\ cache' = [cache EXCEPT ![ZoneOf(i)] = delegation[i]]
    /\ UNCHANGED <<delegation, results, envVars, reloadVars, loopVars, gaugeVars,
                   registry, scrape, epoch, lastInvalidated>>

\* Mutant: the early return of a failed walk misses wg.Done.
BugSetUndelegated(i) ==
    /\ ZoneStep(i, "undelegated", "undelegated")
    /\ parentGauge' = [parentGauge EXCEPT !.value[ZoneOf(i)] = "0"]
    /\ results' = [results EXCEPT ![i] = "failed"]
    /\ UNCHANGED <<delegation, envVars, reloadVars, loopVars, countGauges,
                   registry, scrape, cacheVars>>

\* ParentDelegation.Set(0) and return nil.
SetUndelegated(i) ==
    /\ ZoneStep(i, "undelegated", "done")
    /\ parentGauge' = [parentGauge EXCEPT !.value[ZoneOf(i)] = "0"]
    /\ results' = [results EXCEPT ![i] = "failed"]
    /\ UNCHANGED <<delegation, envVars, reloadVars, loopVars, countGauges,
                   registry, scrape, cacheVars>>

SetDelegated(i) ==
    /\ ZoneStep(i, "delegated", "probe")
    /\ parentGauge' = [parentGauge EXCEPT !.value[ZoneOf(i)] = "1"]
    /\ results' = [results EXCEPT ![i] = "empty"]
    /\ UNCHANGED <<delegation, envVars, reloadVars, loopVars, countGauges,
                   registry, scrape, cacheVars>>

\* A prober queries a nameserver at the address ResolveAddress maps.
ProbeQuery(i) ==
    /\ ZoneStep(i, "probe", "probe")
    /\ results' = [results EXCEPT ![i] = "probed"]
    /\ UNCHANGED delegation /\ OnlyZoneVarsChange

\* probeZone returns (after ProbeQuery steps, or at once when it found no
\* nameservers) and the goroutine appends its results under the mutex.
ZoneDone(i) ==
    /\ ZoneStep(i, "probe", "done")
    /\ delegation' = [delegation EXCEPT ![i] = Nil]
    /\ UNCHANGED results /\ OnlyZoneVarsChange

ProbeZone(i) ==
    \/ CacheHit(i) \/ CacheMiss(i) \/ WalkRoot(i) \/ WalkReferral(i)
    \/ WalkDelegated(i) \/ WalkFails(i) \/ CacheSet(i) \/ SetUndelegated(i)
    \/ SetDelegated(i) \/ ProbeQuery(i) \/ ZoneDone(i)
-----------------------------------------------------------------------------
(* GET /metrics.  A handler that finds no registry answers 503 at once.    *)

ScrapeStart(s) ==
    /\ mainState = "serving"
    /\ scrape[s] = NoScrape
    /\ registry # Nil
    /\ scrape' = [scrape EXCEPT ![s].reg = registry]
    /\ UNCHANGED <<envVars, reloadVars, loopVars, zoneVars, gaugeVars, registry,
                   cacheVars>>

\* Gathering the permanent registry collects its gauge vectors in any order.
GatherParent(s) ==
    /\ Alive
    /\ scrape[s].reg # Nil /\ scrape[s].parent = Nil
    /\ scrape' = [scrape EXCEPT ![s].parent = parentGauge]
    /\ UNCHANGED <<envVars, reloadVars, loopVars, zoneVars, gaugeVars, registry,
                   cacheVars>>

GatherCounts(s) ==
    /\ Alive
    /\ scrape[s].reg # Nil /\ scrape[s].counts = Nil
    /\ scrape' = [scrape EXCEPT ![s].counts = countGauges]
    /\ UNCHANGED <<envVars, reloadVars, loopVars, zoneVars, gaugeVars, registry,
                   cacheVars>>

Gathered(s) == scrape[s].parent # Nil /\ scrape[s].counts # Nil

Respond(s) ==
    /\ Alive
    /\ Gathered(s)
    /\ scrape' = [scrape EXCEPT ![s] = NoScrape]
    /\ UNCHANGED <<envVars, reloadVars, loopVars, zoneVars, gaugeVars, registry,
                   cacheVars>>

ServeMetrics(s) ==
    ScrapeStart(s) \/ GatherParent(s) \/ GatherCounts(s) \/ Respond(s)
-----------------------------------------------------------------------------
Environment == EditFile \/ SendSighup \/ Tick \/ \E z \in Zones : Expire(z)

Main == StartOk \/ StartFails \/ Terminate \/ Exit

Next ==
    \/ Main
    \/ Environment
    \/ ReceiveSighup
    \/ \E h \in HttpReloads : HttpReload(h)
    \/ \E r \in Reloaders : ApplyReloadedConfig(r)
    \/ RunCycle
    \/ \E i \in Slots : ProbeZone(i)
    \/ \E s \in Scrapers : ServeMetrics(s)

Spec == Init /\ [][Next]_vars

\* Go schedules every goroutine that can run; the ticker keeps firing; a walk
\* and a probe end because the per-zone deadline cancels their queries.
Fairness ==
    /\ WF_vars(StartOk)
    /\ WF_vars(RunCycle)
    /\ WF_vars(Tick)
    /\ WF_vars(ReceiveSighup)
    /\ \A r \in Reloaders : WF_vars(ApplyReloadedConfig(r))
    /\ \A i \in Slots : WF_vars(ProbeZone(i))
    /\ \A s \in Scrapers : WF_vars(ServeMetrics(s))

FairSpec == Spec /\ Fairness
-----------------------------------------------------------------------------
(* Properties.                                                             *)

TypeOK ==
    /\ file \in Configs \cup {BadFile}
    /\ mainState \in {"starting", "serving", "draining", "exited"}
    /\ currentConfig \in Configs \cup {Nil}
    /\ resolveAddress \in Overrides
    /\ rootServers \in RootLists
    /\ cache \in [Zones -> Delegations \cup {Nil}]
    /\ sighup \in BOOLEAN
    /\ reloadState \in [Reloaders -> {"idle", "store", "bindResolver",
                                      "bindRoots", "invalidate"}]
    /\ newCfg \in [Reloaders -> Configs \cup {Nil}]
    /\ ticker \in {"none", "empty", "full"}
    /\ loopState \in {"notStarted", "first", "load", "resetParent",
                      "resetCounts", "wait", "publish", "release", "idle"}
    /\ running \in BOOLEAN
    /\ cycleCfg \in Configs \cup {Nil}
    /\ zoneState \in [Slots -> {"none", "get", "walk", "referral", "set",
                                "undelegated", "delegated", "probe", "done"}]
    /\ delegation \in [Slots -> Delegations \cup {Nil}]
    /\ results \in [Slots -> Outcomes \cup {Nil}]
    /\ parentGauge \in ParentGauges
    /\ countGauges \in CountGauges
    /\ registry \in Registries \cup {Nil}
    /\ scrape \in [Scrapers -> Scrapes]
    /\ cycle \in Nat /\ epoch \in Nat /\ lastInvalidated \in Nat

\* A delegation walked since the last invalidation.
Fresh(d) == d # Nil /\ d.epoch = epoch

NotRebinding(r) == reloadState[r] \notin {"bindRoots", "invalidate"}

\* Whatever the number of reloads that interleave: once none of them is
\* between rebinding the resolver and invalidating, every cached delegation
\* that was walked since the last invalidation was walked from the root
\* servers and through the overrides that are now bound.  It is why
\* applyReloadedConfig invalidates last (main.go:193-204).
FreshDelegationsAreCurrent ==
    (\A r \in Reloaders : NotRebinding(r)) =>
        \A z \in Zones : Fresh(cache[z]) =>
            /\ cache[z].roots = rootServers
            /\ cache[z].tables \subseteq {resolveAddress}

\* A cached delegation that was walked before the last invalidation was put
\* there by the very cycle that the invalidation interrupted, whose walk was
\* under way: no other stale delegation survives a reload, and a cycle that
\* begins after the reload adds none.
StaleOnlyFromInterruptedCycle ==
    \A z \in Zones :
        cache[z] # Nil /\ ~Fresh(cache[z]) => cache[z].cycle = lastInvalidated

\* A published registry accounts for every zone of one configuration: Publish
\* comes after the results of all zone goroutines (wg.Wait, runner.go:247).
PublishedIsComplete ==
    registry # Nil =>
        \A i \in DOMAIN registry.cfg.zones : registry.results[i] # Nil

\* With SIGHUP as the only way to reload, the stored config, the resolver and
\* the root servers belong together whenever no reload is in progress.
SerialReloadsCohere ==
    (HttpReloads = {} /\ Alive /\ reloadState[Sighup] = "idle") =>
        /\ resolveAddress = currentConfig.overrides
        /\ rootServers = RootsOf(currentConfig)

GaugeOf(outcome) == IF outcome = "failed" THEN "0" ELSE "1"

GaugesOf(reg, z) ==
    {GaugeOf(reg.results[i]) : i \in {j \in DOMAIN reg.cfg.zones :
                                         reg.cfg.zones[j] = z}}

\* A response never pairs a cycle's registry with permanent gauges of an
\* earlier cycle; and when the gauges are of the same cycle they are final:
\* exactly the zones of its configuration have series, and the delegation
\* gauge says what the zone's walk said.  (The handler loads the registry
\* before it gathers; Run sets the gauges before runCycle publishes.)
ScrapeIsConsistent ==
    \A s \in Scrapers : Gathered(s) =>
        LET reg == scrape[s].reg
            parent == scrape[s].parent
            counts == scrape[s].counts
        IN  /\ parent.cycle >= reg.cycle /\ counts.cycle >= reg.cycle
            /\ parent.cycle = reg.cycle =>
                  \A z \in Zones :
                     IF z \in ZonesOf(reg.cfg)
                     THEN parent.value[z] \in GaugesOf(reg, z)
                     ELSE parent.value[z] = "absent"
            /\ counts.cycle = reg.cycle => counts.zones = ZonesOf(reg.cfg)

\* The exporter implements its abstract specification: the config of a cycle
\* is in flight from LoadConfig to Publish, and what is served is the registry.
InFlightCfg == IF loopState \in {"resetParent", "resetCounts", "wait", "publish"}
               THEN cycleCfg ELSE Nil

Served == IF registry = Nil THEN Nil
          ELSE [cfg |-> registry.cfg,
                outcome |-> [i \in DOMAIN registry.cfg.zones |-> registry.results[i]]]

Service == INSTANCE ProbeService WITH
    config <- currentConfig, inFlight <- InFlightCfg, snapshot <- Served

ImplementsService == Service!ServiceSpec

\* The endpoint leaves 503: a cycle is published unless the process exits.
FirstCycleIsPublished ==
    mainState = "serving" ~> (registry # Nil \/ mainState = "exited")

\* The config in force when no cycle is in flight is published by the next
\* one, unless it is replaced or the process exits first.
ReloadTakesEffect ==
    \A c \in Configs :
        (currentConfig = c /\ loopState = "idle" /\ cycle < MaxCycles)
            ~> \/ registry # Nil /\ registry.cfg = c
               \/ currentConfig # c
               \/ mainState = "exited"

\* A SIGHUP is never lost: the file as it is when the signal is pending comes
\* into force, unless it is edited again or the process exits first.
SighupIsHonoured ==
    \A c \in Configs :
        (sighup /\ file = c) ~> \/ currentConfig = c
                                \/ file # c
                                \/ mainState = "exited"
-----------------------------------------------------------------------------
(* What the documentation says and the code does not do.                   *)

\* "invalidates the delegation cache so the next cycle re-walks"
\* (main.go:192): a cycle that loads its config after a reload's Invalidate
\* works on no delegation walked before it under another configuration.
NextCycleRewalks ==
    (cycleCfg # Nil /\ lastInvalidated < cycle) =>
        \A i \in Slots : LET d == delegation[i] IN
            d # Nil => \/ Fresh(d)
                       \/ /\ d.roots = RootsOf(cycleCfg)
                          /\ d.tables \subseteq {cycleCfg.overrides}

\* "swap config atomically" (specs/003-production-probe-loop/plan.md:103):
\* when every reload has returned, the stored config, the resolver and the
\* root servers are those of one configuration.
ReloadSwapsAtomically ==
    (Alive /\ \A r \in Reloaders : reloadState[r] = "idle") =>
        /\ resolveAddress = currentConfig.overrides
        /\ rootServers = RootsOf(currentConfig)

\* "The new metric set replaces the old one atomically"
\* (specs/003-production-probe-loop/spec.md:107): the per-zone series of a
\* response are those of one cycle.
MetricSetReplacedAtomically ==
    \A s \in Scrapers : Gathered(s) =>
        /\ scrape[s].parent.cycle = scrape[s].reg.cycle
        /\ scrape[s].counts.cycle = scrape[s].reg.cycle
=============================================================================
