--------------------------- MODULE ExporterProofs ---------------------------
(***************************************************************************)
(* Theorems about Exporter for every value of its constants.  The types    *)
(* and the control structure of a cycle are proved first (ControlInv: zone *)
(* goroutines run only while the loop waits for them); on them rests the   *)
(* invariant about delegations (CacheInv), which says of a walk under way  *)
(* what the safety properties say of the cache.  Then follow what is       *)
(* published (ResultInv, and that the exporter implements ProbeService),   *)
(* what reloads leave behind when they do not overlap (SerialInv), and     *)
(* what a scrape may pair (ScrapeInv).                                     *)
(***************************************************************************)
EXTENDS Exporter, TLAPS

Walking(i) == zoneState[i] \in {"referral", "set"}

Active(i) == zoneState[i] \notin {"none", "done"}

\* Nothing runs before main has loaded the first configuration.
StartInv ==
    /\ mainState = "starting" => /\ loopState = "notStarted"
                                 /\ \A z \in Zones : cache[z] = Nil
    /\ Alive => currentConfig \in Configs
    /\ \A r \in Reloaders : reloadState[r] # "idle" => newCfg[r] \in Configs

\* A cycle has a config; zone goroutines run only between the spawn and
\* wg.Wait, one for each position of the zone list.
CycleInv ==
    /\ loopState \in {"resetParent", "resetCounts", "wait", "publish", "release"}
          => cycleCfg \in Configs
    /\ loopState # "wait" => \A i \in Slots : ~Active(i)
    /\ loopState = "wait" =>
          \A i \in Slots : zoneState[i] # "none" <=> i \in DOMAIN cycleCfg.zones
    /\ \A i \in Slots : Walking(i) => delegation[i] \in Delegations

ControlInv == TypeOK /\ StartInv /\ CycleInv

AllRebound == \A r \in Reloaders : NotRebinding(r)

Current(d) == d.roots = rootServers /\ d.tables \subseteq {resolveAddress}

\* A delegation, cached or being walked, that is no older than the last
\* invalidation is current once the rebinding is over.
Sound(d) == d.epoch <= epoch /\ (d.epoch = epoch /\ AllRebound => Current(d))

CacheInv ==
    /\ \A z \in Zones : cache[z] # Nil =>
          Sound(cache[z]) /\ (Fresh(cache[z]) \/ cache[z].cycle = lastInvalidated)
    /\ \A i \in Slots : Walking(i) =>
          /\ Sound(delegation[i])
          /\ delegation[i].cycle = cycle
          /\ delegation[i].epoch = epoch \/ lastInvalidated = cycle

IInv == ControlInv /\ CacheInv
-----------------------------------------------------------------------------
(* Data lemmas.                                                            *)

LEMMA ConfigTyped ==
    ASSUME NEW c \in Configs
    PROVE  /\ RootsOf(c) \in RootLists
           /\ c.overrides \in Overrides
           /\ ZonesOf(c) \subseteq Zones
           /\ \A i \in DOMAIN c.zones : c.zones[i] \in Zones
           /\ DOMAIN c.zones \subseteq Slots
<1>1. c.zones \in Seq(Zones)
    BY ConfigAssumption
<1>2. \A i \in DOMAIN c.zones : c.zones[i] \in Zones
    BY <1>1
<1>3. RootsOf(c) \in RootLists /\ c.overrides \in Overrides
    BY ConfigAssumption DEF RootsOf
<1>4. DOMAIN c.zones \subseteq Slots
    BY DEF Slots
<1> QED
    BY <1>2, <1>3, <1>4 DEF ZonesOf

LEMMA InitInvariant == Init => IInv
<1> SUFFICES ASSUME Init PROVE IInv
    OBVIOUS
<1>1. TypeOK
  <2>1. parentGauge \in ParentGauges /\ countGauges \in CountGauges
      BY DEF Init, ParentGauges, CountGauges
  <2>2. scrape \in [Scrapers -> Scrapes]
      BY DEF Init, Scrapes, NoScrape
  <2>3. rootServers \in RootLists /\ resolveAddress \in Overrides
      BY ConfigAssumption DEF Init
  <2> QED
      BY <2>1, <2>2, <2>3 DEF Init, TypeOK
<1>2. StartInv
    BY DEF Init, StartInv, Alive
<1>3. CycleInv
    BY DEF Init, CycleInv, Active, Walking
<1>4. CacheInv
    BY DEF Init, CacheInv, Walking
<1> QED
    BY <1>1, <1>2, <1>3, <1>4 DEF IInv, ControlInv
-----------------------------------------------------------------------------
(* Types.                                                                  *)

LEMMA MainTypes ==
    ASSUME ControlInv, Main \/ Environment
    PROVE  TypeOK'
<1> USE DEF ControlInv, TypeOK, reloadVars, loopVars, zoneVars, gaugeVars,
            cacheVars, envVars
<1>1. CASE StartOk
    BY <1>1, ConfigTyped DEF StartOk
<1>2. CASE StartFails
    BY <1>2 DEF StartFails
<1>3. CASE Terminate
    BY <1>3 DEF Terminate
<1>4. CASE Exit
    BY <1>4 DEF Exit
<1>5. CASE EditFile
    BY <1>5 DEF EditFile
<1>6. CASE SendSighup
    BY <1>6 DEF SendSighup
<1>7. CASE Tick
    BY <1>7 DEF Tick
<1>8. ASSUME NEW z \in Zones, Expire(z) PROVE TypeOK'
    BY <1>8 DEF Expire
<1> QED
    BY <1>1, <1>2, <1>3, <1>4, <1>5, <1>6, <1>7, <1>8 DEF Main, Environment

LEMMA ReloadTypes ==
    ASSUME ControlInv,
           \/ ReceiveSighup
           \/ \E h \in HttpReloads : HttpReload(h)
           \/ \E r \in Reloaders : ApplyReloadedConfig(r)
    PROVE  TypeOK'
<1> USE DEF ControlInv, TypeOK, reloadVars, loopVars, zoneVars, gaugeVars,
            cacheVars, envVars
<1>1. CASE ReceiveSighup
  <2>1. /\ newCfg' \in [Reloaders -> Configs \cup {Nil}]
        /\ reloadState' \in [Reloaders -> {"idle", "store", "bindResolver",
                                           "bindRoots", "invalidate"}]
      BY <1>1 DEF ReceiveSighup
  <2>2. /\ sighup' \in BOOLEAN
        /\ UNCHANGED <<file, mainState, currentConfig, resolveAddress, rootServers,
                       loopVars, zoneVars, gaugeVars, registry, scrape, cacheVars>>
      BY <1>1 DEF ReceiveSighup
  <2> QED
      BY <2>1, <2>2
<1>2. ASSUME NEW h \in HttpReloads, HttpReload(h) PROVE TypeOK'
  <2>1. /\ newCfg' \in [Reloaders -> Configs \cup {Nil}]
        /\ reloadState' \in [Reloaders -> {"idle", "store", "bindResolver",
                                           "bindRoots", "invalidate"}]
      BY <1>2 DEF HttpReload
  <2>2. UNCHANGED <<envVars, currentConfig, resolveAddress, rootServers, loopVars,
                    zoneVars, gaugeVars, registry, scrape, cacheVars>>
      BY <1>2 DEF HttpReload
  <2> QED
      BY <2>1, <2>2
<1>3. ASSUME NEW r \in Reloaders, StoreConfig(r) PROVE TypeOK'
    BY <1>3 DEF StoreConfig, StartInv
<1>4. ASSUME NEW r \in Reloaders, BindResolver(r) PROVE TypeOK'
  <2>1. newCfg[r].overrides \in Overrides
      BY <1>4, ConfigTyped DEF BindResolver, StartInv
  <2> QED
      BY <1>4, <2>1 DEF BindResolver
<1>5. ASSUME NEW r \in Reloaders, BindRoots(r) PROVE TypeOK'
  <2>1. RootsOf(newCfg[r]) \in RootLists
      BY <1>5, ConfigTyped DEF BindRoots, StartInv
  <2> QED
      BY <1>5, <2>1 DEF BindRoots
<1>6. ASSUME NEW r \in Reloaders, Invalidate(r) PROVE TypeOK'
    BY <1>6 DEF Invalidate
<1> QED
    BY <1>1, <1>2, <1>3, <1>4, <1>5, <1>6 DEF ApplyReloadedConfig

LEMMA LoopTypes ==
    ASSUME ControlInv, RunCycle
    PROVE  TypeOK'
<1> USE DEF ControlInv, TypeOK, reloadVars, loopVars, zoneVars, gaugeVars,
            cacheVars, envVars
<1>1. CASE BeginCycle
    BY <1>1 DEF BeginCycle
<1>2. CASE LoadConfig
    BY <1>2 DEF LoadConfig
<1>3. CASE ResetParentGauge
  <2>1. parentGauge' \in ParentGauges
      BY <1>3 DEF ResetParentGauge, ParentGauges
  <2> QED
      BY <1>3, <2>1 DEF ResetParentGauge
<1>4. CASE ResetCountsAndSpawn
  <2>1. countGauges' \in CountGauges
      BY <1>4 DEF ResetCountsAndSpawn, CountGauges
  <2> QED
      BY <1>4, <2>1 DEF ResetCountsAndSpawn
<1>5. CASE WaitAndAggregate
  <2>1. ZonesOf(cycleCfg) \subseteq Zones
      BY <1>5, ConfigTyped DEF WaitAndAggregate, CycleInv
  <2>2. countGauges' \in CountGauges
      BY <1>5, <2>1 DEF WaitAndAggregate, CountGauges
  <2> QED
      BY <1>5, <2>2 DEF WaitAndAggregate
<1>6. CASE Publish
  <2>1. cycleCfg \in Configs
      BY <1>6 DEF Publish, CycleInv
  <2>2. registry' \in Registries
      BY <1>6, <2>1 DEF Publish, Registries
  <2> QED
      BY <1>6, <2>2 DEF Publish
<1>7. CASE Release
    BY <1>7 DEF Release
<1> QED
    BY <1>1, <1>2, <1>3, <1>4, <1>5, <1>6, <1>7 DEF RunCycle

LEMMA ActiveZone ==
    ASSUME ControlInv, NEW i \in Slots, Active(i)
    PROVE  /\ loopState = "wait" /\ cycleCfg \in Configs
           /\ i \in DOMAIN cycleCfg.zones /\ ZoneOf(i) \in Zones
<1>1. loopState = "wait" /\ cycleCfg \in Configs
    BY DEF ControlInv, CycleInv
<1>2. i \in DOMAIN cycleCfg.zones
    BY <1>1 DEF ControlInv, CycleInv, Active
<1> QED
    BY <1>1, <1>2, ConfigTyped DEF ZoneOf

LEMMA ZoneTypes ==
    ASSUME ControlInv, NEW i \in Slots, ProbeZone(i)
    PROVE  TypeOK'
<1> USE DEF ControlInv, TypeOK, reloadVars, loopVars, zoneVars, gaugeVars,
            cacheVars, envVars, ZoneStep, OnlyZoneVarsChange
<1>1. CASE CacheHit(i)
  <2>1. cache[ZoneOf(i)] \in Delegations \cup {Nil}
      BY <1>1, ActiveZone DEF CacheHit, Active
  <2> QED
      BY <1>1, <2>1 DEF CacheHit
<1>2. CASE CacheMiss(i)
    BY <1>2 DEF CacheMiss
<1>3. CASE WalkRoot(i)
  <2>1. delegation' \in [Slots -> Delegations \cup {Nil}]
      BY <1>3 DEF WalkRoot, Delegations
  <2> QED
      BY <1>3, <2>1 DEF WalkRoot
<1>4. CASE WalkReferral(i)
  <2>1. delegation[i] \in Delegations
      BY <1>4 DEF WalkReferral, CycleInv, Walking
  <2>2. [delegation[i] EXCEPT !.tables = @ \cup {resolveAddress}] \in Delegations
      BY <2>1 DEF Delegations
  <2>3. delegation' \in [Slots -> Delegations \cup {Nil}]
      BY <1>4, <2>2 DEF WalkReferral
  <2> QED
      BY <1>4, <2>3 DEF WalkReferral
<1>5. CASE WalkDelegated(i)
    BY <1>5 DEF WalkDelegated
<1>6. CASE WalkFails(i)
    BY <1>6 DEF WalkFails
<1>7. CASE CacheSet(i)
  <2>1. cache' \in [Zones -> Delegations \cup {Nil}]
      BY <1>7 DEF CacheSet
  <2> QED
      BY <1>7, <2>1 DEF CacheSet
<1>8. CASE SetUndelegated(i)
  <2>1. parentGauge' \in ParentGauges
      BY <1>8 DEF SetUndelegated, ParentGauges
  <2>2. results' \in [Slots -> Outcomes \cup {Nil}]
      BY <1>8 DEF SetUndelegated, Outcomes
  <2> QED
      BY <1>8, <2>1, <2>2 DEF SetUndelegated
<1>9. CASE SetDelegated(i)
  <2>1. parentGauge' \in ParentGauges
      BY <1>9 DEF SetDelegated, ParentGauges
  <2>2. results' \in [Slots -> Outcomes \cup {Nil}]
      BY <1>9 DEF SetDelegated, Outcomes
  <2> QED
      BY <1>9, <2>1, <2>2 DEF SetDelegated
<1>10. CASE ProbeQuery(i)
    BY <1>10 DEF ProbeQuery, Outcomes
<1>11. CASE ZoneDone(i)
    BY <1>11 DEF ZoneDone
<1> QED
    BY <1>1, <1>2, <1>3, <1>4, <1>5, <1>6, <1>7, <1>8, <1>9, <1>10, <1>11
    DEF ProbeZone

LEMMA ScrapeTypes ==
    ASSUME ControlInv, NEW s \in Scrapers, ServeMetrics(s)
    PROVE  TypeOK'
<1> USE DEF ControlInv, TypeOK, reloadVars, loopVars, zoneVars, gaugeVars,
            cacheVars, envVars
<1>1. scrape' \in [Scrapers -> Scrapes]
    BY DEF ServeMetrics, ScrapeStart, GatherParent, GatherCounts, Respond,
           Scrapes, NoScrape
<1> QED
    BY <1>1 DEF ServeMetrics, ScrapeStart, GatherParent, GatherCounts, Respond

LEMMA TypeStep == ControlInv /\ [Next]_vars => TypeOK'
<1> SUFFICES ASSUME ControlInv, [Next]_vars PROVE TypeOK'
    OBVIOUS
<1>1. CASE UNCHANGED vars
    BY <1>1 DEF ControlInv, TypeOK, vars
<1>2. CASE Next
    BY <1>2, MainTypes, ReloadTypes, LoopTypes, ZoneTypes, ScrapeTypes DEF Next
<1> QED
    BY <1>1, <1>2
-----------------------------------------------------------------------------
(* Control.                                                                *)

LEMMA StartStep == ControlInv /\ [Next]_vars => StartInv'
<1> SUFFICES ASSUME ControlInv, [Next]_vars PROVE StartInv'
    OBVIOUS
<1> USE DEF ControlInv, StartInv, Alive, reloadVars, loopVars, zoneVars,
            gaugeVars, cacheVars, envVars
<1>1. CASE UNCHANGED vars
    BY <1>1 DEF vars
<1>2. CASE Main
  <2>1. CASE StartOk
      BY <2>1 DEF StartOk, TypeOK
  <2>2. CASE StartFails
      BY <2>2 DEF StartFails
  <2>3. CASE Terminate \/ Exit
      BY <2>3 DEF Terminate, Exit
  <2> QED
      BY <1>2, <2>1, <2>2, <2>3 DEF Main
<1>3. CASE Environment
    BY <1>3 DEF Environment, EditFile, SendSighup, Tick, Expire
<1>4. CASE ReceiveSighup
    BY <1>4 DEF ReceiveSighup, TypeOK
<1>5. ASSUME NEW h \in HttpReloads, HttpReload(h) PROVE StartInv'
    BY <1>5 DEF HttpReload, TypeOK
<1>6. ASSUME NEW r \in Reloaders, ApplyReloadedConfig(r) PROVE StartInv'
  <2>1. CASE StoreConfig(r)
      BY <2>1 DEF StoreConfig, TypeOK
  <2>2. CASE BindResolver(r) \/ BindRoots(r)
      BY <2>2 DEF BindResolver, BindRoots, TypeOK
  <2>3. CASE Invalidate(r)
      BY <2>3 DEF Invalidate, TypeOK
  <2> QED
      BY <1>6, <2>1, <2>2, <2>3 DEF ApplyReloadedConfig
<1>7. CASE RunCycle
    BY <1>7 DEF RunCycle, BeginCycle, LoadConfig, ResetParentGauge,
                ResetCountsAndSpawn, WaitAndAggregate, Publish, Release
<1>8. ASSUME NEW i \in Slots, ProbeZone(i) PROVE StartInv'
    BY <1>8 DEF ProbeZone, ZoneStep, OnlyZoneVarsChange, CacheHit, CacheMiss,
                WalkRoot, WalkReferral, WalkDelegated, WalkFails, CacheSet,
                SetUndelegated, SetDelegated, ProbeQuery, ZoneDone
<1>9. ASSUME NEW s \in Scrapers, ServeMetrics(s) PROVE StartInv'
    BY <1>9 DEF ServeMetrics, ScrapeStart, GatherParent, GatherCounts, Respond
<1> QED
    BY <1>1, <1>2, <1>3, <1>4, <1>5, <1>6, <1>7, <1>8, <1>9 DEF Next

\* What a step outside the probe loop leaves to the cycle in flight.
CycleState == <<loopState, cycleCfg, zoneState, delegation, results, registry>>

LEMMA OutsideCycle ==
    ASSUME \/ StartFails \/ Terminate \/ Exit
           \/ Environment
           \/ ReceiveSighup
           \/ \E h \in HttpReloads : HttpReload(h)
           \/ \E r \in Reloaders : ApplyReloadedConfig(r)
           \/ \E s \in Scrapers : ServeMetrics(s)
    PROVE  UNCHANGED CycleState
<1> USE DEF CycleState, reloadVars, loopVars, zoneVars, gaugeVars, cacheVars,
            envVars
<1>1. CASE StartFails \/ Terminate \/ Exit
    BY <1>1 DEF StartFails, Terminate, Exit
<1>2. CASE Environment
    BY <1>2 DEF Environment, EditFile, SendSighup, Tick, Expire
<1>3. CASE ReceiveSighup \/ \E h \in HttpReloads : HttpReload(h)
    BY <1>3 DEF ReceiveSighup, HttpReload
<1>4. CASE \E r \in Reloaders : ApplyReloadedConfig(r)
    BY <1>4 DEF ApplyReloadedConfig, StoreConfig, BindResolver, BindRoots, Invalidate
<1>5. CASE \E s \in Scrapers : ServeMetrics(s)
    BY <1>5 DEF ServeMetrics, ScrapeStart, GatherParent, GatherCounts, Respond
<1> QED
    BY <1>1, <1>2, <1>3, <1>4, <1>5

LEMMA CycleStep == ControlInv /\ [Next]_vars => CycleInv'
<1> SUFFICES ASSUME ControlInv, [Next]_vars PROVE CycleInv'
    OBVIOUS
<1> USE DEF ControlInv, CycleInv, Active, Walking
<1>1. ASSUME UNCHANGED CycleState PROVE CycleInv'
    BY <1>1 DEF CycleState
<1>2. CASE UNCHANGED vars
    BY <1>1, <1>2 DEF vars, CycleState
<1>3. CASE StartOk
    BY <1>3 DEF StartOk, StartInv, zoneVars
<1>4. CASE RunCycle
  <2> USE DEF TypeOK, zoneVars
  <2>1. CASE BeginCycle
      BY <2>1 DEF BeginCycle
  <2>2. CASE LoadConfig
      BY <2>2 DEF LoadConfig, StartInv
  <2>3. CASE ResetParentGauge
      BY <2>3 DEF ResetParentGauge
  <2>4. CASE ResetCountsAndSpawn
      BY <2>4 DEF ResetCountsAndSpawn
  <2>5. CASE WaitAndAggregate
      BY <2>5 DEF WaitAndAggregate
  <2>6. CASE Publish
      BY <2>6 DEF Publish
  <2>7. CASE Release
      BY <2>7 DEF Release
  <2> QED
      BY <1>4, <2>1, <2>2, <2>3, <2>4, <2>5, <2>6, <2>7 DEF RunCycle
<1>5. ASSUME NEW i \in Slots, ProbeZone(i) PROVE CycleInv'
  <2> USE DEF TypeOK, ZoneStep, OnlyZoneVarsChange, loopVars
  <2>1. CASE CacheHit(i)
      BY <2>1 DEF CacheHit
  <2>2. CASE CacheMiss(i)
      BY <2>2 DEF CacheMiss
  <2>3. CASE WalkRoot(i)
      BY <2>3 DEF WalkRoot, Delegations
  <2>4. CASE WalkReferral(i)
    <3>1. delegation[i] \in Delegations
        BY <2>4 DEF WalkReferral
    <3>2. [delegation[i] EXCEPT !.tables = @ \cup {resolveAddress}] \in Delegations
        BY <3>1 DEF Delegations
    <3> QED
        BY <2>4, <3>2 DEF WalkReferral
  <2>5. CASE WalkDelegated(i)
      BY <2>5 DEF WalkDelegated
  <2>6. CASE WalkFails(i)
      BY <2>6 DEF WalkFails
  <2>7. CASE CacheSet(i)
      BY <2>7 DEF CacheSet
  <2>8. CASE SetUndelegated(i)
      BY <2>8 DEF SetUndelegated
  <2>9. CASE SetDelegated(i)
      BY <2>9 DEF SetDelegated
  <2>10. CASE ProbeQuery(i)
      BY <2>10 DEF ProbeQuery
  <2>11. CASE ZoneDone(i)
      BY <2>11 DEF ZoneDone
  <2> QED
      BY <1>5, <2>1, <2>2, <2>3, <2>4, <2>5, <2>6, <2>7, <2>8, <2>9, <2>10,
         <2>11 DEF ProbeZone
<1> QED
    BY <1>1, <1>2, <1>3, <1>4, <1>5, OutsideCycle DEF Next, Main
-----------------------------------------------------------------------------
(* Delegations.                                                            *)

\* What CacheInv depends on.
CacheState == <<cache, epoch, lastInvalidated, reloadState, rootServers,
                resolveAddress, zoneState, delegation, cycle>>

LEMMA CacheStateUnchanged ==
    ASSUME CacheInv, UNCHANGED CacheState
    PROVE  CacheInv'
  BY DEF CacheState, CacheInv, Sound, Fresh, Current, AllRebound, NotRebinding,
         Walking

\* While a reloader rebinds, nothing is claimed of fresh delegations; when it
\* has invalidated, there is none.
LEMMA ReloadKeepsCacheInv ==
    ASSUME IInv, NEW r \in Reloaders, ApplyReloadedConfig(r)
    PROVE  CacheInv'
<1> USE DEF IInv, ControlInv, TypeOK, CacheInv, zoneVars, cacheVars, loopVars
<1>1. CASE StoreConfig(r)
  <2>1. AllRebound' <=> AllRebound
      BY <1>1 DEF StoreConfig, AllRebound, NotRebinding
  <2> QED
      BY <1>1, <2>1 DEF StoreConfig, Sound, Fresh, Current, Walking
<1>2. CASE BindResolver(r)
  <2>1. ~AllRebound'
      BY <1>2 DEF BindResolver, AllRebound, NotRebinding
  <2> QED
      BY <1>2, <2>1 DEF BindResolver, Sound, Fresh, Walking
<1>3. CASE BindRoots(r)
  <2>1. ~AllRebound'
      BY <1>3 DEF BindRoots, AllRebound, NotRebinding
  <2> QED
      BY <1>3, <2>1 DEF BindRoots, Sound, Fresh, Walking
<1>4. CASE Invalidate(r)
  <2>1. \A z \in Zones : cache'[z] = Nil
      BY <1>4 DEF Invalidate
  <2>2. ASSUME NEW i \in Slots, Walking(i)
        PROVE  /\ Sound(delegation[i])'
               /\ delegation[i].cycle = cycle /\ lastInvalidated' = cycle
    <3>1. delegation[i].epoch \in Nat /\ delegation[i].epoch <= epoch
        BY <2>2 DEF CycleInv, Delegations, Sound
    <3> QED
        BY <1>4, <2>2, <3>1 DEF Invalidate, Sound
  <2> QED
      BY <1>4, <2>1, <2>2 DEF Invalidate, Walking
<1> QED
    BY <1>1, <1>2, <1>3, <1>4 DEF ApplyReloadedConfig

LEMMA LoopKeepsCacheInv ==
    ASSUME IInv, RunCycle
    PROVE  CacheInv'
<1> USE DEF cacheVars, reloadVars, zoneVars
<1>1. CASE LoadConfig
  <2>1. \A i \in Slots : ~Walking(i)
      BY <1>1 DEF LoadConfig, IInv, ControlInv, CycleInv, Active, Walking
  <2> QED
      BY <1>1, <2>1 DEF LoadConfig, IInv, CacheInv, Sound, Fresh, Current,
         AllRebound, NotRebinding, Walking
<1>2. CASE ResetCountsAndSpawn
  <2>1. \A i \in Slots : ~Walking(i)'
      BY <1>2 DEF ResetCountsAndSpawn, Walking
  <2> QED
      BY <1>2, <2>1 DEF ResetCountsAndSpawn, loopVars, IInv, CacheInv, Sound,
         Fresh, Current, AllRebound, NotRebinding
<1>3. CASE Publish
  <2>1. \A i \in Slots : ~Walking(i)'
      BY <1>3 DEF Publish, Walking
  <2> QED
      BY <1>3, <2>1 DEF Publish, IInv, CacheInv, Sound, Fresh, Current,
         AllRebound, NotRebinding
<1>4. CASE BeginCycle \/ ResetParentGauge \/ WaitAndAggregate \/ Release
  <2>1. UNCHANGED CacheState
      BY <1>4 DEF BeginCycle, ResetParentGauge, WaitAndAggregate, Release,
                  CacheState
  <2> QED
      BY <2>1, CacheStateUnchanged DEF IInv
<1> QED
    BY <1>1, <1>2, <1>3, <1>4 DEF RunCycle

LEMMA ZoneKeepsCacheInv ==
    ASSUME IInv, NEW i \in Slots, ProbeZone(i)
    PROVE  CacheInv'
<1> USE DEF IInv, ControlInv, TypeOK, ZoneStep, OnlyZoneVarsChange, cacheVars,
            reloadVars, loopVars
<1>1. CASE CacheHit(i) \/ CacheMiss(i) \/ WalkFails(i) \/ ZoneDone(i)
           \/ SetUndelegated(i) \/ SetDelegated(i) \/ ProbeQuery(i)
  <2>1. \A j \in Slots : Walking(j)' => Walking(j) /\ delegation'[j] = delegation[j]
      BY <1>1 DEF CacheHit, CacheMiss, WalkFails, ZoneDone, SetUndelegated,
                  SetDelegated, ProbeQuery, Walking
  <2>2. UNCHANGED <<cache, epoch, lastInvalidated, reloadState, rootServers,
                    resolveAddress, cycle>>
      BY <1>1 DEF CacheHit, CacheMiss, WalkFails, ZoneDone, SetUndelegated,
                  SetDelegated, ProbeQuery
  <2> QED
      BY <2>1, <2>2 DEF CacheInv, Sound, Fresh, Current, AllRebound, NotRebinding
<1>2. CASE WalkRoot(i)
  <2>1. /\ delegation'[i].roots = rootServers /\ delegation'[i].tables = {}
        /\ delegation'[i].cycle = cycle /\ delegation'[i].epoch = epoch
      BY <1>2 DEF WalkRoot
  <2>2. \A j \in Slots \ {i} : /\ Walking(j)' <=> Walking(j)
                               /\ delegation'[j] = delegation[j]
      BY <1>2 DEF WalkRoot, Walking
  <2>3. UNCHANGED <<cache, epoch, lastInvalidated, reloadState, rootServers,
                    resolveAddress, cycle>>
      BY <1>2 DEF WalkRoot
  <2> QED
      BY <2>1, <2>2, <2>3 DEF CacheInv, Sound, Fresh, Current, AllRebound,
         NotRebinding
<1>3. CASE WalkReferral(i)
  <2>1. Walking(i) /\ delegation[i] \in Delegations
      BY <1>3 DEF WalkReferral, Walking, CycleInv
  <2>2. /\ delegation'[i].roots = delegation[i].roots
        /\ delegation'[i].tables = delegation[i].tables \cup {resolveAddress}
        /\ delegation'[i].cycle = delegation[i].cycle
        /\ delegation'[i].epoch = delegation[i].epoch
      BY <1>3, <2>1 DEF WalkReferral, Delegations
  <2>3. \A j \in Slots \ {i} : /\ Walking(j)' <=> Walking(j)
                               /\ delegation'[j] = delegation[j]
      BY <1>3 DEF WalkReferral, Walking
  <2>4. UNCHANGED <<cache, epoch, lastInvalidated, reloadState, rootServers,
                    resolveAddress, cycle>>
      BY <1>3 DEF WalkReferral
  <2> QED
      BY <2>1, <2>2, <2>3, <2>4 DEF CacheInv, Sound, Fresh, Current, AllRebound,
         NotRebinding
<1>4. CASE WalkDelegated(i)
  <2>1. \A j \in Slots : Walking(j)' => Walking(j) /\ delegation'[j] = delegation[j]
      BY <1>4 DEF WalkDelegated, Walking
  <2>2. UNCHANGED <<cache, epoch, lastInvalidated, reloadState, rootServers,
                    resolveAddress, cycle>>
      BY <1>4 DEF WalkDelegated
  <2> QED
      BY <2>1, <2>2 DEF CacheInv, Sound, Fresh, Current, AllRebound, NotRebinding
<1>5. CASE CacheSet(i)
  <2>1. Walking(i) /\ ZoneOf(i) \in Zones
      BY <1>5, ActiveZone DEF CacheSet, Walking, Active
  <2>2. \A z \in Zones : cache'[z] = IF z = ZoneOf(i) THEN delegation[i] ELSE cache[z]
      BY <1>5 DEF CacheSet
  <2>3. \A j \in Slots : Walking(j)' => Walking(j) /\ delegation'[j] = delegation[j]
      BY <1>5 DEF CacheSet, Walking
  <2>4. UNCHANGED <<epoch, lastInvalidated, reloadState, rootServers,
                    resolveAddress, cycle>>
      BY <1>5 DEF CacheSet
  <2> QED
      BY <2>1, <2>2, <2>3, <2>4 DEF CacheInv, Sound, Fresh, Current, AllRebound,
         NotRebinding
<1> QED
    BY <1>1, <1>2, <1>3, <1>4, <1>5 DEF ProbeZone

LEMMA CacheStep == IInv /\ [Next]_vars => CacheInv'
<1> SUFFICES ASSUME IInv, [Next]_vars PROVE CacheInv'
    OBVIOUS
<1> USE DEF zoneVars, cacheVars, reloadVars, loopVars
<1>1. CASE UNCHANGED vars
    BY <1>1, CacheStateUnchanged DEF IInv, vars, CacheState
<1>2. CASE StartOk
  <2>1. /\ \A z \in Zones : cache'[z] = Nil
        /\ \A i \in Slots : ~Walking(i)'
      BY <1>2 DEF StartOk, IInv, ControlInv, StartInv, CycleInv, Active, Walking
  <2> QED
      BY <2>1 DEF CacheInv
<1>3. CASE StartFails \/ Terminate \/ Exit
    BY <1>3, CacheStateUnchanged
    DEF StartFails, Terminate, Exit, CacheState, IInv
<1>4. CASE EditFile \/ SendSighup \/ Tick
    BY <1>4, CacheStateUnchanged DEF EditFile, SendSighup, Tick, CacheState, IInv
<1>5. ASSUME NEW z \in Zones, Expire(z) PROVE CacheInv'
  <2>1. \A y \in Zones : cache'[y] = Nil \/ cache'[y] = cache[y]
      BY <1>5 DEF Expire, IInv, ControlInv, TypeOK
  <2> QED
      BY <1>5, <2>1 DEF Expire, IInv, CacheInv, Sound, Fresh, Current,
         AllRebound, NotRebinding, Walking
<1>6. ASSUME ReceiveSighup \/ \E h \in HttpReloads : HttpReload(h)
      PROVE  CacheInv'
  <2>1. AllRebound' <=> AllRebound
      BY <1>6 DEF ReceiveSighup, HttpReload, AllRebound, NotRebinding, Reloaders,
                  IInv, ControlInv, TypeOK
  <2>2. UNCHANGED <<cache, epoch, lastInvalidated, rootServers, resolveAddress,
                    zoneState, delegation, cycle>>
      BY <1>6 DEF ReceiveSighup, HttpReload
  <2> QED
      BY <2>1, <2>2 DEF IInv, CacheInv, Sound, Fresh, Current, Walking
<1>7. ASSUME NEW s \in Scrapers, ServeMetrics(s) PROVE CacheInv'
    BY <1>7, CacheStateUnchanged
    DEF ServeMetrics, ScrapeStart, GatherParent, GatherCounts, Respond,
        CacheState, IInv
<1> QED
    BY <1>1, <1>2, <1>3, <1>4, <1>5, <1>6, <1>7, ReloadKeepsCacheInv,
       LoopKeepsCacheInv, ZoneKeepsCacheInv DEF Next, Main, Environment
-----------------------------------------------------------------------------
(* The theorems.                                                           *)

THEOREM Invariance == Spec => []IInv
<1>1. Init => IInv
    BY InitInvariant
<1>2. IInv /\ [Next]_vars => IInv'
    BY TypeStep, StartStep, CycleStep, CacheStep DEF IInv, ControlInv
<1> QED
    BY <1>1, <1>2, PTL DEF Spec

\* Every variable keeps its type.
THEOREM TypeCorrect == Spec => []TypeOK
<1>1. IInv => TypeOK
    BY DEF IInv, ControlInv
<1> QED
    BY <1>1, Invariance, PTL

\* However many reloads interleave, the delegations walked since the last
\* invalidation are those of the root servers and overrides now bound.
THEOREM FreshDelegations == Spec => []FreshDelegationsAreCurrent
<1>1. IInv => FreshDelegationsAreCurrent
    BY DEF IInv, CacheInv, FreshDelegationsAreCurrent, Sound, Current, Fresh,
           AllRebound
<1> QED
    BY <1>1, Invariance, PTL

\* A stale delegation in the cache was put there by the cycle that the last
\* invalidation interrupted.
THEOREM StaleDelegations == Spec => []StaleOnlyFromInterruptedCycle
<1>1. IInv => StaleOnlyFromInterruptedCycle
    BY DEF IInv, CacheInv, StaleOnlyFromInterruptedCycle, Fresh
<1> QED
    BY <1>1, Invariance, PTL
-----------------------------------------------------------------------------
(* What is published: every registry is complete, and the exporter        *)
(* implements ProbeService.                                                *)

\* A goroutine that has its delegation has results to append; the loop
\* publishes when every goroutine has appended.
ResultInv ==
    /\ \A i \in Slots : zoneState[i] \in {"probe", "done"} => results[i] \in Outcomes
    /\ loopState = "publish" =>
          \A i \in DOMAIN cycleCfg.zones : zoneState[i] = "done"
    /\ registry # Nil =>
          /\ registry.cfg \in Configs
          /\ \A i \in DOMAIN registry.cfg.zones : registry.results[i] \in Outcomes

LEMMA ResultInit == Init => ResultInv
  BY DEF Init, ResultInv

LEMMA ResultStep == IInv /\ ResultInv /\ [Next]_vars => ResultInv'
<1> SUFFICES ASSUME IInv, ResultInv, [Next]_vars PROVE ResultInv'
    OBVIOUS
<1> USE DEF IInv, ControlInv, TypeOK
<1>1. ASSUME UNCHANGED CycleState PROVE ResultInv'
    BY <1>1 DEF CycleState, ResultInv
<1>2. CASE UNCHANGED vars
    BY <1>1, <1>2 DEF vars, CycleState
<1>3. CASE StartOk
    BY <1>3 DEF StartOk, ResultInv, zoneVars
<1>4. CASE RunCycle
  <2>1. CASE BeginCycle \/ LoadConfig \/ ResetParentGauge \/ Release
      BY <2>1 DEF BeginCycle, LoadConfig, ResetParentGauge, Release, ResultInv,
                  zoneVars
  <2>2. CASE ResetCountsAndSpawn
      BY <2>2 DEF ResetCountsAndSpawn, ResultInv
  <2>3. CASE WaitAndAggregate
      BY <2>3 DEF WaitAndAggregate, ResultInv, zoneVars
  <2>4. CASE Publish
    <3>1. cycleCfg \in Configs /\ DOMAIN cycleCfg.zones \subseteq Slots
        BY <2>4, ConfigTyped DEF Publish, CycleInv
    <3>2. \A i \in DOMAIN cycleCfg.zones : results[i] \in Outcomes
        BY <2>4, <3>1 DEF Publish, ResultInv
    <3>3. registry' = [cycle |-> cycle, cfg |-> cycleCfg, results |-> results]
        BY <2>4 DEF Publish
    <3> QED
        BY <2>4, <3>1, <3>2, <3>3 DEF Publish, ResultInv
  <2> QED
      BY <1>4, <2>1, <2>2, <2>3, <2>4 DEF RunCycle
<1>5. ASSUME NEW i \in Slots, ProbeZone(i) PROVE ResultInv'
  <2>1. loopState = "wait" /\ UNCHANGED <<loopState, cycleCfg, registry>>
    <3>1. Active(i)
        BY <1>5 DEF ProbeZone, CacheHit, CacheMiss, WalkRoot, WalkReferral,
           WalkDelegated, WalkFails, CacheSet, SetUndelegated, SetDelegated,
           ProbeQuery, ZoneDone, ZoneStep, Active
    <3> QED
        BY <1>5, <3>1, ActiveZone DEF ProbeZone, CacheHit, CacheMiss, WalkRoot,
           WalkReferral, WalkDelegated, WalkFails, CacheSet, SetUndelegated,
           SetDelegated, ProbeQuery, ZoneDone, OnlyZoneVarsChange, loopVars
  <2>2. \A j \in Slots : zoneState'[j] \in {"probe", "done"} => results'[j] \in Outcomes
    <3> USE DEF ZoneStep, OnlyZoneVarsChange, ResultInv, Outcomes
    <3>1. CASE CacheHit(i) \/ CacheMiss(i) \/ WalkRoot(i) \/ WalkReferral(i)
        BY <3>1 DEF CacheHit, CacheMiss, WalkRoot, WalkReferral
    <3>2. CASE WalkDelegated(i) \/ WalkFails(i) \/ CacheSet(i)
        BY <3>2 DEF WalkDelegated, WalkFails, CacheSet
    <3>3. CASE SetUndelegated(i)
        BY <3>3 DEF SetUndelegated
    <3>4. CASE SetDelegated(i)
        BY <3>4 DEF SetDelegated
    <3>5. CASE ProbeQuery(i)
        BY <3>5 DEF ProbeQuery
    <3>6. CASE ZoneDone(i)
        BY <3>6 DEF ZoneDone
    <3> QED
        BY <1>5, <3>1, <3>2, <3>3, <3>4, <3>5, <3>6 DEF ProbeZone
  <2> QED
      BY <2>1, <2>2 DEF ResultInv
<1> QED
    BY <1>1, <1>2, <1>3, <1>4, <1>5, OutsideCycle DEF Next, Main

THEOREM ResultInvariance == Spec => []ResultInv
  BY ResultInit, ResultStep, Invariance, PTL DEF Spec

\* A published registry has the outcome of every zone of its configuration.
THEOREM CompletePublication == Spec => []PublishedIsComplete
<1>1. ResultInv => PublishedIsComplete
    BY NilAssumption DEF ResultInv, PublishedIsComplete, Outcomes
<1> QED
    BY <1>1, ResultInvariance, PTL
-----------------------------------------------------------------------------
(* Serial reloads.                                                         *)

SerialInv ==
    HttpReloads = {} =>
        LET at == reloadState[Sighup] IN
        /\ mainState = "starting" => at = "idle"
        /\ Alive =>
            /\ at \in {"idle", "store", "bindRoots", "invalidate"} =>
                  resolveAddress = currentConfig.overrides
            /\ at \in {"idle", "store", "invalidate"} =>
                  rootServers = RootsOf(currentConfig)
            /\ at \in {"bindResolver", "bindRoots"} =>
                  currentConfig = newCfg[Sighup]

LEMMA SerialInit == Init => SerialInv
  BY DEF Init, SerialInv, Alive, Reloaders

LEMMA SerialStep == IInv /\ SerialInv /\ [Next]_vars => SerialInv'
<1> SUFFICES ASSUME IInv, SerialInv, [Next]_vars, HttpReloads = {}
             PROVE  SerialInv'
    BY DEF SerialInv
<1> USE DEF SerialInv, Alive, reloadVars, envVars
<1>0. Sighup \in Reloaders /\ \A r \in Reloaders : r = Sighup
    BY DEF Reloaders
<1>1. ASSUME UNCHANGED <<mainState, reloadVars>> PROVE SerialInv'
    BY <1>1
<1>2. CASE UNCHANGED vars
    BY <1>1, <1>2 DEF vars
<1>3. CASE Main
    BY <1>3 DEF Main, StartOk, StartFails, Terminate, Exit
<1>4. CASE Environment
    BY <1>1, <1>4 DEF Environment, EditFile, SendSighup, Tick, Expire
<1>5. CASE ReceiveSighup
    BY <1>0, <1>5 DEF ReceiveSighup, IInv, ControlInv, TypeOK
<1>6. ASSUME NEW r \in Reloaders, ApplyReloadedConfig(r) PROVE SerialInv'
  <2> USE DEF IInv, ControlInv, TypeOK
  <2>1. r = Sighup
      BY <1>0
  <2>2. CASE StoreConfig(r)
      BY <2>1, <2>2 DEF StoreConfig
  <2>3. CASE BindResolver(r)
      BY <2>1, <2>3 DEF BindResolver
  <2>4. CASE BindRoots(r)
      BY <2>1, <2>4 DEF BindRoots
  <2>5. CASE Invalidate(r)
      BY <2>1, <2>5 DEF Invalidate
  <2> QED
      BY <1>6, <2>2, <2>3, <2>4, <2>5 DEF ApplyReloadedConfig
<1>7. CASE RunCycle
    BY <1>1, <1>7 DEF RunCycle, BeginCycle, LoadConfig, ResetParentGauge,
       ResetCountsAndSpawn, WaitAndAggregate, Publish, Release
<1>8. ASSUME NEW i \in Slots, ProbeZone(i) PROVE SerialInv'
    BY <1>1, <1>8 DEF ProbeZone, CacheHit, CacheMiss, WalkRoot, WalkReferral,
       WalkDelegated, WalkFails, CacheSet, SetUndelegated, SetDelegated,
       ProbeQuery, ZoneDone, OnlyZoneVarsChange
<1>9. ASSUME NEW s \in Scrapers, ServeMetrics(s) PROVE SerialInv'
    BY <1>1, <1>9 DEF ServeMetrics, ScrapeStart, GatherParent, GatherCounts, Respond
<1> QED
    BY <1>2, <1>3, <1>4, <1>5, <1>6, <1>7, <1>8, <1>9 DEF Next

\* With SIGHUP the only way to reload, config, resolver and roots belong
\* together between reloads.
THEOREM SerialReloads == Spec => []SerialReloadsCohere
<1>1. SerialInv => SerialReloadsCohere
    BY DEF SerialInv, SerialReloadsCohere
<1> QED
    BY <1>1, SerialInit, SerialStep, Invariance, PTL DEF Spec
-----------------------------------------------------------------------------
(* Refinement.                                                             *)

\* The service sees a step only through these.
LEMMA Stutter ==
    ASSUME UNCHANGED <<currentConfig, loopState, cycleCfg, registry>>
    PROVE  UNCHANGED Service!serviceVars
  BY DEF Service!serviceVars, InFlightCfg, Served

LEMMA ServiceInit == Init => Service!ServiceInit
  BY DEF Init, Service!ServiceInit, InFlightCfg, Served

LEMMA ServiceStep ==
    IInv /\ ResultInv /\ [Next]_vars => [Service!ServiceNext]_(Service!serviceVars)
<1> SUFFICES ASSUME IInv, ResultInv, [Next]_vars
             PROVE  Service!ServiceNext \/ UNCHANGED Service!serviceVars
    OBVIOUS
<1> USE DEF IInv, ControlInv
<1>1. ASSUME currentConfig' \in Configs, UNCHANGED <<InFlightCfg, Served>>
      PROVE  Service!ServiceNext
    BY <1>1 DEF Service!ServiceNext, Service!Reconfigure
<1>2. CASE UNCHANGED vars
    BY <1>2, Stutter DEF vars
<1>3. CASE StartOk
  <2>1. currentConfig' \in Configs /\ UNCHANGED <<InFlightCfg, Served>>
      BY <1>3 DEF StartOk, StartInv, TypeOK, InFlightCfg, Served
  <2> QED
      BY <1>1, <2>1
<1>4. CASE StartFails \/ Terminate \/ Exit \/ Environment
    BY <1>4, Stutter DEF StartFails, Terminate, Exit, Environment, EditFile,
       SendSighup, Tick, Expire, reloadVars, loopVars
<1>5. CASE ReceiveSighup \/ \E h \in HttpReloads : HttpReload(h)
    BY <1>5, Stutter DEF ReceiveSighup, HttpReload, loopVars
<1>6. ASSUME NEW r \in Reloaders, ApplyReloadedConfig(r)
      PROVE  Service!ServiceNext \/ UNCHANGED Service!serviceVars
  <2>1. CASE StoreConfig(r)
    <3>1. currentConfig' \in Configs /\ UNCHANGED <<InFlightCfg, Served>>
        BY <2>1 DEF StoreConfig, StartInv, InFlightCfg, Served, loopVars
    <3> QED
        BY <1>1, <3>1
  <2>2. CASE BindResolver(r) \/ BindRoots(r) \/ Invalidate(r)
      BY <2>2, Stutter DEF BindResolver, BindRoots, Invalidate, loopVars
  <2> QED
      BY <1>6, <2>1, <2>2 DEF ApplyReloadedConfig
<1>7. CASE RunCycle
  <2>1. CASE LoadConfig
    <3>1. currentConfig \in Configs /\ currentConfig # Nil
        BY <2>1, NilAssumption DEF LoadConfig, StartInv
    <3>2. InFlightCfg = Nil /\ InFlightCfg' = currentConfig
        BY <2>1 DEF LoadConfig, InFlightCfg
    <3>3. UNCHANGED <<currentConfig, Served>>
        BY <2>1 DEF LoadConfig, Served, reloadVars
    <3> QED
        BY <3>1, <3>2, <3>3 DEF Service!ServiceNext, Service!Begin
  <2>2. CASE Publish
    <3> DEFINE outcome == [i \in DOMAIN cycleCfg.zones |-> results[i]]
    <3>1. cycleCfg \in Configs /\ DOMAIN cycleCfg.zones \subseteq Slots
        BY <2>2, ConfigTyped DEF Publish, CycleInv
    <3>2. InFlightCfg = cycleCfg /\ InFlightCfg # Nil /\ InFlightCfg' = Nil
        BY <2>2, <3>1, NilAssumption DEF Publish, InFlightCfg
    <3>3. registry' = [cycle |-> cycle, cfg |-> cycleCfg, results |-> results]
        BY <2>2 DEF Publish
    <3>4. registry' # Nil
      <4>1. registry' \in Registries
          BY <2>2, <3>1, <3>3 DEF Registries, TypeOK, Publish
      <4> QED
          BY <4>1, NoRegistryAssumption
    <3>5. Served' = [cfg |-> cycleCfg, outcome |-> outcome]
        BY <3>3, <3>4 DEF Served
    <3>6. outcome \in [DOMAIN cycleCfg.zones -> Service!Kinds]
        BY <2>2, <3>1 DEF Publish, ResultInv, Outcomes, Service!Kinds
    <3>7. UNCHANGED currentConfig
        BY <2>2 DEF Publish, reloadVars
    <3> QED
        BY <3>2, <3>5, <3>6, <3>7 DEF Service!ServiceNext, Service!Snapshot
  <2>3. CASE ResetParentGauge \/ ResetCountsAndSpawn \/ WaitAndAggregate
      BY <2>3 DEF ResetParentGauge, ResetCountsAndSpawn, WaitAndAggregate,
         InFlightCfg, Served, Service!serviceVars, reloadVars
  <2>4. CASE BeginCycle \/ Release
      BY <2>4 DEF BeginCycle, Release, InFlightCfg, Served, Service!serviceVars,
         reloadVars
  <2> QED
      BY <1>7, <2>1, <2>2, <2>3, <2>4 DEF RunCycle
<1>8. ASSUME NEW i \in Slots, ProbeZone(i) PROVE UNCHANGED Service!serviceVars
    BY <1>8, Stutter DEF ProbeZone, CacheHit, CacheMiss, WalkRoot, WalkReferral,
       WalkDelegated, WalkFails, CacheSet, SetUndelegated, SetDelegated,
       ProbeQuery, ZoneDone, OnlyZoneVarsChange, loopVars, reloadVars
<1>9. ASSUME NEW s \in Scrapers, ServeMetrics(s)
      PROVE  UNCHANGED Service!serviceVars
    BY <1>9, Stutter DEF ServeMetrics, ScrapeStart, GatherParent, GatherCounts,
       Respond, loopVars, reloadVars
<1> QED
    BY <1>2, <1>3, <1>4, <1>5, <1>6, <1>7, <1>8, <1>9 DEF Next, Main

\* The exporter implements ProbeService: it serves complete snapshots, each of
\* the configuration that was in force when its cycle began.
THEOREM Refinement == Spec => ImplementsService
  BY ServiceInit, ServiceStep, Invariance, ResultInvariance, PTL
  DEF Spec, ImplementsService, Service!ServiceSpec
-----------------------------------------------------------------------------
(* What a GET /metrics response may pair.  A handler loads the registry    *)
(* and then gathers the permanent gauges while cycles go on, so the        *)
(* invariant is about every registry that somebody still holds: the gauges *)
(* are never older than it, and when they are of its cycle they are final  *)
(* (Kept).  That they are final when the registry is published rests on    *)
(* what the goroutines have told of each zone (Told).                      *)

GoodParent(p, reg) ==
    /\ p.cycle >= reg.cycle
    /\ p.cycle = reg.cycle =>
          \A z \in Zones : IF z \in ZonesOf(reg.cfg) THEN p.value[z] \in GaugesOf(reg, z)
                           ELSE p.value[z] = "absent"

GoodCounts(q, reg) ==
    /\ q.cycle >= reg.cycle
    /\ q.cycle = reg.cycle => q.zones = ZonesOf(reg.cfg)

\* A cycle is under way that has not been published.
Filling == loopState \in {"resetParent", "resetCounts", "wait", "publish"}

\* A registry that is held, with the gauges p and q in cycle c.
Kept(reg, p, q, c, filling) ==
    /\ GoodParent(p, reg) /\ GoodCounts(q, reg)
    /\ reg.cycle <= c /\ (filling => reg.cycle < c)

KeptNow(reg) == Kept(reg, parentGauge, countGauges, cycle, Filling)

Held ==
    /\ registry # Nil => KeptNow(registry)
    /\ \A s \in Scrapers :
          /\ scrape[s].reg # Nil => KeptNow(scrape[s].reg)
          /\ scrape[s].parent # Nil =>
                scrape[s].reg # Nil /\ GoodParent(scrape[s].parent, scrape[s].reg)
          /\ scrape[s].counts # Nil =>
                scrape[s].reg # Nil /\ GoodCounts(scrape[s].counts, scrape[s].reg)

\* The goroutines that have set the gauge of their zone.
Told(i) == zoneState[i] \in {"probe", "done"}

GaugesTold ==
    /\ \A i \in Slots : Told(i) => parentGauge.value[ZoneOf(i)] # "absent"
    /\ \A i \in Slots : zoneState[i] = "probe" => results[i] \in {"empty", "probed"}
    /\ \A z \in Zones : parentGauge.value[z] # "absent" =>
          \E i \in DOMAIN cycleCfg.zones :
              Told(i) /\ ZoneOf(i) = z /\ GaugeOf(results[i]) = parentGauge.value[z]

FillInv ==
    /\ loopState \in {"resetCounts", "wait", "publish"} => parentGauge.cycle = cycle
    /\ loopState \in {"wait", "publish"} => countGauges.cycle = cycle /\ GaugesTold
    /\ loopState = "resetCounts" => \A z \in Zones : parentGauge.value[z] = "absent"
    /\ loopState = "publish" =>
          /\ countGauges.zones = ZonesOf(cycleCfg)
          /\ \A i \in DOMAIN cycleCfg.zones : zoneState[i] = "done"

ScrapeInv == Held /\ FillInv
-----------------------------------------------------------------------------
LEMMA ScrapeInit == Init => ScrapeInv
  BY DEF Init, ScrapeInv, Held, FillInv, NoScrape

\* The state that FillInv speaks of.
FillState == <<loopState, cycleCfg, zoneState, results, parentGauge, countGauges, cycle>>

\* What any step does to the gauges and the cycle.
LEMMA GaugeMoves ==
    ASSUME IInv, FillInv, [Next]_vars
    PROVE  \/ UNCHANGED <<parentGauge, countGauges, cycle>> /\ (Filling' => Filling)
           \/ UNCHANGED <<parentGauge, countGauges>> /\ cycle' = cycle + 1
           \/ /\ Filling /\ UNCHANGED <<countGauges, cycle>> /\ parentGauge'.cycle = cycle
           \/ /\ Filling /\ UNCHANGED <<parentGauge, cycle>> /\ countGauges'.cycle = cycle
<1> USE DEF IInv, ControlInv, TypeOK, Filling
<1>1. CASE Main \/ Environment \/ ReceiveSighup \/ UNCHANGED vars
  BY <1>1 DEF Main, StartOk, StartFails, Terminate, Exit, Environment, EditFile, SendSighup,
              Tick, Expire, ReceiveSighup, vars, loopVars, gaugeVars
<1>2. ASSUME \/ \E h \in HttpReloads : HttpReload(h)
             \/ \E r \in Reloaders : ApplyReloadedConfig(r)
             \/ \E s \in Scrapers : ServeMetrics(s)
      PROVE  UNCHANGED <<parentGauge, countGauges, cycle, loopState>>
  BY <1>2 DEF HttpReload, ApplyReloadedConfig, StoreConfig, BindResolver, BindRoots,
              Invalidate, ServeMetrics, ScrapeStart, GatherParent, GatherCounts, Respond,
              loopVars, gaugeVars
<1>3. CASE BeginCycle \/ LoadConfig \/ ResetParentGauge \/ Publish \/ Release
  BY <1>3 DEF BeginCycle, LoadConfig, ResetParentGauge, Publish, Release, gaugeVars
<1>4. CASE ResetCountsAndSpawn
  BY <1>4 DEF ResetCountsAndSpawn
<1>5. CASE WaitAndAggregate
  BY <1>5 DEF WaitAndAggregate, FillInv, CountGauges
<1>6. ASSUME NEW i \in Slots, ProbeZone(i), ~SetUndelegated(i), ~SetDelegated(i)
      PROVE  UNCHANGED <<parentGauge, countGauges, cycle, loopState>>
  BY <1>6 DEF ProbeZone, CacheHit, CacheMiss, WalkRoot, WalkReferral, WalkDelegated,
              WalkFails, CacheSet, ProbeQuery, ZoneDone, OnlyZoneVarsChange, loopVars, gaugeVars
<1>7. ASSUME NEW i \in Slots, SetUndelegated(i) \/ SetDelegated(i)
      PROVE  Filling /\ UNCHANGED <<countGauges, cycle>> /\ parentGauge'.cycle = cycle
  <2>1. loopState = "wait"
    BY <1>7, ActiveZone DEF SetUndelegated, SetDelegated, ZoneStep, Active
  <2> QED
    BY <1>7, <2>1 DEF SetUndelegated, SetDelegated, FillInv, ParentGauges, loopVars
<1> QED
  BY <1>1, <1>2, <1>3, <1>4, <1>5, <1>6, <1>7 DEF Next, RunCycle

\* The gauges of a later cycle are good for every registry.
LEMMA KeptStep ==
    ASSUME IInv, FillInv, [Next]_vars, NEW reg \in Registries, KeptNow(reg)
    PROVE  Kept(reg, parentGauge', countGauges', cycle', Filling')
<1>1. reg.cycle \in Nat /\ cycle \in Nat
  BY DEF Registries, IInv, ControlInv, TypeOK
<1>2. CASE UNCHANGED <<parentGauge, countGauges, cycle>> /\ (Filling' => Filling)
  BY <1>2 DEF KeptNow, Kept
<1>3. CASE UNCHANGED <<parentGauge, countGauges>> /\ cycle' = cycle + 1
  BY <1>1, <1>3 DEF KeptNow, Kept
<1>4. CASE Filling /\ UNCHANGED <<countGauges, cycle>> /\ parentGauge'.cycle = cycle
  BY <1>1, <1>4 DEF KeptNow, Kept, GoodParent
<1>5. CASE Filling /\ UNCHANGED <<parentGauge, cycle>> /\ countGauges'.cycle = cycle
  BY <1>1, <1>5 DEF KeptNow, Kept, GoodCounts
<1> QED
  BY <1>2, <1>3, <1>4, <1>5, GaugeMoves

\* What a cycle publishes is what its goroutines have told.
LEMMA PublishedIsKept ==
    ASSUME IInv, FillInv, Publish
    PROVE  Kept(registry', parentGauge', countGauges', cycle', Filling')
<1> USE DEF IInv, ControlInv, TypeOK
<1>1. /\ registry' = [cycle |-> cycle, cfg |-> cycleCfg, results |-> results]
      /\ UNCHANGED <<parentGauge, countGauges, cycle>> /\ ~Filling'
      /\ parentGauge.cycle = cycle /\ countGauges.cycle = cycle /\ GaugesTold
      /\ countGauges.zones = ZonesOf(cycleCfg)
      /\ \A i \in DOMAIN cycleCfg.zones : zoneState[i] = "done"
      /\ cycleCfg \in Configs /\ DOMAIN cycleCfg.zones \subseteq Slots
  BY ConfigTyped DEF Publish, FillInv, Filling, gaugeVars, CycleInv
<1>2. ASSUME NEW z \in ZonesOf(cycleCfg)
      PROVE  parentGauge.value[z] \in GaugesOf(registry', z)
  <2>1. PICK j \in DOMAIN cycleCfg.zones : ZoneOf(j) = z
    BY DEF ZonesOf, ZoneOf
  <2>2. z \in Zones /\ parentGauge.value[z] # "absent"
    BY <1>1, <2>1, ConfigTyped DEF GaugesTold, Told
  <2>3. PICK i \in DOMAIN cycleCfg.zones :
           ZoneOf(i) = z /\ GaugeOf(results[i]) = parentGauge.value[z]
    BY <1>1, <2>2 DEF GaugesTold
  <2> QED
    BY <1>1, <2>3 DEF GaugesOf, ZoneOf
<1>3. ASSUME NEW z \in Zones, z \notin ZonesOf(cycleCfg)
      PROVE  parentGauge.value[z] = "absent"
  BY <1>1, <1>3 DEF GaugesTold, ZonesOf, ZoneOf
<1> QED
  BY <1>1, <1>2, <1>3 DEF Kept, GoodParent, GoodCounts
-----------------------------------------------------------------------------
LEMMA HeldStep == IInv /\ ScrapeInv /\ [Next]_vars => Held'
<1> SUFFICES ASSUME IInv, ScrapeInv, [Next]_vars PROVE Held'
  OBVIOUS
<1> USE DEF ScrapeInv
<1>0. /\ registry \in Registries \cup {Nil}
      /\ scrape \in [Scrapers -> Scrapes]
      /\ \A s \in Scrapers : scrape[s].reg \in Registries \cup {Nil}
  BY DEF IInv, ControlInv, TypeOK, Scrapes
<1>1. ASSUME NEW reg \in Registries, KeptNow(reg)
      PROVE  Kept(reg, parentGauge', countGauges', cycle', Filling')
  BY <1>1, KeptStep
<1>2. registry' # Nil =>
         Kept(registry', parentGauge', countGauges', cycle', Filling')
  <2>1. CASE registry' = registry
    BY <1>0, <1>1, <2>1 DEF Held
  <2>2. CASE Publish
    BY <2>2, PublishedIsKept
  <2>3. registry' = registry \/ Publish
    BY DEF Next, vars, Main, StartOk, StartFails, Terminate, Exit, Environment, EditFile,
       SendSighup, Tick, Expire, ReceiveSighup, HttpReload, ApplyReloadedConfig, StoreConfig,
       BindResolver, BindRoots, Invalidate, RunCycle, BeginCycle, LoadConfig,
       ResetParentGauge, ResetCountsAndSpawn, WaitAndAggregate, Release, ProbeZone,
       CacheHit, CacheMiss, WalkRoot, WalkReferral, WalkDelegated, WalkFails, CacheSet,
       SetUndelegated, SetDelegated, ProbeQuery, ZoneDone, OnlyZoneVarsChange,
       ServeMetrics, ScrapeStart, GatherParent, GatherCounts, Respond
  <2> QED
    BY <2>1, <2>2, <2>3
<1>3. ASSUME NEW s \in Scrapers
      PROVE  /\ scrape'[s].reg # Nil =>
                   Kept(scrape'[s].reg, parentGauge', countGauges', cycle', Filling')
             /\ scrape'[s].parent # Nil =>
                   scrape'[s].reg # Nil /\ GoodParent(scrape'[s].parent, scrape'[s].reg)
             /\ scrape'[s].counts # Nil =>
                   scrape'[s].reg # Nil /\ GoodCounts(scrape'[s].counts, scrape'[s].reg)
  <2>1. CASE scrape'[s] = scrape[s]
    BY <1>0, <1>1, <2>1 DEF Held
  <2>2. CASE ScrapeStart(s)
    <3>1. /\ scrape[s] = NoScrape /\ registry # Nil
          /\ scrape'[s] = [NoScrape EXCEPT !.reg = registry]
      BY <1>0, <2>2 DEF ScrapeStart
    <3> QED
      BY <1>0, <1>1, <3>1 DEF Held, NoScrape
  <2>3. CASE GatherParent(s)
    <3>1. /\ scrape[s].reg # Nil /\ scrape[s] \in Scrapes
          /\ scrape'[s] = [scrape[s] EXCEPT !.parent = parentGauge]
      BY <1>0, <2>3 DEF GatherParent
    <3>2. /\ scrape'[s].reg = scrape[s].reg /\ scrape'[s].parent = parentGauge
          /\ scrape'[s].counts = scrape[s].counts
      BY <3>1 DEF Scrapes
    <3> QED
      BY <1>0, <1>1, <3>1, <3>2 DEF Held, KeptNow, Kept
  <2>4. CASE GatherCounts(s)
    <3>1. /\ scrape[s].reg # Nil /\ scrape[s] \in Scrapes
          /\ scrape'[s] = [scrape[s] EXCEPT !.counts = countGauges]
      BY <1>0, <2>4 DEF GatherCounts
    <3>2. /\ scrape'[s].reg = scrape[s].reg /\ scrape'[s].counts = countGauges
          /\ scrape'[s].parent = scrape[s].parent
      BY <3>1 DEF Scrapes
    <3> QED
      BY <1>0, <1>1, <3>1, <3>2 DEF Held, KeptNow, Kept
  <2>5. CASE Respond(s)
    <3>1. scrape'[s] = NoScrape
      BY <1>0, <2>5 DEF Respond
    <3> QED
      BY <3>1 DEF NoScrape
  <2>6. scrape'[s] = scrape[s] \/ ServeMetrics(s)
    <3>1. ASSUME NEW t \in Scrapers, ServeMetrics(t), t # s
          PROVE  scrape'[s] = scrape[s]
      BY <1>0, <3>1 DEF ServeMetrics, ScrapeStart, GatherParent, GatherCounts, Respond
    <3>2. scrape' = scrape \/ \E t \in Scrapers : ServeMetrics(t)
      BY DEF Next, vars, Main, StartOk, StartFails, Terminate, Exit, Environment, EditFile,
         SendSighup, Tick, Expire, ReceiveSighup, HttpReload, ApplyReloadedConfig,
         StoreConfig, BindResolver, BindRoots, Invalidate, RunCycle, BeginCycle,
         LoadConfig, ResetParentGauge, ResetCountsAndSpawn, WaitAndAggregate, Publish,
         Release, ProbeZone, CacheHit, CacheMiss, WalkRoot, WalkReferral, WalkDelegated,
         WalkFails, CacheSet, SetUndelegated, SetDelegated, ProbeQuery, ZoneDone,
         OnlyZoneVarsChange
    <3> QED
      BY <3>1, <3>2
  <2> QED
    BY <2>1, <2>2, <2>3, <2>4, <2>5, <2>6 DEF ServeMetrics
<1> QED
  BY <1>2, <1>3 DEF Held, KeptNow

LEMMA FillUnchanged == ASSUME FillInv, UNCHANGED FillState PROVE FillInv'
  BY DEF FillState, FillInv, GaugesTold, Told, ZoneOf, ZonesOf

\* A goroutine of the cycle tells at most its own zone's gauge.
LEMMA ZoneTells ==
    ASSUME IInv, FillInv, NEW i \in Slots, ProbeZone(i)
    PROVE  FillInv'
<1> USE DEF IInv, ControlInv, TypeOK
<1>0. /\ Active(i) /\ loopState = "wait" /\ i \in DOMAIN cycleCfg.zones
      /\ ZoneOf(i) \in Zones /\ DOMAIN cycleCfg.zones \subseteq Slots
      /\ \A j \in DOMAIN cycleCfg.zones : ZoneOf(j) \in Zones
      /\ parentGauge.cycle = cycle /\ countGauges.cycle = cycle /\ GaugesTold
  <2>1. Active(i)
    BY DEF ProbeZone, CacheHit, CacheMiss, WalkRoot, WalkReferral, WalkDelegated, WalkFails,
       CacheSet, SetUndelegated, SetDelegated, ProbeQuery, ZoneDone, ZoneStep, Active
  <2> QED
    BY <2>1, ActiveZone, ConfigTyped DEF FillInv, ZoneOf
<1>1. /\ UNCHANGED <<loopState, cycleCfg, cycle, countGauges>>
      /\ \A j : ZoneOf(j)' = ZoneOf(j)
  BY DEF ProbeZone, CacheHit, CacheMiss, WalkRoot, WalkReferral, WalkDelegated, WalkFails,
     CacheSet, SetUndelegated, SetDelegated, ProbeQuery, ZoneDone, OnlyZoneVarsChange,
     loopVars, gaugeVars, ZoneOf
<1>2. ASSUME GaugesTold', parentGauge'.cycle = cycle
      PROVE  FillInv'
  BY <1>0, <1>1, <1>2 DEF FillInv
<1>3. ASSUME NEW to \in {"delegated", "walk", "referral", "set", "undelegated"},
             ~Told(i), zoneState' = [zoneState EXCEPT ![i] = to],
             UNCHANGED <<results, parentGauge>>
      PROVE  FillInv'
  <2>1. \A j \in Slots : /\ Told(j)' <=> Told(j)
                         /\ zoneState'[j] = "probe" <=> zoneState[j] = "probe"
    <3>1. zoneState'[i] = to /\ \A j \in Slots \ {i} : zoneState'[j] = zoneState[j]
      BY <1>3
    <3>2. zoneState[i] \notin {"probe", "done"} /\ to \notin {"probe", "done"}
      BY <1>3 DEF Told
    <3> QED
      BY <3>1, <3>2 DEF Told
  <2>2. GaugesTold'
    <3>1. \A j \in Slots : Told(j)' => parentGauge'.value[ZoneOf(j)] # "absent"
      BY <1>0, <1>1, <1>3, <2>1 DEF GaugesTold
    <3>2. \A z \in Zones : parentGauge'.value[z] # "absent" =>
             \E j \in DOMAIN cycleCfg.zones :
                 Told(j)' /\ ZoneOf(j) = z /\ GaugeOf(results'[j]) = parentGauge'.value[z]
      BY <1>0, <1>1, <1>3, <2>1 DEF GaugesTold
    <3> QED
      BY <1>0, <1>1, <1>3, <2>1, <3>1, <3>2 DEF GaugesTold, GaugeOf
  <2> QED
    BY <1>0, <1>2, <1>3, <2>2
<1>4. CASE \/ CacheHit(i) \/ CacheMiss(i) \/ WalkRoot(i) \/ WalkReferral(i)
           \/ WalkDelegated(i) \/ WalkFails(i) \/ CacheSet(i)
  BY <1>3, <1>4 DEF CacheHit, CacheMiss, WalkRoot, WalkReferral, WalkDelegated, WalkFails,
     CacheSet, ZoneStep, Told, OnlyZoneVarsChange, gaugeVars
<1>5. ASSUME NEW to, NEW outcome, NEW told,
             \/ to = "done" /\ outcome = "failed" /\ told = "0"
             \/ to = "probe" /\ outcome = "empty" /\ told = "1",
             zoneState' = [zoneState EXCEPT ![i] = to],
             results' = [results EXCEPT ![i] = outcome],
             parentGauge' = [parentGauge EXCEPT !.value[ZoneOf(i)] = told], ~Told(i)
      PROVE  FillInv'
  <2>1. /\ parentGauge'.cycle = cycle
        /\ \A z \in Zones : parentGauge'.value[z] = IF z = ZoneOf(i) THEN told
                                                    ELSE parentGauge.value[z]
    BY <1>0, <1>5 DEF ParentGauges
  <2>2. /\ zoneState'[i] = to /\ results'[i] = outcome
        /\ told # "absent" /\ GaugeOf(outcome) = told
        /\ to = "probe" => outcome = "empty"
    BY <1>5 DEF GaugeOf
  <2>3. \A j \in Slots \ {i} : zoneState'[j] = zoneState[j] /\ results'[j] = results[j]
    BY <1>5
  <2>4. Told(i)' /\ \A j \in Slots : Told(j) => j # i /\ Told(j)'
    BY <2>2, <2>3, <1>5 DEF Told
  <2>5. ASSUME NEW j \in Slots, Told(j)'
        PROVE  parentGauge'.value[ZoneOf(j)] # "absent"
    <3>1. CASE j = i
      BY <3>1, <1>0, <2>1, <2>2
    <3>2. CASE j # i
      <4>1. Told(j)
        BY <2>3, <2>5, <3>2 DEF Told
      <4>2. j \in DOMAIN cycleCfg.zones
        BY <4>1, <1>0 DEF Told, CycleInv
      <4>3. ZoneOf(j) \in Zones
        BY <4>2, <1>0
      <4> QED
        BY <4>1, <4>3, <2>1, <2>2, <1>0 DEF GaugesTold
    <3> QED
      BY <3>1, <3>2
  <2>6. ASSUME NEW j \in Slots, zoneState'[j] = "probe"
        PROVE  results'[j] \in {"empty", "probed"}
    BY <1>0, <2>2, <2>3, <2>6 DEF GaugesTold
  <2>7. ASSUME NEW z \in Zones, parentGauge'.value[z] # "absent"
        PROVE  \E j \in DOMAIN cycleCfg.zones :
                   Told(j)' /\ ZoneOf(j) = z /\ GaugeOf(results'[j]) = parentGauge'.value[z]
    <3>1. CASE z = ZoneOf(i)
      BY <3>1, <1>0, <2>1, <2>2, <2>4
    <3>2. CASE z # ZoneOf(i)
      <4>1. PICK j \in DOMAIN cycleCfg.zones :
               Told(j) /\ ZoneOf(j) = z /\ GaugeOf(results[j]) = parentGauge.value[z]
        BY <3>2, <1>0, <2>1, <2>7 DEF GaugesTold
      <4>2. j \in Slots \ {i}
        BY <4>1, <1>0, <2>4
      <4> QED
        BY <4>1, <4>2, <3>2, <2>1, <2>3, <2>4
    <3> QED
      BY <3>1, <3>2
  <2>8. \A j : ZoneOf(j)' = ZoneOf(j)
    BY <1>1
  <2>9. GaugesTold'
    BY <1>1, <2>5, <2>6, <2>7, <2>8 DEF GaugesTold, GaugeOf
  <2> QED
    BY <1>2, <2>1, <2>9
<1>6. CASE SetUndelegated(i)
  <2>1. /\ zoneState' = [zoneState EXCEPT ![i] = "done"]
        /\ results' = [results EXCEPT ![i] = "failed"]
        /\ parentGauge' = [parentGauge EXCEPT !.value[ZoneOf(i)] = "0"] /\ ~Told(i)
    BY <1>6 DEF SetUndelegated, ZoneStep, Told
  <2> QED
    BY <2>1, <1>5
<1>7. CASE SetDelegated(i)
  <2>1. /\ zoneState' = [zoneState EXCEPT ![i] = "probe"]
        /\ results' = [results EXCEPT ![i] = "empty"]
        /\ parentGauge' = [parentGauge EXCEPT !.value[ZoneOf(i)] = "1"] /\ ~Told(i)
    BY <1>7 DEF SetDelegated, ZoneStep, Told
  <2> QED
    BY <2>1, <1>5
<1>8. ASSUME Told(i), Told(i)', UNCHANGED parentGauge,
             \A j \in Slots \ {i} : zoneState'[j] = zoneState[j] /\ results'[j] = results[j],
             GaugeOf(results'[i]) = GaugeOf(results[i]),
             zoneState'[i] = "probe" => results'[i] \in {"empty", "probed"}
      PROVE  FillInv'
  <2>1. \A j \in Slots : (Told(j)' <=> Told(j)) /\ GaugeOf(results'[j]) = GaugeOf(results[j])
    BY <1>8 DEF Told
  <2>2. \A j \in Slots : zoneState'[j] = "probe" => results'[j] \in {"empty", "probed"}
    BY <1>0, <1>8 DEF GaugesTold
  <2>3. GaugesTold'
    BY <1>0, <1>1, <1>8, <2>1, <2>2 DEF GaugesTold, GaugeOf
  <2> QED
    BY <1>0, <1>2, <1>8, <2>3
<1>9. CASE ProbeQuery(i)
  BY <1>0, <1>8, <1>9 DEF ProbeQuery, ZoneStep, Told, GaugesTold, GaugeOf,
     OnlyZoneVarsChange, gaugeVars
<1>10. CASE ZoneDone(i)
  BY <1>8, <1>10 DEF ZoneDone, ZoneStep, Told, OnlyZoneVarsChange, gaugeVars
<1> QED
  BY <1>4, <1>6, <1>7, <1>9, <1>10 DEF ProbeZone

LEMMA FillStep == IInv /\ FillInv /\ [Next]_vars => FillInv'
<1> SUFFICES ASSUME IInv, FillInv, [Next]_vars PROVE FillInv'
  OBVIOUS
<1> USE DEF IInv, ControlInv, TypeOK
<1>1. CASE UNCHANGED vars
  BY <1>1, FillUnchanged DEF vars, FillState
<1>2. CASE \/ StartFails \/ Terminate \/ Exit \/ Environment \/ ReceiveSighup
           \/ \E h \in HttpReloads : HttpReload(h)
           \/ \E r \in Reloaders : ApplyReloadedConfig(r)
           \/ \E s \in Scrapers : ServeMetrics(s)
  <2>1. UNCHANGED CycleState
    BY <1>2, OutsideCycle
  <2>2. UNCHANGED <<parentGauge, countGauges, cycle>>
    BY <1>2 DEF StartFails, Terminate, Exit, Environment, EditFile, SendSighup, Tick, Expire,
       ReceiveSighup, HttpReload, ApplyReloadedConfig, StoreConfig, BindResolver, BindRoots,
       Invalidate, ServeMetrics, ScrapeStart, GatherParent, GatherCounts, Respond,
       loopVars, gaugeVars
  <2> QED
    BY <2>1, <2>2, FillUnchanged DEF CycleState, FillState
<1>3. CASE StartOk
  BY <1>3 DEF StartOk, FillInv
<1>4. CASE BeginCycle \/ LoadConfig \/ Publish \/ Release
  BY <1>4 DEF BeginCycle, LoadConfig, Publish, Release, FillInv
<1>5. CASE ResetParentGauge
  BY <1>5 DEF ResetParentGauge, FillInv
<1>6. CASE ResetCountsAndSpawn
  <2>1. /\ loopState' = "wait" /\ parentGauge' = parentGauge /\ cycle' = cycle
        /\ parentGauge.cycle = cycle /\ \A z \in Zones : parentGauge.value[z] = "absent"
        /\ countGauges'.cycle = cycle
        /\ \A i \in Slots : zoneState'[i] \in {"get", "none"}
    BY <1>6 DEF ResetCountsAndSpawn, FillInv
  <2>2. GaugesTold'
    BY <2>1 DEF GaugesTold, Told
  <2> QED
    BY <2>1, <2>2 DEF FillInv
<1>7. CASE WaitAndAggregate
  <2>1. /\ loopState = "wait" /\ loopState' = "publish"
        /\ UNCHANGED <<cycleCfg, zoneState, results, parentGauge, cycle>>
        /\ countGauges' = [countGauges EXCEPT !.zones = ZonesOf(cycleCfg)]
        /\ \A i \in DOMAIN cycleCfg.zones : zoneState[i] = "done"
    BY <1>7 DEF WaitAndAggregate, zoneVars
  <2>2. countGauges'.cycle = countGauges.cycle /\ countGauges'.zones = ZonesOf(cycleCfg)
    BY <2>1 DEF CountGauges
  <2>3. GaugesTold'
    BY <2>1 DEF FillInv, GaugesTold, Told, ZoneOf
  <2> QED
    BY <2>1, <2>2, <2>3 DEF FillInv, ZonesOf
<1> QED
  BY <1>1, <1>2, <1>3, <1>4, <1>5, <1>6, <1>7, ZoneTells DEF Next, Main, RunCycle
-----------------------------------------------------------------------------
\* No response pairs a registry with older gauges, and gauges of its own cycle
\* are final, however many cycles and reloads go on while a handler gathers
\* (main.go:111-150, runner.go:186-315).
THEOREM ScrapesAreConsistent == Spec => []ScrapeIsConsistent
<1>1. Init => ScrapeInv
  BY ScrapeInit
<1>2. IInv /\ ScrapeInv /\ [Next]_vars => ScrapeInv'
  BY HeldStep, FillStep DEF ScrapeInv
<1>3. IInv /\ ScrapeInv => ScrapeIsConsistent
  BY DEF ScrapeInv, Held, ScrapeIsConsistent, Gathered, GoodParent, GoodCounts
<1> QED
  BY <1>1, <1>2, <1>3, Invariance, PTL DEF Spec
=============================================================================
