# A verification project for dnshealth_exporter

TLA+ models of the DNS health exporter in `src/`, TLC configurations that check
them on small instances, and theorems that TLAPS proves for every value of the
constants. Line numbers refer to the files under `src/`.

## 1. The system

The exporter is one Go process. A probe loop walks the DNS delegation of every
configured zone, runs the registered checks against the zone's nameservers and
publishes the results as a Prometheus registry; HTTP handlers serve `/metrics`
and reload the configuration; a goroutine reloads it on SIGHUP.

| Component | State | Operations | Correct when |
|---|---|---|---|
| Process life cycle, `main.go` 35-186 | the root context, the HTTP server | start, SIGTERM/SIGINT, shutdown with a timeout | a bad file stops the start; nothing else is promised about a cycle in flight |
| Reload, `main.go` 122-166, 188-204 | config pointer, `prober.ResolveAddress`, `prober.RootServers` (plain globals) | SIGHUP, `POST /-/reload`, `applyReloadedConfig` | the three belong together, the cache holds nothing of the old configuration, no signal is lost |
| Probe loop and runner, `main.go` 94-105, 206-228, `cycle/runner.go` 190-515 | semaphore, ticker, results under a mutex, permanent gauges | `runCycle`, `Run`, `probeZone` per zone in a goroutine | what is published is complete, of one configuration, and a cycle always ends |
| Delegation cache, `cache/delegation.go` | map from zone to delegation with expiry | `Get`, `Set`, `Invalidate` | an entry is what a walk with the present settings would find, or recent enough |
| Metrics endpoint, `main.go` 109-117 | the published cycle registry (atomic) and the permanent registry | scrape | a response does not mix final and stale values |
| Delegation walk, `prober/prober.go` 68-232 | none besides the globals | `WalkDelegation`, `extractDelegation` | ends; the nameservers are the parent's |
| Out-of-band resolver, `prober/prober.go` 234-423 | hop counter, referral budget | `ResolveHostnames`, recursion for referrals without glue | ends; the addresses are the hostname's; empty means that there are none |
| Nameserver discovery, `cycle/runner.go` 470-500, 516-583 | none | deduplication, augmentation by family | each address once, both families tried |
| Checks: soa, recursion, glue, ns_classification, ns_hostname (`prober/*.go`) | per-call caches | ask every nameserver, classify, emit results | a dead nameserver does not hide the others; two results never contradict each other about a name |
| Checks with failover: mx, email_auth | per-call caches | ask in turn until one answers | a failure is never taken for the absence of a record while a sibling answers |
| SPF lookup counter, `prober/spf_lookup.go` | count, completeness, visited targets | `countSPFLookups` | the count is exact or a lower bound; the walk is bounded |
| SPF and DMARC analysis, `prober/spf.go`, `dmarc.go` | none | parse | per RFC |
| Registry builder, `prober/registry.go` | a fresh registry | first registration of a label set wins | no result hides a different one |
| Aggregation, `cycle/runner.go` 255-431 | permanent gauges | NS classification, MX, per-server counters | a function of the results, whatever their order |
| Retry, `prober/retry.go` | none | one retry at half the timeout | none after the deadline |
| Configuration, `config/config.go` | none | load, defaults, validation | what passes is usable |
| Demo, dashboards, `testutil` | | | not part of the exporter |

How they interact. The loop reads the config pointer once per cycle and passes
it to `Run`; the walks and the checks read the two globals at every query. The
zone goroutines share the cache and, under a mutex, the result list; the loop
waits for all of them, sets the permanent gauges, and stores the registry that
the scrape handlers load. Reloads write the pointer, the globals and the cache
without a lock common to the loop or to each other. The checks and the
discovery call the resolver; the mail check calls the SPF counter, which fetches
records through it.

What is hard: reloads against running walks and against each other; scrapes
against the gauge resets of a running cycle; signals and ticks that coalesce;
goroutines that fail, or end at the deadline; shutdown in mid-cycle; recursion
that only a budget ends; partial failure of one address family, nameserver or
include. `PROJECT.json` lists these hazards at their lines.

## 2. The modules

| Module | What it is |
|---|---|
| `Exporter` | the process: loop, zone goroutines, cache, reloaders, scrapers, shutdown |
| `ProbeService` | the abstract specification that `Exporter` implements |
| `MCExporter` | its small instances: a plain zone, an offline set-up, a zone listed twice |
| `ExporterProofs` | theorems about `Exporter` |
| `SPFCounter`, `MCSPFCounter`, `SPFCounterProofs` | `countSPFLookups` |
| `Resolver`, `MCResolver`, `ResolverProofs` | `ResolveHostnames` |
| `Lists`, `ListProofs` | loops that keep some elements of a slice, and lemmas about lists |
| `ProbeTypes` | nameservers and probe results |
| `DelegationWalk` | `WalkDelegation`, `extractDelegation` |
| `Nameservers`, `NameserversProofs` | the discovery of the nameservers in `probeZone` |
| `Checks` | what the checks share: `ExchangeWithRetry`, the deadline, results |
| `ServerChecks` | soa, recursion, ns_hostname, glue, ns_classification |
| `FailoverChecks` | mx, email_auth |
| `ZoneProbe`, `ZoneProbeProofs` | `probeZone`: walk, discovery and checks, one after the other; its type invariant |
| `Publication`, `PublicationProofs` | what `Run` and `BuildRegistry` make of any results: also the abstract specification of a cycle |
| `ProbeCycle`, `MCProbeCycle`, `ProbeCycleProofs` | one cycle: `ZoneProbe` beside other zones, and `Publication` |

The operators named `Bug...` are variants with a plausible bug; no specification
uses them. They serve to see that each checked property can be violated.

### Exporter

One action is one step that another goroutine can see.

* `StartOk`, `StartFails`, `Terminate`, `Exit` are `main` from its start to its
  return. `main` does not wait for the loop, so `Exit` may happen in mid-cycle.
* `ReceiveSighup`, `HttpReload` take a new configuration; `StoreConfig`,
  `BindResolver`, `BindRoots`, `Invalidate` are the four statements of
  `applyReloadedConfig`, which any number of reloaders interleave.
* `BeginCycle`, `LoadConfig`, `ResetParentGauge`, `ResetCountsAndSpawn`,
  `WaitAndAggregate`, `Publish`, `Release` are `runCycle` and `Run`. The "skip"
  branch of the semaphore is modelled although only one goroutine calls
  `runCycle`.
* `CacheHit` to `ZoneDone` are `probeZone` in the goroutine of one position of
  the zone list; a zone listed twice has two.
* `ScrapeStart`, `GatherParent`, `GatherCounts`, `Respond` are a scrape: the
  registry is loaded first, the permanent gauges are gathered in any order.

Abstractions. A delegation is what its walk read: the root list at its start and
the override tables its referrals went through. A configuration is its zones,
roots and overrides. Time is absent: the ticker fires and a walk fails whenever
it likes, and an entry expires when a goroutine is about to get it (it leaves
the map, as `Get` cannot return it any more; nothing else looks at the expiry).
Reads and writes of the two globals race in the code; a read returns the old
value or the new one. A zone goroutine's outcome is recorded where it is
settled, not where it is appended under the lock; only outcomes of goroutines
that are done are read. The count gauges are represented by the zones that have
series. `cycle`, `epoch`, `lastInvalidated` and the tags in delegations and
gauges are auxiliary. Left out: a SIGHUP before `signal.Notify` has run, the
panic of `NewTicker` for a negative interval, log output, metrics about the
process itself.

### ProbeService

Metrics are served in snapshots. A snapshot is taken of one configuration, in
force when its cycle began, and accounts for every zone of it; cycles do not
overlap. `Exporter` implements it (`ImplementsService`) with
`inFlight` = the configuration of a cycle between `LoadConfig` and `Publish`.

### SPFCounter

`walk` and `recurse` as an explicit stack of calls; one action handles one
mechanism: `CountLookup` (a, mx, ptr, exists), `SkipMechanism`, and for an
include or a redirect in force `Overrun`, `MacroTarget`, `CutTarget`,
`FetchFails` or `FetchOk`. A record is the sequence of its parsed mechanisms.
The published records are chosen at the start and a fetch may fail at any time.
Beside the walk the module defines what the evaluation of a record costs by RFC
7208 (`Cost`), target by target and level by level, without a visited set, a
budget or a failed fetch; evaluations nested deeper than the budget are left out,
as they exceed it in any case.

### Resolver

`resolveOneFamilyWithBudget` with its recursion as a stack of calls, each with
its question, hop count, budget and the referral nameservers still to try. An
exchange fails or brings any of `Replies`: the DNS is unconstrained and may
answer the same question differently later. An address is identified by the
question it answered or by the glue that carried it; several addresses in one
answer are one. `trouble` is auxiliary: the families whose own walk met a
failure or SERVFAIL. A referral nameserver may be the hostname itself.

### ProbeCycle and its parts

`Exporter` treats the work of a zone goroutine as a choice of outcomes; these
modules open it up. Each EXTENDS the one before:
`ProbeTypes` - `DelegationWalk` - `Nameservers` - `Checks` -
`ServerChecks`/`FailoverChecks` - `ZoneProbe`, and `ProbeCycle` joins
`ZoneProbe` with `Publication`.

* `DelegationWalk`: one action is one exchange of the walk. `WalkDelegates` is
  an authoritative answer or a referral to the zone itself; `WalkFollowsGlue`
  picks the next server as the map from names to glue does; without glue
  `WalkStartsFallback` asks the same server for A and AAAA. `Hop` counts against
  the loop's bound. The servers reply anything in `WalkReplies`, or nothing.
* `Nameservers`: `TakeGlue` is one entry in `buildInitialNameservers`; each name
  that lacks a family is resolved (`Resolves`, `ResolutionFails`) in any order,
  because the code ranges over a map.
* `Checks`: a check sends a question (`AskServer`, `AskNext`), the exchange is
  answered, fails once or fails twice (`Exchanged`, `FirstTryFails`,
  `RetryFails`), the check looks at the reply and appends results (`Handled`).
  The deadline passes at any moment (`Expire`); from then on no exchange is
  answered and none is retried. `lookupCNAME` has one try (`OnlyTryFails`).
* `ServerChecks` has one action for each thing a check does with a reply, named
  after it: `SOARecord`, `Recursion`, `CNAMEReply`, `SelfView`, `Classify`,
  `StealthReply` and so on. `FailoverChecks` likewise; `Authoritative` is the
  rcode test of `fetchTXTRecords`, which `queryMX` has not.
* `Publication`: `Reset`, `Join` (a goroutine appends under the lock),
  `Collect`, `Aggregate` (one result; the three passes of `Run` touch different
  series), `Derive` (Null MX, is_primary), `BuildRegistry` (one result: a series
  that is there stays), `Publish`.

Abstractions. A name is a model value, equal up to case; a reply has the records
that the code looks at. A TXT record is a version and a sequence of terms.
Address overrides (`ResolveAddress`) are the identity here; `Exporter` has them.
A delegation from the cache is one that an earlier walk found, so a cache hit
adds nothing to the states after the walk. What `ResolveHostnames` and
`countSPFLookups` return is open, since `Resolver` and `SPFCounter` model them;
mx leaves `lookupCNAME` open, too. A lookup in a check's cache is in
`local.cache`. A behaviour shows one check: the checks share nothing but the
deadline and run in the order of a Go map, and a behaviour in which the deadline
has passed before the check starts stands for those in which the checks before
it used the time up. For the same reason the other zones return when this
goroutine is through: the goroutines share only the list, and either order of
appending occurs. `log`, `silent`, `sought` and `found` are auxiliary: what was
answered, who was silent, what was looked up.

`Publication` on its own (`PubSpec`) lets each goroutine append any results of
its zone. `ProbeCycle` implements it (`PublishesItsResults`, proved), so what is
proved of `PubSpec` for every list of zones and every results holds of the cycle.

What the models of the checks show of the code, beside the properties:

* A zone whose walk failed has its counts at 0, not absent, so the comment that 0
  means "no divergence" and absence "no data this cycle" (`cycle/runner.go:279-281`)
  does not hold of it.
* `queryMX` ignores the rcode: SERVFAIL, or any other, settles the zone as one
  without MX (run `servfail`). `MXFailoverIsExhaustive` speaks of the answers
  that do settle the matter, NOERROR and NXDOMAIN.
* When no nameserver answers ns_classification, every name is "parent-only", and
  the results still report success.
* glue reports the parent's view with success first; it is registered first and
  hides the failed self query of the same nameserver. `NoVerdictIsHidden`
  excludes glue for that reason.
* `dns_queries_total` counts results that carry an address, not queries:
  email_auth and the nameservers that mx passed over are not counted, nor are
  their timeouts.
* An authoritative answer without NS records gives a delegation without
  nameservers, which counts as delegated.
* A zone listed twice is probed twice: counts double (`CountsTheorem` covers it,
  the `probe` run has distinct zones), and a single Null MX   looks like a
  conflict (`mx_has_null_mx_rr` without `null_mx`).
* `lookupCNAME` has no way round a referral without glue and says "no alias"
  there, although its comment speaks of the authoritative answer
  (`prober/ns_hostname.go:136-138`, 190-194).

## 3. The runs

| Run | What it shows |
|---|---|
| `reload` | `TypeOK`; `FreshDelegationsAreCurrent`: entries walked since the last invalidation come from the roots and overrides now bound, once no reload is between binding and invalidating; `StaleOnlyFromInterruptedCycle`: an older entry was stored by the cycle that the invalidation interrupted |
| `service` | `PublishedIsComplete`, `ImplementsService`, with two goroutines for a zone listed twice; `ScrapeIsConsistent`: a response never pairs a registry with gauges of an earlier cycle, and gauges of the same cycle are final |
| `live` | `FirstCycleIsPublished`, `ReloadTakesEffect`, `SighupIsHonoured` under fairness, with two reloads by signal, the second signal also while the first is served; `SerialReloadsCohere`: between such reloads config, resolver and roots belong together |
| `spf` | `TypeOK`, `BudgetBoundsWork`; a complete count is exact, an incomplete one within the budget is a lower bound |
| `resolver` | `TypeOK`, `NestingIsBudgeted`, `OnlyHostAddresses`, `FailuresAreContained`, `Terminates` |
| `probe` | one whole cycle, `TypeOK` and twenty properties in four groups. Walk and discovery: `DelegationIsTheReply`, `PrefersIPv4`, `NameserversAreDistinct`, `NoAddressIsLost`. Checks: `EveryNameserverHasItsVerdict`, `SameNameSameVerdict`, `AliasesAreFound`, `GlueSeesBothViews`, `ClassificationIsExact`, `MXFailoverIsExhaustive`, `EmailAuthIsHonest`. Publication: `GaugesAreOfThisCycle`, `NullMXTellsTheRecords`, `PrimaryIsLowest`, `FirstResultIsServed`. The whole: `NoVerdictIsHidden`, `TimeoutsAreReal`, `CountsAreOfNames`, `PublishesItsResults` (the cycle implements `Publication`), `EveryCycleIsPublished` (it ends whatever the servers do) |
| `rewalk` (violated) | "the next cycle re-walks" (`main.go:191-192`): a walk under way during the reload stores the old delegation after `Invalidate` |
| `mixed` (violated) | "swap config atomically" (`specs/003-production-probe-loop/plan.md:103`): two overlapping reloads leave the config of one with the roots of the other |
| `atomic` (violated) | "the new metric set replaces the old one atomically" (`specs/003-production-probe-loop/spec.md:107`): a scrape during a cycle misses the series that the cycle has reset |
| `diamond` (violated) | "count/exceeded are a lower bound" (`prober/spf_lookup.go:28-30`): a target shared by two branches is taken for a cycle and the record for over budget |
| `nodata` (violated) | "hostname has neither A nor AAAA records" (`prober/prober.go:248-250`): an empty result without an error although one family failed or SERVFAIL was answered |
| `servfail` (violated) | "MX query fails (timeout, SERVFAIL)" is "distinct from 'zone has no MX records'" (`specs/008-mx-prober-family/spec.md:94`, likewise `prober/mx.go:229-231`): a SERVFAIL reply is a success without records |

Bounds. Two cycles are enough for a cycle to inherit what the one before left
(cache, gauges, registry); two reloads for one to overtake the other, by signal
and by HTTP, or for a signal to arrive while a reload is served; one scraper
because scrapers share nothing. `MaxReloads` counts the reloads that get past
`config.Load`; the file is edited only as long as one of them can still read it.
Two configurations that differ in zones, roots and overrides make every mixture
visible; `service` has two that differ in the zones, one of which is listed
twice, since neither publication nor scrapes read the roots. `MayStop` adds
shutdown to `reload`. The SPF run uses a budget of 4 and records of up to four
mechanisms over three names: chains, diamonds, cycles, redirects and macros all
occur on both sides of the budget. The resolver run has the real referral budget
of 3 and three hops, enough to run out of each. The `probe` run has a zone with
two nameserver names and up to three of their addresses (two IPv4, one IPv6, one
shared by both names), a third name that only the nameservers list or that is an
MX target or MNAME, and a second zone that returns nothing or three results. Its
replies are one of each kind that the code tells apart: glue that is repeated,
partial or missing, answers without the record asked for, soft failures, a
target with two preferences, Null MX alone and in conflict, malformed and
repeated SPF. Three hops run out of `WalkHops` through glue and through the
fallback; every check can lose its deadline at each exchange. The gauges start
with series of a cycle before, one of them of a zone that is gone.
`CHECK_DEADLOCK FALSE` throughout: the process exits, the number of cycles is
bounded, the algorithms return.

Fairness. `live` assumes weak fairness of each goroutine's next step (Go
schedules every goroutine that can run), of the ticker, and of `StartOk`. For a
zone goroutine it is fairness of `ProbeZone(i)` as a whole. A walk could then
follow referrals for ever if `WalkReferral` kept changing the state; it does not,
because the set of override tables it has read only grows, so fairness forces
`WalkDelegated` or `WalkFails`. In the code the depth limit of 10 and the
per-zone deadline do this. Nothing is assumed of the operator, of scrapes, or of
expiry. `resolver` assumes that the one goroutine goes on: each exchange has a
timeout. `probe` assumes weak fairness of the zone's goroutine, of its return,
of each other goroutine's return and of the aggregation; that the deadline
passes is not assumed, so the cycle ends by the bounds of its loops alone.

## 4. The proofs

| Theorem | States |
|---|---|
| `ExporterProofs!TypeCorrect` | `Spec => []TypeOK` |
| `ExporterProofs!FreshDelegations` | `Spec => []FreshDelegationsAreCurrent` |
| `ExporterProofs!StaleDelegations` | `Spec => []StaleOnlyFromInterruptedCycle` |
| `ExporterProofs!CompletePublication` | `Spec => []PublishedIsComplete` |
| `ExporterProofs!SerialReloads` | `Spec => []SerialReloadsCohere` |
| `ExporterProofs!Refinement` | `Spec => ImplementsService` |
| `ExporterProofs!ScrapesAreConsistent` | `Spec => []ScrapeIsConsistent` |
| `SPFCounterProofs!TypeCorrect`, `WalkIsBounded`, `DepthCapNeverCuts` | types; `[]BudgetBoundsWork`; the depth cap of 20 is out of reach |
| `SPFCounterProofs!CountIsExact`, `CountNeverExceeds` | `Spec => []CompleteCountIsExact`, `Spec => []InBudgetCountIsLowerBound` |
| `ResolverProofs!TypeCorrect`, `NestingBounded`, `AddressesAreTheHosts`, `FailuresStayInside` | the four invariants of `resolver` |
| `NameserversProofs!DistinctTheorem`, `NothingLostTheorem` | `[]NameserversAreDistinct`, `[]NoAddressIsLost` of the discovery, from every delegation |
| `PublicationProofs!CountsTheorem`, `NullMXTheorem`, `PrimaryTheorem`, `RegistryTheorem` | `[]GaugesAreOfThisCycle`, `[]NullMXTellsTheRecords`, `[]PrimaryIsLowest`, `[]FirstResultIsServed` of `PubSpec` |
| `ProbeCycleProofs!CycleTypeInvariant`, `TypeTheorem` | the inductive invariant of a whole cycle, and `Spec => []TypeOK` |
| `ProbeCycleProofs!PublicationTheorem`, `PublishedTheorem` | `Spec => PublishesItsResults`: the cycle implements `Publication`; the four properties of `PubSpec` hold of the cycle |
| `ProbeCycleProofs!DelegationTheorem`, `NameserversTheorem` | `DelegationIsTheReply`, `PrefersIPv4`; `NameserversAreDistinct`, `NoAddressIsLost` of the cycle |
| `ProbeCycleProofs!VerdictTheorem` | `Spec => []EveryNameserverHasItsVerdict` |
| `ProbeCycleProofs!LookupTheorem` | `SameNameSameVerdict` and `AliasesAreFound` |
| `ProbeCycleProofs!ClassificationTheorem` | `Spec => []ClassificationIsExact` |
| `ProbeCycleProofs!GlueTheorem` | `Spec => []GlueSeesBothViews` |
| `ProbeCycleProofs!FailoverTheorem` | `Spec => []MXFailoverIsExhaustive` |
| `ProbeCycleProofs!EmailTheorem` | `Spec => []EmailAuthIsHonest` |
| `ProbeCycleProofs!TimeoutsTheorem` | `Spec => []TimeoutsAreReal` |
| `ProbeCycleProofs!HiddenTheorem` | `Spec => []NoVerdictIsHidden` |
| `ProbeCycleProofs!NamesTheorem` | `Spec => []CountsAreOfNames` |

They hold for any number of zones, configurations, reloaders, scrapers, cycles
and reloads, any nameservers, any replies, any results in any order, any
delegation and any answers of the resolver, and rest only on the assumptions
the modules name:

* configurations have a non-empty zone list over `Zones`; `Nil`, `NoHost`,
  `NoIP`, `NotNS` are no other value;
* the SPF budget does not exceed the depth cap;
* `SortedAssumption`: the names have one alphabetical order;
* `ChecksAssumption`: the records of a reply are of the type that was asked for,
  since the checks read no others; a failed exchange and a reply are told apart;
* `OthersAssumption`: the results of another zone belong to it and give the
  labels that mx gives; none reports a timeout, so that `TimeoutsAreReal` can
  be told from the queries of the one zone; two results of one check, nameserver
  and address agree, glue excepted. They run the same code, and `HiddenTheorem`
  shows of the zone in detail that its results do agree. The proof found this
  assumption to be wrong in its first form, where a missing bracket excused
  every check but glue.

Exporter. The two cache properties are not inductive: the entry that `CacheSet`
stores has to be as good as an entry already is. `IInv` therefore says of a walk
under way what the properties say of the cache (`Sound`, and that it is either
fresh or was overtaken by an invalidation in the present cycle), on top of the
control structure (`ControlInv`: a configuration is loaded, goroutines run only
while the loop waits). The key step is `Invalidate`: it raises the epoch, so
every walk under way stops being fresh, which is why invalidating last is right.
The proof of refinement adds that the results of finished goroutines are there.

Scrapes. `ScrapeIsConsistent` is about a response; `Held` says it of every
registry that is published or that a handler has loaded: the gauges that can
still be gathered are no older than it, and final if they are of its cycle. A
registry is replaced in `Publish` only, and `FillInv` says why its gauges are
final then: each finished goroutine has told the gauge of its zone
(`GaugesTold`), and nobody else sets it.

Discovery. `Discovered` says in each phase what the list has: the addresses of
the delegation up to `position`, and then, with what is still to be taken, the
glue and all that has been found. `NothingLostTheorem` is stated for delegations
whose glue is exactly the entries with an address; that the walk yields no
others is part of `ZoneType`, from which `NameserversTheorem` follows.

Publication. The counts are not inductive by themselves: `IInv` has the types,
that each result belongs to a configured zone (`ResultsFit`), the count of each
gauge up to the result at hand (`CountsFit`, whose step adds one element to a
finite set), that the MX records so far are those of the results so far
(`RRsFit`), and that the registry has the first of the results so far
(`Served`). A cycle implements `PubSpec` because what the goroutine returns are
results of its zone with the labels of mx where there is `mx_info`
(`ZoneListFits`, from `CycleType`).

Lists. The checks build their results by loops over slices. `Filter` and
`Distinct` are written as recursive functions of an index, and `ListProofs`
proves what they, `ToSet`, `FlattenSeq` and the image of a list do, each fact
by the least index at which it could fail (`IntervalInduction`,
`ListInduction` state this once, for a set of indices or lists).

A zone. `ZoneType` is the type invariant of the goroutine and more than a type:
for each stage of each check it says which question may be out (`TurnFits`,
`StageOfReply`), what the local variables hold, and that every result is one
that its check can give (`ResultFits`). `CycleType` adds the publication.

Checks. A step of a cycle does one of six things to a check (`Moves`): it is
none of its business (`Apart`), starts it (`Starts`), ends it (`Ends`), leaves
its results alone (`Steady`), brings a reply (`Hears`), or handles one (`Acts`,
which appends results, each at the place of a nameserver). `LogInv` ties the
log to the question that is out. What remains is one invariant per property:

* `TurnsInv`: the results of soa, recursion and ns_hostname are those of the
  first `at - 1` nameservers, each with the verdict that the log has of it.
* `SOAInv`, `HostInv`: there is a cache with which all results agree and which
  the present one extends; for ns_hostname also with the log.
* `MXInv`: either all nameservers so far failed and there is no result, or one
  reply was taken and the records told so far, followed by those left, are its.
* `EmailInv`: for each of the two names what was asked and whether it is settled.
* `TimeoutsInv`: a result or counter with a timeout has an address in `silent`.
* `AgreeInv`: results at the same place (zone, check, nameserver, address) agree,
  of every zone that is listed once; the series of `query_success` tells the
  place, so the first result served is any of them.
* `NamesInv`: while ns_classification asks, what the nameservers listed is
  collected; then the names told followed by those left are the sorted union of
  what the parent and they list. Of a name still left, an address has answered
  with authority only if that answer is the reply at hand; the list has no
  repetition, so a late answer never changes what was told.
* `GlueInv`: the two series of the self view show the same addresses, each once;
  with what the turn at hand has collected they are all that the nameservers have
  given. The failures are the nameservers so far that gave no NS set, and none
  gives one before its turn.
* `SaysInv`, `CountInv`: every validity result of mx says what the name of its
  target is worth, and every result of ns_classification has a class; what the
  goroutine returns has one result per name and one per target that has a record.
  The results of other goroutines are of other zones, if the zone is configured
  once (one configured twice is probed and counted twice), so in the joined list
  they are still one each (`NamesOnce`), and each count is that of a set of names
  by a bijection between places and names.

SPFCounter. `fetches <= count` carries the bound: each fetch follows the count
of its mechanism, which stayed within the budget. The exactness of the count is a
balance, `CountInv`: within the budget, what is counted and what the calls of the
stack have left (`Owed`, each call one level below the one that made it) make up
the cost, or are no more than it once a fetch failed; a complete walk is over the
budget only if the cost is. A fetch moves the lookups of its target from the
mechanism to the new call, so the nesting of `Cost` has to reach as deep as the
stack: that it does is `IInv`. `BelowByLevel` is the recursion equation of the
cost, `SubtotalsAdd` that of a sum.

Resolver. `Fits` says of each call of the stack where it stands: its budget is
the initial one less its depth, the outermost asks for the hostname and the
present family, one in its fallback has budget and hops left.

Only model-checked: the liveness properties (`live`, `Terminates`,
`EveryCycleIsPublished`), which need fairness and ENABLED. Every other property
of a passing run is a theorem.

## 5. What is not modelled, and the plan

Not modelled. The walk behind an SPF fetch (`prober/spf_resolve.go`), which
follows referrals as `DelegationWalk` does and calls `ResolveHostnames` where
there is no glue; a fetch is one step of `SPFCounter`. The tokenising of SPF and
DMARC records, name syntax, configuration defaults and key canonicalisation:
pure string functions with table-driven tests. Durations, and the number of
exchanges against a deadline: there is no time. Landing page and health
endpoint, demo, dashboards, `testutil`: no part of the exporter's logic.

The order of the work, the most important behaviour first:

1. `Exporter` with `ProbeService`, its runs and its theorems (done).
2. `SPFCounter` and `Resolver`, the two bounded recursions (done).
3. `DelegationWalk`, `Nameservers`, the checks, `ZoneProbe`, `Publication` and
   `ProbeCycle` (done).
4. Proofs: `ScrapeIsConsistent`, the discovery, the aggregation and the registry;
   the type invariant of a cycle, its refinement of `Publication`, the
   properties of the walk, of all seven checks and of the counts; the exactness of
   the SPF count (done). No safety property is left to the runs alone.
5. The walk behind an SPF fetch, composed with `Resolver` as its subroutine.
