---------------------------- MODULE Publication ----------------------------
(***************************************************************************)
(* What a cycle makes of the results of its zones: Runner.Run             *)
(* (cycle/runner.go) resets the gauges, collects what the zone goroutines  *)
(* return, and derives the per-server counters, the NS classification      *)
(* counts and the MX gauges from it; BuildRegistry (prober/registry.go)    *)
(* turns it into the metrics of the cycle.                                 *)
(*                                                                         *)
(* One step aggregates one result: the three passes of Run over the        *)
(* results touch different series.  The goroutines append in any order.    *)
(***************************************************************************)
EXTENDS ProbeTypes

CONSTANTS
    CfgZones,       \* cfg.Zones, in which a zone may come twice
    Stale           \* the series of the cycle before

\* A series of a permanent gauge or counter: its metric, its zone or address
\* and its last label, Total when it has no such label.
Total == "total"
Series(metric, of, label) == [metric |-> metric, of |-> of, label |-> label]
MXCounts == {"mx_count", "mx_resolved_count", "mx_cname_count", "mx_syntax_valid_count"}

ASSUME PublicationAssumption ==
    CfgZones \in Seq(Zones) /\ Stale \in [DOMAIN Stale -> Nat]

VARIABLES
    phase,          \* "start", "probe", "aggregate", "derive", "build", "published"
    joined,         \* the goroutines that have appended their results
    all,            \* allResults
    taken,          \* how many of them the loop at hand has seen
    gauge,          \* the permanent gauges: series to value
    counter,        \* the counters: series to value
    mxRRs,          \* the MX records seen
    registry        \* the registry of the cycle: series to value

pubVars == <<phase, joined, all, taken, gauge, counter, mxRRs, registry>>

PubInit ==
    /\ phase = "start" /\ joined = {} /\ all = <<>> /\ taken = 0
    /\ gauge = Stale /\ counter = [s \in {} |-> 0]
    /\ mxRRs = <<>> /\ registry = [s \in {} |-> 0]
-----------------------------------------------------------------------------
\* What a result has for a metric or a label of its own.
Is(r, metric, value) == metric \in DOMAIN r.metrics /\ r.metrics[metric] = value
HasInfo(r) == r.check = "mx" /\ "mx_info" \in DOMAIN r.metrics

\* The gauges that a result counts towards.
GaugesOf(r) ==
    {Series("ns_classification_count", r.zone, c) :
        c \in {c \in Classes : /\ r.check = "ns_classification"
                               /\ "classification" \in DOMAIN r.labels
                               /\ r.labels.classification = c}}
    \cup
    {Series(m, r.zone, Total) :
        m \in {m \in MXCounts : /\ r.check = "mx"
                                /\ \/ m = "mx_count" /\ HasInfo(r)
                                   \/ m = "mx_resolved_count" /\ Is(r, "mx_resolves", 1)
                                   \/ m = "mx_cname_count" /\ Is(r, "mx_is_cname", 1)
                                   \/ /\ m = "mx_syntax_valid_count"
                                      /\ Is(r, "mx_syntax_valid", 1)}}

\* Mutant: a query that failed is a query that timed out.
BugCountersOf(r) ==
    IF r.ip = NoIP THEN {}
    ELSE {Series("dns_queries", r.ip, Total)}
         \cup (IF ~r.ok THEN {Series("dns_timeouts", r.ip, Total)} ELSE {})

\* The per-server counters that it counts towards.
CountersOf(r) ==
    IF r.ip = NoIP THEN {}
    ELSE {Series("dns_queries", r.ip, Total)}
         \cup (IF r.timedOut THEN {Series("dns_timeouts", r.ip, Total)} ELSE {})

\* Inc() on some series of a vector, which come into being at 0.
Inc(vector, series) ==
    [s \in DOMAIN vector \cup series |->
        (IF s \in DOMAIN vector THEN vector[s] ELSE 0) + (IF s \in series THEN 1 ELSE 0)]

\* Set() to the values of a function over some series.
Set(vector, values) ==
    [s \in DOMAIN vector \cup DOMAIN values |->
        IF s \in DOMAIN values THEN values[s] ELSE vector[s]]

\* The series that every configured zone has.
Zeroed ==
    LET zones == {CfgZones[g] : g \in DOMAIN CfgZones}
    IN  {Series("ns_classification_count", z, c) : z \in zones, c \in Classes}
        \cup {Series(m, z, Total) : z \in zones,
                 m \in MXCounts \cup {"null_mx", "mx_has_null_mx_rr"}}
-----------------------------------------------------------------------------
\* Mutant: the gauges keep what the cycle before has set.
BugReset ==
    /\ phase = "start" /\ phase' = "probe"
    /\ UNCHANGED <<joined, all, taken, gauge, counter, mxRRs, registry>>

Reset ==
    /\ phase = "start" /\ phase' = "probe"
    /\ gauge' = [s \in {} |-> 0]
    /\ UNCHANGED <<joined, all, taken, counter, mxRRs, registry>>

\* Mutant: the slice is read before the lock is taken and written after.
BugJoin(g, list) ==
    /\ phase = "probe" /\ g \in DOMAIN CfgZones \ joined
    /\ joined' = joined \cup {g}
    /\ all' = list
    /\ UNCHANGED <<phase, taken, gauge, counter, mxRRs, registry>>

\* A goroutine appends what its zone gave, under the lock.
Join(g, list) ==
    /\ phase = "probe" /\ g \in DOMAIN CfgZones \ joined
    /\ joined' = joined \cup {g}
    /\ all' = all \o list
    /\ UNCHANGED <<phase, taken, gauge, counter, mxRRs, registry>>

\* wg.Wait returns; the series of the configured zones start from 0.
Collect ==
    /\ phase = "probe" /\ joined = DOMAIN CfgZones
    /\ phase' = "aggregate"
    /\ gauge' = Set(gauge, [s \in Zeroed |-> 0])
    /\ UNCHANGED <<joined, all, taken, counter, mxRRs, registry>>

\* Each result in turn.
Aggregate ==
    /\ phase = "aggregate" /\ taken < Len(all)
    /\ taken' = taken + 1
    /\ LET r == all[taken + 1]
       IN  /\ gauge' = Inc(gauge, GaugesOf(r))
           /\ counter' = Inc(counter, CountersOf(r))
           /\ mxRRs' = IF HasInfo(r)
                       THEN Append(mxRRs, [zone |-> r.zone, target |-> r.labels.target,
                                           priority |-> r.labels.priority])
                       ELSE mxRRs
    /\ UNCHANGED <<phase, joined, all, registry>>

\* The MX records of a zone, by their position, and those that say Null MX.
RRsOf(zone) == {k \in DOMAIN mxRRs : mxRRs[k].zone = zone}
NullRRs(zone) == {k \in RRsOf(zone) : mxRRs[k].target = Dot /\ mxRRs[k].priority = 0}
MXZones == {mxRRs[k].zone : k \in DOMAIN mxRRs}

\* Mutant: a Null MX record among others makes a Null MX zone.
BugNullMX ==
    [s \in {Series(m, z, Total) : m \in {"mx_has_null_mx_rr", "null_mx"},
                                  z \in {z \in MXZones : NullRRs(z) # {}}} |-> 1]

\* The broader signal, and the canonical one: the zone's only MX record.
NullMX ==
    LET null == {z \in MXZones : NullRRs(z) # {}}
        single == {z \in null : Cardinality(RRsOf(z)) = 1}
    IN  [s \in {Series("mx_has_null_mx_rr", z, Total) : z \in null}
               \cup {Series("null_mx", z, Total) : z \in single} |-> 1]

\* Mutant: the last record of a target decides, not the lowest of them.
BugLowest(zone, target) ==
    LET mine == {k \in RRsOf(zone) : mxRRs[k].target = target}
    IN  mxRRs[CHOOSE k \in mine : \A j \in mine : j <= k].priority

\* perTargetMinPriority.
Lowest(zone, target) ==
    CHOOSE p \in {mxRRs[k].priority : k \in {k \in RRsOf(zone) : mxRRs[k].target = target}} :
        \A k \in RRsOf(zone) : mxRRs[k].target = target => p <= mxRRs[k].priority

Targets(zone) == {mxRRs[k].target : k \in RRsOf(zone)}

\* A target is primary when its lowest preference is the lowest of the zone.
IsPrimary ==
    [s \in UNION {{Series("mx_is_primary", z, t) : t \in Targets(z)} : z \in MXZones} |->
        IF \A t \in Targets(s.of) : Lowest(s.of, s.label) <= Lowest(s.of, t)
        THEN 1 ELSE 0]

Derive ==
    /\ phase = "aggregate" /\ taken = Len(all)
    /\ phase' = "build" /\ taken' = 0
    /\ gauge' = Set(Set(gauge, NullMX), IsPrimary)
    /\ UNCHANGED <<joined, all, counter, mxRRs, registry>>
-----------------------------------------------------------------------------
(* The registry.  A series has its metric, its zone, nameserver and address, *)
(* and its labels: the check for query_success, those of the result for its  *)
(* own metrics.                                                              *)

Metric(r, name, labels) ==
    [metric |-> name, zone |-> r.zone, host |-> r.host, ip |-> r.ip, labels |-> labels]

\* Mutant: the check is left out of the labels of query_success.
BugSuccessSeries(r) == Metric(r, "query_success", [check |-> "any"])

SuccessSeries(r) == Metric(r, "query_success", [check |-> r.check])

\* What a result registers.
Gauges(r) ==
    [s \in {SuccessSeries(r)} \cup {Metric(r, m, r.labels) : m \in DOMAIN r.metrics} |->
        IF s = SuccessSeries(r) THEN IF r.ok THEN 1 ELSE 0
        ELSE r.metrics[s.metric]]

\* Mutant: the last result with the same labels wins.
BugRegister(r) == Set(registry, Gauges(r))

\* A series that is there already stays as it is.
Register(r) == Set(Gauges(r), registry)

BuildRegistry ==
    /\ phase = "build" /\ taken < Len(all)
    /\ taken' = taken + 1
    /\ registry' = Register(all[taken + 1])
    /\ UNCHANGED <<phase, joined, all, gauge, counter, mxRRs>>

Publish ==
    /\ phase = "build" /\ taken = Len(all)
    /\ phase' = "published"
    /\ UNCHANGED <<joined, all, taken, gauge, counter, mxRRs, registry>>

PublicationStep == Reset \/ Collect \/ Aggregate \/ Derive \/ BuildRegistry \/ Publish

\* A goroutine appends results of its zone, whatever they are: mx gives its
\* records with their labels.
Joins(g) ==
    /\ phase = "probe" /\ g \in DOMAIN CfgZones \ joined
    /\ joined' = joined \cup {g}
    /\ all' \in Seq(ProbeResult)
    /\ Len(all) <= Len(all') /\ SubSeq(all', 1, Len(all)) = all
    /\ \A k \in Len(all) + 1 .. Len(all') :
          /\ all'[k].zone = CfgZones[g]
          /\ HasInfo(all'[k]) => {"target", "priority"} \subseteq DOMAIN all'[k].labels
    /\ UNCHANGED <<phase, taken, gauge, counter, mxRRs, registry>>

PubNext == PublicationStep \/ \E g \in DOMAIN CfgZones : Joins(g)

PubSpec == PubInit /\ [][PubNext]_pubVars
-----------------------------------------------------------------------------
\* The results that the loop over them has passed.
Seen == IF phase = "aggregate" THEN 1..taken ELSE 1..Len(all)
Derived == phase \in {"build", "published"}

Once(zone) == Cardinality({g \in DOMAIN CfgZones : CfgZones[g] = zone}) = 1

\* The permanent gauges are those of this cycle: each count is the number of
\* this cycle's results that count towards it, whatever the cycle before has
\* left and in whatever order the goroutines appended; every configured zone
\* has its series, at 0 when it has no results, and no other zone has any
\* (runner.go:193-222, 284-299, 308-315).
GaugesAreOfThisCycle ==
    (phase = "aggregate" \/ Derived) =>
        /\ Zeroed \subseteq DOMAIN gauge
        /\ \A s \in DOMAIN gauge :
              /\ \E g \in DOMAIN CfgZones : s.of = CfgZones[g]
              /\ s.metric \in MXCounts \cup {"ns_classification_count"} =>
                    gauge[s] = Cardinality({k \in Seen : s \in GaugesOf(all[k])})

\* The MX records that the results of a zone report, by their position.
Infos(zone) == {k \in DOMAIN all : HasInfo(all[k]) /\ all[k].zone = zone}

\* A zone refuses mail exactly when its only MX record is Null MX; that Null
\* MX stands beside other records is a signal of its own (runner.go:379-400,
\* RFC 7505 section 3).
NullMXTellsTheRecords ==
    Derived =>
        \A z \in {CfgZones[g] : g \in DOMAIN CfgZones} :
            LET null == {k \in Infos(z) : all[k].labels.target = Dot
                                             /\ all[k].labels.priority = 0}
            IN  /\ gauge[Series("mx_has_null_mx_rr", z, Total)] = (IF null # {} THEN 1 ELSE 0)
                /\ gauge[Series("null_mx", z, Total)] =
                      (IF null # {} /\ Infos(z) = null /\ Cardinality(null) = 1 THEN 1 ELSE 0)

\* The primary targets of a zone are those that have a record of the lowest
\* preference, and every target has the signal, however many records it has
\* and whichever was read last (runner.go:320-325, 402-428).
PrimaryIsLowest ==
    Derived =>
        \A z \in {CfgZones[g] : g \in DOMAIN CfgZones} : \A k \in Infos(z) :
            LET s == Series("mx_is_primary", z, all[k].labels.target)
            IN  /\ s \in DOMAIN gauge
                /\ gauge[s] = 1 <=>
                      \E j \in Infos(z) :
                          /\ all[j].labels.target = all[k].labels.target
                          /\ \A i \in Infos(z) :
                                all[j].labels.priority <= all[i].labels.priority

\* Nothing that a result says is served in another's name: each series of each
\* result is there, with what the first result that has it says
\* (registry.go:24-48, 60-64).
FirstResultIsServed ==
    phase = "published" =>
        \A k \in DOMAIN all : \A s \in DOMAIN Gauges(all[k]) :
            /\ s \in DOMAIN registry
            /\ \E j \in 1..k :
                  /\ s \in DOMAIN Gauges(all[j]) /\ registry[s] = Gauges(all[j])[s]
                  /\ \A i \in 1..(j - 1) : s \notin DOMAIN Gauges(all[i])
=============================================================================
