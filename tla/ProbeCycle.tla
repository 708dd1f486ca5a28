----------------------------- MODULE ProbeCycle -----------------------------
(***************************************************************************)
(* One probe cycle from the first exchange to the registry: the goroutine  *)
(* of one zone in detail (ZoneProbe), those of the others by what they may *)
(* return, and what Run and BuildRegistry make of the results              *)
(* (Publication).                                                          *)
(***************************************************************************)
EXTENDS ZoneProbe, Publication

CONSTANT Others     \* Others[z]: the result lists that another zone may return

ASSUME OthersAssumption ==
    /\ CfgZones # <<>> /\ Zone = CfgZones[1]
    /\ \A g \in DOMAIN CfgZones \ {1} : CfgZones[g] \in DOMAIN Others
    /\ \A z \in DOMAIN Others : \A list \in Others[z] :
          /\ list \in Seq(ProbeResult)
          /\ \A r \in ToSet(list) :
                /\ r.zone = z /\ ~r.timedOut
                /\ HasInfo(r) => {"target", "priority"} \subseteq DOMAIN r.labels
          /\ \A q, r \in ToSet(list) :
                (/\ q.check = r.check /\ q.check # "glue"
                 /\ q.host = r.host /\ q.ip = r.ip) => q.ok = r.ok

vars == <<probeVars, pubVars>>

Init == ProbeInit /\ PubInit

\* The goroutine of the zone runs once the gauges are reset.
GoroutineStep == phase = "probe" /\ ProbeZone /\ UNCHANGED pubVars

DeadlinePasses == phase = "probe" /\ Deadline /\ UNCHANGED pubVars

\* It returns: its results are in, its variables are gone.
ZoneReturns ==
    /\ Finished /\ Join(1, results)
    /\ walk' = "returned" /\ referral' = NoReply /\ delegation' = NoDelegation
    /\ UNCHANGED <<server, hops>>
    /\ discovery' = "idle" /\ nameservers' = <<>> /\ position' = 0
    /\ unresolved' = {} /\ resolved' = <<>> /\ sought' = {} /\ found' = {}
    /\ results' = <<>> /\ ran' = {} /\ log' = {} /\ expired' = FALSE
    /\ UNCHANGED <<probers, check, at, query, firstErr, reply, local, silent>>

\* The goroutines share nothing but the list: another one returns when this one
\* is through, so that either may be the first to append.
OtherReturns(g) ==
    /\ g # 1 /\ (Finished \/ walk = "returned")
    /\ \E list \in Others[CfgZones[g]] : Join(g, list)
    /\ UNCHANGED probeVars

Publishing == PublicationStep /\ UNCHANGED probeVars

Next ==
    \/ GoroutineStep \/ DeadlinePasses \/ ZoneReturns
    \/ \E g \in DOMAIN CfgZones : OtherReturns(g)
    \/ Publishing

\* Each goroutine goes on as long as it can; the deadline may or may not pass.
Fairness ==
    /\ WF_vars(GoroutineStep) /\ WF_vars(ZoneReturns) /\ WF_vars(Publishing)
    /\ \A g \in DOMAIN CfgZones : WF_vars(OtherReturns(g))

Spec == Init /\ [][Next]_vars /\ Fairness
-----------------------------------------------------------------------------
TypeOK ==
    /\ walk \in {"ask", "askA", "askAAAA", "delegated", "failed", "returned"}
    /\ server \in Addrs \cup {Root} /\ hops \in 0..WalkHops
    /\ delegation.nsRecords \in Seq(Nameserver) /\ delegation.glue \in Seq(Nameserver)
    /\ discovery \in {"idle", "glue", "augment", "done"}
    /\ nameservers \in Seq(Server)
    /\ unresolved \subseteq Hosts /\ at \in 1..(Len(nameservers) + 1)
    /\ check \in Checks \cup {Nil} /\ ran \subseteq probers
    /\ silent \subseteq Addrs \cup {NoIP}
    /\ results \in Seq(ProbeResult) /\ all \in Seq(ProbeResult)
    /\ phase \in {"start", "probe", "aggregate", "build", "published"}

\* The cycle does what Publication says of any results: the theorems about it
\* hold of the cycle, too (runner.go:188-432, registry.go:9-66).
PublishesItsResults == PubSpec

\* A per-server timeout is counted only against an address that has let a
\* query of this cycle time out (runner.go:263-275).
TimeoutsAreReal ==
    \A s \in DOMAIN counter : s.metric = "dns_timeouts" => s.of \in silent

\* What is served of a check is its own verdict, never that of another check,
\* nameserver or zone; glue alone has several results for a nameserver, of
\* which the first hides the others (registry.go:24-37, 60-64).
NoVerdictIsHidden ==
    phase = "published" =>
        \A k \in DOMAIN all : (Once(all[k].zone) /\ all[k].check # "glue") =>
            registry[SuccessSeries(all[k])] = OneIf(all[k].ok)

\* A zone's counts are counts of names: each nameserver name is counted once
\* in one class, and of the targets no more than there are resolve, are
\* aliases or are valid, although the results come from many exchanges with
\* many servers.  A zone that is configured twice is probed and counted twice
\* (runner.go:277-299, 368-376).
CountsAreOfNames ==
    (Derived /\ Once(Zone)) =>
        LET of(c) == {r \in ToSet(all) : r.zone = Zone /\ r.check = c}
            count(m, label) == gauge[Series(m, Zone, label)]
            targets == {r.labels.target : r \in {r \in of("mx") : HasInfo(r)}}
        IN  /\ \A class \in Classes :
                  count("ns_classification_count", class) =
                    Cardinality({r.host : r \in {r \in of("ns_classification") :
                                            r.labels.classification = class}})
            /\ count("mx_syntax_valid_count", Total) =
                  Cardinality(targets \cap (ValidNames \cup {Dot}))
            /\ \A m \in {"mx_resolved_count", "mx_cname_count"} :
                  count(m, Total) <= Cardinality(targets \ {Dot})

\* The cycle ends whatever the servers do: every loop over referrals, tries,
\* servers, names and results comes to an end (runner.go:247, retry.go:26-51,
\* prober.go:74).
EveryCycleIsPublished == <>(phase = "published")
=============================================================================
