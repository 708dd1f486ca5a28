----------------------------- MODULE ZoneProbe -----------------------------
(***************************************************************************)
(* probeZone (cycle/runner.go) as one goroutine runs it: the delegation    *)
(* walk, the discovery of the nameservers, and the checks one after the    *)
(* other.  A delegation that comes from the cache instead of a walk is one *)
(* that an earlier walk has found.                                         *)
(*                                                                         *)
(* The checks share nothing but the deadline, and they come in the order   *)
(* of a Go map: what a behaviour shows of one check, after any others have *)
(* let the deadline pass, is what it does in any company.                  *)
(***************************************************************************)
EXTENDS ServerChecks, FailoverChecks

probeVars == <<walkVars, discoveryVars, checkVars>>

ProbeInit == WalkInit /\ DiscoveryIdle /\ ChecksIdle
-----------------------------------------------------------------------------
\* The walk; with the deadline gone its exchanges fail.
Walk ==
    /\ IF expired THEN WalkExchangeFails \/ WalkFallbackMisses ELSE WalkNext
    /\ UNCHANGED <<discoveryVars, checkVars>>

\* The discovery; with the deadline gone no name is resolved.
Discover ==
    /\ walk = "delegated"
    /\ IF expired THEN DiscoveryStep ELSE DiscoveryNext
    /\ UNCHANGED <<walkVars, checkVars>>

\* The loop over the registered checks, in any order.
StartCheck(c) ==
    /\ discovery = "done" /\ nameservers # <<>> /\ check = Nil
    /\ c \in probers \ ran
    /\ check' = c /\ ran' = ran \cup {c}
    /\ at' = 1
    /\ local' = IF c = "glue" THEN [Locals EXCEPT !.stage = "start"] ELSE Locals
    /\ UNCHANGED <<probers, query, firstErr, reply, results, expired, log, silent>>

\* The stages in which a check may be through with the nameservers and return.
LastStage == {"servers", "classify", "targets", "dmarc"}

\* The check returns.
EndCheck ==
    /\ check # Nil /\ query = Nil /\ at > Len(nameservers)
    /\ local.stage \in LastStage /\ local.left = <<>>
    /\ check = "ns_classification" => local.stage = "classify"
    /\ check = "email_auth" => local.stage = "dmarc"
    /\ check' = Nil /\ at' = 1 /\ local' = Locals
    /\ UNCHANGED <<probers, ran, query, firstErr, reply, results, expired, log, silent>>

CheckStep ==
    \/ \E c \in Checks : StartCheck(c)
    \/ AskServer \/ AskNext \/ ExchangeWithRetry \/ OnlyTryFails
    \/ ServerCheckStep \/ FailoverCheckStep
    \/ EndCheck

\* probeZone has returned.
Finished ==
    \/ walk = "failed"
    \/ discovery = "done" /\ (nameservers = <<>> \/ (ran = probers /\ check = Nil))

ProbeZone == Walk \/ Discover \/ (CheckStep /\ UNCHANGED <<walkVars, discoveryVars>>)
Deadline == ~Finished /\ Expire /\ UNCHANGED <<walkVars, discoveryVars>>
-----------------------------------------------------------------------------
\* The results of a check; those of them with a metric.
Of(c) == Filter(results, {r \in ToSet(results) : r.check = c})
With(c, metric) ==
    Filter(results, {r \in ToSet(results) : r.check = c /\ metric \in DOMAIN r.metrics})
Ran(c) == Finished /\ c \in ran

\* The exchanges that a check had with a nameserver and that were answered.
Heard(c, type, ns) ==
    {e \in log : e.query.check = c /\ e.query.type = type /\ e.query.ns = ns}

\* One dead, slow or odd nameserver never hides another: the checks that ask
\* each nameserver give one result for each of them, in their order, and that
\* result says success exactly when that very server has answered (with an SOA
\* record, for soa), whichever others failed, whenever the deadline passed
\* (soa.go:40-43, recursion.go:19-22, ns_hostname.go:35-37).
EveryNameserverHasItsVerdict ==
    \A c \in {"soa", "recursion", "ns_hostname"} : Ran(c) =>
        /\ [k \in DOMAIN Of(c) |-> [host |-> Of(c)[k].host, ip |-> Of(c)[k].ip]]
              = nameservers
        /\ c # "ns_hostname" =>
            \A k \in DOMAIN Of(c) :
                Of(c)[k].ok <=>
                    \E e \in Heard(c, "SOA", nameservers[k]) :
                        c = "soa" => e.reply.rrs # <<>>

\* The lookups that several results share are made once: within a cycle no two
\* results of a check contradict each other about the same name, even when the
\* deadline passes between them (soa.go:37, ns_hostname.go:32).
SameNameSameVerdict ==
    \A j, k \in DOMAIN results : results[j].check = results[k].check =>
        /\ (results[j].check = "soa" /\ results[j].ok /\ results[k].ok
              /\ results[j].labels = results[k].labels) =>
                results[j].metrics = results[k].metrics
        /\ (results[j].check = "ns_hostname" /\ results[j].host = results[k].host) =>
                results[j].metrics = results[k].metrics

\* A nameserver name is reported as an alias exactly when a server of its
\* lookup has answered with a CNAME, at every address of the name and also when
\* the reply refers elsewhere or the lookup ends early (ns_hostname.go:136-164).
AliasesAreFound ==
    \A k \in DOMAIN results : results[k].check = "ns_hostname" =>
        (results[k].metrics.ns_hostname_is_cname = 1 <=>
            \E e \in log : /\ e.query.type = "CNAME"
                           /\ e.query.name = results[k].host
                           /\ Contains(e.reply.rrs, "CNAME"))

\* The addresses that a nameserver has given for the names of its own NS set.
OwnView ==
    UNION {{[host |-> e.query.name, ip |-> ip] : ip \in ToSet(e.reply.rrs)} :
        e \in {e \in log : e.query.check = "glue" /\ e.query.type # "NS"}}

\* glue shows both views in full: the parent's whatever happens, and every
\* address of either family that any nameserver has given, once, although
\* other queries to the same or to other nameservers failed; a failure is
\* reported exactly for those that did not give their NS set
\* (glue.go:47-56, 83-93, 122-125).
GlueSeesBothViews ==
    Ran("glue") =>
        LET pairs(s) == [k \in DOMAIN s |-> [host |-> s[k].host, ip |-> s[k].ip]]
            shown(metric, source) == Filter(With("glue", metric),
                {r \in ToSet(Of("glue")) : r.ok /\ r.labels.source = source})
            failed == Filter(Of("glue"), {r \in ToSet(Of("glue")) : ~r.ok})
            mute == {ns \in ToSet(nameservers) : Heard("glue", "NS", ns) = {}}
        IN  /\ pairs(shown("ns_record", "parent")) = delegation.nsRecords
            /\ pairs(shown("ns_glue", "parent")) = delegation.glue
            /\ \A metric \in {"ns_record", "ns_glue"} :
                  /\ ToSet(pairs(shown(metric, "self"))) = OwnView
                  /\ IsInjective(pairs(shown(metric, "self")))
            /\ pairs(failed) = Filter(nameservers, mute)

\* Every name that the parent or any nameserver lists is classified once, by
\* who listed it, although some nameservers did not answer; a name that only
\* the nameservers list is reachable exactly when one of its addresses has
\* answered with authority for the zone (ns_classification.go:51-67, 155-178).
ClassificationIsExact ==
    Ran("ns_classification") =>
        LET mine == Of("ns_classification")
            named == UNION {ToSet(e.reply.rrs) : e \in
                        {e \in log : e.query.check = "ns_classification"
                                       /\ e.query.type = "NS"}}
            working(h) == \E e \in log :
                /\ e.query.check = "ns_classification" /\ e.query.type = "SOA"
                /\ e.query.ns.host = h /\ e.reply.aa /\ e.reply.rrs # <<>>
        IN  /\ IsInjective([k \in DOMAIN mine |-> mine[k].host])
            /\ {r.host : r \in ToSet(mine)} = ParentHosts \cup named
            /\ \A r \in ToSet(mine) :
                  /\ r.labels.classification =
                        IF r.host \notin named THEN "parent-only"
                        ELSE IF r.host \in ParentHosts THEN "both" ELSE "self-only"
                  /\ r.labels.classification = "self-only" =>
                        r.metrics.ns_stealth_reachable = OneIf(working(r.host))

\* mx reports a failure only when no nameserver gave an answer that settles
\* whether the zone has MX records, and then the last one's; a nameserver that
\* did give one is the one reported.  The records in its answer come each once,
\* in order, and each target once with its validity (mx.go:43-68, 103-134).
MXFailoverIsExhaustive ==
    Ran("mx") =>
        LET replies == {e \in log : e.query.check = "mx"}
            settling == {e \in replies : e.reply.rcode \in {"NOERROR", "NXDOMAIN"}}
            infos == With("mx", "mx_info")
            valid == With("mx", "mx_syntax_valid")
            first == Head(Of("mx"))
        IN  /\ first.ok => replies # {}
            /\ ~first.ok => /\ settling = {} /\ Len(Of("mx")) = 1
                            /\ first.ip = Last(nameservers).ip
            /\ \A e \in settling :
                  /\ first.ip = e.query.ns.ip
                  /\ [k \in DOMAIN infos |-> [target |-> infos[k].labels.target,
                                              preference |-> infos[k].labels.priority]]
                        = e.reply.rrs
                  /\ {r.labels.target : r \in ToSet(valid)} =
                        {mx.target : mx \in ToSet(e.reply.rrs)}
                  /\ IsInjective([k \in DOMAIN valid |-> valid[k].labels.target])

\* What specs/008-mx-prober-family/spec.md:94 asks of the zone's MX query: "MX
\* query fails (timeout, SERVFAIL): distinct from 'zone has no MX records'.
\* Surface as a probe-failure"; mx.go:229-231 calls only NOERROR and NXDOMAIN
\* without MX an absence.  The code looks at the exchange and not at the rcode.
MXFailureIsNotAbsence ==
    Ran("mx") /\ Head(Of("mx")).ok =>
        \E e \in log : /\ e.query.check = "mx"
                       /\ e.reply.rcode \in {"NOERROR", "NXDOMAIN"}

\* email_auth never takes a nameserver's failure for the absence of a record:
\* it says something of SPF, or of DMARC, exactly when one nameserver gave an
\* answer for that name, of its own accord or as NXDOMAIN, and what it says is
\* read off that answer; the failure of one leaves the other alone
\* (email_auth.go:163-201).
EmailAuthIsHonest ==
    Ran("email_auth") =>
        \A name \in {"zone", "_dmarc"} :
            LET heard == {e \in log : e.query.check = "email_auth"
                            /\ e.query.name = name
                            /\ e.reply.rcode \in {"NOERROR", "NXDOMAIN"}}
                metric == IF name = "zone" THEN "spf_present" ELSE "dmarc_present"
                version == IF name = "zone" THEN "spf1" ELSE "dmarc1"
                base == With("email_auth", metric)
            IN  /\ Len(base) = Cardinality(heard)
                /\ \A e \in heard :
                      base[1].metrics[metric] =
                        OneIf(\E txt \in ToSet(e.reply.rrs) : txt.version = version)
=============================================================================
