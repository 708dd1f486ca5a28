---------------------------- MODULE ServerChecks ----------------------------
(***************************************************************************)
(* The checks that ask every nameserver of the zone: soa, recursion,       *)
(* ns_hostname, glue and ns_classification.                                *)
(***************************************************************************)
EXTENDS Checks

CONSTANT Sorted     \* the names in alphabetical order

ASSUME SortedAssumption ==
    Sorted \in Seq(Hosts) /\ ToSet(Sorted) = Hosts /\ IsInjective(Sorted)

ParentHosts == {ns.host : ns \in ToSet(delegation.nsRecords)}
-----------------------------------------------------------------------------
(* soa                                                                     *)

\* The query fails, or brings no SOA record.
SOAFails ==
    /\ Replied("soa", "SOA") /\ reply.rrs = <<>>
    /\ Handled(<<FailedResult(Current)>>, at + 1, local)

\* Mutant: the cache of MNAME lookups is never filled.
BugSOARecord ==
    /\ Replied("soa", "SOA") /\ reply.rrs # <<>>
    /\ LET mname == Head(reply.rrs)
       IN  \E v \in Verdicts(mname) :
            Handled(<<[Result(Current.host, Current.ip, TRUE, FALSE) EXCEPT
                         !.labels = [mname |-> mname],
                         !.metrics = [soa_mname |-> 1,
                            soa_mname_in_ns_set |-> OneIf(mname \in ParentHosts),
                            soa_mname_resolves |-> OneIf(v = "yes")]]>>,
                    at + 1, local)

\* The first SOA record; its MNAME is resolved once in a cycle.
SOARecord ==
    /\ Replied("soa", "SOA") /\ reply.rrs # <<>>
    /\ LET mname == Head(reply.rrs)
       IN  \E v \in Verdicts(mname) :
            Handled(<<[Result(Current.host, Current.ip, TRUE, FALSE) EXCEPT
                         !.labels = [mname |-> mname],
                         !.metrics = [soa_mname |-> 1,
                            soa_mname_in_ns_set |-> OneIf(mname \in ParentHosts),
                            soa_mname_resolves |-> OneIf(v = "yes")]]>>,
                    at + 1, [local EXCEPT !.cache[mname] = v])
-----------------------------------------------------------------------------
(* recursion                                                               *)

\* Mutant: the loop ends at the first nameserver that is silent.
BugRecursion ==
    /\ Replied("recursion", "SOA")
    /\ IF Answered
       THEN Handled(<<[Result(Current.host, Current.ip, TRUE, FALSE) EXCEPT
                         !.metrics = [ns_recursion_available |-> OneIf(reply.ra)]]>>,
                    at + 1, local)
       ELSE Handled(<<FailedResult(Current)>>, Len(nameservers) + 1, local)

Recursion ==
    /\ Replied("recursion", "SOA")
    /\ Handled(<<IF Answered
                 THEN [Result(Current.host, Current.ip, TRUE, FALSE) EXCEPT
                         !.metrics = [ns_recursion_available |-> OneIf(reply.ra)]]
                 ELSE FailedResult(Current)>>,
               at + 1, local)
-----------------------------------------------------------------------------
(* ns_hostname                                                             *)

\* The result for an address, from what is known of its name.
HostnameResult(isCNAME) ==
    Handled(<<[Result(Current.host, Current.ip, TRUE, FALSE) EXCEPT
                 !.metrics = [ns_hostname_is_cname |-> OneIf(isCNAME = "yes"),
                    ns_hostname_syntax_valid |-> OneIf(Current.host \in ValidNames)]]>>,
            at + 1, [local EXCEPT !.stage = "servers", !.todo = <<>>, !.hop = 0,
                                  !.cache[Current.host] = isCNAME])

HostnameTurn ==
    /\ check = "ns_hostname" /\ local.stage = "servers" /\ query = Nil
    /\ at <= Len(nameservers)

HostnameKnown ==
    /\ HostnameTurn /\ local.cache[Current.host] # "unknown"
    /\ HostnameResult(local.cache[Current.host])

\* lookupCNAME: from the root, by the glue of the referrals, until a server
\* answers with a CNAME.
LookupCNAME ==
    /\ HostnameTurn /\ local.cache[Current.host] = "unknown"
    /\ Handled(<<>>, at,
        [local EXCEPT !.stage = "cname",
            !.todo = <<Question("CNAME", Current.host, [host |-> NoHost, ip |-> NoIP])>>])

\* Mutant: a referral is followed although the reply has the answer.
BugCNAMEReply ==
    /\ Replied("ns_hostname", "CNAME")
    /\ IF Contains(reply.rrs, "referral") /\ local.hop + 1 < WalkHops
       THEN Handled(<<>>, at, [local EXCEPT !.hop = @ + 1])
       ELSE HostnameResult(IF Contains(reply.rrs, "CNAME") THEN "yes" ELSE "no")

\* Without a CNAME and a referral with glue, after an error, and at the bound
\* of the loop the name counts as no alias.
CNAMEReply ==
    /\ Replied("ns_hostname", "CNAME")
    /\ IF Contains(reply.rrs, "CNAME") THEN HostnameResult("yes")
       ELSE IF Contains(reply.rrs, "referral") /\ local.hop + 1 < WalkHops
       THEN Handled(<<>>, at, [local EXCEPT !.hop = @ + 1])
       ELSE HostnameResult("no")

NSHostname == HostnameKnown \/ LookupCNAME \/ CNAMEReply
-----------------------------------------------------------------------------
(* glue                                                                    *)

GlueResult(ns, metric, source) ==
    [Result(ns.host, ns.ip, TRUE, FALSE) EXCEPT
        !.labels = [source |-> source],
        !.metrics = [m \in {metric} |-> 1]]

GlueResults(entries, metric, source) ==
    [k \in DOMAIN entries |-> GlueResult(entries[k], metric, source)]

\* The results that ProbeGlue starts with: the parent's view.
ParentView ==
    GlueResults(delegation.nsRecords, "ns_record", "parent")
        \o GlueResults(delegation.glue, "ns_glue", "parent")

\* Before it asks anybody, glue reports the parent's view.
GlueParent ==
    /\ check = "glue" /\ local.stage = "start"
    /\ Handled(ParentView, at, [local EXCEPT !.stage = "servers"])

SelfFails ==
    /\ Replied("glue", "NS") /\ ~Answered
    /\ Handled(<<FailedResult(Current)>>, at + 1, local)

\* Both families of each name are asked for, at the same nameserver.
SelfNames ==
    /\ Replied("glue", "NS") /\ Answered
    /\ Handled(<<>>, at,
        [local EXCEPT !.stage = "addresses", !.own = <<>>,
            !.todo = FlattenSeq([k \in DOMAIN reply.rrs |->
                        << Question("A", reply.rrs[k], Current),
                           Question("AAAA", reply.rrs[k], Current) >>])])

\* Mutant: a family that fails takes the addresses found before along.
BugSelfAddresses ==
    /\ check = "glue" /\ reply # Nil /\ query.type \in {"A", "AAAA"}
    /\ Handled(<<>>, at,
        [local EXCEPT !.todo = IF Answered THEN Tail(@) ELSE <<>>,
            !.own = IF ~Answered THEN <<>>
                    ELSE @ \o [k \in DOMAIN reply.rrs |->
                                  [host |-> query.name, ip |-> reply.rrs[k]]]])

\* An exchange that fails brings no address and does not end the others.
SelfAddresses ==
    /\ check = "glue" /\ reply # Nil /\ query.type \in {"A", "AAAA"}
    /\ Handled(<<>>, at,
        [local EXCEPT !.todo = Tail(@),
            !.own = @ \o [k \in DOMAIN reply.rrs |->
                            [host |-> query.name, ip |-> reply.rrs[k]]]])

\* Each address that no nameserver has reported yet, once.
SelfView ==
    /\ check = "glue" /\ local.stage = "addresses" /\ query = Nil
    /\ local.todo = <<>>
    /\ LET new == Distinct(Filter(local.own, ToSet(local.own) \ local.emitted))
       IN  Handled(GlueResults(new, "ns_record", "self")
                        \o GlueResults(new, "ns_glue", "self"),
                   at + 1,
                   [local EXCEPT !.stage = "servers",
                                 !.emitted = @ \cup ToSet(new)])

Glue == GlueParent \/ SelfFails \/ SelfNames \/ SelfAddresses \/ SelfView
-----------------------------------------------------------------------------
(* ns_classification                                                       *)

\* Mutant: a name that only a nameserver reports counts as the parent's too.
BugClassOf(h) ==
    CASE h \in ParentHosts /\ h \in local.self -> "both"
      [] h \notin local.self -> "parent-only"
      [] OTHER -> "both"

ClassOf(h) ==
    CASE h \in ParentHosts /\ h \in local.self -> "both"
      [] h \notin local.self -> "parent-only"
      [] OTHER -> "self-only"

\* The first address that the parent gives for a name, if any.
ParentIP(h) ==
    LET mine == Filter(delegation.glue, {e \in ToSet(delegation.glue) : e.host = h})
    IN  IF mine = <<>> THEN NoIP ELSE Head(mine).ip

\* The result for the first name left, which is thereby handled.
Classifies(metrics) ==
    LET h == Head(local.left)
    IN  Handled(<<[Result(h, ParentIP(h), TRUE, FALSE) EXCEPT
                     !.labels = [classification |-> ClassOf(h)],
                     !.metrics = metrics]>>,
                at, [local EXCEPT !.stage = "classify", !.left = Tail(@), !.todo = <<>>])

Stealth(reachable) == [ns_classification |-> 1, ns_stealth_reachable |-> OneIf(reachable)]

SkipAskedBefore ==
    /\ check = "ns_classification" /\ local.stage = "servers"
    /\ at <= Len(nameservers) /\ query = Nil /\ AskedBefore
    /\ Handled(<<>>, at + 1, local)

\* Mutant: the names of the last nameserver that answers replace the others'.
BugSelfSet ==
    /\ Replied("ns_classification", "NS")
    /\ Handled(<<>>, at + 1, [local EXCEPT !.self = ToSet(reply.rrs)])

\* The union of what the nameservers report; one that fails reports nothing.
SelfSet ==
    /\ Replied("ns_classification", "NS")
    /\ Handled(<<>>, at + 1, [local EXCEPT !.self = @ \cup ToSet(reply.rrs)])

UnionSorted ==
    /\ check = "ns_classification" /\ local.stage = "servers"
    /\ at > Len(nameservers)
    /\ Handled(<<>>, at,
        [local EXCEPT !.stage = "classify",
            !.left = Filter(Sorted, ParentHosts \cup local.self)])

Classify ==
    /\ local.stage = "classify" /\ local.left # <<>>
    /\ ClassOf(Head(local.left)) # "self-only"
    /\ Classifies([ns_classification |-> 1])

\* The addresses of a self-only name are asked in turn for the zone's SOA.
ResolveStealth ==
    /\ local.stage = "classify" /\ local.left # <<>>
    /\ ClassOf(Head(local.left)) = "self-only"
    /\ LET h == Head(local.left)
       IN  \E ips \in (IF expired THEN {} ELSE Lookups[h]) \cup {<<>>} :
            IF ips = <<>> THEN Classifies(Stealth(FALSE))
            ELSE Handled(<<>>, at,
                    [local EXCEPT !.stage = "stealth",
                        !.todo = [k \in DOMAIN ips |->
                            Question("SOA", "zone", [host |-> h, ip |-> ips[k]])]])

\* The first of them that answers with authority settles it.
StealthReply ==
    /\ Replied("ns_classification", "SOA")
    /\ LET working == Answered /\ reply.aa /\ reply.rrs # <<>>
       IN  IF working \/ Len(local.todo) = 1 THEN Classifies(Stealth(working))
           ELSE Handled(<<>>, at, [local EXCEPT !.todo = Tail(@)])

NSClassification ==
    SkipAskedBefore \/ SelfSet \/ UnionSorted \/ Classify \/ ResolveStealth
    \/ StealthReply

ServerCheckStep ==
    \/ SOAFails \/ SOARecord \/ Recursion \/ NSHostname \/ Glue \/ NSClassification
=============================================================================
