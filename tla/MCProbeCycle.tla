---------------------------- MODULE MCProbeCycle ----------------------------
(* A zone with up to three nameserver addresses and every kind of reply that *)
(* the code tells apart, beside a second zone.                               *)
EXTENDS ProbeCycle

CONSTANTS n1, n2, m, a1, a2, x1, z1, z2

SomeHosts == {n1, n2, m, Dot}
InOrder == <<Dot, m, n1, n2>>

NS(owner, host) == [owner |-> owner, host |-> host]
Glue1(host, ip) == [host |-> host, ip |-> ip]
Referral(ns, extra) == [NoReply EXCEPT !.ns = ns, !.extra = extra]

\* Duplicate and missing glue; an authoritative answer; an answer without NS
\* records; referrals above the zone with both families, with none; a negative
\* answer; an empty reply.
SomeWalkReplies == {
    Referral(<<NS("zone", n1), NS("zone", n2)>>, <<Glue1(n1, a1), Glue1(n1, a1)>>),
    [NoReply EXCEPT !.aa = TRUE, !.answer = <<NS("zone", n1)>>,
                    !.extra = <<Glue1(n1, a1), Glue1(n1, x1)>>],
    [NoReply EXCEPT !.aa = TRUE, !.answer = <<NS("zone", NotNS)>>],
    Referral(<<NS("above", n2), NS("above", n1)>>, <<Glue1(n1, x1), Glue1(n1, a1)>>),
    Referral(<<NS("above", n2)>>, <<>>),
    Referral(<<NS("zone", NotNS)>>, <<>>),
    NoReply }

SomeLookups == [h \in SomeHosts |->
    CASE h = n1 -> {<<a1, x1>>}
      [] h = n2 -> {<<a1>>}
      [] h = m  -> {<<a1, a2>>}
      [] OTHER  -> {}]

Ok(rrs) == [status |-> "ok", rcode |-> "NOERROR", aa |-> TRUE, ra |-> FALSE, rrs |-> rrs]
MX(target, preference) == [target |-> target, preference |-> preference]
Term(tag, value) == [tag |-> tag, value |-> value]
TXT(version, terms) == [version |-> version, terms |-> terms]

SPF == TXT("spf1", <<Term("all", "pass"), Term("include", "t"), Term("all", "fail")>>)
BadSPF == TXT("spf1", <<Term("include", "")>>)
DMARC == TXT("dmarc1", <<Term("p", "reject"), Term("p", "none"), Term("rua", "u")>>)

SomeAnswers == [
    SOA  |-> {Ok(<<n1>>), [Ok(<<m>>) EXCEPT !.ra = TRUE], [Ok(<<>>) EXCEPT !.aa = FALSE]},
    NS   |-> {Ok(<<n1>>), Ok(<<m>>)},
    A    |-> {Ok(<<a1>>)},
    AAAA |-> {Ok(<<x1>>)},
    CNAME |-> {Ok(<<"CNAME", "referral">>), Ok(<<"referral">>), Ok(<<>>)},
    MX   |-> {Ok(<<>>), [Ok(<<>>) EXCEPT !.rcode = "SERVFAIL"],
              Ok(<<MX(m, 10), MX(n1, 15), MX(m, 20)>>),
              Ok(<<MX(Dot, 0)>>), Ok(<<MX(Dot, 0), MX(m, 10)>>)},
    TXT  |-> {Ok(<<SPF, DMARC>>), Ok(<<BadSPF>>), Ok(<<SPF, SPF>>),
              [Ok(<<>>) EXCEPT !.rcode = "NXDOMAIN"],
              [Ok(<<>>) EXCEPT !.rcode = "SERVFAIL"]} ]

SomeProberSets == {{c} : c \in Checks}

\* The other zone: no results, or a nameserver that answers one check and not
\* another, with a Null MX beside a real target.
Other(c, ok, labels, metrics) ==
    [zone |-> z2, check |-> c, host |-> NoHost, ip |-> NoIP, ok |-> ok,
     timedOut |-> FALSE, labels |-> labels, metrics |-> metrics]

SomeOthers == z2 :> {
    <<>>,
    << [Other("soa", FALSE, <<>>, <<>>) EXCEPT !.host = n1, !.ip = a1],
       [Other("recursion", TRUE, <<>>, [ns_recursion_available |-> 1])
          EXCEPT !.host = n1, !.ip = a1],
       Other("mx", TRUE, [target |-> m, priority |-> 10], [mx_info |-> 1]) >> }

SomeZones == <<z1, z2>>
LastCycle == [s \in {Series("mx_count", z1, Total), Series("mx_is_primary", z1, n2),
                     Series("null_mx", "gone", Total)} |-> 1]
=============================================================================
